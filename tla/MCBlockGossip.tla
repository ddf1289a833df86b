----------------------------- MODULE MCBlockGossip -----------------------------
(***************************************************************************)
(* BlockGossip on a few nodes.  A header is named by the path of child      *)
(* numbers that leads to it from genesis; the set of paths bounds what can  *)
(* be mined.                                                                *)
(***************************************************************************)
EXTENDS BlockGossip

CONSTANTS
  n1, n2, n3, n4,  \* nodes
  Paths,           \* the headers besides genesis
  Connected,       \* the pairs of nodes with a connection
  Earlier          \* the nodes that have an old chain when the run starts

Chain2 == {<<1>>, <<1, 1>>}
Siblings == {<<1>>, <<1, 1>>, <<1, 2>>, <<1, 3>>}

Pair == {{n1, n2}}
Line == {{n1, n2}, {n2, n3}, {n3, n4}}

MCHash == {<< >>} \union Paths
MCGenesis == << >>
MCParent == [h \in MCHash |-> IF h = << >> THEN ZeroHash ELSE Front(h)]
MCDepth == [h \in MCHash |-> Len(h)]

(* Every header is below every difficulty. *)
MCHashValue == [h \in MCHash |-> 0]
MCDifficulty == [h \in MCHash |-> 1]

MCPeers == [n \in Node |-> {m \in Node : {m, n} \in Connected}]

(* The chain that the earlier nodes had before the others joined. *)
OldChain == Inserted(NewChain, [hash |-> <<1>>, txs |-> {}])

MCStart == [n \in Node |-> IF n \in Earlier THEN OldChain ELSE NewChain]

================================================================================
