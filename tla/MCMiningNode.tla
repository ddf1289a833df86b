------------------------------ MODULE MCMiningNode ------------------------------
(***************************************************************************)
(* MiningNode on a small tree of headers, named by their paths from         *)
(* genesis, whose difficulty is 1.  <<3>> is the header of a peer with      *)
(* another difficulty: its child <<3, 1>> can be mined here and would be    *)
(* refused from a peer.  It makes the branch longer than that of <<1>>.     *)
(***************************************************************************)
EXTENDS MiningNode

CONSTANTS
  Paths,      \* the headers besides genesis
  t1, t2, t3

Branches == {<<1>>, <<3>>, <<3, 1>>}
Siblings == {<<1>>, <<2>>}

MCHash == {<< >>} \union Paths
MCGenesis == << >>
MCParent == [h \in MCHash |-> IF h = << >> THEN ZeroHash ELSE Front(h)]
MCDepth == [h \in MCHash |-> Len(h)]
MCHashValue == [h \in MCHash |-> IF h = <<3, 1>> THEN 1 ELSE 0]
MCDifficulty == [h \in MCHash |-> IF h = <<3>> THEN 0 ELSE 1]

(* Two peers send t1. *)
MCMaxArrivals == [t \in SignedTx |-> IF t = t1 THEN 2 ELSE 1]

================================================================================
