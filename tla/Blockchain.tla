------------------------------- MODULE Blockchain -------------------------------
(***************************************************************************)
(* One block store as a state machine: a node inserts, one at a time and in *)
(* any order that presents a parent before its children, any blocks at all, *)
(* including blocks it already has (the miner's worker thread calls         *)
(* insert() without looking first).                                         *)
(***************************************************************************)
EXTENDS Chain

VARIABLE chain

Init == chain = NewChain

Insert(block) ==
  /\ CanInsert(chain, block)
  /\ chain' = Inserted(chain, block)

Next == \E block \in Block : Insert(block)

Spec == Init /\ [][Next]_chain

--------------------------------------------------------------------------------
(* Type correctness: the two maps have the same keys and the tip is one.    *)
TypeOK == IsChain(chain)

(* The cached heights are the real distances from genesis and every stored  *)
(* block can be reached from genesis, whatever the order of insertion, so   *)
(* neither unwrap() of insert() or of the longest-chain walk can fail.      *)
StoreRooted == Rooted(chain)

(* The tip is at the end of a longest chain of the whole tree, so a fork    *)
(* that overtakes the current branch is always noticed.                     *)
TipIsLongest == TipIsHighest(chain)

(* all_blocks_in_longest_chain() returns a path: it starts at genesis, ends *)
(* at the tip, each element is the parent of the next.                      *)
LongestChainIsPath ==
  LET path == LongestChain(chain)
  IN  /\ path[1] = Genesis
      /\ path[Len(path)] = chain.tip
      /\ \A i \in 2 .. Len(path) : Parent[path[i]] = path[i - 1]

(* A step never shortens the longest chain nor lengthens it by more than    *)
(* one block, and a branch that only draws level does not replace it: the   *)
(* first block seen at a height stays on the chain.                         *)
TipKeptUntilOvertaken ==
  [][chain'.tip # chain.tip =>
       chain'.heights[chain'.tip] = chain.heights[chain.tip] + 1]_chain

(* The store implements the longest-chain rule: its key set is the tree,    *)
(* its tip the head.                                                        *)
Rule == INSTANCE LongestChainRule
          WITH tree <- DOMAIN chain.blocks, head <- chain.tip

ImplementsRule == Rule!Spec

================================================================================
