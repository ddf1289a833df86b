---------------------------- MODULE LongestChainRule ----------------------------
(***************************************************************************)
(* What a block store promises, without heights or maps: it holds a tree of *)
(* blocks that grows one block at a time, and its head is a deepest block   *)
(* of the tree that is given up only when it is no longer a deepest one.    *)
(***************************************************************************)
EXTENDS Naturals

CONSTANTS
  Hash, Genesis,
  Parent,    \* the parent of every block but Genesis
  Depth      \* the distance of a block from Genesis

VARIABLES
  tree,      \* the blocks received so far
  head       \* the end of the longest chain

vars == <<tree, head>>

Deepest(S) == {h \in S : \A g \in S : Depth[g] <= Depth[h]}

Init == tree = {Genesis} /\ head = Genesis

(* A block with a known parent arrives; the first deepest block stays head. *)
Grow(h) ==
  /\ h \in Hash \ {Genesis}
  /\ Parent[h] \in tree
  /\ tree' = tree \union {h}
  /\ head' \in Deepest(tree')
  /\ head \in Deepest(tree') => head' = head

Next == \E h \in Hash : Grow(h)

Spec == Init /\ [][Next]_vars

================================================================================
