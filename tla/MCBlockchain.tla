------------------------------ MODULE MCBlockchain ------------------------------
(***************************************************************************)
(* Blockchain on a small tree of headers.  A header is named by the path of *)
(* branch numbers that leads to it from genesis, which is exactly what a    *)
(* collision-free hash of (parent, nonce) commits to.                       *)
(***************************************************************************)
EXTENDS Blockchain, SequencesExt

CONSTANTS
  Branches,  \* how many children a header may have
  MaxDepth   \* how deep the tree of headers is

MCHash == UNION {[1 .. n -> 1 .. Branches] : n \in 0 .. MaxDepth}
MCGenesis == << >>
MCParent == [h \in MCHash |-> IF h = << >> THEN ZeroHash ELSE Front(h)]
MCDepth == [h \in MCHash |-> Len(h)]

================================================================================
