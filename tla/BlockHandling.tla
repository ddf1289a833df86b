----------------------------- MODULE BlockHandling -----------------------------
(***************************************************************************)
(* What a network worker thread makes of a block it receives: the checks in *)
(* the arm Blocks of worker_loop in src/network/worker.rs.                  *)
(***************************************************************************)
EXTENDS Chain, SequencesExt

CONSTANTS
  HashValue,   \* HashValue[h]: the hash h read as a number
  Difficulty,  \* Difficulty[h]: the difficulty field of the header with hash h
  SignedTx     \* the transactions whose signature verifies

ASSUME HandlingAssumption ==
  /\ HashValue \in [Hash -> Nat]
  /\ Difficulty \in [Hash -> Nat]
  /\ SignedTx \subseteq Tx

(* Faulty workers: one does not look whether it has the block already,      *)
(* another does not compare its hash with the difficulty.                   *)
DispositionOfAny(c, block) ==
  LET parent == Parent[block.hash]
  IN  IF ~HasBlock(c, parent) THEN "orphan"
      ELSE IF HashValue[block.hash] > Difficulty[parent] THEN "unmined"
      ELSE IF ~(block.txs \subseteq SignedTx) THEN "unsigned"
      ELSE "accepted"

DispositionOfUnmined(c, block) ==
  IF HasBlock(c, block.hash) THEN "known"
  ELSE IF ~HasBlock(c, Parent[block.hash]) THEN "orphan"
  ELSE IF ~(block.txs \subseteq SignedTx) THEN "unsigned"
  ELSE "accepted"

(* Blocks: what becomes of one received block, in the order of the checks. *)
Disposition(c, block) ==
  LET parent == Parent[block.hash]
  IN  IF HasBlock(c, block.hash) THEN "known"
      ELSE IF ~HasBlock(c, parent) THEN "orphan"
      ELSE IF HashValue[block.hash] > Difficulty[parent] THEN "unmined"
      ELSE IF ~(block.txs \subseteq SignedTx) THEN "unsigned"
      ELSE "accepted"

================================================================================
