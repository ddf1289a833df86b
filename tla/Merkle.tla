--------------------------------- MODULE Merkle ---------------------------------
(***************************************************************************)
(* The Merkle tree of src/types/merkle.rs, from the data to a verified      *)
(* proof: new() builds the tree level by level, proof() collects the        *)
(* hashes beside the path of one datum, verify() folds them to a root.      *)
(*                                                                         *)
(* SHA-256 is collision free: the hash of a datum is the datum, the hash of *)
(* two concatenated hashes is the pair of them.                             *)
(***************************************************************************)
EXTENDS Naturals, SequencesExt

CONSTANTS
  Datum,     \* the data, or their hashes
  MaxLeaves  \* bound: the length of the longest input

(* [0u8; 32], which is the hash of nothing. *)
ZeroHash == << >>

ASSUME MerkleAssumption == MaxLeaves \in Nat /\ ZeroHash \notin Datum

VARIABLES
  data,     \* the argument of new()
  hashes,   \* the levels of the tree, the data first
  pc,       \* what has been called
  index,    \* the argument of proof()
  proof     \* its result

vars == <<data, hashes, pc, index, proof>>

Init ==
  /\ data \in UNION {[1 .. n -> Datum] : n \in 0 .. MaxLeaves}
  /\ hashes = << >>
  /\ pc = "new"
  /\ index = 0
  /\ proof = << >>

(* SHA-256 of two hashes, one after the other. *)
HashPair(left, right) == <<left, right>>

(* A level with an odd number of hashes gets its last one twice. *)
EvenOut(level) == IF Len(level) % 2 = 1 THEN Append(level, Last(level)) ELSE level

(* The next level: position i holds the hash of positions i and i + 1. *)
LevelAbove(level) ==
  [i \in 1 .. Len(level) \div 2 |-> HashPair(level[i], level[i + 1])]

(* The beginning of new(): no datum, one datum, or a first level to build on. *)
HashData ==
  /\ pc = "new"
  /\ \/ /\ data = << >>
        /\ pc' = "built"
        /\ UNCHANGED hashes
     \/ /\ Len(data) = 1
        /\ pc' = "built"
        /\ hashes' = <<data>>
     \/ /\ Len(data) > 1
        /\ pc' = "building"
        /\ hashes' = <<EvenOut(data)>>
  /\ UNCHANGED <<data, index, proof>>

(* One turn of the loop of new(); a level of one hash is the root. *)
BuildLevel ==
  /\ pc = "building"
  /\ LET level == LevelAbove(Last(hashes))
     IN  IF Len(level) = 1
           THEN hashes' = Append(hashes, level) /\ pc' = "built"
           ELSE hashes' = Append(hashes, EvenOut(level)) /\ pc' = "building"
  /\ UNCHANGED <<data, index, proof>>

Root == IF hashes = << >> THEN ZeroHash ELSE Last(hashes)[1]

(* The position of the path on each level, counted from 0, for the datum at *)
(* position i: pointer / 2 from one level to the next.                      *)
Pointer(i) ==
  LET pointer[k \in Nat] == IF k = 0 THEN i ELSE pointer[k - 1] \div 2
  IN  pointer

(* A faulty proof(): the hash on the path itself; the top level is left out. *)
NeighbourItself(level, pointer) == level[pointer + 1]

(* proof(): on every level but the root's, the neighbour of the hash on the *)
(* path.                                                                    *)
Neighbour(level, pointer) ==
  IF pointer % 2 = 0 THEN level[pointer + 2] ELSE level[pointer]

ProofWithoutTop(i) ==
  [k \in 1 .. Len(hashes) - 2 |-> Neighbour(hashes[k], Pointer(i)[k - 1])]

ProofOf(i) ==
  [k \in 1 .. Len(hashes) - 1 |-> Neighbour(hashes[k], Pointer(i)[k - 1])]

Prove(i) ==
  /\ pc = "built"
  /\ i \in 0 .. Len(data) - 1
  /\ index' = i
  /\ proof' = ProofOf(i)
  /\ pc' = "proved"
  /\ UNCHANGED <<data, hashes>>

(* The hashes that verify() computes from a datum and the hashes beside its *)
(* path; the pointer decides the side of each hash.                         *)
Test(datum, path, i) ==
  LET test[k \in 0 .. Len(path)] ==
        IF k = 0 THEN datum
        ELSE IF Pointer(i)[k - 1] % 2 = 0
               THEN HashPair(test[k - 1], path[k])
               ELSE HashPair(path[k], test[k - 1])
  IN  test

Verify(root, datum, path, i) ==
  /\ root # ZeroHash
  /\ root = Test(datum, path, i)[Len(path)]

Next == HashData \/ BuildLevel \/ \E i \in 0 .. MaxLeaves - 1 : Prove(i)

Spec == Init /\ [][Next]_vars

--------------------------------------------------------------------------------
(* The powers of two. *)
Power[n \in Nat] == IF n = 0 THEN 1 ELSE 2 * Power[n - 1]

(* The tree is no higher than it must be: a proof for one of n data has as  *)
(* many hashes as it takes to halve n down to one, for odd levels too.      *)
ProofIsShort ==
  pc = "proved" /\ Len(data) > 1 =>
    /\ Power[Len(proof)] >= Len(data)
    /\ Power[Len(proof) - 1] < Len(data)

(* The proof of the first or the second datum verifies for that datum and   *)
(* for no other.                                                            *)
FirstPairIsProved ==
  pc = "proved" /\ index \in {0, 1} =>
    \A d \in Datum : Verify(Root, d, proof, index) <=> d = data[index + 1]

================================================================================
