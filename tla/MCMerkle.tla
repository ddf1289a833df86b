-------------------------------- MODULE MCMerkle --------------------------------
(***************************************************************************)
(* All inputs of up to MaxLeaves data, with and without equal data: from    *)
(* five data on, a tree has an odd level above the data.                    *)
(***************************************************************************)
EXTENDS Merkle

================================================================================
