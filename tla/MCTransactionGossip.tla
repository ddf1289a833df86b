-------------------------- MODULE MCTransactionGossip --------------------------
(***************************************************************************)
(* TransactionGossip on nodes that are all connected to each other.         *)
(***************************************************************************)
EXTENDS TransactionGossip

CONSTANTS A, B, C

MCPeers == [n \in Node |-> Node \ {n}]

================================================================================
