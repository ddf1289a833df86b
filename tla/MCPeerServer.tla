------------------------------ MODULE MCPeerServer ------------------------------
(***************************************************************************)
(* PeerServer with one network worker that is asked to connect to one node  *)
(* and to which others connect.                                             *)
(***************************************************************************)
EXTENDS PeerServer

CONSTANTS k1, m

ListNone == << >>
ListOne == <<k1>>
================================================================================
