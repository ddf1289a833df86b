\* Three nodes, all connected, so that a transaction comes from two peers to two
\* network workers; once, it leaves a pool for a block while it is under way.
SPECIFICATION Spec
CHECK_DEADLOCK FALSE
CONSTANTS
  A = A
  B = B
  C = C
  Node = {A, B, C}
  Worker = {w1, w2}
  Tx = {t1}
  Generators = {A}
  MaxInclusions = 1
  Peers <- MCPeers
INVARIANTS
  AnnouncedOnce
  AnnouncedIsPooled
PROPERTIES
  EveryPoolGetsEveryTransaction
  GossipDiesOut
