\* One worker, one caller that may come back from the same port, and a known
\* peer; connections fail, peers leave, and the channels are full at once.
SPECIFICATION Spec
CHECK_DEADLOCK FALSE
CONSTANTS
  k1 = k1
  m = m
  Caller = {c1}
  Listed <- ListOne
  Worker = {w1}
  MinerWorker = m
  ControlCap = 2
  MsgCap = 1
  MaxConns = 2
  MaxEvents = 2
  MaxOrphans = 2
INVARIANTS
  TypeOK
  PeersAreServed
  StuckForACause
  StoredIsAnnounced
PROPERTIES
  MutexIsReleased
  DeadPeersAreForgotten
  WorkersFollowServer
