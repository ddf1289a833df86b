\* Two nodes connect, one of them resets its connection.
SPECIFICATION Spec
CHECK_DEADLOCK FALSE
CONSTANTS
  k1 = k1
  m = m
  Caller = {c1, c2}
  Listed <- ListNone
  Worker = {w1}
  MinerWorker = m
  ControlCap = 2
  MsgCap = 1
  MaxConns = 2
  MaxEvents = 1
  MaxOrphans = 0
PROPERTIES
  EndlesslyAccepts
