SPECIFICATION Spec
CHECK_DEADLOCK FALSE
CONSTANTS
  Theta = {0, 2, 3}
  Scale = 3
  WordSize = 8
  MaxSignals = 3
  MaxMade = 3
INVARIANTS
  TypeOK
  NothingLeftBehind
PROPERTIES
  ExitIsHonoured
  MadeIsAnnounced
