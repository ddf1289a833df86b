SPECIFICATION Spec
CHECK_DEADLOCK FALSE
CONSTANTS
  Datum = {a, b, c}
  MaxLeaves = 5
INVARIANTS
  ProofIsShort
  FirstPairIsProved
