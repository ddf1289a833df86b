\* The same, and three blocks to mine on the one that is missing.
SPECIFICATION Spec
CHECK_DEADLOCK FALSE
CONSTANTS
  n1 = n1
  n2 = n2
  n3 = n3
  n4 = n4
  ZeroHash = ZeroHash
  Tx = {}
  SignedTx = {}
  Node = {n1, n2}
  Worker = {w1}
  Miners = {n1}
  Earlier = {n1}
  Paths <- Siblings
  Connected <- Pair
  Hash <- MCHash
  Genesis <- MCGenesis
  Parent <- MCParent
  Depth <- MCDepth
  HashValue <- MCHashValue
  Difficulty <- MCDifficulty
  Peers <- MCPeers
  Start <- MCStart
INVARIANTS
  OrphansWaitForParent
