\* The two ends of a line mine: what one finds reaches the other, which may mine on
\* it, only if the nodes between announce it again.
SPECIFICATION Spec
CHECK_DEADLOCK FALSE
CONSTANTS
  n1 = n1
  n2 = n2
  n3 = n3
  n4 = n4
  ZeroHash = ZeroHash
  Tx = {}
  SignedTx = {}
  Node = {n1, n2, n3, n4}
  Worker = {w1}
  Miners = {n1, n4}
  Earlier = {}
  Paths <- Chain2
  Connected <- Line
  Hash <- MCHash
  Genesis <- MCGenesis
  Parent <- MCParent
  Depth <- MCDepth
  HashValue <- MCHashValue
  Difficulty <- MCDifficulty
  Peers <- MCPeers
  Start <- MCStart
INVARIANTS
  TypeOK
  NoBlockBeforeParent
PROPERTIES
  NodesConverge
