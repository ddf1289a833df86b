\* A node that has only the genesis block connects to a node that has one more,
\* which then mines a third.  One network worker per node.
SPECIFICATION Spec
CHECK_DEADLOCK FALSE
CONSTANTS
  n1 = n1
  n2 = n2
  n3 = n3
  n4 = n4
  ZeroHash = ZeroHash
  Tx = {}
  SignedTx = {}
  Node = {n1, n2}
  Worker = {w1}
  Miners = {n1}
  Earlier = {n1}
  Paths <- Chain2
  Connected <- Pair
  Hash <- MCHash
  Genesis <- MCGenesis
  Parent <- MCParent
  Depth <- MCDepth
  HashValue <- MCHashValue
  Difficulty <- MCDifficulty
  Peers <- MCPeers
  Start <- MCStart
PROPERTIES
  NodesConverge
