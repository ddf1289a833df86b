\* A miner that is ahead of its worker.
SPECIFICATION Spec
CHECK_DEADLOCK FALSE
CONSTANTS
  ZeroHash = ZeroHash
  t1 = t1
  t2 = t2
  t3 = t3
  Tx = {t1, t2, t3}
  SignedTx = {t1, t2}
  BlockLimit = 1
  Lambda = {1}
  MaxSignals = 1
  MaxArrivals <- MCMaxArrivals
  Paths <- Siblings
  Hash <- MCHash
  Genesis <- MCGenesis
  Parent <- MCParent
  Depth <- MCDepth
  HashValue <- MCHashValue
  Difficulty <- MCDifficulty
INVARIANTS
  OwnBlocksChain
