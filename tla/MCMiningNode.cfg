\* Two transactions, one of which arrives twice, blocks of one transaction, a branch
\* that overtakes, two difficulties, any two control signals, and a miner that sleeps
\* with the pool locked.  Peers also send a header without the proof of work that is
\* asked of them and blocks with a transaction (t3) whose signature does not verify.
SPECIFICATION Spec
CHECK_DEADLOCK FALSE
CONSTANTS
  ZeroHash = ZeroHash
  t1 = t1
  t2 = t2
  t3 = t3
  Tx = {t1, t2, t3}
  SignedTx = {t1, t2}
  BlockLimit = 1
  Lambda = {1}
  MaxSignals = 2
  MaxArrivals <- MCMaxArrivals
  Paths <- Branches
  Hash <- MCHash
  Genesis <- MCGenesis
  Parent <- MCParent
  Depth <- MCDepth
  HashValue <- MCHashValue
  Difficulty <- MCDifficulty
INVARIANTS
  TypeOK
  InsertionsAreSafe
  LostOnlyToSideBranches
  OwnBlocksAreValid
  StoredBlocksAreValid
  MinedAsOftenAsArrived
PROPERTIES
  ImplementsRule
  ExitIsHonoured
  ReceivedBlocksAreStored
