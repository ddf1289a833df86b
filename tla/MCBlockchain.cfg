\* All insertion orders of all subtrees of a binary tree of headers of depth 3:
\* forks at every level, ties, and overtaking branches.
SPECIFICATION Spec
CONSTANTS
  Branches = 2
  MaxDepth = 3
  Tx = {}
  ZeroHash = ZeroHash
  Hash <- MCHash
  Genesis <- MCGenesis
  Parent <- MCParent
  Depth <- MCDepth
INVARIANTS
  TypeOK
  StoreRooted
  TipIsLongest
  LongestChainIsPath
PROPERTIES
  ImplementsRule
