CONSTANTS
  G = G
  A1 = A1
  A2 = A2
  B1 = B1
  B2 = B2
  B3 = B3
  B4 = B4
  C2 = C2
  NULL = NULL
  Genesis <- G
  Blocks <- HeavyBlocks
  pprev <- HeavyParent
  nHeight <- HeavyHeight
  nChainWork <- HeavyWork
  Address <- HeavyAddress
  BadContext = {}
  BadConnect = {C2}
  SuspiciousReorgDepth = 2
  MinBlocksToKeep = 1
  PruneAfterHeight = 2
  ReconsiderAny = FALSE
  Commands = {}
  MaxCommands = 0
SPECIFICATION Spec
PROPERTIES VisibleReorgWithinDepth
