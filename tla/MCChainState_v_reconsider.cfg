CONSTANTS
  G = G
  A1 = A1
  A2 = A2
  B1 = B1
  B2 = B2
  B3 = B3
  B4 = B4
  C2 = C2
  NULL = NULL
  Genesis <- G
  Blocks <- ForkBlocks
  pprev <- ForkParent
  nHeight <- ForkHeight
  nChainWork <- ForkHeight
  Address <- ForkAddress
  BadContext = {}
  BadConnect = {}
  SuspiciousReorgDepth = 0
  MinBlocksToKeep = 1
  PruneAfterHeight = 2
  ReconsiderAny = TRUE
  Commands = {"invalidate", "reconsider"}
  MaxCommands = 2
SPECIFICATION Spec
INVARIANTS TipIsBest
