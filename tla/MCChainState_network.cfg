CONSTANTS
  G = G
  A1 = A1
  A2 = A2
  B1 = B1
  B2 = B2
  B3 = B3
  B4 = B4
  C2 = C2
  NULL = NULL
  Genesis <- G
  Blocks <- LongBlocks
  pprev <- LongParent
  nHeight <- LongHeight
  nChainWork <- LongHeight
  Address <- LongAddress
  BadContext = {}
  BadConnect = {B2}
  SuspiciousReorgDepth = 0
  MinBlocksToKeep = 1
  PruneAfterHeight = 2
  ReconsiderAny = FALSE
  Commands = {"system error"}
  MaxCommands = 1
SPECIFICATION Spec
PROPERTIES UnlockOnlyWithProgress CandidateKeysStable ABCReturns BlockIsConsidered
