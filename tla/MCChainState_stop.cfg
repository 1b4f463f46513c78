CONSTANTS
  G = G
  A1 = A1
  A2 = A2
  B1 = B1
  B2 = B2
  B3 = B3
  B4 = B4
  C2 = C2
  NULL = NULL
  Genesis <- G
  Blocks <- ShortBlocks
  pprev <- ShortParent
  nHeight <- ShortHeight
  nChainWork <- ShortWork
  Address <- ShortAddress
  BadContext = {}
  BadConnect = {B2}
  SuspiciousReorgDepth = 2
  MinBlocksToKeep = 1
  PruneAfterHeight = 2
  ReconsiderAny = FALSE
  Commands = {"shutdown", "system error", "prune", "invalidate"}
  MaxCommands = 2
SPECIFICATION Spec
INVARIANTS CandidatesComplete UnlinkedBlocks ReorgWithinDepth
