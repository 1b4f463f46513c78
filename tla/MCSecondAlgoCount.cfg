SPECIFICATION DifficultySpec
CONSTANTS
  G = G  A1 = A1  A2 = A2  A3 = A3  A4 = A4  B1 = B1  B2 = B2  B3 = B3
  NULL = NULL
  NoBits = NoBits
  Blocks <- MCBlocks
  Genesis = G
  pprev <- MCpprev
  nHeight <- MCnHeight
  SecondAlgo <- MCSecondAlgo
  nDualAlgoActivationHeight = 2
  nPowTargetSpacing = 300
  nDualAlgoTargetSpacing = 600
  nASERTHalfLife = 172800
  nMedianTimeSpan = 11
  PowLimitBits <- MCPowLimitBits
  AnchorBits <- MCAnchorBits
  Timelines <- MCTimelines
INVARIANTS CachedIsWalked BitsAreReproducible TargetsInRange BehindIsEasier HalfLifeDoubles
