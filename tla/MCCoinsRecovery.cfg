CONSTANTS
  G = G
  A1 = A1
  A2 = A2
  A3 = A3
  B1 = B1
  B2 = B2
  w = w
  x = x
  y = y
  NULL = NULL
  Genesis = G
  Blocks <- MCBlocks
  pprev <- MCpprev
  nHeight <- MCnHeight
  Outpoints = {w, x, y}
  vtx <- MCvtx
  MIN_BLOCKS_TO_KEEP = 2
  MaxUnflushed = 3
  MaxCrashes = 2
SPECIFICATION Spec
INVARIANTS UtxoOfTip DatabaseRecoverable
PROPERTIES ComesBackUp
CHECK_DEADLOCK FALSE
