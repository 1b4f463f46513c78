CONSTANTS
  Workers = {w1, w2}
  Master = m
  Checks = {c1, c2, c3, c4}
  Failing = {c4}
  nBatchSize = 2
  MaxRounds = 2
SPECIFICATION CheckSpec
INVARIANTS TodoIsExact ResultIsRight
PROPERTIES WaitReturns WorkersStop
CHECK_DEADLOCK FALSE
