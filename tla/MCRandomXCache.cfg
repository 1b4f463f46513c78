CONSTANTS
  c1 = c1
  c2 = c2
  e1 = e1
  e2 = e2
  Nothing = Nothing
  Callers <- TwoCallers
  RandomXEpochs <- TwoEpochs
  CacheSize = 1
  FastMode = TRUE
  MayFail = TRUE
  MaxThreads = 3
SPECIFICATION RandomXSpec
INVARIANTS NoThreadOutlivesStop
PROPERTIES EntriesAreStable FastIsBuilt
