CONSTANTS
  G = G
  A1 = A1
  A2 = A2
  B1 = B1
  B2 = B2
  NULL = NULL
  Corrupt = Corrupt
  Genesis <- G
  Blocks <- TreeBlocks
  pprev <- TreeParent
  nHeight <- TreeHeight
  MaxTipChanges = 2
  MaxStops = 1
SPECIFICATION Spec
INVARIANTS EntriesAreRight CommitIsConsistent SyncedIsServed CallbacksDoNotFail
PROPERTIES CatchesUp
CHECK_DEADLOCK FALSE
