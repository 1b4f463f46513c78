CONSTANTS
  c1 = c1
  c2 = c2
  f = f
  COutPoints = {o1, o2}
  Coins = {c1, c2}
  Unspendable = {f}
  SPENT = SPENT
  ABSENT = ABSENT
  Hashes = {b1, b2}
  NoHash = NoHash
  DynamicMemoryUsage <- MCUsage
SPECIFICATION CacheSpec
INVARIANTS FlagsAreCorrect UsageIsExact
PROPERTIES ImplementsUtxoSet
