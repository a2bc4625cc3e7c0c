\* The tail, the seed and the re-drive: one retry, two faults.
SPECIFICATION Spec
CONSTANTS
  d1 = d1
  d2 = d2
  Docs = {d1, d2}
  Noise = Noise
  Gone = Gone
  None = None
  Kinds <- WorkKinds
  MaxSeq = 3
  MaxEnv = 3
  FeedBatch = 2
  SeedPage = 1
  RedrivePage = 1
  FlushAt = 2
  MaxRetries = 1
  MaxFaults = 2
  Staggered = TRUE
CHECK_DEADLOCK FALSE
SYMMETRY Symmetry
INVARIANT TypeOK
INVARIANT NothingMissed
PROPERTY CursorNeverRewinds
