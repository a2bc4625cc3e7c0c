SPECIFICATION FairSpec
CONSTANTS
  d1 = d1
  d2 = d2
  Docs = {d1, d2}
  Noise = Noise
  Gone = Gone
  None = None
  Kinds <- PruneKinds
  MaxSeq = 4
  MaxEnv = 2
  FeedBatch = 2
  SeedPage = 2
  RedrivePage = 1
  FlushAt = 1
  MaxRetries = 1
  MaxFaults = 1
  Staggered = FALSE
CHECK_DEADLOCK FALSE
INVARIANT NothingMissed
PROPERTY EventuallyWorked
