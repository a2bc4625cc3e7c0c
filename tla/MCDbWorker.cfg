CONSTANTS
  c1 = c1  p1 = p1  p2 = p2  ext = ext  None = None
  Core = {c1}
  Flows = {p1, p2}
  Ext = ext
  Asked <- TwoAndOne
  MAX_RESTARTS = 1
  MaxWorkers = 3
  MaxFaults = 2
  MaxHandles = 1
  Window = {}
  Persists = FALSE
SPECIFICATION Spec
CHECK_DEADLOCK FALSE
INVARIANT TypeOK
INVARIANT ClosedMeansGone
INVARIANT AnswersTrue
INVARIANT TransactionWhole
INVARIANT NothingHangs
