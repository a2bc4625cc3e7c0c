\* What the user, the scheduler and crashes do to one account.
SPECIFICATION Spec
CONSTANTS
  p1 = p1
  p2 = p2
  None = None
  Procs <- MCProcs
  Kinds <- KindsPause
  MaxRuns = 3
  MaxGen = 1
  MaxPos = 1
  MaxRetries = 2
CHECK_DEADLOCK FALSE
SYMMETRY Symmetry
INVARIANT TypeOK
INVARIANT OneLoop
INVARIANT PausedIsIdle
PROPERTY CursorMonotone
