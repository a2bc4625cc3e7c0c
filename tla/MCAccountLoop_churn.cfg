SPECIFICATION Spec
CONSTANTS
  p1 = p1
  p2 = p2
  None = None
  Procs <- MCProcs
  Kinds <- KindsChurn
  MaxRuns = 3
  MaxGen = 1
  MaxPos = 0
  MaxRetries = 2
CHECK_DEADLOCK FALSE
SYMMETRY Symmetry
INVARIANT LoopChain
