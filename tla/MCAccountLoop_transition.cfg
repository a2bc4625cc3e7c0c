SPECIFICATION LiveSpec
CONSTANTS
  p1 = p1
  p2 = p2
  None = None
  Procs <- MCProcs
  Kinds <- KindsTransition
  MaxRuns = 2
  MaxGen = 1
  MaxPos = 0
  MaxRetries = 2
CHECK_DEADLOCK FALSE
PROPERTY StopCompletes
INVARIANT TransitionQuiesced
PROPERTY ScopeNotLost
PROPERTY NoStranding
