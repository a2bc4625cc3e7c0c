SPECIFICATION FairSpec
CONSTANTS
  None = None
  Cadences = {0, 2}
  MaxJobs = 2
  MaxTime = 2
  MaxTicks = 1
  MaxCalls = 2
  MaxFaults = 1
  Faults = {"rejected", "lost", "crash"}
INVARIANT TypeOK
INVARIANT CadenceApplies
PROPERTY RunsFollow
