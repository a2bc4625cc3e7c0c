SPECIFICATION FairSpec
CONSTANTS
  u1 = u1
  u2 = u2
  u3 = u3
  i1 = i1
  Units = {u1, u2, u3}
  Idlers = {i1}
  Kinds = {"ingest", "redrive"}
  Slots = 1
  Grace = 1
  Aging = 1
  MaxWait = 2
  MaxFg = 1
  LateTimers = FALSE
INVARIANT TypeOK
INVARIANT SlotsAccounted
INVARIANT WakesUp
PROPERTY UnitAdmitted
