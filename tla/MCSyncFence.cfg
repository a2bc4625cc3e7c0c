CONSTANTS
  l1 = l1  l2 = l2
  Reports = {l1, l2}
  MaxCalls = 5
  MaxFails = 1
  MaxRestarts = 1
  Also = {}
SPECIFICATION Spec
CHECK_DEADLOCK FALSE
INVARIANT TypeOK
INVARIANT StaysClosed
INVARIANT SidesAgree
PROPERTY Settles
