SPECIFICATION FairSpec
CONSTANTS
  None = None
  ta = ta
  tb = tb
  Texts = {ta, tb}
  TTL = 1
  Late = 0
  MaxTime = 2
  MaxOps = 2
  MaxEvents = 2
  Modes = {"chat"}
INVARIANT TypeOK
INVARIANT AtMostOnce
PROPERTY Delivers
PROPERTY SentAsShown
PROPERTY DraftsSettle
CHECK_DEADLOCK FALSE
