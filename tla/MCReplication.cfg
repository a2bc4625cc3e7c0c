CONSTANTS
  a = a  b = b  c = c  d1 = d1  r1 = r1  Nil = Nil
  Devices = {a, b, c}
  First = a
  Docs = {d1}
  Rows = {r1}
  EPOCH_GAP = 10
  MaxEpoch = 4
  MaxWrites = 1
  ToldAgain = {a}
  Apart = {}
SYMMETRY Others
SPECIFICATION Spec
INVARIANT TypeOK
INVARIANT NothingSkipped
CHECK_DEADLOCK FALSE
