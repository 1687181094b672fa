SPECIFICATION Spec
CONSTANTS
  Wallet = {w1}
  StakeKey = {k1, k2}
  Tx = {t1}
  TypeOf <- Types1
  MaxAttempts = 1
  MaxTorn = 1
  None = None
  KeysOf <- Keys2
  Flows = {f1}
  MaxConnects = 2
  w1 = w1  w2 = w2  k1 = k1  k2 = k2  t1 = t1  t2 = t2

PROPERTIES InProgressEnds
CHECK_DEADLOCK FALSE
