SPECIFICATION HttpSpec
CONSTANTS
  Calls = {c1, c2, c3}
  Limit = 1
  MaxRetries = 1
  Token = 2
  Full = 3
  MaxWait = 1
INVARIANTS WithinRate NoLostWakeup
PROPERTIES CallsEnd
CHECK_DEADLOCK FALSE
