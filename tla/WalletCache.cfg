SPECIFICATION Spec
CONSTANTS
  Requests = {r1, r2}
  Keys = {k1, k2}
  Fetches = {f1, f2, f3}
  MaxEntries = 1
  Workloads <- Mixed
  Hashes = {a, b, c, d}
  None = None
  r1 = r1  r2 = r2  k1 = k1  k2 = k2
  f1 = f1  f2 = f2  f3 = f3
  a = a  b = b  c = c  d = d
SYMMETRY Symmetry
INVARIANTS TypeOK PlainReadsAreFresh SettledCacheIsOnChain NoFailureIsKept
           OneRefreshPerMark
CHECK_DEADLOCK FALSE
