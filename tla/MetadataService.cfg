SPECIFICATION ServiceFairSpec
CONSTANTS
  h1 = h1  h2 = h2  u1 = u1  b1 = b1  r1 = r1  r2 = r2
  Hashes = {h1, h2}
  Bodies = {b1}
  Urls = {u1}
  Anchors <- OneAnchor
  Requests = {r1, r2}
  Backoff <- Windows
  RefreshWindow = 1
  Old = 2
  Nothing = Nothing
INVARIANTS ServiceIInv ReportsAreComplete
PROPERTIES Recovers
