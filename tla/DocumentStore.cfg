SPECIFICATION StoreFairSpec
CONSTANTS
  a1 = a1  a2 = a2  e1 = e1  e2 = e2  e3 = e3  p1 = p1  p2 = p2
  DocAnchors = {a1, a2}
  Entries = {e1, e2, e3}
  Fills = {p1, p2}
  Concurrency = 1
  DocMaxRetries = 1
  MaxUnanswered = 2
  None = None
INVARIANTS StoreIInv
PROPERTIES AnswersStay FillsSettle SearchesOpen
