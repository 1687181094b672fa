SPECIFICATION Spec
CONSTANTS
  Proposals = {p1, p2}
  Contents = {c1, c2, c3}
  TxHashes = {h1, h2}
  Requests = {r1, r2, r3}
  None = None
SYMMETRY Symmetry
INVARIANTS IInv OneActiveRevision SomeRequestRuns
PROPERTIES SubmissionStands ImplementsPublicRevisions
CHECK_DEADLOCK FALSE
