SPECIFICATION Spec
CONSTANTS
  Proposals = {p1}
  Polls = {b1, b2}
  Users = {u1, u2}
  Requests = {r1, r2, r3}
  None = None
SYMMETRY Symmetry
INVARIANTS IInv OneActivePoll SomeRequestRuns
PROPERTIES ClosedPollIsFinal ImplementsBallot
CHECK_DEADLOCK FALSE
