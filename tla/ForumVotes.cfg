SPECIFICATION FairSpec
CONSTANTS
  Proposals = {p1}
  Users = {u1, u2}
  Requests = {r1, r2, r3}
  None = None
INVARIANTS IInv
PROPERTIES ImplementsBallot RequestsDrain
CHECK_DEADLOCK FALSE
