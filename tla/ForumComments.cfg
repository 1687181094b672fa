SPECIFICATION Spec
CONSTANTS
  p1 = p1  p2 = p2  u1 = u1  u2 = u2  r1 = r1  r2 = r2  r3 = r3
  c1 = c1  c2 = c2  c3 = c3  i1 = i1  i2 = i2
  Proposals = {p1, p2}
  Users = {u1}
  Requests = {r1, r2, r3}
  Comments = {c1, c2, c3}
  Reports = {i1, i2}
  None = None
SYMMETRY Symmetry
INVARIANTS IInv
PROPERTIES ImplementsDiscussion
CHECK_DEADLOCK FALSE
