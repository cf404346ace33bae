\* A member is removed between the check of an assignment and its write.
SPECIFICATION Spec
CONSTANTS
  User = {u1, u2}
  Project = {p1}
  Ticket = {t1}
  Request = {r1, r2}
  Null = Null
SYMMETRY Symmetry
INVARIANTS
  AssigneesAreMembers
CHECK_DEADLOCK FALSE
