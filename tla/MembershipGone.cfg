\* An account is deleted between the sign-in of another request and its write.
SPECIFICATION Spec
CONSTANTS
  User = {u1, u2}
  Project = {p1}
  Ticket = {t1}
  Request = {r1, r2}
  Null = Null
SYMMETRY Symmetry
INVARIANTS
  DeletedAccountsAreGone
CHECK_DEADLOCK FALSE
