\* Membership: two users over two projects. Accounts: two users, two addresses and a
\* token. Limit: two of three clients are remembered, for four units of time.
\* Backlog: three tickets. Two requests at a time everywhere.
SPECIFICATION TeamSpec
CONSTANTS
  User = {u1, u2}
  Project = {p1, p2}
  Ticket = {t1}
  Request = {r1, r2}
  Email = {e1, e2}
  Password = {w1}
  Token = {k1}
  Client = {c1, c2, c3}
  Limit <- MCLimit
  Window <- MCWindow
  MaxKeys = 2
  MaxTime = 4
  Item = {b1, b2, b3}
  Null = Null
SYMMETRY Symmetry
INVARIANTS TypeOK TypesOK MembershipInv WithinLimit RefusalsAreFree TableIsBounded
INVARIANTS NumbersGapless RanksRearrangeNumbers
PROPERTIES OwnersAreGoverned LeaversAreUnassigned
PROPERTIES RevocationIsFinal SignedInAreActive MovesPassOneTicket
CHECK_DEADLOCK FALSE
