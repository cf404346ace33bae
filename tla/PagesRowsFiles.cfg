\* The instance of MCPages, where it matters to attachments.
SPECIFICATION PagesSpec
CONSTANTS
  User = {u1}
  Project = {p1}
  Installation = {i1}
  Repo = {g1}
  State = {s1}
  Request = {r1, r2}
  Ticket = {t1, t2}
  f1 = f1
  File = {f1, f2, f3}
  Size <- MCSize
  Quota = 2
  Field = {a1, a2}
  Fact = {x1}
  Person = {u1, u2}
  Hook = {h1}
  Attempts = 2
  Deleted = Deleted
  Null = Null
INVARIANT RowsHaveFiles
CHECK_DEADLOCK FALSE
