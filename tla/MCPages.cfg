\* GitHub: one project, two installations, one repository and four connect states.
\* Attachments: two tickets and three files, two of which fill the quota. Reports:
\* two fields and one fact. Chat: a comment, two people and a webhook. Two requests at a time everywhere.
SPECIFICATION PagesSpec
CONSTANTS
  User = {u1}
  Project = {p1}
  Installation = {i1, i2}
  Repo = {g1}
  State = {s1, s2, s3, s4}
  Request = {r1, r2}
  Ticket = {t1, t2}
  f1 = f1
  File = {f1, f2, f3}
  Size <- MCSize
  Quota = 2
  Field = {a1, a2}
  Fact = {x1}
  Person = {u1, u2}
  Hook = {h1, h2}
  Attempts = 2
  Deleted = Deleted
  Null = Null
SYMMETRY Symmetry
INVARIANTS TypesOK StatesServeOnce OneInstallation UploadsHaveFiles UploadsWithinQuota
INVARIANTS LeftoversHaveACause DraftsAreMarked MentionedAreTold AnsweredIsTried
PROPERTIES BindingIsFinal FinalizedFrozen DraftsCiteThePayload
CHECK_DEADLOCK FALSE
