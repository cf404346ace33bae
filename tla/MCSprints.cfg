\* Three sprints and one ticket under two concurrent requests: a sprint can be
\* started late, closed, reopened and closed again while the ticket moves.
SPECIFICATION Spec
CONSTANTS
  Sprint = {s1, s2, s3}
  Ticket = {t1}
  Request = {r1, r2}
  Points = {1}
  Days = {1}
  Null = Null
SYMMETRY Symmetry
INVARIANTS
  TypeOK
  LifecycleInv
  DatesInv
  HistoryTicketsLive
PROPERTIES
  RolloverTargetIsPlanning
  ReportedSprintFrozen
  CloseAccountsForEveryTicket
