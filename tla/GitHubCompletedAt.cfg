\* One ticket and two people who change its status.
SPECIFICATION Spec
CONSTANTS
  Ticket = {t1}
  Pull = {}
  Head = {h1}
  Commit = {}
  Names <- MCNames
  Delivery = {}
  Request = {r1, r2}
  Null = Null
INVARIANT CompletedTracksDone
