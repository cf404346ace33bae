\* GitHub: one ticket and one pull request with two heads, two events in any order
\* and again, and one request at a time beside them. Sprints: two tickets of
\* different sizes and one request, for the total of a closed sprint.
SPECIFICATION BoardSpec
CONSTANTS
  Ticket = {t1}
  Pull = {p1}
  Head = {h1, h2}
  Commit = {c1}
  Names <- MCNames
  Delivery = {d1, d2}
  Request = {r1}
  Sprint = {s1, s2}
  Card = {k1, k2}
  Points = {1, 2}
  Days = {1}
  Null = Null
SYMMETRY BoardSymmetry
INVARIANTS TypeOK LinksFollowText VelocityMatchesHistory
PROPERTIES DeliveriesKeepChecks AutomationIsGoverned
