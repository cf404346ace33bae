\* A start that read the sprint while it was in planning commits after another
\* request has started and closed it.
SPECIFICATION Spec
CONSTANTS
  Sprint = {s1, s2}
  Ticket = {t1}
  Request = {r1, r2}
  Points = {1}
  Days = {1}
  Null = Null
SYMMETRY Symmetry
PROPERTIES
  NoUnclose
