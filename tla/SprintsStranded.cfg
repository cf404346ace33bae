\* A ticket is created in, or moved to, a sprint that closes after the check
\* and before the write.
SPECIFICATION Spec
CONSTANTS
  Sprint = {s1, s2}
  Ticket = {t1}
  Request = {r1, r2}
  Points = {1}
  Days = {1}
  Null = Null
SYMMETRY Symmetry
PROPERTIES
  TicketsEnterOpenSprints
