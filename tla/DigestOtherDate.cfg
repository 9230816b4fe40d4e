SPECIFICATION Spec
CONSTANTS
  r1 = r1  r2 = r2  d1 = d1  d2 = d2  m1 = m1  m2 = m2
  Reqs = {r1}
  Dates = {d1, d2}
  Mails = {m1, m2}
  MaxDeaths = 0
INVARIANTS
  CancelledIsSkipped
SYMMETRY Interchangeable
CHECK_DEADLOCK FALSE
