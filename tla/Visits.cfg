\* Four pages for a book of two, two payments, and ticks without bound.
SPECIFICATION Spec
CONSTANTS
  Tokens = {t1, t2, t3, t4}
  Buys = {b1, b2}
  NoVisit = NoVisit
  VisitTTL = 3
  MaxVisits = 2
SYMMETRY VisitSymmetry
INVARIANT CrowdedOutByNewer
PROPERTY FirstStays
CHECK_DEADLOCK FALSE
