SPECIFICATION Spec
CONSTANTS
  Request = {r1, r2}
  Media = {m1, m2}
  None = None
  Limit = 2
  MaxServed = 4
  MaxOthers = 1
  MaxStops = 1
INVARIANTS TypeOK NothingLeft SlotsExact
SYMMETRY Symmetry
