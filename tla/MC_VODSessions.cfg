SPECIFICATION Spec
CONSTANTS
  Request = {r1, r2}
  Session = {s1, s2}
  Profile = {a, b}
  None = None
  Limit <- MCLimit
  MaxRetired = 1
INVARIANTS TypeOK StakesExact SlotsExact
SYMMETRY Symmetry
