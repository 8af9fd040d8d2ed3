SPECIFICATION Spec
CONSTANTS
  Request = {r1, r2, r3}
  Session = {s1, s2}
  Profile = {a}
  None = None
  Limit <- MCLimit
  MaxRetired = 0
INVARIANTS SessionsWithinLimit
SYMMETRY Symmetry
