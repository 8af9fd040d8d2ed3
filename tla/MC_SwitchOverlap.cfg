SPECIFICATION FairSpec
CONSTANTS
  p = p
  q = q
  c1 = c1
  c2 = c2
  c3 = c3
  c4 = c4
  Channel = {c1, c2, c3}
  Viewer = {v1}
  Worker = {w1, w2}
  Profile = {p, q}
  ProfilesOf <- MCProfilesOf
  MaxStreams <- MCMaxStreams
  Overlaps = {p}
  ExtraCapacity = 1
  MaxAttempts = 3
  MaxTrouble = 1
  MaxStarts = 4
  LongWindow = FALSE
  None = None
  Starting = Starting
INVARIANTS SlotsExact
PROPERTIES OverlapEnds
CHECK_DEADLOCK FALSE
