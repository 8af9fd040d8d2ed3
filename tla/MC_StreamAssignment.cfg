SPECIFICATION MCSpec
CONSTANTS
  first = first
  second = second
  Worker = {w1, w2}
  Channel = {1, 2}
  Stream = {2, 3, 4}
  Preview = {4}
  Profile = {first, second}
  None = None
  StreamsOf <- MCStreamsOf
  ProfilesOf <- MCProfilesOf
  MaxGranted = 2
  MaxStreams <- MCMaxStreams
SYMMETRY Symmetry
INVARIANTS TypeOK PlaysOwnStream NoDoubleRelease EndedHoldsNothing
