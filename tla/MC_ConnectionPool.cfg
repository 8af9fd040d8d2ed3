SPECIFICATION Spec
CONSTANTS
  one = one
  two = two
  wide = wide
  free = free
  blank = blank
  plain = plain
  login = login
  Conn = {c1, c2, c3}
  Profile = {one, two, free, blank, plain}
  NoProfile = NoProfile
  Login = {login}
  NotPooled = NotPooled
  NoLogin = NoLogin
  LoginOf <- MCLoginOf
  MaxStreams <- MCMaxStreams
  Overlap = 1
  MaxHeld = 1
SYMMETRY Symmetry
INVARIANTS TypeOK ProfileCounterExact ProfileLimit LoginCounterCovers LoginLimit
PROPERTIES ProfilesAreSemaphores LoginsAreSemaphores
