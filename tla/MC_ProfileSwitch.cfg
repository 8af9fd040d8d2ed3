SPECIFICATION SwitchSpec
CONSTANTS
  first = first
  second = second
  other = other
  free = free
  loginA = loginA
  loginB = loginB
  Conn = {c1, c2}
  Profile = {first, second, free}
  NoProfile = NoProfile
  Login = {loginA, loginB}
  NotPooled = NotPooled
  NoLogin = NoLogin
  LoginOf <- MCLoginOf
  MaxStreams <- MCMaxStreams
  Account <- MCAccount
  Rank <- MCRank
  Fingerprint <- MCLoginOf
  Overlap = 0
  MaxHeld = 0
SYMMETRY Symmetry
INVARIANTS SwitchTypeOK 
