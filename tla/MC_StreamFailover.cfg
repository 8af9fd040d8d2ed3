SPECIFICATION FairSpec
CONSTANTS
  s1 = s1
  fallback = fallback
  Stream = {s1, fallback}
  Default = s1
  Fallback = {fallback}
  MaxRetries = 1
  MaxSwitches = 2
  MaxManual = 1
  None = None
INVARIANTS TypeOK PullsWhatIsNamed
PROPERTIES SwitchingEnds RefusedEnds
\* run ends when the channel is given up or stopped.
CHECK_DEADLOCK FALSE
