SPECIFICATION FairLifecycleSpec
CONSTANTS
  w1 = w1
  w2 = w2
  c1 = c1
  c2 = c2
  NoWorker = NoWorker
  Worker = {w1, w2}
  Client = {c1}
  MaxRequests = 2
  MaxTrouble = 1
INVARIANTS LifecycleTypeOK
PROPERTIES OnePuller TeardownEnds EndsUnwatched
CHECK_DEADLOCK FALSE
