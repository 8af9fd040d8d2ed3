SPECIFICATION FairSpec
CONSTANTS
  o1 = o1
  o2 = o2
  f1 = f1
  f2 = f2
  puller = puller
  follower = follower
  Viewer = {o1, f1}
  Worker = {puller, follower}
  Owner = puller
  WorkerOf <- MCWorkerOf
  MaxChunks = 2
  InitialBehind = 2
  MaxHead = 3
  MaxErrors = 1
INVARIANTS TypeOK
PROPERTIES OwnerViewersMissNothing NeverBack OwnerNotLeftBehind
