SPECIFICATION FairGuideSpec
CONSTANTS
  g1 = g1
  g2 = g2
  Guide = {g1, g2}
  Worker = {w1, w2}
  None = None
  Lapsing = {g1, "file"}
  MaxEdition = 1
  MaxRefreshes = 1
  MaxBuilds = 1
  MaxMaps <- MCMaxMaps
  MaxTrouble = 1
INVARIANTS GuideTypeOK
  
CHECK_DEADLOCK FALSE
