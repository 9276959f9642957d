SPECIFICATION FairSpec
CONSTANTS
  Width = 4
  FrogW = 1
  HStep = 2
  Lanes = 1
  NumCrocs = 1
  Lane <- RightLane
  CrocWidths = {1}
  NumDens = 1
  DenW = 2
  NumSlots = 0
  Capacity = 7
  Lives = 1
  MaxTime = 1
  Clock = FALSE
  Keys = {"up", "Q", "SIGINT"}
  NumBulletThreads = 0
  Burst = 1
  Shots <- NoShots
INVARIANT NoCircularWait
PROPERTIES GameCompletes
