SPECIFICATION Spec
CONSTANTS
  Width = 4
  FrogW = 1
  HStep = 2
  Lanes = 1
  NumCrocs = 1
  Lane <- RightLane
  CrocWidths = {1}
  NumDens = 2
  DenW = 1
  NumSlots = 0
  Capacity = 7
  Lives = 2
  MaxTime = 1
  Clock = TRUE
  Keys = {"up", "space"}
  NumBulletThreads = 0
  Burst = 1
  Shots <- NoShots
INVARIANTS NoCircularWait
