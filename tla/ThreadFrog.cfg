SPECIFICATION Spec
CONSTANTS
  Width = 4
  FrogW = 1
  HStep = 2
  Lanes = 2
  NumCrocs = 1
  Lane <- LeftLane
  CrocWidths = {2}
  NumDens = 1
  DenW = 2
  NumSlots = 0
  Capacity = 1
  Lives = 2
  MaxTime = 1
  Clock = TRUE
  Keys = {"up", "q", "space", "p"}
  NumBulletThreads = 0
  Burst = 1
  Shots <- NoShots
INVARIANTS TypeOK SleepersHoldNothing CirclesHaveCause
PROPERTIES DenTakenByFrog
CHECK_DEADLOCK FALSE
