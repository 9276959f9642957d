SPECIFICATION Spec
CONSTANTS
  a = a
  b = b
  Ids <- TwoPlayers
  MaxPlayers = 2
  Width = 7
  Height = 7
  WaterTop = 2
  FloorHeight = 4
  LaneHeight = 1
  FrogW = 1
  FrogH = 2
  NumCrocs = 2
  PerLane = 1
  CrocWidths <- OneWidth
  NumDens = 1
  DenW = 2
  Lives = 1
  MaxTime = 1
  TimerEvery = 2
  Period = 6
SYMMETRY Symmetry
INVARIANTS TypeOK AttachedRides InsideUnlessCarried
PROPERTIES NobodyWalksOnWater RidersKeepTheirPlace
