SPECIFICATION Spec
CONSTANTS
  Width = 6
  FrogW = 1
  HStep = 2
  FirstW = 1
  Lanes = 1
  NumCrocs = 1
  Lane <- RightLane
  CrocWidths = {1}
  NumDens = 2
  DenW = 1
  NumSlots = 1
  PipeCap = 1
  EchoCap = 1
  Drift = 0
  Lives = 1
  MaxTime = 1
  Clock = TRUE
  Keys = {"up", "space", "p"}
  PauseCap = 1
  NumBullets = 1
INVARIANT PauseCanEnd
