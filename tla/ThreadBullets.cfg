SPECIFICATION OpenSpec
CONSTANTS
  Width = 4
  FrogW = 1
  HStep = 2
  Lanes = 1
  NumCrocs = 0
  Lane <- NoLane
  CrocWidths = {2}
  NumDens = 1
  DenW = 2
  NumSlots = 2
  Capacity = 2
  Lives = 2
  MaxTime = 1
  Clock = FALSE
  Keys = {}
  NumBulletThreads = 2
  Burst = 1
  Shots <- StartRowShots
INVARIANTS  NoZombieBullet
CHECK_DEADLOCK FALSE
