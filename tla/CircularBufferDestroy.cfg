SPECIFICATION Spec
CONSTANTS
  p1 = p1
  p2 = p2
  g1 = g1
  t1 = t1
  m1 = m1
  m2 = m2
  Producers <- MCProducers
  Getters <- MCNoGetters
  Pollers <- MCPollers
  Msg <- MCMsg
  NoMsg = NoMsg
  NoThread = NoThread
  Capacity = 2
  Quota = 2
INVARIANT WaitersLeave
