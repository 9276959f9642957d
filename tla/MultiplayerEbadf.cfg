SPECIFICATION Spec
CONSTANTS
  c1 = c1
  c2 = c2
  i1 = i1
  i2 = i2
  NoClient = NoClient
  NoId = NoId
  Clients <- TwoClients
  Ids <- OneId
  Fds <- OneFd
  Backlog = 1
  UpCap = 1
  DownCap = 1
  MaxPlayers = 1
  HeartbeatEvery = 1
  Timeout = 0
  ListenFd = 0
INVARIANT NetworkThreadServes
