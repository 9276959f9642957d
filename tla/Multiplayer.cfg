SPECIFICATION Spec
CONSTANTS
  c1 = c1
  c2 = c2
  i1 = i1
  i2 = i2
  NoClient = NoClient
  NoId = NoId
  Clients <- TwoClients
  Ids <- TwoIds
  Fds <- TwoFds
  Backlog = 1
  UpCap = 1
  DownCap = 2
  MaxPlayers = 2
  HeartbeatEvery = 1
  Timeout = 0
  ListenFd = 0
SYMMETRY Symmetry
INVARIANTS TypeOK Registry FdOwnership WelcomeFirst OwnSession
PROPERTY DropsHaveCause
