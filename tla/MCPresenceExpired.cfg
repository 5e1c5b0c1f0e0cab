CONSTANTS
  h1 = h1
  h2 = h2
  spartacus = spartacus
  alice = alice
  default = default
  Hosts <- OneHost
  Nicks <- TwoNicks
  DefaultNick <- spartacus
  Preferred <- OnlyAlice
  Channels <- OneChannel
  DefaultChannel <- default
  NoChannel = NoChannel
  KeepAlive = 1
  Expiry = 2
  MaxLost <- Never
  StartsOverlap = TRUE
  Quitters = {}
  MaxChannelOps <- Never
  MaxNickOps <- Once
SPECIFICATION Spec
CHECK_DEADLOCK FALSE
PROPERTY ExpiredWereUnseen
