CONSTANTS
  h1 = h1
  h2 = h2
  spartacus = spartacus
  alice = alice
  default = default
  Hosts <- TwoHosts
  Nicks <- TwoNicks
  DefaultNick <- spartacus
  Preferred <- AliceAndSpartacus
  Channels <- OneChannel
  DefaultChannel <- default
  NoChannel = NoChannel
  KeepAlive = 1
  Expiry = 2
  MaxLost <- WhenTwo
  StartsOverlap = FALSE
  Quitters = {h1}
  MaxChannelOps <- WhenAlone
  MaxNickOps <- WhenAlone
SPECIFICATION FairSpec
CHECK_DEADLOCK FALSE
INVARIANTS
  TypeOK
  AntennaFollowsUserlist
  OnlineIsListed
PROPERTY DepartedIsForgotten
