CONSTANTS
  antenna = antenna
  meatgrinder = meatgrinder
  quip = quip
  userlist = userlist
  handlerReady = handlerReady
  registerHandler = registerHandler
  block = block
  quipc = quipc
  list = list
  normal = normal
  l1 = l1
  l2 = l2
  l3 = l3
  l4 = l4
  Antenna <- antenna
  Meatgrinder <- meatgrinder
  Quip <- quip
  Userlist <- userlist
  HandlerReady <- handlerReady
  RegisterHandler <- registerHandler
  BlockCommand <- block
  QuipCommand <- quipc
  ListCommand <- list
  NormalCommand <- normal
  Names <- AllNames
  Types <- AllTypes
  Data <- AllData
  Loads <- AllLoads
  Preloads <- AllPreloads
  NoPlugin = NoPlugin
  NoLoad = NoLoad
  NoType = NoType
  NoData = NoData
  MinPriority <- Lowest
  MaxPriority = 3
  MiddlePriority = 0
  LowPriority <- Low
  Retries = 2
SPECIFICATION FairSpec
CHECK_DEADLOCK FALSE
INVARIANTS
  TypeOK
  AntennaComesFirst
PROPERTY CommandsAreLearned
