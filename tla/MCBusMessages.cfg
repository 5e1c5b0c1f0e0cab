CONSTANTS
  a = a
  b = b
  t1 = t1
  l1 = l1
  l2 = l2
  l3 = l3
  d1 = d1
  Names <- TwoNames
  Types <- OneType
  Data <- OneMessage
  Loads <- TwoLoads
  Preloads <- PreloadBoth
  NoPlugin = NoPlugin
  NoLoad = NoLoad
  NoType = NoType
  NoData = NoData
  MinPriority = 0
  MaxPriority = 1
  RequestPriorities <- ValidRequests
  Upward <- OnlyA
  Swallows <- BSwallows
  Detached <- Nobody
  Adders <- Nobody
SPECIFICATION FairSpec
CHECK_DEADLOCK FALSE
INVARIANT OneCopy
PROPERTIES
  PassedDownOnce
  QuitStopsCore
  MessageLeaves
