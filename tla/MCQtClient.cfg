CONSTANTS
  TypeList <- OneType
  RegMin = 0
  RegMax = 1
  MaxForwards = 1
SPECIFICATION FairSpec
CHECK_DEADLOCK FALSE
INVARIANTS
  TypeOK
  MediatorOutlivesPlugin
PROPERTIES
  ClosingEnds
  CloseIsNoticed
