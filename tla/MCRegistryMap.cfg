CONSTANTS
  a = a
  b = b
  c = c
  NoPlugin = NoPlugin
  Names <- ThreeNames
  MinPriority <- Lowest
  MaxPriority <- Highest
SPECIFICATION Spec
INVARIANT EchoVisitsAll
PROPERTY ImplementsService
