CONSTANTS
  default = default
  blue = blue
  transfers = transfers
  Default <- default
  Blank <- NoName
  Transfers <- transfers
  Named <- Words
  ConsoleTexts <- TypedAtConsole
  QtTexts <- TypedInWindow
  MaxActs <- Acts
  MaxSessions <- Sessions
SPECIFICATION FairSpec
CHECK_DEADLOCK FALSE
INVARIANTS
  TypeOK
  LogRespectsMode
  ShownIsLogged
  SameOrder
  OnlyKnownCrashes
  PatientUserIsRight
  TabsAreJoined
PROPERTIES
  LinesSettle
  QuitEnds
