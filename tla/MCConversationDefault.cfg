CONSTANTS
  default = default
  blue = blue
  transfers = transfers
  Default <- default
  Blank <- NoName
  Transfers <- transfers
  Named <- Words
  ConsoleTexts <- TypedAtConsole
  QtTexts <- TypedInWindow
  MaxActs <- Acts
  MaxSessions <- Sessions
SPECIFICATION Spec
CHECK_DEADLOCK FALSE
INVARIANT DefaultModeIsKept
