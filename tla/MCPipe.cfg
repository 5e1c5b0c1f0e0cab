CONSTANTS
  core = core
  reader = reader
  poller = poller
  plugin = plugin
  main = main
  sigint = sigint
  quit = quit
  m1 = m1
  m2 = m2
  NoMessage = NoMessage
  NoThread = NoThread
  Threads <- AllThreads
  Writers <- AllWriters
  Readers <- AllReaders
  Pollers <- OnePoller
  Messages <- AllMessages
  Handler <- sigint
  CoreQuit <- quit
  Hosts <- OnlyMain
SPECIFICATION SigFairSpec
INVARIANTS
  TypeOK
  LockHolder
  NoLostWakeup
PROPERTIES
  BlockingReadReturnsMessage
  ImplementsChannel
  EveryMessageIsTaken
