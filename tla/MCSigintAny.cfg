CONSTANTS
  core = core
  reader = reader
  poller = poller
  plugin = plugin
  main = main
  sigint = sigint
  quit = quit
  m1 = m1
  m2 = m2
  NoMessage = NoMessage
  NoThread = NoThread
  Threads <- FewThreads
  Writers <- AllWriters
  Readers <- OnlyCore
  Pollers <- NoPollers
  Messages <- AllMessages
  Handler <- sigint
  CoreQuit <- quit
  Hosts <- AnyThread
SPECIFICATION SigSpec
INVARIANT NeverLocksTwice
