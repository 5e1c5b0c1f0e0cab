------------------------------ MODULE MCSigintPipe ------------------------------
(* in_pipe with the core and one more blocking reader, a polling reader,   *)
(* a plugin that writes, and the Qt main thread, which does not use it.    *)
EXTENDS SigintPipe, TLC

CONSTANTS core, reader, poller, plugin, main, sigint, quit, m1, m2

AllThreads == {core, reader, poller, plugin, main, sigint}
AllWriters == {plugin, sigint}
AllReaders == {core, reader}
OnePoller == {poller}
AllMessages == {quit, m1, m2}
OnlyMain == {main}

\* The signal is delivered to any thread of a small instance.
FewThreads == {core, plugin, main, sigint}
OnlyCore == {core}
NoPollers == {}
AnyThread == {core, plugin, main}
===============================================================================
