------------------------------- MODULE SigintPipe -------------------------------
(***************************************************************************)
(* The ctrl-c of core/qt/lirch_qtcore.cpp.in: handle_sigint() writes a     *)
(* core_quit to in_pipe from inside the signal handler.  The handler runs  *)
(* on top of whichever thread the signal is delivered to, so that thread   *)
(* makes no step until the handler has returned; it is modelled as a       *)
(* writer of its own whose host is suspended.  signal(SIGINT, SIG_DFL)     *)
(* lets it run once.                                                       *)
(***************************************************************************)
EXTENDS MessagePipe

CONSTANTS
  Handler,   \* the activation of handle_sigint
  Hosts,     \* the threads POSIX may deliver the signal to
  CoreQuit   \* the message it writes

ASSUME SigintAssumption ==
  /\ Handler \in Writers
  /\ Hosts \subseteq Threads \ {Handler}
  /\ CoreQuit \in Messages

VARIABLE host    \* the interrupted thread, NoThread before the signal

sigVars == <<queue, mutex, pc, msg, written, taken, host>>

HandlerRuns == host # NoThread /\ pc[Handler] # "idle"

SigInit == Init /\ host = NoThread

(* handle_sigint: the default action is back, then the write begins.       *)
Deliver(t) ==
  /\ host = NoThread
  /\ host' = t
  /\ Write(Handler, CoreQuit)

ThreadStep(t) ==
  \/ \E m \in Messages \ {CoreQuit} : t # Handler /\ Write(t, m)
  \/ LockForWrite(t) \/ Push(t) \/ NotifyOne(t)
  \/ BlockingRead(t) \/ LockForBlockingRead(t) \/ Wait(t)
  \/ SpuriousWakeup(t) \/ Take(t)
  \/ Read(t) \/ LockForRead(t) \/ Poll(t)

Step(t) ==
  /\ ~(HandlerRuns /\ t = host)
  /\ ThreadStep(t)
  /\ UNCHANGED host

SigNext ==
  \/ \E t \in Hosts : Deliver(t)
  \/ \E t \in Threads : Step(t)

SigSpec == SigInit /\ [][SigNext]_sigVars

(* Threads that are not suspended go on, and readers call blocking_read    *)
(* again and again, as run_core does.  Taking the mutex needs strong       *)
(* fairness: it is not continuously free while others use the pipe.        *)
(* Nothing is assumed of a poller but that it leaves its critical section. *)
SigFairSpec ==
  /\ SigSpec
  /\ \A t \in Writers :
       /\ SF_sigVars(Step(t) /\ LockForWrite(t))
       /\ WF_sigVars(Step(t) /\ (Push(t) \/ NotifyOne(t)))
  /\ \A t \in Readers :
       /\ WF_sigVars(Step(t) /\ BlockingRead(t))
       /\ SF_sigVars(Step(t) /\ LockForBlockingRead(t))
       /\ WF_sigVars(Step(t) /\ (Wait(t) \/ Take(t)))
  /\ \A t \in Pollers : WF_sigVars(Step(t) /\ Poll(t))

(* "We need to unregister before we write because we don't want to lock    *)
(* the mutex twice" (comment in handle_sigint): the handler never waits    *)
(* for the mutex that the thread it interrupted holds.  std::mutex is not  *)
(* recursive, so such a wait is for ever.                                  *)
NeverLocksTwice ==
  ~(HandlerRuns /\ pc[Handler] = "lockWrite" /\ mutex = host)

===============================================================================
