------------------------------ MODULE MessagePipe ------------------------------
(***************************************************************************)
(* message_pipe (include/lirch/core/message_pipe.h, core/envelope/         *)
(* message.cpp): an unbounded queue behind one mutex and one condition     *)
(* variable, shared by the copies of the pipe that the core and the        *)
(* plugins hold.  A step here is what a thread does between two points     *)
(* where another thread can get in: taking the mutex, leaving the          *)
(* critical section, and the notify_one that write() does after it.        *)
(***************************************************************************)
EXTENDS Naturals, Sequences, FiniteSets

CONSTANTS
  Threads,    \* every thread that holds a copy of the pipe
  Writers,    \* the threads that call write()
  Readers,    \* the threads that call blocking_read()
  Pollers,    \* the threads that call read(), which does not block
  Messages,   \* message objects; each is written at most once (the bound)
  NoMessage,  \* the message() that an empty read returns
  NoThread    \* the mutex is free

ASSUME PipeAssumption ==
  /\ IsFiniteSet(Threads)
  /\ Writers \subseteq Threads
  /\ Readers \subseteq Threads
  /\ Pollers \subseteq Threads
  /\ NoThread \notin Threads
  /\ NoMessage \notin Messages

VARIABLES
  queue,    \* messages->queue
  mutex,    \* the thread that holds messages->mutex, or NoThread
  pc,       \* where each thread is in its call
  msg,      \* the argument of the thread's write, the result of its last read
  written,  \* the messages passed to write() so far
  taken     \* history: the messages handed out, in order

vars == <<queue, mutex, pc, msg, written, taken>>

(* idle        outside the pipe                                            *)
(* lockWrite   in write(), about to lock      push    holds the lock       *)
(* notify      lock released, notify_one not called yet                    *)
(* lockRead    in blocking_read(), about to lock, or woken up in cond.wait *)
(* test        holds the lock, evaluates the predicate of cond.wait        *)
(* asleep      blocked in cond.wait                                        *)
(* lockPoll    in read(), about to lock       poll    holds the lock       *)
Locations == {"idle", "lockWrite", "push", "notify", "lockRead", "test",
              "asleep", "lockPoll", "poll"}

TypeOK ==
  /\ queue \in Seq(Messages)
  /\ mutex \in Threads \cup {NoThread}
  /\ pc \in [Threads -> Locations]
  /\ msg \in [Threads -> Messages \cup {NoMessage}]
  /\ written \in SUBSET Messages
  /\ taken \in Seq(Messages)

Init ==
  /\ queue = << >>
  /\ mutex = NoThread
  /\ pc = [t \in Threads |-> "idle"]
  /\ msg = [t \in Threads |-> NoMessage]
  /\ written = {}
  /\ taken = << >>

At(l) == {t \in Threads : pc[t] = l}

Goto(t, from, to) ==
  /\ pc[t] = from
  /\ pc' = [pc EXCEPT ![t] = to]

\* Mutant: the critical section is entered without waiting for the mutex.
EnterUnlocked(t, from, to) ==
  /\ Goto(t, from, to)
  /\ mutex' = t
  /\ UNCHANGED <<queue, msg, written, taken>>

Lock(t, from, to) ==
  /\ Goto(t, from, to)
  /\ mutex = NoThread
  /\ mutex' = t
  /\ UNCHANGED <<queue, msg, written, taken>>

LockedHasMessage == queue # << >>

LockedPeek == IF LockedHasMessage THEN Head(queue) ELSE NoMessage

\* Both callers hold the lock; the queue of an empty pipe is left alone.
LockedRead(t) ==
  /\ msg' = [msg EXCEPT ![t] = LockedPeek]
  /\ queue' = IF LockedHasMessage THEN Tail(queue) ELSE queue
  /\ taken' = IF LockedHasMessage THEN Append(taken, Head(queue)) ELSE taken

-------------------------------------------------------------------------------
(* write() *)

\* Mutant: the copy of the argument is lost (message::operator= without data).
WriteNothing(t, m) ==
  /\ t \in Writers
  /\ m \notin written
  /\ Goto(t, "idle", "lockWrite")
  /\ written' = written \cup {m}
  /\ UNCHANGED <<queue, mutex, msg, taken>>

Write(t, m) ==
  /\ t \in Writers
  /\ m \notin written
  /\ Goto(t, "idle", "lockWrite")
  /\ msg' = [msg EXCEPT ![t] = m]
  /\ written' = written \cup {m}
  /\ UNCHANGED <<queue, mutex, taken>>

LockForWrite(t) == Lock(t, "lockWrite", "push")

\* Mutant: the notification is forgotten.
PushOnly(t) ==
  /\ Goto(t, "push", "idle")
  /\ queue' = Append(queue, msg[t])
  /\ mutex' = NoThread
  /\ UNCHANGED <<msg, written, taken>>

\* Mutant: the new message overtakes those that wait.
PushInFront(t) ==
  /\ Goto(t, "push", "notify")
  /\ queue' = <<msg[t]>> \o queue
  /\ mutex' = NoThread
  /\ UNCHANGED <<msg, written, taken>>

Push(t) ==
  /\ Goto(t, "push", "notify")
  /\ queue' = Append(queue, msg[t])
  /\ mutex' = NoThread
  /\ UNCHANGED <<msg, written, taken>>

\* notify_one wakes any one of the sleeping threads, or nobody.
NotifyOne(t) ==
  /\ pc[t] = "notify"
  /\ \/ /\ At("asleep") = {}
        /\ pc' = [pc EXCEPT ![t] = "idle"]
     \/ \E r \in At("asleep") :
           pc' = [pc EXCEPT ![t] = "idle", ![r] = "lockRead"]
  /\ UNCHANGED <<queue, mutex, msg, written, taken>>

-------------------------------------------------------------------------------
(* blocking_read() *)

BlockingRead(t) ==
  /\ t \in Readers
  /\ Goto(t, "idle", "lockRead")
  /\ UNCHANGED <<queue, mutex, msg, written, taken>>

\* Also the second half of cond.wait: a woken thread takes the lock again.
LockForBlockingRead(t) == Lock(t, "lockRead", "test")

Wait(t) ==
  /\ ~LockedHasMessage
  /\ Goto(t, "test", "asleep")
  /\ mutex' = NoThread
  /\ UNCHANGED <<queue, msg, written, taken>>

\* The standard lets cond.wait return without a notification.
SpuriousWakeup(t) ==
  /\ Goto(t, "asleep", "lockRead")
  /\ UNCHANGED <<queue, mutex, msg, written, taken>>

\* Mutant: the wait has no predicate, the thread that wakes up reads.
TakeWithoutPredicate(t) ==
  /\ Goto(t, "test", "idle")
  /\ LockedRead(t)
  /\ mutex' = NoThread
  /\ UNCHANGED written

Take(t) ==
  /\ LockedHasMessage
  /\ Goto(t, "test", "idle")
  /\ LockedRead(t)
  /\ mutex' = NoThread
  /\ UNCHANGED written

-------------------------------------------------------------------------------
(* read() *)

Read(t) ==
  /\ t \in Pollers
  /\ Goto(t, "idle", "lockPoll")
  /\ UNCHANGED <<queue, mutex, msg, written, taken>>

LockForRead(t) == Lock(t, "lockPoll", "poll")

Poll(t) ==
  /\ Goto(t, "poll", "idle")
  /\ LockedRead(t)
  /\ mutex' = NoThread
  /\ UNCHANGED written

-------------------------------------------------------------------------------
Next ==
  \E t \in Threads :
    \/ \E m \in Messages : Write(t, m)
    \/ LockForWrite(t)
    \/ Push(t)
    \/ NotifyOne(t)
    \/ BlockingRead(t)
    \/ LockForBlockingRead(t)
    \/ Wait(t)
    \/ SpuriousWakeup(t)
    \/ Take(t)
    \/ Read(t)
    \/ LockForRead(t)
    \/ Poll(t)

Spec == Init /\ [][Next]_vars

-------------------------------------------------------------------------------
(* A reader that is not asleep will look at the queue before it sleeps. *)
Awake == At("lockRead") \cup At("test")

(* The lock protects the queue: whoever is inside a critical section holds *)
(* it, so two threads never push or pop at once (unique_lock in every      *)
(* member of message_pipe).                                                *)
LockHolder ==
  \A t \in Threads : pc[t] \in {"push", "test", "poll"} <=> mutex = t

(* No wakeup is lost: while a reader sleeps, every queued message is       *)
(* matched by a writer that has not notified yet or by a reader that is    *)
(* awake and will look at the queue, although write() notifies only after  *)
(* it has released the mutex and other readers may take the message first. *)
NoLostWakeup ==
  At("asleep") # {} =>
    Len(queue) <= Cardinality(At("notify")) + Cardinality(Awake)

(* blocking_read() returns a message that was written, never the empty     *)
(* message(), whatever wakes it up and whoever else reads the pipe.        *)
BlockingReadReturnsMessage ==
  [][\A t \in Threads :
       pc[t] = "test" /\ pc'[t] = "idle" => msg'[t] # NoMessage]_vars

(* Every message written to the pipe is handed out at most once and in the *)
(* order of the writes, as the abstract channel promises.                  *)
Channel == INSTANCE MessageChannel WITH sent <- taken \o queue, got <- taken

ImplementsChannel == Channel!Spec

(* With a reader that keeps calling blocking_read(), every message whose   *)
(* write() has begun is taken in the end.  (Under fairness: SigintPipe.)   *)
EveryMessageIsTaken ==
  \A m \in Messages :
    m \in written ~> \E i \in 1..Len(taken) : taken[i] = m

===============================================================================
