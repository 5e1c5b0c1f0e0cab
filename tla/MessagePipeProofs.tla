--------------------------- MODULE MessagePipeProofs ---------------------------
(***************************************************************************)
(* What MessagePipe guarantees for any number of threads and messages.     *)
(* The inductive invariant is the type invariant, the ownership of the     *)
(* lock, the fact that a writer carries a message to the queue, and the    *)
(* accounting of notifications (NoLostWakeup), which needs cardinalities.  *)
(***************************************************************************)
EXTENDS MessagePipe, FiniteSetTheorems, TLAPS

(* A thread on its way into the queue carries the message it was given.    *)
WriterHasMessage ==
  \A t \in Threads : pc[t] \in {"lockWrite", "push"} => msg[t] \in Messages

IInv == TypeOK /\ LockHolder /\ WriterHasMessage /\ NoLostWakeup

(* The sets that NoLostWakeup counts are finite.                           *)
LEMMA AtFinite ==
  ASSUME NEW l
  PROVE  IsFiniteSet(At(l))
<1>1. At(l) \subseteq Threads
  BY DEF At
<1> QED
  BY <1>1, FS_Subset, PipeAssumption

LEMMA AwakeFinite == IsFiniteSet(Awake)
  BY AtFinite, FS_Union DEF Awake

(* Reading under the lock removes the head, if there is one.               *)
LEMMA LockedReadType ==
  ASSUME TypeOK, NEW t \in Threads, LockedRead(t)
  PROVE  /\ queue' \in Seq(Messages)
         /\ taken' \in Seq(Messages)
         /\ msg' \in [Threads -> Messages \cup {NoMessage}]
         /\ Len(queue') = IF queue = << >> THEN 0 ELSE Len(queue) - 1
<1> USE DEF TypeOK, LockedRead, LockedPeek, LockedHasMessage
<1>1. CASE queue = << >>
  BY <1>1
<1>2. CASE queue # << >>
  <2>1. Head(queue) \in Messages /\ Tail(queue) \in Seq(Messages)
        /\ Len(Tail(queue)) = Len(queue) - 1
    BY <1>2
  <2>2. Append(taken, Head(queue)) \in Seq(Messages)
    BY <2>1
  <2> QED
    BY <1>2, <2>1, <2>2
<1> QED
  BY <1>1, <1>2

(* Everything but the accounting is preserved by every step.               *)
LEMMA BasicInduction ==
  ASSUME TypeOK, LockHolder, WriterHasMessage, [Next]_vars
  PROVE  TypeOK' /\ LockHolder' /\ WriterHasMessage'
<1> USE PipeAssumption DEF TypeOK, LockHolder, WriterHasMessage, Locations, Goto
<1>1. ASSUME NEW t \in Threads, NEW m \in Messages, Write(t, m)
      PROVE  TypeOK' /\ LockHolder' /\ WriterHasMessage'
  BY <1>1 DEF Write
<1>2. ASSUME NEW t \in Threads, LockForWrite(t)
      PROVE  TypeOK' /\ LockHolder' /\ WriterHasMessage'
  BY <1>2 DEF LockForWrite, Lock
<1>3. ASSUME NEW t \in Threads, Push(t)
      PROVE  TypeOK' /\ LockHolder' /\ WriterHasMessage'
  <2>1. msg[t] \in Messages
    BY <1>3 DEF Push
  <2>2. Append(queue, msg[t]) \in Seq(Messages)
    BY <2>1
  <2> QED
    BY <1>3, <2>2 DEF Push
<1>4. ASSUME NEW t \in Threads, NotifyOne(t)
      PROVE  TypeOK' /\ LockHolder' /\ WriterHasMessage'
  BY <1>4 DEF NotifyOne, At
<1>5. ASSUME NEW t \in Threads, BlockingRead(t)
      PROVE  TypeOK' /\ LockHolder' /\ WriterHasMessage'
  BY <1>5 DEF BlockingRead
<1>6. ASSUME NEW t \in Threads, LockForBlockingRead(t)
      PROVE  TypeOK' /\ LockHolder' /\ WriterHasMessage'
  BY <1>6 DEF LockForBlockingRead, Lock
<1>7. ASSUME NEW t \in Threads, Wait(t)
      PROVE  TypeOK' /\ LockHolder' /\ WriterHasMessage'
  BY <1>7 DEF Wait
<1>8. ASSUME NEW t \in Threads, SpuriousWakeup(t)
      PROVE  TypeOK' /\ LockHolder' /\ WriterHasMessage'
  BY <1>8 DEF SpuriousWakeup
<1>9. ASSUME NEW t \in Threads, Take(t)
      PROVE  TypeOK' /\ LockHolder' /\ WriterHasMessage'
  <2>1. /\ queue' \in Seq(Messages)
        /\ taken' \in Seq(Messages)
        /\ msg' \in [Threads -> Messages \cup {NoMessage}]
        /\ \A u \in Threads \ {t} : msg'[u] = msg[u]
    BY <1>9, LockedReadType DEF Take, LockedRead
  <2> QED
    BY <1>9, <2>1 DEF Take
<1>10. ASSUME NEW t \in Threads, Read(t)
       PROVE  TypeOK' /\ LockHolder' /\ WriterHasMessage'
  BY <1>10 DEF Read
<1>11. ASSUME NEW t \in Threads, LockForRead(t)
       PROVE  TypeOK' /\ LockHolder' /\ WriterHasMessage'
  BY <1>11 DEF LockForRead, Lock
<1>12. ASSUME NEW t \in Threads, Poll(t)
       PROVE  TypeOK' /\ LockHolder' /\ WriterHasMessage'
  <2>1. /\ queue' \in Seq(Messages)
        /\ taken' \in Seq(Messages)
        /\ msg' \in [Threads -> Messages \cup {NoMessage}]
        /\ \A u \in Threads \ {t} : msg'[u] = msg[u]
    BY <1>12, LockedReadType DEF Poll, LockedRead
  <2> QED
    BY <1>12, <2>1 DEF Poll
<1>13. CASE UNCHANGED vars
  BY <1>13 DEF vars
<1> QED
  BY <1>1, <1>2, <1>3, <1>4, <1>5, <1>6, <1>7, <1>8, <1>9, <1>10, <1>11,
     <1>12, <1>13 DEF Next

-------------------------------------------------------------------------------
(* Cardinalities used in the accounting of notifications.                  *)
LEMMA CountsAreNaturals ==
  /\ Cardinality(At("notify")) \in Nat
  /\ Cardinality(Awake) \in Nat
BY AtFinite, AwakeFinite, FS_CardinalityType

LEMMA CountAfterAdding ==
  ASSUME NEW S, IsFiniteSet(S), NEW x, x \notin S, NEW T, T = S \cup {x}
  PROVE  Cardinality(T) = Cardinality(S) + 1
BY FS_AddElement

LEMMA CountAfterRemoving ==
  ASSUME NEW S, IsFiniteSet(S), NEW x, x \in S, NEW T, T = S \ {x}
  PROVE  Cardinality(T) = Cardinality(S) - 1
BY FS_RemoveElement

(* A step that leaves the queue, the sleepers, the pending notifications   *)
(* and the awake readers alone preserves the accounting.                   *)
LEMMA AccountingUnchanged ==
  ASSUME NoLostWakeup, queue' = queue,
         At("asleep")' = At("asleep"), At("notify")' = At("notify"),
         Awake' = Awake
  PROVE  NoLostWakeup'
BY DEF NoLostWakeup

(* A reader that sleeps again has found the queue empty; every other step  *)
(* keeps the number of those who will act at least the length of the queue.*)
LEMMA AccountingInduction ==
  ASSUME TypeOK, LockHolder, WriterHasMessage, NoLostWakeup, [Next]_vars
  PROVE  NoLostWakeup'
<1> USE PipeAssumption DEF TypeOK, Locations, Goto
<1>a. queue' \in Seq(Messages)
  BY BasicInduction
<1>b. Len(queue) \in Nat /\ Len(queue') \in Nat
  BY <1>a
<1>c. /\ Cardinality(At("notify")) \in Nat /\ Cardinality(Awake) \in Nat
      /\ IsFiniteSet(At("notify")) /\ IsFiniteSet(Awake)
  BY CountsAreNaturals, AtFinite, AwakeFinite
<1>1. ASSUME NEW t \in Threads, NEW m \in Messages, Write(t, m)
      PROVE  NoLostWakeup'
  <2>1. /\ queue' = queue /\ At("asleep")' = At("asleep")
        /\ At("notify")' = At("notify") /\ Awake' = Awake
    BY <1>1 DEF Write, At, Awake
  <2> QED
    BY <2>1, AccountingUnchanged
<1>2. ASSUME NEW t \in Threads, LockForWrite(t)
      PROVE  NoLostWakeup'
  <2>1. /\ queue' = queue /\ At("asleep")' = At("asleep")
        /\ At("notify")' = At("notify") /\ Awake' = Awake
    BY <1>2 DEF LockForWrite, Lock, At, Awake
  <2> QED
    BY <2>1, AccountingUnchanged
<1>3. ASSUME NEW t \in Threads, Push(t)
      PROVE  NoLostWakeup'
  <2>1. /\ At("asleep")' = At("asleep") /\ Awake' = Awake
        /\ t \notin At("notify")
        /\ At("notify")' = At("notify") \cup {t}
    BY <1>3 DEF Push, At, Awake
  <2>2. Cardinality(At("notify"))' = Cardinality(At("notify")) + 1
    BY <1>c, <2>1, CountAfterAdding
  <2>3. Len(queue') = Len(queue) + 1
    <3>1. msg[t] \in Messages
      BY <1>3 DEF Push, WriterHasMessage
    <3> QED
      BY <1>3, <3>1 DEF Push
  <2> QED
    BY <1>b, <1>c, <2>1, <2>2, <2>3 DEF NoLostWakeup
<1>4. ASSUME NEW t \in Threads, NotifyOne(t)
      PROVE  NoLostWakeup'
  <2>1. CASE At("asleep") = {}
    <3>1. At("asleep")' = {}
      BY <1>4, <2>1 DEF NotifyOne, At
    <3> QED
      BY <3>1 DEF NoLostWakeup
  <2>2. CASE At("asleep") # {}
    <3>1. PICK r \in At("asleep") :
            pc' = [pc EXCEPT ![t] = "idle", ![r] = "lockRead"]
      BY <1>4, <2>2 DEF NotifyOne
    <3>2. /\ t \in At("notify") /\ At("notify")' = At("notify") \ {t}
          /\ r \notin Awake /\ Awake' = Awake \cup {r}
      BY <1>4, <3>1 DEF NotifyOne, At, Awake
    <3>3. /\ Cardinality(At("notify"))' = Cardinality(At("notify")) - 1
          /\ Cardinality(Awake)' = Cardinality(Awake) + 1
      BY <1>c, <3>2, CountAfterAdding, CountAfterRemoving
    <3>4. queue' = queue
      BY <1>4 DEF NotifyOne
    <3> QED
      BY <1>b, <1>c, <2>2, <3>3, <3>4 DEF NoLostWakeup
  <2> QED
    BY <2>1, <2>2
<1>5. ASSUME NEW t \in Threads, BlockingRead(t)
      PROVE  NoLostWakeup'
  <2>1. /\ At("asleep")' = At("asleep") /\ At("notify")' = At("notify")
        /\ t \notin Awake /\ Awake' = Awake \cup {t} /\ queue' = queue
    BY <1>5 DEF BlockingRead, At, Awake
  <2>2. Cardinality(Awake)' = Cardinality(Awake) + 1
    BY <1>c, <2>1, CountAfterAdding
  <2> QED
    BY <1>b, <1>c, <2>1, <2>2 DEF NoLostWakeup
<1>6. ASSUME NEW t \in Threads, LockForBlockingRead(t)
      PROVE  NoLostWakeup'
  <2>1. /\ queue' = queue /\ At("asleep")' = At("asleep")
        /\ At("notify")' = At("notify") /\ Awake' = Awake
    BY <1>6 DEF LockForBlockingRead, Lock, At, Awake
  <2> QED
    BY <2>1, AccountingUnchanged
<1>7. ASSUME NEW t \in Threads, Wait(t)
      PROVE  NoLostWakeup'
  <2>1. Len(queue') = 0
    BY <1>7 DEF Wait, LockedHasMessage
  <2>2. Cardinality(At("notify"))' \in Nat /\ Cardinality(Awake)' \in Nat
    <3>1. At("notify")' = At("notify") /\ t \in Awake /\ Awake' = Awake \ {t}
      BY <1>7 DEF Wait, At, Awake
    <3>2. Cardinality(Awake \ {t}) \in Nat
      BY <1>c, FS_RemoveElement, FS_CardinalityType
    <3> QED
      BY <1>c, <3>1, <3>2
  <2> QED
    BY <2>1, <2>2 DEF NoLostWakeup
<1>8. ASSUME NEW t \in Threads, SpuriousWakeup(t)
      PROVE  NoLostWakeup'
  <2>1. /\ At("asleep")' \subseteq At("asleep") /\ t \in At("asleep")
        /\ At("notify")' = At("notify")
        /\ t \notin Awake /\ Awake' = Awake \cup {t} /\ queue' = queue
    BY <1>8 DEF SpuriousWakeup, At, Awake
  <2>2. Cardinality(Awake)' = Cardinality(Awake) + 1
    BY <1>c, <2>1, CountAfterAdding
  <2> QED
    BY <1>b, <1>c, <2>1, <2>2 DEF NoLostWakeup
<1>9. ASSUME NEW t \in Threads, Take(t)
      PROVE  NoLostWakeup'
  <2>1. /\ At("asleep")' = At("asleep") /\ At("notify")' = At("notify")
        /\ t \in Awake /\ Awake' = Awake \ {t}
    BY <1>9 DEF Take, At, Awake
  <2>2. Cardinality(Awake)' = Cardinality(Awake) - 1
    BY <1>c, <2>1, CountAfterRemoving
  <2>3. Len(queue') = Len(queue) - 1
    BY <1>9, LockedReadType DEF Take, LockedHasMessage
  <2> QED
    BY <1>b, <1>c, <2>1, <2>2, <2>3 DEF NoLostWakeup
<1>10. ASSUME NEW t \in Threads, Read(t)
       PROVE  NoLostWakeup'
  <2>1. /\ queue' = queue /\ At("asleep")' = At("asleep")
        /\ At("notify")' = At("notify") /\ Awake' = Awake
    BY <1>10 DEF Read, At, Awake
  <2> QED
    BY <2>1, AccountingUnchanged
<1>11. ASSUME NEW t \in Threads, LockForRead(t)
       PROVE  NoLostWakeup'
  <2>1. /\ queue' = queue /\ At("asleep")' = At("asleep")
        /\ At("notify")' = At("notify") /\ Awake' = Awake
    BY <1>11 DEF LockForRead, Lock, At, Awake
  <2> QED
    BY <2>1, AccountingUnchanged
<1>12. ASSUME NEW t \in Threads, Poll(t)
       PROVE  NoLostWakeup'
  <2>1. /\ At("asleep")' = At("asleep") /\ At("notify")' = At("notify")
        /\ Awake' = Awake
    BY <1>12 DEF Poll, At, Awake
  <2>2. Len(queue') <= Len(queue)
    BY <1>12, <1>b, LockedReadType DEF Poll
  <2> QED
    BY <1>b, <1>c, <2>1, <2>2 DEF NoLostWakeup
<1>13. CASE UNCHANGED vars
  BY <1>13, AccountingUnchanged DEF vars, At, Awake
<1> QED
  BY <1>1, <1>2, <1>3, <1>4, <1>5, <1>6, <1>7, <1>8, <1>9, <1>10, <1>11,
     <1>12, <1>13 DEF Next

-------------------------------------------------------------------------------
(* The inductive invariant holds for any sets of threads and messages.     *)
LEMMA Invariance == Spec => []IInv
<1>1. Init => IInv
  BY PipeAssumption, FS_EmptySet
     DEF Init, IInv, TypeOK, LockHolder, WriterHasMessage, NoLostWakeup, At,
         Locations
<1>2. IInv /\ [Next]_vars => IInv'
  BY BasicInduction, AccountingInduction DEF IInv
<1> QED
  BY <1>1, <1>2, PTL DEF Spec

(* Every variable of the pipe keeps its type.                              *)
THEOREM TypeCorrect == Spec => []TypeOK
BY Invariance, PTL DEF IInv

(* Whoever is inside a critical section of the pipe holds its mutex.       *)
THEOREM LockIsExclusive == Spec => []LockHolder
BY Invariance, PTL DEF IInv

(* Notifying after the unlock, one thread at a time, never strands a       *)
(* message while a reader sleeps: NoLostWakeup for any number of readers,  *)
(* writers and messages.                                                   *)
THEOREM WakeupsAreNotLost == Spec => []NoLostWakeup
BY Invariance, PTL DEF IInv

(* blocking_read() never returns the empty message.                        *)
THEOREM BlockingReadIsNeverEmpty == Spec => BlockingReadReturnsMessage
<1>1. IInv /\ [Next]_vars =>
        [\A t \in Threads :
           pc[t] = "test" /\ pc'[t] = "idle" => msg'[t] # NoMessage]_vars
  <2> SUFFICES ASSUME IInv, Next, NEW t \in Threads,
                      pc[t] = "test", pc'[t] = "idle"
               PROVE  msg'[t] # NoMessage
    BY DEF vars
  <2>1. \A u \in Threads : pc[u] # pc'[u] /\ u = t => Take(t)
    BY PipeAssumption
       DEF Next, IInv, TypeOK, Goto, Lock, Write, LockForWrite, Push,
           NotifyOne, BlockingRead, LockForBlockingRead, Wait, SpuriousWakeup,
           Read, LockForRead, Poll, Take, At
  <2>2. Take(t)
    BY <2>1
  <2>3. msg'[t] = Head(queue) /\ queue # << >>
    BY <2>2 DEF Take, LockedRead, LockedPeek, LockedHasMessage, IInv, TypeOK
  <2> QED
    BY <2>3, PipeAssumption DEF IInv, TypeOK
<1> QED
  BY <1>1, Invariance, PTL DEF Spec, BlockingReadReturnsMessage

-------------------------------------------------------------------------------
(* Every step of the pipe is a step of the abstract channel or none: a     *)
(* push sends, a successful read receives.                                 *)
THEOREM PipeImplementsChannel == Spec => ImplementsChannel
<1>1. Init => Channel!Init
  BY DEF Init, Channel!Init
<1>2. ASSUME IInv, [Next]_vars
      PROVE  [Channel!Next]_(Channel!channelVars)
  <2> USE PipeAssumption DEF IInv, TypeOK, Channel!channelVars
  <2>1. ASSUME queue' = queue, taken' = taken
        PROVE  UNCHANGED Channel!channelVars
    BY <2>1
  <2>2. ASSUME NEW t \in Threads, Push(t)
        PROVE  Channel!Next
    <3>1. msg[t] \in Messages
      BY <1>2, <2>2 DEF Push, Goto, WriterHasMessage
    <3>2. (taken \o queue)' = Append(taken \o queue, msg[t])
      BY <2>2, <3>1 DEF Push
    <3>3. taken' = taken
      BY <2>2 DEF Push
    <3> QED
      BY <3>1, <3>2, <3>3 DEF Channel!Next, Channel!Send
  <2>3. ASSUME NEW t \in Threads, LockedRead(t)
        PROVE  [Channel!Next]_(Channel!channelVars)
    <3>1. CASE queue = << >>
      BY <2>1, <2>3, <3>1 DEF LockedRead, LockedHasMessage
    <3>2. CASE queue # << >>
      <4>1. /\ taken' = Append(taken, Head(queue))
            /\ queue' = Tail(queue)
        BY <2>3, <3>2 DEF LockedRead, LockedHasMessage
      <4>2. (taken \o queue)' = taken \o queue
        BY <3>2, <4>1
      <4>3. /\ Len(taken) < Len(taken \o queue)
            /\ (taken \o queue)[Len(taken) + 1] = Head(queue)
        BY <3>2
      <4> QED
        BY <4>1, <4>2, <4>3 DEF Channel!Next, Channel!Receive
    <3> QED
      BY <3>1, <3>2
  <2> QED
    BY <1>2, <2>1, <2>2, <2>3
       DEF Next, vars, Lock, Write, LockForWrite, NotifyOne, BlockingRead,
           LockForBlockingRead, Wait, SpuriousWakeup, Read, LockForRead, Poll,
           Take
<1> QED
  BY <1>1, <1>2, Invariance, PTL DEF Spec, ImplementsChannel, Channel!Spec

===============================================================================
