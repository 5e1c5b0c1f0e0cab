----------------------------- MODULE LirchBusProofs -----------------------------
(***************************************************************************)
(* Theorems about the bus for any plugins, types, messages and priorities. *)
(* The first part is about the pipes and the visits, the second about      *)
(* single messages: the hello, the statuses and the payloads.              *)
(***************************************************************************)
EXTENDS LirchBus, FiniteSetTheorems, TLAPS

-------------------------------------------------------------------------------
(* The operations of a registry yield registries.                          *)
LEMMA AddType ==
  ASSUME NEW r \in Registries, NEW p, NEW n \in Names
  PROVE  Add(r, p, n) \in Registries
BY DEF Add, CanAdd, Registries

LEMMA RemoveAllType ==
  ASSUME NEW r \in Registries, NEW n
  PROVE  RemoveAll(r, n) \in Registries
BY DEF RemoveAll, Registries

(* The message an action takes off vm or in_pipe is a message of the kind  *)
(* the action is for, and the queues keep their type.                      *)
LEMMA ProcessType ==
  ASSUME CoreTypeOK, NEW kind, Process(kind)
  PROVE  /\ Current \in Message
         /\ Current.kind = kind
         /\ vm' \in Seq(Message)
         /\ inPipe' \in Seq(Message)
         /\ core' \in {"running", "stopped"}
<1> USE DEF CoreTypeOK, Process, CoreHasMessage, Current
<1>1. CASE vm # << >>
  <2>1. Head(vm) \in Message /\ Tail(vm) \in Seq(Message)
    BY <1>1
  <2> QED
    BY <1>1, <2>1
<1>2. CASE vm = << >>
  <2>1. inPipe # << >>
    BY <1>2
  <2>2. Head(inPipe) \in Message /\ Tail(inPipe) \in Seq(Message)
    BY <2>1
  <2> QED
    BY <1>2, <2>2
<1> QED
  BY <1>1, <1>2

(* The messages the core and the plugins build.                            *)
LEMMA NamedMessageType ==
  /\ \A k \in {"add_plugin", "done", "hello"}, n \in Names :
       NamedMessage(k, n) \in Message
  /\ \A k \in {"core_quit", "shutdown"} : NamedMessage(k, NoPlugin) \in Message
BY RegistryAssumption
   DEF NamedMessage, Message, Kinds, HasName, HasType, InitialPriority

LEMMA RegistrationMessageType ==
  /\ \A k \in {"register", "unregister"}, n \in Names, t \in Types, p \in Int :
       RegistrationMessage(k, n, t, p) \in Message
  /\ \A k \in {"registered", "refused"}, t \in Types, p \in Int :
       RegistrationMessage(k, NoPlugin, t, p) \in Message
BY DEF RegistrationMessage, Message, Kinds, HasName, HasType

LEMMA DataMessageType ==
  /\ InitialPriority \in Int
  /\ \A t \in Types, p \in Int, d \in Data \cup {NoData} :
       DataMessage(t, p, d) \in Message
  /\ \A n \in Names, t \in Types, d \in Data : TargetMessage(n, t, d) \in Message
BY RegistryAssumption
   DEF DataMessage, TargetMessage, Message, Kinds, HasName, HasType,
       InitialPriority

LEMMA PriorityChangeType ==
  ASSUME NEW m \in Message, NEW p \in Int
  PROVE  [m EXCEPT !.priority = p] \in Message
BY DEF Message

(* Writing a message to a plugin keeps the pipes well typed.               *)
LEMMA WriteToType ==
  ASSUME CoreTypeOK, NEW n, NEW m \in Message, WriteTo(n, m)
  PROVE  pipe' \in [Loads -> Seq(Message)]
<1>0. \A l \in Loads : pipe[l] \in Seq(Message)
  BY DEF CoreTypeOK
<1>1. \A l \in Loads : Append(pipe[l], m) \in Seq(Message)
  BY DEF CoreTypeOK
<1>2. pipe' = [l \in Loads |->
                 IF l = outPipes[n] THEN Append(pipe[l], m) ELSE pipe[l]]
  BY DEF CoreTypeOK, WriteTo
<1> QED
  BY <1>1, <1>2 DEF CoreTypeOK

-------------------------------------------------------------------------------
(* Every step of the core keeps the core's types.                          *)
LEMMA CoreTypeInduction ==
  ASSUME CoreTypeOK, CoreStep
  PROVE  CoreTypeOK'
<1> USE DEF CoreTypeOK
<1>1. CASE StopCore
  BY <1>1 DEF StopCore
<1>2. CASE AddPlugin
  <2>1. Current \in Message /\ Current.name \in Names
        /\ vm' \in Seq(Message) /\ inPipe' \in Seq(Message)
        /\ core' \in {"running", "stopped"}
    BY <1>2, ProcessType DEF AddPlugin, Message, HasName
  <2>2. CASE Load(Current.name)
    <3>1. NextLoad \in Loads
      BY <2>2 DEF Load, NextLoad, FreeLoads
    <3>2. NamedMessage("hello", Current.name) \in Message
      BY <2>1, NamedMessageType
    <3> QED
      BY <1>2, <2>1, <2>2, <3>1, <3>2 DEF Load, AddPlugin
  <2>3. CASE UNCHANGED <<outPipes, pipe, thread, loadName>>
    BY <1>2, <2>1, <2>3 DEF AddPlugin
  <2> QED
    BY <1>2, <2>2, <2>3 DEF AddPlugin
<1>3. CASE RemovePlugin
  <2>1. Current \in Message /\ vm' \in Seq(Message) /\ inPipe' \in Seq(Message)
        /\ core' \in {"running", "stopped"}
    BY <1>3, ProcessType DEF RemovePlugin
  <2>2. registrations' \in [Types -> Registries]
    BY <1>3, RemoveAllType DEF RemovePlugin
  <2> QED
    BY <1>3, <2>1, <2>2 DEF RemovePlugin
<1>4. CASE AddRegistration
  <2>1. Current \in Message /\ Current.name \in Names /\ Current.type \in Types
        /\ Current.priority \in Int
        /\ vm' \in Seq(Message) /\ inPipe' \in Seq(Message)
        /\ core' \in {"running", "stopped"}
    BY <1>4, ProcessType DEF AddRegistration, Message, HasName, HasType
  <2>2. registrations' \in [Types -> Registries]
    <3>1. Add(registrations[Current.type], Current.priority, Current.name)
            \in Registries
      BY <2>1, AddType
    <3>2. CASE IsLoaded(Current.name)
      BY <1>4, <3>1, <3>2 DEF AddRegistration
    <3>3. CASE ~IsLoaded(Current.name)
      BY <1>4, <3>3 DEF AddRegistration
    <3> QED
      BY <3>2, <3>3
  <2>3. pipe' \in [Loads -> Seq(Message)]
    BY <1>4, <2>1, WriteToType, RegistrationMessageType DEF AddRegistration
  <2> QED
    BY <1>4, <2>1, <2>2, <2>3 DEF AddRegistration
<1>5. CASE RemoveRegistration
  <2>1. Current \in Message /\ vm' \in Seq(Message) /\ inPipe' \in Seq(Message)
        /\ core' \in {"running", "stopped"}
    BY <1>5, ProcessType DEF RemoveRegistration
  <2>2. registrations' \in [Types -> Registries]
    BY <1>5, RemoveAllType DEF RemoveRegistration
  <2> QED
    BY <1>5, <2>1, <2>2 DEF RemoveRegistration
<1>6. CASE TargetPlugin
  <2>1. Current \in Message /\ Current.type \in Types
        /\ Current.data \in Data \cup {NoData}
        /\ vm' \in Seq(Message) /\ inPipe' \in Seq(Message)
        /\ core' \in {"running", "stopped"}
    BY <1>6, ProcessType DEF TargetPlugin, Message, HasType
  <2>2. pipe' \in [Loads -> Seq(Message)]
    BY <1>6, <2>1, WriteToType, DataMessageType DEF TargetPlugin
  <2> QED
    BY <1>6, <2>1, <2>2 DEF TargetPlugin
<1>7. CASE InitiateShutdown
  <2>1. vm' \in Seq(Message) /\ inPipe' \in Seq(Message)
        /\ core' \in {"running", "stopped"}
    BY <1>7, ProcessType DEF InitiateShutdown
  <2>2. pipe' \in [Loads -> Seq(Message)]
    <3>1. \A l \in Loads :
            Append(pipe[l], NamedMessage("shutdown", NoPlugin)) \in Seq(Message)
      BY NamedMessageType
    <3> QED
      BY <1>7, <3>1 DEF InitiateShutdown
  <2> QED
    BY <1>7, <2>1, <2>2 DEF InitiateShutdown
<1>8. CASE ToPlugin
  <2>1. Current \in Message /\ vm' \in Seq(Message) /\ inPipe' \in Seq(Message)
        /\ core' \in {"running", "stopped"}
    BY <1>8, ProcessType DEF ToPlugin
  <2>2. pipe' \in [Loads -> Seq(Message)]
    <3>1. CASE UNCHANGED pipe
      BY <3>1
    <3>2. CASE ~UNCHANGED pipe
      <4>1. PICK q \in Priorities :
              WriteTo(registrations[Current.type][q],
                      [Current EXCEPT !.priority = q])
        BY <1>8, <3>2 DEF ToPlugin
      <4>2. [Current EXCEPT !.priority = q] \in Message
        BY <2>1, PriorityChangeType DEF Priorities
      <4> QED
        BY <4>1, <4>2, WriteToType
    <3> QED
      BY <3>1, <3>2
  <2> QED
    BY <1>8, <2>1, <2>2 DEF ToPlugin
<1> QED
  BY <1>1, <1>2, <1>3, <1>4, <1>5, <1>6, <1>7, <1>8 DEF CoreStep

-------------------------------------------------------------------------------
(* The first message of a running plugin, and the rest of its pipe.        *)
LEMMA TakeType ==
  ASSUME CoreTypeOK, NEW l \in Loads, NEW kind, Take(l, kind)
  PROVE  /\ Head(pipe[l]) \in Message
         /\ Head(pipe[l]).kind = kind
         /\ pipe' \in [Loads -> Seq(Message)]
BY DEF CoreTypeOK, Take

LEMMA ToCoreType ==
  ASSUME CoreTypeOK, NEW m \in Message, ToCore(m)
  PROVE  inPipe' \in Seq(Message)
BY DEF CoreTypeOK, ToCore

-------------------------------------------------------------------------------
(* A thread that exists was started under a name.                          *)
NamedLoads == \A l \in Loads : thread[l] # "none" => loadName[l] \in Names

(* What the core and its pipes see of a step of the plugin thread l: it    *)
(* may take the first message of its pipe, and it may write one message,   *)
(* which is a done message exactly when its run() is over.                 *)
WritesNoDone ==
  /\ thread' = thread
  /\ \/ inPipe' = inPipe
     \/ \E m \in Message : m.kind # "done" /\ inPipe' = Append(inPipe, m)

StartsRunning(l) ==
  /\ thread[l] = "hello"
  /\ inPipe' = inPipe
  /\ pipe[l] # << >>
  /\ pipe' = [pipe EXCEPT ![l] = Tail(@)]
  /\ thread' = [thread EXCEPT ![l] =
                  IF Head(pipe[l]).kind = "hello" THEN "run" ELSE "exited"]

WritesDone(l) ==
  /\ thread[l] = "run"
  /\ thread' = [thread EXCEPT ![l] = "exited"]
  /\ inPipe' = Append(inPipe, NamedMessage("done", loadName[l]))

PluginEffect(l) ==
  /\ UNCHANGED <<core, vm, outPipes, registrations, loadName>>
  /\ \/ pipe' = pipe
     \/ thread[l] \in {"hello", "run"} /\ pipe[l] # << >>
        /\ pipe' = [pipe EXCEPT ![l] = Tail(@)]
  /\ WritesNoDone \/ StartsRunning(l) \/ WritesDone(l)

LEMMA PluginStepEffect ==
  ASSUME TypeOK, NamedLoads, NEW l \in Loads, PluginStep(l)
  PROVE  PluginEffect(l)
<1> USE DEF PluginEffect, WritesNoDone
<1>a. thread[l] # "none" => loadName[l] \in Names
  BY DEF NamedLoads
<1>1. CASE ReadHello(l)
  BY <1>1 DEF ReadHello, StartsRunning
<1>2. CASE RunReturns(l)
  BY <1>2 DEF RunReturns, SendDone, ToCore, WritesDone
<1>4. ASSUME NEW t \in Types, NEW p \in RequestPriorities, Register(l, t, p)
      PROVE  PluginEffect(l)
  <2>1. RegistrationMessage("register", loadName[l], t, p) \in Message
    BY <1>a, <1>4, RegistrationMessageType, BusAssumption DEF Register
  <2>2. RegistrationMessage("register", loadName[l], t, p).kind # "done"
    BY DEF RegistrationMessage
  <2> QED
    BY <1>4, <2>1, <2>2 DEF Register, ToCore
<1>5. ASSUME NEW t \in Types, Unregister(l, t)
      PROVE  PluginEffect(l)
  <2>1. RegistrationMessage("unregister", loadName[l], t, InitialPriority)
          \in Message
    BY <1>a, <1>5, RegistrationMessageType, DataMessageType DEF Unregister
  <2>2. RegistrationMessage("unregister", loadName[l], t, InitialPriority).kind
          # "done"
    BY DEF RegistrationMessage
  <2> QED
    BY <1>5, <2>1, <2>2 DEF Unregister, ToCore
<1>6. ASSUME NEW t \in Types, NEW d \in Data, Post(l, t, d)
      PROVE  PluginEffect(l)
  <2>1. CASE ToCore(DataMessage(t, InitialPriority, d))
    <3>1. DataMessage(t, InitialPriority, d) \in Message
      BY DataMessageType
    <3>2. DataMessage(t, InitialPriority, d).kind # "done"
      BY DEF DataMessage
    <3> QED
      BY <1>6, <2>1, <3>1, <3>2 DEF Post, ToCore
  <2>2. ASSUME NEW n \in Names, ToCore(TargetMessage(n, t, d))
        PROVE  PluginEffect(l)
    <3>1. TargetMessage(n, t, d) \in Message
      BY DataMessageType
    <3>2. TargetMessage(n, t, d).kind # "done"
      BY DEF TargetMessage
    <3> QED
      BY <1>6, <2>2, <3>1, <3>2 DEF Post, ToCore
  <2> QED
    BY <1>6, <2>1, <2>2 DEF Post
<1>7. ASSUME NEW n \in Names, Add_Plugin(l, n)
      PROVE  PluginEffect(l)
  <2>1. NamedMessage("add_plugin", n) \in Message
    BY NamedMessageType
  <2>2. NamedMessage("add_plugin", n).kind # "done"
    BY DEF NamedMessage
  <2> QED
    BY <1>7, <2>1, <2>2 DEF Add_Plugin, ToCore
<1>8. CASE Quit(l)
  <2>1. NamedMessage("core_quit", NoPlugin) \in Message
    BY NamedMessageType
  <2>2. NamedMessage("core_quit", NoPlugin).kind # "done"
    BY DEF NamedMessage
  <2> QED
    BY <1>8, <2>1, <2>2 DEF Quit, ToCore
<1>9. CASE Echo(l)
  <2>1. Head(pipe[l]) \in Message /\ Head(pipe[l]).kind = "data"
    BY <1>9, TakeType DEF Echo, TypeOK
  <2> DEFINE e == [Head(pipe[l]) EXCEPT !.priority = @ - 1]
  <2>2. e \in Message /\ e.kind # "done"
    BY <2>1 DEF Message
  <2> QED
    BY <1>9, <2>2 DEF Echo, Take, ToCore
<1>10. CASE ReadRegistered(l)
  BY <1>10 DEF ReadRegistered, Take
<1>11. CASE ReadRefused(l)
  <2>1. Head(pipe[l]) \in Message /\ Head(pipe[l]).kind = "refused"
    BY <1>11, TakeType DEF ReadRefused, TypeOK
  <2> DEFINE m == Head(pipe[l])
             e == RegistrationMessage("register", loadName[l], m.type,
                                      NextTry(loadName[l], m.priority))
  <2>2. m.type \in Types /\ NextTry(loadName[l], m.priority) \in Int
    BY <2>1 DEF Message, HasType, NextTry
  <2>3. e \in Message /\ e.kind # "done"
    <3>1. loadName[l] \in Names
      BY <1>a, <1>11 DEF ReadRefused, Take
    <3>2. e \in Message
      BY <2>2, <3>1, RegistrationMessageType
    <3> QED
      BY <3>2 DEF RegistrationMessage
  <2> QED
    BY <1>11, <2>3 DEF ReadRefused, Take, ToCore, SendDone, WritesDone
<1>12. CASE ReadShutdown(l)
  BY <1>12 DEF ReadShutdown, Take, SendDone, ToCore, WritesDone
<1> QED
  BY <1>1, <1>2, <1>4, <1>5, <1>6, <1>7, <1>8, <1>9, <1>10, <1>11,
     <1>12 DEF PluginStep, HandleMessage


-------------------------------------------------------------------------------
(* Types                                                                   *)

BusTypeOK ==
  /\ asked \in [Loads -> [Types -> {"no", "asked", "dropped"}]]
  /\ posted \in SUBSET Data
  /\ added \in SUBSET Names
  /\ quit \in BOOLEAN
  /\ unanswered \in [Loads -> Int]
  /\ deliveries \in [Data -> SUBSET [load : Loads, priority : Int]]

LEMMA PluginTypeInduction ==
  ASSUME TypeOK, NamedLoads, NEW l \in Loads, PluginStep(l)
  PROVE  TypeOK'
<1>1. PluginEffect(l)
  BY PluginStepEffect
<1>2. CoreTypeOK'
  <2> USE <1>1 DEF PluginEffect, TypeOK, CoreTypeOK
  <2>1. pipe' \in [Loads -> Seq(Message)]
    <3>1. CASE pipe' = pipe
      BY <3>1
    <3>2. CASE pipe[l] # << >> /\ pipe' = [pipe EXCEPT ![l] = Tail(@)]
      <4>1. Tail(pipe[l]) \in Seq(Message)
        BY <3>2
      <4> QED
        BY <3>2, <4>1
    <3> QED
      BY <3>1, <3>2
  <2>2. CASE WritesNoDone
    <3>1. inPipe' \in Seq(Message)
      <4>1. ASSUME NEW m \in Message, inPipe' = Append(inPipe, m)
            PROVE  inPipe' \in Seq(Message)
        <5>1. inPipe \in Seq(Message)
          OBVIOUS
        <5> QED
          BY <4>1, <5>1
      <4>2. ASSUME inPipe' = inPipe
            PROVE  inPipe' \in Seq(Message)
        BY <4>2
      <4> QED
        BY <2>2, <4>1, <4>2 DEF WritesNoDone
    <3> QED
      BY <2>1, <2>2, <3>1 DEF WritesNoDone
  <2>3. CASE StartsRunning(l)
    BY <2>1, <2>3 DEF StartsRunning
  <2>4. CASE WritesDone(l)
    <3>1. loadName[l] \in Names
      BY <2>4 DEF WritesDone, NamedLoads
    <3>2. NamedMessage("done", loadName[l]) \in Message
      BY <3>1, NamedMessageType
    <3>3. inPipe' \in Seq(Message)
      BY <2>4, <3>2 DEF WritesDone
    <3> QED
      BY <2>1, <2>4, <3>3 DEF WritesDone
  <2> QED
    BY <2>2, <2>3, <2>4
<1>3. BusTypeOK'
  <2> USE DEF BusTypeOK, TypeOK
  <2>1. CASE ReadHello(l)
    BY <2>1 DEF ReadHello, busVars
  <2>2. CASE RunReturns(l)
    BY <2>2 DEF RunReturns, SendDone
  <2>3. ASSUME NEW t \in Types, NEW p \in RequestPriorities, Register(l, t, p)
        PROVE  BusTypeOK'
    BY <2>3 DEF Register
  <2>4. ASSUME NEW t \in Types, Unregister(l, t)
        PROVE  BusTypeOK'
    BY <2>4 DEF Unregister
  <2>5. ASSUME NEW t \in Types, NEW d \in Data, Post(l, t, d)
        PROVE  BusTypeOK'
    BY <2>5 DEF Post
  <2>6. ASSUME NEW n \in Names, Add_Plugin(l, n)
        PROVE  BusTypeOK'
    BY <2>6 DEF Add_Plugin
  <2>7. CASE Quit(l)
    BY <2>7 DEF Quit
  <2>8. CASE Echo(l)
    BY <2>8 DEF Echo, Take
  <2>9. CASE ReadRegistered(l)
    BY <2>9 DEF ReadRegistered, Take
  <2>10. CASE ReadRefused(l)
    <3>1. UNCHANGED <<asked, posted, added, quit, deliveries>>
      BY <2>10 DEF ReadRefused, Take
    <3>2. unanswered' \in [Loads -> Int]
      BY <2>10 DEF ReadRefused, SendDone
    <3> QED
      BY <3>1, <3>2
  <2>11. CASE ReadShutdown(l)
    BY <2>11 DEF ReadShutdown, Take, SendDone
  <2> QED
    BY <2>1, <2>2, <2>3, <2>4, <2>5, <2>6, <2>7, <2>8, <2>9, <2>10,
       <2>11
       DEF PluginStep, HandleMessage
<1> QED
  BY <1>2, <1>3 DEF TypeOK, BusTypeOK

LEMMA BusTypeInduction ==
  ASSUME TypeOK, BusCoreStep
  PROVE  TypeOK'
<1>1. CoreTypeOK'
  BY CoreTypeInduction DEF BusCoreStep, TypeOK
<1>2. \A l \in Loads, d \in Data :
        Delivered(l, d) => LastWritten(l).priority \in Int
  <2> SUFFICES ASSUME NEW l \in Loads, NEW d \in Data, Delivered(l, d)
               PROVE  LastWritten(l).priority \in Int
    OBVIOUS
  <2>1. pipe[l] \in Seq(Message) /\ pipe'[l] \in Seq(Message)
    BY <1>1 DEF TypeOK, CoreTypeOK
  <2>2. Len(pipe'[l]) \in 1..Len(pipe'[l])
    BY <2>1 DEF Delivered
  <2>3. LastWritten(l) \in Message
    BY <2>1, <2>2 DEF LastWritten
  <2> QED
    BY <2>3 DEF Message
<1>3. deliveries' \in [Data -> SUBSET [load : Loads, priority : Int]]
  BY <1>2 DEF BusCoreStep, TypeOK
<1> QED
  BY <1>1, <1>3 DEF TypeOK, BusCoreStep

LEMMA NamedLoadsInduction ==
  ASSUME TypeOK, NamedLoads, [Next]_vars
  PROVE  NamedLoads'
<1> USE DEF NamedLoads, TypeOK, CoreTypeOK
<1>1. CASE BusCoreStep
  <2>1. CASE AddPlugin
    <3>1. Current.name \in Names
      BY <2>1, ProcessType DEF AddPlugin, Message, HasName
    <3> QED
      BY <2>1, <3>1 DEF AddPlugin, Load
  <2>2. CASE ~AddPlugin
    BY <1>1, <2>2
       DEF BusCoreStep, CoreStep, StopCore, RemovePlugin, AddRegistration,
           RemoveRegistration, TargetPlugin, InitiateShutdown, ToPlugin
  <2> QED
    BY <2>1, <2>2
<1>2. ASSUME NEW l \in Loads, PluginStep(l)
      PROVE  NamedLoads'
  <2>1. PluginEffect(l)
    BY <1>2, PluginStepEffect
  <2> QED
    BY <2>1 DEF PluginEffect, WritesNoDone, StartsRunning, WritesDone
<1>3. CASE UNCHANGED vars
  BY <1>3 DEF vars, coreVars
<1> QED
  BY <1>1, <1>2, <1>3 DEF Next

LEMMA InitTypes == Init => TypeOK /\ NamedLoads
<1> SUFFICES ASSUME Init PROVE TypeOK /\ NamedLoads
  OBVIOUS
<1>1. vm \in Seq(Message)
  <2>1. \A i \in 1..Len(Preloads) :
          NamedMessage("add_plugin", Preloads[i]) \in Message
    BY NamedMessageType, CoreAssumption
  <2>2. Len(Preloads) \in Nat
    BY CoreAssumption
  <2> QED
    BY <2>1, <2>2 DEF Init, CoreInit
<1>2. EmptyRegistry \in Registries
  BY DEF EmptyRegistry, Registries
<1> QED
  <2>1. CoreTypeOK
    BY <1>1, <1>2 DEF Init, CoreInit, CoreTypeOK
  <2>3. BusTypeOK
    <3>1. deliveries \in [Data -> SUBSET [load : Loads, priority : Int]]
      BY DEF Init
    <3>2. [t \in Types |-> "no"] \in [Types -> {"no", "asked", "dropped"}]
      OBVIOUS
    <3>3. asked \in [Loads -> [Types -> {"no", "asked", "dropped"}]]
      BY <3>2 DEF Init
    <3>4. posted \in SUBSET Data /\ added \in SUBSET Names /\ quit \in BOOLEAN
      BY DEF Init
    <3>5. unanswered \in [Loads -> Int]
      BY DEF Init
    <3> QED
      BY <3>1, <3>3, <3>4, <3>5 DEF BusTypeOK
  <2>4. NamedLoads
    BY DEF Init, CoreInit, NamedLoads
  <2> QED
    BY <2>1, <2>3, <2>4 DEF TypeOK, BusTypeOK

LEMMA TypesInvariant == Spec => [](TypeOK /\ NamedLoads)
<1>1. TypeOK /\ NamedLoads /\ [Next]_vars => TypeOK' /\ NamedLoads'
  <2> SUFFICES ASSUME TypeOK, NamedLoads, [Next]_vars PROVE TypeOK'
    BY NamedLoadsInduction
  <2>1. CASE UNCHANGED vars
    BY <2>1 DEF vars, coreVars, busVars, TypeOK, CoreTypeOK
  <2> QED
    BY <2>1, PluginTypeInduction, BusTypeInduction DEF Next
<1> QED
  BY <1>1, InitTypes, PTL DEF Spec

(* Every variable keeps its type: in particular a registry never holds an  *)
(* entry outside the priority bounds, and no pipe holds a malformed        *)
(* message.                                                                *)
THEOREM TypeCorrect == Spec => []TypeOK
BY TypesInvariant, PTL


-------------------------------------------------------------------------------
(* Registrations                                                           *)

(* RegistrationsAreLive is inductive: a name enters a registry only while  *)
(* it has a pipe, and leaves all of them with its pipe.                    *)
LEMMA LiveInduction ==
  ASSUME TypeOK, NamedLoads, RegistrationsAreLive, [Next]_vars
  PROVE  RegistrationsAreLive'
<1> USE DEF RegistrationsAreLive, IsLoaded, TypeOK, CoreTypeOK
<1>1. CASE BusCoreStep
  <2>1. CASE AddPlugin
    <3>1. registrations' = registrations
      BY <2>1 DEF AddPlugin
    <3>2. CASE Load(Current.name)
      <4>1. NextLoad \in Loads
        BY <3>2 DEF Load, NextLoad, FreeLoads
      <4> QED
        BY <3>1, <3>2, <4>1, CoreAssumption, RegistryAssumption
           DEF Load, Registries
    <3>3. CASE outPipes' = outPipes
      BY <3>1, <3>3
    <3> QED
      BY <2>1, <3>2, <3>3 DEF AddPlugin
  <2>2. CASE RemovePlugin
    BY <2>2, RegistryAssumption DEF RemovePlugin, RemoveAll, Registries
  <2>3. CASE AddRegistration
    <3>1. Current.type \in Types /\ Current.name \in Names
      BY <2>3, ProcessType DEF AddRegistration, Message, HasName, HasType
    <3>2. outPipes' = outPipes
      BY <2>3 DEF AddRegistration
    <3>3. CASE registrations' = registrations
      BY <3>2, <3>3
    <3>4. CASE registrations' # registrations
      <4>1. /\ IsLoaded(Current.name)
            /\ registrations' =
                 [registrations EXCEPT ![Current.type] =
                    Add(registrations[Current.type], Current.priority,
                        Current.name)]
        BY <2>3, <3>4 DEF AddRegistration
      <4>2. ASSUME NEW t \in Types, NEW p \in Priorities
            PROVE  registrations'[t][p] \in {registrations[t][p], Current.name}
        BY <3>1, <4>1 DEF Add, CanAdd, Registries
      <4>3. outPipes'[Current.name] # NoLoad
        BY <3>2, <4>1
      <4> QED
        BY <3>2, <4>2, <4>3
    <3> QED
      BY <3>3, <3>4
  <2>4. CASE RemoveRegistration
    BY <2>4, RegistryAssumption DEF RemoveRegistration, RemoveAll, Registries
  <2>5. CASE StopCore \/ TargetPlugin \/ InitiateShutdown \/ ToPlugin
    BY <2>5 DEF StopCore, TargetPlugin, InitiateShutdown, ToPlugin
  <2> QED
    BY <1>1, <2>1, <2>2, <2>3, <2>4, <2>5 DEF BusCoreStep, CoreStep
<1>2. ASSUME NEW l \in Loads, PluginStep(l)
      PROVE  RegistrationsAreLive'
  BY <1>2, PluginStepEffect DEF PluginEffect
<1>3. CASE UNCHANGED vars
  BY <1>3 DEF vars, coreVars
<1> QED
  BY <1>1, <1>2, <1>3 DEF Next

(* Whatever the plugins do, only plugins with a pipe are registered.       *)
THEOREM RegisteredPluginsAreLoaded == Spec => []RegistrationsAreLive
<1>1. Init => RegistrationsAreLive
  BY DEF Init, CoreInit, RegistrationsAreLive, EmptyRegistry
<1>2. TypeOK /\ NamedLoads /\ RegistrationsAreLive /\ [Next]_vars
        => RegistrationsAreLive'
  BY LiveInduction
<1> QED
  BY <1>1, <1>2, TypesInvariant, PTL DEF Spec


LEMMA ExclusiveStep ==
  ASSUME TypeOK, NamedLoads, [Next]_vars,
         NEW t \in Types, NEW p \in Priorities, registrations[t][p] # NoPlugin
  PROVE  registrations'[t][p] \in {registrations[t][p], NoPlugin}
<1> USE DEF TypeOK, CoreTypeOK
<1>1. CASE BusCoreStep
  <2>1. CASE RemovePlugin
    BY <2>1 DEF RemovePlugin, RemoveAll, Registries
  <2>2. CASE AddRegistration
    <3>1. Current.type \in Types
      BY <2>2, ProcessType DEF AddRegistration, Message, HasType
    <3>2. CASE registrations' = registrations
      BY <3>2
    <3>3. CASE registrations' # registrations
      <4>1. registrations' =
              [registrations EXCEPT ![Current.type] =
                 Add(registrations[Current.type], Current.priority,
                     Current.name)]
        BY <2>2, <3>3 DEF AddRegistration
      <4> QED
        BY <3>1, <4>1 DEF Add, CanAdd, Registries
    <3> QED
      BY <3>2, <3>3
  <2>3. CASE RemoveRegistration
    BY <2>3 DEF RemoveRegistration, RemoveAll, Registries
  <2>4. CASE StopCore \/ AddPlugin \/ TargetPlugin \/ InitiateShutdown \/ ToPlugin
    BY <2>4 DEF StopCore, AddPlugin, TargetPlugin, InitiateShutdown, ToPlugin
  <2> QED
    BY <1>1, <2>1, <2>2, <2>3, <2>4 DEF BusCoreStep, CoreStep
<1>2. ASSUME NEW l \in Loads, PluginStep(l)
      PROVE  registrations'[t][p] \in {registrations[t][p], NoPlugin}
  BY <1>2, PluginStepEffect DEF PluginEffect
<1>3. CASE UNCHANGED vars
  BY <1>3 DEF vars, coreVars
<1> QED
  BY <1>1, <1>2, <1>3 DEF Next

(* A priority that is taken is freed before another plugin gets it,        *)
(* however registrations are retried.                                      *)
THEOREM PrioritiesAreExclusive == Spec => RegistrationIsExclusive
<1>1. TypeOK /\ NamedLoads /\ [Next]_vars
        => [\A t \in Types, p \in Priorities :
              registrations[t][p] # NoPlugin =>
                registrations'[t][p] \in {registrations[t][p], NoPlugin}]_vars
  BY ExclusiveStep
<1> QED
  BY <1>1, TypesInvariant, PTL DEF Spec, RegistrationIsExclusive


-------------------------------------------------------------------------------
(* The life of a plugin thread.  RunningIsLoaded and CoreStopsLast are not *)
(* inductive: a second done, or one for a thread that still runs, would    *)
(* break them, so the invariant says what the done messages under way      *)
(* stand for.                                                              *)

IsDone(i) == inPipe[i].kind = "done"

PipesBelong ==
  \A n \in Names : IsLoaded(n) =>
    thread[outPipes[n]] # "none" /\ loadName[outPipes[n]] = n

DonesAreOfExited ==
  \A i \in 1..Len(inPipe) : IsDone(i) =>
    IsLoaded(inPipe[i].name) /\ thread[outPipes[inPipe[i].name]] = "exited"

DonesDiffer ==
  \A i, j \in 1..Len(inPipe) :
    IsDone(i) /\ IsDone(j) /\ i # j => inPipe[i].name # inPipe[j].name

LifeInv ==
  /\ RunningIsLoaded
  /\ PipesBelong
  /\ DonesAreOfExited
  /\ DonesDiffer
  /\ \A i \in 1..Len(vm) : vm[i].kind = "add_plugin"
  /\ core = "stopped" => Loaded = {}

LEMMA TailElements ==
  ASSUME NEW s \in Seq(Message), s # << >>
  PROVE  /\ Tail(s) \in Seq(Message)
         /\ \A i \in 1..Len(Tail(s)) :
              i + 1 \in 1..Len(s) /\ Tail(s)[i] = s[i + 1] /\ i + 1 # 1
OBVIOUS

(* The queues after the core has taken a message.                          *)
LEMMA ProcessQueues ==
  ASSUME CoreTypeOK, NEW kind, Process(kind)
  PROVE  /\ core' = core
         /\ \A i \in 1..Len(vm') :
              \E j \in 1..Len(vm) : vm'[i] = vm[j]
         /\ \/ inPipe' = inPipe
            \/ inPipe # << >> /\ inPipe' = Tail(inPipe)
<1> USE DEF CoreTypeOK, Process, CoreHasMessage
<1>1. CASE vm # << >>
  <2>1. vm' = Tail(vm) /\ inPipe' = inPipe /\ core' = core
    BY <1>1
  <2>2. vm \in Seq(Message)
    OBVIOUS
  <2>3. \A i \in 1..Len(vm') : i + 1 \in 1..Len(vm) /\ vm'[i] = vm[i + 1]
    BY <1>1, <2>1, <2>2, TailElements
  <2> QED
    BY <2>1, <2>3
<1>2. CASE vm = << >>
  BY <1>2
<1> QED
  BY <1>1, <1>2

(* Taking a message away from in_pipe disturbs nothing by itself.          *)
LEMMA LifeAfterDequeue ==
  ASSUME TypeOK, LifeInv, NEW kind, Process(kind),
         UNCHANGED <<outPipes, thread, loadName>>
  PROVE  LifeInv'
<1> USE DEF TypeOK, CoreTypeOK, LifeInv, IsDone
<1>1. /\ core' = core
      /\ \A i \in 1..Len(vm') : \E j \in 1..Len(vm) : vm'[i] = vm[j]
  BY ProcessQueues
<1>2. \A i \in 1..Len(vm') : vm'[i].kind = "add_plugin"
  <2>1. \A j \in 1..Len(vm) : vm[j].kind = "add_plugin"
    OBVIOUS
  <2> HIDE DEF TypeOK, CoreTypeOK, LifeInv, IsDone
  <2> QED
    BY <1>1, <2>1
<1>3. CASE inPipe' = inPipe
  <2> HIDE DEF TypeOK, CoreTypeOK
  <2>1. RunningIsLoaded' /\ PipesBelong'
    BY DEF RunningIsLoaded, PipesBelong, IsLoaded
  <2>2. DonesAreOfExited'
    BY <1>3 DEF DonesAreOfExited, IsLoaded
  <2>3. DonesDiffer'
    BY <1>3 DEF DonesDiffer
  <2>4. (core = "stopped" => Loaded = {})'
    BY <1>1 DEF Loaded, IsLoaded
  <2> QED
    BY <1>2, <2>1, <2>2, <2>3, <2>4
<1>4. CASE inPipe # << >> /\ inPipe' = Tail(inPipe)
  <2>1. \A i \in 1..Len(inPipe') :
          i + 1 \in 1..Len(inPipe) /\ inPipe'[i] = inPipe[i + 1]
    BY <1>4, TailElements
  <2>2. DonesAreOfExited'
    <3> SUFFICES ASSUME NEW i \in 1..Len(inPipe'), IsDone(i)'
                 PROVE  IsLoaded(inPipe[i].name)'
                        /\ (thread[outPipes[inPipe[i].name]] = "exited")'
      BY DEF DonesAreOfExited
    <3>1. i + 1 \in 1..Len(inPipe) /\ inPipe'[i] = inPipe[i + 1]
      BY <2>1
    <3>2. IsDone(i + 1)
      BY <3>1
    <3> QED
      BY <3>1, <3>2 DEF DonesAreOfExited, IsLoaded
  <2>3. DonesDiffer'
    <3> SUFFICES ASSUME NEW i \in 1..Len(inPipe'), NEW j \in 1..Len(inPipe'),
                        IsDone(i)', IsDone(j)', i # j
                 PROVE  inPipe'[i].name # inPipe'[j].name
      BY DEF DonesDiffer
    <3>1. /\ i + 1 \in 1..Len(inPipe) /\ inPipe'[i] = inPipe[i + 1]
          /\ j + 1 \in 1..Len(inPipe) /\ inPipe'[j] = inPipe[j + 1]
          /\ i + 1 # j + 1
      BY <2>1
    <3>2. IsDone(i + 1) /\ IsDone(j + 1)
      BY <3>1
    <3> QED
      BY <3>1, <3>2 DEF DonesDiffer
  <2> QED
    BY <1>1, <1>2, <2>2, <2>3 DEF RunningIsLoaded, PipesBelong, IsLoaded, Loaded
<1> QED
  BY <1>3, <1>4, ProcessQueues

(* A new load takes a free thread and a free name.                         *)
LEMMA LifeAfterLoad ==
  ASSUME TypeOK, LifeInv, AddPlugin, ~UNCHANGED <<outPipes, thread, loadName>>
  PROVE  LifeInv'
<1> DEFINE n == Current.name
           l == NextLoad
<1> USE DEF TypeOK, CoreTypeOK
<1>1. n \in Names
  BY ProcessType DEF AddPlugin, Message, HasName
<1>2. /\ l \in Loads /\ thread[l] = "none" /\ ~IsLoaded(n)
      /\ thread' = [thread EXCEPT ![l] = "hello"]
      /\ loadName' = [loadName EXCEPT ![l] = n]
      /\ outPipes' = [outPipes EXCEPT ![n] = l]
  BY DEF AddPlugin, Load, NextLoad, FreeLoads
<1>3. /\ core' = core
      /\ \A i \in 1..Len(vm') : \E j \in 1..Len(vm) : vm'[i] = vm[j]
      /\ inPipe' = inPipe \/ (inPipe # << >> /\ inPipe' = Tail(inPipe))
  BY ProcessQueues DEF AddPlugin
<1>4. core = "running"
  BY DEF AddPlugin, Process, CoreHasMessage
<1> HIDE DEF n, l
<1>5. \A m \in Names : IsLoaded(m) => m # n /\ outPipes[m] # l
                                       /\ outPipes'[m] = outPipes[m]
  BY <1>1, <1>2 DEF LifeInv, PipesBelong, IsLoaded
<1>6. RunningIsLoaded'
  BY <1>1, <1>2, CoreAssumption DEF LifeInv, RunningIsLoaded, IsLoaded
<1>7. PipesBelong'
  BY <1>1, <1>2, CoreAssumption DEF LifeInv, PipesBelong, IsLoaded
<1>8. \A i \in 1..Len(inPipe) : IsDone(i) =>
        /\ outPipes'[inPipe[i].name] = outPipes[inPipe[i].name]
        /\ thread'[outPipes'[inPipe[i].name]] = "exited"
        /\ outPipes'[inPipe[i].name] # NoLoad
  <2> SUFFICES ASSUME NEW i \in 1..Len(inPipe), IsDone(i)
               PROVE  /\ outPipes'[inPipe[i].name] = outPipes[inPipe[i].name]
                      /\ thread'[outPipes'[inPipe[i].name]] = "exited"
                      /\ outPipes'[inPipe[i].name] # NoLoad
    OBVIOUS
  <2>1. inPipe[i].name \in Names
    <3>1. inPipe[i] \in Message
      OBVIOUS
    <3> QED
      BY <3>1 DEF IsDone, Message, HasName
  <2>2. IsLoaded(inPipe[i].name) /\ thread[outPipes[inPipe[i].name]] = "exited"
    BY DEF LifeInv, DonesAreOfExited
  <2> QED
    BY <1>2, <1>5, <2>1, <2>2 DEF IsLoaded
<1>9. DonesAreOfExited' /\ DonesDiffer'
  <2>1. CASE inPipe' = inPipe
    BY <1>8, <2>1 DEF LifeInv, DonesAreOfExited, DonesDiffer, IsDone, IsLoaded
  <2>2. CASE inPipe # << >> /\ inPipe' = Tail(inPipe)
    <3>1. \A i \in 1..Len(inPipe') :
            i + 1 \in 1..Len(inPipe) /\ inPipe'[i] = inPipe[i + 1]
      BY <2>2, TailElements
    <3>2. DonesAreOfExited'
      BY <1>8, <3>1 DEF DonesAreOfExited, IsDone, IsLoaded
    <3>3. DonesDiffer'
      <4> SUFFICES ASSUME NEW i \in 1..Len(inPipe'), NEW j \in 1..Len(inPipe'),
                          IsDone(i)', IsDone(j)', i # j
                   PROVE  inPipe'[i].name # inPipe'[j].name
        BY DEF DonesDiffer
      <4>1. /\ i + 1 \in 1..Len(inPipe) /\ inPipe'[i] = inPipe[i + 1]
            /\ j + 1 \in 1..Len(inPipe) /\ inPipe'[j] = inPipe[j + 1]
            /\ i + 1 # j + 1
        BY <3>1
      <4>2. IsDone(i + 1) /\ IsDone(j + 1)
        BY <4>1 DEF IsDone
      <4> QED
        BY <4>1, <4>2 DEF LifeInv, DonesDiffer
    <3> QED
      BY <3>2, <3>3
  <2> QED
    BY <1>3, <2>1, <2>2
<1>11. \A i \in 1..Len(vm') : vm'[i].kind = "add_plugin"
  <2> SUFFICES ASSUME NEW i \in 1..Len(vm') PROVE vm'[i].kind = "add_plugin"
    OBVIOUS
  <2>1. PICK j \in 1..Len(vm) : vm'[i] = vm[j]
    BY <1>3
  <2> QED
    BY <2>1 DEF LifeInv
<1> QED
  BY <1>3, <1>4, <1>6, <1>7, <1>9, <1>11 DEF LifeInv


(* The done message that is processed is the only one for its plugin, so   *)
(* no other done loses its pipe, and the plugin has exited.                *)
LEMMA LifeAfterRemove ==
  ASSUME TypeOK, LifeInv, RemovePlugin
  PROVE  LifeInv'
<1> DEFINE n == inPipe[1].name
<1> USE DEF TypeOK, CoreTypeOK
<1>1. /\ vm = << >> /\ inPipe # << >> /\ Current = inPipe[1]
      /\ inPipe' = Tail(inPipe) /\ vm' = vm /\ core' = core
      /\ inPipe[1].kind = "done" /\ core = "running"
  <2>1. CASE vm # << >>
    <3>1. Head(vm) = vm[1] /\ 1 \in 1..Len(vm)
      BY <2>1
    <3>2. Head(vm).kind = "add_plugin"
      BY <3>1 DEF LifeInv
    <3> QED
      BY <2>1, <3>2 DEF RemovePlugin, Process, Current
  <2>2. CASE vm = << >>
    BY <2>2 DEF RemovePlugin, Process, Current, CoreHasMessage
  <2> QED
    BY <2>1, <2>2
<1>2. 1 \in 1..Len(inPipe) /\ IsDone(1)
  BY <1>1 DEF IsDone
<1>3. n \in Names
  <2>1. inPipe[1] \in Message
    BY <1>2
  <2> QED
    BY <1>1, <2>1 DEF Message, HasName
<1>4. IsLoaded(n) /\ thread[outPipes[n]] = "exited"
  BY <1>2 DEF LifeInv, DonesAreOfExited
<1>5. outPipes' = [outPipes EXCEPT ![n] = NoLoad]
      /\ thread' = thread /\ loadName' = loadName
  BY <1>1 DEF RemovePlugin
<1>6. \A i \in 1..Len(inPipe') :
        i + 1 \in 1..Len(inPipe) /\ inPipe'[i] = inPipe[i + 1] /\ i + 1 # 1
  BY <1>1, TailElements
<1> HIDE DEF n
<1>7. RunningIsLoaded'
  BY <1>3, <1>4, <1>5 DEF LifeInv, RunningIsLoaded
<1>8. PipesBelong'
  BY <1>3, <1>5 DEF LifeInv, PipesBelong, IsLoaded
<1>9. DonesAreOfExited'
  <2> SUFFICES ASSUME NEW i \in 1..Len(inPipe'), IsDone(i)'
               PROVE  IsLoaded(inPipe[i].name)'
                      /\ (thread[outPipes[inPipe[i].name]] = "exited")'
    BY DEF DonesAreOfExited
  <2>1. i + 1 \in 1..Len(inPipe) /\ inPipe'[i] = inPipe[i + 1] /\ i + 1 # 1
    BY <1>6
  <2>2. IsDone(i + 1)
    BY <2>1 DEF IsDone
  <2>3. inPipe[i + 1].name # n
    BY <1>2, <2>1, <2>2 DEF LifeInv, DonesDiffer, n
  <2>4. /\ IsLoaded(inPipe[i + 1].name)
        /\ thread[outPipes[inPipe[i + 1].name]] = "exited"
    BY <2>1, <2>2 DEF LifeInv, DonesAreOfExited
  <2>5. inPipe[i + 1].name \in Names
    <3>1. inPipe[i + 1] \in Message
      BY <2>1
    <3> QED
      BY <2>2, <3>1 DEF IsDone, Message, HasName
  <2> QED
    BY <1>5, <2>1, <2>3, <2>4, <2>5 DEF IsLoaded
<1>10. DonesDiffer'
  <2> SUFFICES ASSUME NEW i \in 1..Len(inPipe'), NEW j \in 1..Len(inPipe'),
                      IsDone(i)', IsDone(j)', i # j
               PROVE  inPipe'[i].name # inPipe'[j].name
    BY DEF DonesDiffer
  <2>1. /\ i + 1 \in 1..Len(inPipe) /\ inPipe'[i] = inPipe[i + 1]
        /\ j + 1 \in 1..Len(inPipe) /\ inPipe'[j] = inPipe[j + 1]
        /\ i + 1 # j + 1
    BY <1>6
  <2>2. IsDone(i + 1) /\ IsDone(j + 1)
    BY <2>1 DEF IsDone
  <2> QED
    BY <2>1, <2>2 DEF LifeInv, DonesDiffer
<1> QED
  BY <1>1, <1>5, <1>7, <1>8, <1>9, <1>10 DEF LifeInv

LEMMA LifeAfterPluginStep ==
  ASSUME TypeOK, NamedLoads, LifeInv,
         NEW l \in Loads, PluginStep(l)
  PROVE  LifeInv'
<1> USE DEF TypeOK, CoreTypeOK
<1>1. /\ PluginEffect(l)
      /\ UNCHANGED <<core, vm, outPipes, loadName>>
  BY PluginStepEffect DEF PluginEffect
<1>2. CASE WritesNoDone
  <2>1. CASE inPipe' = inPipe
    BY <1>1, <1>2, <2>1
       DEF WritesNoDone, LifeInv, RunningIsLoaded, PipesBelong,
           DonesAreOfExited, DonesDiffer, IsDone, IsLoaded, Loaded
  <2>2. ASSUME NEW m \in Message, m.kind # "done", inPipe' = Append(inPipe, m)
        PROVE  LifeInv'
    <3>1. \A i \in 1..Len(inPipe') : IsDone(i)' =>
            i \in 1..Len(inPipe) /\ inPipe'[i] = inPipe[i] /\ IsDone(i)
      BY <2>2 DEF IsDone
    <3> HIDE DEF TypeOK, CoreTypeOK
    <3>2. DonesAreOfExited'
      BY <1>1, <1>2, <3>1 DEF WritesNoDone, LifeInv, DonesAreOfExited, IsLoaded
    <3>4. DonesDiffer'
      BY <3>1 DEF LifeInv, DonesDiffer
    <3>3. RunningIsLoaded' /\ PipesBelong'
      BY <1>1, <1>2
         DEF WritesNoDone, LifeInv, RunningIsLoaded, PipesBelong, IsLoaded
    <3> QED
      BY <1>1, <1>2, <3>2, <3>3, <3>4 DEF WritesNoDone, LifeInv, Loaded, IsLoaded
  <2> QED
    BY <1>2, <2>1, <2>2 DEF WritesNoDone
<1>3. CASE StartsRunning(l)
  <2>1. /\ thread[l] = "hello" /\ inPipe' = inPipe
        /\ thread'[l] \in {"run", "exited"}
        /\ \A k \in Loads \ {l} : thread'[k] = thread[k]
    BY <1>3 DEF StartsRunning
  <2> HIDE DEF TypeOK, CoreTypeOK
  <2>2. RunningIsLoaded'
    BY <1>1, <2>1 DEF LifeInv, RunningIsLoaded
  <2>3. \A k \in Loads : thread[k] = "exited" => thread'[k] = "exited"
    BY <2>1
  <2>4. PipesBelong'
    <3> SUFFICES ASSUME NEW n \in Names, IsLoaded(n)'
                 PROVE  thread'[outPipes[n]] # "none" /\ loadName[outPipes[n]] = n
      BY <1>1 DEF PipesBelong
    <3>1. IsLoaded(n) /\ outPipes[n] \in Loads
      BY <1>1 DEF IsLoaded, TypeOK, CoreTypeOK
    <3> QED
      BY <2>1, <3>1 DEF LifeInv, PipesBelong
  <2>5. DonesAreOfExited'
    <3> SUFFICES ASSUME NEW i \in 1..Len(inPipe), IsDone(i)
                 PROVE  IsLoaded(inPipe[i].name)'
                        /\ thread'[outPipes[inPipe[i].name]] = "exited"
      BY <1>1, <2>1 DEF DonesAreOfExited, IsDone
    <3>1. IsLoaded(inPipe[i].name) /\ thread[outPipes[inPipe[i].name]] = "exited"
      BY DEF LifeInv, DonesAreOfExited
    <3>4. inPipe[i] \in Message
      BY DEF TypeOK, CoreTypeOK
    <3>2. inPipe[i].name \in Names
      BY <3>4 DEF IsDone, Message, HasName
    <3>3. outPipes[inPipe[i].name] \in Loads
      BY <3>1, <3>2 DEF IsLoaded, TypeOK, CoreTypeOK
    <3>5. inPipe'[i].name = inPipe[i].name
      BY <2>1
    <3>6. thread'[outPipes[inPipe[i].name]] = "exited"
      BY <2>3, <3>1, <3>3
    <3> QED
      BY <1>1, <3>1, <3>5, <3>6 DEF IsLoaded
  <2>6. DonesDiffer'
    BY <2>1 DEF LifeInv, DonesDiffer, IsDone
  <2> QED
    BY <1>1, <2>2, <2>4, <2>5, <2>6 DEF LifeInv, Loaded, IsLoaded
<1>4. CASE WritesDone(l)
  <2>1. /\ thread[l] = "run" /\ loadName[l] \in Names
        /\ thread' = [thread EXCEPT ![l] = "exited"]
        /\ inPipe' = Append(inPipe, NamedMessage("done", loadName[l]))
    BY <1>4 DEF WritesDone, LifeInv, NamedLoads
  <2>2. outPipes[loadName[l]] = l
    BY <2>1 DEF LifeInv, RunningIsLoaded
  <2>3. \A i \in 1..Len(inPipe') :
          \/ i \in 1..Len(inPipe) /\ inPipe'[i] = inPipe[i]
          \/ i = Len(inPipe) + 1 /\ inPipe'[i].name = loadName[l]
    BY <2>1 DEF NamedMessage
  <2>4. \A i \in 1..Len(inPipe) : IsDone(i) =>
          /\ inPipe[i].name # loadName[l]
          /\ IsLoaded(inPipe[i].name)
          /\ thread'[outPipes[inPipe[i].name]] = "exited"
    <3> SUFFICES ASSUME NEW i \in 1..Len(inPipe), IsDone(i)
                 PROVE  /\ inPipe[i].name # loadName[l]
                        /\ IsLoaded(inPipe[i].name)
                        /\ thread'[outPipes[inPipe[i].name]] = "exited"
      OBVIOUS
    <3>1. IsLoaded(inPipe[i].name) /\ thread[outPipes[inPipe[i].name]] = "exited"
      BY DEF LifeInv, DonesAreOfExited
    <3>2. inPipe[i].name # loadName[l]
      BY <2>1, <2>2, <3>1
    <3> QED
      BY <2>1, <3>1, <3>2
  <2>5. RunningIsLoaded' /\ PipesBelong'
    BY <1>1, <2>1 DEF LifeInv, RunningIsLoaded, PipesBelong, IsLoaded
  <2>6. DonesAreOfExited'
    <3> SUFFICES ASSUME NEW i \in 1..Len(inPipe'), IsDone(i)'
                 PROVE  IsLoaded(inPipe[i].name)'
                        /\ (thread[outPipes[inPipe[i].name]] = "exited")'
      BY DEF DonesAreOfExited
    <3>1. CASE i \in 1..Len(inPipe) /\ inPipe'[i] = inPipe[i]
      BY <1>1, <2>4, <3>1 DEF IsDone, IsLoaded
    <3>2. CASE inPipe'[i].name = loadName[l]
      BY <1>1, <2>1, <2>2, <3>2, CoreAssumption DEF IsLoaded
    <3> QED
      BY <2>3, <3>1, <3>2
  <2>7. DonesDiffer'
    <3> SUFFICES ASSUME NEW i \in 1..Len(inPipe'), NEW j \in 1..Len(inPipe'),
                        IsDone(i)', IsDone(j)', i # j
                 PROVE  inPipe'[i].name # inPipe'[j].name
      BY DEF DonesDiffer
    <3>1. CASE i \in 1..Len(inPipe) /\ j \in 1..Len(inPipe)
      <4>1. inPipe'[i] = inPipe[i]
        <5>1. i # Len(inPipe) + 1
          BY <3>1
        <5> QED
          BY <2>3, <5>1
      <4>2. inPipe'[j] = inPipe[j]
        <5>1. j # Len(inPipe) + 1
          BY <3>1
        <5> QED
          BY <2>3, <5>1
      <4> QED
        BY <3>1, <4>1, <4>2 DEF LifeInv, DonesDiffer, IsDone
    <3>2. CASE i \in 1..Len(inPipe) /\ j \notin 1..Len(inPipe)
      BY <2>3, <2>4, <3>2 DEF IsDone
    <3>3. CASE i \notin 1..Len(inPipe) /\ j \in 1..Len(inPipe)
      BY <2>3, <2>4, <3>3 DEF IsDone
    <3>4. CASE i \notin 1..Len(inPipe) /\ j \notin 1..Len(inPipe)
      BY <2>3, <3>4
    <3> QED
      BY <3>1, <3>2, <3>3, <3>4
  <2> QED
    BY <1>1, <2>1, <2>5, <2>6, <2>7 DEF LifeInv, Loaded, IsLoaded
<1> QED
  BY <1>1, <1>2, <1>3, <1>4 DEF PluginEffect

LEMMA LifeInduction ==
  ASSUME TypeOK, NamedLoads, LifeInv, [Next]_vars
  PROVE  LifeInv'
<1>1. CASE BusCoreStep
  <2>1. CASE StopCore
    BY <2>1
       DEF StopCore, LifeInv, RunningIsLoaded, PipesBelong, DonesAreOfExited,
           DonesDiffer, IsDone, IsLoaded, Loaded
  <2>2. CASE AddPlugin
    <3>1. CASE UNCHANGED <<outPipes, thread, loadName>>
      BY <2>2, <3>1, LifeAfterDequeue DEF AddPlugin
    <3> QED
      BY <2>2, <3>1, LifeAfterLoad
  <2>3. CASE RemovePlugin
    BY <2>3, LifeAfterRemove
  <2>4. CASE AddRegistration
    BY <2>4, LifeAfterDequeue DEF AddRegistration
  <2>5. CASE RemoveRegistration
    BY <2>5, LifeAfterDequeue DEF RemoveRegistration
  <2>6. CASE TargetPlugin
    BY <2>6, LifeAfterDequeue DEF TargetPlugin
  <2>7. CASE InitiateShutdown
    BY <2>7, LifeAfterDequeue DEF InitiateShutdown
  <2>8. CASE ToPlugin
    BY <2>8, LifeAfterDequeue DEF ToPlugin
  <2> QED
    BY <1>1, <2>1, <2>2, <2>3, <2>4, <2>5, <2>6, <2>7, <2>8
       DEF BusCoreStep, CoreStep
<1>2. ASSUME NEW l \in Loads, PluginStep(l)
      PROVE  LifeInv'
  BY <1>2, LifeAfterPluginStep
<1>3. CASE UNCHANGED vars
  BY <1>3
     DEF vars, coreVars, LifeInv, RunningIsLoaded, PipesBelong,
         DonesAreOfExited, DonesDiffer, IsDone, IsLoaded, Loaded
<1> QED
  BY <1>1, <1>2, <1>3 DEF Next

LEMMA LifeInvariant ==
  Spec => []LifeInv
<1>1. Init => LifeInv
  <2> SUFFICES ASSUME Init PROVE LifeInv
    OBVIOUS
  <2>1. \A i \in 1..Len(vm) : vm[i].kind = "add_plugin"
    BY CoreAssumption DEF Init, CoreInit, NamedMessage
  <2>2. RunningIsLoaded /\ PipesBelong
    BY DEF Init, CoreInit, RunningIsLoaded, PipesBelong, IsLoaded
  <2>3. DonesAreOfExited /\ DonesDiffer
    <3>1. Len(inPipe) = 0
      BY DEF Init, CoreInit
    <3> QED
      BY <3>1 DEF DonesAreOfExited, DonesDiffer
  <2> QED
    BY <2>1, <2>2, <2>3 DEF Init, CoreInit, LifeInv
<1>2. TypeOK /\ NamedLoads /\ LifeInv /\ [Next]_vars => LifeInv'
  BY LifeInduction
<1> QED
  BY <1>1, <1>2, TypesInvariant, PTL DEF Spec

(* A plugin thread that reads its pipe is the one the core writes to under *)
(* its name, however often plugins of that name come and go.              *)
THEOREM RunningPluginsAreLoaded ==
  Spec => []RunningIsLoaded
BY LifeInvariant, PTL DEF LifeInv

(* run_core outlives every plugin thread, for any number of plugins that   *)
(* are started, exit and are started again in any order.                   *)
THEOREM CoreOutlivesPlugins ==
  Spec => []CoreStopsLast
<1>1. TypeOK /\ NamedLoads /\ LifeInv => CoreStopsLast
  <2> SUFFICES ASSUME TypeOK, NamedLoads, LifeInv, core = "stopped",
                      NEW l \in Loads
               PROVE  thread[l] \in {"none", "exited"}
    BY DEF CoreStopsLast
  <2>1. thread[l] \notin {"hello", "run"}
    BY CoreAssumption
       DEF LifeInv, RunningIsLoaded, NamedLoads, Loaded, IsLoaded
  <2> QED
    BY <2>1 DEF LifeInv, TypeOK, CoreTypeOK
<1> QED
  BY <1>1, TypesInvariant, LifeInvariant, PTL

-------------------------------------------------------------------------------
(* The hello comes first.  HelloFirst becomes inductive with the fact that *)
(* nothing has been written for a load that was not started, which rests   *)
(* on the pipes of the core belonging to started loads (PipesBelong).      *)

IsHello(l, i) == pipe[l][i].kind = "hello"

Greeted(l) ==
  /\ thread[l] = "none" => pipe[l] = << >>
  /\ thread[l] = "hello" =>
       pipe[l] # << >> /\ Head(pipe[l]) = NamedMessage("hello", loadName[l])
  /\ \A i \in 1..Len(pipe[l]) : IsHello(l, i) => i = 1 /\ thread[l] = "hello"

HelloInv == \A l \in Loads : Greeted(l)

(* What a load sees of a step of the core: nothing, a message other than   *)
(* hello if it has been started, or the hello of its own start.            *)
Keeps(l) ==
  pipe'[l] = pipe[l] /\ thread'[l] = thread[l] /\ loadName'[l] = loadName[l]

Gets(l) ==
  /\ thread[l] # "none"
  /\ thread'[l] = thread[l] /\ loadName'[l] = loadName[l]
  /\ \E m \in Message : m.kind # "hello" /\ pipe'[l] = Append(pipe[l], m)

Starts(l) ==
  /\ thread[l] = "none" /\ thread'[l] = "hello"
  /\ \E n \in Names :
       /\ loadName'[l] = n
       /\ pipe'[l] = Append(pipe[l], NamedMessage("hello", n))

Noticed == \A l \in Loads : Keeps(l) \/ Gets(l) \/ Starts(l)

LEMMA WriteIsNoticed ==
  ASSUME TypeOK, PipesBelong, NEW n \in Names, IsLoaded(n), NEW m \in Message,
         m.kind # "hello", WriteTo(n, m), UNCHANGED <<thread, loadName>>
  PROVE  Noticed
<1> SUFFICES ASSUME NEW l \in Loads
             PROVE  Keeps(l) \/ Gets(l) \/ Starts(l)
  BY DEF Noticed
<1>1. CASE l = outPipes[n]
  <2>1. thread[l] # "none"
    BY <1>1 DEF PipesBelong
  <2>2. pipe'[l] = Append(pipe[l], m)
    BY <1>1 DEF WriteTo, TypeOK, CoreTypeOK
  <2> QED
    BY <2>1, <2>2 DEF Gets
<1>2. CASE l # outPipes[n]
  BY <1>2 DEF WriteTo, TypeOK, CoreTypeOK, Keeps
<1> QED
  BY <1>1, <1>2

LEMMA CoreIsNoticed ==
  ASSUME TypeOK, PipesBelong, CoreStep
  PROVE  Noticed
<1>1. CASE UNCHANGED <<pipe, thread, loadName>>
  BY <1>1 DEF Noticed, Keeps
<1>2. CASE StopCore \/ RemovePlugin \/ RemoveRegistration
  BY <1>1, <1>2 DEF StopCore, RemovePlugin, RemoveRegistration
<1>3. CASE AddPlugin
  <2>1. Current.name \in Names
    BY <1>3, ProcessType DEF AddPlugin, TypeOK, Message, HasName
  <2>2. CASE Load(Current.name)
    <3>1. /\ NextLoad \in Loads /\ thread[NextLoad] = "none"
          /\ thread' = [thread EXCEPT ![NextLoad] = "hello"]
          /\ loadName' = [loadName EXCEPT ![NextLoad] = Current.name]
          /\ pipe' = [pipe EXCEPT ![NextLoad] =
                        Append(@, NamedMessage("hello", Current.name))]
      BY <2>2 DEF Load, NextLoad, FreeLoads
    <3>2. \A l \in Loads : l # NextLoad => Keeps(l)
      BY <3>1 DEF TypeOK, CoreTypeOK, Keeps
    <3>3. Starts(NextLoad)
      BY <2>1, <3>1 DEF TypeOK, CoreTypeOK, Starts
    <3> QED
      BY <3>2, <3>3 DEF Noticed
  <2> QED
    BY <1>1, <1>3, <2>2 DEF AddPlugin
<1>4. CASE AddRegistration
  <2> DEFINE m == RegistrationMessage(
               IF CanAdd(registrations[Current.type], Current.priority)
               THEN "registered" ELSE "refused",
               NoPlugin, Current.type, Current.priority)
  <2>1. /\ Current.name \in Names /\ Current.type \in Types
        /\ Current.priority \in Int
    BY <1>4, ProcessType DEF AddRegistration, TypeOK, Message, HasName, HasType
  <2>2. m \in Message /\ m.kind # "hello"
    BY <2>1, RegistrationMessageType DEF RegistrationMessage
  <2>3. CASE IsLoaded(Current.name)
    <3>1. WriteTo(Current.name, m) /\ UNCHANGED <<thread, loadName>>
      BY <1>4, <2>3 DEF AddRegistration
    <3> QED
      BY <2>1, <2>2, <2>3, <3>1, WriteIsNoticed
  <2> QED
    BY <1>1, <1>4, <2>3 DEF AddRegistration
<1>5. CASE TargetPlugin
  <2>1. /\ Current.name \in Names /\ Current.type \in Types
        /\ Current.data \in Data \cup {NoData}
    BY <1>5, ProcessType DEF TargetPlugin, TypeOK, Message, HasName, HasType
  <2>2. /\ DataMessage(Current.type, InitialPriority, Current.data) \in Message
        /\ DataMessage(Current.type, InitialPriority, Current.data).kind # "hello"
    BY <2>1, DataMessageType DEF DataMessage
  <2> QED
    BY <1>1, <1>5, <2>1, <2>2, WriteIsNoticed DEF TargetPlugin
<1>6. CASE InitiateShutdown
  <2> DEFINE m == NamedMessage("shutdown", NoPlugin)
  <2>1. m \in Message /\ m.kind # "hello"
    BY NamedMessageType DEF NamedMessage
  <2>2. /\ UNCHANGED <<thread, loadName>>
        /\ pipe' = [l \in Loads |-> IF \E n \in Names : outPipes[n] = l
                                    THEN Append(pipe[l], m) ELSE pipe[l]]
    BY <1>6 DEF InitiateShutdown
  <2> SUFFICES ASSUME NEW l \in Loads PROVE Keeps(l) \/ Gets(l)
    BY DEF Noticed
  <2>3. CASE \E n \in Names : outPipes[n] = l
    <3>1. thread[l] # "none"
      BY <2>3, CoreAssumption DEF PipesBelong, IsLoaded
    <3> QED
      BY <2>1, <2>2, <2>3, <3>1 DEF Gets
  <2>4. CASE ~(\E n \in Names : outPipes[n] = l)
    BY <2>2, <2>4 DEF Keeps
  <2> QED
    BY <2>3, <2>4
<1>7. CASE ToPlugin
  <2>1. Current \in Message /\ Current.kind = "data" /\ Current.type \in Types
    BY <1>7, ProcessType DEF ToPlugin, TypeOK, Message, HasType
  <2>2. ASSUME NEW q \in Priorities, Receives(q, Current),
               WriteTo(registrations[Current.type][q],
                       [Current EXCEPT !.priority = q])
        PROVE  Noticed
    <3>1. [Current EXCEPT !.priority = q] \in Message
      BY <2>1, PriorityChangeType DEF Priorities
    <3>2. [Current EXCEPT !.priority = q].kind # "hello"
      BY <2>1 DEF Message
    <3>3. registrations[Current.type][q] \in Names
          /\ IsLoaded(registrations[Current.type][q])
      <4>1. registrations[Current.type] \in Registries
        BY <2>1 DEF TypeOK, CoreTypeOK
      <4> QED
        BY <2>2, <4>1 DEF Receives, IsNext, AtMost, RegisteredAt, Registries
    <3> QED
      BY <1>7, <2>2, <3>1, <3>2, <3>3, WriteIsNoticed DEF ToPlugin
  <2> QED
    BY <1>1, <1>7, <2>2 DEF ToPlugin
<1> QED
  BY <1>2, <1>3, <1>4, <1>5, <1>6, <1>7 DEF CoreStep

(* A thread in plugin_init does nothing but wait for the hello.            *)
LEMMA WaitsForHello ==
  ASSUME NEW l \in Loads, thread[l] = "hello", PluginStep(l)
  PROVE  ReadHello(l)
BY DEF PluginStep, HandleMessage, Echo, ReadRegistered, ReadRefused,
       ReadShutdown, Take, RunReturns, Register, Unregister, Post, CanPost,
       Add_Plugin, Quit

LEMMA AppendedElements ==
  ASSUME NEW s \in Seq(Message), NEW m \in Message
  PROVE  /\ Append(s, m) # << >>
         /\ s = << >> => Head(Append(s, m)) = m /\ Len(Append(s, m)) = 1
         /\ s # << >> => Head(Append(s, m)) = Head(s)
         /\ \A i \in 1..Len(Append(s, m)) :
              \/ i \in 1..Len(s) /\ Append(s, m)[i] = s[i]
              \/ i \notin 1..Len(s) /\ Append(s, m)[i] = m
OBVIOUS

LEMMA GreetedAfterCore ==
  ASSUME TypeOK, HelloInv, NEW l \in Loads, Keeps(l) \/ Gets(l) \/ Starts(l)
  PROVE  Greeted(l)'
<1>1. Greeted(l) /\ pipe[l] \in Seq(Message)
  BY DEF HelloInv, TypeOK, CoreTypeOK
<1>2. CASE Keeps(l)
  BY <1>1, <1>2 DEF Keeps, Greeted, IsHello
<1>3. CASE Gets(l)
  <2>1. PICK m \in Message : m.kind # "hello" /\ pipe'[l] = Append(pipe[l], m)
    BY <1>3 DEF Gets
  <2>2. /\ thread[l] # "none" /\ thread'[l] = thread[l]
        /\ loadName'[l] = loadName[l]
    BY <1>3 DEF Gets
  <2> QED
    BY <1>1, <2>1, <2>2, AppendedElements DEF Greeted, IsHello
<1>4. CASE Starts(l)
  <2>1. PICK n \in Names : loadName'[l] = n
                           /\ pipe'[l] = Append(pipe[l], NamedMessage("hello", n))
    BY <1>4 DEF Starts
  <2>2. thread'[l] = "hello" /\ pipe[l] = << >>
    BY <1>1, <1>4 DEF Starts, Greeted
  <2>3. NamedMessage("hello", n) \in Message
    BY NamedMessageType
  <2>4. pipe'[l] # << >> /\ Head(pipe'[l]) = NamedMessage("hello", n)
        /\ Len(pipe'[l]) = 1
    BY <1>1, <2>1, <2>2, <2>3, AppendedElements
  <2> QED
    BY <2>1, <2>2, <2>4 DEF Greeted, IsHello
<1> QED
  BY <1>2, <1>3, <1>4

LEMMA GreetedAfterPluginStep ==
  ASSUME TypeOK, NamedLoads, HelloInv, NEW l \in Loads, PluginStep(l),
         NEW k \in Loads
  PROVE  Greeted(k)'
<1> USE DEF TypeOK, CoreTypeOK
<1>1. PluginEffect(l) /\ Greeted(k) /\ pipe[k] \in Seq(Message)
  BY PluginStepEffect DEF HelloInv
<1>2. CASE k # l
  <2>1. pipe'[k] = pipe[k] /\ thread'[k] = thread[k] /\ loadName'[k] = loadName[k]
    BY <1>1, <1>2
       DEF PluginEffect, WritesNoDone, StartsRunning, WritesDone
  <2> QED
    BY <1>1, <2>1 DEF Greeted, IsHello
<1>3. CASE k = l /\ pipe'[k] = pipe[k]
  <2>1. thread[k] # "hello" =>
          thread'[k] # "hello" /\ (thread[k] = "none" <=> thread'[k] = "none")
    BY <1>1, <1>3 DEF PluginEffect, WritesNoDone, StartsRunning, WritesDone
  <2>2. CASE thread[k] = "hello"
    <3>1. ReadHello(k)
      BY <1>3, <2>2, WaitsForHello
    <3>2. pipe'[k] = Tail(pipe[k]) /\ pipe[k] # << >>
      BY <3>1 DEF ReadHello
    <3> QED
      BY <1>1, <1>3, <3>2
  <2> QED
    BY <1>1, <1>3, <2>1, <2>2 DEF Greeted, IsHello, PluginEffect
<1>4. CASE k = l /\ pipe'[k] # pipe[k]
  <2>1. /\ thread[k] \in {"hello", "run"} /\ pipe[k] # << >>
        /\ pipe'[k] = Tail(pipe[k])
    BY <1>1, <1>4 DEF PluginEffect
  <2>2. thread'[k] \in {"run", "exited"}
    <3>1. CASE thread[k] = "hello"
      BY <1>4, <3>1, WaitsForHello DEF ReadHello
    <3>2. CASE thread[k] = "run"
      BY <1>1, <1>4, <3>2
         DEF PluginEffect, WritesNoDone, StartsRunning, WritesDone
    <3> QED
      BY <2>1, <3>1, <3>2
  <2>3. \A i \in 1..Len(pipe'[k]) : ~IsHello(k, i)'
    BY <1>1, <2>1, TailElements DEF Greeted, IsHello
  <2> QED
    BY <2>2, <2>3 DEF Greeted
<1> QED
  BY <1>2, <1>3, <1>4

LEMMA HelloInvariant == Spec => []HelloInv
<1>1. Init => HelloInv
  BY DEF Init, CoreInit, HelloInv, Greeted, IsHello
<1>2. TypeOK /\ NamedLoads /\ LifeInv /\ HelloInv /\ [Next]_vars => HelloInv'
  <2> SUFFICES ASSUME TypeOK, NamedLoads, LifeInv, HelloInv, [Next]_vars
               PROVE  HelloInv'
    OBVIOUS
  <2>1. CASE BusCoreStep
    <3>1. Noticed
      BY <2>1, CoreIsNoticed DEF BusCoreStep, LifeInv
    <3> QED
      BY <3>1, GreetedAfterCore DEF Noticed, HelloInv
  <2>2. ASSUME NEW l \in Loads, PluginStep(l)
        PROVE  HelloInv'
    BY <2>2, GreetedAfterPluginStep DEF HelloInv
  <2>3. CASE UNCHANGED vars
    BY <2>3 DEF vars, coreVars, HelloInv, Greeted, IsHello
  <2> QED
    BY <2>1, <2>2, <2>3 DEF Next
<1> QED
  BY <1>1, <1>2, TypesInvariant, LifeInvariant, PTL DEF Spec

(* The hello is the first message a plugin gets and the only one of its    *)
(* kind, for any plugins that are started, exit and are started again.     *)
THEOREM HelloComesFirst == Spec => []HelloFirst
<1>1. HelloInv => HelloFirst
  BY DEF HelloInv, Greeted, IsHello, HelloFirst
<1> QED
  BY <1>1, HelloInvariant, PTL

-------------------------------------------------------------------------------
(* One copy of a message.  Without counting: no place in any queue but one *)
(* holds it, and none before it is posted.                                 *)

Has(s, d) == CopiesIn(s, d) # {}
Once(s, d) == \A i, j \in CopiesIn(s, d) : i = j

Alone(d) ==
  /\ Once(inPipe, d) /\ \A l \in Loads : Once(pipe[l], d)
  /\ \A l \in Loads : ~(Has(inPipe, d) /\ Has(pipe[l], d))
  /\ \A k, l \in Loads : Has(pipe[k], d) /\ Has(pipe[l], d) => k = l
  /\ d \notin posted => ~Has(inPipe, d) /\ \A l \in Loads : ~Has(pipe[l], d)

CopyInv == \A d \in Data : Alone(d)

(* Copies in a queue when something is put behind it or taken off its      *)
(* head.                                                                   *)
LEMMA CopiesBehind ==
  ASSUME NEW s \in Seq(Message), NEW m \in Message, NEW d
  PROVE  /\ m.data # d => /\ Has(Append(s, m), d) <=> Has(s, d)
                          /\ Once(s, d) => Once(Append(s, m), d)
         /\ m.data = d => /\ Has(Append(s, m), d)
                          /\ ~Has(s, d) => Once(Append(s, m), d)
<1>1. /\ Len(s) \in Nat /\ Len(Append(s, m)) = Len(s) + 1
      /\ \A i \in 1..Len(s) : Append(s, m)[i] = s[i]
      /\ Append(s, m)[Len(s) + 1] = m
  OBVIOUS
<1>2. CASE m.data # d
  <2>1. CopiesIn(Append(s, m), d) = CopiesIn(s, d)
    BY <1>1, <1>2 DEF CopiesIn
  <2> QED
    BY <1>2, <2>1 DEF Has, Once
<1>3. CASE m.data = d
  <2>1. CopiesIn(Append(s, m), d) = CopiesIn(s, d) \cup {Len(s) + 1}
    BY <1>1, <1>3 DEF CopiesIn
  <2> QED
    BY <1>3, <2>1 DEF Has, Once
<1> QED
  BY <1>2, <1>3

LEMMA CopiesTaken ==
  ASSUME NEW s \in Seq(Message), s # << >>, NEW d
  PROVE  /\ Has(Tail(s), d) => Has(s, d)
         /\ Once(s, d) => Once(Tail(s), d)
         /\ Head(s).data = d => Has(s, d) /\ (Once(s, d) => ~Has(Tail(s), d))
<1>1. /\ Len(s) \in Nat /\ Len(s) >= 1 /\ Head(s) = s[1]
      /\ \A i \in 1..Len(Tail(s)) :
           i \in Nat /\ i + 1 \in 1..Len(s) /\ Tail(s)[i] = s[i + 1] /\ i + 1 # 1
  OBVIOUS
<1>2. \A i \in CopiesIn(Tail(s), d) :
        i \in Nat /\ i + 1 \in CopiesIn(s, d) /\ i + 1 # 1
  BY <1>1 DEF CopiesIn
<1>3. Head(s).data = d => 1 \in CopiesIn(s, d)
  BY <1>1 DEF CopiesIn
<1> QED
  BY <1>2, <1>3 DEF Has, Once

(* A step moves messages without making new ones: what is put behind a     *)
(* pipe has no payload, or the one of the message taken off in_pipe, and   *)
(* then no other pipe gets it.                                             *)
Dequeued(kind) ==
  /\ inPipe # << >> /\ inPipe' = Tail(inPipe)
  /\ Head(inPipe) \in Message /\ Head(inPipe).kind = kind

Moved(l, m) ==
  /\ inPipe # << >> /\ inPipe' = Tail(inPipe) /\ m.data = Head(inPipe).data
  /\ \A k \in Loads : k # l => pipe'[k] = pipe[k]

CoreMoves ==
  /\ inPipe' = inPipe \/ (inPipe # << >> /\ inPipe' = Tail(inPipe))
  /\ \A l \in Loads :
       \/ pipe'[l] = pipe[l]
       \/ \E m \in Message : /\ pipe'[l] = Append(pipe[l], m)
                             /\ m.data \notin Data \/ Moved(l, m)

LEMMA WrittenMoves ==
  ASSUME TypeOK, NEW n, NEW m \in Message, WriteTo(n, m),
         inPipe' = inPipe \/ (inPipe # << >> /\ inPipe' = Tail(inPipe)),
         m.data \notin Data \/ (/\ inPipe # << >> /\ inPipe' = Tail(inPipe)
                                /\ m.data = Head(inPipe).data)
  PROVE  CoreMoves
<1>1. \A l \in Loads :
        pipe'[l] = IF l = outPipes[n] THEN Append(pipe[l], m) ELSE pipe[l]
  BY DEF WriteTo, TypeOK, CoreTypeOK
<1>2. \A l \in Loads : l = outPipes[n] => m.data \notin Data \/ Moved(l, m)
  BY <1>1 DEF Moved
<1> QED
  BY <1>1, <1>2 DEF CoreMoves

(* Only add_plugin is in vm.                                               *)
LEMMA ProcessMoves ==
  ASSUME TypeOK, LifeInv, NEW kind, Process(kind)
  PROVE  /\ inPipe' = inPipe \/ (inPipe # << >> /\ inPipe' = Tail(inPipe))
         /\ kind # "add_plugin" => Dequeued(kind) /\ Current = Head(inPipe)
<1> USE DEF TypeOK, CoreTypeOK, Process, CoreHasMessage, Current
<1>1. CASE vm # << >>
  <2>1. Head(vm) = vm[1] /\ 1 \in 1..Len(vm)
    BY <1>1
  <2> QED
    BY <1>1, <2>1 DEF LifeInv
<1>2. CASE vm = << >>
  BY <1>2, ProcessType DEF Dequeued
<1> QED
  BY <1>1, <1>2

LEMMA CoreStepMoves ==
  ASSUME TypeOK, LifeInv, CoreStep
  PROVE  CoreMoves
<1>1. CASE StopCore
  BY <1>1 DEF StopCore, CoreMoves
<1>2. CASE UNCHANGED pipe /\ ~StopCore
  <2>1. inPipe' = inPipe \/ (inPipe # << >> /\ inPipe' = Tail(inPipe))
    BY <1>2, ProcessMoves
       DEF CoreStep, AddPlugin, RemovePlugin, AddRegistration,
           RemoveRegistration, TargetPlugin, InitiateShutdown, ToPlugin
  <2> QED
    BY <1>2, <2>1 DEF CoreMoves
<1>3. CASE RemovePlugin \/ RemoveRegistration
  BY <1>1, <1>2, <1>3 DEF RemovePlugin, RemoveRegistration
<1>4. CASE AddPlugin
  <2>1. Current.name \in Names
    BY <1>4, ProcessType DEF AddPlugin, TypeOK, Message, HasName
  <2>2. CASE Load(Current.name)
    <3> DEFINE m == NamedMessage("hello", Current.name)
    <3>1. m \in Message /\ m.data \notin Data
      BY <2>1, NamedMessageType, CoreAssumption DEF NamedMessage
    <3>2. \A l \in Loads : pipe'[l] = pipe[l] \/ pipe'[l] = Append(pipe[l], m)
      BY <2>2 DEF Load, NextLoad, TypeOK, CoreTypeOK
    <3>3. inPipe' = inPipe \/ (inPipe # << >> /\ inPipe' = Tail(inPipe))
      BY <1>4, ProcessMoves DEF AddPlugin
    <3> QED
      BY <3>1, <3>2, <3>3 DEF CoreMoves
  <2> QED
    BY <1>1, <1>2, <1>4, <2>2 DEF AddPlugin
<1>5. CASE AddRegistration
  <2> DEFINE m == RegistrationMessage(
               IF CanAdd(registrations[Current.type], Current.priority)
               THEN "registered" ELSE "refused",
               NoPlugin, Current.type, Current.priority)
  <2>1. Current.type \in Types /\ Current.priority \in Int
    BY <1>5, ProcessType DEF AddRegistration, TypeOK, Message, HasName, HasType
  <2>2. m \in Message /\ m.data \notin Data
    BY <2>1, RegistrationMessageType, CoreAssumption DEF RegistrationMessage
  <2>3. CASE IsLoaded(Current.name)
    <3>1. WriteTo(Current.name, m)
      BY <1>5, <2>3 DEF AddRegistration
    <3>2. inPipe' = inPipe \/ (inPipe # << >> /\ inPipe' = Tail(inPipe))
      BY <1>5, ProcessMoves DEF AddRegistration
    <3> QED
      BY <2>2, <3>1, <3>2, WrittenMoves
  <2> QED
    BY <1>1, <1>2, <1>5, <2>3 DEF AddRegistration
<1>6. CASE TargetPlugin
  <2>1. /\ Current.name \in Names /\ Current.type \in Types
        /\ Current.data \in Data \cup {NoData}
    BY <1>6, ProcessType DEF TargetPlugin, TypeOK, Message, HasName, HasType
  <2>2. Dequeued("target") /\ Current = Head(inPipe)
    BY <1>6, ProcessMoves DEF TargetPlugin
  <2> DEFINE m == DataMessage(Current.type, InitialPriority, Current.data)
  <2>3. m \in Message /\ m.data = Head(inPipe).data
    BY <2>1, <2>2, DataMessageType DEF DataMessage
  <2>4. CASE WriteTo(Current.name, m)
    BY <2>2, <2>3, <2>4, WrittenMoves DEF Dequeued
  <2> QED
    BY <1>1, <1>2, <1>6, <2>4 DEF TargetPlugin
<1>7. CASE InitiateShutdown
  <2> DEFINE m == NamedMessage("shutdown", NoPlugin)
  <2>1. m \in Message /\ m.data \notin Data
    BY NamedMessageType, CoreAssumption DEF NamedMessage
  <2>2. \A l \in Loads : pipe'[l] = pipe[l] \/ pipe'[l] = Append(pipe[l], m)
    BY <1>7 DEF InitiateShutdown
  <2>3. inPipe' = inPipe \/ (inPipe # << >> /\ inPipe' = Tail(inPipe))
    BY <1>7, ProcessMoves DEF InitiateShutdown
  <2> QED
    BY <2>1, <2>2, <2>3 DEF CoreMoves
<1>8. CASE ToPlugin
  <2>1. Current \in Message /\ Dequeued("data") /\ Current = Head(inPipe)
    BY <1>8, ProcessType, ProcessMoves DEF ToPlugin, TypeOK
  <2>2. ASSUME NEW q \in Priorities,
               WriteTo(registrations[Current.type][q],
                       [Current EXCEPT !.priority = q])
        PROVE  CoreMoves
    <3>1. [Current EXCEPT !.priority = q] \in Message
      BY <2>1, PriorityChangeType DEF Priorities
    <3>2. [Current EXCEPT !.priority = q].data = Head(inPipe).data
      BY <2>1 DEF Message
    <3> QED
      BY <2>1, <2>2, <3>1, <3>2, WrittenMoves DEF Dequeued
  <2> QED
    BY <1>1, <1>2, <1>8, <2>2 DEF ToPlugin
<1> QED
  BY <1>1, <1>3, <1>4, <1>5, <1>6, <1>7, <1>8 DEF CoreStep

LEMMA AloneAfterCore ==
  ASSUME TypeOK, NEW d \in Data, Alone(d), CoreMoves, posted' = posted
  PROVE  Alone(d)'
<1> USE DEF TypeOK, CoreTypeOK
<1>1. \A l \in Loads : pipe[l] \in Seq(Message)
  OBVIOUS
<1>2. /\ Has(inPipe', d) => Has(inPipe, d)
      /\ Once(inPipe', d)
  BY CopiesTaken DEF CoreMoves, Alone
<1>3. CASE \E l \in Loads, m \in Message :
             pipe'[l] = Append(pipe[l], m) /\ m.data = d /\ Moved(l, m)
  <2>1. PICK l \in Loads, m \in Message :
               pipe'[l] = Append(pipe[l], m) /\ m.data = d /\ Moved(l, m)
    BY <1>3
  <2>2. Has(inPipe, d) /\ ~Has(inPipe', d)
    BY <2>1, CopiesTaken DEF Moved, Alone
  <2>3. \A k \in Loads : ~Has(pipe[k], d)
    BY <2>2 DEF Alone
  <2>4. Once(pipe'[l], d)
    BY <1>1, <2>1, <2>3, CopiesBehind
  <2>5. \A k \in Loads : k # l => pipe'[k] = pipe[k]
    BY <2>1 DEF Moved
  <2>6. \A k \in Loads : Once(pipe'[k], d) /\ (Has(pipe'[k], d) => k = l)
    BY <2>3, <2>4, <2>5 DEF Alone
  <2>7. d \in posted'
    BY <2>2 DEF Alone
  <2> QED
    BY <1>2, <2>2, <2>6, <2>7 DEF Alone
<1>4. CASE ~(\E l \in Loads, m \in Message :
               pipe'[l] = Append(pipe[l], m) /\ m.data = d /\ Moved(l, m))
  <2>1. ASSUME NEW l \in Loads
        PROVE  /\ Has(pipe'[l], d) <=> Has(pipe[l], d)
               /\ Once(pipe'[l], d)
    <3>1. CASE pipe'[l] = pipe[l]
      BY <3>1 DEF Alone
    <3>2. ASSUME NEW m \in Message, pipe'[l] = Append(pipe[l], m), m.data # d
          PROVE  /\ Has(pipe'[l], d) <=> Has(pipe[l], d)
                 /\ Once(pipe'[l], d)
      BY <1>1, <3>2, CopiesBehind DEF Alone
    <3> QED
      BY <1>4, <3>1, <3>2 DEF CoreMoves
  <2> QED
    BY <1>2, <2>1 DEF Alone
<1> QED
  BY <1>3, <1>4

(* What plugins do with messages: they drop one, write one without a       *)
(* payload, echo one, or post a new one.                                   *)
PluginMoves(l) ==
  /\ \A k \in Loads : k # l => pipe'[k] = pipe[k]
  /\ \/ pipe'[l] = pipe[l]
     \/ pipe[l] # << >> /\ pipe'[l] = Tail(pipe[l])
  /\ \/ inPipe' = inPipe /\ posted' = posted
     \/ \E m \in Message :
          /\ inPipe' = Append(inPipe, m)
          /\ \/ m.data \notin Data /\ posted' = posted
             \/ /\ pipe[l] # << >> /\ pipe'[l] = Tail(pipe[l])
                /\ m.data = Head(pipe[l]).data /\ posted' = posted
             \/ m.data \notin posted /\ posted' = posted \cup {m.data}

LEMMA EchoedType ==
  ASSUME NEW m \in Message
  PROVE  /\ [m EXCEPT !.priority = @ - 1] \in Message
         /\ [m EXCEPT !.priority = @ - 1].data = m.data
BY DEF Message

LEMMA RefusedType ==
  ASSUME NEW m \in Message, m.kind = "refused"
  PROVE  m.type \in Types /\ \A n : NextTry(n, m.priority) \in Int
BY DEF Message, HasType, NextTry

LEMMA PluginStepMoves ==
  ASSUME TypeOK, NamedLoads, NEW l \in Loads, PluginStep(l)
  PROVE  PluginMoves(l)
<1> USE DEF PluginMoves, TypeOK, CoreTypeOK, ToCore
<1>0. thread[l] # "none" => loadName[l] \in Names
  BY DEF NamedLoads
<1>1. CASE ReadHello(l)
  BY <1>1 DEF ReadHello, busVars
<1>2. ASSUME SendDone(l), thread[l] # "none"
      PROVE  \E m \in Message : inPipe' = Append(inPipe, m) /\ m.data \notin Data
  <2>1. /\ NamedMessage("done", loadName[l]) \in Message
        /\ NamedMessage("done", loadName[l]).data \notin Data
    BY <1>0, <1>2, NamedMessageType, CoreAssumption DEF NamedMessage
  <2> QED
    BY <1>2, <2>1 DEF SendDone
<1>3. CASE RunReturns(l)
  BY <1>2, <1>3 DEF RunReturns
<1>4. ASSUME NEW t \in Types, NEW p \in RequestPriorities, Register(l, t, p)
      PROVE  PluginMoves(l)
  <2>1. /\ RegistrationMessage("register", loadName[l], t, p) \in Message
        /\ RegistrationMessage("register", loadName[l], t, p).data \notin Data
    BY <1>0, <1>4, RegistrationMessageType, BusAssumption, CoreAssumption
       DEF Register, RegistrationMessage
  <2> QED
    BY <1>4, <2>1 DEF Register
<1>5. ASSUME NEW t \in Types, Unregister(l, t)
      PROVE  PluginMoves(l)
  <2> DEFINE m == RegistrationMessage("unregister", loadName[l], t, InitialPriority)
  <2>1. m \in Message /\ m.data \notin Data
    BY <1>0, <1>5, RegistrationMessageType, DataMessageType, CoreAssumption
       DEF Unregister, RegistrationMessage
  <2> QED
    BY <1>5, <2>1 DEF Unregister
<1>6. ASSUME NEW t \in Types, NEW d \in Data, Post(l, t, d)
      PROVE  PluginMoves(l)
  <2>1. /\ DataMessage(t, InitialPriority, d) \in Message
        /\ DataMessage(t, InitialPriority, d).data = d
        /\ \A n \in Names : TargetMessage(n, t, d) \in Message
                            /\ TargetMessage(n, t, d).data = d
    BY DataMessageType DEF DataMessage, TargetMessage
  <2> QED
    BY <1>6, <2>1 DEF Post
<1>7. ASSUME NEW n \in Names, Add_Plugin(l, n)
      PROVE  PluginMoves(l)
  <2>1. /\ NamedMessage("add_plugin", n) \in Message
        /\ NamedMessage("add_plugin", n).data \notin Data
    BY NamedMessageType, CoreAssumption DEF NamedMessage
  <2> QED
    BY <1>7, <2>1 DEF Add_Plugin
<1>8. CASE Quit(l)
  <2>1. /\ NamedMessage("core_quit", NoPlugin) \in Message
        /\ NamedMessage("core_quit", NoPlugin).data \notin Data
    BY NamedMessageType, CoreAssumption DEF NamedMessage
  <2> QED
    BY <1>8, <2>1 DEF Quit
<1>9. CASE Echo(l)
  <2> DEFINE h == Head(pipe[l])
             m == [h EXCEPT !.priority = @ - 1]
  <2>1. h \in Message
    BY <1>9, TakeType DEF Echo
  <2>3. inPipe' = inPipe \/ inPipe' = Append(inPipe, m)
    BY <1>9 DEF Echo
  <2>2. m \in Message /\ m.data = h.data
    BY <2>1, EchoedType
  <2>4. /\ posted' = posted /\ pipe[l] # << >> /\ pipe'[l] = Tail(pipe[l])
        /\ \A k \in Loads : k # l => pipe'[k] = pipe[k]
    BY <1>9 DEF Echo, Take
  <2> QED
    BY <2>2, <2>3, <2>4
<1>10. CASE ReadRegistered(l)
  BY <1>10 DEF ReadRegistered, Take
<1>11. CASE ReadShutdown(l)
  <2>1. \E m \in Message : inPipe' = Append(inPipe, m) /\ m.data \notin Data
    BY <1>2, <1>11 DEF ReadShutdown, Take
  <2> QED
    BY <1>11, <2>1 DEF ReadShutdown, Take
<1>12. CASE ReadRefused(l)
  <2> DEFINE h == Head(pipe[l])
             m == RegistrationMessage("register", loadName[l], h.type,
                                      NextTry(loadName[l], h.priority))
  <2>1. h \in Message /\ h.kind = "refused" /\ thread[l] # "none"
    BY <1>12, TakeType DEF ReadRefused, Take
  <2>2. h.type \in Types /\ NextTry(loadName[l], h.priority) \in Int
    BY <2>1, RefusedType
  <2>3. m \in Message /\ m.data \notin Data
    BY <1>0, <2>1, <2>2, RegistrationMessageType, CoreAssumption
       DEF RegistrationMessage
  <2>4. ToCore(m) \/ SendDone(l) \/ inPipe' = inPipe
    BY <1>12 DEF ReadRefused
  <2>5. \/ inPipe' = inPipe
        \/ \E x \in Message : inPipe' = Append(inPipe, x) /\ x.data \notin Data
    BY <1>2, <2>1, <2>3, <2>4
  <2> QED
    BY <1>12, <2>5 DEF ReadRefused, Take
<1> QED
  BY <1>1, <1>3, <1>4, <1>5, <1>6, <1>7, <1>8, <1>9, <1>10, <1>11, <1>12
     DEF PluginStep, HandleMessage

LEMMA AloneAfterPluginStep ==
  ASSUME TypeOK, NEW d \in Data, Alone(d), NEW l \in Loads, PluginMoves(l)
  PROVE  Alone(d)'
<1> USE DEF TypeOK, CoreTypeOK
<1>1. \A k \in Loads : pipe[k] \in Seq(Message)
  OBVIOUS
<1>2. \A k \in Loads :
        /\ Has(pipe'[k], d) => Has(pipe[k], d)
        /\ Once(pipe'[k], d)
  <2> SUFFICES ASSUME NEW k \in Loads
               PROVE  (Has(pipe'[k], d) => Has(pipe[k], d)) /\ Once(pipe'[k], d)
    OBVIOUS
  <2>1. CASE pipe'[k] = pipe[k]
    BY <2>1 DEF Alone
  <2>2. CASE pipe[k] # << >> /\ pipe'[k] = Tail(pipe[k])
    BY <1>1, <2>2, CopiesTaken DEF Alone
  <2> QED
    BY <2>1, <2>2 DEF PluginMoves
<1>3. CASE inPipe' = inPipe /\ posted' = posted
  BY <1>2, <1>3 DEF Alone
<1>4. ASSUME NEW m \in Message, inPipe' = Append(inPipe, m), m.data # d,
             posted' \in {posted, posted \cup {m.data}}
      PROVE  Alone(d)'
  <2>1. (Has(inPipe', d) <=> Has(inPipe, d)) /\ Once(inPipe', d)
    BY <1>4, CopiesBehind DEF Alone
  <2> QED
    BY <1>2, <1>4, <2>1 DEF Alone
<1>5. ASSUME NEW m \in Message, inPipe' = Append(inPipe, m), m.data = d,
             posted' = posted, pipe[l] # << >>, pipe'[l] = Tail(pipe[l]),
             m.data = Head(pipe[l]).data
      PROVE  Alone(d)'
  <2>1. Has(pipe[l], d) /\ ~Has(pipe'[l], d)
    BY <1>1, <1>5, CopiesTaken DEF Alone
  <2>2. \A k \in Loads : ~Has(pipe'[k], d)
    BY <1>2, <2>1 DEF Alone
  <2>3. ~Has(inPipe, d) /\ d \in posted
    BY <2>1 DEF Alone
  <2>4. Once(inPipe', d)
    BY <1>5, <2>3, CopiesBehind
  <2> QED
    BY <1>2, <1>5, <2>2, <2>3, <2>4 DEF Alone
<1>6. ASSUME NEW m \in Message, inPipe' = Append(inPipe, m), m.data = d,
             m.data \notin posted, posted' = posted \cup {m.data}
      PROVE  Alone(d)'
  <2>1. ~Has(inPipe, d) /\ \A k \in Loads : ~Has(pipe'[k], d)
    BY <1>2, <1>6 DEF Alone
  <2>2. Once(inPipe', d)
    BY <1>6, <2>1, CopiesBehind
  <2> QED
    BY <1>2, <1>6, <2>1, <2>2 DEF Alone
<1> QED
  BY <1>3, <1>4, <1>5, <1>6 DEF PluginMoves

LEMMA CopyInvariant == Spec => []CopyInv
<1>1. Init => CopyInv
  BY DEF Init, CoreInit, CopyInv, Alone, Has, Once, CopiesIn
<1>2. TypeOK /\ NamedLoads /\ LifeInv /\ CopyInv /\ [Next]_vars => CopyInv'
  <2> SUFFICES ASSUME TypeOK, NamedLoads, LifeInv, CopyInv, [Next]_vars
               PROVE  CopyInv'
    OBVIOUS
  <2>1. CASE BusCoreStep
    BY <2>1, CoreStepMoves, AloneAfterCore DEF BusCoreStep, CopyInv
  <2>2. ASSUME NEW l \in Loads, PluginStep(l)
        PROVE  CopyInv'
    BY <2>2, PluginStepMoves, AloneAfterPluginStep DEF CopyInv
  <2>3. CASE UNCHANGED vars
    BY <2>3 DEF vars, coreVars, busVars, CopyInv, Alone
  <2> QED
    BY <2>1, <2>2, <2>3 DEF Next
<1> QED
  BY <1>1, <1>2, TypesInvariant, LifeInvariant, PTL DEF Spec

(* A set in which any two elements are equal has one at most.              *)
LEMMA Single ==
  ASSUME NEW S, S # {}, \A x, y \in S : x = y
  PROVE  Cardinality(S) = 1
<1>1. PICK x \in S : S = {x}
  OBVIOUS
<1> QED
  BY <1>1, FS_Singleton

(* However often a message is echoed, it is in one place at most: the core *)
(* and the plugins hand it on, and nobody handles it beside another.       *)
THEOREM MessagesHaveOneCopy == Spec => []OneCopy
<1>1. CopyInv => OneCopy
  <2> SUFFICES ASSUME NEW d \in Data, Alone(d)
               PROVE  LET holders == {l \in Loads : CopiesIn(pipe[l], d) # {}}
                      IN  /\ Cardinality(CopiesIn(inPipe, d))
                               + Cardinality(holders) <= 1
                          /\ \A l \in holders :
                               Cardinality(CopiesIn(pipe[l], d)) = 1
    BY DEF CopyInv, OneCopy
  <2> DEFINE holders == {l \in Loads : CopiesIn(pipe[l], d) # {}}
             inCore == CopiesIn(inPipe, d)
  <2>1. \A l \in holders : Cardinality(CopiesIn(pipe[l], d)) = 1
    BY Single DEF Alone, Once
  <2>2. \A k, l \in holders : k = l
    BY DEF Alone, Has
  <2>3. inCore # {} => holders = {}
    BY DEF Alone, Has
  <2>4. inCore = {} \/ Cardinality(inCore) = 1
    BY Single DEF Alone, Once
  <2>5. holders = {} \/ Cardinality(holders) = 1
    BY <2>2, Single
  <2>6. Cardinality({}) = 0
    BY FS_EmptySet
  <2> HIDE DEF holders, inCore
  <2>7. Cardinality(inCore) + Cardinality(holders) <= 1
    BY <2>3, <2>4, <2>5, <2>6
  <2> QED
    BY <2>1, <2>7 DEF holders, inCore
<1> QED
  BY <1>1, CopyInvariant, PTL

-------------------------------------------------------------------------------
(* One status for each request.  The requests and statuses under way are   *)
(* counted by their places in the queues.                                  *)

Marks(s, S) == {i \in 1..Len(s) : s[i] \in S}
Count(s, S) == Cardinality(Marks(s, S))

RequestsOf(n) == {m \in Message : m.kind = "register" /\ m.name = n}
Statuses == {m \in Message : m.kind \in {"registered", "refused"}}

LEMMA CountType ==
  ASSUME NEW s \in Seq(Message), NEW S
  PROVE  /\ IsFiniteSet(Marks(s, S)) /\ Count(s, S) \in Nat
         /\ Count(s, S) = 0 <=> Marks(s, S) = {}
<1>1. IsFiniteSet(1..Len(s))
  BY FS_Interval
<1>2. IsFiniteSet(Marks(s, S))
  BY <1>1, FS_Subset DEF Marks
<1> QED
  BY <1>2, FS_CardinalityType, FS_EmptySet DEF Count

LEMMA CountBehind ==
  ASSUME NEW s \in Seq(Message), NEW S, NEW m \in Message
  PROVE  Count(Append(s, m), S) = Count(s, S) + IF m \in S THEN 1 ELSE 0
<1>1. /\ Len(s) \in Nat /\ Len(Append(s, m)) = Len(s) + 1
      /\ \A i \in 1..Len(s) : Append(s, m)[i] = s[i]
      /\ Append(s, m)[Len(s) + 1] = m
  OBVIOUS
<1>2. CASE m \in S
  <2>1. Marks(Append(s, m), S) = Marks(s, S) \cup {Len(s) + 1}
    BY <1>1, <1>2 DEF Marks
  <2>2. Len(s) + 1 \notin Marks(s, S)
    BY <1>1 DEF Marks
  <2> QED
    BY <1>2, <2>1, <2>2, CountType, FS_AddElement DEF Count
<1>3. CASE m \notin S
  <2>1. Marks(Append(s, m), S) = Marks(s, S)
    BY <1>1, <1>3 DEF Marks
  <2> QED
    BY <1>3, <2>1, CountType DEF Count
<1> QED
  BY <1>2, <1>3

LEMMA CountTaken ==
  ASSUME NEW s \in Seq(Message), s # << >>, NEW S
  PROVE  Count(Tail(s), S) = Count(s, S) - IF Head(s) \in S THEN 1 ELSE 0
<1> DEFINE A == Marks(Tail(s), S)
           B == Marks(s, S) \ {1}
           f == [i \in A |-> i + 1]
<1>1. /\ Len(s) \in Nat /\ Len(s) >= 1 /\ Head(s) = s[1]
      /\ Len(Tail(s)) = Len(s) - 1
      /\ \A i \in 1..(Len(s) - 1) : Tail(s)[i] = s[i + 1]
  OBVIOUS
<1>2. \A i \in A : i \in Nat /\ i + 1 \in B
  BY <1>1 DEF Marks
<1>3. \A j \in B : j - 1 \in A /\ f[j - 1] = j
  BY <1>1 DEF Marks
<1>4. f \in Bijection(A, B)
  <2> HIDE DEF A, B
  <2>1. f \in [A -> B] /\ \A a, b \in A : f[a] = f[b] => a = b
    BY <1>2
  <2>2. \A j \in B : \E a \in A : f[a] = j
    BY <1>3
  <2> QED
    BY <2>1, <2>2 DEF Bijection, Injection, Surjection, IsInjective
<1>5. Tail(s) \in Seq(Message)
  OBVIOUS
<1>6. Cardinality(A) = Cardinality(B)
  <2>1. IsFiniteSet(A)
    BY <1>5, CountType
  <2> HIDE DEF A, B, f
  <2> QED
    BY <1>4, <2>1, FS_Bijection DEF ExistsBijection
<1>7. 1 \in Marks(s, S) <=> Head(s) \in S
  BY <1>1 DEF Marks
<1>8. Cardinality(B) = IF 1 \in Marks(s, S) THEN Count(s, S) - 1 ELSE Count(s, S)
  BY CountType, FS_RemoveElement DEF Count
<1> QED
  BY <1>6, <1>7, <1>8, CountType DEF Count

-------------------------------------------------------------------------------
(* A running plugin is owed what is under way; one that has not read its   *)
(* hello has asked for nothing, and no request of an earlier plugin of its *)
(* name is left: a request is of a plugin that runs, or in front of its    *)
(* done.                                                                   *)
Owed(l) ==
  thread[l] = "run" =>
    unanswered[l] =
      Count(inPipe, RequestsOf(loadName[l])) + Count(pipe[l], Statuses)

Unasked(l) ==
  thread[l] \in {"none", "hello"} =>
    unanswered[l] = 0 /\ Count(pipe[l], Statuses) = 0

DoneBehind(i) ==
  \E j \in 1..Len(inPipe) :
    j > i /\ IsDone(j) /\ inPipe[j].name = inPipe[i].name

Asking(i) ==
  inPipe[i].kind = "register" =>
    /\ IsLoaded(inPipe[i].name)
    /\ thread[outPipes[inPipe[i].name]] = "run" \/ DoneBehind(i)

StatusInv ==
  /\ \A l \in Loads : Owed(l) /\ Unasked(l)
  /\ \A i \in 1..Len(inPipe) : Asking(i)

(* Plugins that run have different names.                                  *)
LEMMA RunningDiffer ==
  ASSUME RunningIsLoaded, NEW k \in Loads, NEW l \in Loads, k # l,
         thread[k] \in {"hello", "run"}, thread[l] \in {"hello", "run"}
  PROVE  loadName[k] # loadName[l]
BY DEF RunningIsLoaded

(* The core takes a message that is not a done: what was said of the       *)
(* requests behind it stays true.                                          *)
LEMMA AskingBehind ==
  ASSUME CoreTypeOK, StatusInv, inPipe # << >>, inPipe' = Tail(inPipe),
         Head(inPipe).kind # "done",
         \A n \in Names : IsLoaded(n) =>
           /\ outPipes'[n] = outPipes[n]
           /\ thread[outPipes[n]] = "run" => thread'[outPipes[n]] = "run",
         NEW i \in 1..Len(inPipe')
  PROVE  Asking(i)'
<1>1. /\ inPipe \in Seq(Message)
      /\ Len(inPipe) \in Nat /\ Len(inPipe') = Len(inPipe) - 1
      /\ Head(inPipe) = inPipe[1] /\ i \in Nat
      /\ \A j \in 1..Len(inPipe') :
           j \in Nat /\ j + 1 \in 1..Len(inPipe) /\ inPipe'[j] = inPipe[j + 1]
  BY DEF CoreTypeOK
<1> SUFFICES ASSUME inPipe'[i].kind = "register" PROVE Asking(i)'
  BY DEF Asking
<1> DEFINE n == inPipe[i + 1].name
<1>2. i + 1 \in 1..Len(inPipe) /\ inPipe'[i] = inPipe[i + 1] /\ Asking(i + 1)
  BY <1>1 DEF StatusInv
<1>3. n \in Names
  <2>1. inPipe[i + 1] \in Message
    BY <1>1, <1>2
  <2> QED
    BY <1>2, <2>1 DEF Message, HasName
<1>4. IsLoaded(n) /\ (thread[outPipes[n]] = "run" \/ DoneBehind(i + 1))
  BY <1>2 DEF Asking
<1>5. outPipes'[n] # NoLoad /\ outPipes'[n] = outPipes[n]
  BY <1>3, <1>4 DEF IsLoaded
<1>6. CASE thread[outPipes[n]] = "run"
  <2>1. thread'[outPipes'[n]] = "run"
    BY <1>3, <1>4, <1>5, <1>6
  <2> QED
    BY <1>2, <1>5, <2>1 DEF Asking, IsLoaded
<1>7. CASE DoneBehind(i + 1)
  <2>1. PICK j \in 1..Len(inPipe) :
               j > i + 1 /\ IsDone(j) /\ inPipe[j].name = n
    BY <1>2, <1>7 DEF DoneBehind
  <2>2. j - 1 \in 1..Len(inPipe') /\ inPipe'[j - 1] = inPipe[j] /\ j - 1 > i
    BY <1>1, <2>1
  <2>3. DoneBehind(i)'
    BY <2>1, <2>2 DEF DoneBehind, IsDone
  <2> QED
    BY <1>2, <1>5, <2>3 DEF Asking, IsLoaded
<1> QED
  BY <1>4, <1>6, <1>7

QuietDequeue ==
  \/ inPipe' = inPipe
  \/ /\ inPipe # << >> /\ inPipe' = Tail(inPipe)
     /\ Head(inPipe).kind \notin {"register", "done"}

LEMMA QuietCount ==
  ASSUME CoreTypeOK, QuietDequeue, NEW n
  PROVE  Count(inPipe', RequestsOf(n)) = Count(inPipe, RequestsOf(n))
<1>1. inPipe \in Seq(Message)
  BY DEF CoreTypeOK
<1>2. CASE inPipe' = inPipe
  BY <1>2
<1>3. CASE inPipe # << >> /\ inPipe' = Tail(inPipe)
           /\ Head(inPipe) \notin RequestsOf(n)
  BY <1>1, <1>3, CountTaken, CountType
<1> QED
  BY <1>2, <1>3 DEF QuietDequeue, RequestsOf

(* Steps of the core that are not about requests and threads.              *)
LEMMA StatusAfterQuietStep ==
  ASSUME TypeOK, StatusInv, QuietDequeue,
         UNCHANGED <<outPipes, thread, loadName, unanswered>>,
         \A l \in Loads :
           \/ pipe'[l] = pipe[l]
           \/ \E m \in Message :
                m \notin Statuses /\ pipe'[l] = Append(pipe[l], m)
  PROVE  StatusInv'
<1>1. CoreTypeOK /\ \A l \in Loads : pipe[l] \in Seq(Message)
  BY DEF TypeOK, CoreTypeOK
<1>2. ASSUME NEW l \in Loads
      PROVE  Count(pipe'[l], Statuses) = Count(pipe[l], Statuses)
  <2>1. CASE pipe'[l] = pipe[l]
    BY <2>1
  <2>2. ASSUME NEW m \in Message, m \notin Statuses,
               pipe'[l] = Append(pipe[l], m)
        PROVE  Count(pipe'[l], Statuses) = Count(pipe[l], Statuses)
    BY <1>1, <2>2, CountBehind, CountType
  <2> QED
    BY <2>1, <2>2
<1>3. \A l \in Loads : Owed(l)' /\ Unasked(l)'
  BY <1>1, <1>2, QuietCount DEF StatusInv, Owed, Unasked
<1>4. \A i \in 1..Len(inPipe') : Asking(i)'
  <2>1. CASE inPipe' = inPipe
    BY <2>1 DEF StatusInv, Asking, DoneBehind, IsDone, IsLoaded
  <2>2. CASE inPipe' # inPipe
    BY <1>1, <2>2, AskingBehind DEF QuietDequeue
  <2> QED
    BY <2>1, <2>2
<1> QED
  BY <1>3, <1>4 DEF StatusInv

LEMMA StatusAfterLoad ==
  ASSUME TypeOK, LifeInv, StatusInv, QuietDequeue, NEW n \in Names,
         ~IsLoaded(n), Load(n), UNCHANGED unanswered
  PROVE  StatusInv'
<1> DEFINE m == NamedMessage("hello", n)
<1>1. /\ CoreTypeOK /\ \A l \in Loads : pipe[l] \in Seq(Message)
  BY DEF TypeOK, CoreTypeOK
<1>2. PICK k \in Loads :
             /\ thread[k] = "none" /\ thread'[k] = "hello"
             /\ pipe'[k] = Append(pipe[k], m)
             /\ outPipes' = [outPipes EXCEPT ![n] = k]
             /\ \A l \in Loads : l # k => /\ thread'[l] = thread[l]
                                          /\ pipe'[l] = pipe[l]
                                          /\ loadName'[l] = loadName[l]
  <2>1. NextLoad \in Loads /\ thread[NextLoad] = "none"
    BY DEF Load, NextLoad, FreeLoads
  <2> QED
    BY <2>1 DEF Load, TypeOK, CoreTypeOK
<1>3. m \in Message /\ m \notin Statuses
  BY NamedMessageType DEF NamedMessage, Statuses
<1>4. Owed(k)' /\ Unasked(k)'
  <2>1. unanswered'[k] = 0 /\ Count(pipe[k], Statuses) = 0
    BY <1>2 DEF StatusInv, Unasked
  <2>2. Count(pipe'[k], Statuses) = 0
    BY <1>1, <1>2, <1>3, <2>1, CountBehind
  <2> QED
    BY <1>2, <2>1, <2>2 DEF Owed, Unasked
<1>5. \A l \in Loads : l # k => Owed(l)' /\ Unasked(l)'
  BY <1>1, <1>2, QuietCount DEF StatusInv, Owed, Unasked
<1>6. \A x \in Names : IsLoaded(x) =>
        /\ outPipes'[x] = outPipes[x] /\ x # n
        /\ thread[outPipes[x]] = "run" => thread'[outPipes[x]] = "run"
  BY <1>2, CoreAssumption DEF IsLoaded, TypeOK, CoreTypeOK
<1>7. \A i \in 1..Len(inPipe') : Asking(i)'
  <2>1. CASE inPipe' = inPipe
    <3> SUFFICES ASSUME NEW i \in 1..Len(inPipe), inPipe[i].kind = "register"
                 PROVE  Asking(i)'
      BY <2>1 DEF Asking
    <3>1. inPipe[i].name \in Names
      <4>1. inPipe[i] \in Message
        BY <1>1 DEF CoreTypeOK
      <4> QED
        BY <4>1 DEF Message, HasName
    <3>2. Asking(i) /\ IsLoaded(inPipe[i].name)
      BY DEF StatusInv, Asking
    <3>3. outPipes'[inPipe[i].name] = outPipes[inPipe[i].name]
          /\ (thread[outPipes[inPipe[i].name]] = "run" =>
                thread'[outPipes[inPipe[i].name]] = "run")
      BY <1>6, <3>1, <3>2
    <3>4. DoneBehind(i)' <=> DoneBehind(i)
      BY <2>1 DEF DoneBehind, IsDone
    <3> QED
      BY <2>1, <3>2, <3>3, <3>4 DEF Asking, IsLoaded
  <2>2. CASE inPipe' # inPipe
    BY <1>1, <1>6, <2>2, AskingBehind DEF QuietDequeue
  <2> QED
    BY <2>1, <2>2
<1> QED
  BY <1>4, <1>5, <1>7 DEF StatusInv

(* With the done of a plugin its last requests have been answered: none is *)
(* behind it, since there is no second done.                               *)
LEMMA StatusAfterRemove ==
  ASSUME TypeOK, LifeInv, StatusInv, RemovePlugin, UNCHANGED unanswered
  PROVE  StatusInv'
<1> DEFINE n == inPipe[1].name
<1>1. /\ CoreTypeOK /\ inPipe \in Seq(Message)
      /\ Dequeued("done") /\ Current = Head(inPipe)
  BY ProcessMoves DEF RemovePlugin, TypeOK, CoreTypeOK
<1>2. /\ Len(inPipe) \in Nat /\ Len(inPipe) >= 1 /\ Head(inPipe) = inPipe[1]
      /\ Len(inPipe') = Len(inPipe) - 1 /\ IsDone(1)
      /\ \A i \in 1..Len(inPipe') :
           i \in Nat /\ i + 1 \in 1..Len(inPipe) /\ inPipe'[i] = inPipe[i + 1]
  BY <1>1 DEF Dequeued, IsDone
<1>3. /\ outPipes' = [outPipes EXCEPT ![n] = NoLoad]
      /\ UNCHANGED <<pipe, thread, loadName>>
  BY <1>1, <1>2 DEF RemovePlugin
<1>4. \A x : Count(inPipe', RequestsOf(x)) = Count(inPipe, RequestsOf(x))
  BY <1>1, CountTaken, CountType DEF Dequeued, RequestsOf
<1>5. \A l \in Loads : Owed(l)' /\ Unasked(l)'
  BY <1>3, <1>4 DEF StatusInv, Owed, Unasked
<1>6. ASSUME NEW i \in 1..Len(inPipe'), inPipe'[i].kind = "register"
      PROVE  Asking(i)'
  <2> DEFINE x == inPipe[i + 1].name
  <2>1. /\ i + 1 \in 1..Len(inPipe) /\ i + 1 > 1
        /\ inPipe'[i] = inPipe[i + 1] /\ Asking(i + 1)
    BY <1>2 DEF StatusInv
  <2>2. x \in Names
    <3>1. inPipe[i + 1] \in Message
      BY <1>1, <2>1
    <3> QED
      BY <1>6, <2>1, <3>1 DEF Message, HasName
  <2>3. IsLoaded(x) /\ (thread[outPipes[x]] = "run" \/ DoneBehind(i + 1))
    BY <1>6, <2>1 DEF Asking
  <2>4. x # n
    <3> SUFFICES ASSUME x = n PROVE FALSE
      OBVIOUS
    <3>1. thread[outPipes[x]] = "exited"
      BY <1>2 DEF LifeInv, DonesAreOfExited
    <3>2. PICK j \in 1..Len(inPipe) :
                 j > i + 1 /\ IsDone(j) /\ inPipe[j].name = x
      BY <2>3, <3>1 DEF DoneBehind
    <3> QED
      BY <1>2, <2>1, <3>2 DEF LifeInv, DonesDiffer
  <2>5. outPipes'[x] = outPipes[x] /\ outPipes'[x] # NoLoad
    BY <1>3, <2>2, <2>3, <2>4 DEF IsLoaded, TypeOK, CoreTypeOK
  <2>6. DoneBehind(i + 1) => DoneBehind(i)'
    <3> SUFFICES ASSUME NEW j \in 1..Len(inPipe),
                        j > i + 1, IsDone(j), inPipe[j].name = x
                 PROVE  DoneBehind(i)'
      BY DEF DoneBehind
    <3>1. j - 1 \in 1..Len(inPipe') /\ inPipe'[j - 1] = inPipe[j] /\ j - 1 > i
      BY <1>2
    <3> QED
      BY <2>1, <3>1 DEF DoneBehind, IsDone
  <2> QED
    BY <1>3, <2>1, <2>3, <2>5, <2>6 DEF Asking, IsLoaded
<1>7. \A i \in 1..Len(inPipe') : Asking(i)'
  BY <1>6 DEF Asking
<1> QED
  BY <1>5, <1>7 DEF StatusInv

(* The answer goes to the plugin that asked, or to one that has exited.    *)
LEMMA StatusAfterRegistration ==
  ASSUME TypeOK, NamedLoads, LifeInv, StatusInv, AddRegistration,
         UNCHANGED unanswered
  PROVE  StatusInv'
<1> DEFINE h == Head(inPipe)
           m == RegistrationMessage(
                  IF CanAdd(registrations[h.type], h.priority)
                  THEN "registered" ELSE "refused", NoPlugin, h.type, h.priority)
<1>1. /\ CoreTypeOK /\ inPipe \in Seq(Message)
      /\ \A l \in Loads : pipe[l] \in Seq(Message)
  BY DEF TypeOK, CoreTypeOK
<1>2. /\ inPipe # << >> /\ inPipe' = Tail(inPipe) /\ Current = h
      /\ h \in Message /\ h.kind = "register"
  BY ProcessMoves DEF AddRegistration, Dequeued
<1>3. h.name \in Names /\ h.type \in Types /\ h.priority \in Int
  <2> HIDE DEF h
  <2> QED
    BY <1>2 DEF Message, HasName, HasType
<1>4. m \in Message /\ m \in Statuses
  BY <1>3, RegistrationMessageType DEF RegistrationMessage, Statuses
<1>5. /\ Len(inPipe) \in Nat /\ 1 \in 1..Len(inPipe) /\ inPipe[1] = h
  BY <1>1, <1>2
<1>6. /\ IsLoaded(h.name)
      /\ thread[outPipes[h.name]] \in {"run", "exited"}
  <2>1. Asking(1)
    BY <1>5 DEF StatusInv
  <2>2. IsLoaded(h.name) /\ (thread[outPipes[h.name]] = "run" \/ DoneBehind(1))
    BY <1>2, <1>5, <2>1 DEF Asking
  <2>3. DoneBehind(1) => thread[outPipes[h.name]] = "exited"
    BY <1>5 DEF LifeInv, DonesAreOfExited, DoneBehind
  <2> QED
    BY <2>2, <2>3
<1> HIDE DEF m
<1>7. PICK o \in Loads :
             /\ o = outPipes[h.name] /\ loadName[o] = h.name
             /\ thread[o] \in {"run", "exited"}
             /\ pipe'[o] = Append(pipe[o], m)
             /\ \A l \in Loads : l # o => pipe'[l] = pipe[l]
  <2>1. outPipes[h.name] \in Loads /\ loadName[outPipes[h.name]] = h.name
    BY <1>3, <1>6 DEF IsLoaded, TypeOK, CoreTypeOK, LifeInv, PipesBelong
  <2>2. WriteTo(h.name, m)
    BY <1>2, <1>6 DEF AddRegistration, m
  <2> QED
    BY <1>1, <1>6, <2>1, <2>2 DEF WriteTo, CoreTypeOK
<1>8. UNCHANGED <<outPipes, thread, loadName>>
  BY DEF AddRegistration
<1>9. \A x : Count(inPipe', RequestsOf(x)) =
               Count(inPipe, RequestsOf(x)) - IF x = h.name THEN 1 ELSE 0
  <2>1. \A x : h \in RequestsOf(x) <=> x = h.name
    BY <1>2 DEF RequestsOf
  <2> HIDE DEF h
  <2>2. \A x : Count(Tail(inPipe), RequestsOf(x)) =
                 Count(inPipe, RequestsOf(x))
                   - IF Head(inPipe) \in RequestsOf(x) THEN 1 ELSE 0
    BY <1>1, <1>2, CountTaken
  <2> QED
    BY <1>2, <2>1, <2>2 DEF h
<1>10. Count(pipe'[o], Statuses) = Count(pipe[o], Statuses) + 1
  BY <1>1, <1>4, <1>7, CountBehind
<1>11. /\ \A x : Count(inPipe, RequestsOf(x)) \in Nat
       /\ \A l \in Loads : Count(pipe[l], Statuses) \in Nat
  BY <1>1, CountType
<1> HIDE DEF h
<1>12. Owed(o)' /\ Unasked(o)'
  <2>1. Owed(o)
    BY DEF StatusInv
  <2>2. thread[o] = "run" =>
          unanswered[o] = Count(inPipe, RequestsOf(h.name)) + Count(pipe[o], Statuses)
    BY <1>7, <2>1 DEF Owed
  <2>3. thread'[o] = "run" =>
          unanswered'[o] =
            Count(inPipe', RequestsOf(loadName'[o])) + Count(pipe'[o], Statuses)
    BY <1>7, <1>8, <1>9, <1>10, <1>11, <2>2
  <2> QED
    BY <1>7, <1>8, <2>3 DEF Owed, Unasked
<1>13. ASSUME NEW l \in Loads, l # o
       PROVE  Owed(l)' /\ Unasked(l)'
  <2>1. thread[l] = "run" => loadName[l] # h.name
    BY <1>7, <1>13 DEF LifeInv, RunningIsLoaded
  <2>2. thread[l] = "run" =>
          Count(inPipe', RequestsOf(loadName[l])) =
            Count(inPipe, RequestsOf(loadName[l]))
    BY <1>9, <1>11, <2>1
  <2> QED
    BY <1>7, <1>8, <1>13, <2>2 DEF StatusInv, Owed, Unasked
<1>14. \A i \in 1..Len(inPipe') : Asking(i)'
  BY <1>1, <1>2, <1>8, AskingBehind DEF h
<1> QED
  BY <1>12, <1>13, <1>14 DEF StatusInv

LEMMA ProcessIsQuiet ==
  ASSUME TypeOK, LifeInv, NEW kind, Process(kind), kind \notin {"register", "done"}
  PROVE  QuietDequeue
<1>1. CASE vm # << >>
  BY <1>1 DEF Process, QuietDequeue
<1>2. CASE vm = << >>
  BY <1>2 DEF Process, CoreHasMessage, Current, QuietDequeue
<1> QED
  BY <1>1, <1>2

LEMMA StatusAfterCoreStep ==
  ASSUME TypeOK, NamedLoads, LifeInv, StatusInv, CoreStep, UNCHANGED unanswered
  PROVE  StatusInv'
<1>0. /\ \A m \in Message : m.kind \notin {"registered", "refused"} => m \notin Statuses
      /\ \A l \in Loads : pipe[l] \in Seq(Message)
  BY DEF Statuses, TypeOK, CoreTypeOK
<1>1. CASE StopCore
  BY <1>1, StatusAfterQuietStep DEF StopCore, QuietDequeue
<1>2. CASE AddPlugin
  <2>1. Current.name \in Names /\ QuietDequeue
    BY <1>2, ProcessType, ProcessIsQuiet DEF AddPlugin, TypeOK, Message, HasName
  <2>2. CASE ~IsLoaded(Current.name) /\ Load(Current.name)
    BY <2>1, <2>2, StatusAfterLoad
  <2>3. CASE UNCHANGED <<outPipes, pipe, thread, loadName>>
    BY <2>1, <2>3, StatusAfterQuietStep
  <2> QED
    BY <1>2, <2>2, <2>3 DEF AddPlugin
<1>3. CASE RemovePlugin
  BY <1>3, StatusAfterRemove
<1>4. CASE AddRegistration
  BY <1>4, StatusAfterRegistration
<1>5. CASE RemoveRegistration
  BY <1>5, ProcessIsQuiet, StatusAfterQuietStep DEF RemoveRegistration
<1>6. ASSUME QuietDequeue, UNCHANGED <<outPipes, thread, loadName>>,
             NEW n, NEW m \in Message, m.kind \notin {"registered", "refused"},
             UNCHANGED pipe \/ WriteTo(n, m)
      PROVE  StatusInv'
  <2>1. \A l \in Loads : pipe'[l] \in {pipe[l], Append(pipe[l], m)}
    BY <1>6 DEF WriteTo, TypeOK, CoreTypeOK
  <2> QED
    BY <1>0, <1>6, <2>1, StatusAfterQuietStep
<1>7. CASE TargetPlugin
  <2> DEFINE m == DataMessage(Current.type, InitialPriority, Current.data)
  <2>1. Current.type \in Types /\ Current.data \in Data \cup {NoData}
    BY <1>7, ProcessType DEF TargetPlugin, TypeOK, Message, HasType
  <2>2. m \in Message /\ m.kind \notin {"registered", "refused"}
    BY <2>1, DataMessageType DEF DataMessage
  <2>3. /\ QuietDequeue /\ UNCHANGED <<outPipes, thread, loadName>>
        /\ UNCHANGED pipe \/ WriteTo(Current.name, m)
    BY <1>7, ProcessIsQuiet DEF TargetPlugin
  <2> QED
    BY <1>6, <2>2, <2>3
<1>8. CASE InitiateShutdown
  <2> DEFINE m == NamedMessage("shutdown", NoPlugin)
  <2>1. m \in Message /\ m.kind \notin {"registered", "refused"}
    BY NamedMessageType DEF NamedMessage
  <2>2. \A l \in Loads : pipe'[l] \in {pipe[l], Append(pipe[l], m)}
    BY <1>8 DEF InitiateShutdown
  <2>3. QuietDequeue /\ UNCHANGED <<outPipes, thread, loadName>>
    BY <1>8, ProcessIsQuiet DEF InitiateShutdown
  <2> QED
    BY <1>0, <2>1, <2>2, <2>3, StatusAfterQuietStep
<1>9. CASE ToPlugin
  <2>1. Current \in Message /\ Current.kind = "data"
    BY <1>9, ProcessType DEF ToPlugin, TypeOK
  <2>2. QuietDequeue /\ UNCHANGED <<outPipes, thread, loadName>>
    BY <1>9, ProcessIsQuiet DEF ToPlugin
  <2>3. ASSUME NEW q \in Priorities
        PROVE  /\ [Current EXCEPT !.priority = q] \in Message
               /\ [Current EXCEPT !.priority = q].kind \notin {"registered", "refused"}
    BY <2>1, PriorityChangeType DEF Priorities, Message
  <2>4. UNCHANGED pipe \/ \E q \in Priorities :
          WriteTo(registrations[Current.type][q], [Current EXCEPT !.priority = q])
    BY <1>9 DEF ToPlugin
  <2>5. CASE UNCHANGED pipe
    BY <2>2, <2>5, StatusAfterQuietStep
  <2> QED
    BY <1>6, <2>2, <2>3, <2>4, <2>5
<1> QED
  BY <1>1, <1>2, <1>3, <1>4, <1>5, <1>7, <1>8, <1>9 DEF CoreStep

-------------------------------------------------------------------------------
(* A message behind in_pipe: nothing changes for the requests before it,   *)
(* unless a plugin has exited, whose done it is then.                      *)
LEMMA AskingBefore ==
  ASSUME CoreTypeOK, StatusInv, UNCHANGED outPipes,
         NEW m \in Message, inPipe' = Append(inPipe, m),
         m.kind = "register" =>
           IsLoaded(m.name) /\ thread'[outPipes[m.name]] = "run",
         \A n \in Names : IsLoaded(n) /\ thread[outPipes[n]] = "run" =>
           thread'[outPipes[n]] = "run" \/ (m.kind = "done" /\ m.name = n)
  PROVE  \A i \in 1..Len(inPipe') : Asking(i)'
<1>1. /\ inPipe \in Seq(Message) /\ Len(inPipe) \in Nat
      /\ Len(inPipe') = Len(inPipe) + 1 /\ inPipe'[Len(inPipe) + 1] = m
      /\ \A i \in 1..Len(inPipe) : i \in 1..Len(inPipe') /\ inPipe'[i] = inPipe[i]
  BY DEF CoreTypeOK
<1> SUFFICES ASSUME NEW i \in 1..Len(inPipe'), inPipe'[i].kind = "register"
             PROVE  Asking(i)'
  BY DEF Asking
<1>2. CASE i = Len(inPipe) + 1
  BY <1>1, <1>2 DEF Asking, IsLoaded
<1>3. CASE i \in 1..Len(inPipe)
  <2> DEFINE n == inPipe[i].name
  <2>1. Asking(i) /\ inPipe[i].kind = "register" /\ inPipe[i] \in Message
    BY <1>1, <1>3 DEF StatusInv
  <2>2. n \in Names /\ IsLoaded(n)
    BY <2>1 DEF Asking, Message, HasName
  <2>3. CASE DoneBehind(i)
    <3>1. DoneBehind(i)'
      BY <1>1, <1>3, <2>3 DEF DoneBehind, IsDone
    <3> QED
      BY <1>1, <1>3, <2>2, <3>1 DEF Asking, IsLoaded
  <2>4. CASE thread[outPipes[n]] = "run"
    <3>1. CASE thread'[outPipes[n]] = "run"
      BY <1>1, <1>3, <2>2, <3>1 DEF Asking, IsLoaded
    <3>2. CASE m.kind = "done" /\ m.name = n
      <4>1. Len(inPipe) + 1 \in 1..Len(inPipe') /\ Len(inPipe) + 1 > i
        BY <1>1, <1>3
      <4>2. DoneBehind(i)'
        BY <1>1, <1>3, <3>2, <4>1 DEF DoneBehind, IsDone
      <4> QED
        BY <1>1, <1>3, <2>2, <4>2 DEF Asking, IsLoaded
    <3> QED
      BY <2>2, <2>4, <3>1, <3>2
  <2> QED
    BY <2>1, <2>3, <2>4 DEF Asking
<1> QED
  BY <1>1, <1>2, <1>3

LEMMA AskingSame ==
  ASSUME StatusInv, UNCHANGED <<inPipe, outPipes>>,
         \A o : thread[o] = "run" => thread'[o] = "run"
  PROVE  \A i \in 1..Len(inPipe') : Asking(i)'
BY DEF StatusInv, Asking, DoneBehind, IsDone, IsLoaded

(* Only the load l does something.                                         *)
OnlyAt(l) ==
  \A k \in Loads : k # l => /\ pipe'[k] = pipe[k] /\ thread'[k] = thread[k]
                            /\ unanswered'[k] = unanswered[k]

LEMMA OthersOwed ==
  ASSUME StatusInv, UNCHANGED loadName, NEW l \in Loads, OnlyAt(l),
         NEW k \in Loads, k # l,
         thread[k] = "run" => Count(inPipe', RequestsOf(loadName[k])) =
                                Count(inPipe, RequestsOf(loadName[k]))
  PROVE  Owed(k)' /\ Unasked(k)'
BY DEF StatusInv, Owed, Unasked, OnlyAt

LEMMA CountOther ==
  ASSUME CoreTypeOK, NEW m \in Message, inPipe' = Append(inPipe, m), NEW n,
         m \notin RequestsOf(n)
  PROVE  Count(inPipe', RequestsOf(n)) = Count(inPipe, RequestsOf(n))
BY CountBehind, CountType DEF CoreTypeOK

(* A running plugin takes messages that are no statuses and writes         *)
(* messages that are no requests.                                          *)
LEMMA StatusAfterOther ==
  ASSUME TypeOK, StatusInv, NEW l \in Loads, thread[l] # "hello",
         UNCHANGED <<outPipes, thread, loadName, unanswered>>, OnlyAt(l),
         \/ pipe'[l] = pipe[l]
         \/ /\ pipe[l] # << >> /\ pipe'[l] = Tail(pipe[l])
            /\ Head(pipe[l]) \notin Statuses,
         \/ inPipe' = inPipe
         \/ \E m \in Message : m.kind # "register" /\ inPipe' = Append(inPipe, m)
  PROVE  StatusInv'
<1>1. CoreTypeOK /\ pipe[l] \in Seq(Message)
  BY DEF TypeOK, CoreTypeOK
<1>2. \A n : Count(inPipe', RequestsOf(n)) = Count(inPipe, RequestsOf(n))
  <2>1. ASSUME NEW m \in Message, m.kind # "register", inPipe' = Append(inPipe, m),
               NEW n
        PROVE  Count(inPipe', RequestsOf(n)) = Count(inPipe, RequestsOf(n))
    BY <1>1, <2>1, CountOther DEF RequestsOf
  <2> QED
    BY <2>1
<1>3. Count(pipe'[l], Statuses) = Count(pipe[l], Statuses)
  BY <1>1, CountTaken, CountType
<1>4. Owed(l)' /\ Unasked(l)'
  BY <1>2, <1>3 DEF StatusInv, Owed, Unasked
<1>5. \A k \in Loads : k # l => Owed(k)' /\ Unasked(k)'
  BY <1>2, OthersOwed
<1>6. \A i \in 1..Len(inPipe') : Asking(i)'
  <2>1. ASSUME NEW m \in Message, m.kind # "register", inPipe' = Append(inPipe, m)
        PROVE  \A i \in 1..Len(inPipe') : Asking(i)'
    BY <1>1, <2>1, AskingBefore
  <2> QED
    BY <2>1, AskingSame
<1> QED
  BY <1>4, <1>5, <1>6 DEF StatusInv

(* A running plugin asks, for the first time or in answer to a refusal.    *)
LEMMA StatusAfterAsking ==
  ASSUME TypeOK, LifeInv, StatusInv, NEW l \in Loads, thread[l] = "run",
         loadName[l] \in Names,
         UNCHANGED <<outPipes, thread, loadName>>, OnlyAt(l),
         NEW m \in RequestsOf(loadName[l]), inPipe' = Append(inPipe, m),
         unanswered'[l] - Count(pipe'[l], Statuses) =
           unanswered[l] - Count(pipe[l], Statuses) + 1,
         pipe' \in [Loads -> Seq(Message)], unanswered' \in [Loads -> Int]
  PROVE  StatusInv'
<1>1. /\ CoreTypeOK /\ inPipe \in Seq(Message) /\ m \in Message
      /\ m.kind = "register" /\ m.name = loadName[l]
      /\ unanswered[l] \in Int /\ unanswered'[l] \in Int
  BY DEF TypeOK, CoreTypeOK, RequestsOf
<1>2. /\ Count(inPipe', RequestsOf(loadName[l])) =
           Count(inPipe, RequestsOf(loadName[l])) + 1
      /\ Count(inPipe, RequestsOf(loadName[l])) \in Nat
  BY <1>1, CountBehind, CountType
<1>3. Count(pipe[l], Statuses) \in Nat /\ Count(pipe'[l], Statuses) \in Nat
  BY CountType DEF TypeOK, CoreTypeOK
<1>4. Owed(l)' /\ Unasked(l)'
  <2>1. unanswered[l] = Count(inPipe, RequestsOf(loadName[l])) + Count(pipe[l], Statuses)
    BY DEF StatusInv, Owed
  <2>2. unanswered'[l] =
          Count(inPipe', RequestsOf(loadName[l])) + Count(pipe'[l], Statuses)
    BY <1>1, <1>2, <1>3, <2>1
  <2> QED
    BY <2>2 DEF Owed, Unasked
<1>5. ASSUME NEW k \in Loads, k # l
      PROVE  Owed(k)' /\ Unasked(k)'
  <2>1. thread[k] = "run" => m \notin RequestsOf(loadName[k])
    BY <1>1, <1>5, RunningDiffer DEF LifeInv, RequestsOf
  <2> QED
    BY <1>1, <1>5, <2>1, CountOther, OthersOwed
<1>6. \A i \in 1..Len(inPipe') : Asking(i)'
  <2>1. outPipes[loadName[l]] = l /\ IsLoaded(loadName[l])
    BY CoreAssumption DEF LifeInv, RunningIsLoaded, IsLoaded
  <2> QED
    BY <1>1, <2>1, AskingBefore
<1> QED
  BY <1>4, <1>5, <1>6 DEF StatusInv

LEMMA StatusAfterExit ==
  ASSUME TypeOK, LifeInv, StatusInv, NEW l \in Loads, thread[l] = "run",
         loadName[l] \in Names, SendDone(l), UNCHANGED <<outPipes, loadName>>,
         OnlyAt(l)
  PROVE  StatusInv'
<1> DEFINE m == NamedMessage("done", loadName[l])
<1>1. CoreTypeOK /\ m \in Message /\ m.kind = "done" /\ m.name = loadName[l]
  BY NamedMessageType DEF TypeOK, NamedMessage
<1>2. inPipe' = Append(inPipe, m) /\ thread'[l] = "exited"
  BY DEF SendDone, ToCore, TypeOK, CoreTypeOK
<1>3. Owed(l)' /\ Unasked(l)'
  BY <1>2 DEF Owed, Unasked
<1>4. \A k \in Loads : k # l => Owed(k)' /\ Unasked(k)'
  <2>1. \A n : m \notin RequestsOf(n)
    BY <1>1 DEF RequestsOf
  <2>2. \A n : Count(inPipe', RequestsOf(n)) = Count(inPipe, RequestsOf(n))
    BY <1>1, <1>2, <2>1, CountOther
  <2> QED
    BY <2>2, OthersOwed
<1>5. \A i \in 1..Len(inPipe') : Asking(i)'
  <2>1. \A n \in Names : IsLoaded(n) /\ thread[outPipes[n]] = "run" =>
          thread'[outPipes[n]] = "run" \/ n = loadName[l]
    <3> SUFFICES ASSUME NEW n \in Names, IsLoaded(n), thread[outPipes[n]] = "run",
                        n # loadName[l]
                 PROVE  thread'[outPipes[n]] = "run"
      OBVIOUS
    <3>1. loadName[outPipes[n]] = n /\ outPipes[n] \in Loads
      BY DEF LifeInv, PipesBelong, IsLoaded, TypeOK, CoreTypeOK
    <3> QED
      BY <3>1 DEF OnlyAt
  <2> QED
    BY <1>1, <1>2, <2>1, AskingBefore
<1> QED
  BY <1>3, <1>4, <1>5 DEF StatusInv

(* A plugin that reads its hello finds itself with nothing asked, since no *)
(* request of a predecessor is left.                                       *)
LEMMA StatusAfterHello ==
  ASSUME TypeOK, LifeInv, HelloInv, StatusInv, NEW l \in Loads, ReadHello(l)
  PROVE  StatusInv'
<1>1. /\ CoreTypeOK /\ inPipe \in Seq(Message) /\ pipe[l] \in Seq(Message)
  BY DEF TypeOK, CoreTypeOK
<1>2. /\ thread[l] = "hello" /\ pipe[l] # << >>
      /\ Head(pipe[l]).kind = "hello"
  <2>1. thread[l] = "hello" /\ pipe[l] # << >>
    BY DEF ReadHello
  <2>2. Head(pipe[l]) = NamedMessage("hello", loadName[l])
    BY <2>1 DEF HelloInv, Greeted
  <2> QED
    BY <2>1, <2>2 DEF NamedMessage
<1>3. /\ UNCHANGED <<inPipe, outPipes, loadName, unanswered>>
      /\ pipe'[l] = Tail(pipe[l]) /\ thread'[l] = "run"
      /\ OnlyAt(l) /\ \A o : thread[o] = "run" => thread'[o] = "run"
  BY <1>2 DEF ReadHello, busVars, OnlyAt, TypeOK, CoreTypeOK
<1>4. Count(inPipe, RequestsOf(loadName[l])) = 0
  <2> SUFFICES ASSUME NEW i \in 1..Len(inPipe), inPipe[i] \in RequestsOf(loadName[l])
               PROVE  FALSE
    BY <1>1, CountType DEF Marks
  <2>1. inPipe[i].kind = "register" /\ inPipe[i].name = loadName[l]
    BY DEF RequestsOf
  <2>2. outPipes[inPipe[i].name] = l
    BY <1>2, <2>1 DEF LifeInv, RunningIsLoaded
  <2>3. DoneBehind(i)
    BY <1>2, <2>1, <2>2 DEF StatusInv, Asking
  <2> QED
    BY <1>2, <2>2, <2>3 DEF DoneBehind, LifeInv, DonesAreOfExited
<1>5. unanswered[l] = 0 /\ Count(pipe'[l], Statuses) = 0
  <2>1. unanswered[l] = 0 /\ Count(pipe[l], Statuses) = 0
    BY <1>2 DEF StatusInv, Unasked
  <2>2. Head(pipe[l]) \notin Statuses
    BY <1>2 DEF Statuses
  <2> QED
    BY <1>1, <1>2, <1>3, <2>1, <2>2, CountTaken
<1>6. Owed(l)' /\ Unasked(l)'
  BY <1>3, <1>4, <1>5 DEF Owed, Unasked
<1>7. \A k \in Loads : k # l => Owed(k)' /\ Unasked(k)'
  BY <1>3, OthersOwed
<1> QED
  BY <1>3, <1>6, <1>7, AskingSame DEF StatusInv

LEMMA StatusAfterPluginStep ==
  ASSUME TypeOK, NamedLoads, LifeInv, HelloInv, StatusInv,
         NEW l \in Loads, PluginStep(l), TypeOK'
  PROVE  StatusInv'
<1>0. /\ CoreTypeOK /\ pipe[l] \in Seq(Message)
      /\ thread[l] # "none" => loadName[l] \in Names
      /\ unanswered \in [Loads -> Int] /\ unanswered' \in [Loads -> Int]
      /\ pipe' \in [Loads -> Seq(Message)]
  BY DEF NamedLoads, TypeOK, CoreTypeOK
<1>1. CASE ReadHello(l)
  BY <1>1, StatusAfterHello
<1>2. CASE RunReturns(l)
  <2>1. OnlyAt(l)
    BY <1>2 DEF RunReturns, SendDone, OnlyAt, TypeOK, CoreTypeOK
  <2> QED
    BY <1>0, <1>2, <2>1, StatusAfterExit DEF RunReturns
<1>3. ASSUME NEW m \in Message, m.kind # "register", ToCore(m),
             thread[l] # "hello",
             UNCHANGED <<outPipes, pipe, thread, loadName, unanswered>>
      PROVE  StatusInv'
  BY <1>3, StatusAfterOther DEF ToCore, OnlyAt
<1>4. ASSUME NEW t \in Types, NEW p \in RequestPriorities, Register(l, t, p)
      PROVE  StatusInv'
  <2> DEFINE m == RegistrationMessage("register", loadName[l], t, p)
  <2>1. m \in RequestsOf(loadName[l]) /\ thread[l] = "run" /\ loadName[l] \in Names
    BY <1>0, <1>4, RegistrationMessageType, BusAssumption
       DEF Register, RegistrationMessage, RequestsOf
  <2>2. /\ inPipe' = Append(inPipe, m) /\ pipe' = pipe
        /\ UNCHANGED <<outPipes, thread, loadName>>
        /\ unanswered' = [unanswered EXCEPT ![l] = @ + 1]
    BY <1>4 DEF Register, ToCore
  <2>3. OnlyAt(l) /\ unanswered'[l] = unanswered[l] + 1
    BY <1>0, <2>2 DEF OnlyAt
  <2>4. Count(pipe'[l], Statuses) = Count(pipe[l], Statuses)
        /\ Count(pipe[l], Statuses) \in Nat /\ unanswered[l] \in Int
    BY <1>0, <2>2, CountType
  <2>5. unanswered'[l] - Count(pipe'[l], Statuses) =
          unanswered[l] - Count(pipe[l], Statuses) + 1
    BY <2>3, <2>4
  <2> HIDE DEF m
  <2> QED
    BY <1>0, <2>1, <2>2, <2>3, <2>5, StatusAfterAsking
<1>5. ASSUME NEW t \in Types, Unregister(l, t)
      PROVE  StatusInv'
  <2> DEFINE m == RegistrationMessage("unregister", loadName[l], t, InitialPriority)
  <2>1. m \in Message /\ m.kind # "register"
    BY <1>0, <1>5, RegistrationMessageType, DataMessageType
       DEF Unregister, RegistrationMessage
  <2> QED
    BY <1>3, <1>5, <2>1 DEF Unregister
<1>6. ASSUME NEW t \in Types, NEW d \in Data, Post(l, t, d)
      PROVE  StatusInv'
  <2>1. /\ DataMessage(t, InitialPriority, d) \in Message
        /\ DataMessage(t, InitialPriority, d).kind # "register"
        /\ \A n \in Names : TargetMessage(n, t, d) \in Message
                            /\ TargetMessage(n, t, d).kind # "register"
    BY DataMessageType DEF DataMessage, TargetMessage
  <2> QED
    BY <1>3, <1>6, <2>1 DEF Post, CanPost
<1>7. ASSUME NEW n \in Names, Add_Plugin(l, n)
      PROVE  StatusInv'
  <2>1. /\ NamedMessage("add_plugin", n) \in Message
        /\ NamedMessage("add_plugin", n).kind # "register"
    BY NamedMessageType DEF NamedMessage
  <2> QED
    BY <1>3, <1>7, <2>1 DEF Add_Plugin
<1>8. CASE Quit(l)
  <2>1. /\ NamedMessage("core_quit", NoPlugin) \in Message
        /\ NamedMessage("core_quit", NoPlugin).kind # "register"
    BY NamedMessageType DEF NamedMessage
  <2> QED
    BY <1>3, <1>8, <2>1 DEF Quit, CanPost
<1>9. ASSUME NEW kind, Take(l, kind)
      PROVE  /\ thread[l] = "run" /\ loadName[l] \in Names
             /\ pipe[l] # << >> /\ pipe'[l] = Tail(pipe[l])
             /\ Head(pipe[l]) \in Message /\ Head(pipe[l]).kind = kind
             /\ \A k \in Loads : k # l => pipe'[k] = pipe[k]
             /\ UNCHANGED <<outPipes, loadName>>
             /\ Count(pipe'[l], Statuses) = Count(pipe[l], Statuses)
                  - IF kind \in {"registered", "refused"} THEN 1 ELSE 0
  <2>1. Head(pipe[l]) \in Statuses <=> kind \in {"registered", "refused"}
    BY <1>0, <1>9, TakeType DEF Take, Statuses
  <2> QED
    BY <1>0, <1>9, <2>1, TakeType, CountTaken DEF Take, CoreTypeOK
<1>10. CASE Echo(l)
  <2> DEFINE h == Head(pipe[l])
             m == [h EXCEPT !.priority = @ - 1]
  <2>1. /\ h \in Message /\ h.kind = "data" /\ thread[l] = "run"
        /\ inPipe' = inPipe \/ inPipe' = Append(inPipe, m)
        /\ UNCHANGED <<thread, unanswered>>
    BY <1>9, <1>10 DEF Echo, ToCore
  <2>2. m \in Message /\ m.kind # "register" /\ h \notin Statuses
    <3> HIDE DEF h
    <3> QED
      BY <2>1, EchoedType DEF Statuses, Message
  <2>3. OnlyAt(l)
    BY <1>9, <1>10, <2>1 DEF Echo, OnlyAt
  <2> QED
    BY <1>9, <1>10, <2>1, <2>2, <2>3, StatusAfterOther DEF Echo
<1>11. ASSUME Take(l, "registered") \/ Take(l, "refused"),
              UNCHANGED <<inPipe, thread>>,
              unanswered' = [unanswered EXCEPT ![l] = @ - 1]
       PROVE  StatusInv'
  <2>1. /\ UNCHANGED <<inPipe, outPipes, thread, loadName>>
        /\ unanswered'[l] = unanswered[l] - 1 /\ OnlyAt(l)
        /\ Count(pipe'[l], Statuses) = Count(pipe[l], Statuses) - 1
    BY <1>0, <1>9, <1>11 DEF OnlyAt
  <2>2. /\ Count(inPipe, RequestsOf(loadName[l])) \in Nat
        /\ Count(pipe[l], Statuses) \in Nat /\ unanswered[l] \in Int
    BY <1>0, CountType DEF CoreTypeOK
  <2>3. Owed(l)' /\ Unasked(l)'
    <3>1. thread[l] = "run" /\ thread'[l] = "run"
      BY <1>9, <1>11, <2>1
    <3> QED
      BY <2>1, <2>2, <3>1 DEF StatusInv, Owed, Unasked
  <2>4. \A k \in Loads : k # l => Owed(k)' /\ Unasked(k)'
    BY <2>1, OthersOwed
  <2> QED
    BY <2>1, <2>3, <2>4, AskingSame DEF StatusInv
<1>12. ASSUME SendDone(l), thread[l] = "run", loadName[l] \in Names,
              UNCHANGED <<outPipes, loadName>>,
              \A k \in Loads :
                k # l => pipe'[k] = pipe[k] /\ unanswered'[k] = unanswered[k]
       PROVE  StatusInv'
  <2>1. OnlyAt(l)
    BY <1>12 DEF SendDone, OnlyAt, TypeOK, CoreTypeOK
  <2> QED
    BY <1>12, <2>1, StatusAfterExit
<1>13. CASE ReadShutdown(l)
  BY <1>9, <1>12, <1>13 DEF ReadShutdown
<1>14. CASE ReadRefused(l)
  <2> DEFINE h == Head(pipe[l])
             m == RegistrationMessage("register", loadName[l], h.type,
                                      NextTry(loadName[l], h.priority))
  <2>0. Take(l, "refused")
    BY <1>14 DEF ReadRefused
  <2>1. h.type \in Types /\ NextTry(loadName[l], h.priority) \in Int
    BY <1>9, <2>0, RefusedType
  <2>2. m \in RequestsOf(loadName[l])
    BY <1>9, <2>0, <2>1, RegistrationMessageType DEF RegistrationMessage, RequestsOf
  <2>3. CASE ToCore(m) /\ UNCHANGED <<thread, unanswered>>
    <3>1. OnlyAt(l)
      BY <1>9, <2>0, <2>3 DEF OnlyAt
    <3>2. Count(pipe[l], Statuses) \in Nat /\ unanswered[l] \in Int
      BY <1>0, CountType
    <3>3. unanswered'[l] - Count(pipe'[l], Statuses) =
            unanswered[l] - Count(pipe[l], Statuses) + 1
      BY <1>9, <2>0, <2>3, <3>2
    <3> HIDE DEF m
    <3> QED
      BY <1>0, <1>9, <2>0, <2>2, <2>3, <3>1, <3>3, StatusAfterAsking DEF ToCore
  <2>4. CASE SendDone(l) /\ unanswered' = [unanswered EXCEPT ![l] = @ - 1]
    <3>1. \A k \in Loads : k # l => unanswered'[k] = unanswered[k]
      BY <1>0, <2>4
    <3> QED
      BY <1>9, <1>12, <2>0, <2>4, <3>1
  <2>5. CASE /\ UNCHANGED <<inPipe, thread>>
             /\ unanswered' = [unanswered EXCEPT ![l] = @ - 1]
    BY <1>11, <2>0, <2>5
  <2> QED
    BY <1>14, <2>3, <2>4, <2>5 DEF ReadRefused
<1>15. CASE ReadRegistered(l)
  BY <1>11, <1>15 DEF ReadRegistered
<1> QED
  BY <1>1, <1>2, <1>4, <1>5, <1>6, <1>7, <1>8, <1>10, <1>13, <1>14, <1>15
     DEF PluginStep, HandleMessage

LEMMA StatusInvariant == Spec => []StatusInv
<1>1. Init => StatusInv
  <2> SUFFICES ASSUME Init PROVE StatusInv
    OBVIOUS
  <2>1. \A l \in Loads : Marks(pipe[l], Statuses) = {} /\ Len(inPipe) = 0
                         /\ thread[l] = "none" /\ unanswered[l] = 0
    BY DEF Init, CoreInit, Marks
  <2>2. \A l \in Loads : Count(pipe[l], Statuses) = 0
    BY <2>1, FS_EmptySet DEF Count
  <2>3. Len(inPipe) = 0
    BY DEF Init, CoreInit
  <2> QED
    BY <2>1, <2>2, <2>3 DEF StatusInv, Owed, Unasked
<1>2. TypeOK /\ TypeOK' /\ NamedLoads /\ LifeInv /\ HelloInv /\ StatusInv /\ [Next]_vars
        => StatusInv'
  <2> SUFFICES ASSUME TypeOK, TypeOK', NamedLoads, LifeInv, HelloInv, StatusInv,
                      [Next]_vars
               PROVE  StatusInv'
    OBVIOUS
  <2>1. CASE BusCoreStep
    BY <2>1, StatusAfterCoreStep DEF BusCoreStep
  <2>2. ASSUME NEW l \in Loads, PluginStep(l)
        PROVE  StatusInv'
    BY <2>2, StatusAfterPluginStep
  <2>3. CASE UNCHANGED vars
    BY <2>3, AskingSame DEF vars, coreVars, busVars, StatusInv, Owed, Unasked
  <2> QED
    BY <2>1, <2>2, <2>3 DEF Next
<1> QED
  BY <1>1, <1>2, TypesInvariant, LifeInvariant, HelloInvariant, PTL DEF Spec

(* Every request of a running plugin is answered once, whatever plugins    *)
(* start, exit and start again: what it is owed is what is under way.      *)
THEOREM RequestsAreAnswered == Spec => []OneStatusPerRequest
<1>1. TypeOK /\ StatusInv => OneStatusPerRequest
  <2> SUFFICES ASSUME TypeOK, StatusInv, NEW l \in Loads, thread[l] = "run"
               PROVE  unanswered[l] =
                          Cardinality({i \in 1..Len(inPipe) :
                                         /\ inPipe[i].kind = "register"
                                         /\ inPipe[i].name = loadName[l]})
                        + Cardinality({i \in 1..Len(pipe[l]) :
                                         pipe[l][i].kind \in {"registered", "refused"}})
    BY DEF OneStatusPerRequest
  <2>1. /\ \A i \in 1..Len(inPipe) : inPipe[i] \in Message
        /\ \A i \in 1..Len(pipe[l]) : pipe[l][i] \in Message
    BY DEF TypeOK, CoreTypeOK
  <2>2. Marks(inPipe, RequestsOf(loadName[l])) =
          {i \in 1..Len(inPipe) : /\ inPipe[i].kind = "register"
                                  /\ inPipe[i].name = loadName[l]}
    BY <2>1 DEF Marks, RequestsOf
  <2>3. Marks(pipe[l], Statuses) =
          {i \in 1..Len(pipe[l]) : pipe[l][i].kind \in {"registered", "refused"}}
    BY <2>1 DEF Marks, Statuses
  <2> QED
    BY <2>2, <2>3 DEF StatusInv, Owed, Count
<1> QED
  BY <1>1, TypesInvariant, StatusInvariant, PTL

-------------------------------------------------------------------------------
(* A message passes down.  Its deliveries can rise again, or come back to  *)
(* a plugin, only if a plugin moves within the registry of the type while  *)
(* the message is under way.  So the invariant follows, for every load and *)
(* type, the one request that may be open and the one entry it may end in. *)

Wants(n, t) == {m \in Message : m.kind = "register" /\ m.name = n /\ m.type = t}
Refusals(t) == {m \in Message : m.kind = "refused" /\ m.type = t}

Open(l, t) == Count(inPipe, Wants(loadName[l], t)) + Count(pipe[l], Refusals(t))
Held(l, t) == {p \in Priorities : registrations[t][p] = loadName[l]}

\* The load the core writes to under its name.
IsCurrent(l) == thread[l] # "none" /\ outPipes[loadName[l]] = l

Unregistered(l, t) == asked[l][t] = "no"

OneSlot(l, t) ==
  /\ Unregistered(l, t) => Open(l, t) = 0 /\ Held(l, t) = {}
  /\ Open(l, t) <= 1
  /\ Held(l, t) # {} => Open(l, t) = 0
  /\ \A p, q \in Held(l, t) : p = q

SlotInv ==
  \A l \in Loads, t \in Types :
    /\ thread[l] \in {"none", "hello"} => Unregistered(l, t)
    /\ IsCurrent(l) => OneSlot(l, t)

(* What a step may do to the request and the entry of a load.              *)
Calms(l, t) ==
  /\ Unregistered(l, t)' <=> Unregistered(l, t)
  /\ Open(l, t)' <= Open(l, t) /\ Held(l, t)' \subseteq Held(l, t)

Asks(l, t) ==
  /\ Unregistered(l, t) /\ ~Unregistered(l, t)'
  /\ Open(l, t)' = Open(l, t) + 1 /\ Held(l, t)' \subseteq Held(l, t)

Gains(l, t) ==
  /\ Unregistered(l, t)' <=> Unregistered(l, t)
  /\ Open(l, t) >= 1 /\ Open(l, t)' = Open(l, t) - 1
  /\ \E p : Held(l, t)' \subseteq Held(l, t) \cup {p}

Starting(l, t) ==
  /\ thread[l] = "none"
  /\ Unregistered(l, t)' <=> Unregistered(l, t)
  /\ Open(l, t)' = 0 /\ Held(l, t)' = {}

SlotStep(l, t) ==
  /\ thread[l] # "none" => thread'[l] # "none"
  /\ thread'[l] \in {"none", "hello"} =>
       /\ thread[l] \in {"none", "hello"}
       /\ Unregistered(l, t)' <=> Unregistered(l, t)
  /\ IsCurrent(l)' =>
       \/ IsCurrent(l) /\ (Calms(l, t) \/ Asks(l, t) \/ Gains(l, t))
       \/ Starting(l, t)

LEMMA OpenType ==
  ASSUME TypeOK, NEW l \in Loads, NEW t
  PROVE  Open(l, t) \in Nat
BY CountType DEF Open, TypeOK, CoreTypeOK

LEMMA SlotAfterStep ==
  ASSUME TypeOK, TypeOK', SlotInv, NEW l \in Loads, NEW t \in Types,
         SlotStep(l, t)
  PROVE  /\ thread'[l] \in {"none", "hello"} => Unregistered(l, t)'
         /\ IsCurrent(l)' => OneSlot(l, t)'
<1>1. Open(l, t) \in Nat /\ Open(l, t)' \in Nat
  BY OpenType, CountType DEF Open, TypeOK, CoreTypeOK
<1>2. thread'[l] \in {"none", "hello"} => Unregistered(l, t)'
  BY DEF SlotStep, SlotInv
<1> SUFFICES ASSUME IsCurrent(l)' PROVE OneSlot(l, t)'
  BY <1>2
<1> HIDE DEF Open, Held, Unregistered
<1>3. CASE Starting(l, t)
  BY <1>3 DEF Starting, OneSlot
<1>4. CASE IsCurrent(l) /\ Calms(l, t)
  BY <1>1, <1>4 DEF Calms, SlotInv, OneSlot
<1>5. CASE IsCurrent(l) /\ Asks(l, t)
  BY <1>1, <1>5 DEF Asks, SlotInv, OneSlot
<1>6. CASE IsCurrent(l) /\ Gains(l, t)
  <2>1. OneSlot(l, t)
    BY <1>6 DEF SlotInv
  <2>2. Open(l, t) = 1 /\ Held(l, t) = {} /\ ~Unregistered(l, t) /\ Open(l, t)' = 0
    BY <1>1, <1>6, <2>1 DEF Gains, OneSlot
  <2> QED
    BY <1>1, <1>6, <2>2 DEF Gains, OneSlot
<1> QED
  BY <1>3, <1>4, <1>5, <1>6 DEF SlotStep

(* The plugin has its entry: it will hold no other one while it is loaded. *)
Granted(l, t, p) ==
  /\ thread[l] # "none"
  /\ IsCurrent(l) =>
       ~Unregistered(l, t) /\ Open(l, t) = 0 /\ Held(l, t) \subseteq {p}

LEMMA GrantedStays ==
  ASSUME TypeOK, TypeOK', NEW l \in Loads, NEW t \in Types, NEW p,
         SlotStep(l, t), Granted(l, t, p)
  PROVE  Granted(l, t, p)'
<1>1. Open(l, t) \in Nat /\ Open(l, t)' \in Nat
  BY OpenType, CountType DEF Open, TypeOK, CoreTypeOK
<1>2. thread[l] # "none" /\ thread'[l] # "none"
  BY DEF Granted, SlotStep
<1> SUFFICES ASSUME IsCurrent(l)'
             PROVE  (~Unregistered(l, t) /\ Open(l, t) = 0 /\ Held(l, t) \subseteq {p})'
  BY <1>2 DEF Granted
<1>3. IsCurrent(l) /\ (Calms(l, t) \/ Asks(l, t) \/ Gains(l, t))
  BY <1>2 DEF SlotStep, Starting
<1>4. ~Unregistered(l, t) /\ Open(l, t) = 0 /\ Held(l, t) \subseteq {p}
  BY <1>3 DEF Granted
<1> HIDE DEF Open, Held, Unregistered
<1>5. Calms(l, t)
  BY <1>1, <1>3, <1>4 DEF Asks, Gains
<1> QED
  BY <1>1, <1>4, <1>5 DEF Calms

LEMMA GrantedNow ==
  ASSUME SlotInv, NEW l \in Loads, NEW t \in Types, IsCurrent(l),
         NEW p \in Held(l, t)
  PROVE  Granted(l, t, p)
BY DEF SlotInv, OneSlot, Granted, IsCurrent

-------------------------------------------------------------------------------
(* Counting in a queue that gets nothing of the kind.                      *)
Fewer(s, s2, S) ==
  \/ s2 = s
  \/ s # << >> /\ s2 = Tail(s)
  \/ \E m \in Message : m \notin S /\ s2 = Append(s, m)

LEMMA CountFewer ==
  ASSUME NEW s \in Seq(Message), NEW s2, NEW S, Fewer(s, s2, S)
  PROVE  Count(s2, S) <= Count(s, S)
<1>1. Count(s, S) \in Nat
  BY CountType
<1>2. CASE s2 = s
  BY <1>1, <1>2
<1>3. CASE s # << >> /\ s2 = Tail(s)
  BY <1>1, <1>3, CountTaken
<1>4. ASSUME NEW m \in Message, m \notin S, s2 = Append(s, m)
      PROVE  Count(s2, S) <= Count(s, S)
  BY <1>1, <1>4, CountBehind
<1> QED
  BY <1>2, <1>3, <1>4 DEF Fewer

LEMMA CalmStep ==
  ASSUME TypeOK, TypeOK', NEW l \in Loads, NEW t \in Types,
         loadName'[l] = loadName[l],
         Fewer(inPipe, inPipe', Wants(loadName[l], t)),
         Fewer(pipe[l], pipe'[l], Refusals(t)),
         Unregistered(l, t)' <=> Unregistered(l, t),
         \A p \in Priorities :
           registrations'[t][p] = loadName[l] => registrations[t][p] = loadName[l]
  PROVE  Calms(l, t)
<1>1. inPipe \in Seq(Message) /\ pipe[l] \in Seq(Message)
  BY DEF TypeOK, CoreTypeOK
<1>2. /\ Count(inPipe', Wants(loadName[l], t)) <= Count(inPipe, Wants(loadName[l], t))
      /\ Count(pipe'[l], Refusals(t)) <= Count(pipe[l], Refusals(t))
  BY <1>1, CountFewer
<1>3. /\ Count(inPipe, Wants(loadName[l], t)) \in Nat
      /\ Count(pipe[l], Refusals(t)) \in Nat
  BY <1>1, CountType
<1>4. /\ Count(inPipe', Wants(loadName[l], t)) \in Nat
      /\ Count(pipe'[l], Refusals(t)) \in Nat
  BY CountType DEF TypeOK, CoreTypeOK
<1>5. Open(l, t)' <= Open(l, t)
  BY <1>2, <1>3, <1>4 DEF Open, Wants, Refusals
<1> QED
  BY <1>5 DEF Calms, Held


LEMMA CalmCore ==
  ASSUME TypeOK, TypeOK', NEW l \in Loads, NEW t \in Types,
         UNCHANGED <<thread, loadName, asked>>,
         IsCurrent(l)' => IsCurrent(l),
         IsCurrent(l) => Fewer(inPipe, inPipe', Wants(loadName[l], t)),
         IsCurrent(l) => Fewer(pipe[l], pipe'[l], Refusals(t)),
         IsCurrent(l) => \A p \in Priorities :
           registrations'[t][p] = loadName[l] => registrations[t][p] = loadName[l]
  PROVE  SlotStep(l, t)
<1>1. Unregistered(l, t)' <=> Unregistered(l, t)
  BY DEF Unregistered
<1>2. IsCurrent(l) => Calms(l, t)
  BY <1>1, CalmStep
<1> QED
  BY <1>1, <1>2 DEF SlotStep

(* The core starts a plugin: nothing is left of an earlier load's.         *)
LEMMA SlotAfterLoad ==
  ASSUME TypeOK, TypeOK', NamedLoads, LifeInv, HelloInv, StatusInv,
         RegistrationsAreLive, AddPlugin, ~IsLoaded(Current.name),
         Load(Current.name), asked' = asked, NEW l \in Loads, NEW t \in Types
  PROVE  SlotStep(l, t)
<1> DEFINE n == Current.name
           k == NextLoad
           m == NamedMessage("hello", n)
<1>1. /\ n \in Names /\ k \in Loads /\ thread[k] = "none"
      /\ thread' = [thread EXCEPT ![k] = "hello"]
      /\ loadName' = [loadName EXCEPT ![k] = n]
      /\ pipe' = [pipe EXCEPT ![k] = Append(@, m)]
      /\ outPipes' = [outPipes EXCEPT ![n] = k]
      /\ registrations' = registrations
  <2>1. n \in Names
    BY ProcessType DEF AddPlugin, TypeOK, Message, HasName
  <2>2. k \in Loads /\ thread[k] = "none"
    BY DEF Load, NextLoad, FreeLoads
  <2> QED
    BY <2>1, <2>2 DEF Load, AddPlugin
<1>2. inPipe' = inPipe \/ (inPipe # << >> /\ inPipe' = Tail(inPipe))
  BY ProcessMoves DEF AddPlugin
<1>3. m \in Message /\ m \notin Refusals(t)
  BY <1>1, NamedMessageType DEF NamedMessage, Refusals
<1>4. Unregistered(l, t)' <=> Unregistered(l, t)
  BY DEF Unregistered
<1> HIDE DEF n, k, m
<1>5. CASE l = k
  <2>1. pipe[l] = << >> /\ pipe[l] \in Seq(Message)
    BY <1>1, <1>5 DEF HelloInv, Greeted, TypeOK, CoreTypeOK
  <2>2. /\ thread'[l] = "hello" /\ loadName'[l] = n
        /\ pipe'[l] = Append(pipe[l], m)
    BY <1>1, <1>5 DEF TypeOK, CoreTypeOK
  <2>3. Count(pipe'[l], Refusals(t)) = 0
    <3>1. Count(pipe[l], Refusals(t)) = 0
      BY <2>1, FS_EmptySet DEF Count, Marks
    <3>2. Count(Append(pipe[l], m), Refusals(t)) = Count(pipe[l], Refusals(t)) + 0
      BY <1>3, <2>1, CountBehind
    <3> QED
      BY <2>2, <3>1, <3>2
  <2>4. Count(inPipe, Wants(n, t)) = 0
    <3>1. \A i \in 1..Len(inPipe) : inPipe[i] \notin Wants(n, t)
      BY <1>1 DEF Wants, StatusInv, Asking, n
    <3> QED
      BY <3>1, FS_EmptySet DEF Count, Marks
  <2>5. Count(inPipe', Wants(n, t)) = 0
    <3>1. inPipe \in Seq(Message) /\ inPipe' \in Seq(Message)
      BY DEF TypeOK, CoreTypeOK
    <3>2. Count(inPipe', Wants(n, t)) <= 0 /\ Count(inPipe', Wants(n, t)) \in Nat
      BY <1>2, <2>4, <3>1, CountFewer, CountType DEF Fewer
    <3> QED
      BY <3>2
  <2>6. Held(l, t)' = {}
    <3>1. \A p \in Priorities : registrations[t][p] # n
      BY <1>1, RegistryAssumption DEF RegistrationsAreLive, n
    <3> QED
      BY <1>1, <2>2, <3>1 DEF Held
  <2>7. Open(l, t)' = 0
    BY <2>2, <2>3, <2>5 DEF Open, Wants, Refusals
  <2> QED
    BY <1>1, <1>4, <1>5, <2>2, <2>6, <2>7 DEF SlotStep, Starting
<1>6. CASE l # k
  <2>1. /\ thread'[l] = thread[l] /\ loadName'[l] = loadName[l]
        /\ pipe'[l] = pipe[l]
    BY <1>1, <1>6 DEF TypeOK, CoreTypeOK
  <2>2. IsCurrent(l)' => IsCurrent(l)
    BY <1>1, <1>6, <2>1 DEF IsCurrent, NamedLoads, TypeOK, CoreTypeOK
  <2>3. Calms(l, t)
    BY <1>1, <1>2, <1>4, <2>1, CalmStep DEF Fewer
  <2> QED
    BY <1>4, <2>1, <2>2, <2>3 DEF SlotStep
<1> QED
  BY <1>5, <1>6

(* The core answers a request: it becomes the entry, or a refusal.         *)
LEMMA SlotAfterRegistration ==
  ASSUME TypeOK, TypeOK', NamedLoads, LifeInv, StatusInv,
         AddRegistration, asked' = asked, NEW l \in Loads, NEW t \in Types
  PROVE  SlotStep(l, t)
<1> DEFINE h == Head(inPipe)
           m == RegistrationMessage(
                  IF CanAdd(registrations[h.type], h.priority)
                  THEN "registered" ELSE "refused", NoPlugin, h.type, h.priority)
<1>1. inPipe \in Seq(Message) /\ inPipe' \in Seq(Message)
      /\ \A k \in Loads : pipe[k] \in Seq(Message)
  BY DEF TypeOK, CoreTypeOK
<1>2. /\ inPipe # << >> /\ inPipe' = Tail(inPipe) /\ Current = h
      /\ h \in Message /\ h.kind = "register"
  BY ProcessMoves DEF AddRegistration, Dequeued
<1>3. h.name \in Names /\ h.type \in Types /\ h.priority \in Int
  <2> HIDE DEF h
  <2> QED
    BY <1>2 DEF Message, HasName, HasType
<1>4. m \in Message
  BY <1>3, RegistrationMessageType
<1>5. /\ UNCHANGED <<outPipes, thread, loadName>>
      /\ \/ /\ IsLoaded(h.name)
            /\ registrations' = [registrations EXCEPT ![h.type] =
                                   Add(registrations[h.type], h.priority, h.name)]
            /\ WriteTo(h.name, m)
         \/ ~IsLoaded(h.name) /\ UNCHANGED <<registrations, pipe>>
  BY <1>2 DEF AddRegistration
<1>6. Fewer(inPipe, inPipe', Wants(loadName[l], t))
  BY <1>2 DEF Fewer
<1>7. IsCurrent(l)' => IsCurrent(l)
  BY <1>5 DEF IsCurrent
<1>8. m.kind = (IF CanAdd(registrations[h.type], h.priority)
                THEN "registered" ELSE "refused") /\ m.type = h.type
  BY DEF RegistrationMessage
<1> HIDE DEF h, m
<1>9. CASE UNCHANGED <<registrations, pipe>>
  BY <1>5, <1>6, <1>7, <1>9, CalmCore DEF Fewer
<1>10. CASE IsCurrent(l) /\ loadName[l] = h.name /\ t = h.type
            /\ ~UNCHANGED <<registrations, pipe>>
  <2>1. /\ pipe'[l] = Append(pipe[l], m)
        /\ registrations'[t] = Add(registrations[t], h.priority, loadName[l])
    BY <1>5, <1>10 DEF WriteTo, IsCurrent, TypeOK, CoreTypeOK
  <2>2. Count(inPipe', Wants(loadName[l], t)) = Count(inPipe, Wants(loadName[l], t)) - 1
    <3>1. Head(inPipe) \in Wants(loadName[l], t)
      BY <1>2, <1>10 DEF Wants, h
    <3> QED
      BY <1>1, <1>2, <3>1, CountTaken
  <2>3. /\ Count(inPipe', Wants(loadName[l], t)) \in Nat
        /\ Count(inPipe, Wants(loadName[l], t)) \in Nat
        /\ Count(pipe[l], Refusals(t)) \in Nat
    BY <1>1, CountType
  <2>4. Unregistered(l, t)' <=> Unregistered(l, t)
    BY DEF Unregistered
  <2>5. CASE CanAdd(registrations[t], h.priority)
    <3>1. Count(pipe'[l], Refusals(t)) = Count(pipe[l], Refusals(t))
      <4>1. m \notin Refusals(t)
        BY <1>8, <1>10, <2>5 DEF Refusals
      <4> QED
        BY <1>1, <1>4, <2>1, <2>3, <4>1, CountBehind
    <3>2. Open(l, t) >= 1 /\ Open(l, t)' = Open(l, t) - 1
      BY <1>5, <2>2, <2>3, <3>1 DEF Open, Wants, Refusals
    <3>3. Held(l, t)' \subseteq Held(l, t) \cup {h.priority}
      BY <1>5, <2>1, <2>5 DEF Held, Add, CanAdd, TypeOK, CoreTypeOK, Registries
    <3> QED
      BY <1>5, <1>7, <2>4, <3>2, <3>3, <1>10 DEF SlotStep, Gains
  <2>6. CASE ~CanAdd(registrations[t], h.priority)
    <3>1. Count(pipe'[l], Refusals(t)) = Count(pipe[l], Refusals(t)) + 1
      <4>1. m \in Refusals(t)
        BY <1>4, <1>8, <1>10, <2>6 DEF Refusals
      <4> QED
        BY <1>1, <1>4, <2>1, <4>1, CountBehind
    <3>2. Open(l, t)' <= Open(l, t)
      BY <1>5, <2>2, <2>3, <3>1 DEF Open, Wants, Refusals
    <3>3. Held(l, t)' \subseteq Held(l, t)
      BY <1>5, <2>1, <2>6 DEF Held, Add
    <3> QED
      BY <1>5, <1>7, <2>4, <3>2, <3>3, <1>10 DEF SlotStep, Calms
  <2> QED
    BY <2>5, <2>6
<1>11. CASE ~(IsCurrent(l) /\ loadName[l] = h.name /\ t = h.type)
            /\ ~UNCHANGED <<registrations, pipe>>
  <2>1. \A k \in Loads : pipe'[k] = IF k = outPipes[h.name]
                                    THEN Append(pipe[k], m) ELSE pipe[k]
    <3>1. WriteTo(h.name, m)
      BY <1>5, <1>11
    <3> QED
      BY <3>1 DEF WriteTo, TypeOK, CoreTypeOK
  <2>2. IsCurrent(l) => Fewer(pipe[l], pipe'[l], Refusals(t))
    <3>1. CASE l = outPipes[h.name]
      <4>1. loadName[l] = h.name
        BY <1>3, <1>5, <1>11, <3>1 DEF LifeInv, PipesBelong
      <4>2. IsCurrent(l) => m \notin Refusals(t)
        BY <1>8, <1>11, <4>1 DEF Refusals
      <4> QED
        BY <1>4, <2>1, <3>1, <4>2 DEF Fewer
    <3>2. CASE l # outPipes[h.name]
      BY <2>1, <3>2 DEF Fewer
    <3> QED
      BY <3>1, <3>2
  <2>3. IsCurrent(l) => \A p \in Priorities :
          registrations'[t][p] = loadName[l] => registrations[t][p] = loadName[l]
    <3>1. CASE t # h.type
      BY <1>3, <1>5, <1>11, <3>1 DEF TypeOK, CoreTypeOK
    <3>2. CASE t = h.type
      <4>1. registrations'[t] = Add(registrations[t], h.priority, h.name)
        BY <1>5, <1>11, <3>2 DEF TypeOK, CoreTypeOK
      <4>2. \A p \in Priorities : registrations'[t][p] \in {registrations[t][p], h.name}
        BY <4>1 DEF Add, TypeOK, CoreTypeOK, Registries
      <4> QED
        BY <1>11, <3>2, <4>2
    <3> QED
      BY <3>1, <3>2
  <2> QED
    BY <1>5, <1>6, <1>7, <2>2, <2>3, CalmCore
<1> QED
  BY <1>9, <1>10, <1>11

LEMMA SlotAfterCoreStep ==
  ASSUME TypeOK, TypeOK', NamedLoads, LifeInv, HelloInv, StatusInv,
         RegistrationsAreLive, CoreStep, asked' = asked,
         NEW l \in Loads, NEW t \in Types
  PROVE  SlotStep(l, t)
<1>0. thread[l] # "none" => loadName[l] \in Names
  BY DEF NamedLoads
<1>1. CASE StopCore
  BY <1>1, CalmCore DEF StopCore, Fewer, IsCurrent
<1>2. ASSUME NEW kind, Process(kind)
      PROVE  Fewer(inPipe, inPipe', Wants(loadName[l], t))
  BY <1>2, ProcessMoves DEF Fewer
<1>3. CASE AddPlugin
  <2>1. CASE ~IsLoaded(Current.name) /\ Load(Current.name)
    BY <1>3, <2>1, SlotAfterLoad
  <2>2. CASE UNCHANGED <<outPipes, pipe, thread, loadName>>
    BY <1>2, <1>3, <2>2, CalmCore DEF AddPlugin, Fewer, IsCurrent
  <2> QED
    BY <1>3, <2>1, <2>2 DEF AddPlugin
<1>4. CASE RemovePlugin
  <2>1. IsCurrent(l)' => IsCurrent(l)
    BY <1>0, <1>4, CoreAssumption DEF RemovePlugin, IsCurrent, TypeOK, CoreTypeOK
  <2>2. IsCurrent(l) => \A p \in Priorities :
          registrations'[t][p] = loadName[l] => registrations[t][p] = loadName[l]
    BY <1>0, <1>4, RegistryAssumption DEF RemovePlugin, RemoveAll, IsCurrent
  <2> QED
    BY <1>2, <1>4, <2>1, <2>2, CalmCore DEF RemovePlugin, Fewer
<1>5. CASE AddRegistration
  BY <1>5, SlotAfterRegistration
<1>6. CASE RemoveRegistration
  <2>1. IsCurrent(l) => \A p \in Priorities :
          registrations'[t][p] = loadName[l] => registrations[t][p] = loadName[l]
    BY <1>0, <1>6, RegistryAssumption
       DEF RemoveRegistration, RemoveAll, IsCurrent, TypeOK, CoreTypeOK
  <2> QED
    BY <1>2, <1>6, <2>1, CalmCore DEF RemoveRegistration, Fewer, IsCurrent
<1>7. ASSUME UNCHANGED <<outPipes, registrations, thread, loadName>>,
             NEW kind, Process(kind), NEW m \in Message, m.kind # "refused",
             pipe'[l] \in {pipe[l], Append(pipe[l], m)}
      PROVE  SlotStep(l, t)
  <2>1. Fewer(pipe[l], pipe'[l], Refusals(t))
    BY <1>7 DEF Fewer, Refusals
  <2> QED
    BY <1>2, <1>7, <2>1, CalmCore DEF IsCurrent
<1>8. CASE TargetPlugin
  <2> DEFINE m == DataMessage(Current.type, InitialPriority, Current.data)
  <2>1. m \in Message /\ m.kind # "refused"
    BY <1>8, ProcessType, DataMessageType
       DEF TargetPlugin, DataMessage, TypeOK, Message, HasType
  <2>2. pipe'[l] \in {pipe[l], Append(pipe[l], m)}
    BY <1>8 DEF TargetPlugin, WriteTo, TypeOK, CoreTypeOK
  <2> QED
    BY <1>7, <1>8, <2>1, <2>2 DEF TargetPlugin
<1>9. CASE InitiateShutdown
  <2> DEFINE m == NamedMessage("shutdown", NoPlugin)
  <2>1. m \in Message /\ m.kind # "refused"
    BY NamedMessageType DEF NamedMessage
  <2>2. pipe'[l] \in {pipe[l], Append(pipe[l], m)}
    BY <1>9 DEF InitiateShutdown
  <2> QED
    BY <1>7, <1>9, <2>1, <2>2 DEF InitiateShutdown
<1>10. CASE ToPlugin
  <2>1. Current \in Message /\ Current.kind = "data"
    BY <1>10, ProcessType DEF ToPlugin, TypeOK
  <2>2. CASE UNCHANGED pipe
    BY <1>7, <1>10, <2>1, <2>2 DEF ToPlugin
  <2>3. ASSUME NEW q \in Priorities,
               WriteTo(registrations[Current.type][q], [Current EXCEPT !.priority = q])
        PROVE  SlotStep(l, t)
    <3> DEFINE m == [Current EXCEPT !.priority = q]
    <3>1. m \in Message /\ m.kind # "refused"
      BY <2>1, PriorityChangeType DEF Priorities, Message
    <3> HIDE DEF m
    <3>2. pipe'[l] \in {pipe[l], Append(pipe[l], m)}
      BY <2>3 DEF WriteTo, TypeOK, CoreTypeOK, m
    <3> QED
      BY <1>7, <1>10, <3>1, <3>2 DEF ToPlugin
  <2> QED
    BY <1>10, <2>2, <2>3 DEF ToPlugin
<1> QED
  BY <1>1, <1>3, <1>4, <1>5, <1>6, <1>8, <1>9, <1>10 DEF CoreStep


-------------------------------------------------------------------------------
(* A step of a plugin, in the terms of this section.                       *)
PassesOn(l, m) ==
  /\ pipe[l] # << >> /\ pipe'[l] = Tail(pipe[l]) /\ posted' = posted
  /\ m.kind = "data" /\ m.data = Head(pipe[l]).data
  /\ m.type = Head(pipe[l]).type /\ m.priority = Head(pipe[l]).priority - 1

PostsFirst(m) ==
  /\ m.kind \in {"data", "target"}
  /\ m.data \notin posted /\ posted' = posted \cup {m.data}

Says(l) ==
  /\ \A k \in Loads, t \in Types : Unregistered(k, t)' <=> Unregistered(k, t)
  /\ \/ pipe'[l] = pipe[l]
     \/ pipe[l] # << >> /\ pipe'[l] = Tail(pipe[l])
  /\ \/ inPipe' = inPipe /\ posted' = posted
     \/ \E m \in Message :
          /\ m.kind # "register" /\ inPipe' = Append(inPipe, m)
          /\ \/ m.data \notin Data /\ posted' = posted
             \/ PassesOn(l, m)
             \/ PostsFirst(m)

Requests(l) ==
  /\ thread[l] = "run" /\ thread' = thread /\ posted' = posted
  /\ \E t \in Types : \E m \in Wants(loadName[l], t) :
       /\ m.data \notin Data /\ inPipe' = Append(inPipe, m)
       /\ \/ /\ asked[l][t] = "no" /\ asked' = [asked EXCEPT ![l][t] = "asked"]
             /\ pipe'[l] = pipe[l]
          \/ /\ pipe[l] # << >> /\ Head(pipe[l]) \in Refusals(t)
             /\ pipe'[l] = Tail(pipe[l]) /\ asked' = asked

PluginSpeaks(l) ==
  /\ UNCHANGED <<outPipes, registrations, loadName, deliveries>>
  /\ \A k \in Loads : k # l => pipe'[k] = pipe[k]
  /\ Says(l) \/ Requests(l)

LEMMA PluginStepSpeaks ==
  ASSUME TypeOK, NamedLoads, NEW l \in Loads, PluginStep(l)
  PROVE  PluginSpeaks(l)
<1> USE DEF PluginSpeaks, Unregistered, ToCore
<1>0. /\ thread[l] # "none" => loadName[l] \in Names
      /\ pipe \in [Loads -> Seq(Message)]
      /\ asked \in [Loads -> [Types -> {"no", "asked", "dropped"}]]
  BY DEF NamedLoads, TypeOK, CoreTypeOK
<1>1. CASE ReadHello(l)
  BY <1>0, <1>1 DEF ReadHello, busVars, Says
<1>2. ASSUME NEW m \in Message, m.kind # "register", ToCore(m),
             \/ m.data \notin Data /\ posted' = posted
             \/ PassesOn(l, m)
             \/ PostsFirst(m),
             UNCHANGED <<outPipes, registrations, loadName, deliveries, asked>>,
             \A k \in Loads : k # l => pipe'[k] = pipe[k],
             \/ pipe'[l] = pipe[l]
             \/ pipe[l] # << >> /\ pipe'[l] = Tail(pipe[l])
      PROVE  PluginSpeaks(l)
  BY <1>2 DEF Says
<1>3. ASSUME NEW kind, Take(l, kind)
      PROVE  /\ thread[l] = "run" /\ loadName[l] \in Names
             /\ pipe[l] # << >> /\ pipe'[l] = Tail(pipe[l])
             /\ Head(pipe[l]) \in Message /\ Head(pipe[l]).kind = kind
             /\ \A k \in Loads : k # l => pipe'[k] = pipe[k]
             /\ UNCHANGED <<outPipes, registrations, loadName, deliveries,
                            asked, posted>>
  BY <1>0, <1>3, TakeType DEF Take, TypeOK, CoreTypeOK
<1>4. thread[l] # "none" =>
        LET m == NamedMessage("done", loadName[l])
        IN  m \in Message /\ m.kind # "register" /\ m.data \notin Data
  BY <1>0, NamedMessageType, CoreAssumption DEF NamedMessage
<1>5. CASE RunReturns(l)
  BY <1>2, <1>4, <1>5 DEF RunReturns, SendDone
<1>6. ASSUME NEW t \in Types, NEW p \in RequestPriorities, Register(l, t, p)
      PROVE  PluginSpeaks(l)
  <2> DEFINE m == RegistrationMessage("register", loadName[l], t, p)
  <2>1. m \in Wants(loadName[l], t) /\ m.data \notin Data
    BY <1>0, <1>6, RegistrationMessageType, BusAssumption, CoreAssumption
       DEF Register, RegistrationMessage, Wants
  <2>2. inPipe' = Append(inPipe, m)
    BY <1>6 DEF Register
  <2> HIDE DEF m
  <2>3. Requests(l)
    BY <1>6, <2>1, <2>2 DEF Register, Requests
  <2> QED
    BY <1>6, <2>3 DEF Register
<1>7. ASSUME NEW t \in Types, Unregister(l, t)
      PROVE  PluginSpeaks(l)
  <2> DEFINE m == RegistrationMessage("unregister", loadName[l], t, InitialPriority)
  <2>1. m \in Message /\ m.kind # "register" /\ m.data \notin Data
    BY <1>0, <1>7, RegistrationMessageType, DataMessageType, CoreAssumption
       DEF Unregister, RegistrationMessage
  <2>2. \A k \in Loads, x \in Types : Unregistered(k, x)' <=> Unregistered(k, x)
    BY <1>0, <1>7 DEF Unregister
  <2>3. inPipe' = Append(inPipe, m)
    BY <1>7 DEF Unregister
  <2> HIDE DEF m, Unregistered
  <2>4. Says(l)
    BY <1>7, <2>1, <2>2, <2>3 DEF Unregister, Says
  <2> QED
    BY <1>7, <2>4 DEF Unregister
<1>8. ASSUME NEW t \in Types, NEW d \in Data, Post(l, t, d)
      PROVE  PluginSpeaks(l)
  <2>1. ASSUME NEW m \in Message, m.kind \in {"data", "target"}, m.data = d, ToCore(m)
        PROVE  PluginSpeaks(l)
    BY <1>2, <1>8, <2>1 DEF Post, PostsFirst
  <2>2. /\ DataMessage(t, InitialPriority, d) \in Message
        /\ DataMessage(t, InitialPriority, d).data = d
        /\ DataMessage(t, InitialPriority, d).kind = "data"
        /\ \A n \in Names : TargetMessage(n, t, d) \in Message
                            /\ TargetMessage(n, t, d).data = d
                            /\ TargetMessage(n, t, d).kind = "target"
    BY DataMessageType DEF DataMessage, TargetMessage
  <2> QED
    BY <1>8, <2>1, <2>2 DEF Post
<1>9. ASSUME NEW n \in Names, Add_Plugin(l, n)
      PROVE  PluginSpeaks(l)
  <2>1. /\ NamedMessage("add_plugin", n) \in Message
        /\ NamedMessage("add_plugin", n).kind # "register"
        /\ NamedMessage("add_plugin", n).data \notin Data
    BY NamedMessageType, CoreAssumption DEF NamedMessage
  <2> QED
    BY <1>2, <1>9, <2>1 DEF Add_Plugin
<1>10. CASE Quit(l)
  <2>1. /\ NamedMessage("core_quit", NoPlugin) \in Message
        /\ NamedMessage("core_quit", NoPlugin).kind # "register"
        /\ NamedMessage("core_quit", NoPlugin).data \notin Data
    BY NamedMessageType, CoreAssumption DEF NamedMessage
  <2> QED
    BY <1>2, <1>10, <2>1 DEF Quit
<1>11. CASE Echo(l)
  <2> DEFINE h == Head(pipe[l])
             m == [h EXCEPT !.priority = @ - 1]
  <2>1. Take(l, "data") /\ (inPipe' = inPipe \/ ToCore(m))
    BY <1>11 DEF Echo
  <2>2. h \in Message /\ h.kind = "data"
    BY <1>3, <2>1
  <2> HIDE DEF h
  <2>3. /\ m \in Message /\ m.kind = "data" /\ m.data = h.data
        /\ m.type = h.type /\ m.priority = h.priority - 1
    BY <2>2, EchoedType DEF Message
  <2> HIDE DEF m
  <2>4. PassesOn(l, m)
    BY <1>3, <2>1, <2>3 DEF PassesOn, h
  <2>5. CASE inPipe' = inPipe
    BY <1>3, <2>1, <2>5 DEF Says
  <2>6. CASE ToCore(m)
    BY <1>2, <1>3, <2>1, <2>3, <2>4, <2>6
  <2> QED
    BY <2>1, <2>5, <2>6
<1>12. CASE ReadRegistered(l)
  BY <1>3, <1>12 DEF ReadRegistered, Says
<1>13. CASE ReadShutdown(l)
  <2>1. Take(l, "shutdown") /\ SendDone(l)
    BY <1>13 DEF ReadShutdown
  <2> QED
    BY <1>2, <1>3, <1>4, <2>1 DEF SendDone
<1>14. CASE ReadRefused(l)
  <2> DEFINE h == Head(pipe[l])
             m == RegistrationMessage("register", loadName[l], h.type,
                                      NextTry(loadName[l], h.priority))
  <2>1. /\ Take(l, "refused")
        /\ \/ ToCore(m) /\ thread' = thread
           \/ SendDone(l)
           \/ inPipe' = inPipe /\ thread' = thread
    BY <1>14 DEF ReadRefused
  <2>2. h.type \in Types /\ NextTry(loadName[l], h.priority) \in Int /\ h \in Refusals(h.type)
    BY <1>3, <2>1, RefusedType DEF Refusals
  <2>3. m \in Wants(loadName[l], h.type) /\ m.data \notin Data
    BY <1>3, <2>1, <2>2, RegistrationMessageType, CoreAssumption
       DEF RegistrationMessage, Wants
  <2>4. CASE ToCore(m) /\ thread' = thread
    <3> HIDE DEF m
    <3>1. Requests(l)
      BY <1>3, <2>1, <2>2, <2>3, <2>4 DEF Requests
    <3> QED
      BY <1>3, <2>1, <3>1
  <2>5. CASE SendDone(l)
    BY <1>2, <1>3, <1>4, <2>1, <2>5 DEF SendDone
  <2>6. CASE inPipe' = inPipe /\ thread' = thread
    BY <1>3, <2>1, <2>6 DEF Says
  <2> QED
    BY <2>1, <2>4, <2>5, <2>6
<1> QED
  BY <1>1, <1>5, <1>6, <1>7, <1>8, <1>9, <1>10, <1>11, <1>12, <1>13, <1>14
     DEF PluginStep, HandleMessage

LEMMA SlotAfterPluginStep ==
  ASSUME TypeOK, TypeOK', NamedLoads, LifeInv, NEW l \in Loads, PluginStep(l),
         NEW k \in Loads, NEW t \in Types
  PROVE  SlotStep(k, t)
<1>1. PluginSpeaks(l) /\ PluginEffect(l)
  BY PluginStepSpeaks, PluginStepEffect
<1>2. /\ thread'[k] # thread[k] =>
           thread[k] \in {"hello", "run"} /\ thread'[k] \in {"run", "exited"}
      /\ UNCHANGED <<outPipes, registrations, loadName>>
  BY <1>1 DEF PluginEffect, WritesNoDone, StartsRunning, WritesDone, TypeOK,
              CoreTypeOK
<1>3. IsCurrent(k)' => IsCurrent(k)
  BY <1>2 DEF IsCurrent
<1>4. /\ inPipe \in Seq(Message) /\ inPipe' \in Seq(Message)
      /\ pipe[k] \in Seq(Message) /\ pipe'[k] \in Seq(Message)
      /\ asked \in [Loads -> [Types -> {"no", "asked", "dropped"}]]
  BY DEF TypeOK, CoreTypeOK
<1>5. CASE Says(l)
  <2>1. Unregistered(k, t)' <=> Unregistered(k, t)
    BY <1>5 DEF Says
  <2>2. Fewer(inPipe, inPipe', Wants(loadName[k], t))
    BY <1>5 DEF Says, Fewer, Wants
  <2>3. Fewer(pipe[k], pipe'[k], Refusals(t))
    BY <1>1, <1>5 DEF PluginSpeaks, Says, Fewer
  <2>4. Calms(k, t)
    BY <1>2, <2>1, <2>2, <2>3, CalmStep
  <2> QED
    BY <1>2, <1>3, <2>1, <2>4 DEF SlotStep
<1>6. CASE Requests(l)
  <2>1. thread[l] = "run" /\ thread' = thread /\ IsCurrent(l)
    BY <1>6 DEF Requests, LifeInv, RunningIsLoaded, IsCurrent
  <2>2. PICK x \in Types : \E m \in Wants(loadName[l], x) :
          /\ inPipe' = Append(inPipe, m)
          /\ \/ /\ asked[l][x] = "no" /\ asked' = [asked EXCEPT ![l][x] = "asked"]
                /\ pipe'[l] = pipe[l]
             \/ /\ pipe[l] # << >> /\ Head(pipe[l]) \in Refusals(x)
                /\ pipe'[l] = Tail(pipe[l]) /\ asked' = asked
    BY <1>6 DEF Requests
  <2>3. PICK m \in Wants(loadName[l], x) :
          /\ inPipe' = Append(inPipe, m)
          /\ \/ /\ asked[l][x] = "no" /\ asked' = [asked EXCEPT ![l][x] = "asked"]
                /\ pipe'[l] = pipe[l]
             \/ /\ pipe[l] # << >> /\ Head(pipe[l]) \in Refusals(x)
                /\ pipe'[l] = Tail(pipe[l]) /\ asked' = asked
    BY <2>2
  <2>4. m \in Message
    BY DEF Wants
  <2>5. CASE k = l /\ t = x
    <3>1. Count(inPipe', Wants(loadName[k], t)) = Count(inPipe, Wants(loadName[k], t)) + 1
      BY <1>4, <2>3, <2>4, <2>5, CountBehind
    <3>2. /\ Count(inPipe, Wants(loadName[k], t)) \in Nat
          /\ Count(pipe[k], Refusals(t)) \in Nat
      BY <1>4, CountType
    <3>3. Held(k, t)' \subseteq Held(k, t)
      BY <1>2 DEF Held
    <3>4. CASE asked[l][x] = "no" /\ asked' = [asked EXCEPT ![l][x] = "asked"]
               /\ pipe'[l] = pipe[l]
      <4>1. Open(k, t)' = Open(k, t) + 1
        BY <1>2, <2>5, <3>1, <3>2, <3>4 DEF Open, Wants, Refusals
      <4>2. Unregistered(k, t) /\ ~Unregistered(k, t)'
        BY <1>4, <2>5, <3>4 DEF Unregistered
      <4> QED
        BY <1>3, <2>1, <2>5, <3>3, <4>1, <4>2 DEF SlotStep, Asks
    <3>5. CASE pipe[l] # << >> /\ Head(pipe[l]) \in Refusals(x)
               /\ pipe'[l] = Tail(pipe[l]) /\ asked' = asked
      <4>1. Count(pipe'[k], Refusals(t)) = Count(pipe[k], Refusals(t)) - 1
        BY <1>4, <2>5, <3>5, CountTaken
      <4>2. Open(k, t)' <= Open(k, t)
        BY <1>2, <2>5, <3>1, <3>2, <4>1 DEF Open, Wants, Refusals
      <4>3. Unregistered(k, t)' <=> Unregistered(k, t)
        BY <3>5 DEF Unregistered
      <4> QED
        BY <1>2, <1>3, <3>3, <4>2, <4>3 DEF SlotStep, Calms
    <3> QED
      BY <2>3, <3>4, <3>5
  <2>6. CASE ~(k = l /\ t = x)
    <3>1. Unregistered(k, t)' <=> Unregistered(k, t)
      BY <1>4, <2>3, <2>6 DEF Unregistered
    <3>2. IsCurrent(k) => m \notin Wants(loadName[k], t)
      BY <2>1, <2>6 DEF Wants, IsCurrent
    <3>3. IsCurrent(k) => Fewer(inPipe, inPipe', Wants(loadName[k], t))
      BY <2>3, <2>4, <3>2 DEF Fewer
    <3>4. Fewer(pipe[k], pipe'[k], Refusals(t))
      BY <1>1, <2>3 DEF PluginSpeaks, Fewer
    <3>5. IsCurrent(k) => Calms(k, t)
      BY <1>2, <3>1, <3>3, <3>4, CalmStep
    <3> QED
      BY <1>2, <1>3, <3>1, <3>5 DEF SlotStep
  <2> QED
    BY <2>5, <2>6
<1> QED
  BY <1>1, <1>5, <1>6 DEF PluginSpeaks

LEMMA SlotAfterAnyStep ==
  ASSUME TypeOK, TypeOK', NamedLoads, LifeInv, HelloInv, StatusInv,
         RegistrationsAreLive, [Next]_vars, NEW l \in Loads, NEW t \in Types
  PROVE  SlotStep(l, t)
<1>1. CASE BusCoreStep
  BY <1>1, SlotAfterCoreStep DEF BusCoreStep
<1>2. ASSUME NEW k \in Loads, PluginStep(k)
      PROVE  SlotStep(l, t)
  BY <1>2, SlotAfterPluginStep
<1>3. CASE UNCHANGED vars
  BY <1>3, CalmCore DEF vars, coreVars, busVars, Fewer, IsCurrent
<1> QED
  BY <1>1, <1>2, <1>3 DEF Next


-------------------------------------------------------------------------------
(* Where a message is, seen with its deliveries: on its way to the core it *)
(* is below all of them, in a pipe not above; and a plugin that has had it *)
(* from the registry sits at the priority it had it at.                    *)
Fits(m, e) ==
  e.priority = InitialPriority \/ Granted(e.load, m.type, e.priority)

Below(m, d) ==
  /\ m.kind \in {"data", "target"}
  /\ m.kind = "target" => deliveries[d] = {}
  /\ \A e \in deliveries[d] : m.priority < e.priority /\ Fits(m, e)

NotAbove(m, d) ==
  /\ m.kind = "data"
  /\ \A e \in deliveries[d] : m.priority <= e.priority /\ Fits(m, e)

Carries(s, d, m) == \E i \in CopiesIn(s, d) : s[i] = m

Handed(d) ==
  /\ d \notin posted => deliveries[d] = {}
  /\ \A m \in Message :
       /\ Carries(inPipe, d, m) => Below(m, d)
       /\ \A l \in Loads : Carries(pipe[l], d, m) => NotAbove(m, d)

PassInv == SlotInv /\ \A d \in Data : Handed(d)

(* What the core writes: a message with a payload comes from in_pipe.      *)
Targeted(m) ==
  /\ Dequeued("target")
  /\ m.priority = InitialPriority

Routed(l, m) ==
  /\ Dequeued("data")
  /\ m.priority \in Held(l, m.type) /\ m.priority <= Head(inPipe).priority
  /\ IsCurrent(l)

Brings(l, m) ==
  /\ inPipe # << >> /\ inPipe' = Tail(inPipe)
  /\ m.kind = "data"
  /\ m.data = Head(inPipe).data /\ m.type = Head(inPipe).type
  /\ m.type \in Types
  /\ Targeted(m) \/ Routed(l, m)

LEMMA CoreStepBrings ==
  ASSUME TypeOK, NamedLoads, LifeInv, CoreStep, NEW l \in Loads
  PROVE  \/ pipe'[l] = pipe[l]
         \/ \E m \in Message : /\ pipe'[l] = Append(pipe[l], m)
                               /\ m.data \notin Data \/ Brings(l, m)
<1> USE DEF TypeOK, CoreTypeOK
<1>1. CASE UNCHANGED pipe
  BY <1>1
<1>2. CASE AddPlugin
  <2>1. Current.name \in Names
    BY <1>2, ProcessType DEF AddPlugin, Message, HasName
  <2>2. CASE Load(Current.name)
    <3> DEFINE m == NamedMessage("hello", Current.name)
    <3>1. m \in Message /\ m.data \notin Data
      BY <2>1, NamedMessageType, CoreAssumption DEF NamedMessage
    <3>2. pipe'[l] = pipe[l] \/ pipe'[l] = Append(pipe[l], m)
      BY <2>2 DEF Load, NextLoad
    <3> QED
      BY <3>1, <3>2
  <2> QED
    BY <1>1, <1>2, <2>2 DEF AddPlugin
<1>3. CASE AddRegistration
  <2> DEFINE m == RegistrationMessage(
               IF CanAdd(registrations[Current.type], Current.priority)
               THEN "registered" ELSE "refused",
               NoPlugin, Current.type, Current.priority)
  <2>1. Current.type \in Types /\ Current.priority \in Int
    BY <1>3, ProcessType DEF AddRegistration, Message, HasName, HasType
  <2>2. m \in Message /\ m.data \notin Data
    BY <2>1, RegistrationMessageType, CoreAssumption DEF RegistrationMessage
  <2>3. UNCHANGED pipe \/ WriteTo(Current.name, m)
    BY <1>3 DEF AddRegistration
  <2> QED
    BY <1>1, <2>2, <2>3 DEF WriteTo
<1>4. CASE TargetPlugin
  <2> DEFINE m == DataMessage(Current.type, InitialPriority, Current.data)
  <2>1. /\ Current.type \in Types /\ Current.data \in Data \cup {NoData}
    BY <1>4, ProcessType DEF TargetPlugin, Message, HasType
  <2>2. Dequeued("target") /\ Current = Head(inPipe)
    BY <1>4, ProcessMoves DEF TargetPlugin
  <2>3. /\ m \in Message /\ m.kind = "data" /\ m.data = Head(inPipe).data
        /\ m.type = Head(inPipe).type /\ m.priority = InitialPriority
        /\ m.type \in Types
    BY <2>1, <2>2, DataMessageType DEF DataMessage
  <2> HIDE DEF m
  <2>4. Brings(l, m)
    BY <2>2, <2>3 DEF Brings, Targeted, Dequeued
  <2>5. UNCHANGED pipe \/ WriteTo(Current.name, m)
    BY <1>4 DEF TargetPlugin, m
  <2> QED
    BY <1>1, <2>3, <2>4, <2>5 DEF WriteTo
<1>5. CASE InitiateShutdown
  <2> DEFINE m == NamedMessage("shutdown", NoPlugin)
  <2>1. m \in Message /\ m.data \notin Data
    BY NamedMessageType, CoreAssumption DEF NamedMessage
  <2>2. pipe'[l] = pipe[l] \/ pipe'[l] = Append(pipe[l], m)
    BY <1>5 DEF InitiateShutdown
  <2> QED
    BY <2>1, <2>2
<1>6. CASE ToPlugin
  <2> DEFINE h == Head(inPipe)
  <2>1. /\ Dequeued("data") /\ Current = h /\ h \in Message /\ h.kind = "data"
    BY <1>6, ProcessMoves DEF ToPlugin, Dequeued
  <2> HIDE DEF h
  <2>2. h.type \in Types
    BY <2>1 DEF Message, HasType
  <2>3. ASSUME NEW q \in Priorities, Receives(q, h),
               WriteTo(registrations[h.type][q], [h EXCEPT !.priority = q])
        PROVE  \/ pipe'[l] = pipe[l]
               \/ \E m \in Message : pipe'[l] = Append(pipe[l], m) /\ Brings(l, m)
    <3> DEFINE m == [h EXCEPT !.priority = q]
    <3>1. /\ m \in Message /\ m.kind = "data" /\ m.data = h.data
          /\ m.type = h.type /\ m.priority = q
      <4>1. m \in Message /\ q \in Int
        BY <2>1, PriorityChangeType DEF Priorities
      <4> QED
        BY <2>1, <4>1 DEF Message
    <3> HIDE DEF m
    <3>2. pipe'[l] = IF l = outPipes[registrations[h.type][q]]
                     THEN Append(pipe[l], m) ELSE pipe[l]
      BY <2>3 DEF WriteTo, m
    <3>3. CASE l = outPipes[registrations[h.type][q]]
      <4> DEFINE n == registrations[h.type][q]
      <4>1. n \in Names /\ q <= h.priority /\ IsLoaded(n)
        BY <2>2, <2>3 DEF Receives, IsNext, AtMost, RegisteredAt, Registries
      <4>2. thread[l] # "none" /\ loadName[l] = n
        BY <3>3, <4>1 DEF LifeInv, PipesBelong
      <4>3. Routed(l, m)
        BY <2>1, <3>1, <3>3, <4>1, <4>2 DEF Routed, Held, IsCurrent, h
      <4>4. Brings(l, m)
        BY <2>1, <2>2, <3>1, <4>3 DEF Brings, Dequeued, h
      <4> QED
        BY <3>1, <3>2, <3>3, <4>4
    <3> QED
      BY <3>2, <3>3
  <2>4. UNCHANGED pipe \/ \E q \in Priorities :
          /\ Receives(q, h)
          /\ WriteTo(registrations[h.type][q], [h EXCEPT !.priority = q])
    BY <1>6, <2>1 DEF ToPlugin
  <2> QED
    BY <2>3, <2>4
<1> QED
  BY <1>1, <1>2, <1>3, <1>4, <1>5, <1>6
     DEF CoreStep, StopCore, RemovePlugin, RemoveRegistration

(* A delivery is the message the core has brought.                         *)
LEMMA DeliveredIsBrought ==
  ASSUME TypeOK, TypeOK', NamedLoads, LifeInv, CoreStep, NEW l \in Loads,
         NEW d \in Data
  PROVE  Delivered(l, d) <=>
           \E m \in Message : /\ pipe'[l] = Append(pipe[l], m) /\ LastWritten(l) = m
                              /\ m.data = d /\ Brings(l, m)
<1>1. pipe[l] \in Seq(Message) /\ pipe'[l] \in Seq(Message)
  BY DEF TypeOK, CoreTypeOK
<1>2. CASE pipe'[l] = pipe[l]
  <2>1. Len(pipe'[l]) = Len(pipe[l]) /\ Len(pipe[l]) \in Nat
    BY <1>1, <1>2
  <2>2. \A m \in Message : Len(Append(pipe[l], m)) = Len(pipe[l]) + 1
    BY <1>1
  <2> QED
    BY <1>2, <2>1, <2>2 DEF Delivered
<1>3. ASSUME NEW m \in Message, pipe'[l] = Append(pipe[l], m),
             m.data \notin Data \/ Brings(l, m)
      PROVE  Delivered(l, d) <=>
               \E x \in Message : /\ pipe'[l] = Append(pipe[l], x)
                                  /\ LastWritten(l) = x
                                  /\ x.data = d /\ Brings(l, x)
  <2>1. Len(pipe'[l]) > Len(pipe[l]) /\ LastWritten(l) = m
    BY <1>1, <1>3 DEF LastWritten
  <2>2. Delivered(l, d) <=> m.kind = "data" /\ m.data = d
    BY <2>1 DEF Delivered
  <2>3. Brings(l, m) => m.kind = "data"
    BY DEF Brings
  <2> QED
    BY <1>3, <2>1, <2>2, <2>3
<1> QED
  BY <1>2, <1>3, CoreStepBrings

LEMMA FitsStays ==
  ASSUME TypeOK, TypeOK', \A l \in Loads, t \in Types : SlotStep(l, t),
         NEW d \in Data, NEW e \in deliveries[d], NEW m, m.type \in Types,
         Fits(m, e)
  PROVE  Fits(m, e)'
<1>1. e.load \in Loads
  BY DEF TypeOK
<1> QED
  BY <1>1, GrantedStays DEF Fits


(* What a queue carries after a step: what it had, or what is put behind.  *)
LEMMA CarriesAfter ==
  ASSUME NEW s \in Seq(Message), NEW s2, NEW d, NEW x, Carries(s2, d, x),
         \/ s2 = s
         \/ s # << >> /\ s2 = Tail(s)
         \/ \E m \in Message : s2 = Append(s, m)
  PROVE  \/ Carries(s, d, x)
         \/ /\ x \in Message /\ x.data = d /\ s2 = Append(s, x)
            /\ ~(s2 = s \/ (s # << >> /\ s2 = Tail(s)))
<1>1. PICK i \in CopiesIn(s2, d) : s2[i] = x
  BY DEF Carries
<1>2. CASE s2 = s
  BY <1>2
<1>3. CASE s # << >> /\ s2 = Tail(s)
  <2>1. i + 1 \in CopiesIn(s, d) /\ s2[i] = s[i + 1]
    BY <1>3, TailElements DEF CopiesIn
  <2> QED
    BY <1>1, <2>1 DEF Carries
<1>4. ASSUME NEW m \in Message, s2 = Append(s, m)
      PROVE  Carries(s, d, x) \/ (x \in Message /\ x.data = d /\ s2 = Append(s, x))
  <2>1. \/ i \in CopiesIn(s, d) /\ s2[i] = s[i]
        \/ s2[i] = m /\ m.data = d
    BY <1>4, AppendedElements DEF CopiesIn
  <2> QED
    BY <1>1, <1>4, <2>1 DEF Carries
<1>5. CASE ~(s2 = s \/ (s # << >> /\ s2 = Tail(s)))
  BY <1>4, <1>5
<1> QED
  BY <1>2, <1>3, <1>5

LEMMA AppendOnce ==
  ASSUME NEW s \in Seq(Message), NEW m \in Message
  PROVE  Append(s, m) # s /\ \A x \in Message : Append(s, x) = Append(s, m) => x = m
<1>1. \A x \in Message : /\ Len(Append(s, x)) = Len(s) + 1
                        /\ Append(s, x)[Len(s) + 1] = x
  OBVIOUS
<1>2. Len(s) \in Nat
  OBVIOUS
<1>3. Len(Append(s, m)) # Len(s)
  BY <1>1, <1>2
<1> QED
  BY <1>1, <1>3

LEMMA CarriedBehind ==
  ASSUME NEW s \in Seq(Message), NEW m \in Message, NEW d, NEW x,
         ~Carries(s, d, x), Carries(Append(s, m), d, x)
  PROVE  x = m
<1>1. x \in Message /\ Append(s, m) = Append(s, x)
  BY CarriesAfter
<1> QED
  BY <1>1, AppendOnce

LEMMA HeadCarried ==
  ASSUME NEW s \in Seq(Message), s # << >>, NEW d, Head(s).data = d
  PROVE  Carries(s, d, Head(s))
<1>1. 1 \in CopiesIn(s, d) /\ s[1] = Head(s)
  BY DEF CopiesIn
<1> QED
  BY <1>1 DEF Carries

LEMMA BelowStays ==
  ASSUME TypeOK, TypeOK', \A l \in Loads, t \in Types : SlotStep(l, t),
         NEW d \in Data, deliveries'[d] = deliveries[d], NEW m \in Message
  PROVE  /\ Below(m, d) => Below(m, d)'
         /\ NotAbove(m, d) => NotAbove(m, d)'
<1>1. m.kind \in {"data", "target"} => m.type \in Types
  BY DEF Message, HasType
<1> QED
  BY <1>1, FitsStays DEF Below, NotAbove

LEMMA HandedAfterPluginStep ==
  ASSUME TypeOK, TypeOK', NamedLoads,
         \A l \in Loads, t \in Types : SlotStep(l, t),
         NEW d \in Data, Handed(d), NEW l \in Loads, PluginStep(l)
  PROVE  Handed(d)'
<1>1. PluginSpeaks(l) /\ deliveries' = deliveries
  BY PluginStepSpeaks DEF PluginSpeaks
<1>2. /\ inPipe \in Seq(Message) /\ \A k \in Loads : pipe[k] \in Seq(Message)
  BY DEF TypeOK, CoreTypeOK
<1>3. \A x \in Message :
        /\ Carries(inPipe, d, x) => Below(x, d)'
        /\ \A k \in Loads : Carries(pipe[k], d, x) => NotAbove(x, d)'
  BY <1>1, BelowStays DEF Handed
<1>4. ASSUME NEW k \in Loads, NEW x \in Message, Carries(pipe'[k], d, x)
      PROVE  NotAbove(x, d)'
  <2>1. pipe'[k] = pipe[k] \/ (pipe[k] # << >> /\ pipe'[k] = Tail(pipe[k]))
    BY <1>1 DEF PluginSpeaks, Says, Requests
  <2>2. Carries(pipe[k], d, x)
    BY <1>2, <1>4, <2>1, CarriesAfter
  <2> QED
    BY <1>3, <2>2
<1>5. ASSUME NEW m \in Message, inPipe' = Append(inPipe, m), m.data = d
      PROVE  Below(m, d)'
  <2>1. PassesOn(l, m) \/ PostsFirst(m)
    BY <1>1, <1>2, <1>5, AppendOnce DEF PluginSpeaks, Says, Requests, Wants
  <2>2. CASE PostsFirst(m)
    BY <1>1, <1>5, <2>2 DEF PostsFirst, Handed, Below
  <2>3. CASE PassesOn(l, m)
    <3> DEFINE h == Head(pipe[l])
    <3>1. /\ h \in Message /\ m.kind = "data" /\ h.data = d
          /\ m.type = h.type /\ m.priority = h.priority - 1
      BY <1>2, <1>5, <2>3 DEF PassesOn
    <3>2. NotAbove(h, d)
      BY <1>2, <2>3, <3>1, HeadCarried DEF PassesOn, Handed
    <3> HIDE DEF h
    <3>3. h.priority \in Int /\ \A e \in deliveries[d] : e.priority \in Int
      BY <3>1 DEF Message, TypeOK
    <3>4. Below(m, d)
      BY <3>1, <3>2, <3>3 DEF NotAbove, Below, Fits
    <3> QED
      BY <1>1, <3>4, BelowStays
  <2> QED
    BY <2>1, <2>2, <2>3
<1>6. ASSUME NEW x \in Message, Carries(inPipe', d, x)
      PROVE  Below(x, d)'
  <2>1. inPipe' = inPipe \/ \E m \in Message : inPipe' = Append(inPipe, m)
    BY <1>1 DEF PluginSpeaks, Says, Requests, Wants
  <2>2. \/ Carries(inPipe, d, x)
        \/ inPipe' = Append(inPipe, x) /\ x.data = d
    BY <1>2, <1>6, <2>1, CarriesAfter
  <2> QED
    BY <1>3, <1>5, <2>2
<1>7. d \notin posted' => deliveries'[d] = {}
  BY <1>1 DEF PluginSpeaks, Says, Requests, PassesOn, PostsFirst, Handed
<1> QED
  BY <1>4, <1>6, <1>7 DEF Handed

(* The core hands the message to a plugin: it leaves in_pipe, and is in no *)
(* other pipe.                                                             *)
LEMMA HandedAfterDelivery ==
  ASSUME TypeOK, TypeOK', NamedLoads, LifeInv, SlotInv,
         \A l \in Loads, t \in Types : SlotStep(l, t),
         NEW d \in Data, Alone(d), Handed(d), BusCoreStep,
         NEW l \in Loads, NEW m \in Message, pipe'[l] = Append(pipe[l], m),
         m.data = d, Brings(l, m), LastWritten(l) = m
  PROVE  Handed(d)'
<1> DEFINE h == Head(inPipe)
           new == [load |-> l, priority |-> m.priority]
<1>1. inPipe \in Seq(Message) /\ \A k \in Loads : pipe[k] \in Seq(Message)
  BY DEF TypeOK, CoreTypeOK
<1>2. /\ inPipe # << >> /\ inPipe' = Tail(inPipe) /\ h.data = d /\ h \in Message
      /\ h.type = m.type /\ h.type \in Types /\ m.kind = "data"
  BY <1>1 DEF Brings
<1>3. Has(inPipe, d) /\ Below(h, d)
  BY <1>1, <1>2, HeadCarried DEF Handed, Carries, Has
<1>4. \A x : ~Carries(inPipe', d, x)
  BY <1>1, <1>2, CopiesTaken DEF Alone, Has, Carries
<1>5. \A k \in Loads : \A x : ~Carries(pipe[k], d, x)
  BY <1>3 DEF Alone, Has, Carries
<1>6. \A k \in Loads : k # l => pipe'[k] = pipe[k]
  <2>1. CoreMoves
    BY CoreStepMoves DEF BusCoreStep
  <2>2. pipe'[l] # pipe[l]
    BY <1>1, AppendOnce
  <2>3. PICK x \in Message : pipe'[l] = Append(pipe[l], x)
                             /\ (x.data \notin Data \/ Moved(l, x))
    BY <2>1, <2>2 DEF CoreMoves
  <2>4. x = m
    BY <1>1, <2>3, AppendOnce
  <2> QED
    BY <2>3, <2>4 DEF Moved
<1>7. \A k \in Loads : Delivered(k, d) <=> k = l
  <2>1. \A k \in Loads : ~(Len(pipe[k]) > Len(pipe[k]))
    BY <1>1
  <2>2. Delivered(l, d)
    BY DeliveredIsBrought DEF BusCoreStep
  <2> QED
    BY <1>6, <2>1, <2>2 DEF Delivered
<1>8. deliveries'[d] = deliveries[d] \cup {new}
  BY <1>7 DEF BusCoreStep
<1> HIDE DEF h
<1>9. h.priority \in Int /\ m.priority \in Int
      /\ \A e \in deliveries[d] : e.priority \in Int
  BY <1>2 DEF Message, TypeOK
<1>10. \A e \in deliveries[d] : m.priority <= e.priority /\ Fits(m, e)'
  <2>1. \A e \in deliveries[d] : m.priority <= e.priority /\ Fits(m, e)
    <3>1. CASE Targeted(m)
      BY <1>3, <3>1 DEF Targeted, Dequeued, Below, h
    <3>2. CASE Routed(l, m)
      <4>1. m.priority <= h.priority
        BY <3>2 DEF Routed, h
      <4> QED
        BY <1>2, <1>3, <1>9, <4>1 DEF Below, Fits
    <3> QED
      BY <3>1, <3>2 DEF Brings
  <2> QED
    BY <1>2, <2>1, FitsStays
<1>11. new.priority = InitialPriority \/ Granted(l, m.type, m.priority)'
  <2>1. CASE Targeted(m)
    BY <2>1 DEF Targeted
  <2>2. CASE Routed(l, m)
    <3>1. Granted(l, m.type, m.priority)
      BY <1>2, <2>2, GrantedNow DEF Routed
    <3> QED
      BY <1>2, <3>1, GrantedStays
  <2> QED
    BY <2>1, <2>2 DEF Brings
<1>12. NotAbove(m, d)'
  BY <1>2, <1>8, <1>9, <1>10, <1>11 DEF NotAbove, Fits
<1>13. \A k \in Loads : \A x : Carries(pipe'[k], d, x) => x = m
  <2> SUFFICES ASSUME NEW k \in Loads, NEW x, Carries(pipe'[k], d, x)
               PROVE  x = m
    OBVIOUS
  <2>1. k = l
    BY <1>5, <1>6
  <2> QED
    BY <1>1, <1>5, <2>1, CarriedBehind
<1>14. d \in posted'
  BY <1>3 DEF BusCoreStep, Alone
<1> QED
  BY <1>4, <1>12, <1>13, <1>14 DEF Handed

LEMMA HandedAfterCoreStep ==
  ASSUME TypeOK, TypeOK', NamedLoads, LifeInv, SlotInv,
         \A l \in Loads, t \in Types : SlotStep(l, t),
         NEW d \in Data, Alone(d), Handed(d), BusCoreStep
  PROVE  Handed(d)'
<1>1. inPipe \in Seq(Message) /\ \A l \in Loads : pipe[l] \in Seq(Message)
  BY DEF TypeOK, CoreTypeOK
<1>2. ASSUME NEW l \in Loads, Delivered(l, d)
      PROVE  Handed(d)'
  BY <1>2, DeliveredIsBrought, HandedAfterDelivery DEF BusCoreStep
<1>3. CASE \A l \in Loads : ~Delivered(l, d)
  <2>1. deliveries'[d] = deliveries[d] /\ posted' = posted
    BY <1>3 DEF BusCoreStep
  <2>2. inPipe' = inPipe \/ (inPipe # << >> /\ inPipe' = Tail(inPipe))
    BY CoreStepMoves DEF BusCoreStep, CoreMoves
  <2>3. \A x \in Message :
          /\ Carries(inPipe, d, x) => Below(x, d)'
          /\ \A l \in Loads : Carries(pipe[l], d, x) => NotAbove(x, d)'
    BY <2>1, BelowStays DEF Handed
  <2>4. \A x : Carries(inPipe', d, x) => Carries(inPipe, d, x)
    BY <1>1, <2>2, CarriesAfter
  <2>5. ASSUME NEW l \in Loads, NEW x, Carries(pipe'[l], d, x)
        PROVE  Carries(pipe[l], d, x)
    <3>1. ASSUME NEW m \in Message, pipe'[l] = Append(pipe[l], m),
                 m.data \notin Data \/ Brings(l, m)
          PROVE  m.data # d
      <4>1. LastWritten(l) = m
        BY <1>1, <3>1 DEF LastWritten
      <4> QED
        BY <1>3, <3>1, <4>1, DeliveredIsBrought DEF BusCoreStep
    <3> QED
      BY <1>1, <2>5, <3>1, CoreStepBrings, CarriesAfter DEF BusCoreStep
  <2> QED
    BY <2>1, <2>3, <2>4, <2>5 DEF Handed
<1> QED
  BY <1>2, <1>3

LEMMA PassInvariant == Spec => []PassInv
<1>1. Init => PassInv
  <2> SUFFICES ASSUME Init PROVE PassInv
    OBVIOUS
  <2>1. SlotInv
    BY DEF Init, CoreInit, SlotInv, Unregistered, IsCurrent
  <2>2. \A d \in Data : Handed(d)
    BY DEF Init, CoreInit, Handed, Carries, CopiesIn
  <2> QED
    BY <2>1, <2>2 DEF PassInv
<1>2. TypeOK /\ TypeOK' /\ NamedLoads /\ LifeInv /\ HelloInv /\ StatusInv
      /\ RegistrationsAreLive /\ CopyInv /\ PassInv /\ [Next]_vars
        => PassInv'
  <2> SUFFICES ASSUME TypeOK, TypeOK', NamedLoads, LifeInv, HelloInv, StatusInv,
                      RegistrationsAreLive, CopyInv, PassInv, [Next]_vars
               PROVE  PassInv'
    OBVIOUS
  <2>1. \A l \in Loads, t \in Types : SlotStep(l, t)
    BY SlotAfterAnyStep
  <2>2. SlotInv'
    BY <2>1, SlotAfterStep DEF SlotInv, PassInv
  <2>3. ASSUME NEW d \in Data
        PROVE  Handed(d)'
    <3>1. Alone(d) /\ Handed(d) /\ SlotInv
      BY DEF CopyInv, PassInv
    <3>2. CASE BusCoreStep
      BY <2>1, <3>1, <3>2, HandedAfterCoreStep
    <3>3. ASSUME NEW l \in Loads, PluginStep(l)
          PROVE  Handed(d)'
      BY <2>1, <3>1, <3>3, HandedAfterPluginStep
    <3>4. CASE UNCHANGED vars
      BY <3>1, <3>4
         DEF vars, coreVars, busVars, Handed, Below, NotAbove, Fits, Granted,
             IsCurrent, Unregistered, Open, Held
    <3> QED
      BY <3>2, <3>3, <3>4 DEF Next
  <2> QED
    BY <2>2, <2>3 DEF PassInv
<1> QED
  BY <1>1, <1>2, TypesInvariant, LifeInvariant, HelloInvariant, StatusInvariant,
     RegisteredPluginsAreLoaded, CopyInvariant, PTL DEF Spec

(* However plugins register, unregister, exit and are started again while  *)
(* a message is under way: its deliveries fall strictly, and no load gets  *)
(* it twice from the registry, for any plugins, types and priorities.      *)
THEOREM MessagesPassDownOnce == Spec => PassedDownOnce
<1>1. ASSUME TypeOK, TypeOK', NamedLoads, LifeInv, PassInv, [Next]_vars,
             NEW d \in Data, NEW l \in Loads, Delivered(l, d), NEW e \in deliveries[d]
      PROVE  /\ LastWritten(l).priority < e.priority
             /\ e.load = l => e.priority = InitialPriority
  <2>1. BusCoreStep
    <3>1. pipe[l] \in Seq(Message)
      BY <1>1 DEF TypeOK, CoreTypeOK
    <3>2. ~UNCHANGED vars
      BY <1>1, <3>1 DEF vars, coreVars, Delivered
    <3>3. \A k \in Loads : ~PluginStep(k)
      <4>1. ASSUME NEW k \in Loads, PluginStep(k)
            PROVE  pipe'[l] = pipe[l] \/ (pipe[l] # << >> /\ pipe'[l] = Tail(pipe[l]))
        BY <1>1, <4>1, PluginStepMoves DEF PluginMoves
      <4>2. ~(Len(pipe[l]) > Len(pipe[l]))
            /\ (pipe[l] # << >> => ~(Len(Tail(pipe[l])) > Len(pipe[l])))
        BY <3>1
      <4> QED
        BY <1>1, <4>1, <4>2 DEF Delivered
    <3> QED
      BY <1>1, <3>2, <3>3 DEF Next
  <2>2. PICK m \in Message : /\ LastWritten(l) = m /\ m.data = d /\ Brings(l, m)
    BY <1>1, <2>1, DeliveredIsBrought DEF BusCoreStep
  <2> DEFINE h == Head(inPipe)
  <2>3. /\ inPipe \in Seq(Message) /\ inPipe # << >> /\ h \in Message
        /\ h.data = d /\ m.type = h.type /\ m.type \in Types
    BY <1>1, <2>2 DEF TypeOK, CoreTypeOK, Brings
  <2>5. Below(h, d)
    BY <1>1, <2>3, HeadCarried DEF PassInv, Handed
  <2>6. CASE Targeted(m)
    BY <1>1, <2>5, <2>6 DEF Targeted, Dequeued, Below
  <2>7. CASE Routed(l, m)
    <3>1. m.priority <= h.priority /\ h.priority < e.priority /\ Fits(h, e)
      BY <1>1, <2>5, <2>7 DEF Below, Routed
    <3> HIDE DEF h
    <3>2. h.priority \in Int /\ m.priority \in Int /\ e.priority \in Int
      BY <1>1, <2>3 DEF Message, TypeOK
    <3>3. e.load = l /\ e.priority # InitialPriority => m.priority = e.priority
      BY <2>3, <2>7, <3>1 DEF Fits, Granted, Routed
    <3> QED
      BY <2>2, <3>1, <3>2, <3>3
  <2> QED
    BY <2>2, <2>6, <2>7 DEF Brings
<1>2. TypeOK /\ TypeOK' /\ NamedLoads /\ LifeInv /\ PassInv /\ [Next]_vars
        => [\A d \in Data, l \in Loads : Delivered(l, d) =>
              \A e \in deliveries[d] :
                /\ LastWritten(l).priority < e.priority
                /\ e.load = l => e.priority = InitialPriority]_vars
  BY <1>1
<1> QED
  BY <1>2, TypesInvariant, LifeInvariant, PassInvariant, PTL
     DEF Spec, PassedDownOnce

===============================================================================
