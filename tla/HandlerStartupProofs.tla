-------------------------- MODULE HandlerStartupProofs --------------------------
(***************************************************************************)
(* Theorems about the start of a client, for any priorities, number of     *)
(* retries, loads, and order in which plugins are added.                   *)
(***************************************************************************)
EXTENDS HandlerStartup, TLAPS

-------------------------------------------------------------------------------
(* The antenna asks for priorities from the middle up, quip and userlist   *)
(* for priorities from there down.                                         *)
Fits(n, p) ==
  /\ n = Antenna => p >= MiddlePriority
  /\ n \in {Quip, Userlist} => p <= MiddlePriority

(* What is written to the core: requests fit, handlers have a command.     *)
SoundMessage ==
  {m \in Message :
     /\ m.kind = "register" => Fits(m.name, m.priority)
     /\ m.kind \in {"data", "target"} /\ m.type = RegisterHandler => m.data \in Data}

(* What the core writes to the plugin n.                                   *)
Arrivals(n) ==
  {m \in Message :
     /\ m.kind \in {"hello", "shutdown", "registered", "refused", "data"}
     /\ m.kind = "refused" => Fits(n, m.priority)
     /\ m.kind = "data" /\ m.type = RegisterHandler => m.data \in Data}

QueuesSound ==
  /\ vm \in Seq(SoundMessage) /\ inPipe \in Seq(SoundMessage)
  /\ todo \in [Loads -> Seq(SoundMessage)]

PipesSound == \A l \in Loads : pipe[l] \in Seq(Arrivals(loadName[l]))

RegistrationsFit ==
  \A t \in Types, p \in Priorities : Fits(registrations[t][p], p)

(* A pipe of the core belongs to a thread that was started under its name, *)
(* and to a load that was not started nothing has been written.            *)
Linked ==
  \A n \in Names :
    IsLoaded(n) => thread[outPipes[n]] # "none" /\ loadName[outPipes[n]] = n

Fresh ==
  \A l \in Loads :
    /\ thread[l] = "none" => pipe[l] = << >>
    /\ thread[l] # "none" => loadName[l] \in Names

StartupInv ==
  /\ TypeOK /\ QueuesSound /\ PipesSound
  /\ RegistrationsFit /\ Linked /\ Fresh

-------------------------------------------------------------------------------
(* The messages the core and the plugins build.                            *)
LEMMA NamedMessageType ==
  /\ \A k \in {"add_plugin", "done", "hello"}, n \in Names :
       NamedMessage(k, n) \in Message
  /\ \A k \in {"core_quit", "shutdown"} : NamedMessage(k, NoPlugin) \in Message
BY RegistryAssumption
   DEF NamedMessage, Message, Kinds, HasName, HasType, InitialPriority

LEMMA RegistrationMessageType ==
  /\ \A k \in {"register", "unregister"}, n \in Names, t \in Types, p \in Int :
       RegistrationMessage(k, n, t, p) \in Message
  /\ \A k \in {"registered", "refused"}, t \in Types, p \in Int :
       RegistrationMessage(k, NoPlugin, t, p) \in Message
BY DEF RegistrationMessage, Message, Kinds, HasName, HasType

LEMMA DataMessageType ==
  \A t \in Types, d \in Data \cup {NoData} :
    DataMessage(t, InitialPriority, d) \in Message
BY RegistryAssumption
   DEF DataMessage, Message, Kinds, HasName, HasType, InitialPriority

LEMMA PriorityChangeType ==
  ASSUME NEW m \in Message, NEW p \in Int
  PROVE  [m EXCEPT !.priority = p] \in Message
BY DEF Message

LEMMA SoundIsMessage ==
  ASSUME NEW q \in Seq(SoundMessage)
  PROVE  q \in Seq(Message)
BY DEF SoundMessage

LEMMA TailType ==
  ASSUME NEW S, NEW q \in Seq(S), q # << >>
  PROVE  Tail(q) \in Seq(S)
OBVIOUS

(* The message the core takes.                                             *)
LEMMA ProcessSound ==
  ASSUME StartupInv, NEW kind, Process(kind)
  PROVE  /\ Current \in SoundMessage
         /\ Current.kind = kind
         /\ vm' \in Seq(SoundMessage)
         /\ inPipe' \in Seq(SoundMessage)
<1> USE DEF StartupInv, QueuesSound, Process, CoreHasMessage, Current
<1>1. CASE vm # << >>
  <2>1. Head(vm) \in SoundMessage /\ Tail(vm) \in Seq(SoundMessage)
    BY <1>1
  <2> QED
    BY <1>1, <2>1
<1>2. CASE vm = << >>
  <2>1. inPipe # << >>
    BY <1>2
  <2>2. Head(inPipe) \in SoundMessage /\ Tail(inPipe) \in Seq(SoundMessage)
    BY <2>1
  <2> QED
    BY <1>2, <2>2
<1> QED
  BY <1>1, <1>2

(* A message the core writes to a plugin that has a pipe.                  *)
LEMMA WriteSound ==
  ASSUME StartupInv, NEW n \in Names, IsLoaded(n), NEW m \in Arrivals(n),
         WriteTo(n, m), UNCHANGED <<thread, loadName>>
  PROVE  PipesSound' /\ Fresh'
<1>1. /\ outPipes[n] \in Loads /\ loadName[outPipes[n]] = n
      /\ thread[outPipes[n]] # "none"
  BY DEF StartupInv, Linked, TypeOK, CoreTypeOK, IsLoaded
<1>2. /\ pipe'[outPipes[n]] = Append(pipe[outPipes[n]], m)
      /\ \A l \in Loads : l # outPipes[n] => pipe'[l] = pipe[l]
  BY <1>1 DEF StartupInv, TypeOK, CoreTypeOK, WriteTo
<1>3. Append(pipe[outPipes[n]], m) \in Seq(Arrivals(n))
  <2>1. pipe[outPipes[n]] \in Seq(Arrivals(n))
    BY <1>1 DEF StartupInv, PipesSound
  <2> QED
    BY <2>1
<1>4. PipesSound'
  BY <1>1, <1>2, <1>3 DEF StartupInv, PipesSound
<1>5. Fresh'
  BY <1>1, <1>2 DEF StartupInv, Fresh
<1> QED
  BY <1>4, <1>5

LEMMA RemoveAllFits ==
  ASSUME NEW r \in Registries, NEW n, NEW p \in Priorities, Fits(r[p], p)
  PROVE  Fits(RemoveAll(r, n)[p], p)
BY StartupAssumption, RegistryAssumption DEF Fits, RemoveAll

LEMMA AddFits ==
  ASSUME NEW r \in Registries, NEW n, NEW q, Fits(n, q),
         NEW p \in Priorities, Fits(r[p], p)
  PROVE  Fits(Add(r, q, n)[p], p)
BY DEF Add, CanAdd, Registries

-------------------------------------------------------------------------------
LEMMA LoadKept ==
  ASSUME StartupInv, NEW n \in Names, Load(n), UNCHANGED registrations
  PROVE  PipesSound' /\ RegistrationsFit' /\ Linked' /\ Fresh'
<1> DEFINE l == NextLoad
           hello == NamedMessage("hello", n)
<1>1. l \in Loads /\ thread[l] = "none"
  BY DEF Load, NextLoad, FreeLoads
<1>2. pipe[l] = << >>
  BY <1>1 DEF StartupInv, Fresh
<1>3. hello \in Arrivals(n)
  BY NamedMessageType DEF NamedMessage, Arrivals
<1> HIDE DEF l, hello
<1>4. /\ thread'[l] = "hello" /\ loadName'[l] = n /\ outPipes'[n] = l
      /\ pipe'[l] = Append(pipe[l], hello)
      /\ \A k \in Loads : k # l => /\ thread'[k] = thread[k] /\ pipe'[k] = pipe[k]
                                /\ loadName'[k] = loadName[k]
      /\ \A k \in Names : k # n => outPipes'[k] = outPipes[k]
  BY <1>1 DEF Load, StartupInv, TypeOK, CoreTypeOK, l, hello
<1>5. pipe'[l] \in Seq(Arrivals(n))
  BY <1>2, <1>3, <1>4
<1>6. PipesSound'
  BY <1>4, <1>5 DEF StartupInv, PipesSound
<1>7. RegistrationsFit'
  BY DEF StartupInv, RegistrationsFit
<1>8. Linked'
  <2> SUFFICES ASSUME NEW k \in Names, IsLoaded(k)'
               PROVE  thread'[outPipes'[k]] # "none" /\ loadName'[outPipes'[k]] = k
    BY DEF Linked
  <2>1. CASE k = n
    BY <1>4, <2>1
  <2>2. CASE k # n
    <3>1. outPipes'[k] = outPipes[k] /\ IsLoaded(k) /\ outPipes[k] \in Loads
      BY <1>4, <2>2 DEF IsLoaded, StartupInv, TypeOK, CoreTypeOK
    <3>2. outPipes[k] # l
      BY <1>1, <3>1 DEF StartupInv, Linked
    <3> QED
      BY <1>4, <3>1, <3>2 DEF StartupInv, Linked
  <2> QED
    BY <2>1, <2>2
<1>9. Fresh'
  BY <1>4 DEF StartupInv, Fresh
<1> QED
  BY <1>6, <1>7, <1>8, <1>9

(* What a step of the core leaves, but for what is in the queues.           *)
LEMMA CoreShape ==
  ASSUME StartupInv, CoreStep
  PROVE  /\ core' \in {"running", "stopped"}
         /\ outPipes' \in [Names -> Loads \cup {NoLoad}]
         /\ registrations' \in [Types -> Registries]
         /\ pipe' = [l \in Loads |-> pipe'[l]]
         /\ thread' \in [Loads -> {"none", "hello", "run", "exited"}]
         /\ loadName' \in [Loads -> Names \cup {NoPlugin}]
<1> USE DEF StartupInv, TypeOK, CoreTypeOK
<1>1. \A r \in Registries : \A n : RemoveAll(r, n) \in Registries
  BY DEF RemoveAll, Registries
<1>2. CASE StopCore
  BY <1>2 DEF StopCore
<1>3. CASE AddPlugin
  <2>1. Current.name \in Names /\ UNCHANGED <<core, registrations>>
    BY <1>3, ProcessSound DEF AddPlugin, Process, SoundMessage, Message, HasName
  <2>2. CASE Load(Current.name)
    <3>1. NextLoad \in Loads
      BY <2>2 DEF Load, NextLoad, FreeLoads
    <3> QED
      BY <2>1, <2>2, <3>1 DEF Load
  <2> QED
    BY <1>3, <2>1, <2>2 DEF AddPlugin
<1>4. CASE RemovePlugin
  BY <1>1, <1>4 DEF RemovePlugin, Process
<1>5. CASE AddRegistration
  <2>1. Current.name \in Names /\ Current.type \in Types
    BY <1>5, ProcessSound DEF AddRegistration, SoundMessage, Message, HasName, HasType
  <2>2. Add(registrations[Current.type], Current.priority, Current.name) \in Registries
    <3>1. registrations[Current.type] \in Registries
      BY <2>1
    <3> QED
      BY <2>1, <3>1 DEF Add, CanAdd, Registries
  <2>3. registrations' \in [Types -> Registries]
    <3>1. CASE IsLoaded(Current.name)
      BY <1>5, <2>2, <3>1 DEF AddRegistration
    <3>2. CASE ~IsLoaded(Current.name)
      BY <1>5, <3>2 DEF AddRegistration
    <3> QED
      BY <3>1, <3>2
  <2> QED
    BY <1>5, <2>3 DEF AddRegistration, WriteTo, Process
<1>6. CASE RemoveRegistration
  BY <1>1, <1>6 DEF RemoveRegistration, Process
<1>7. CASE TargetPlugin \/ InitiateShutdown \/ ToPlugin
  BY <1>7 DEF TargetPlugin, InitiateShutdown, ToPlugin, WriteTo, Process
<1> QED
  BY <1>2, <1>3, <1>4, <1>5, <1>6, <1>7 DEF CoreStep

LEMMA PipesSoundType ==
  ASSUME PipesSound', pipe' = [l \in Loads |-> pipe'[l]]
  PROVE  pipe' \in [Loads -> Seq(Message)]
<1>1. \A n : \A q \in Seq(Arrivals(n)) : q \in Seq(Message)
  BY DEF Arrivals
<1>2. \A l \in Loads : pipe'[l] \in Seq(Message)
  BY <1>1 DEF PipesSound
<1> QED
  BY <1>2

(* The steps of the core.                                                  *)
LEMMA CoreKept ==
  ASSUME StartupInv, StartupCoreStep
  PROVE  StartupInv'
<1>0. CoreStep /\ UNCHANGED <<todo, handlers, bound>>
  BY DEF StartupCoreStep, startupVars
<1>a. QueuesSound'
  <2>1. CASE StopCore
    BY <1>0, <2>1 DEF StopCore, StartupInv, QueuesSound
  <2>2. CASE \E kind \in Kinds : Process(kind)
    BY <1>0, <2>2, ProcessSound DEF StartupInv, QueuesSound
  <2> QED
    BY <1>0, <2>1, <2>2
       DEF CoreStep, AddPlugin, RemovePlugin, AddRegistration, RemoveRegistration,
           TargetPlugin, InitiateShutdown, ToPlugin, Kinds
<1>b. PipesSound' => TypeOK'
  <2>1. vm' \in Seq(Message) /\ inPipe' \in Seq(Message)
    BY <1>a, SoundIsMessage DEF QueuesSound
  <2>2. PipesSound' => pipe' \in [Loads -> Seq(Message)]
    BY <1>0, CoreShape, PipesSoundType
  <2>3. CoreTypeOK' \/ ~PipesSound'
    BY <1>0, <2>1, <2>2, CoreShape DEF CoreTypeOK
  <2> QED
    BY <1>0, <2>3 DEF StartupInv, TypeOK
<1> SUFFICES PipesSound' /\ RegistrationsFit' /\ Linked' /\ Fresh'
  BY <1>a, <1>b DEF StartupInv
<1>1. CASE StopCore
  BY <1>1 DEF StopCore, StartupInv, PipesSound, RegistrationsFit, Linked, Fresh,
              IsLoaded
<1>2. CASE AddPlugin
  <2>1. Current.name \in Names
    BY <1>2, ProcessSound DEF AddPlugin, SoundMessage, Message, HasName
  <2>2. CASE Load(Current.name)
    BY <1>2, <2>1, <2>2, LoadKept DEF AddPlugin
  <2>3. CASE UNCHANGED <<outPipes, pipe, thread, loadName>>
    BY <1>2, <2>3 DEF AddPlugin, StartupInv, PipesSound, RegistrationsFit, Linked,
                      Fresh, IsLoaded
  <2> QED
    BY <1>2, <2>2, <2>3 DEF AddPlugin
<1>3. CASE RemovePlugin
  <2>1. UNCHANGED <<pipe, thread, loadName>>
    BY <1>3 DEF RemovePlugin
  <2>2. \A n \in Names : IsLoaded(n)' => IsLoaded(n) /\ outPipes'[n] = outPipes[n]
    BY <1>3 DEF RemovePlugin, IsLoaded, StartupInv, TypeOK, CoreTypeOK
  <2>3. RegistrationsFit'
    <3>1. \A t \in Types : registrations[t] \in Registries
      BY DEF StartupInv, TypeOK, CoreTypeOK
    <3>2. \A t \in Types : registrations'[t] = RemoveAll(registrations[t], Current.name)
      BY <1>3 DEF RemovePlugin
    <3> QED
      BY <3>1, <3>2, RemoveAllFits DEF StartupInv, RegistrationsFit
  <2> QED
    BY <2>1, <2>2, <2>3 DEF StartupInv, PipesSound, Linked, Fresh
<1>4. CASE AddRegistration
  <2> DEFINE m == Current
             k == IF CanAdd(registrations[m.type], m.priority)
                  THEN "registered" ELSE "refused"
             answer == RegistrationMessage(k, NoPlugin, m.type, m.priority)
  <2>1. /\ m.name \in Names /\ m.type \in Types /\ m.priority \in Int
        /\ Fits(m.name, m.priority)
    BY <1>4, ProcessSound DEF AddRegistration, SoundMessage, Message, HasName, HasType
  <2>2. UNCHANGED <<outPipes, thread, loadName>>
    BY <1>4 DEF AddRegistration
  <2>3. answer \in Arrivals(m.name)
    <3>1. answer \in Message
      BY <2>1, RegistrationMessageType
    <3> QED
      BY <2>1, <3>1 DEF RegistrationMessage, Arrivals
  <2> HIDE DEF answer, k
  <2>4. CASE IsLoaded(m.name)
    <3>1. /\ registrations' = [registrations EXCEPT
                                 ![m.type] = Add(@, m.priority, m.name)]
          /\ WriteTo(m.name, answer)
      BY <1>4, <2>4 DEF AddRegistration, answer, k
    <3>2. PipesSound' /\ Fresh'
      BY <2>1, <2>2, <2>3, <2>4, <3>1, WriteSound
    <3>3. RegistrationsFit'
      <4>1. registrations \in [Types -> Registries]
        BY DEF StartupInv, TypeOK, CoreTypeOK
      <4>2. \A t \in Types : registrations'[t] \in
              {registrations[t], Add(registrations[t], m.priority, m.name)}
        BY <2>1, <3>1, <4>1
      <4> QED
        BY <2>1, <4>1, <4>2, AddFits DEF StartupInv, RegistrationsFit
    <3> QED
      BY <2>2, <3>2, <3>3 DEF StartupInv, Linked, IsLoaded
  <2>5. CASE ~IsLoaded(m.name)
    BY <1>4, <2>2, <2>5 DEF AddRegistration, StartupInv, PipesSound,
                            RegistrationsFit, Linked, Fresh, IsLoaded
  <2> QED
    BY <2>4, <2>5
<1>5. CASE RemoveRegistration
  <2>1. UNCHANGED <<outPipes, pipe, thread, loadName>>
    BY <1>5 DEF RemoveRegistration
  <2>2. RegistrationsFit'
    <3>1. registrations \in [Types -> Registries]
      BY DEF StartupInv, TypeOK, CoreTypeOK
    <3>2. \A t \in Types : registrations'[t] \in
            {registrations[t], RemoveAll(registrations[t], Current.name)}
      BY <1>5, <3>1 DEF RemoveRegistration
    <3> QED
      BY <3>1, <3>2, RemoveAllFits DEF StartupInv, RegistrationsFit
  <2> QED
    BY <2>1, <2>2 DEF StartupInv, PipesSound, Linked, Fresh, IsLoaded
<1>6. CASE TargetPlugin
  <2> DEFINE m == DataMessage(Current.type, InitialPriority, Current.data)
  <2>1. /\ Current.name \in Names /\ Current.type \in Types
        /\ Current.data \in Data \cup {NoData}
        /\ Current.type = RegisterHandler => Current.data \in Data
    BY <1>6, ProcessSound DEF TargetPlugin, SoundMessage, Message, HasName, HasType
  <2>2. m \in Arrivals(Current.name)
    <3>1. m \in Message
      BY <2>1, DataMessageType
    <3> QED
      BY <2>1, <3>1 DEF DataMessage, Arrivals
  <2>3. UNCHANGED <<outPipes, registrations, thread, loadName>>
    BY <1>6 DEF TargetPlugin
  <2>4. PipesSound' /\ Fresh'
    <3>1. CASE UNCHANGED pipe
      BY <2>3, <3>1 DEF StartupInv, PipesSound, Fresh
    <3>2. CASE IsLoaded(Current.name) /\ WriteTo(Current.name, m)
      BY <2>1, <2>2, <2>3, <3>2, WriteSound
    <3> QED
      BY <1>6, <3>1, <3>2 DEF TargetPlugin
  <2> QED
    BY <2>3, <2>4 DEF StartupInv, RegistrationsFit, Linked, IsLoaded
<1>7. CASE InitiateShutdown
  <2> DEFINE m == NamedMessage("shutdown", NoPlugin)
  <2>1. \A n : m \in Arrivals(n)
    BY NamedMessageType DEF NamedMessage, Arrivals
  <2>2. UNCHANGED <<outPipes, registrations, thread, loadName>>
    BY <1>7 DEF InitiateShutdown
  <2> HIDE DEF m
  <2>3. ASSUME NEW l \in Loads
        PROVE  \/ pipe'[l] = pipe[l]
               \/ thread[l] # "none" /\ pipe'[l] = Append(pipe[l], m)
    <3>1. (\E n \in Names : outPipes[n] = l) => thread[l] # "none"
      BY CoreAssumption DEF StartupInv, Linked, IsLoaded
    <3> QED
      BY <1>7, <3>1 DEF InitiateShutdown, m
  <2>4. PipesSound'
    <3> SUFFICES ASSUME NEW l \in Loads PROVE pipe'[l] \in Seq(Arrivals(loadName[l]))
      BY <2>2 DEF PipesSound
    <3>1. pipe[l] \in Seq(Arrivals(loadName[l])) /\ m \in Arrivals(loadName[l])
      BY <2>1 DEF StartupInv, PipesSound
    <3>2. Append(pipe[l], m) \in Seq(Arrivals(loadName[l]))
      BY <3>1
    <3> QED
      BY <2>3, <3>1, <3>2
  <2>5. Fresh'
    BY <2>2, <2>3 DEF StartupInv, Fresh
  <2> QED
    BY <2>2, <2>4, <2>5 DEF StartupInv, RegistrationsFit, Linked, IsLoaded
<1>8. CASE ToPlugin
  <2>1. UNCHANGED <<outPipes, registrations, thread, loadName>>
    BY <1>8 DEF ToPlugin
  <2>2. PipesSound' /\ Fresh'
    <3>1. CASE UNCHANGED pipe
      BY <2>1, <3>1 DEF StartupInv, PipesSound, Fresh
    <3>2. CASE ~UNCHANGED pipe
      <4> DEFINE n(q) == registrations[Current.type][q]
      <4>1. PICK q \in Priorities :
              /\ Receives(q, Current)
              /\ WriteTo(n(q), [Current EXCEPT !.priority = q])
        BY <1>8, <3>2 DEF ToPlugin
      <4>2. /\ Current \in Message /\ Current.kind = "data" /\ Current.type \in Types
            /\ Current.type = RegisterHandler => Current.data \in Data
        BY <1>8, ProcessSound DEF ToPlugin, SoundMessage, Message, HasType
      <4>3. n(q) \in Names /\ IsLoaded(n(q))
        BY <4>1, <4>2 DEF Receives, IsNext, AtMost, RegisteredAt, StartupInv, TypeOK,
                          CoreTypeOK, Registries
      <4>4. [Current EXCEPT !.priority = q] \in Message
        BY <4>2, PriorityChangeType DEF Priorities
      <4>5. [Current EXCEPT !.priority = q] \in Arrivals(n(q))
        BY <4>2, <4>4 DEF Arrivals, Message
      <4> QED
        BY <2>1, <4>1, <4>3, <4>5, WriteSound
    <3> QED
      BY <3>1, <3>2
  <2> QED
    BY <2>1, <2>2 DEF StartupInv, RegistrationsFit, Linked, IsLoaded
<1> QED
  BY <1>0, <1>1, <1>2, <1>3, <1>4, <1>5, <1>6, <1>7, <1>8 DEF CoreStep

-------------------------------------------------------------------------------
(* What the plugins write is sound.                                        *)
LEMMA RegistrationSound ==
  ASSUME NEW n \in Names, NEW t \in Types, NEW p \in Int, Fits(n, p)
  PROVE  Registration(n, t, p) \in SoundMessage
<1>1. Registration(n, t, p) \in Message
  BY RegistrationMessageType DEF Registration
<1> QED
  BY <1>1 DEF Registration, RegistrationMessage, SoundMessage

LEMMA OtherSound ==
  /\ \A c \in Data : RegisterCommand(c) \in SoundMessage
  /\ Ready \in SoundMessage
  /\ \A n \in Names : Done(n) \in SoundMessage
<1>1. \A c \in Data : RegisterCommand(c) \in Message
  BY StartupAssumption, DataMessageType DEF RegisterCommand
<1>2. Ready \in Message
  BY StartupAssumption, DataMessageType DEF Ready
<1>3. \A n \in Names : Done(n) \in Message
  BY NamedMessageType DEF Done
<1> QED
  BY <1>1, <1>2, <1>3, StartupAssumption
     DEF RegisterCommand, Ready, Done, DataMessage, NamedMessage, SoundMessage

LEMMA MiddleFits ==
  /\ \A n \in Names : Fits(n, MiddlePriority)
  /\ \A p \in Int : Fits(Meatgrinder, p)
BY StartupAssumption DEF Fits

LEMMA FirstWritesSound ==
  ASSUME NEW n \in Names
  PROVE  FirstWrites(n) \in Seq(SoundMessage)
<1>1. /\ Registration(n, HandlerReady, MiddlePriority) \in SoundMessage
      /\ n = Meatgrinder =>
           Registration(n, RegisterHandler, LowPriority) \in SoundMessage
      /\ RegisterCommand(QuipCommand) \in SoundMessage
  BY StartupAssumption, MiddleFits, RegistrationSound, OtherSound
<1> QED
  BY <1>1, StartupAssumption DEF FirstWrites

LEMMA ReactionSound ==
  ASSUME NEW n \in Names, NEW m \in Arrivals(n)
  PROVE  Reaction(n, m) \in Seq(SoundMessage)
<1>1. m \in Message /\ m.priority \in Int
  BY DEF Arrivals, Message
<1>2. m.kind \in {"hello", "shutdown", "data"} => Echoed(m) \in SoundMessage
  <2>1. [m EXCEPT !.priority = @ - 1] \in Message
    BY <1>1, PriorityChangeType
  <2> QED
    BY <1>1, <2>1 DEF Echoed, Arrivals, SoundMessage, Message
<1>3. /\ RegisterCommand(BlockCommand) \in SoundMessage
      /\ RegisterCommand(QuipCommand) \in SoundMessage
      /\ RegisterCommand(ListCommand) \in SoundMessage
      /\ RegisterCommand(NormalCommand) \in SoundMessage
      /\ Ready \in SoundMessage /\ Done(n) \in SoundMessage
  BY StartupAssumption, OtherSound
<1>4. m.kind = "refused" => m.type \in Types /\ Fits(n, m.priority)
  BY <1>1 DEF Arrivals, Message, HasType
<1>5. m.kind \in {"hello", "shutdown", "registered", "refused", "data"}
  BY DEF Arrivals
<1>6. CASE n = Antenna
  <2>1. m.kind = "refused" => Registration(n, m.type, m.priority + 1) \in SoundMessage
    <3>1. m.kind = "refused" => Fits(n, m.priority + 1)
      BY <1>1, <1>4, <1>6, StartupAssumption DEF Fits
    <3> QED
      BY <1>1, <1>4, <3>1, RegistrationSound
  <2>2. AntennaReaction(m) \in Seq(SoundMessage)
    BY <1>2, <1>3, <1>5, <1>6, <2>1 DEF AntennaReaction, AntennaRetry
  <2> QED
    BY <1>6, <2>2, StartupAssumption DEF Reaction
<1>7. n # Antenna /\ m.kind = "refused" =>
        Registration(n, m.type, m.priority - 1) \in SoundMessage
  <2>1. n # Antenna /\ m.kind = "refused" => Fits(n, m.priority - 1)
    BY <1>1, <1>4, StartupAssumption DEF Fits
  <2> QED
    BY <1>1, <1>4, <2>1, RegistrationSound
<1>8. CASE n = Meatgrinder
  <2>1. MeatgrinderReaction(m) \in Seq(SoundMessage)
    BY <1>3, <1>5, <1>7, <1>8, StartupAssumption DEF MeatgrinderReaction
  <2> QED
    BY <1>8, <2>1, StartupAssumption DEF Reaction
<1>9. CASE n = Quip
  <2>1. QuipReaction(m) \in Seq(SoundMessage)
    BY <1>2, <1>3, <1>5, <1>7, <1>9, StartupAssumption DEF QuipReaction
  <2> QED
    BY <1>9, <2>1, StartupAssumption DEF Reaction
<1>10. CASE n = Userlist
  <2>1. UserlistReaction(m) \in Seq(SoundMessage)
    BY <1>3, <1>5, <1>7, <1>10, StartupAssumption DEF UserlistReaction
  <2> QED
    BY <1>10, <2>1, StartupAssumption DEF Reaction
<1> QED
  BY <1>6, <1>8, <1>9, <1>10, StartupAssumption

(* The steps of the plugins.                                               *)
LEMMA PluginKept ==
  ASSUME StartupInv, NEW l \in Loads, PluginStep(l) \/ BindFails(l)
  PROVE  StartupInv'
<1>1. UNCHANGED <<core, vm, outPipes, registrations, loadName>>
  BY DEF PluginStep, BindFails, ReadHello, WriteNext, HandleMessage
<1>2. /\ thread[l] # "none" /\ loadName[l] \in Names
      /\ pipe[l] \in Seq(Arrivals(loadName[l])) /\ todo[l] \in Seq(SoundMessage)
  BY DEF StartupInv, Fresh, PipesSound, QueuesSound, PluginStep, BindFails,
         ReadHello, WriteNext, HandleMessage
<1>3. /\ inPipe' \in Seq(SoundMessage) /\ todo' \in [Loads -> Seq(SoundMessage)]
      /\ thread' \in [Loads -> {"none", "hello", "run", "exited"}]
      /\ \A k \in Loads : thread'[k] = "none" <=> thread[k] = "none"
      /\ pipe' = pipe \/ (pipe[l] # << >> /\ pipe' = [pipe EXCEPT ![l] = Tail(@)])
      /\ handlers' \in SUBSET Data /\ bound' \in BOOLEAN
  <2>0. /\ inPipe \in Seq(SoundMessage) /\ todo \in [Loads -> Seq(SoundMessage)]
        /\ thread \in [Loads -> {"none", "hello", "run", "exited"}]
        /\ handlers \in SUBSET Data /\ bound \in BOOLEAN
    BY DEF StartupInv, QueuesSound, TypeOK, CoreTypeOK
  <2>1. CASE ReadHello(l)
    BY <1>2, <2>0, <2>1, FirstWritesSound DEF ReadHello
  <2>2. CASE WriteNext(l)
    <3>1. Head(todo[l]) \in SoundMessage /\ Tail(todo[l]) \in Seq(SoundMessage)
      BY <1>2, <2>2 DEF WriteNext
    <3>2. Append(inPipe, Head(todo[l])) \in Seq(SoundMessage)
      BY <2>0, <3>1
    <3> QED
      BY <2>0, <2>2, <3>1, <3>2 DEF WriteNext
  <2>3. CASE BindFails(l)
    <3>1. Done(Antenna) \in SoundMessage
      BY OtherSound, StartupAssumption
    <3>2. Append(todo[l], Done(Antenna)) \in Seq(SoundMessage)
      BY <1>2, <3>1
    <3> QED
      BY <2>0, <2>3, <3>2 DEF BindFails
  <2>4. CASE HandleMessage(l)
    <3> DEFINE m == Head(pipe[l])
    <3>1. m \in Arrivals(loadName[l])
      BY <1>2, <2>4 DEF HandleMessage
    <3>2. Reaction(loadName[l], m) \in Seq(SoundMessage)
      BY <1>2, <3>1, ReactionSound
    <3>3. m.type = RegisterHandler /\ m.kind = "data" => m.data \in Data
      BY <3>1 DEF Arrivals
    <3> QED
      BY <2>0, <2>4, <3>2, <3>3 DEF HandleMessage
  <2> QED
    BY <2>1, <2>2, <2>3, <2>4 DEF PluginStep
<1>4. ASSUME NEW k \in Loads
      PROVE  /\ pipe'[k] \in Seq(Arrivals(loadName[k]))
             /\ pipe[k] = << >> => pipe'[k] = << >>
  <2>1. pipe[k] \in Seq(Arrivals(loadName[k])) /\ pipe \in [Loads -> Seq(Message)]
    BY DEF StartupInv, PipesSound, TypeOK, CoreTypeOK
  <2>2. pipe[l] # << >> => Tail(pipe[l]) \in Seq(Arrivals(loadName[l]))
    BY <1>2, TailType
  <2> QED
    BY <1>3, <2>1, <2>2
<1>5. pipe' \in [Loads -> Seq(Message)]
  <2>1. pipe \in [Loads -> Seq(Message)]
    BY DEF StartupInv, TypeOK, CoreTypeOK
  <2>2. pipe[l] # << >> => Tail(pipe[l]) \in Seq(Message)
    BY <2>1
  <2> QED
    BY <1>3, <2>1, <2>2
<1>6. TypeOK'
  <2>1. inPipe' \in Seq(Message) /\ todo' \in [Loads -> Seq(Message)]
    BY <1>3, SoundIsMessage
  <2> QED
    BY <1>1, <1>3, <1>5, <2>1 DEF StartupInv, TypeOK, CoreTypeOK
<1>7. QueuesSound'
  BY <1>1, <1>3 DEF StartupInv, QueuesSound
<1>8. PipesSound'
  BY <1>1, <1>4 DEF PipesSound
<1>9. RegistrationsFit'
  BY <1>1 DEF StartupInv, RegistrationsFit
<1>10. Linked'
  <2> SUFFICES ASSUME NEW n \in Names, IsLoaded(n)
               PROVE  thread'[outPipes[n]] # "none" /\ loadName[outPipes[n]] = n
    BY <1>1 DEF Linked, IsLoaded
  <2>1. outPipes[n] \in Loads
    BY DEF StartupInv, TypeOK, CoreTypeOK, IsLoaded
  <2> QED
    BY <1>3, <2>1 DEF StartupInv, Linked
<1>11. Fresh'
  BY <1>1, <1>3, <1>4 DEF StartupInv, Fresh
<1> QED
  BY <1>6, <1>7, <1>8, <1>9, <1>10, <1>11 DEF StartupInv

-------------------------------------------------------------------------------
LEMMA InitSound == Init => StartupInv
<1> SUFFICES ASSUME Init PROVE StartupInv
  OBVIOUS
<1> USE DEF Init, CoreInit
<1>1. vm \in Seq(SoundMessage)
  <2>1. Len(Preloads) \in Nat /\ \A i \in 1..Len(Preloads) : Preloads[i] \in Names
    BY CoreAssumption
  <2>2. \A n \in Names : NamedMessage("add_plugin", n) \in SoundMessage
    BY NamedMessageType DEF NamedMessage, SoundMessage
  <2> QED
    BY <2>1, <2>2
<1>2. QueuesSound
  BY <1>1 DEF QueuesSound
<1>3. PipesSound
  BY DEF PipesSound
<1>4. RegistrationsFit
  BY StartupAssumption, RegistryAssumption DEF RegistrationsFit, EmptyRegistry, Fits
<1>5. Linked /\ Fresh
  BY CoreAssumption DEF Linked, Fresh, IsLoaded
<1>6. TypeOK
  <2>1. vm \in Seq(Message)
    BY <1>1, SoundIsMessage
  <2>2. EmptyRegistry \in Registries
    BY DEF EmptyRegistry, Registries
  <2> QED
    BY <2>1, <2>2 DEF TypeOK, CoreTypeOK
<1> QED
  BY <1>2, <1>3, <1>4, <1>5, <1>6 DEF StartupInv

LEMMA StartupInvariant == Spec => []StartupInv
<1>1. StartupInv /\ [Next]_vars => StartupInv'
  <2> SUFFICES ASSUME StartupInv, [Next]_vars PROVE StartupInv'
    OBVIOUS
  <2>1. CASE Next
    BY <2>1, CoreKept, PluginKept DEF Next
  <2>2. CASE UNCHANGED vars
    BY <2>2 DEF vars, coreVars, startupVars, StartupInv, TypeOK, CoreTypeOK,
                QueuesSound, PipesSound, RegistrationsFit, Linked, Fresh, IsLoaded
  <2> QED
    BY <2>1, <2>2
<1> QED
  BY <1>1, InitSound, PTL DEF Spec

(* Every variable keeps its type; in particular the meatgrinder's map has  *)
(* commands in it and nothing else, whatever arrives in its pipe.          *)
THEOREM TypeCorrect == Spec => []TypeOK
<1>1. StartupInv => TypeOK
  BY DEF StartupInv
<1> QED
  BY <1>1, StartupInvariant, PTL

(* The antenna gets handler_ready before quip and userlist, whoever starts *)
(* and registers first and however often each of them is refused.          *)
THEOREM AntennaIsAbove == Spec => []AntennaComesFirst
<1>1. StartupInv => AntennaComesFirst
  <2> SUFFICES ASSUME StartupInv, NEW p \in Priorities, NEW q \in Priorities,
                      registrations[HandlerReady][p] = Antenna,
                      registrations[HandlerReady][q] \in {Quip, Userlist}
               PROVE  p > q
    BY DEF AntennaComesFirst
  <2>1. p # q
    BY StartupAssumption
  <2>2. p >= MiddlePriority /\ q <= MiddlePriority
    BY StartupAssumption DEF StartupInv, RegistrationsFit, Fits
  <2> QED
    BY <2>1, <2>2, StartupAssumption, RegistryAssumption DEF Priorities
<1> QED
  BY <1>1, StartupInvariant, PTL

===============================================================================
