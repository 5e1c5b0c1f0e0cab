----------------------------- MODULE QtClientProofs -----------------------------
(***************************************************************************)
(* Theorems about the Qt client, for any message types, priorities and     *)
(* number of messages to display.                                          *)
(***************************************************************************)
EXTENDS QtClient, TLAPS

-------------------------------------------------------------------------------
(* The messages that are built have their types.                           *)
LEMMA PlainType ==
  /\ \A k \in {"display", "shutdown"} : Plain(k) \in Answers
  /\ \A k \in {"display", "edict", "core_quit", "done"} : Plain(k) \in Requests
BY DEF Plain, Answers, Requests

LEMMA RegistrationType ==
  ASSUME NEW t \in Types, NEW p \in Priorities
  PROVE  /\ \A k \in {"registered", "refused"} : Registration(k, t, p) \in Answers
         /\ Registration("register", t, p) \in Requests
BY DEF Registration, Registrations, Answers, Requests

(* Putting something into a queue, and taking something off it.            *)
LEMMA QueueTypes ==
  ASSUME TypeOK
  PROVE  /\ \A m \in Answers : Append(pluginPipe, m) \in AnswerPipes
         /\ pluginPipe # << >> =>
              Head(pluginPipe) \in Answers /\ Tail(pluginPipe) \in AnswerPipes
         /\ \A m \in Requests : Append(inPipe, m) \in RequestPipes
         /\ inPipe # << >> =>
              /\ Head(inPipe) \in Requests
              /\ Tail(inPipe) \in RequestPipes
              /\ \A m \in Requests : Append(Tail(inPipe), m) \in RequestPipes
         /\ \A e \in Signals : Append(events, e) \in EventQueues
         /\ events # << >> => Tail(events) \in EventQueues
<1>1. /\ pluginPipe \in Seq(Answers) /\ inPipe \in Seq(Requests)
      /\ events \in Seq(Signals)
  BY DEF TypeOK, AnswerPipes, RequestPipes, EventQueues
<1>2. /\ \A m \in Answers : Append(pluginPipe, m) \in Seq(Answers)
      /\ pluginPipe # << >> =>
           Head(pluginPipe) \in Answers /\ Tail(pluginPipe) \in Seq(Answers)
  BY <1>1
<1>3. /\ \A m \in Requests : Append(inPipe, m) \in Seq(Requests)
      /\ inPipe # << >> =>
           Head(inPipe) \in Requests /\ Tail(inPipe) \in Seq(Requests)
  BY <1>1
<1>4. ASSUME inPipe # << >>, NEW m \in Requests
      PROVE  Append(Tail(inPipe), m) \in Seq(Requests)
  BY <1>3, <1>4
<1>5. /\ \A e \in Signals : Append(events, e) \in Seq(Signals)
      /\ events # << >> => Tail(events) \in Seq(Signals)
  BY <1>1
<1> QED
  BY <1>2, <1>3, <1>4, <1>5 DEF AnswerPipes, RequestPipes, EventQueues

(* Message boxes are opened and closed from the top.                       *)
LEMMA BoxTypes ==
  ASSUME TypeOK
  PROVE  /\ \A box \in Boxes : Append(dialogs, box) \in BoxStacks
         /\ dialogs # << >> =>
              /\ SubSeq(dialogs, 1, Len(dialogs) - 1) \in BoxStacks
              /\ \A box \in Boxes :
                   Append(SubSeq(dialogs, 1, Len(dialogs) - 1), box) \in BoxStacks
         /\ << >> \in BoxStacks
<1>1. dialogs \in Seq(Boxes)
  BY DEF TypeOK, BoxStacks
<1>2. /\ \A box \in Boxes : Append(dialogs, box) \in Seq(Boxes)
      /\ << >> \in Seq(Boxes)
  BY <1>1
<1>3. ASSUME dialogs # << >>
      PROVE  SubSeq(dialogs, 1, Len(dialogs) - 1) \in Seq(Boxes)
  <2>1. Len(dialogs) \in Nat /\ Len(dialogs) >= 1
    BY <1>1, <1>3
  <2>2. \A i \in 1..(Len(dialogs) - 1) : dialogs[i] \in Boxes
    BY <1>1, <2>1
  <2> QED
    BY <1>1, <2>1, <2>2
<1>4. ASSUME dialogs # << >>, NEW box \in Boxes
      PROVE  Append(SubSeq(dialogs, 1, Len(dialogs) - 1), box) \in Seq(Boxes)
  BY <1>3, <1>4
<1> QED
  BY <1>2, <1>3, <1>4 DEF BoxStacks

LEMMA ReadType ==
  ASSUME TypeOK, NEW kind, Read(kind)
  PROVE  /\ Head(pluginPipe) \in Answers
         /\ Head(pluginPipe).kind = kind
         /\ pluginPipe' \in AnswerPipes
BY QueueTypes DEF Read

LEMMA ProcessType ==
  ASSUME TypeOK, NEW kind, Process(kind)
  PROVE  /\ Head(inPipe) \in Requests
         /\ Head(inPipe).kind = kind
         /\ Tail(inPipe) \in RequestPipes
         /\ \A m \in Requests : Append(Tail(inPipe), m) \in RequestPipes
BY QueueTypes DEF Process

LEMMA SendType ==
  ASSUME TypeOK, NEW k \in {"display", "edict", "core_quit", "done"}, send(k)
  PROVE  inPipe' \in RequestPipes
BY QueueTypes, PlainType DEF TypeOK, send

LEMMA ToPluginType ==
  ASSUME TypeOK, NEW m \in Answers, ToPlugin(m)
  PROVE  pluginPipe' \in AnswerPipes
BY QueueTypes DEF TypeOK, ToPlugin

LEMMA CloseEventType ==
  ASSUME TypeOK, closeEvent
  PROVE  dialogs' \in BoxStacks
BY BoxTypes DEF closeEvent, TypeOK, Boxes

LEMMA HandleType ==
  ASSUME TypeOK, NEW signal, Handle(signal)
  PROVE  events' \in EventQueues
BY QueueTypes DEF Handle

LEMMA EmitType ==
  ASSUME TypeOK, NEW signal \in Signals, emit(signal)
  PROVE  events' \in EventQueues
BY QueueTypes DEF emit

-------------------------------------------------------------------------------
(* The steps of each thread keep the types.                                *)
LEMMA PluginTypes ==
  ASSUME TypeOK, PluginStep
  PROVE  TypeOK'
<1> USE DEF TypeOK, mediator, guiVars, coreVars, bounds
<1>1. CASE Register
  <2> DEFINE new == [i \in 1..Len(TypeList) |->
                       Registration("register", TypeList[i], RegMax)]
  <2>1. Len(TypeList) \in Nat /\ \A i \in 1..Len(TypeList) : TypeList[i] \in Types
    BY QtClientAssumption DEF Types
  <2>2. RegMax \in Priorities
    BY QtClientAssumption DEF Priorities
  <2>3. \A i \in 1..Len(TypeList) :
          Registration("register", TypeList[i], RegMax) \in Requests
    BY <2>1, <2>2, RegistrationType
  <2>4. new \in Seq(Requests)
    BY <2>1, <2>3
  <2>5. inPipe' \in RequestPipes
    <3>1. inPipe \in Seq(Requests)
      BY DEF RequestPipes
    <3>2. inPipe \o new \in Seq(Requests)
      BY <2>4, <3>1
    <3> QED
      BY <1>1, <3>2 DEF Register, RequestPipes
  <2> QED
    BY <1>1, <2>5 DEF Register
<1>2. CASE open
  BY <1>2, EmitType DEF open, Signals
<1>3. CASE ReadShutdown
  BY <1>3, ReadType DEF ReadShutdown, Read, BeginClose
<1>4. CASE ReadRegistered
  BY <1>4, ReadType DEF ReadRegistered, Read
<1>5. CASE ReadRefused
  <2> DEFINE m == Head(pluginPipe)
  <2>1. pluginPipe' \in AnswerPipes
    BY <1>5, ReadType DEF ReadRefused
  <2>2. m.type \in Types /\ m.priority \in Priorities
    BY <1>5, ReadType DEF ReadRefused, Answers, Registrations
  <2>3. ASSUME m.priority >= RegMin
        PROVE  Registration("register", m.type, m.priority - 1) \in Requests
    <3>1. m.priority - 1 \in Priorities
      BY <2>2, <2>3, QtClientAssumption DEF Priorities
    <3> QED
      BY <2>2, <3>1, RegistrationType
  <2> QED
    BY <1>5, <2>1, <2>3, QueueTypes DEF ReadRefused, Read, BeginClose
<1>6. CASE Forward
  BY <1>6, ReadType, EmitType, QueueTypes, PlainType DEF Forward, Read, Signals
<1>7. CASE close
  BY <1>7, EmitType DEF close, Signals
<1>8. CASE Return
  BY <1>8, QueueTypes, PlainType DEF Return
<1> QED
  BY <1>1, <1>2, <1>3, <1>4, <1>5, <1>6, <1>7, <1>8 DEF PluginStep

LEMMA CoreTypes ==
  ASSUME TypeOK, CoreStep
  PROVE  TypeOK'
<1> USE DEF TypeOK, mediator, guiVars, bounds
<1>1. CASE AddRegistration
  <2> DEFINE m == Head(inPipe)
             answer == IF m.priority \in free[m.type] THEN "registered" ELSE "refused"
  <2>1. m.type \in Types /\ m.priority \in Priorities
    BY <1>1, ProcessType DEF AddRegistration, Requests, Registrations
  <2>2. pluginPipe' \in AnswerPipes
    <3>1. Registration(answer, m.type, m.priority) \in Answers
      BY <2>1, RegistrationType
    <3> QED
      BY <1>1, <3>1, ToPluginType DEF AddRegistration
  <2>3. free' \in [Types -> SUBSET Priorities]
    BY <1>1, <2>1 DEF AddRegistration
  <2> QED
    BY <1>1, <2>2, <2>3, ProcessType DEF AddRegistration, Process
<1>2. CASE InitiateShutdown
  BY <1>2, ProcessType, PlainType, ToPluginType DEF InitiateShutdown, Process
<1>3. CASE HandleQuit
  BY <1>3, ProcessType, PlainType DEF HandleQuit, Process
<1>4. CASE DropEcho
  BY <1>4, ProcessType DEF DropEcho, Process
<1>5. CASE RemovePlugin
  <2>1. connected' \in BOOLEAN
    BY <1>5 DEF RemovePlugin
  <2>2. inPipe' \in RequestPipes
    BY <1>5, ProcessType DEF RemovePlugin
  <2> QED
    BY <1>5, <2>1, <2>2 DEF RemovePlugin, Process
<1>6. CASE ReturnFromCore
  BY <1>6 DEF ReturnFromCore
<1> QED
  BY <1>1, <1>2, <1>3, <1>4, <1>5, <1>6 DEF CoreStep

LEMMA GuiTypes ==
  ASSUME TypeOK, GuiStep \/ User
  PROVE  TypeOK'
<1> USE DEF TypeOK, mediator, guiVars, coreVars, bounds
<1>1. CASE Exec
  BY <1>1 DEF Exec
<1>2. CASE use
  <2>1. clientPipe' \in BOOLEAN
    BY <1>2 DEF use, ready
  <2>2. window' \in {"hidden", "shown"} /\ dialogs' \in BoxStacks
    BY <1>2, BoxTypes DEF use, Boxes
  <2>3. events' \in EventQueues
    BY <1>2, HandleType DEF use
  <2> QED
    BY <1>2, <2>1, <2>2, <2>3 DEF use, Handle
<1>3. CASE die
  BY <1>3, HandleType, CloseEventType DEF die, Handle
<1>4. CASE display
  BY <1>4, HandleType DEF display, Handle
<1>5. CASE join
  BY <1>5, SendType DEF join
<1>6. CASE End
  BY <1>6 DEF End
<1>7. CASE ClickClose
  BY <1>7, CloseEventType DEF ClickClose, AtWindow
<1>8. CASE TypeQuit
  BY <1>8, SendType DEF TypeQuit, AtWindow
<1>9. CASE AnswerYes
  BY <1>9, BoxTypes DEF AnswerYes, Answer, QuitApplication
<1>10. CASE AnswerNo
  <2>1. CASE QuitApplication
    BY <1>10, <2>1, BoxTypes DEF AnswerNo, Answer, QuitApplication
  <2>2. CASE dialogs' = SubSeq(dialogs, 1, Len(dialogs) - 1) /\ UNCHANGED <<app, window>>
    BY <1>10, <2>2, BoxTypes DEF AnswerNo, Answer
  <2> QED
    BY <1>10, <2>1, <2>2 DEF AnswerNo
<1>11. CASE AnswerFatal
  <2>1. CASE dialogs' = Append(SubSeq(dialogs, 1, Len(dialogs) - 1), "question")
    BY <1>11, <2>1, BoxTypes DEF AnswerFatal, Answer, QuitApplication, Boxes
  <2>2. CASE QuitApplication
    BY <1>11, <2>2, BoxTypes DEF AnswerFatal, Answer, QuitApplication
  <2> QED
    BY <1>11, <2>1, <2>2 DEF AnswerFatal
<1> QED
  BY <1>1, <1>2, <1>3, <1>4, <1>5, <1>6, <1>7, <1>8, <1>9, <1>10, <1>11
     DEF GuiStep, User

(* Every variable keeps its type: what stands in the pipes, between the    *)
(* plugin and the core, and in the event queue of the GUI is what its      *)
(* reader knows how to handle, and a priority tried never leaves its range.*)
THEOREM TypeCorrect == Spec => []TypeOK
<1>1. Init => TypeOK
  <2> SUFFICES ASSUME Init PROVE TypeOK
    OBVIOUS
  <2>1. /\ dialogs \in BoxStacks /\ events \in EventQueues
        /\ pluginPipe \in AnswerPipes /\ inPipe \in RequestPipes
    BY DEF Init, BoxStacks, EventQueues, AnswerPipes, RequestPipes
  <2>2. /\ clientPipe \in BOOLEAN /\ connected \in BOOLEAN
        /\ othersQuit \in BOOLEAN /\ typedQuit \in BOOLEAN
    BY DEF Init
  <2>3. forwards \in 0..MaxForwards
    BY QtClientAssumption DEF Init
  <2> QED
    BY <2>1, <2>2, <2>3 DEF Init, TypeOK
<1>2. TypeOK /\ [Next]_vars => TypeOK'
  <2> SUFFICES ASSUME TypeOK, [Next]_vars PROVE TypeOK'
    OBVIOUS
  <2>1. CASE PluginStep
    BY <2>1, PluginTypes
  <2>2. CASE CoreStep
    BY <2>2, CoreTypes
  <2>3. CASE OthersLeave
    BY <2>3 DEF OthersLeave, TypeOK, mediator, guiVars, bounds
  <2>4. CASE Deliver
    BY <2>4, PlainType, QueueTypes, QtClientAssumption
       DEF Deliver, TypeOK, mediator, guiVars, coreVars
  <2>5. CASE OthersQuit
    BY <2>5, PlainType, QueueTypes DEF OthersQuit, TypeOK, mediator, guiVars, coreVars
  <2>6. CASE GuiStep \/ User
    BY <2>6, GuiTypes
  <2>7. CASE UNCHANGED vars
    BY <2>7 DEF vars, TypeOK, mediator, guiVars, coreVars, bounds
  <2> QED
    BY <2>1, <2>2, <2>3, <2>4, <2>5, <2>6, <2>7 DEF Next
<1> QED
  BY <1>1, <1>2, PTL DEF Spec

-------------------------------------------------------------------------------
(* Why the mediator outlives the plugin: main() joins the core, the core   *)
(* returns without pipes only, the plugin's pipe goes with its done, and   *)
(* the done is the last thing the plugin thread does.                      *)
Joined == app = "ended" => core = "returned"
PipesGone == core = "returned" => ~connected
DoneSeen == ~connected => plugin = "exited"
DoneSent ==
  \A i \in 1..Len(inPipe) : inPipe[i].kind = "done" => plugin = "exited"

JoinInv == Joined /\ PipesGone /\ DoneSeen /\ DoneSent

(* DoneSent depends on two variables only, and a plugin that has exited    *)
(* takes no more steps.                                                    *)
LEMMA Exited ==
  ASSUME TypeOK, [Next]_vars, plugin = "exited"
  PROVE  plugin' = "exited"
<1>1. CASE PluginStep
  BY <1>1 DEF PluginStep, Register, open, ReadShutdown, ReadRegistered,
              ReadRefused, Forward, close, Return, Read
<1>2. CASE CoreStep
  BY <1>2 DEF CoreStep, AddRegistration, InitiateShutdown, HandleQuit, DropEcho,
              RemovePlugin, ReturnFromCore, Process
<1>3. CASE OthersLeave \/ Deliver \/ OthersQuit
  BY <1>3 DEF OthersLeave, Deliver, OthersQuit
<1>4. CASE GuiStep
  BY <1>4 DEF GuiStep, Exec, use, die, display, join, End, Handle
<1>5. CASE User
  BY <1>5 DEF User, ClickClose, TypeQuit, AnswerYes, AnswerNo, AnswerFatal,
              AtWindow, Answer
<1>6. CASE UNCHANGED vars
  BY <1>6 DEF vars
<1> QED
  BY <1>1, <1>2, <1>3, <1>4, <1>5, <1>6 DEF Next

LEMMA SameKept ==
  ASSUME TypeOK, [Next]_vars, DoneSent, UNCHANGED inPipe
  PROVE  DoneSent'
BY Exited DEF DoneSent

LEMMA AppendKept ==
  ASSUME TypeOK, [Next]_vars, DoneSent, NEW m \in Requests,
         inPipe' = Append(inPipe, m), m.kind = "done" => plugin' = "exited"
  PROVE  DoneSent'
<1>1. inPipe \in Seq(Requests)
  BY DEF TypeOK, RequestPipes
<1>2. ASSUME NEW i \in 1..Len(inPipe'), inPipe'[i].kind = "done"
      PROVE  plugin' = "exited"
  <2>1. CASE i = Len(inPipe) + 1
    BY <1>1, <1>2, <2>1
  <2>2. CASE i \in 1..Len(inPipe)
    BY <1>1, <1>2, <2>2, Exited DEF DoneSent
  <2> QED
    BY <1>1, <2>1, <2>2
<1> QED
  BY <1>2 DEF DoneSent

LEMMA TailKept ==
  ASSUME TypeOK, [Next]_vars, DoneSent, inPipe # << >>, inPipe' = Tail(inPipe)
  PROVE  DoneSent'
<1>1. inPipe \in Seq(Requests)
  BY DEF TypeOK, RequestPipes
<1>2. ASSUME NEW i \in 1..Len(inPipe'), inPipe'[i].kind = "done"
      PROVE  plugin' = "exited"
  <2>1. i + 1 \in 1..Len(inPipe) /\ inPipe'[i] = inPipe[i + 1]
    BY <1>1
  <2> QED
    BY <1>2, <2>1, Exited DEF DoneSent
<1> QED
  BY <1>2 DEF DoneSent

LEMMA PlainKept ==
  ASSUME TypeOK, [Next]_vars, DoneSent,
         NEW k \in {"display", "edict", "core_quit"},
         inPipe' = Append(inPipe, Plain(k))
  PROVE  DoneSent'
<1>1. Plain(k) \in Requests /\ Plain(k).kind # "done"
  BY DEF Plain, Requests
<1> QED
  BY <1>1, AppendKept

LEMMA SentKept ==
  ASSUME TypeOK, [Next]_vars, DoneSent,
         NEW k \in {"display", "edict", "core_quit"}, send(k)
  PROVE  DoneSent'
BY PlainKept, SameKept DEF send

LEMMA DoneSentKept ==
  ASSUME TypeOK, Next, DoneSent
  PROVE  DoneSent'
<1>0. [Next]_vars
  OBVIOUS
<1>1. CASE Register
  <2> DEFINE new == [i \in 1..Len(TypeList) |->
                       Registration("register", TypeList[i], RegMax)]
  <2>1. inPipe \in Seq(Requests)
    BY DEF TypeOK, RequestPipes
  <2>2. Len(TypeList) \in Nat
    BY QtClientAssumption
  <2>3. new \in Seq([kind : {"register"}, type : {TypeList[i] : i \in 1..Len(TypeList)},
                     priority : {RegMax}])
    BY <2>2 DEF Registration
  <2>4. inPipe' = inPipe \o new
    BY <1>1 DEF Register
  <2>5. ASSUME NEW i \in 1..Len(inPipe'), inPipe'[i].kind = "done"
        PROVE  plugin' = "exited"
    <3>1. CASE i \in 1..Len(inPipe)
      <4>1. inPipe'[i] = inPipe[i]
        BY <2>1, <2>3, <2>4, <3>1
      <4> QED
        BY <1>0, <2>5, <3>1, <4>1, Exited DEF DoneSent
    <3>2. CASE i \notin 1..Len(inPipe)
      <4>1. i - Len(inPipe) \in 1..Len(new) /\ inPipe'[i] = new[i - Len(inPipe)]
        BY <2>1, <2>3, <2>4, <3>2
      <4>2. inPipe'[i].kind = "register"
        BY <2>3, <4>1
      <4> QED
        BY <2>5, <4>2
    <3> QED
      BY <3>1, <3>2
  <2> QED
    BY <2>5 DEF DoneSent
<1>2. CASE open \/ close \/ ReadShutdown \/ ReadRegistered
  BY <1>0, <1>2, SameKept DEF open, close, ReadShutdown, ReadRegistered
<1>3. CASE ReadRefused
  <2> DEFINE m == Head(pluginPipe)
             again == Registration("register", m.type, m.priority - 1)
  <2>1. CASE UNCHANGED inPipe
    BY <1>0, <2>1, SameKept
  <2>2. CASE m.priority >= RegMin /\ inPipe' = Append(inPipe, again)
    <3>1. m.type \in Types /\ m.priority \in Priorities
      BY <1>3, ReadType DEF ReadRefused, Answers, Registrations
    <3>2. m.priority - 1 \in Priorities
      BY <2>2, <3>1, QtClientAssumption DEF Priorities
    <3>3. again \in Requests /\ again.kind # "done"
      BY <3>1, <3>2, RegistrationType DEF Registration
    <3> QED
      BY <1>0, <2>2, <3>3, AppendKept
  <2> QED
    BY <1>3, <2>1, <2>2 DEF ReadRefused
<1>4. CASE Forward
  BY <1>0, <1>4, PlainKept DEF Forward
<1>5. CASE Return
  BY <1>0, <1>5, PlainType, AppendKept DEF Return
<1>6. CASE AddRegistration \/ InitiateShutdown \/ DropEcho \/ RemovePlugin
  BY <1>0, <1>6, TailKept
     DEF AddRegistration, InitiateShutdown, DropEcho, RemovePlugin, Process
<1>7. CASE HandleQuit
  <2>1. inPipe # << >> /\ Head(inPipe).kind = "edict"
    BY <1>7 DEF HandleQuit, Process
  <2>2. CASE inPipe' = Tail(inPipe)
    BY <1>0, <2>1, <2>2, TailKept
  <2>3. CASE inPipe' = Append(Tail(inPipe), Plain("core_quit"))
    <3>1. inPipe \in Seq(Requests)
      BY DEF TypeOK, RequestPipes
    <3>2. Tail(inPipe) \in Seq(Requests) /\ Len(Tail(inPipe)) = Len(inPipe) - 1
      BY <2>1, <3>1
    <3>3. ASSUME NEW i \in 1..Len(inPipe'), inPipe'[i].kind = "done"
          PROVE  plugin' = "exited"
      <4>1. CASE i = Len(Tail(inPipe)) + 1
        <5>1. inPipe'[i] = Plain("core_quit")
          BY <2>3, <3>2, <4>1
        <5> QED
          BY <3>3, <5>1 DEF Plain
      <4>2. CASE i \in 1..Len(Tail(inPipe))
        <5>1. i + 1 \in 1..Len(inPipe) /\ inPipe'[i] = inPipe[i + 1]
          BY <2>1, <2>3, <3>1, <3>2, <4>2
        <5> QED
          BY <1>0, <3>3, <5>1, Exited DEF DoneSent
      <4>3. i \in 1..(Len(Tail(inPipe)) + 1) /\ Len(Tail(inPipe)) \in Nat
        BY <2>3, <3>2, PlainType
      <4> QED
        BY <4>1, <4>2, <4>3
    <3> QED
      BY <3>3 DEF DoneSent
  <2> QED
    BY <1>7, <2>2, <2>3 DEF HandleQuit
<1>8. CASE ReturnFromCore \/ OthersLeave \/ Deliver
  BY <1>0, <1>8, SameKept DEF ReturnFromCore, OthersLeave, Deliver
<1>9. CASE OthersQuit
  BY <1>0, <1>9, PlainKept DEF OthersQuit
<1>10. CASE Exec \/ use \/ die \/ display \/ End
  BY <1>0, <1>10, SameKept DEF Exec, use, die, display, End, Handle
<1>11. CASE join
  BY <1>0, <1>11, SentKept DEF join
<1>12. CASE ClickClose \/ AnswerYes \/ AnswerNo \/ AnswerFatal
  BY <1>0, <1>12, SameKept
     DEF ClickClose, AnswerYes, AnswerNo, AnswerFatal, Answer
<1>13. CASE TypeQuit
  BY <1>0, <1>13, SentKept DEF TypeQuit
<1> QED
  BY <1>1, <1>2, <1>3, <1>4, <1>5, <1>6, <1>7, <1>8, <1>9, <1>10, <1>11, <1>12, <1>13
     DEF Next, PluginStep, CoreStep, GuiStep, User

(* The other parts: each has the steps that could break it.                *)
LEMMA RestKept ==
  ASSUME TypeOK, Next, JoinInv
  PROVE  Joined' /\ PipesGone' /\ DoneSeen'
<1>0. [Next]_vars
  OBVIOUS
<1>1. CASE PluginStep
  <2>1. UNCHANGED <<app, core, connected>>
    BY <1>1 DEF PluginStep, Register, open, ReadShutdown, ReadRegistered,
                ReadRefused, Forward, close, Return, Read, guiVars, coreVars
  <2> QED
    BY <1>0, <2>1, Exited DEF JoinInv, Joined, PipesGone, DoneSeen
<1>2. CASE RemovePlugin
  <2>1. plugin = "exited"
    <3>1. inPipe \in Seq(Requests)
      BY DEF TypeOK, RequestPipes
    <3>2. 1 \in 1..Len(inPipe) /\ inPipe[1].kind = "done"
      BY <1>2, <3>1 DEF RemovePlugin, Process
    <3> QED
      BY <3>2 DEF JoinInv, DoneSent
  <2> QED
    BY <1>2, <2>1
       DEF JoinInv, Joined, PipesGone, DoneSeen, RemovePlugin, Process, guiVars
<1>3. CASE ReturnFromCore
  BY <1>3 DEF JoinInv, Joined, PipesGone, DoneSeen, ReturnFromCore, guiVars
<1>4. CASE AddRegistration \/ InitiateShutdown \/ HandleQuit \/ DropEcho
  BY <1>4 DEF JoinInv, Joined, PipesGone, DoneSeen, AddRegistration,
              InitiateShutdown, HandleQuit, DropEcho, Process, guiVars
<1>5. CASE OthersLeave \/ Deliver \/ OthersQuit
  BY <1>5 DEF JoinInv, Joined, PipesGone, DoneSeen, OthersLeave, Deliver,
              OthersQuit, guiVars, coreVars
<1>6. CASE End
  BY <1>6 DEF JoinInv, Joined, PipesGone, DoneSeen, End, coreVars
<1>7. CASE Exec \/ use \/ die \/ display \/ join
  BY <1>7 DEF JoinInv, Joined, PipesGone, DoneSeen, Exec, use, die, display, join,
              Handle, coreVars
<1>8. CASE User
  BY <1>8 DEF JoinInv, Joined, PipesGone, DoneSeen, User, ClickClose, TypeQuit,
              AnswerYes, AnswerNo, AnswerFatal, AtWindow, Answer,
              QuitApplication, coreVars
<1> QED
  BY <1>1, <1>2, <1>3, <1>4, <1>5, <1>6, <1>7, <1>8 DEF Next, CoreStep, GuiStep

(* When main() returns, the detached plugin thread has used the mediator   *)
(* for the last time, however the program was quit.                        *)
THEOREM JoinIsEnough == Spec => []MediatorOutlivesPlugin
<1>1. Init => JoinInv
  BY DEF Init, JoinInv, Joined, PipesGone, DoneSeen, DoneSent
<1>2. TypeOK /\ JoinInv /\ [Next]_vars => JoinInv'
  <2> SUFFICES ASSUME TypeOK, JoinInv, [Next]_vars PROVE JoinInv'
    OBVIOUS
  <2>1. CASE Next
    BY <2>1, DoneSentKept, RestKept DEF JoinInv
  <2>2. CASE UNCHANGED vars
    BY <2>2 DEF vars, guiVars, coreVars, JoinInv, Joined, PipesGone, DoneSeen, DoneSent
  <2> QED
    BY <2>1, <2>2
<1>3. JoinInv => MediatorOutlivesPlugin
  BY DEF JoinInv, Joined, PipesGone, DoneSeen, MediatorOutlivesPlugin
<1> QED
  BY <1>1, <1>2, <1>3, TypeCorrect, PTL DEF Spec

===============================================================================
