-------------------------------- MODULE QtClient --------------------------------
(***************************************************************************)
(* The Qt client: the GUI thread (core/qt/lirch_qtgui.cpp.in,              *)
(* ui/qt/lirch_qt_interface.cpp), the thread of its plugin                 *)
(* (ui/qt/lirch_qt_plugin.cpp) and the core thread, with the mediator      *)
(* between them (ui/lirch_client_pipe.cpp).  The plugin thread changes the *)
(* state of the mediator and posts signals to the GUI; the GUI reads that  *)
(* state whenever it sends, closes or joins.  Of the core only what the    *)
(* client sees is left, of the window only what keeps it open.             *)
(***************************************************************************)
EXTENDS Integers, Sequences

CONSTANTS
  TypeList,        \* the message types the plugin registers for, in order
  RegMin, RegMax,  \* LIRCH_MSG_PRI_REG_MIN and LIRCH_MSG_PRI_REG_MAX
  MaxForwards      \* messages for the window to display (bound)

Types == {TypeList[i] : i \in 1..Len(TypeList)}

ASSUME QtClientAssumption ==
  /\ TypeList \in Seq(Types)
  /\ RegMin \in Int /\ RegMax \in Int /\ RegMin <= RegMax
  /\ MaxForwards \in Nat

VARIABLES
  app,         \* main(): loading, exec, quitting, joining, ended
  window,      \* hidden or shown
  clientPipe,  \* the window's client_pipe is set
  dialogs,     \* the open message boxes, each run by a nested event loop
  events,      \* signals posted to the GUI thread
  state,       \* the mediator's client_state
  reason,      \* the argument of mediator.close
  plugin,      \* the plugin thread: starting, opening, reading, closing,
               \* leaving, exited
  pluginPipe,  \* the pipe towards the plugin
  inPipe,      \* in_pipe
  core,        \* running, or returned from run_core
  connected,   \* the core has a pipe to the plugin
  others,      \* the other plugins: up, told to shut down, or gone
  free,        \* the priorities others have left to each type
  othersQuit,  \* somebody else has written a core_quit (once)
  typedQuit,   \* the user has sent /quit (once)
  forwards     \* messages the core has delivered to the plugin

guiVars == <<app, window, clientPipe, dialogs>>
mediator == <<state, reason>>
coreVars == <<core, connected, others, free>>
bounds == <<othersQuit, typedQuit, forwards>>
vars == <<guiVars, events, mediator, plugin, pluginPipe, inPipe, coreVars, bounds>>

\* A refused registration is tried once below the minimum before the plugin
\* gives up.
Priorities == (RegMin - 1)..RegMax

Plain(k) == [kind |-> k]
Registration(k, t, p) == [kind |-> k, type |-> t, priority |-> p]

Registrations(kinds) ==
  [kind : kinds, type : Types, priority : Priorities]

Boxes == {"fatal", "question"}
Signals == {"run", "display", "shutdown"}

\* What the core and the plugin write to each other.
Answers ==
  [kind : {"display", "shutdown"}] \cup Registrations({"registered", "refused"})

Requests ==
  [kind : {"display", "edict", "core_quit", "done"}]
    \cup Registrations({"register"})

BoxStacks == Seq(Boxes)
EventQueues == Seq(Signals)
AnswerPipes == Seq(Answers)
RequestPipes == Seq(Requests)

TypeOK ==
  /\ app \in {"loading", "exec", "quitting", "joining", "ended"}
  /\ window \in {"hidden", "shown"}
  /\ clientPipe \in BOOLEAN
  /\ dialogs \in BoxStacks
  /\ events \in EventQueues
  /\ state \in {"BEFORE", "DURING", "AFTER"}
  /\ reason \in {"none", "core_shutdown", "registration_failed"}
  /\ plugin \in {"starting", "opening", "reading", "closing", "leaving", "exited"}
  /\ pluginPipe \in AnswerPipes
  /\ inPipe \in RequestPipes
  /\ core \in {"running", "returned"}
  /\ connected \in BOOLEAN
  /\ others \in {"up", "told", "gone"}
  /\ free \in [Types -> SUBSET Priorities]
  /\ othersQuit \in BOOLEAN
  /\ typedQuit \in BOOLEAN
  /\ forwards \in 0..MaxForwards

\* The core thread is started before the event loop; both run from here on.
Init ==
  /\ app = "loading" /\ window = "hidden" /\ clientPipe = FALSE
  /\ dialogs = << >> /\ events = << >>
  /\ state = "BEFORE" /\ reason = "none" /\ plugin = "starting"
  /\ pluginPipe = << >> /\ inPipe = << >>
  /\ core = "running" /\ connected = TRUE /\ others = "up"
  /\ free \in [Types -> SUBSET Priorities]
  /\ othersQuit = FALSE /\ typedQuit = FALSE /\ forwards = 0

ready == state = "DURING"

send(m) ==
  IF ready THEN inPipe' = Append(inPipe, Plain(m)) ELSE UNCHANGED inPipe

-------------------------------------------------------------------------------
(* The plugin thread: run() of lirch_qt_plugin.cpp *)

emit(signal) == events' = Append(events, signal)

Register ==
  /\ plugin = "starting"
  /\ plugin' = "opening"
  /\ inPipe' = inPipe \o [i \in 1..Len(TypeList) |->
                            Registration("register", TypeList[i], RegMax)]
  /\ UNCHANGED <<guiVars, events, mediator, pluginPipe, coreVars, bounds>>

open ==
  /\ plugin = "opening"
  /\ plugin' = "reading"
  /\ state' = "DURING"
  /\ emit("run")
  /\ UNCHANGED <<guiVars, reason, pluginPipe, inPipe, coreVars, bounds>>

Read(kind) ==
  /\ plugin = "reading"
  /\ pluginPipe # << >>
  /\ Head(pluginPipe).kind = kind
  /\ pluginPipe' = Tail(pluginPipe)
  /\ UNCHANGED <<guiVars, coreVars, bounds>>

\* mediator.close: the state changes first, the signal follows.
BeginClose(r) ==
  plugin' = "closing" /\ state' = "AFTER" /\ reason' = r

ReadShutdown ==
  /\ Read("shutdown")
  /\ BeginClose("core_shutdown")
  /\ UNCHANGED <<events, inPipe>>

ReadRegistered ==
  /\ Read("registered")
  /\ UNCHANGED <<events, mediator, plugin, inPipe>>

\* Mutant: the plugin never gives up.
RetryForEver ==
  /\ Read("refused")
  /\ LET m == Head(pluginPipe)
     IN  inPipe' = Append(inPipe,
                          Registration("register", m.type, m.priority - 1))
  /\ UNCHANGED <<events, mediator, plugin>>

ReadRefused ==
  /\ Read("refused")
  /\ LET m == Head(pluginPipe)
     IN  \/ /\ m.priority < RegMin
            /\ BeginClose("registration_failed")
            /\ UNCHANGED inPipe
         \/ /\ m.priority >= RegMin
            /\ inPipe' = Append(inPipe,
                          Registration("register", m.type, m.priority - 1))
            /\ UNCHANGED <<mediator, plugin>>
  /\ UNCHANGED events

\* The mediator signals the GUI and the plugin echoes the message.
Forward ==
  /\ Read("display")
  /\ emit("display")
  /\ inPipe' = Append(inPipe, Plain("display"))
  /\ UNCHANGED <<mediator, plugin>>

\* Mutant: the loop ends without a word to the GUI.
close_silently ==
  /\ plugin = "closing"
  /\ plugin' = "leaving"
  /\ UNCHANGED <<guiVars, events, mediator, pluginPipe, inPipe, coreVars, bounds>>

close ==
  /\ plugin = "closing"
  /\ plugin' = "leaving"
  /\ emit("shutdown")
  /\ UNCHANGED <<guiVars, mediator, pluginPipe, inPipe, coreVars, bounds>>

\* run() returns to plugin_init, which writes the done message.
Return ==
  /\ plugin = "leaving"
  /\ plugin' = "exited"
  /\ inPipe' = Append(inPipe, Plain("done"))
  /\ UNCHANGED <<guiVars, events, mediator, pluginPipe, coreVars, bounds>>

PluginStep ==
  \/ Register
  \/ open
  \/ ReadShutdown
  \/ ReadRegistered
  \/ ReadRefused
  \/ Forward
  \/ close
  \/ Return

-------------------------------------------------------------------------------
(* The core thread, as far as the client sees it *)

ToPlugin(m) ==
  pluginPipe' = IF connected THEN Append(pluginPipe, m) ELSE pluginPipe

Process(kind) ==
  /\ core = "running"
  /\ connected \/ others # "gone"
  /\ inPipe # << >>
  /\ Head(inPipe).kind = kind
  /\ UNCHANGED <<guiVars, events, mediator, plugin, core, bounds>>

AddRegistration ==
  /\ Process("register")
  /\ inPipe' = Tail(inPipe)
  /\ LET m == Head(inPipe)
         answer == IF m.priority \in free[m.type] THEN "registered" ELSE "refused"
     IN  /\ ToPlugin(Registration(answer, m.type, m.priority))
         /\ free' = IF connected
                    THEN [free EXCEPT ![m.type] = @ \ {m.priority}]
                    ELSE free
  /\ UNCHANGED <<connected, others>>

InitiateShutdown ==
  /\ Process("core_quit")
  /\ inPipe' = Tail(inPipe)
  /\ ToPlugin(Plain("shutdown"))
  /\ others' = IF others = "up" THEN "told" ELSE others
  /\ UNCHANGED <<connected, free>>

\* The meatgrinder turns /q and /quit into a core_quit.  Once it has been told
\* to shut down it does not: its pipe brings the shutdown first.
HandleQuit ==
  /\ Process("edict")
  /\ inPipe' = IF others = "up" THEN Append(Tail(inPipe), Plain("core_quit"))
               ELSE Tail(inPipe)
  /\ UNCHANGED <<pluginPipe, connected, others, free>>

\* The echo of a message finds nobody below.
DropEcho ==
  /\ Process("display")
  /\ inPipe' = Tail(inPipe)
  /\ UNCHANGED <<pluginPipe, connected, others, free>>

RemovePlugin ==
  /\ Process("done")
  /\ inPipe' = Tail(inPipe)
  /\ connected' = FALSE
  /\ UNCHANGED <<pluginPipe, others, free>>

\* Mutant: the core does not wait for the plugins it has told to shut down.
ReturnAtOnce ==
  /\ core = "running"
  /\ others # "up"
  /\ core' = "returned"
  /\ UNCHANGED <<guiVars, events, mediator, plugin, pluginPipe, inPipe>>
  /\ UNCHANGED <<connected, others, free, bounds>>

\* run_core returns when the last pipe is gone.
ReturnFromCore ==
  /\ core = "running"
  /\ ~connected /\ others = "gone"
  /\ core' = "returned"
  /\ UNCHANGED <<guiVars, events, mediator, plugin, pluginPipe, inPipe>>
  /\ UNCHANGED <<connected, others, free, bounds>>

\* The others handle their shutdown messages and are removed.
OthersLeave ==
  /\ others = "told"
  /\ others' = "gone"
  /\ UNCHANGED <<guiVars, events, mediator, plugin, pluginPipe, inPipe>>
  /\ UNCHANGED <<core, connected, free, bounds>>

CoreStep ==
  \/ AddRegistration
  \/ InitiateShutdown
  \/ HandleQuit
  \/ DropEcho
  \/ RemovePlugin
  \/ ReturnFromCore

\* A message the plugin has registered for, or one that targets it.
Deliver ==
  /\ core = "running"
  /\ connected
  /\ forwards < MaxForwards
  /\ forwards' = forwards + 1
  /\ pluginPipe' = Append(pluginPipe, Plain("display"))
  /\ UNCHANGED <<guiVars, events, mediator, plugin, inPipe, coreVars>>
  /\ UNCHANGED <<othersQuit, typedQuit>>

\* A plugin such as linuxtester or the console client quits by itself.
OthersQuit ==
  /\ others = "up"
  /\ ~othersQuit
  /\ othersQuit' = TRUE
  /\ inPipe' = Append(inPipe, Plain("core_quit"))
  /\ UNCHANGED <<guiVars, events, mediator, plugin, pluginPipe, coreVars>>
  /\ UNCHANGED <<typedQuit, forwards>>

-------------------------------------------------------------------------------
(* The GUI thread: main() and the slots of LirchQtInterface.  A message    *)
(* box runs an event loop of its own: signals are handled while it is      *)
(* open, the user can only use the topmost box.                            *)

\* mediator.load, then the event loop.
Exec ==
  /\ app = "loading"
  /\ app' = "exec"
  /\ UNCHANGED <<window, clientPipe, dialogs, events, mediator, plugin>>
  /\ UNCHANGED <<pluginPipe, inPipe, coreVars, bounds>>

Handle(signal) ==
  /\ app = "exec"
  /\ events # << >>
  /\ Head(events) = signal
  /\ events' = Tail(events)
  /\ UNCHANGED <<app, mediator, plugin, pluginPipe, inPipe, coreVars, bounds>>

\* closeEvent accepts the event when the core is gone, but goes on to ask in
\* any case, and the answer decides.  A window that is being closed ignores
\* another close().
closeEvent ==
  dialogs' = IF \E i \in 1..Len(dialogs) : dialogs[i] = "question"
             THEN dialogs ELSE Append(dialogs, "question")

use ==
  /\ Handle("run")
  /\ \/ /\ ready
        /\ clientPipe' = TRUE /\ window' = "shown"
        /\ UNCHANGED dialogs
     \/ /\ ~ready
        /\ dialogs' = Append(dialogs, "fatal")
        /\ UNCHANGED <<clientPipe, window>>

die ==
  /\ Handle("shutdown")
  /\ closeEvent
  /\ UNCHANGED <<clientPipe, window>>

display ==
  /\ Handle("display")
  /\ UNCHANGED <<clientPipe, window, dialogs>>

\* The user has the window to himself.
AtWindow ==
  /\ app = "exec" /\ window = "shown" /\ dialogs = << >>
  /\ UNCHANGED <<app, window, clientPipe, events, mediator, plugin>>
  /\ UNCHANGED <<pluginPipe, coreVars, othersQuit, forwards>>

ClickClose ==
  /\ AtWindow
  /\ closeEvent
  /\ UNCHANGED <<inPipe, typedQuit>>

TypeQuit ==
  /\ AtWindow
  /\ ~typedQuit
  /\ typedQuit' = TRUE
  /\ send("edict")
  /\ UNCHANGED dialogs

Top == dialogs[Len(dialogs)]

Answer(box) ==
  /\ app = "exec"
  /\ dialogs # << >>
  /\ Top = box
  /\ UNCHANGED <<clientPipe, events, mediator, plugin, pluginPipe, inPipe>>
  /\ UNCHANGED <<coreVars, bounds>>

\* The last window has been closed: all event loops end, the nested ones too.
QuitApplication ==
  app' = "quitting" /\ window' = "hidden" /\ dialogs' = << >>

AnswerYes == Answer("question") /\ QuitApplication

\* Qt also quits when a message box was the last window to be seen; not all
\* versions do so when it belongs to a window that is hidden.
AnswerNo ==
  /\ Answer("question")
  /\ \/ /\ dialogs' = SubSeq(dialogs, 1, Len(dialogs) - 1)
        /\ UNCHANGED <<app, window>>
     \/ window = "hidden" /\ QuitApplication

\* die() goes on to close the window.
AnswerFatal ==
  /\ Answer("fatal")
  /\ \/ /\ dialogs' = Append(SubSeq(dialogs, 1, Len(dialogs) - 1), "question")
        /\ UNCHANGED <<app, window>>
     \/ window = "hidden" /\ QuitApplication

\* Mutant: the core is not told.
join_only ==
  /\ app = "quitting"
  /\ app' = "joining"
  /\ UNCHANGED <<window, clientPipe, dialogs, events, mediator, plugin>>
  /\ UNCHANGED <<pluginPipe, inPipe, coreVars, bounds>>

\* aboutToQuit: mediator.join.
join ==
  /\ app = "quitting"
  /\ app' = "joining"
  /\ send("core_quit")
  /\ UNCHANGED <<window, clientPipe, dialogs, events, mediator, plugin>>
  /\ UNCHANGED <<pluginPipe, coreVars, bounds>>

\* core_thread->join() returns, and main() does.
End ==
  /\ app = "joining"
  /\ core = "returned"
  /\ app' = "ended"
  /\ UNCHANGED <<window, clientPipe, dialogs, events, mediator, plugin>>
  /\ UNCHANGED <<pluginPipe, inPipe, coreVars, bounds>>

GuiStep == Exec \/ use \/ die \/ display \/ join \/ End

User == ClickClose \/ TypeQuit \/ AnswerYes \/ AnswerNo \/ AnswerFatal

-------------------------------------------------------------------------------
Next ==
  PluginStep \/ CoreStep \/ OthersLeave \/ Deliver \/ OthersQuit \/ GuiStep \/ User

Spec == Init /\ [][Next]_vars

\* All threads run; the user need not do anything, and nobody need quit.
FairSpec ==
  /\ Spec
  /\ WF_vars(PluginStep)
  /\ WF_vars(CoreStep)
  /\ WF_vars(OthersLeave)
  /\ WF_vars(GuiStep)

-------------------------------------------------------------------------------
(* When main() returns, and the mediator and the window with it, the       *)
(* plugin thread, which is detached, has used the mediator for the last    *)
(* time.                                                                   *)
MediatorOutlivesPlugin == app = "ended" => plugin = "exited"

(* "For making sure the core thread joins before shutdown"                 *)
(* (lirch_client_pipe.h): once the window has been closed the program      *)
(* ends, whoever quits at the same time and whatever the plugin is doing.  *)
(* A plugin that gave up registering is the exception: it has closed the   *)
(* mediator, which then sends no core_quit, and the join is for ever.      *)
ClosingEnds ==
  app = "quitting" ~> app = "ended" \/ reason = "registration_failed"

(* A mediator that closes is noticed: the user is asked whether to close   *)
(* the window, or has closed it, also when boxes are open already or the   *)
(* window was not shown yet.                                               *)
CloseIsNoticed ==
  plugin = "closing" ~>
    app # "exec" \/ \E i \in 1..Len(dialogs) : dialogs[i] = "question"

===============================================================================
