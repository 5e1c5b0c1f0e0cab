------------------------------ MODULE Conversation ------------------------------
(***************************************************************************)
(* The way of a line from the keyboard to the screen and the log, in one   *)
(* client: a user interface, the meatgrinder, the antenna, the masseuse    *)
(* and the logger, which only share the core.  The interface is either the *)
(* console (ui/basic: a thread reads stdin, the plugin prints) or the Qt   *)
(* window (ui/qt: the GUI thread with its tabs, and the plugin).           *)
(*                                                                         *)
(* The core takes messages in the order they were written, and a plugin    *)
(* reads its pipe in order; so a message that is written goes to the pipe  *)
(* of the plugin that gets it next, and the time it waits in in_pipe is    *)
(* part of the time it waits there.  Who gets a message, and in which      *)
(* order, is fixed once all have registered (HandlerStartup): the field to *)
(* holds the plugins a message has still to visit.  Plugins that only echo *)
(* are left out.  The antenna hears what it sends: loopback.               *)
(***************************************************************************)
EXTENDS Naturals, SequencesExt, Meatgrinder

CONSTANTS
  Default,      \* LIRCH_DEFAULT_CHANNEL
  Blank,        \* the empty channel name
  Transfers,    \* the text of the tab for file transfers
  Named,        \* the channels the user may name
  ConsoleTexts, \* what the user may type first, second, ...
  QtTexts,
  MaxActs,      \* bounds, for each kind of ui: what the user types, chooses
  MaxSessions   \*   and clicks, and how often the program is started

Channels == Named \cup {Default, Blank, Transfers}

\* What may be typed: a word with the slash, and words that may name channels.
Texts == [cmd : STRING, args : Seq(Channels)]

\* The words the built-in macros add are among them.
ASSUME ConversationAssumption ==
  /\ Default # Blank
  /\ {"", "macros", "replacements"} \subseteq Channels
  /\ ConsoleTexts \in Seq(SUBSET Texts) /\ QtTexts \in Seq(SUBSET Texts)

Plugins == {"meatgrinder", "antenna", "masseuse", "logger", "ui"}

VARIABLES
  ui,           \* console, qt, or qtFirst: qt that registered before the logger
  phase,        \* running, stopping, stopped, or crashed
  pipe,         \* the pipe of each plugin, with what waits for it in in_pipe
  macros,       \* text_replacements
  disabled, greylist,  \* logging_disabled, the channels that are on all the same
  saved,        \* "disabled" in the settings file
  log,          \* the lines in the log files, over all sessions
  toReader,     \* the pipe towards the thread that reads stdin
  channel,      \* its channel
  only,         \* the channel the console shows, Blank for all
  tabs,         \* the channels of the Qt window
  connected,    \* its menu entry Connect is checked
  events,       \* signals posted to the GUI thread
  joined,       \* the channels the antenna has announced
  shown,        \* the lines shown in this session, in order
  session,
  typed,        \* history: what the user typed, and the channel it was sent to
  mode,         \* history: the mode of logging the user chose
  mayLog,       \* history: lines that were ever allowed in the log, and those
  mustLog,      \*   always allowed since they were typed, not in a lost mode
  waited,       \* history: the user acted only when nothing was under way
  acts          \* what the user has done, for the bound

grinderVars == macros
loggerVars == <<disabled, greylist, saved, log>>
consoleVars == <<toReader, channel, only>>
qtVars == <<tabs, connected, events>>
history == <<typed, mode, mayLog, mustLog, waited, acts, session>>
vars == <<ui, phase, pipe, grinderVars, loggerVars, consoleVars, qtVars,
          joined, shown, history>>

-------------------------------------------------------------------------------
(* Messages *)

Modes == {"on", "off", "default"}

\* Modes the logger cannot know of: what was chosen before a crash, which the
\* settings file need not hold, and DEFAULT after a restart.
LostModes == {"unsaved", "unkept"}

\* Who gets a message of each kind, by priority.
Route(kind) ==
  CASE kind \in {"raw_edict", "register_replacer", "display_commands"} ->
         <<"meatgrinder">>
    [] kind = "edict" -> <<"antenna">>
    [] kind \in {"received", "notify"} -> <<"masseuse">>
    [] kind = "display" ->
         IF ui = "qtFirst" THEN <<"ui", "logger">> ELSE <<"logger", "ui">>
    [] kind = "set_channel" ->
         IF ui = "console" THEN <<"antenna", "ui">> ELSE <<"ui", "antenna">>
    [] kind = "leave_channel" ->
         IF ui = "console" THEN <<"antenna">> ELSE <<"ui", "antenna">>
    [] kind = "only" -> <<"ui">>
    [] kind \in {"logging", "shutdown"} -> <<"logger">>

\* line is the number of the typed line it stems from, 0 for none.
Message(kind, line, text, chan) ==
  [kind |-> kind, line |-> line, cmd |-> text.cmd, args |-> text.args,
   channel |-> chan, to |-> Route(kind)]

NoText == Line("", << >>)

About(kind, line, chan) == Message(kind, line, NoText, chan)

\* Nobody reads what is behind the shutdown message.
Put(pipes, m) ==
  IF phase = "running"
  THEN [pipes EXCEPT ![Head(m.to)] = Append(@, m)]
  ELSE pipes

Echo(pipes, m) ==
  IF Tail(m.to) = << >> THEN pipes ELSE Put(pipes, [m EXCEPT !.to = Tail(@)])

First(p) == Head(pipe[p])

Rest(p) == [pipe EXCEPT ![p] = Tail(@)]

Reads(p, kind) ==
  /\ phase \in {"running", "stopping"}
  /\ pipe[p] # << >>
  /\ First(p).kind = kind

Swallow(p) == pipe' = Rest(p)

Write(p, m) == pipe' = Put(Rest(p), m)

Ended == phase \in {"stopped", "crashed"}

Idle ==
  /\ \A p \in Plugins : pipe[p] = << >>
  /\ events = << >>

-------------------------------------------------------------------------------
(* A session starts when all plugins have registered, and the set_channel  *)
(* with which the userlist answers the first nick has made the round.      *)
FirstToReader == IF ui = "console" THEN <<Default>> ELSE << >>

FirstTabs == IF ui = "console" THEN {} ELSE {Default}

Init ==
  /\ ui \in {"console", "qt", "qtFirst"}
  /\ phase = "running"
  /\ pipe = [p \in Plugins |-> << >>]
  /\ macros = BuiltIn
  /\ disabled = FALSE /\ greylist = {} /\ saved = FALSE /\ log = << >>
  /\ toReader = FirstToReader /\ channel = Default /\ only = Blank
  /\ tabs = FirstTabs /\ connected = TRUE /\ events = << >>
  /\ joined = {Default} /\ shown = << >>
  /\ typed = << >> /\ mode = "on" /\ mayLog = {} /\ mustLog = {}
  /\ waited = TRUE /\ acts = 0 /\ session = 1

\* The program is started again; the settings are read.
Restart ==
  /\ Ended
  /\ session < MaxSessions[ui]
  /\ session' = session + 1
  /\ phase' = "running"
  /\ pipe' = [p \in Plugins |-> << >>]
  /\ macros' = BuiltIn
  /\ disabled' = saved /\ greylist' = {}
  /\ toReader' = FirstToReader /\ channel' = Default /\ only' = Blank
  /\ tabs' = FirstTabs /\ connected' = TRUE /\ events' = << >>
  /\ joined' = {Default} /\ shown' = << >>
  /\ mode' = IF phase = "crashed" THEN "unsaved"
             ELSE IF mode = "default" THEN "unkept" ELSE mode
  /\ UNCHANGED <<ui, saved, log, typed, mayLog, mustLog, waited, acts>>

\* Undefined behaviour that ends the program.
Crash ==
  /\ phase' = "crashed"
  /\ pipe' = [p \in Plugins |-> << >>]

\* core_quit: every plugin gets its shutdown message.
InitiateShutdown(pipes) ==
  /\ phase' = "stopping"
  /\ pipe' = IF phase = "stopping" THEN pipes
             ELSE [p \in Plugins |-> Append(pipes[p], About("shutdown", 0, Blank))]

\* Mutant: the settings are not written.
StopUnsaved(p) ==
  /\ Reads(p, "shutdown")
  /\ pipe' = Rest(p)
  /\ phase' = IF \A q \in Plugins \ {p} : pipe[q] = << >>
              THEN "stopped" ELSE "stopping"
  /\ UNCHANGED <<ui, macros, loggerVars, consoleVars, qtVars>>
  /\ UNCHANGED <<joined, shown, history>>

\* A plugin returns from run(); the program ends with the last one.
Stop(p) ==
  /\ Reads(p, "shutdown")
  /\ pipe' = Rest(p)
  /\ phase' = IF \A q \in Plugins \ {p} : pipe[q] = << >>
              THEN "stopped" ELSE "stopping"
  /\ saved' = IF p = "logger" THEN disabled ELSE saved
  /\ UNCHANGED <<ui, macros, disabled, greylist, log, consoleVars, qtVars>>
  /\ UNCHANGED <<joined, shown, history>>

-------------------------------------------------------------------------------
(* The meatgrinder *)

Grinds(kind) == Reads("meatgrinder", kind)

Edict == First("meatgrinder")

\* Lines nobody says anything about: the empty one.
IsEmpty(line) == line.cmd = "" /\ line.args = << >>

DropEmpty ==
  /\ Grinds("raw_edict")
  /\ IsEmpty(Edict)
  /\ Swallow("meatgrinder")
  /\ UNCHANGED <<phase, macros>>

\* Mutant: recursion without a message.
RewriteInPlace ==
  /\ Grinds("raw_edict")
  /\ \E m \in Rewritten(macros, Edict) :
       pipe' = [pipe EXCEPT !["meatgrinder"] = <<m>> \o Tail(@)]
  /\ UNCHANGED <<phase, macros>>

\* "Recurse if the type of the message has been changed"
Rewrite ==
  /\ Grinds("raw_edict")
  /\ ~IsEmpty(Edict)
  /\ \E m \in Rewritten(macros, Edict) : Write("meatgrinder", m)
  /\ UNCHANGED <<phase, macros>>

\* A line no macro rewrites, for the handler of one of these words.
Handles(words) ==
  /\ Grinds("raw_edict")
  /\ ~IsEmpty(Edict)
  /\ Rewritten(macros, Edict) = {}
  /\ Edict.cmd \in words

Known == IF ui = "console" THEN Handlers \cup {"/only"} ELSE Handlers

Answer(kind, chan) ==
  /\ Write("meatgrinder", About(kind, Edict.line, chan))
  /\ UNCHANGED <<phase, macros>>

\* Undefined behaviour: the program ends, or goes on as if nothing had been.
Undefined ==
  /\ Crash \/ (Swallow("meatgrinder") /\ UNCHANGED phase)
  /\ UNCHANGED macros

Complain ==
  /\ Grinds("raw_edict")
  /\ ~IsEmpty(Edict)
  /\ Rewritten(macros, Edict) = {}
  /\ Edict.cmd \notin Known
  /\ Answer("notify", Edict.channel)

HandleNormal ==
  /\ Handles({"", "/say"})
  /\ Answer("edict", Edict.channel)

HandleMe ==
  /\ Handles({"/me"})
  /\ IF Edict.args = << >>
     THEN Swallow("meatgrinder") /\ UNCHANGED <<phase, macros>>
     ELSE Answer("edict", Edict.channel)

HandleQuit ==
  /\ Handles({"/q", "/quit"})
  /\ InitiateShutdown(Rest("meatgrinder"))
  /\ UNCHANGED macros

\* The rest of the line is the channel.
Argument == IF Edict.args = << >> THEN Blank ELSE Edict.args[1]

HandleChannelChange ==
  /\ Handles({"/channel"})
  /\ Answer("set_channel", Argument)

HandleChannelLeave ==
  /\ Handles({"/leave"})
  /\ Answer("leave_channel", Argument)

HandleOnly ==
  /\ Handles({"/only"} \cap Known)
  /\ Answer("only", Argument)

HandleCommands ==
  /\ Handles({"/commands"})
  /\ Answer("display_commands", Edict.channel)

\* A definition is a message to the meatgrinder itself.
Register(text) ==
  /\ pipe' = Put(Rest("meatgrinder"),
                 Message("register_replacer", Edict.line, text, Edict.channel))
  /\ UNCHANGED <<phase, macros>>

\* The first of the words is looked at before they are counted.
HandleUserCommand ==
  /\ Handles({"/macro"})
  /\ \/ Edict.args = << >> /\ Undefined
     \/ /\ Len(Edict.args) \in 1..2
        /\ Swallow("meatgrinder")
        /\ UNCHANGED <<phase, macros>>
     \/ Len(Edict.args) > 2 /\ Register(Line("ADD", Edict.args))

HandleEraseCommand ==
  /\ Handles({"/macro_erase"})
  /\ \/ Edict.args = << >> /\ Undefined
     \/ Edict.args # << >> /\ Register(Line("REMOVE", Edict.args \o <<"", "">>))

Definition ==
  LET m == First("meatgrinder") IN Macro(m.args[1], m.args[2], m.args[3], << >>)

Define ==
  /\ Grinds("register_replacer")
  /\ First("meatgrinder").cmd = "ADD"
  /\ macros' = With(macros, Definition)
  /\ Swallow("meatgrinder")
  /\ UNCHANGED phase

\* Without a pattern, any macro for the word: erase(find(command)), which
\* is undefined where there is none.
Erase ==
  /\ Grinds("register_replacer")
  /\ First("meatgrinder").cmd = "REMOVE"
  /\ LET found == IF Definition.pattern = ""
                  THEN Macros(macros, Definition.command)
                  ELSE Matching(macros, Definition)
     IN  \/ /\ \E m \in found : macros' = Without(macros, m)
            /\ Swallow("meatgrinder")
            /\ UNCHANGED phase
         \/ /\ found = {} /\ Definition.pattern = ""
            /\ Undefined
         \/ /\ found = {} /\ Definition.pattern # ""
            /\ Swallow("meatgrinder")
            /\ UNCHANGED <<phase, macros>>

DisplayCommands ==
  /\ Grinds("display_commands")
  /\ Answer("notify", Edict.channel)

MeatgrinderStep ==
  /\ \/ DropEmpty \/ Rewrite \/ Complain
     \/ HandleNormal \/ HandleMe \/ HandleQuit
     \/ HandleChannelChange \/ HandleChannelLeave \/ HandleOnly
     \/ HandleCommands \/ HandleUserCommand \/ HandleEraseCommand
     \/ Define \/ Erase \/ DisplayCommands
  /\ UNCHANGED <<ui, loggerVars, consoleVars, qtVars, joined, shown, history>>

-------------------------------------------------------------------------------
(* The antenna and the masseuse *)

\* Mutant: one's own line is shown at once, and again when it comes back.
SendEdictAndShow ==
  /\ Reads("antenna", "edict")
  /\ LET m == About("received", First("antenna").line, First("antenna").channel)
     IN  pipe' = Put(Put(Rest("antenna"), m), m)
  /\ UNCHANGED joined

\* The datagram comes back to its sender.
SendEdict ==
  /\ Reads("antenna", "edict")
  /\ Write("antenna", About("received", First("antenna").line,
                                        First("antenna").channel))
  /\ UNCHANGED joined

SendJoin ==
  /\ Reads("antenna", "set_channel")
  /\ pipe' = Echo(Rest("antenna"), First("antenna"))
  /\ joined' = joined \cup {First("antenna").channel}

\* To the others, who leaves the channel without a name leaves altogether.
SendLeft ==
  /\ Reads("antenna", "leave_channel")
  /\ pipe' = Echo(Rest("antenna"), First("antenna"))
  /\ joined' = IF First("antenna").channel = Blank THEN {}
               ELSE joined \ {First("antenna").channel}

AntennaStep ==
  /\ SendEdict \/ SendJoin \/ SendLeft
  /\ UNCHANGED <<ui, phase, macros, loggerVars, consoleVars, qtVars>>
  /\ UNCHANGED <<shown, history>>

Translate ==
  /\ \E kind \in {"received", "notify"} : Reads("masseuse", kind)
  /\ Write("masseuse", About("display", First("masseuse").line,
                                        First("masseuse").channel))

MasseuseStep ==
  /\ Translate
  /\ UNCHANGED <<ui, phase, macros, loggerVars, consoleVars, qtVars>>
  /\ UNCHANGED <<joined, shown, history>>

-------------------------------------------------------------------------------
(* The logger *)

\* An entry of the greylist overrides the mode.
Logs(chan) ==
  /\ ~disabled \/ chan \in greylist
  /\ chan # Blank

LogDisplay ==
  /\ Reads("logger", "display")
  /\ LET m == First("logger")
     IN  /\ pipe' = Echo(Rest("logger"), m)
         /\ log' = IF Logs(m.channel) THEN Append(log, m.line) ELSE log
  /\ UNCHANGED <<disabled, greylist>>

\* Mutant: the default channel is forgotten.
SetModeOnOff ==
  /\ Reads("logger", "logging")
  /\ Swallow("logger")
  /\ disabled' = (First("logger").cmd # "on")
  /\ greylist' = {}
  /\ UNCHANGED log

\* "Changing mode clears the channel list"
SetMode ==
  /\ Reads("logger", "logging")
  /\ Swallow("logger")
  /\ LET m == First("logger").cmd
     IN  /\ disabled' = (m # "on")
         /\ greylist' = IF m = "default" THEN {Default} ELSE {}
  /\ UNCHANGED log

LoggerStep ==
  /\ LogDisplay \/ SetMode
  /\ UNCHANGED <<ui, phase, macros, saved, consoleVars, qtVars>>
  /\ UNCHANGED <<joined, shown, history>>

-------------------------------------------------------------------------------
(* The console: the plugin *)

Reading == First("ui")

PrintLine ==
  /\ Reads("ui", "display")
  /\ pipe' = Echo(Rest("ui"), Reading)
  /\ shown' = IF only # Blank /\ Reading.channel \notin {only, Blank}
              THEN shown ELSE Append(shown, Reading.line)
  /\ UNCHANGED consoleVars

\* Mutant: the question is forwarded as well.
TellAnyChannel ==
  /\ Reads("ui", "set_channel")
  /\ Swallow("ui")
  /\ toReader' = Append(toReader, Reading.channel)
  /\ UNCHANGED <<shown, channel, only>>

\* Without a channel, the question which one is shown.
TellChannel ==
  /\ Reads("ui", "set_channel")
  /\ IF Reading.channel = Blank
     THEN /\ Write("ui", About("notify", Reading.line, Blank))
          /\ UNCHANGED toReader
     ELSE /\ Swallow("ui")
          /\ toReader' = Append(toReader, Reading.channel)
  /\ UNCHANGED <<shown, channel, only>>

ShowOnly ==
  /\ Reads("ui", "only")
  /\ Swallow("ui")
  /\ only' = Reading.channel
  /\ UNCHANGED <<shown, toReader, channel>>

ConsoleStep ==
  /\ ui = "console"
  /\ PrintLine \/ TellChannel \/ ShowOnly
  /\ UNCHANGED <<ui, phase, macros, loggerVars, qtVars, joined, history>>

-------------------------------------------------------------------------------
(* The Qt client: the plugin and the GUI thread *)

Qt == ui \in {"qt", "qtFirst"}

Signal == [kind : {"display", "set_channel", "leave_channel"},
           line : Nat, channel : Channels]

\* Mutant: the window's leave_channel does not get to the antenna.
EmitAndKeepLeave ==
  /\ \E kind \in {"display", "set_channel", "leave_channel"} : Reads("ui", kind)
  /\ pipe' = IF Reading.kind = "leave_channel" THEN Rest("ui")
             ELSE Echo(Rest("ui"), Reading)
  /\ events' = Append(events, [kind |-> Reading.kind, line |-> Reading.line,
                               channel |-> Reading.channel])
  /\ UNCHANGED <<ui, phase, macros, loggerVars, consoleVars, tabs, connected>>
  /\ UNCHANGED <<joined, shown, history>>

\* The mediator turns a message into a signal.
Emit ==
  /\ \E kind \in {"display", "set_channel", "leave_channel"} : Reads("ui", kind)
  /\ pipe' = Echo(Rest("ui"), Reading)
  /\ events' = Append(events, [kind |-> Reading.kind, line |-> Reading.line,
                               channel |-> Reading.channel])
  /\ UNCHANGED <<ui, phase, macros, loggerVars, consoleVars, tabs, connected>>
  /\ UNCHANGED <<joined, shown, history>>

Takes(kind) ==
  /\ phase \in {"running", "stopping"}
  /\ events # << >>
  /\ Head(events).kind = kind
  /\ events' = Tail(events)

\* A channel without a name stands for all of them, and for itself: with
\* such a tab, display calls itself for ever.
display ==
  /\ Takes("display")
  /\ LET e == Head(events)
     IN  IF e.channel = Blank /\ Blank \in tabs
         THEN Crash /\ UNCHANGED shown
         ELSE /\ shown' = IF /\ connected
                             /\ IF e.channel = Blank THEN tabs # {}
                                ELSE e.channel \in tabs
                          THEN Append(shown, e.line) ELSE shown
              /\ UNCHANGED <<phase, pipe>>
  /\ UNCHANGED tabs

\* Mutant: set_channel is sent again whether or not there is a tab.
FocusAndTell ==
  /\ Takes("set_channel")
  /\ LET e == Head(events)
     IN  IF connected
         THEN /\ tabs' = tabs \cup {e.channel}
              /\ pipe' = Put(pipe, About("set_channel", e.line, e.channel))
         ELSE UNCHANGED <<tabs, pipe>>
  /\ UNCHANGED <<phase, shown>>

\* focus() and request_new_channel(): a channel without a tab gets one, and
\* set_channel is sent again.
focus ==
  /\ Takes("set_channel")
  /\ LET e == Head(events)
     IN  IF e.channel \notin tabs /\ connected
         THEN /\ tabs' = tabs \cup {e.channel}
              /\ pipe' = Put(pipe, About("set_channel", e.line, e.channel))
         ELSE UNCHANGED <<tabs, pipe>>
  /\ UNCHANGED <<phase, shown>>

leave ==
  /\ Takes("leave_channel")
  /\ tabs' = tabs \ {Head(events).channel}
  /\ UNCHANGED <<phase, pipe, shown>>

WindowStep ==
  /\ display \/ focus \/ leave
  /\ UNCHANGED <<ui, macros, loggerVars, consoleVars, connected, joined, history>>

-------------------------------------------------------------------------------
(* The user *)

May(m, chan) ==
  CASE m \in {"on", "unsaved"} -> TRUE  \* nothing is held against the logger
    [] m = "off" -> FALSE
    [] m \in {"default", "unkept"} -> chan = Default

\* What the logger owes the user.  In a lost mode it is nothing, so DEFAULT is
\* excepted from the restart on; DefaultModeIsKept is about what that costs.
Must(m, chan) ==
  /\ m \notin LostModes /\ May(m, chan)
  /\ chan # Blank

Act == phase = "running" /\ acts < MaxActs[ui] /\ acts' = acts + 1

MayType(texts, text) ==
  Len(typed) < Len(texts) /\ text \in texts[Len(typed) + 1]

\* A line is sent under the channel chan.
SendLine(text, chan) ==
  /\ Act
  /\ LET n == Len(typed) + 1
     IN  /\ pipe' = Put(pipe, Message("raw_edict", n, text, chan))
         /\ typed' = Append(typed, [cmd |-> text.cmd, args |-> text.args,
                                    channel |-> chan, session |-> session])
         /\ mayLog' = IF May(mode, chan) THEN mayLog \cup {n} ELSE mayLog
         /\ mustLog' = IF Must(mode, chan) THEN mustLog \cup {n} ELSE mustLog
  /\ UNCHANGED <<ui, phase, macros, loggerVars, joined, shown>>
  /\ UNCHANGED <<mode, session>>

\* Mutant: the line is sent before the reader looks for a set_channel.
SendThenLook(text) ==
  /\ ui = "console" /\ MayType(ConsoleTexts, text)
  /\ channel' = IF toReader = << >> THEN channel ELSE Head(toReader)
  /\ toReader' = IF toReader = << >> THEN << >> ELSE Tail(toReader)
  /\ SendLine(text, channel)
  /\ waited' = (waited /\ Idle)
  /\ UNCHANGED <<only, qtVars>>

\* The thread that reads stdin looks for one set_channel before each line.
send_input(text) ==
  /\ ui = "console" /\ MayType(ConsoleTexts, text)
  /\ channel' = IF toReader = << >> THEN channel ELSE Head(toReader)
  /\ toReader' = IF toReader = << >> THEN << >> ELSE Tail(toReader)
  /\ SendLine(text, channel')
  /\ waited' = (waited /\ Idle)
  /\ UNCHANGED <<only, qtVars>>

\* The end of the input, or the window is closed.
Quit ==
  /\ phase = "running"
  /\ InitiateShutdown(pipe)
  /\ UNCHANGED <<ui, macros, loggerVars, consoleVars, qtVars, joined, shown>>
  /\ UNCHANGED history

\* Into the current tab, whose text is taken for the channel.
request_edict_send(text) ==
  /\ Qt /\ connected /\ MayType(QtTexts, text)
  /\ \E tab \in tabs \cup {Transfers} : SendLine(text, tab)
  /\ UNCHANGED <<consoleVars, qtVars, waited>>

\* The menu entry Connect, checked or unchecked.
Connect ==
  /\ Qt /\ Act
  /\ waited' = (waited /\ Idle)
  /\ connected' = ~connected
  /\ LET kind == IF connected THEN "leave_channel" ELSE "set_channel"
         order == SetToSeq(tabs)
     IN  pipe' = [pipe EXCEPT !["ui"] =
                    @ \o [i \in DOMAIN order |-> About(kind, 0, order[i])]]
  /\ UNCHANGED <<ui, phase, macros, loggerVars, consoleVars, tabs, events>>
  /\ UNCHANGED <<joined, shown, typed, mode, mayLog, mustLog, session>>

\* The setup wizard tells the logger the mode.
ChooseMode(m) ==
  /\ Qt /\ Act
  /\ pipe' = Put(pipe, Message("logging", 0, Line(m, << >>), Blank))
  /\ mode' = m
  /\ mayLog' = mayLog \cup {n \in 1..Len(typed) : May(m, typed[n].channel)}
  /\ mustLog' = {n \in mustLog : Must(m, typed[n].channel)}
  /\ UNCHANGED <<ui, phase, macros, loggerVars, consoleVars, qtVars>>
  /\ UNCHANGED <<joined, shown, typed, waited, session>>

UserStep ==
  \/ \E text \in UNION Range(ConsoleTexts) : send_input(text)
  \/ Quit
  \/ \E text \in UNION Range(QtTexts) : request_edict_send(text)
  \/ Connect
  \/ \E m \in Modes : ChooseMode(m)
  \/ Restart

PluginStep(p) ==
  \/ Stop(p)
  \/ p = "meatgrinder" /\ MeatgrinderStep
  \/ p = "antenna" /\ AntennaStep
  \/ p = "masseuse" /\ MasseuseStep
  \/ p = "logger" /\ LoggerStep
  \/ p = "ui" /\ (ConsoleStep \/ (Qt /\ Emit))

Next ==
  \/ \E p \in Plugins : PluginStep(p)
  \/ Qt /\ WindowStep
  \/ UserStep

Spec == Init /\ [][Next]_vars

\* Plugins and the GUI thread go on; users need not do anything.
FairSpec ==
  /\ Spec
  /\ \A p \in Plugins : WF_vars(PluginStep(p))
  /\ WF_vars(Qt /\ WindowStep)

-------------------------------------------------------------------------------
(* Types *)

Kinds == {"raw_edict", "register_replacer", "display_commands", "edict",
          "received", "notify", "display", "set_channel", "leave_channel",
          "only", "logging", "shutdown"}

IsMessage(m) ==
  /\ m.kind \in Kinds
  /\ m.line \in 0..Len(typed)
  /\ m.channel \in Channels
  /\ m.to # << >> /\ Range(m.to) \subseteq Range(Route(m.kind))

TypeOK ==
  /\ phase \in {"running", "stopping", "stopped", "crashed"}
  /\ \A p \in Plugins : \A i \in 1..Len(pipe[p]) :
       IsMessage(pipe[p][i]) /\ (pipe[p][i].kind # "shutdown" => Head(pipe[p][i].to) = p)
  /\ greylist \subseteq {Default}
  /\ disabled \in BOOLEAN /\ saved \in BOOLEAN /\ connected \in BOOLEAN
  /\ toReader \in Seq(Channels \ {Blank})
  /\ channel \in Channels /\ only \in Channels
  /\ tabs \subseteq Channels /\ joined \subseteq Channels
  /\ events \in Seq(Signal)
  /\ log \in Seq(Nat) /\ shown \in Seq(Nat)
  /\ mode \in Modes \cup LostModes
  /\ mayLog \subseteq 1..Len(typed) /\ mustLog \subseteq mayLog

-------------------------------------------------------------------------------
(* Properties *)

InFlight(n) ==
  \/ \E p \in Plugins : \E i \in 1..Len(pipe[p]) : pipe[p][i].line = n
  \/ \E i \in 1..Len(events) : events[i].line = n

\* A command without a word behind it, or with the empty name.
Bare(line, cmd) == line.cmd = cmd /\ (line.args = << >> \/ line.args[1] = Blank)

\* Only who mentions a command can make a macro for it, or one that makes it.
Mentioned(lines, words) ==
  \E n \in 1..Len(lines) : Range(lines[n].args) \cap words # {}

(* What the user did not want in the log is not in it: a line is written   *)
(* only if the mode allowed its channel when it was typed, or since, also  *)
(* when the mode was chosen in an earlier session.  A crash loses what was *)
(* chosen, since only the end of run() saves it: until the user chooses    *)
(* again everything is allowed.  (logger.cpp: the mode, the greylist and   *)
(* what is kept of them in the settings.)                                  *)
LogRespectsMode == \A i \in 1..Len(log) : log[i] \in mayLog \cup {0}

(* What the user saw is in the log, if the mode allowed it all the while,  *)
(* or on its way there.  Not after a crash or, in the mode DEFAULT, after  *)
(* a restart: LostModes, until the user chooses again.  ON and OFF survive *)
(* a quit.  (The answer to a bare /channel has no channel, so no file; and *)
(* where the window comes before the logger, a quit can come between.)     *)
ShownIsLogged ==
  \A i \in 1..Len(shown) :
    /\ phase = "running"
    /\ shown[i] \in mustLog
    /\ ~Bare(typed[shown[i]], "/channel") /\ ~Mentioned(typed, {"/channel"})
    =>
      \/ shown[i] \in Range(log)
      \/ \E k \in 1..Len(pipe["logger"]) : pipe["logger"][k].line = shown[i]

(* "Default (default channel only)" is what the wizard offers beside On    *)
(* and Off, and it need not be chosen again when the program is started    *)
(* again: plain words the user sees in the default channel are in the log  *)
(* then too, or on their way.  ShownIsLogged excepts this, for the code    *)
(* does not do it: disabled is saved, the greylist is not.  (logger.cpp)   *)
DefaultModeIsKept ==
  \A n \in Range(shown) \ {0} :
    /\ phase = "running" /\ mode = "unkept"
    /\ typed[n].cmd = "" /\ typed[n].channel = Default
    =>
      \/ n \in Range(log)
      \/ \E k \in 1..Len(pipe["logger"]) : pipe["logger"][k].line = n

(* What is said in plain words comes on the screen and into the log in the *)
(* order in which it was typed, once, whatever commands are typed between. *)
(* (Unless a macro may rewrite plain words: /replace makes one.)           *)
SameOrder ==
  LET Said(n) == n # 0 /\ typed[n].cmd = ""
      InOrder(lines) ==
        \A i, j \in 1..Len(lines) :
          i < j /\ Said(lines[i]) /\ Said(lines[j]) => lines[i] < lines[j]
  IN  /\ ~Mentioned(typed, {"", "/replace"})
      /\ \A n \in 1..Len(typed) : typed[n].cmd # "/replace"
      => InOrder(shown) /\ InOrder(log)

(* Two macros that make each other's word: a line goes round for ever.     *)
Spins(n) ==
  \E i \in 1..Len(pipe["meatgrinder"]) :
    LET m == pipe["meatgrinder"][i]
    IN  /\ m.kind = "raw_edict" /\ m.line = n
        /\ \E r, s \in BagToSet(macros) :
             r.to = s.command /\ s.to = r.command /\ m.cmd \in {r.command, s.command}

(* The client is done with a line at some time: what is sent because of it *)
(* comes to an end, unless macros replace each other for ever, or the      *)
(* program ends first.  Such macros do not hold up the other lines.        *)
LinesSettle ==
  \A n \in DOMAIN ConsoleTexts \cup DOMAIN QtTexts :
    Len(typed) >= n ~> (~InFlight(n) \/ Spins(n) \/ Ended)

(* A quit ends the program, whatever is under way, macros that replace     *)
(* each other for ever included.                                           *)
QuitEnds == phase = "stopping" ~> Ended

(* The program does not crash while the user defines macros before he      *)
(* erases them, names one in these commands, and gives channels a name.    *)
(* (And makes no macro that makes these commands.)                         *)
Erasures(i, c) ==
  Cardinality({k \in 1..i : /\ typed[k].session = session
                            /\ typed[k].cmd = "/macro_erase"
                            /\ typed[k].args # << >> /\ typed[k].args[1] = c})
Definitions(i, c) ==
  Cardinality({k \in 1..i : /\ typed[k].session = session
                            /\ typed[k].cmd = "/macro" /\ Len(typed[k].args) > 2
                            /\ typed[k].args[1] = c})
OnlyKnownCrashes ==
  phase = "crashed" =>
    \/ Mentioned(typed, {"/macro", "/macro_erase", "/channel"})
    \/ \E i \in 1..Len(typed) :
         /\ typed[i].session = session
         /\ \/ /\ typed[i].cmd \in {"/macro", "/macro_erase"}
               /\ typed[i].args = << >>
            \/ /\ typed[i].cmd = "/macro_erase" /\ typed[i].args # << >>
               /\ Erasures(i, typed[i].args[1]) > Definitions(i, typed[i].args[1])
            \/ ui # "console" /\ Bare(typed[i], "/channel")

(* On the console, whoever waits for an answer before he types on talks in *)
(* the channel he named last: the reader takes the new channel from its    *)
(* pipe before it sends the line.  (If no macro is made of /channel.  In   *)
(* basic.cpp, send_input.)                                                 *)
PatientUserIsRight ==
  ui = "console" /\ waited /\ ~Mentioned(typed, {"/channel"}) =>
    \A n \in 1..Len(typed) :
      LET changes == {k \in 1..(n - 1) : /\ typed[k].session = typed[n].session
                                         /\ typed[k].cmd = "/channel"
                                         /\ ~Bare(typed[k], "/channel")}
      IN  typed[n].channel =
            IF changes = {} THEN Default
            ELSE typed[CHOOSE k \in changes : \A j \in changes : j <= k].args[1]

(* In the Qt client there is a tab for each channel one is in, and for no  *)
(* other, whenever nothing is under way, however fast the user changes and *)
(* leaves channels.  (If he uses Connect only when nothing is under way,   *)
(* and has not left the channel without a name.)                           *)
TabsAreJoined ==
  LET left == Mentioned(typed, {"/leave"}) \/ \E n \in 1..Len(typed) : Bare(typed[n], "/leave")
  IN  Qt /\ phase = "running" /\ waited /\ Idle /\ ~left => tabs = joined

===============================================================================
