---------------------------- MODULE ConversationProofs ----------------------------
(***************************************************************************)
(* The way of the lines, proved for any texts, any names and any number of *)
(* lines, acts and sessions.                                               *)
(***************************************************************************)
EXTENDS Conversation, SequenceTheorems, FiniteSetTheorems, TLAPS

\* What the line or the message m may be about: the words of the lines that
\* were typed, and those of the macros that are built in.
Heard(t, w) ==
  \/ w \in {"", "macros", "replacements"}
  \/ \E n \in 1..Len(t) : w \in Range(t[n].args)

\* The commands a macro may make.
Spoken(t, w) == Heard(t, w) \/ w \in {"/me", "/macro", "/commands"}

\* The provers do not know that a literal is a string.
Words == STRING \cup Channels \cup Modes \cup
         {"", "/me", "/macro", "/commands", "ADD", "REMOVE"}

TypedLine ==
  [cmd : Words, args : Seq(Channels), channel : Channels, session : Nat]

MessageSet ==
  [kind : Kinds, line : Nat, cmd : Words, args : Seq(Channels),
   channel : Channels, to : Seq(Plugins)]

\* What each plugin reads.
KindsOf(u, p) ==
  CASE p = "meatgrinder" -> {"raw_edict", "register_replacer", "display_commands"}
    [] p = "antenna" -> {"edict", "set_channel", "leave_channel"}
    [] p = "masseuse" -> {"received", "notify"}
    [] p = "logger" -> {"display", "logging"}
    [] p = "ui" -> {"display", "set_channel"} \cup
                   (IF u = "console" THEN {"only"} ELSE {"leave_channel"})

\* Its way from there.
Way(u, p, kind) ==
  CASE kind = "display" /\ p = "ui" /\ u = "qtFirst" -> <<"ui", "logger">>
    [] kind = "display" /\ p = "logger" /\ u # "qtFirst" -> <<"logger", "ui">>
    [] kind = "set_channel" /\ p = "antenna" /\ u = "console" -> <<"antenna", "ui">>
    [] kind = "set_channel" /\ p = "ui" /\ u # "console" -> <<"ui", "antenna">>
    [] kind = "leave_channel" /\ p = "ui" /\ u # "console" -> <<"ui", "antenna">>
    [] OTHER -> <<p>>

Placed(u, p, m) ==
  \/ m.kind = "shutdown" /\ m.to = <<"logger">>
  \/ m.kind \in KindsOf(u, p) /\ m.to = Way(u, p, m.kind)

\* A channel without a name stems from such a command, or a macro made it.
Nameless(t, line, cmd) == Bare(t[line], cmd) \/ Mentioned(t, {cmd})

\* What is known of the line that a message, or a signal, stems from.
Origin(t, s, m) ==
  /\ m.line <= Len(t)
  /\ m.line # 0 =>
       /\ t[m.line].session = s
       /\ m.kind \in {"raw_edict", "register_replacer", "display_commands",
                      "edict", "received"} => m.channel = t[m.line].channel
       /\ m.kind \in {"notify", "display"} =>
            \/ m.channel = t[m.line].channel
            \/ m.channel = Blank /\ Nameless(t, m.line, "/channel")
       /\ m.kind = "set_channel" /\ m.channel = Blank =>
            Nameless(t, m.line, "/channel")
       /\ m.kind = "leave_channel" /\ m.channel = Blank =>
            Nameless(t, m.line, "/leave")

Worded(t, m) ==
  /\ \A j \in 1..Len(m.args) : Heard(t, m.args[j])
  /\ m.kind = "raw_edict" =>
       /\ m.line # 0
       /\ \/ m.cmd = t[m.line].cmd /\ m.args = t[m.line].args
          \/ Spoken(t, m.cmd)
  /\ m.kind = "register_replacer" => Len(m.args) > 2

Good(u, t, s, p, m) ==
  m \in MessageSet /\ Placed(u, p, m) /\ Origin(t, s, m) /\ Worded(t, m)

GoodPipes(u, t, s, pipes) ==
  /\ pipes \in [Plugins -> Seq(MessageSet)]
  /\ \A p \in Plugins : \A i \in 1..Len(pipes[p]) : Good(u, t, s, p, pipes[p][i])

GoodMacro(t, d) ==
  /\ d.to \in Words /\ Spoken(t, d.to)
  /\ Heard(t, d.command) \/ d.command \in {"/slap", "/replace", "/macros", "/replacements"}
  /\ d.args \in Seq(Channels) /\ \A j \in 1..Len(d.args) : Heard(t, d.args[j])

GoodEvents(t, s, es) ==
  es \in Seq(Signal) /\ \A i \in 1..Len(es) : Origin(t, s, es[i])

LoggerType ==
  /\ disabled \in BOOLEAN /\ saved \in BOOLEAN /\ greylist \subseteq {Default}
  /\ log \in Seq(Nat) /\ shown \in Seq(Nat)

UiType ==
  /\ toReader \in Seq(Channels \ {Blank}) /\ channel \in Channels /\ only \in Channels
  /\ tabs \subseteq Channels /\ IsFiniteSet(tabs) /\ connected \in BOOLEAN /\ joined \subseteq Channels

HistoryType ==
  /\ typed \in Seq(TypedLine) /\ session \in Nat /\ waited \in BOOLEAN
  /\ mode \in Modes \cup LostModes
  /\ mayLog \subseteq 1..Len(typed) /\ mustLog \subseteq mayLog

TypeInv ==
  /\ ui \in {"console", "qt", "qtFirst"}
  /\ phase \in {"running", "stopping", "stopped", "crashed"}
  /\ GoodPipes(ui, typed, session, pipe)
  /\ \A d \in BagToSet(macros) : GoodMacro(typed, d)
  /\ GoodEvents(typed, session, events)
  /\ LoggerType /\ UiType /\ HistoryType

-------------------------------------------------------------------------------
(* Messages and pipes                                                      *)

LEMMA FieldTypes ==
  ASSUME NEW m \in MessageSet
  PROVE  /\ m.kind \in Kinds /\ m.line \in Nat /\ m.cmd \in Words
         /\ m.args \in Seq(Channels) /\ m.channel \in Channels /\ m.to \in Seq(Plugins)
BY DEF MessageSet

LEMMA MessageType ==
  ASSUME NEW kind \in Kinds, NEW line \in Nat, NEW cmd \in Words,
         NEW args \in Seq(Channels), NEW chan \in Channels, NEW to \in Seq(Plugins)
  PROVE  [kind |-> kind, line |-> line, cmd |-> cmd, args |-> args,
          channel |-> chan, to |-> to] \in MessageSet
BY DEF MessageSet

LEMMA OnwardType ==
  ASSUME NEW m \in MessageSet, NEW to \in Seq(Plugins)
  PROVE  LET n == [m EXCEPT !.to = to]
         IN  /\ n \in MessageSet /\ n.to = to
             /\ n.kind = m.kind /\ n.line = m.line /\ n.cmd = m.cmd
             /\ n.args = m.args /\ n.channel = m.channel
BY DEF MessageSet

LEMMA ReadGood ==
  ASSUME NEW u, NEW t, NEW s, NEW pipes, GoodPipes(u, t, s, pipes),
         NEW p \in Plugins, pipes[p] # << >>
  PROVE  /\ Good(u, t, s, p, Head(pipes[p]))
         /\ Head(pipes[p]) = pipes[p][1] /\ 1 \in 1..Len(pipes[p])
         /\ GoodPipes(u, t, s, [pipes EXCEPT ![p] = Tail(@)])
<1>1. pipes \in [Plugins -> Seq(MessageSet)]
  BY DEF GoodPipes
<1>2. Len(pipes[p]) \in Nat /\ Len(pipes[p]) # 0
  BY <1>1
<1>3. Head(pipes[p]) = pipes[p][1] /\ 1 \in 1..Len(pipes[p])
  BY <1>1, <1>2
<1>4. /\ Tail(pipes[p]) \in Seq(MessageSet)
      /\ Len(Tail(pipes[p])) = Len(pipes[p]) - 1
      /\ \A i \in 1..Len(Tail(pipes[p])) : Tail(pipes[p])[i] = pipes[p][i + 1]
  BY <1>1, HeadTailProperties
<1>5. \A i \in 1..Len(Tail(pipes[p])) : Good(u, t, s, p, Tail(pipes[p])[i])
  <2>1. \A i \in 1..Len(Tail(pipes[p])) : i + 1 \in 1..Len(pipes[p])
    BY <1>2, <1>4
  <2> QED BY <1>4, <2>1 DEF GoodPipes
<1> QED BY <1>1, <1>3, <1>4, <1>5 DEF GoodPipes

LEMMA AppendGood ==
  ASSUME NEW u, NEW t, NEW s, NEW pipes, GoodPipes(u, t, s, pipes),
         NEW p \in Plugins, NEW m, Good(u, t, s, p, m)
  PROVE  GoodPipes(u, t, s, [pipes EXCEPT ![p] = Append(@, m)])
<1>1. pipes \in [Plugins -> Seq(MessageSet)] /\ m \in MessageSet
  BY DEF GoodPipes, Good
<1>2. /\ Append(pipes[p], m) \in Seq(MessageSet)
      /\ Len(Append(pipes[p], m)) = Len(pipes[p]) + 1
      /\ \A i \in 1..Len(pipes[p]) : Append(pipes[p], m)[i] = pipes[p][i]
      /\ Append(pipes[p], m)[Len(pipes[p]) + 1] = m
  BY <1>1, AppendProperties
<1>3. \A i \in 1..Len(Append(pipes[p], m)) : Good(u, t, s, p, Append(pipes[p], m)[i])
  <2>1. Len(pipes[p]) \in Nat
    BY <1>1
  <2>2. \A i \in 1..(Len(pipes[p]) + 1) : i \in 1..Len(pipes[p]) \/ i = Len(pipes[p]) + 1
    BY <2>1
  <2> QED BY <1>2, <2>2 DEF GoodPipes
<1> QED BY <1>1, <1>2, <1>3 DEF GoodPipes

LEMMA PutGood ==
  ASSUME NEW u, NEW t, NEW s, NEW pipes, GoodPipes(u, t, s, pipes),
         NEW m, Head(m.to) \in Plugins, Good(u, t, s, Head(m.to), m)
  PROVE  GoodPipes(u, t, s, Put(pipes, m))
BY AppendGood DEF Put

(* The next plugin on the way reads that kind, and goes on the same way.   *)
LEMMA WayGoesOn ==
  ASSUME NEW u, NEW p \in Plugins, NEW kind \in KindsOf(u, p)
  PROVE  LET w == Way(u, p, kind)
         IN  /\ w \in Seq(Plugins) /\ w # << >> /\ Head(w) = p
             /\ Tail(w) # << >> =>
                  /\ Head(Tail(w)) \in Plugins /\ kind \in KindsOf(u, Head(Tail(w)))
                  /\ Tail(w) = Way(u, Head(Tail(w)), kind)
<1> DEFINE w == Way(u, p, kind)
<1>1. \/ w = <<p>>
      \/ p = "ui" /\ kind = "display" /\ w = <<"ui", "logger">> /\ u = "qtFirst"
      \/ p = "logger" /\ kind = "display" /\ w = <<"logger", "ui">> /\ u # "qtFirst"
      \/ p = "antenna" /\ kind = "set_channel" /\ w = <<"antenna", "ui">> /\ u = "console"
      \/ /\ p = "ui" /\ kind \in {"set_channel", "leave_channel"}
         /\ w = <<"ui", "antenna">> /\ u # "console"
  BY DEF Way
<1> HIDE DEF w
<1>2. CASE w = <<p>>
  BY <1>2 DEF w
<1>3. CASE p = "ui" /\ kind = "display" /\ w = <<"ui", "logger">> /\ u = "qtFirst"
  <2>1. Way(u, "logger", kind) = <<"logger">> /\ kind \in KindsOf(u, "logger")
    BY <1>3 DEF Way, KindsOf
  <2>2. /\ w \in Seq(Plugins) /\ w # << >> /\ Head(w) = "ui"
        /\ Tail(w) = <<"logger">> /\ Head(Tail(w)) = "logger"
    BY <1>3 DEF Plugins
  <2>3. "logger" \in Plugins
    BY DEF Plugins
  <2> QED BY <1>3, <2>1, <2>2, <2>3 DEF w
<1>4. CASE p = "logger" /\ kind = "display" /\ w = <<"logger", "ui">> /\ u # "qtFirst"
  <2>1. Way(u, "ui", kind) = <<"ui">> /\ kind \in KindsOf(u, "ui")
    BY <1>4 DEF Way, KindsOf
  <2>2. /\ w \in Seq(Plugins) /\ w # << >> /\ Head(w) = "logger"
        /\ Tail(w) = <<"ui">> /\ Head(Tail(w)) = "ui"
    BY <1>4 DEF Plugins
  <2>3. "ui" \in Plugins
    BY DEF Plugins
  <2> QED BY <1>4, <2>1, <2>2, <2>3 DEF w
<1>5. CASE p = "antenna" /\ kind = "set_channel" /\ w = <<"antenna", "ui">> /\ u = "console"
  <2>1. Way(u, "ui", kind) = <<"ui">> /\ kind \in KindsOf(u, "ui")
    BY <1>5 DEF Way, KindsOf
  <2>2. /\ w \in Seq(Plugins) /\ w # << >> /\ Head(w) = "antenna"
        /\ Tail(w) = <<"ui">> /\ Head(Tail(w)) = "ui"
    BY <1>5 DEF Plugins
  <2>3. "ui" \in Plugins
    BY DEF Plugins
  <2> QED BY <1>5, <2>1, <2>2, <2>3 DEF w
<1>6. CASE /\ p = "ui" /\ kind \in {"set_channel", "leave_channel"}
           /\ w = <<"ui", "antenna">> /\ u # "console"
  <2>1. Way(u, "antenna", kind) = <<"antenna">> /\ kind \in KindsOf(u, "antenna")
    BY <1>6 DEF Way, KindsOf
  <2>2. /\ w \in Seq(Plugins) /\ w # << >> /\ Head(w) = "ui"
        /\ Tail(w) = <<"antenna">> /\ Head(Tail(w)) = "antenna"
    BY <1>6 DEF Plugins
  <2>3. "antenna" \in Plugins
    BY DEF Plugins
  <2> QED BY <1>6, <2>1, <2>2, <2>3 DEF w
<1> QED BY <1>1, <1>2, <1>3, <1>4, <1>5, <1>6

LEMMA EchoGood ==
  ASSUME NEW u, NEW t, NEW s, NEW pipes, GoodPipes(u, t, s, pipes),
         NEW p \in Plugins, NEW m, Good(u, t, s, p, m), m.kind # "shutdown"
  PROVE  GoodPipes(u, t, s, Echo(pipes, m))
<1> DEFINE n == [m EXCEPT !.to = Tail(@)]
<1>1. m \in MessageSet /\ m.kind \in KindsOf(u, p) /\ m.to = Way(u, p, m.kind)
  BY DEF Good, Placed
<1>2. CASE Tail(m.to) = << >>
  BY <1>2 DEF Echo
<1>3. CASE Tail(m.to) # << >>
  <2>1. /\ m.to \in Seq(Plugins) /\ m.to # << >>
        /\ Head(Tail(m.to)) \in Plugins /\ m.kind \in KindsOf(u, Head(Tail(m.to)))
        /\ Tail(m.to) = Way(u, Head(Tail(m.to)), m.kind)
    BY <1>1, <1>3, WayGoesOn
  <2>2. Tail(m.to) \in Seq(Plugins)
    BY <2>1
  <2>3. /\ n \in MessageSet /\ n.to = Tail(m.to)
        /\ n.kind = m.kind /\ n.line = m.line /\ n.cmd = m.cmd
        /\ n.args = m.args /\ n.channel = m.channel
    BY <1>1, <2>2, OnwardType
  <2>4. Placed(u, Head(n.to), n)
    BY <2>1, <2>3 DEF Placed
  <2>5. Origin(t, s, n) /\ Worded(t, n)
    BY <2>3 DEF Good, Origin, Worded
  <2>6. Good(u, t, s, Head(n.to), n)
    BY <2>3, <2>4, <2>5 DEF Good
  <2>7. GoodPipes(u, t, s, Put(pipes, n))
    BY <2>1, <2>3, <2>6, PutGood
  <2> QED BY <1>3, <2>7 DEF Echo
<1> QED BY <1>2, <1>3

(* A new message goes to the plugin that reads its kind first.             *)
LEMMA RouteIsWay ==
  ASSUME ui \in {"console", "qt", "qtFirst"}, NEW kind \in Kinds \ {"shutdown"},
         kind = "only" => ui = "console"
  PROVE  /\ Route(kind) \in Seq(Plugins) /\ Route(kind) # << >>
         /\ Head(Route(kind)) \in Plugins
         /\ kind \in KindsOf(ui, Head(Route(kind)))
         /\ Route(kind) = Way(ui, Head(Route(kind)), kind)
<1> DEFINE r == Route(kind)
<1>1. \/ r = <<"meatgrinder">> /\ kind \in KindsOf(ui, "meatgrinder")
      \/ r = <<"antenna">> /\ kind \in KindsOf(ui, "antenna") /\ kind \in {"edict", "leave_channel"}
      \/ r = <<"masseuse">> /\ kind \in KindsOf(ui, "masseuse")
      \/ r = <<"logger">> /\ kind = "logging"
      \/ r = <<"ui">> /\ kind = "only" /\ ui = "console"
      \/ r = <<"ui", "logger">> /\ kind = "display" /\ ui = "qtFirst"
      \/ r = <<"logger", "ui">> /\ kind = "display" /\ ui # "qtFirst"
      \/ r = <<"antenna", "ui">> /\ kind = "set_channel" /\ ui = "console"
      \/ /\ r = <<"ui", "antenna">> /\ kind \in {"set_channel", "leave_channel"}
         /\ ui # "console"
  BY DEF Route, Kinds, KindsOf
<1>2. CASE r = <<"meatgrinder">> /\ kind \in KindsOf(ui, "meatgrinder")
  <2>1. Way(ui, "meatgrinder", kind) = <<"meatgrinder">>
    BY DEF Way
  <2> QED BY <1>2, <2>1 DEF Plugins
<1>3. CASE r = <<"antenna">> /\ kind \in KindsOf(ui, "antenna") /\ kind \in {"edict", "leave_channel"}
  <2>1. Way(ui, "antenna", kind) = <<"antenna">>
    BY <1>3 DEF Way
  <2> QED BY <1>3, <2>1 DEF Plugins
<1>4. CASE r = <<"masseuse">> /\ kind \in KindsOf(ui, "masseuse")
  <2>1. Way(ui, "masseuse", kind) = <<"masseuse">>
    BY DEF Way
  <2> QED BY <1>4, <2>1 DEF Plugins
<1>5. CASE r = <<"logger">> /\ kind = "logging"
  <2>1. Way(ui, "logger", kind) = <<"logger">> /\ kind \in KindsOf(ui, "logger")
    BY <1>5 DEF Way, KindsOf
  <2> QED BY <1>5, <2>1 DEF Plugins
<1>6. CASE r = <<"ui">> /\ kind = "only" /\ ui = "console"
  <2>1. Way(ui, "ui", kind) = <<"ui">> /\ kind \in KindsOf(ui, "ui")
    BY <1>6 DEF Way, KindsOf
  <2> QED BY <1>6, <2>1 DEF Plugins
<1>7. CASE r = <<"ui", "logger">> /\ kind = "display" /\ ui = "qtFirst"
  <2>1. Way(ui, "ui", kind) = <<"ui", "logger">> /\ kind \in KindsOf(ui, "ui")
    BY <1>7 DEF Way, KindsOf
  <2> QED BY <1>7, <2>1 DEF Plugins
<1>8. CASE r = <<"logger", "ui">> /\ kind = "display" /\ ui # "qtFirst"
  <2>1. Way(ui, "logger", kind) = <<"logger", "ui">> /\ kind \in KindsOf(ui, "logger")
    BY <1>8 DEF Way, KindsOf
  <2> QED BY <1>8, <2>1 DEF Plugins
<1>9. CASE r = <<"antenna", "ui">> /\ kind = "set_channel" /\ ui = "console"
  <2>1. Way(ui, "antenna", kind) = <<"antenna", "ui">> /\ kind \in KindsOf(ui, "antenna")
    BY <1>9 DEF Way, KindsOf
  <2> QED BY <1>9, <2>1 DEF Plugins
<1>10. CASE /\ r = <<"ui", "antenna">> /\ kind \in {"set_channel", "leave_channel"}
            /\ ui # "console"
  <2>1. Way(ui, "ui", kind) = <<"ui", "antenna">> /\ kind \in KindsOf(ui, "ui")
    BY <1>10 DEF Way, KindsOf
  <2> QED BY <1>10, <2>1 DEF Plugins
<1> QED BY <1>1, <1>2, <1>3, <1>4, <1>5, <1>6, <1>7, <1>8, <1>9, <1>10

LEMMA PutMessageGood ==
  ASSUME ui \in {"console", "qt", "qtFirst"}, NEW t, NEW s, NEW pipes,
         GoodPipes(ui, t, s, pipes),
         NEW kind \in Kinds \ {"shutdown"}, kind = "only" => ui = "console",
         NEW line \in Nat, NEW text, text.cmd \in Words, text.args \in Seq(Channels),
         NEW chan \in Channels,
         Origin(t, s, Message(kind, line, text, chan)),
         Worded(t, Message(kind, line, text, chan))
  PROVE  GoodPipes(ui, t, s, Put(pipes, Message(kind, line, text, chan)))
<1> DEFINE m == Message(kind, line, text, chan)
<1>1. /\ Route(kind) \in Seq(Plugins)
      /\ Head(Route(kind)) \in Plugins
      /\ kind \in KindsOf(ui, Head(Route(kind)))
      /\ Route(kind) = Way(ui, Head(Route(kind)), kind)
  BY RouteIsWay
<1>2. m \in MessageSet /\ m.to = Route(kind) /\ m.kind = kind
  BY <1>1, MessageType DEF Message
<1> HIDE DEF m
<1>3. Placed(ui, Head(m.to), m)
  BY <1>1, <1>2 DEF Placed
<1>4. Good(ui, t, s, Head(m.to), m)
  BY <1>2, <1>3 DEF Good, m
<1>5. Head(m.to) \in Plugins
  BY <1>1, <1>2
<1>6. GoodPipes(ui, t, s, Put(pipes, m))
  BY <1>4, <1>5, PutGood
<1> QED BY <1>6 DEF m

LEMMA AboutFields ==
  ASSUME NEW kind, NEW line, NEW text, NEW chan
  PROVE  LET m == Message(kind, line, text, chan)
         IN  /\ m.kind = kind /\ m.line = line /\ m.cmd = text.cmd /\ m.args = text.args
             /\ m.channel = chan /\ m.to = Route(kind)
BY DEF Message

LEMMA NoTextType ==
  NoText.cmd \in Words /\ NoText.args \in Seq(Channels) /\ Len(NoText.args) = 0
BY DEF NoText, Line, Words

LEMMA PutAboutGood ==
  ASSUME TypeInv, NEW pipes, GoodPipes(ui, typed, session, pipes),
         NEW kind \in Kinds \ {"shutdown", "raw_edict", "register_replacer"},
         kind = "only" => ui = "console", NEW line \in Nat, NEW chan \in Channels,
         Origin(typed, session, About(kind, line, chan))
  PROVE  GoodPipes(ui, typed, session, Put(pipes, About(kind, line, chan)))
<1>1. ui \in {"console", "qt", "qtFirst"}
  BY DEF TypeInv
<1>2. NoText.cmd \in Words /\ NoText.args \in Seq(Channels) /\ Len(NoText.args) = 0
  BY DEF NoText, Line, Words
<1>3. Worded(typed, About(kind, line, chan))
  <2>1. About(kind, line, chan).kind = kind /\ About(kind, line, chan).args = NoText.args
    BY AboutFields DEF About
  <2> QED BY <1>2, <2>1 DEF Worded
<1> QED BY <1>1, <1>2, <1>3, PutMessageGood DEF About

-------------------------------------------------------------------------------
(* The macros                                                              *)

LEMMA SeqOfMore ==
  ASSUME NEW S, NEW a \in Seq(S), NEW T, S \subseteq T
  PROVE  a \in Seq(T) /\ \A i \in 1..Len(a) : a[i] \in S
<1>1. a \in Seq(T)
  OBVIOUS
<1>2. \A i \in 1..Len(a) : a[i] \in S
  OBVIOUS
<1> QED BY <1>1, <1>2

LEMMA WithAdds ==
  ASSUME NEW defs, NEW d
  PROVE  BagToSet(With(defs, d)) = BagToSet(defs) \cup {d}
BY DEF With, (+), BagToSet, SetToBag

LEMMA WithoutKeeps ==
  ASSUME NEW defs, NEW d
  PROVE  BagToSet(Without(defs, d)) \subseteq BagToSet(defs)
BY DEF Without, (-), BagToSet, SetToBag

LEMMA BuiltInGood ==
  ASSUME NEW t
  PROVE  \A d \in BagToSet(BuiltIn) : GoodMacro(t, d)
<1>1. BagToSet(BuiltIn) =
        {Macro("/slap", "/slap", "/me", << >>),
         Macro("/replace", "/replace", "/macro", <<"">>),
         Macro("/macros", "/macros", "/commands", <<"macros">>),
         Macro("/replacements", "/replacements", "/commands", <<"replacements">>)}
  BY DEF BuiltIn, BagToSet, SetToBag
<1>2. {"", "macros", "replacements"} \subseteq Channels
  BY ConversationAssumption
<1>3. ASSUME NEW c \in {"/slap", "/replace", "/macros", "/replacements"},
             NEW to \in {"/me", "/macro", "/commands"},
             NEW args \in Seq({"", "macros", "replacements"})
      PROVE  GoodMacro(t, Macro(c, c, to, args))
  <2> DEFINE d == Macro(c, c, to, args)
  <2>1. d.command = c /\ d.to = to /\ d.args = args
    BY DEF Macro
  <2>2. args \in Seq(Channels) /\ \A j \in 1..Len(args) : args[j] \in {"", "macros", "replacements"}
    BY <1>2, SeqOfMore
  <2>3. to \in Words
    BY DEF Words
  <2>4. \A j \in 1..Len(args) : Heard(t, args[j])
    BY <2>2 DEF Heard
  <2> HIDE DEF d
  <2>5. GoodMacro(t, d)
    BY <2>1, <2>2, <2>3, <2>4 DEF GoodMacro, Spoken
  <2> QED BY <2>5 DEF d
<1>4. /\ << >> \in Seq({"", "macros", "replacements"})
      /\ <<"">> \in Seq({"", "macros", "replacements"})
      /\ <<"macros">> \in Seq({"", "macros", "replacements"})
      /\ <<"replacements">> \in Seq({"", "macros", "replacements"})
  OBVIOUS
<1>5. /\ GoodMacro(t, Macro("/slap", "/slap", "/me", << >>))
      /\ GoodMacro(t, Macro("/replace", "/replace", "/macro", <<"">>))
      /\ GoodMacro(t, Macro("/macros", "/macros", "/commands", <<"macros">>))
      /\ GoodMacro(t, Macro("/replacements", "/replacements", "/commands", <<"replacements">>))
  BY <1>3, <1>4
<1> QED BY <1>1, <1>5

-------------------------------------------------------------------------------
(* The meatgrinder                                                         *)

\* What is read, and what is left.
LEMMA ReadsGood ==
  ASSUME TypeInv, NEW p \in Plugins, NEW kind \in Kinds, Reads(p, kind)
  PROVE  /\ Good(ui, typed, session, p, First(p)) /\ First(p).kind = kind
         /\ First(p) = pipe[p][1] /\ 1 \in 1..Len(pipe[p])
         /\ GoodPipes(ui, typed, session, Rest(p))
         /\ phase \in {"running", "stopping"}
<1>1. GoodPipes(ui, typed, session, pipe)
  BY DEF TypeInv
<1>2. pipe[p] # << >> /\ Head(pipe[p]).kind = kind /\ phase \in {"running", "stopping"}
  BY DEF Reads, First
<1>3. /\ Good(ui, typed, session, p, Head(pipe[p]))
      /\ Head(pipe[p]) = pipe[p][1] /\ 1 \in 1..Len(pipe[p])
      /\ GoodPipes(ui, typed, session, [pipe EXCEPT ![p] = Tail(@)])
  BY <1>1, <1>2, ReadGood
<1> QED BY <1>2, <1>3 DEF First, Rest

LEMMA EdictFacts ==
  ASSUME TypeInv, Reads("meatgrinder", "raw_edict")
  PROVE  /\ Edict \in MessageSet /\ Edict.kind = "raw_edict" /\ Edict.to = <<"meatgrinder">>
         /\ Edict.line \in 1..Len(typed)
         /\ typed[Edict.line].session = session
         /\ Edict.channel = typed[Edict.line].channel
         /\ \A j \in 1..Len(Edict.args) : Heard(typed, Edict.args[j])
         /\ \/ Edict.cmd = typed[Edict.line].cmd /\ Edict.args = typed[Edict.line].args
            \/ Spoken(typed, Edict.cmd)
         /\ GoodPipes(ui, typed, session, Rest("meatgrinder"))
<1>1. "meatgrinder" \in Plugins /\ "raw_edict" \in Kinds
  BY DEF Plugins, Kinds
<1>2. /\ Good(ui, typed, session, "meatgrinder", Edict) /\ Edict.kind = "raw_edict"
      /\ GoodPipes(ui, typed, session, Rest("meatgrinder"))
  BY <1>1, ReadsGood DEF Edict
<1>3. Edict \in MessageSet /\ Edict.line \in Nat /\ Len(typed) \in Nat
  BY <1>2, FieldTypes DEF Good, TypeInv, HistoryType
<1>4. Edict.to = <<"meatgrinder">>
  BY <1>2 DEF Good, Placed, Way
<1> QED BY <1>2, <1>3, <1>4 DEF Good, Origin, Worded

\* An answer to a line has its number, and its channel or none.
LEMMA AnswerGood ==
  ASSUME TypeInv, NEW m, m \in MessageSet, NEW p \in Plugins,
         Good(ui, typed, session, p, m), m.kind # "shutdown",
         NEW pipes, GoodPipes(ui, typed, session, pipes),
         NEW kind \in {"edict", "received", "notify", "display", "display_commands"},
         m.kind \in {"raw_edict", "edict", "received", "display_commands"} \/
         (m.kind = "notify" /\ kind = "display")
  PROVE  GoodPipes(ui, typed, session, Put(pipes, About(kind, m.line, m.channel)))
<1>1. kind \in Kinds \ {"shutdown", "raw_edict", "register_replacer"} /\ kind # "only"
  BY DEF Kinds
<1>2. m.line \in Nat /\ m.channel \in Channels
  BY FieldTypes
<1>3. /\ About(kind, m.line, m.channel).kind = kind
      /\ About(kind, m.line, m.channel).line = m.line
      /\ About(kind, m.line, m.channel).channel = m.channel
  BY AboutFields DEF About
<1>4. Origin(typed, session, About(kind, m.line, m.channel))
  BY <1>3 DEF Good, Origin
<1> QED BY <1>1, <1>2, <1>4, PutAboutGood

\* A command about the empty name was typed so, or is made by a macro.
LEMMA ArgumentGood ==
  ASSUME TypeInv, Reads("meatgrinder", "raw_edict"), NEW cmd \in {"/channel", "/leave"},
         Edict.cmd = cmd
  PROVE  Argument \in Channels /\ (Argument = Blank => Nameless(typed, Edict.line, cmd))
<1>1. /\ Edict.line \in 1..Len(typed) /\ Edict.args \in Seq(Channels)
      /\ \/ Edict.cmd = typed[Edict.line].cmd /\ Edict.args = typed[Edict.line].args
         \/ Spoken(typed, Edict.cmd)
  BY EdictFacts, FieldTypes
<1>2. Argument \in Channels
  BY <1>1 DEF Argument, Channels
<1>3. ASSUME Argument = Blank
      PROVE  Nameless(typed, Edict.line, cmd)
  <2>1. CASE Edict.cmd = typed[Edict.line].cmd /\ Edict.args = typed[Edict.line].args
    BY <1>3, <2>1 DEF Argument, Nameless, Bare
  <2>2. CASE Spoken(typed, Edict.cmd)
    <3>1. Heard(typed, cmd) /\ cmd \notin {"", "macros", "replacements"}
      BY <2>2 DEF Spoken
    <3>2. \E n \in 1..Len(typed) : cmd \in Range(typed[n].args)
      BY <3>1 DEF Heard
    <3>3. Mentioned(typed, {cmd})
      BY <3>2 DEF Mentioned
    <3> QED BY <3>3 DEF Nameless
  <2> QED BY <1>1, <2>1, <2>2
<1> QED BY <1>2, <1>3

LEMMA ChannelEdictGood ==
  ASSUME TypeInv, Reads("meatgrinder", "raw_edict"),
         NEW kind \in {"set_channel", "leave_channel", "only"},
         kind = "set_channel" => Edict.cmd = "/channel",
         kind = "leave_channel" => Edict.cmd = "/leave",
         kind = "only" => ui = "console"
  PROVE  GoodPipes(ui, typed, session,
                   Put(Rest("meatgrinder"), About(kind, Edict.line, Argument)))
<1>1. /\ Edict.line \in 1..Len(typed) /\ Edict.line \in Nat /\ Edict.args \in Seq(Channels)
      /\ typed[Edict.line].session = session
      /\ GoodPipes(ui, typed, session, Rest("meatgrinder"))
  BY EdictFacts, FieldTypes
<1>2. Argument \in Channels
  BY <1>1 DEF Argument, Channels
<1> DEFINE m == About(kind, Edict.line, Argument)
<1>3. m.kind = kind /\ m.line = Edict.line /\ m.channel = Argument
  BY AboutFields DEF About
<1>4. /\ kind = "set_channel" /\ Argument = Blank => Nameless(typed, Edict.line, "/channel")
      /\ kind = "leave_channel" /\ Argument = Blank => Nameless(typed, Edict.line, "/leave")
  BY ArgumentGood
<1>5. Len(typed) \in Nat
  BY DEF TypeInv, HistoryType
<1> HIDE DEF m
<1>6. Origin(typed, session, m)
  BY <1>1, <1>3, <1>4, <1>5 DEF Origin
<1>7. kind \in Kinds \ {"shutdown", "raw_edict", "register_replacer"}
  BY DEF Kinds
<1> QED BY <1>1, <1>2, <1>6, <1>7, PutAboutGood DEF m

LEMMA ConcatHeard ==
  ASSUME NEW t, NEW a \in Seq(Channels), NEW b \in Seq(Channels),
         \A j \in 1..Len(a) : Heard(t, a[j]), \A j \in 1..Len(b) : Heard(t, b[j])
  PROVE  /\ a \o b \in Seq(Channels) /\ Len(a \o b) = Len(a) + Len(b)
         /\ \A j \in 1..Len(a \o b) : Heard(t, (a \o b)[j])
<1> DEFINE c == a \o b
<1>1. /\ c \in Seq(Channels) /\ Len(c) = Len(a) + Len(b)
      /\ \A j \in 1..Len(c) : c[j] = IF j <= Len(a) THEN a[j] ELSE b[j - Len(a)]
  BY ConcatProperties
<1>2. Len(a) \in Nat /\ Len(b) \in Nat
  OBVIOUS
<1> HIDE DEF c
<1>3. ASSUME NEW j \in 1..Len(c)
      PROVE  Heard(t, c[j])
  <2>1. CASE j <= Len(a)
    BY <1>1, <1>2, <2>1
  <2>2. CASE ~(j <= Len(a))
    <3>1. j - Len(a) \in 1..Len(b)
      BY <1>1, <1>2, <2>2
    <3> QED BY <1>1, <2>2, <3>1
  <2> QED BY <2>1, <2>2
<1> QED BY <1>1, <1>3 DEF c

LEMMA RewriteGood ==
  ASSUME TypeInv, Reads("meatgrinder", "raw_edict"), NEW m \in Rewritten(macros, Edict)
  PROVE  GoodPipes(ui, typed, session, Put(Rest("meatgrinder"), m))
<1>1. PICK d \in BagToSet(macros) : m = [Edict EXCEPT !.cmd = d.to, !.args = d.args \o @]
  BY DEF Rewritten, Macros
<1>2. /\ d.to \in Words /\ Spoken(typed, d.to)
      /\ d.args \in Seq(Channels) /\ \A j \in 1..Len(d.args) : Heard(typed, d.args[j])
  BY DEF TypeInv, GoodMacro
<1>3. /\ Edict \in MessageSet /\ Edict.kind = "raw_edict" /\ Edict.to = <<"meatgrinder">>
      /\ Edict.line \in 1..Len(typed) /\ Edict.args \in Seq(Channels)
      /\ typed[Edict.line].session = session
      /\ Edict.channel = typed[Edict.line].channel
      /\ \A j \in 1..Len(Edict.args) : Heard(typed, Edict.args[j])
      /\ GoodPipes(ui, typed, session, Rest("meatgrinder"))
  BY EdictFacts, FieldTypes
<1> DEFINE a == d.args \o Edict.args
<1>4. a \in Seq(Channels) /\ \A j \in 1..Len(a) : Heard(typed, a[j])
  BY <1>2, <1>3, ConcatHeard
<1> HIDE DEF a
<1>5. m = [Edict EXCEPT !.cmd = d.to, !.args = a]
  BY <1>1 DEF a
<1>6. /\ m \in MessageSet /\ m.kind = "raw_edict" /\ m.to = <<"meatgrinder">>
      /\ m.line = Edict.line /\ m.channel = Edict.channel
      /\ m.cmd = d.to /\ m.args = a
  BY <1>2, <1>3, <1>4, <1>5 DEF MessageSet
<1>7. Head(m.to) = "meatgrinder" /\ "meatgrinder" \in Plugins /\ Len(typed) \in Nat
  BY <1>6 DEF Plugins, TypeInv, HistoryType
<1>8. Placed(ui, "meatgrinder", m)
  BY <1>6 DEF Placed, KindsOf, Way
<1>9. Origin(typed, session, m)
  BY <1>3, <1>6, <1>7 DEF Origin
<1>10. Worded(typed, m)
  BY <1>2, <1>3, <1>4, <1>6 DEF Worded
<1>11. Good(ui, typed, session, Head(m.to), m)
  BY <1>6, <1>7, <1>8, <1>9, <1>10 DEF Good
<1> QED BY <1>3, <1>7, <1>11, PutGood

\* What /macro and /macro_erase send: at least three words.
LEMMA RegisterGood ==
  ASSUME TypeInv, Reads("meatgrinder", "raw_edict"), NEW cmd \in {"ADD", "REMOVE"},
         NEW a \in Seq(Channels), Len(a) > 2, \A j \in 1..Len(a) : Heard(typed, a[j])
  PROVE  GoodPipes(ui, typed, session,
                   Put(Rest("meatgrinder"),
                       Message("register_replacer", Edict.line, Line(cmd, a),
                               Edict.channel)))
<1> DEFINE m == Message("register_replacer", Edict.line, Line(cmd, a), Edict.channel)
<1>1. /\ Edict.line \in 1..Len(typed) /\ Edict.line \in Nat
      /\ typed[Edict.line].session = session /\ Edict.channel \in Channels
      /\ Edict.channel = typed[Edict.line].channel
      /\ GoodPipes(ui, typed, session, Rest("meatgrinder"))
  BY EdictFacts, FieldTypes
<1>2. Line(cmd, a).cmd \in Words /\ Line(cmd, a).args = a
  BY DEF Line, Words
<1>3. /\ m.kind = "register_replacer" /\ m.line = Edict.line /\ m.args = a
      /\ m.channel = Edict.channel
  BY <1>2, AboutFields
<1>4. Len(typed) \in Nat /\ ui \in {"console", "qt", "qtFirst"}
  BY DEF TypeInv, HistoryType
<1> HIDE DEF m
<1>5. Origin(typed, session, m)
  BY <1>1, <1>3, <1>4 DEF Origin
<1>6. Worded(typed, m)
  BY <1>3 DEF Worded
<1>7. "register_replacer" \in Kinds \ {"shutdown"}
  BY DEF Kinds
<1>8. GoodPipes(ui, typed, session, Put(Rest("meatgrinder"), m))
  BY <1>1, <1>2, <1>4, <1>5, <1>6, <1>7, PutMessageGood DEF m
<1> QED BY <1>8 DEF m

LEMMA EmptyGood ==
  ASSUME NEW u, NEW t, NEW s
  PROVE  GoodPipes(u, t, s, [p \in Plugins |-> << >>])
BY DEF GoodPipes

LEMMA ShutdownGood ==
  ASSUME TypeInv, NEW pipes, GoodPipes(ui, typed, session, pipes)
  PROVE  GoodPipes(ui, typed, session,
                   [p \in Plugins |-> Append(pipes[p], About("shutdown", 0, Blank))])
<1> DEFINE m == About("shutdown", 0, Blank)
<1>1. m.kind = "shutdown" /\ m.to = <<"logger">> /\ m.line = 0 /\ m.args = << >>
  <2>1. Route("shutdown") = <<"logger">> /\ NoText.args = << >>
    BY DEF Route, NoText, Line
  <2> QED BY <2>1, AboutFields DEF About
<1>2. m \in MessageSet
  <2>1. "shutdown" \in Kinds /\ 0 \in Nat /\ Blank \in Channels
        /\ NoText.cmd \in Words /\ NoText.args \in Seq(Channels)
    BY DEF Kinds, Channels, NoText, Line, Words
  <2>2. Route("shutdown") \in Seq(Plugins)
    BY DEF Route, Plugins
  <2> QED BY <2>1, <2>2, MessageType DEF About, Message
<1>3. Len(typed) \in Nat
  BY DEF TypeInv, HistoryType
<1> HIDE DEF m
<1>4. Origin(typed, session, m) /\ Worded(typed, m)
  BY <1>1, <1>3 DEF Origin, Worded
<1>5. \A p \in Plugins : Good(ui, typed, session, p, m)
  BY <1>1, <1>2, <1>4 DEF Good, Placed
<1> DEFINE q == [p \in Plugins |-> Append(pipes[p], m)]
<1>6. pipes \in [Plugins -> Seq(MessageSet)]
  BY DEF GoodPipes
<1>7. q \in [Plugins -> Seq(MessageSet)]
  BY <1>2, <1>6
<1>8. ASSUME NEW p \in Plugins
      PROVE  \A i \in 1..Len(q[p]) : Good(ui, typed, session, p, q[p][i])
  <2>1. GoodPipes(ui, typed, session, [pipes EXCEPT ![p] = Append(@, m)])
    BY <1>5, AppendGood
  <2>2. [pipes EXCEPT ![p] = Append(@, m)][p] = q[p]
    BY <1>6
  <2> QED BY <2>1, <2>2 DEF GoodPipes
<1> HIDE DEF q
<1>9. GoodPipes(ui, typed, session, q)
  BY <1>7, <1>8 DEF GoodPipes
<1> QED BY <1>9 DEF q, m

LEMMA QuitGood ==
  ASSUME TypeInv, NEW pipes, GoodPipes(ui, typed, session, pipes), InitiateShutdown(pipes)
  PROVE  GoodPipes(ui, typed, session, pipe') /\ phase' = "stopping"
<1>1. CASE phase = "stopping"
  BY <1>1 DEF InitiateShutdown
<1>2. CASE phase # "stopping"
  BY <1>2, ShutdownGood DEF InitiateShutdown
<1> QED BY <1>1, <1>2

LEMMA CrashGood ==
  ASSUME Crash
  PROVE  GoodPipes(ui, typed, session, pipe') /\ phase' = "crashed"
BY EmptyGood DEF Crash

LEMMA UndefinedGood ==
  ASSUME TypeInv, Undefined, GoodPipes(ui, typed, session, Rest("meatgrinder"))
  PROVE  /\ GoodPipes(ui, typed, session, pipe')
         /\ phase' \in {phase, "crashed"} /\ macros' = macros
BY CrashGood DEF Undefined, Swallow

\* What follows from a step of the meatgrinder, besides what it leaves alone.
GrinderGood ==
  /\ GoodPipes(ui, typed, session, pipe')
  /\ phase' \in {phase, "crashed", "stopping"}
  /\ \A d \in BagToSet(macros') : GoodMacro(typed, d)

LEMMA SpeechGood ==
  ASSUME TypeInv,
         \/ DropEmpty \/ Rewrite \/ Complain \/ HandleNormal \/ HandleMe \/ HandleQuit
         \/ HandleChannelChange \/ HandleChannelLeave \/ HandleOnly \/ HandleCommands
  PROVE  GrinderGood
<1>1. Reads("meatgrinder", "raw_edict")
  BY DEF DropEmpty, Rewrite, Complain, HandleNormal, HandleMe, HandleQuit,
         HandleChannelChange, HandleChannelLeave, HandleOnly, HandleCommands, Grinds, Handles
<1>2. /\ GoodPipes(ui, typed, session, Rest("meatgrinder"))
      /\ Good(ui, typed, session, "meatgrinder", Edict)
      /\ Edict \in MessageSet /\ Edict.kind = "raw_edict"
  <2>1. "meatgrinder" \in Plugins /\ "raw_edict" \in Kinds
    BY DEF Plugins, Kinds
  <2> QED BY <1>1, <2>1, ReadsGood, EdictFacts DEF Edict
<1>3. \A d \in BagToSet(macros) : GoodMacro(typed, d)
  BY DEF TypeInv
<1>4. \A kind \in {"edict", "notify", "display_commands"} :
        GoodPipes(ui, typed, session,
                  Put(Rest("meatgrinder"), About(kind, Edict.line, Edict.channel)))
  <2>1. "meatgrinder" \in Plugins
    BY DEF Plugins
  <2> QED BY <1>2, <2>1, AnswerGood
<1>5. CASE DropEmpty
  BY <1>2, <1>3, <1>5 DEF DropEmpty, Swallow, GrinderGood
<1>6. CASE Rewrite
  BY <1>1, <1>3, <1>6, RewriteGood DEF Rewrite, Write, GrinderGood
<1>7. CASE Complain
  BY <1>3, <1>4, <1>7 DEF Complain, Answer, Write, GrinderGood
<1>8. CASE HandleNormal
  BY <1>3, <1>4, <1>8 DEF HandleNormal, Answer, Write, GrinderGood
<1>9. CASE HandleMe
  BY <1>2, <1>3, <1>4, <1>9 DEF HandleMe, Answer, Write, Swallow, GrinderGood
<1>10. CASE HandleQuit
  BY <1>2, <1>3, <1>10, QuitGood DEF HandleQuit, GrinderGood
<1>11. CASE HandleChannelChange
  BY <1>1, <1>3, <1>11, ChannelEdictGood
  DEF HandleChannelChange, Handles, Answer, Write, GrinderGood
<1>12. CASE HandleChannelLeave
  BY <1>1, <1>3, <1>12, ChannelEdictGood
  DEF HandleChannelLeave, Handles, Answer, Write, GrinderGood
<1>13. CASE HandleOnly
  <2>1. ui = "console"
    BY <1>13 DEF HandleOnly, Handles, Known, Handlers
  <2> QED BY <1>1, <1>3, <1>13, <2>1, ChannelEdictGood
          DEF HandleOnly, Handles, Answer, Write, GrinderGood
<1>14. CASE HandleCommands
  BY <1>3, <1>4, <1>14 DEF HandleCommands, Answer, Write, GrinderGood
<1> QED BY <1>5, <1>6, <1>7, <1>8, <1>9, <1>10, <1>11, <1>12, <1>13, <1>14

LEMMA MacroGood ==
  ASSUME TypeInv, \/ HandleUserCommand \/ HandleEraseCommand
                  \/ Define \/ Erase \/ DisplayCommands
  PROVE  GrinderGood
<1> DEFINE g == "meatgrinder"
<1>1. "meatgrinder" \in Plugins /\ {"raw_edict", "register_replacer", "display_commands"} \subseteq Kinds
  BY DEF Plugins, Kinds
<1>2. \A d \in BagToSet(macros) : GoodMacro(typed, d)
  BY DEF TypeInv
<1>3. ASSUME HandleUserCommand \/ HandleEraseCommand
      PROVE  GrinderGood
  <2>1. Reads("meatgrinder", "raw_edict")
    BY <1>3 DEF HandleUserCommand, HandleEraseCommand, Grinds, Handles
  <2>2. /\ GoodPipes(ui, typed, session, Rest("meatgrinder"))
        /\ Edict.args \in Seq(Channels) /\ \A j \in 1..Len(Edict.args) : Heard(typed, Edict.args[j])
    BY <2>1, EdictFacts, FieldTypes
  <2>3. CASE Undefined
    BY <1>2, <2>2, <2>3, UndefinedGood DEF GrinderGood
  <2>4. CASE Swallow("meatgrinder") /\ UNCHANGED <<phase, macros>>
    BY <1>2, <2>2, <2>4 DEF Swallow, GrinderGood
  <2>5. CASE Len(Edict.args) > 2 /\ Register(Line("ADD", Edict.args))
    BY <1>2, <2>1, <2>2, <2>5, RegisterGood DEF Register, GrinderGood
  <2>6. CASE Edict.args # << >> /\ Register(Line("REMOVE", Edict.args \o <<"", "">>))
    <3> DEFINE two == <<"", "">>
               a == Edict.args \o two
    <3>1. two \in Seq({""}) /\ Len(two) = 2
      OBVIOUS
    <3> HIDE DEF two
    <3>2. two \in Seq(Channels) /\ \A j \in 1..Len(two) : Heard(typed, two[j])
      <4>1. {""} \subseteq Channels
        BY ConversationAssumption
      <4>2. two \in Seq(Channels) /\ \A j \in 1..Len(two) : two[j] \in {""}
        BY <3>1, <4>1, SeqOfMore
      <4> QED BY <4>2 DEF Heard
    <3>3. a \in Seq(Channels) /\ Len(a) > 2 /\ \A j \in 1..Len(a) : Heard(typed, a[j])
      <4>1. /\ a \in Seq(Channels) /\ Len(a) = Len(Edict.args) + Len(two)
            /\ \A j \in 1..Len(a) : Heard(typed, a[j])
        BY <2>2, <3>2, ConcatHeard
      <4>2. Edict.args # << >>
        BY <2>6
      <4>3. Len(Edict.args) \in Nat /\ Len(Edict.args) # 0
        BY <2>2, <4>2
      <4>4. \A k \in Nat : k # 0 => k + 2 > 2
        OBVIOUS
      <4>5. Len(a) > 2
        BY <3>1, <4>1, <4>3, <4>4
      <4> QED BY <4>1, <4>5
    <3> HIDE DEF a
    <3>4. Register(Line("REMOVE", a))
      BY <2>6 DEF a, two
    <3> QED BY <1>2, <2>1, <2>2, <3>3, <3>4, RegisterGood DEF Register, GrinderGood
  <2>7. CASE HandleUserCommand
    BY <2>3, <2>4, <2>5, <2>7 DEF HandleUserCommand
  <2>8. CASE HandleEraseCommand
    BY <2>3, <2>6, <2>8 DEF HandleEraseCommand
  <2> QED BY <1>3, <2>7, <2>8
<1>4. ASSUME Define \/ Erase
      PROVE  GrinderGood
  <2>1. Reads("meatgrinder", "register_replacer")
    BY <1>4 DEF Define, Erase, Grinds
  <2>2. /\ GoodPipes(ui, typed, session, Rest("meatgrinder"))
        /\ Good(ui, typed, session, "meatgrinder", First("meatgrinder"))
        /\ First("meatgrinder").kind = "register_replacer"
    BY <1>1, <2>1, ReadsGood
  <2>3. CASE Define
    <3> DEFINE m == First("meatgrinder")
    <3>1. m \in MessageSet /\ Len(m.args) > 2 /\ \A j \in 1..Len(m.args) : Heard(typed, m.args[j])
      BY <2>2 DEF Good, Worded
    <3>2. m.args \in Seq(Channels) /\ Len(m.args) \in Nat
      BY <3>1, FieldTypes
    <3>3. /\ m.args[1] \in Channels /\ Heard(typed, m.args[1])
          /\ m.args[3] \in Channels /\ Heard(typed, m.args[3])
      BY <3>1, <3>2
    <3>4. GoodMacro(typed, Definition)
      <4>1. /\ Definition.command = m.args[1] /\ Definition.to = m.args[3]
            /\ Definition.args = << >>
        BY DEF Definition, Macro
      <4>2. << >> \in Seq(Channels) /\ Len(<< >>) = 0
        OBVIOUS
      <4>3. Definition.to \in Words /\ Spoken(typed, Definition.to)
        BY <3>3, <4>1 DEF Words, Spoken
      <4> QED BY <3>3, <4>1, <4>2, <4>3 DEF GoodMacro
    <3>5. BagToSet(macros') = BagToSet(macros) \cup {Definition}
      BY <2>3, WithAdds DEF Define
    <3> QED BY <1>2, <2>2, <2>3, <3>4, <3>5 DEF Define, Swallow, GrinderGood
  <2>4. CASE Erase
    <3>1. CASE Undefined
      BY <1>2, <2>2, <3>1, UndefinedGood DEF GrinderGood
    <3>2. CASE Swallow("meatgrinder") /\ UNCHANGED phase
               /\ \E m : macros' = Without(macros, m)
      BY <1>2, <2>2, <3>2, WithoutKeeps DEF Swallow, GrinderGood
    <3>3. CASE Swallow("meatgrinder") /\ UNCHANGED <<phase, macros>>
      BY <1>2, <2>2, <3>3 DEF Swallow, GrinderGood
    <3> QED BY <2>4, <3>1, <3>2, <3>3 DEF Erase
  <2> QED BY <1>4, <2>3, <2>4
<1>5. CASE DisplayCommands
  <2>1. /\ GoodPipes(ui, typed, session, Rest("meatgrinder"))
        /\ Good(ui, typed, session, "meatgrinder", Edict)
        /\ Edict.kind = "display_commands"
    BY <1>1, <1>5, ReadsGood DEF DisplayCommands, Grinds, Edict
  <2>2. GoodPipes(ui, typed, session,
                  Put(Rest("meatgrinder"), About("notify", Edict.line, Edict.channel)))
    <3>1. Edict \in MessageSet
      BY <2>1 DEF Good
    <3> QED BY <1>1, <2>1, <3>1, AnswerGood
  <2> QED BY <1>2, <1>5, <2>2 DEF DisplayCommands, Answer, Write, GrinderGood
<1> QED BY <1>3, <1>4, <1>5

-------------------------------------------------------------------------------
(* Types are kept                                                          *)

LEMMA MeatgrinderTyped ==
  ASSUME TypeInv, MeatgrinderStep
  PROVE  TypeInv'
<1>1. GrinderGood
  BY SpeechGood, MacroGood DEF MeatgrinderStep
<1>2. UNCHANGED <<ui, loggerVars, consoleVars, qtVars, joined, shown, history>>
  BY DEF MeatgrinderStep
<1>3. ui' = ui /\ typed' = typed /\ session' = session /\ events' = events
  BY <1>2 DEF qtVars, history
<1>4. LoggerType'
  BY <1>2 DEF TypeInv, LoggerType, loggerVars
<1>5. UiType'
  BY <1>2 DEF TypeInv, UiType, consoleVars, qtVars
<1>6. HistoryType'
  BY <1>2 DEF TypeInv, HistoryType, history
<1> QED BY <1>1, <1>3, <1>4, <1>5, <1>6 DEF TypeInv, GrinderGood

LEMMA StopTyped ==
  ASSUME TypeInv, NEW p \in Plugins, Stop(p)
  PROVE  TypeInv'
<1>1. GoodPipes(ui, typed, session, pipe')
  <2>1. "shutdown" \in Kinds
    BY DEF Kinds
  <2> QED BY <2>1, ReadsGood DEF Stop
<1>2. phase' \in {"stopped", "stopping"} /\ saved' \in BOOLEAN
  BY DEF Stop, TypeInv, LoggerType
<1>3. UNCHANGED <<ui, macros, disabled, greylist, log, consoleVars, qtVars, joined, shown, history>>
  BY DEF Stop
<1>4. LoggerType'
  BY <1>2, <1>3 DEF TypeInv, LoggerType
<1>5. UiType'
  BY <1>3 DEF TypeInv, UiType, consoleVars, qtVars
<1>6. HistoryType'
  BY <1>3 DEF TypeInv, HistoryType, history
<1>7. ui' = ui /\ typed' = typed /\ session' = session /\ events' = events /\ macros' = macros
  BY <1>3 DEF qtVars, history
<1> QED BY <1>1, <1>2, <1>4, <1>5, <1>6, <1>7 DEF TypeInv

LEMMA AntennaTyped ==
  ASSUME TypeInv, AntennaStep
  PROVE  TypeInv'
<1>1. "antenna" \in Plugins /\ {"edict", "set_channel", "leave_channel"} \subseteq Kinds
  BY DEF Plugins, Kinds
<1>2. GoodPipes(ui, typed, session, pipe') /\ joined' \subseteq Channels
  <2>1. joined \subseteq Channels
    BY DEF TypeInv, UiType
  <2>2. PICK kind \in {"edict", "set_channel", "leave_channel"} : Reads("antenna", kind)
    BY DEF AntennaStep, SendEdict, SendJoin, SendLeft
  <2> DEFINE m == First("antenna")
  <2>3. /\ Good(ui, typed, session, "antenna", m) /\ m.kind = kind
        /\ GoodPipes(ui, typed, session, Rest("antenna"))
    BY <1>1, <2>2, ReadsGood
  <2>4. m \in MessageSet /\ m.channel \in Channels
    BY <2>3, FieldTypes DEF Good
  <2>5. GoodPipes(ui, typed, session, Echo(Rest("antenna"), m))
    BY <1>1, <2>3, EchoGood
  <2>6. CASE SendEdict
    <3>1. m.kind = "edict"
      BY <2>6 DEF SendEdict, Reads
    <3>2. GoodPipes(ui, typed, session,
                    Put(Rest("antenna"), About("received", m.line, m.channel)))
      BY <1>1, <2>3, <2>4, <3>1, AnswerGood
    <3> QED BY <2>1, <2>6, <3>2 DEF SendEdict, Write
  <2>7. CASE SendJoin
    BY <2>1, <2>4, <2>5, <2>7 DEF SendJoin
  <2>8. CASE SendLeft
    BY <2>1, <2>5, <2>8 DEF SendLeft
  <2> QED BY <2>6, <2>7, <2>8 DEF AntennaStep
<1>3. UNCHANGED <<ui, phase, macros, loggerVars, consoleVars, qtVars, shown, history>>
  BY DEF AntennaStep
<1>4. LoggerType'
  BY <1>3 DEF TypeInv, LoggerType, loggerVars
<1>5. UiType'
  BY <1>2, <1>3 DEF TypeInv, UiType, consoleVars, qtVars
<1>6. HistoryType'
  BY <1>3 DEF TypeInv, HistoryType, history
<1>7. /\ ui' = ui /\ typed' = typed /\ session' = session /\ events' = events /\ macros' = macros
      /\ phase' = phase
  BY <1>3 DEF qtVars, history
<1> QED BY <1>2, <1>4, <1>5, <1>6, <1>7 DEF TypeInv

LEMMA MasseuseTyped ==
  ASSUME TypeInv, MasseuseStep
  PROVE  TypeInv'
<1>1. GoodPipes(ui, typed, session, pipe')
  <2>1. "masseuse" \in Plugins /\ {"received", "notify"} \subseteq Kinds
    BY DEF Plugins, Kinds
  <2>2. PICK kind \in {"received", "notify"} : Reads("masseuse", kind)
    BY DEF MasseuseStep, Translate
  <2> DEFINE m == First("masseuse")
  <2>3. /\ Good(ui, typed, session, "masseuse", m) /\ m.kind = kind
        /\ GoodPipes(ui, typed, session, Rest("masseuse"))
    BY <2>1, <2>2, ReadsGood
  <2>4. m \in MessageSet
    BY <2>3 DEF Good
  <2>5. GoodPipes(ui, typed, session,
                  Put(Rest("masseuse"), About("display", m.line, m.channel)))
    BY <2>1, <2>3, <2>4, AnswerGood
  <2> QED BY <2>5 DEF MasseuseStep, Translate, Write
<1>2. UNCHANGED <<ui, phase, macros, loggerVars, consoleVars, qtVars, joined, shown, history>>
  BY DEF MasseuseStep
<1>3. LoggerType'
  BY <1>2 DEF TypeInv, LoggerType, loggerVars
<1>4. UiType'
  BY <1>2 DEF TypeInv, UiType, consoleVars, qtVars
<1>5. HistoryType'
  BY <1>2 DEF TypeInv, HistoryType, history
<1>6. /\ ui' = ui /\ typed' = typed /\ session' = session /\ events' = events /\ macros' = macros
      /\ phase' = phase
  BY <1>2 DEF qtVars, history
<1> QED BY <1>1, <1>3, <1>4, <1>5, <1>6 DEF TypeInv

LEMMA LoggerTyped ==
  ASSUME TypeInv, LoggerStep
  PROVE  TypeInv'
<1>1. /\ GoodPipes(ui, typed, session, pipe')
      /\ disabled' \in BOOLEAN /\ greylist' \subseteq {Default} /\ log' \in Seq(Nat)
  <2>1. "logger" \in Plugins /\ {"display", "logging"} \subseteq Kinds
    BY DEF Plugins, Kinds
  <2>2. PICK kind \in {"display", "logging"} : Reads("logger", kind)
    BY DEF LoggerStep, LogDisplay, SetMode
  <2> DEFINE m == First("logger")
  <2>3. /\ Good(ui, typed, session, "logger", m) /\ m.kind = kind
        /\ GoodPipes(ui, typed, session, Rest("logger"))
    BY <2>1, <2>2, ReadsGood
  <2>4. m.line \in Nat
    BY <2>3, FieldTypes DEF Good
  <2>5. GoodPipes(ui, typed, session, Echo(Rest("logger"), m))
    BY <2>1, <2>3, EchoGood
  <2>6. disabled \in BOOLEAN /\ greylist \subseteq {Default} /\ log \in Seq(Nat)
    BY DEF TypeInv, LoggerType
  <2>7. CASE LogDisplay
    <3>1. log' = Append(log, m.line) \/ log' = log
      BY <2>7 DEF LogDisplay
    <3>2. log' \in Seq(Nat)
      BY <2>4, <2>6, <3>1
    <3> QED BY <2>5, <2>6, <2>7, <3>2 DEF LogDisplay
  <2>8. CASE SetMode
    BY <2>3, <2>6, <2>8 DEF SetMode, Swallow
  <2> QED BY <2>7, <2>8 DEF LoggerStep
<1>2. UNCHANGED <<ui, phase, macros, saved, consoleVars, qtVars, joined, shown, history>>
  BY DEF LoggerStep
<1>3. LoggerType'
  BY <1>1, <1>2 DEF TypeInv, LoggerType
<1>4. UiType'
  BY <1>2 DEF TypeInv, UiType, consoleVars, qtVars
<1>5. HistoryType'
  BY <1>2 DEF TypeInv, HistoryType, history
<1>6. /\ ui' = ui /\ typed' = typed /\ session' = session /\ events' = events /\ macros' = macros
      /\ phase' = phase
  BY <1>2 DEF qtVars, history
<1> QED BY <1>1, <1>3, <1>4, <1>5, <1>6 DEF TypeInv

LEMMA ConsoleTyped ==
  ASSUME TypeInv, ConsoleStep
  PROVE  TypeInv'
<1>1. /\ GoodPipes(ui, typed, session, pipe')
      /\ shown' \in Seq(Nat) /\ toReader' \in Seq(Channels \ {Blank})
      /\ channel' \in Channels /\ only' \in Channels
  <2>1. "ui" \in Plugins /\ {"display", "set_channel", "only"} \subseteq Kinds
    BY DEF Plugins, Kinds
  <2>2. PICK kind \in {"display", "set_channel", "only"} : Reads("ui", kind)
    BY DEF ConsoleStep, PrintLine, TellChannel, ShowOnly
  <2>3. /\ Good(ui, typed, session, "ui", Reading) /\ Reading.kind = kind
        /\ GoodPipes(ui, typed, session, Rest("ui"))
    BY <2>1, <2>2, ReadsGood DEF Reading
  <2>4. Reading \in MessageSet /\ Reading.line \in Nat /\ Reading.channel \in Channels
    BY <2>3, FieldTypes DEF Good
  <2>5. GoodPipes(ui, typed, session, Echo(Rest("ui"), Reading))
    BY <2>1, <2>3, EchoGood
  <2>6. /\ shown \in Seq(Nat) /\ toReader \in Seq(Channels \ {Blank})
        /\ channel \in Channels /\ only \in Channels
    BY DEF TypeInv, LoggerType, UiType
  <2>7. CASE PrintLine
    <3>1. shown' = shown \/ shown' = Append(shown, Reading.line)
      BY <2>7 DEF PrintLine
    <3>2. shown' \in Seq(Nat)
      BY <2>4, <2>6, <3>1
    <3> QED BY <2>5, <2>6, <2>7, <3>2 DEF PrintLine, consoleVars
  <2>8. CASE TellChannel
    <3>1. CASE Reading.channel = Blank
      <4> DEFINE a == About("notify", Reading.line, Blank)
      <4>1. a.kind = "notify" /\ a.line = Reading.line /\ a.channel = Blank
        BY AboutFields DEF About
      <4>2. Reading.kind = "set_channel"
        BY <2>8 DEF TellChannel, Reads, Reading
      <4> HIDE DEF a
      <4>3. Origin(typed, session, a)
        BY <2>3, <3>1, <4>1, <4>2 DEF Good, Origin
      <4>4. "notify" \in Kinds /\ Blank \in Channels
        BY DEF Kinds, Channels
      <4>5. GoodPipes(ui, typed, session, Put(Rest("ui"), a))
        BY <2>3, <2>4, <4>3, <4>4, PutAboutGood DEF a
      <4> QED BY <2>6, <2>8, <3>1, <4>5 DEF TellChannel, Write, a
    <3>2. CASE Reading.channel # Blank
      <4>1. toReader' = Append(toReader, Reading.channel) /\ Reading.channel \in Channels \ {Blank}
        BY <2>4, <2>8, <3>2 DEF TellChannel
      <4>2. toReader' \in Seq(Channels \ {Blank})
        BY <2>6, <4>1
      <4> QED BY <2>3, <2>6, <2>8, <3>2, <4>2 DEF TellChannel, Swallow
    <3> QED BY <3>1, <3>2
  <2>9. CASE ShowOnly
    BY <2>3, <2>4, <2>6, <2>9 DEF ShowOnly, Swallow
  <2> QED BY <2>7, <2>8, <2>9 DEF ConsoleStep
<1>2. UNCHANGED <<ui, phase, macros, loggerVars, qtVars, joined, history>>
  BY DEF ConsoleStep
<1>3. LoggerType'
  BY <1>1, <1>2 DEF TypeInv, LoggerType, loggerVars
<1>4. UiType'
  BY <1>1, <1>2 DEF TypeInv, UiType, qtVars
<1>5. HistoryType'
  BY <1>2 DEF TypeInv, HistoryType, history
<1>6. /\ ui' = ui /\ typed' = typed /\ session' = session /\ events' = events /\ macros' = macros
      /\ phase' = phase
  BY <1>2 DEF qtVars, history
<1> QED BY <1>1, <1>3, <1>4, <1>5, <1>6 DEF TypeInv

\* A signal is about the same line as the message it is made of.
LEMMA EmitGood ==
  ASSUME TypeInv, NEW kind \in {"display", "set_channel", "leave_channel"}, Reads("ui", kind)
  PROVE  LET e == [kind |-> Reading.kind, line |-> Reading.line, channel |-> Reading.channel]
         IN  e \in Signal /\ Origin(typed, session, e)
<1> DEFINE e == [kind |-> Reading.kind, line |-> Reading.line, channel |-> Reading.channel]
<1>1. "ui" \in Plugins /\ kind \in Kinds
  BY DEF Plugins, Kinds
<1>2. Good(ui, typed, session, "ui", Reading) /\ Reading.kind = kind
  BY <1>1, ReadsGood DEF Reading
<1>3. Reading \in MessageSet /\ Reading.line \in Nat /\ Reading.channel \in Channels
  BY <1>2, FieldTypes DEF Good
<1>4. e.kind = Reading.kind /\ e.line = Reading.line /\ e.channel = Reading.channel
  OBVIOUS
<1>5. e \in Signal
  BY <1>2, <1>3 DEF Signal
<1> HIDE DEF e
<1>6. Origin(typed, session, e)
  BY <1>2, <1>4 DEF Good, Origin
<1> QED BY <1>5, <1>6 DEF e

LEMMA AppendEvent ==
  ASSUME NEW t, NEW s, NEW es, GoodEvents(t, s, es), NEW e \in Signal, Origin(t, s, e)
  PROVE  GoodEvents(t, s, Append(es, e))
<1>1. es \in Seq(Signal) /\ Len(es) \in Nat
  BY DEF GoodEvents
<1>2. /\ Append(es, e) \in Seq(Signal) /\ Len(Append(es, e)) = Len(es) + 1
      /\ \A i \in 1..Len(es) : Append(es, e)[i] = es[i]
      /\ Append(es, e)[Len(es) + 1] = e
  BY <1>1, AppendProperties
<1>3. \A i \in 1..(Len(es) + 1) : i \in 1..Len(es) \/ i = Len(es) + 1
  BY <1>1
<1> QED BY <1>2, <1>3 DEF GoodEvents

LEMMA TakeEvent ==
  ASSUME NEW t, NEW s, NEW es, GoodEvents(t, s, es), es # << >>
  PROVE  /\ GoodEvents(t, s, Tail(es)) /\ Head(es) \in Signal /\ Origin(t, s, Head(es))
         /\ Head(es) = es[1] /\ 1 \in 1..Len(es)
<1>1. es \in Seq(Signal) /\ Len(es) \in Nat /\ Len(es) # 0
  BY DEF GoodEvents
<1>2. /\ Tail(es) \in Seq(Signal) /\ Len(Tail(es)) = Len(es) - 1
      /\ \A i \in 1..Len(Tail(es)) : Tail(es)[i] = es[i + 1]
      /\ Head(es) \in Signal
  BY <1>1, HeadTailProperties
<1>3. Head(es) = es[1] /\ 1 \in 1..Len(es)
  BY <1>1
<1>4. \A i \in 1..(Len(es) - 1) : i + 1 \in 1..Len(es)
  BY <1>1
<1> QED BY <1>2, <1>3, <1>4 DEF GoodEvents

LEMMA EmitTyped ==
  ASSUME TypeInv, Emit
  PROVE  TypeInv'
<1>1. PICK kind \in {"display", "set_channel", "leave_channel"} : Reads("ui", kind)
  BY DEF Emit
<1>2. GoodPipes(ui, typed, session, pipe')
  <2>1. "ui" \in Plugins /\ kind \in Kinds
    BY DEF Plugins, Kinds
  <2>2. /\ Good(ui, typed, session, "ui", Reading) /\ Reading.kind = kind
        /\ GoodPipes(ui, typed, session, Rest("ui"))
    BY <1>1, <2>1, ReadsGood DEF Reading
  <2>3. GoodPipes(ui, typed, session, Echo(Rest("ui"), Reading))
    BY <2>1, <2>2, EchoGood
  <2> QED BY <2>3 DEF Emit
<1>3. GoodEvents(typed, session, events')
  <2>1. GoodEvents(typed, session, events)
    BY DEF TypeInv
  <2> QED BY <1>1, <2>1, EmitGood, AppendEvent DEF Emit
<1>4. /\ UNCHANGED <<ui, phase, macros, loggerVars, consoleVars, tabs, connected>>
      /\ UNCHANGED <<joined, shown, history>>
  BY DEF Emit
<1>5. LoggerType'
  BY <1>4 DEF TypeInv, LoggerType, loggerVars
<1>6. UiType'
  BY <1>4 DEF TypeInv, UiType, consoleVars
<1>7. HistoryType'
  BY <1>4 DEF TypeInv, HistoryType, history
<1>8. ui' = ui /\ typed' = typed /\ session' = session /\ macros' = macros /\ phase' = phase
  BY <1>4 DEF history
<1> QED BY <1>2, <1>3, <1>5, <1>6, <1>7, <1>8 DEF TypeInv

LEMMA WindowTyped ==
  ASSUME TypeInv, WindowStep, Qt
  PROVE  TypeInv'
<1> DEFINE e == Head(events)
<1>1. PICK kind \in {"display", "set_channel", "leave_channel"} : Takes(kind)
  BY DEF WindowStep, display, focus, leave
<1>2. /\ e \in Signal /\ Origin(typed, session, e) /\ e.kind = kind
      /\ GoodEvents(typed, session, events') /\ phase \in {"running", "stopping"}
  BY <1>1, TakeEvent DEF TypeInv, Takes
<1>3. e.line \in Nat /\ e.channel \in Channels
  BY <1>2 DEF Signal
<1>4. /\ GoodPipes(ui, typed, session, pipe) /\ shown \in Seq(Nat)
      /\ tabs \subseteq Channels /\ IsFiniteSet(tabs)
  BY DEF TypeInv, LoggerType, UiType
<1>5. /\ GoodPipes(ui, typed, session, pipe') /\ shown' \in Seq(Nat)
      /\ tabs' \subseteq Channels /\ IsFiniteSet(tabs') /\ phase' \in {phase, "crashed"}
  <2>1. CASE display
    <3>1. CASE Crash /\ UNCHANGED shown
      BY <1>4, <2>1, <3>1, CrashGood DEF display
    <3>2. CASE shown' \in {shown, Append(shown, e.line)} /\ UNCHANGED <<phase, pipe>>
      <4>1. shown' \in Seq(Nat)
        BY <1>3, <1>4, <3>2
      <4> QED BY <1>4, <2>1, <3>2, <4>1 DEF display
    <3> QED BY <2>1, <3>1, <3>2 DEF display
  <2>2. CASE focus
    <3> DEFINE m == About("set_channel", e.line, e.channel)
    <3>1. m.kind = "set_channel" /\ m.line = e.line /\ m.channel = e.channel
      BY AboutFields DEF About
    <3>2. e.kind = "set_channel"
      BY <2>2 DEF focus, Takes
    <3> HIDE DEF m, e
    <3>3. Origin(typed, session, m)
      BY <1>2, <3>1, <3>2 DEF Origin
    <3>4. "set_channel" \in Kinds
      BY DEF Kinds
    <3>5. GoodPipes(ui, typed, session, Put(pipe, m))
      BY <1>3, <1>4, <3>3, <3>4, PutAboutGood DEF m
    <3>6. \/ tabs' = tabs /\ pipe' = pipe
          \/ tabs' = tabs \cup {e.channel} /\ pipe' = Put(pipe, m)
      BY <2>2 DEF focus, m, e
    <3>7. phase' = phase /\ shown' = shown
      BY <2>2 DEF focus
    <3> QED BY <1>3, <1>4, <3>5, <3>6, <3>7, FS_AddElement
  <2>3. CASE leave
    BY <1>4, <2>3, FS_RemoveElement DEF leave
  <2> QED BY <2>1, <2>2, <2>3 DEF WindowStep
<1>6. UNCHANGED <<ui, macros, loggerVars, consoleVars, connected, joined, history>>
  BY DEF WindowStep
<1>7. LoggerType'
  BY <1>5, <1>6 DEF TypeInv, LoggerType, loggerVars
<1>8. UiType'
  BY <1>5, <1>6 DEF TypeInv, UiType, consoleVars
<1>9. HistoryType'
  BY <1>6 DEF TypeInv, HistoryType, history
<1>10. ui' = ui /\ typed' = typed /\ session' = session /\ macros' = macros
  BY <1>6 DEF history
<1> QED BY <1>2, <1>5, <1>7, <1>8, <1>9, <1>10 DEF TypeInv

\* What is known of a line stays known when more is typed.
LEMMA TypedGrows ==
  ASSUME NEW t \in Seq(TypedLine), NEW x \in TypedLine
  PROVE  /\ Append(t, x) \in Seq(TypedLine) /\ Len(Append(t, x)) = Len(t) + 1
         /\ Len(t) \in Nat
         /\ \A n \in 1..Len(t) : n \in 1..(Len(t) + 1) /\ Append(t, x)[n] = t[n]
         /\ Append(t, x)[Len(t) + 1] = x
         /\ \A w : Heard(t, w) => Heard(Append(t, x), w)
         /\ \A cmd : Mentioned(t, {cmd}) => Mentioned(Append(t, x), {cmd})
<1> DEFINE a == Append(t, x)
<1>1. /\ a \in Seq(TypedLine) /\ Len(a) = Len(t) + 1
      /\ \A n \in 1..Len(t) : a[n] = t[n]
      /\ a[Len(t) + 1] = x
  BY AppendProperties
<1>2. Len(t) \in Nat /\ \A n \in 1..Len(t) : n \in 1..(Len(t) + 1)
  OBVIOUS
<1> HIDE DEF a
<1>3. \A w : Heard(t, w) => Heard(a, w)
  BY <1>1, <1>2 DEF Heard
<1>4. \A cmd : Mentioned(t, {cmd}) => Mentioned(a, {cmd})
  BY <1>1, <1>2 DEF Mentioned
<1> QED BY <1>1, <1>2, <1>3, <1>4 DEF a

LEMMA OriginStays ==
  ASSUME NEW t \in Seq(TypedLine), NEW x \in TypedLine, NEW s, NEW m, m.line \in Nat,
         Origin(t, s, m)
  PROVE  Origin(Append(t, x), s, m)
<1> DEFINE a == Append(t, x)
<1>1. /\ Len(a) = Len(t) + 1 /\ Len(t) \in Nat
      /\ \A n \in 1..Len(t) : a[n] = t[n]
      /\ \A cmd : Mentioned(t, {cmd}) => Mentioned(a, {cmd})
  BY TypedGrows
<1> HIDE DEF a
<1>2. m.line <= Len(a)
  BY <1>1 DEF Origin
<1>3. ASSUME m.line # 0
      PROVE  /\ a[m.line] = t[m.line]
             /\ \A cmd : Nameless(t, m.line, cmd) => Nameless(a, m.line, cmd)
  <2>1. m.line \in 1..Len(t)
    BY <1>1, <1>3 DEF Origin
  <2> QED BY <1>1, <2>1 DEF Nameless
<1>4. Origin(a, s, m)
  BY <1>2, <1>3 DEF Origin
<1> QED BY <1>4 DEF a

LEMMA GoodStays ==
  ASSUME NEW t \in Seq(TypedLine), NEW x \in TypedLine, NEW s
  PROVE  /\ \A u, pipes : GoodPipes(u, t, s, pipes) => GoodPipes(u, Append(t, x), s, pipes)
         /\ \A es : GoodEvents(t, s, es) => GoodEvents(Append(t, x), s, es)
         /\ \A d : GoodMacro(t, d) => GoodMacro(Append(t, x), d)
<1> DEFINE a == Append(t, x)
<1>1. /\ Len(a) = Len(t) + 1 /\ Len(t) \in Nat
      /\ \A n \in 1..Len(t) : a[n] = t[n]
      /\ \A w : Heard(t, w) => Heard(a, w)
  BY TypedGrows
<1>2. \A w : Spoken(t, w) => Spoken(a, w)
  BY <1>1 DEF Spoken
<1>3. ASSUME NEW u, NEW p, NEW m, Good(u, t, s, p, m)
      PROVE  Good(u, a, s, p, m)
  <2>1. m \in MessageSet /\ m.line \in Nat
    BY <1>3, FieldTypes DEF Good
  <2>2. Origin(a, s, m)
    BY <1>3, <2>1, OriginStays DEF Good
  <2> HIDE DEF a
  <2>3. m.kind = "raw_edict" => m.line \in 1..Len(t)
    BY <1>1, <1>3, <2>1 DEF Good, Origin, Worded
  <2>4. Worded(a, m)
    BY <1>1, <1>2, <1>3, <2>3 DEF Good, Worded
  <2> QED BY <1>3, <2>2, <2>4 DEF Good
<1>4. ASSUME NEW es, GoodEvents(t, s, es)
      PROVE  GoodEvents(a, s, es)
  <2>1. es \in Seq(Signal) /\ \A i \in 1..Len(es) : es[i] \in Signal
    BY <1>4 DEF GoodEvents
  <2>2. \A i \in 1..Len(es) : es[i].line \in Nat
    BY <2>1 DEF Signal
  <2>3. \A i \in 1..Len(es) : Origin(a, s, es[i])
    BY <1>4, <2>2, OriginStays DEF GoodEvents
  <2> QED BY <2>1, <2>3 DEF GoodEvents
<1> HIDE DEF a
<1>5. \A u, pipes : GoodPipes(u, t, s, pipes) => GoodPipes(u, a, s, pipes)
  BY <1>3 DEF GoodPipes
<1>6. \A d : GoodMacro(t, d) => GoodMacro(a, d)
  BY <1>1, <1>2 DEF GoodMacro
<1> QED BY <1>4, <1>5, <1>6 DEF a

LEMMA MayTypeText ==
  ASSUME NEW texts \in Seq(SUBSET Texts), typed \in Seq(TypedLine), NEW text,
         MayType(texts, text)
  PROVE  /\ text \in Texts /\ text.cmd \in Words /\ text.args \in Seq(Channels)
<1>1. Len(typed) \in Nat /\ Len(texts) \in Nat
  OBVIOUS
<1>2. Len(typed) + 1 \in 1..Len(texts)
  BY <1>1 DEF MayType
<1>3. texts[Len(typed) + 1] \in SUBSET Texts
  BY <1>2
<1>4. text \in Texts
  BY <1>3 DEF MayType
<1> QED BY <1>4 DEF Texts, Words

LEMMA SendLineTyped ==
  ASSUME TypeInv, NEW text, text.cmd \in Words, text.args \in Seq(Channels),
         NEW chan \in Channels, SendLine(text, chan)
  PROVE  /\ GoodPipes(ui, typed', session, pipe')
         /\ GoodEvents(typed', session, events)
         /\ \A d \in BagToSet(macros) : GoodMacro(typed', d)
         /\ typed' \in Seq(TypedLine)
         /\ mayLog' \subseteq 1..Len(typed') /\ mustLog' \subseteq mayLog'
<1> DEFINE x == [cmd |-> text.cmd, args |-> text.args, channel |-> chan, session |-> session]
           n == Len(typed) + 1
           m == Message("raw_edict", n, text, chan)
           t == Append(typed, x)
<1>1. /\ typed \in Seq(TypedLine) /\ session \in Nat
      /\ mayLog \subseteq 1..Len(typed) /\ mustLog \subseteq mayLog
      /\ GoodPipes(ui, typed, session, pipe) /\ GoodEvents(typed, session, events)
      /\ \A d \in BagToSet(macros) : GoodMacro(typed, d)
      /\ ui \in {"console", "qt", "qtFirst"}
  BY DEF TypeInv, HistoryType
<1>2. /\ x.cmd = text.cmd /\ x.args = text.args /\ x.channel = chan /\ x.session = session
      /\ x \in TypedLine
  BY <1>1 DEF TypedLine
<1>3. typed' = t /\ pipe' = Put(pipe, m)
  BY DEF SendLine
<1> HIDE DEF x
<1>4. /\ t \in Seq(TypedLine) /\ Len(t) = n /\ Len(typed) \in Nat
      /\ \A k \in 1..Len(typed) : k \in 1..n
      /\ t[n] = x
  BY <1>1, <1>2, TypedGrows
<1>5. /\ GoodPipes(ui, t, session, pipe) /\ GoodEvents(t, session, events)
      /\ \A d \in BagToSet(macros) : GoodMacro(t, d)
  BY <1>1, <1>2, GoodStays
<1>6. /\ m.kind = "raw_edict" /\ m.line = n /\ m.cmd = text.cmd /\ m.args = text.args
      /\ m.channel = chan
  BY AboutFields
<1> HIDE DEF m, t
<1>7. n \in Nat /\ n # 0 /\ n \in 1..Len(t)
  BY <1>4
<1>8. Origin(t, session, m)
  BY <1>2, <1>4, <1>6, <1>7 DEF Origin
<1>9. Worded(t, m)
  <2>1. \A j \in 1..Len(text.args) : text.args[j] \in Range(t[n].args)
    BY <1>2, <1>4 DEF Range
  <2>2. \A j \in 1..Len(text.args) : Heard(t, text.args[j])
    BY <1>7, <2>1 DEF Heard
  <2> QED BY <1>2, <1>4, <1>6, <1>7, <2>2 DEF Worded
<1>10. "raw_edict" \in Kinds \ {"shutdown"}
  BY DEF Kinds
<1>11. GoodPipes(ui, t, session, Put(pipe, m))
  BY <1>1, <1>5, <1>7, <1>8, <1>9, <1>10, PutMessageGood DEF m
<1>12. mayLog' \subseteq 1..Len(t) /\ mustLog' \subseteq mayLog'
  <2>1. /\ mayLog' = IF May(mode, chan) THEN mayLog \cup {n} ELSE mayLog
        /\ mustLog' = IF Must(mode, chan) THEN mustLog \cup {n} ELSE mustLog
    BY DEF SendLine
  <2> QED BY <1>1, <1>4, <1>7, <2>1 DEF Must
<1> QED BY <1>3, <1>4, <1>5, <1>11, <1>12

LEMMA InputTyped ==
  ASSUME TypeInv, NEW text, send_input(text)
  PROVE  TypeInv'
<1>1. /\ typed \in Seq(TypedLine) /\ toReader \in Seq(Channels \ {Blank}) /\ channel \in Channels
      /\ waited \in BOOLEAN
  BY DEF TypeInv, HistoryType, UiType
<1>2. text.cmd \in Words /\ text.args \in Seq(Channels)
  BY <1>1, MayTypeText, ConversationAssumption DEF send_input
<1>3. channel' \in Channels /\ toReader' \in Seq(Channels \ {Blank})
  <2>1. CASE toReader = << >>
    BY <1>1, <2>1 DEF send_input
  <2>2. CASE toReader # << >>
    <3>1. Head(toReader) \in Channels \ {Blank} /\ Tail(toReader) \in Seq(Channels \ {Blank})
      BY <1>1, <2>2
    <3> QED BY <2>2, <3>1 DEF send_input
  <2> QED BY <2>1, <2>2
<1>4. SendLine(text, channel')
  BY DEF send_input
<1>5. /\ GoodPipes(ui, typed', session, pipe')
      /\ GoodEvents(typed', session, events)
      /\ \A d \in BagToSet(macros) : GoodMacro(typed', d)
      /\ typed' \in Seq(TypedLine)
      /\ mayLog' \subseteq 1..Len(typed') /\ mustLog' \subseteq mayLog'
  BY <1>2, <1>3, <1>4, SendLineTyped
<1>6. /\ UNCHANGED <<ui, phase, macros, loggerVars, joined, shown, mode, session, only, qtVars>>
      /\ waited' \in BOOLEAN
  BY DEF send_input, SendLine
<1>7. LoggerType'
  BY <1>6 DEF TypeInv, LoggerType, loggerVars
<1>8. UiType'
  BY <1>3, <1>6 DEF TypeInv, UiType, qtVars
<1>9. HistoryType'
  BY <1>5, <1>6 DEF TypeInv, HistoryType
<1>10. ui' = ui /\ session' = session /\ macros' = macros /\ phase' = phase /\ events' = events
  BY <1>6 DEF qtVars
<1> QED BY <1>5, <1>7, <1>8, <1>9, <1>10 DEF TypeInv

LEMMA WindowInputTyped ==
  ASSUME TypeInv, NEW text, request_edict_send(text)
  PROVE  TypeInv'
<1>1. typed \in Seq(TypedLine) /\ tabs \subseteq Channels
  BY DEF TypeInv, HistoryType, UiType
<1>2. text.cmd \in Words /\ text.args \in Seq(Channels)
  BY <1>1, MayTypeText, ConversationAssumption DEF request_edict_send
<1>3. PICK tab \in tabs \cup {Transfers} : SendLine(text, tab)
  BY DEF request_edict_send
<1>4. tab \in Channels
  BY <1>1 DEF Channels
<1>5. /\ GoodPipes(ui, typed', session, pipe')
      /\ GoodEvents(typed', session, events)
      /\ \A d \in BagToSet(macros) : GoodMacro(typed', d)
      /\ typed' \in Seq(TypedLine)
      /\ mayLog' \subseteq 1..Len(typed') /\ mustLog' \subseteq mayLog'
  BY <1>2, <1>3, <1>4, SendLineTyped
<1>6. UNCHANGED <<ui, phase, macros, loggerVars, joined, shown, mode, session, consoleVars,
                  qtVars, waited>>
  BY <1>3 DEF request_edict_send, SendLine
<1>7. LoggerType'
  BY <1>6 DEF TypeInv, LoggerType, loggerVars
<1>8. UiType'
  BY <1>6 DEF TypeInv, UiType, qtVars, consoleVars
<1>9. HistoryType'
  BY <1>5, <1>6 DEF TypeInv, HistoryType
<1>10. ui' = ui /\ session' = session /\ macros' = macros /\ phase' = phase /\ events' = events
  BY <1>6 DEF qtVars
<1> QED BY <1>5, <1>7, <1>8, <1>9, <1>10 DEF TypeInv

LEMMA QuitTyped ==
  ASSUME TypeInv, Quit
  PROVE  TypeInv'
<1>1. GoodPipes(ui, typed, session, pipe') /\ phase' = "stopping"
  BY QuitGood DEF Quit, TypeInv
<1>2. UNCHANGED <<ui, macros, loggerVars, consoleVars, qtVars, joined, shown, history>>
  BY DEF Quit
<1>3. LoggerType'
  BY <1>2 DEF TypeInv, LoggerType, loggerVars
<1>4. UiType'
  BY <1>2 DEF TypeInv, UiType, consoleVars, qtVars
<1>5. HistoryType'
  BY <1>2 DEF TypeInv, HistoryType, history
<1>6. ui' = ui /\ typed' = typed /\ session' = session /\ events' = events /\ macros' = macros
  BY <1>2 DEF qtVars, history
<1> QED BY <1>1, <1>3, <1>4, <1>5, <1>6 DEF TypeInv

LEMMA FirstTyped ==
  /\ FirstToReader \in Seq(Channels \ {Blank})
  /\ FirstTabs \subseteq Channels /\ IsFiniteSet(FirstTabs)
<1>1. Default \in Channels \ {Blank}
  BY ConversationAssumption DEF Channels
<1>2. \A S, x : x \in S => <<x>> \in Seq(S) /\ << >> \in Seq(S)
  OBVIOUS
<1>3. FirstToReader \in Seq(Channels \ {Blank})
  BY <1>1, <1>2 DEF FirstToReader
<1>4. FirstTabs \subseteq Channels /\ IsFiniteSet(FirstTabs)
  BY <1>1, FS_EmptySet, FS_Singleton DEF FirstTabs
<1> QED BY <1>3, <1>4

LEMMA RestartTyped ==
  ASSUME TypeInv, Restart
  PROVE  TypeInv'
<1>1. GoodPipes(ui, typed, session', pipe')
  BY EmptyGood DEF Restart
<1>2. \A d \in BagToSet(macros') : GoodMacro(typed, d)
  BY BuiltInGood DEF Restart
<1>3. GoodEvents(typed, session', events')
  BY DEF Restart, GoodEvents
<1>4. /\ disabled' = saved /\ greylist' = {} /\ shown' = << >> /\ phase' = "running"
      /\ toReader' = FirstToReader /\ channel' = Default /\ only' = Blank
      /\ tabs' = FirstTabs /\ connected' = TRUE /\ joined' = {Default}
      /\ session' = session + 1 /\ mode' \in {"unsaved", "unkept", mode}
      /\ UNCHANGED <<ui, saved, log, typed, mayLog, mustLog, waited, acts>>
  BY DEF Restart
<1>5. LoggerType'
  BY <1>4 DEF TypeInv, LoggerType
<1>6. UiType'
  <2>1. Default \in Channels \ {Blank} /\ Blank \in Channels
    BY ConversationAssumption DEF Channels
  <2>2. /\ FirstToReader \in Seq(Channels \ {Blank})
        /\ FirstTabs \subseteq Channels /\ IsFiniteSet(FirstTabs)
    BY FirstTyped
  <2> QED BY <1>4, <2>1, <2>2 DEF UiType
<1>7. HistoryType'
  BY <1>4 DEF TypeInv, HistoryType, LostModes
<1> QED BY <1>1, <1>2, <1>3, <1>4, <1>5, <1>6, <1>7 DEF TypeInv

LEMMA ChooseTyped ==
  ASSUME TypeInv, NEW m \in Modes, ChooseMode(m)
  PROVE  TypeInv'
<1>1. GoodPipes(ui, typed, session, pipe')
  <2> DEFINE g == Message("logging", 0, Line(m, << >>), Blank)
  <2>1. Line(m, << >>).cmd \in Words /\ Line(m, << >>).args = << >>
    BY DEF Line, Words
  <2>2. /\ g.kind = "logging" /\ g.line = 0 /\ g.args = << >>
    BY <2>1, AboutFields
  <2>3. /\ Len(typed) \in Nat /\ ui \in {"console", "qt", "qtFirst"}
        /\ GoodPipes(ui, typed, session, pipe) /\ Blank \in Channels
    BY DEF TypeInv, HistoryType, Channels
  <2> HIDE DEF g
  <2>4. Origin(typed, session, g) /\ Worded(typed, g)
    BY <2>2, <2>3 DEF Origin, Worded
  <2>5. "logging" \in Kinds \ {"shutdown"} /\ << >> \in Seq(Channels)
    BY DEF Kinds
  <2>6. GoodPipes(ui, typed, session, Put(pipe, g))
    BY <2>1, <2>3, <2>4, <2>5, PutMessageGood DEF g
  <2> QED BY <2>6 DEF ChooseMode, g
<1>2. /\ mode' = m
      /\ mayLog' = mayLog \cup {n \in 1..Len(typed) : May(m, typed[n].channel)}
      /\ mustLog' = {n \in mustLog : Must(m, typed[n].channel)}
  BY DEF ChooseMode
<1>3. /\ UNCHANGED <<ui, phase, macros, loggerVars, consoleVars, qtVars, joined, shown>>
      /\ UNCHANGED <<typed, waited, session>>
  BY DEF ChooseMode
<1>4. LoggerType'
  BY <1>3 DEF TypeInv, LoggerType, loggerVars
<1>5. UiType'
  BY <1>3 DEF TypeInv, UiType, consoleVars, qtVars
<1>6. HistoryType'
  BY <1>2, <1>3 DEF TypeInv, HistoryType
<1>7. /\ ui' = ui /\ typed' = typed /\ session' = session /\ events' = events /\ macros' = macros
      /\ phase' = phase
  BY <1>3 DEF qtVars
<1> QED BY <1>1, <1>4, <1>5, <1>6, <1>7 DEF TypeInv

LEMMA ConcatGood ==
  ASSUME NEW u, NEW t, NEW s, NEW pipes, GoodPipes(u, t, s, pipes), NEW p \in Plugins,
         NEW ms \in Seq(MessageSet), \A i \in 1..Len(ms) : Good(u, t, s, p, ms[i])
  PROVE  GoodPipes(u, t, s, [pipes EXCEPT ![p] = @ \o ms])
<1>1. pipes \in [Plugins -> Seq(MessageSet)]
  BY DEF GoodPipes
<1> DEFINE q == pipes[p]
           c == q \o ms
<1>2. q \in Seq(MessageSet) /\ Len(q) \in Nat /\ Len(ms) \in Nat
      /\ \A i \in 1..Len(q) : Good(u, t, s, p, q[i])
  BY <1>1 DEF GoodPipes
<1> HIDE DEF q
<1>3. /\ c \in Seq(MessageSet) /\ Len(c) = Len(q) + Len(ms)
      /\ \A i \in 1..Len(c) : c[i] = IF i <= Len(q) THEN q[i] ELSE ms[i - Len(q)]
  BY <1>2, ConcatProperties
<1> HIDE DEF c
<1>4. ASSUME NEW i \in 1..Len(c)
      PROVE  Good(u, t, s, p, c[i])
  <2>1. CASE i <= Len(q)
    BY <1>2, <1>3, <2>1
  <2>2. CASE ~(i <= Len(q))
    <3>1. i - Len(q) \in 1..Len(ms)
      BY <1>2, <1>3, <2>2
    <3> QED BY <1>3, <2>2, <3>1
  <2> QED BY <2>1, <2>2
<1>5. GoodPipes(u, t, s, [pipes EXCEPT ![p] = c])
  BY <1>1, <1>3, <1>4 DEF GoodPipes
<1> QED BY <1>5 DEF c, q

LEMMA SetToSeqType ==
  ASSUME NEW S, IsFiniteSet(S)
  PROVE  /\ Cardinality(S) \in Nat /\ SetToSeq(S) \in [1..Cardinality(S) -> S]
         /\ IsInjective(SetToSeq(S)) /\ SetToSeq(S) \in Seq(S)
<1>1. Cardinality(S) \in Nat /\ ExistsBijection(1..Cardinality(S), S)
  BY FS_CardinalityType
<1>2. PICK f \in Bijection(1..Cardinality(S), S) : TRUE
  BY <1>1 DEF ExistsBijection
<1>3. f \in [1..Cardinality(S) -> S] /\ IsInjective(f)
  BY <1>2 DEF Bijection, Injection, IsInjective
<1>4. SetToSeq(S) \in [1..Cardinality(S) -> S] /\ IsInjective(SetToSeq(S))
  BY <1>3 DEF SetToSeq
<1> QED BY <1>1, <1>4

\* What Connect sends: one message for each tab.
LEMMA TabMessages ==
  ASSUME TypeInv, Qt, NEW kind \in {"set_channel", "leave_channel"}
  PROVE  LET order == SetToSeq(tabs)
             ms == [i \in DOMAIN order |-> About(kind, 0, order[i])]
         IN  /\ ms \in Seq(MessageSet)
             /\ \A i \in 1..Len(ms) : /\ Good(ui, typed, session, "ui", ms[i])
                                      /\ ms[i].kind = kind /\ ms[i].line = 0
                                      /\ ms[i].channel \in tabs
<1> DEFINE order == SetToSeq(tabs)
           n == Cardinality(tabs)
           ms == [i \in DOMAIN order |-> About(kind, 0, order[i])]
<1>1. /\ tabs \subseteq Channels /\ IsFiniteSet(tabs) /\ Len(typed) \in Nat
      /\ ui \in {"console", "qt", "qtFirst"} /\ ui # "console"
  BY DEF TypeInv, UiType, HistoryType, Qt
<1>2. order \in [1..n -> tabs] /\ n \in Nat
  BY <1>1, SetToSeqType
<1> HIDE DEF order, n
<1>3. ASSUME NEW chan \in tabs
      PROVE  /\ Good(ui, typed, session, "ui", About(kind, 0, chan))
             /\ About(kind, 0, chan).kind = kind /\ About(kind, 0, chan).line = 0
             /\ About(kind, 0, chan).channel = chan
             /\ About(kind, 0, chan) \in MessageSet
  <2> DEFINE m == About(kind, 0, chan)
  <2>1. /\ m.kind = kind /\ m.line = 0 /\ m.args = NoText.args /\ m.channel = chan
        /\ m.to = Route(kind)
    BY AboutFields DEF About
  <2>2. Route(kind) = <<"ui", "antenna">>
    BY <1>1 DEF Route
  <2>3. /\ kind \in Kinds /\ 0 \in Nat /\ chan \in Channels
        /\ NoText.cmd \in Words /\ NoText.args \in Seq(Channels) /\ Len(NoText.args) = 0
    BY <1>1, NoTextType DEF Kinds
  <2>4. m \in MessageSet
    <3>1. Route(kind) \in Seq(Plugins)
      BY <2>2 DEF Plugins
    <3> QED BY <2>3, <3>1, MessageType DEF About, Message
  <2> HIDE DEF m
  <2>5. Placed(ui, "ui", m)
    BY <1>1, <2>1, <2>2 DEF Placed, KindsOf, Way
  <2>6. Origin(typed, session, m) /\ Worded(typed, m)
    BY <1>1, <2>1, <2>3 DEF Origin, Worded
  <2> QED BY <2>1, <2>4, <2>5, <2>6 DEF Good, m
<1>4. ms = [i \in 1..n |-> About(kind, 0, order[i])]
  BY <1>2
<1>5. ms \in Seq(MessageSet) /\ Len(ms) = n
  BY <1>2, <1>3, <1>4
<1>6. \A i \in 1..n : ms[i] = About(kind, 0, order[i]) /\ order[i] \in tabs
  BY <1>2, <1>4
<1> HIDE DEF ms
<1>7. ms \in Seq(MessageSet) /\ \A i \in 1..Len(ms) : /\ Good(ui, typed, session, "ui", ms[i])
                                      /\ ms[i].kind = kind /\ ms[i].line = 0
                                      /\ ms[i].channel \in tabs
  BY <1>3, <1>5, <1>6
<1> QED BY <1>7 DEF ms, order

LEMMA ConnectTyped ==
  ASSUME TypeInv, Connect
  PROVE  TypeInv'
<1>1. GoodPipes(ui, typed, session, pipe')
  <2> DEFINE kind == IF connected THEN "leave_channel" ELSE "set_channel"
             order == SetToSeq(tabs)
             ms == [i \in DOMAIN order |-> About(kind, 0, order[i])]
  <2>1. Qt /\ kind \in {"set_channel", "leave_channel"}
    BY DEF Connect
  <2>2. pipe' = [pipe EXCEPT !["ui"] = @ \o ms]
    BY DEF Connect
  <2> HIDE DEF kind
  <2>3. ms \in Seq(MessageSet) /\ \A i \in 1..Len(ms) : Good(ui, typed, session, "ui", ms[i])
    BY <2>1, TabMessages
  <2>4. "ui" \in Plugins /\ GoodPipes(ui, typed, session, pipe)
    BY DEF Plugins, TypeInv
  <2> HIDE DEF ms
  <2> QED BY <2>2, <2>3, <2>4, ConcatGood
<1>2. /\ UNCHANGED <<ui, phase, macros, loggerVars, consoleVars, tabs, events>>
      /\ UNCHANGED <<joined, shown, typed, mode, mayLog, mustLog, session>>
      /\ connected' = ~connected /\ waited' \in BOOLEAN
  BY DEF Connect
<1>3. LoggerType'
  BY <1>2 DEF TypeInv, LoggerType, loggerVars
<1>4. UiType'
  BY <1>2 DEF TypeInv, UiType, consoleVars
<1>5. HistoryType'
  BY <1>2 DEF TypeInv, HistoryType
<1>6. /\ ui' = ui /\ typed' = typed /\ session' = session /\ events' = events /\ macros' = macros
      /\ phase' = phase
  BY <1>2
<1> QED BY <1>1, <1>3, <1>4, <1>5, <1>6 DEF TypeInv

LEMMA InitTyped ==
  ASSUME Init
  PROVE  TypeInv
<1>1. GoodPipes(ui, typed, session, pipe)
  <2>1. pipe = [p \in Plugins |-> << >>]
    BY DEF Init
  <2> QED BY <2>1, EmptyGood
<1>2. \A d \in BagToSet(macros) : GoodMacro(typed, d)
  BY BuiltInGood DEF Init
<1>3. GoodEvents(typed, session, events)
  BY DEF Init, GoodEvents
<1>4. LoggerType
  <2>1. disabled = FALSE /\ greylist = {} /\ saved = FALSE /\ log = << >> /\ shown = << >>
    BY DEF Init
  <2>2. log \in Seq(Nat) /\ shown \in Seq(Nat)
    BY <2>1
  <2>3. disabled \in BOOLEAN /\ saved \in BOOLEAN
    BY <2>1
  <2>4. greylist \subseteq {Default}
    BY <2>1
  <2> QED BY <2>2, <2>3, <2>4 DEF LoggerType
<1>5. UiType
  <2>1. Default \in Channels \ {Blank} /\ Blank \in Channels
    BY ConversationAssumption DEF Channels
  <2>2. /\ FirstToReader \in Seq(Channels \ {Blank})
        /\ FirstTabs \subseteq Channels /\ IsFiniteSet(FirstTabs)
    BY FirstTyped
  <2> QED BY <2>1, <2>2 DEF Init, UiType
<1>6. HistoryType
  BY DEF Init, HistoryType, Modes
<1> QED BY <1>1, <1>2, <1>3, <1>4, <1>5, <1>6 DEF Init, TypeInv

LEMMA NextTyped ==
  ASSUME TypeInv, [Next]_vars
  PROVE  TypeInv'
<1>1. CASE UNCHANGED vars
  BY <1>1 DEF vars, loggerVars, consoleVars, qtVars, history, grinderVars, TypeInv,
              LoggerType, UiType, HistoryType
<1>2. ASSUME NEW p \in Plugins, PluginStep(p)
      PROVE  TypeInv'
  BY <1>2, StopTyped, MeatgrinderTyped, AntennaTyped, MasseuseTyped, LoggerTyped,
     ConsoleTyped, EmitTyped DEF PluginStep
<1>3. CASE Qt /\ WindowStep
  BY <1>3, WindowTyped
<1>4. CASE UserStep
  BY <1>4, InputTyped, QuitTyped, WindowInputTyped, ConnectTyped, ChooseTyped, RestartTyped
  DEF UserStep
<1> QED BY <1>1, <1>2, <1>3, <1>4 DEF Next

LEMMA Typed ==
  Spec => []TypeInv
<1>1. Init => TypeInv
  BY InitTyped
<1>2. TypeInv /\ [Next]_vars => TypeInv'
  BY NextTyped
<1> QED BY <1>1, <1>2, PTL DEF Spec

\* What a message has still to visit is on the route of its kind.
LEMMA OnItsRoute ==
  ASSUME ui \in {"console", "qt", "qtFirst"}, NEW p \in Plugins, NEW kind \in KindsOf(ui, p)
  PROVE  Way(ui, p, kind) # << >> /\ Head(Way(ui, p, kind)) = p
         /\ Range(Way(ui, p, kind)) \subseteq Range(Route(kind))
<1> DEFINE w == Way(ui, p, kind)
           r == Route(kind)
<1>1. w # << >> /\ Head(w) = p
  BY WayGoesOn
<1>2. \A a, b : Range(<<a>>) = {a} /\ Range(<<a, b>>) = {a, b}
  BY DEF Range
<1>3. \/ w = <<p>> /\ r = <<p>>
      \/ w = r
      \/ w = <<p>> /\ \E q \in Plugins : r \in {<<p, q>>, <<q, p>>}
  <2>1. CASE p \in {"meatgrinder", "masseuse"}
    BY <2>1 DEF Way, KindsOf, Route
  <2>2. CASE p = "antenna"
    <3>1. CASE kind = "edict"
      BY <2>2, <3>1 DEF Way, Route
    <3>2. CASE kind = "set_channel"
      BY <2>2, <3>2 DEF Way, Route, Plugins
    <3>3. CASE kind = "leave_channel"
      BY <2>2, <3>3 DEF Way, Route, Plugins
    <3> QED BY <2>2, <3>1, <3>2, <3>3 DEF KindsOf
  <2>3. CASE p = "logger"
    <3>1. CASE kind = "display"
      BY <2>3, <3>1 DEF Way, Route, Plugins
    <3>2. CASE kind = "logging"
      BY <2>3, <3>2 DEF Way, Route
    <3> QED BY <2>3, <3>1, <3>2 DEF KindsOf
  <2>4. CASE p = "ui"
    <3>1. CASE kind = "display"
      BY <2>4, <3>1 DEF Way, Route, Plugins
    <3>2. CASE kind = "set_channel"
      BY <2>4, <3>2 DEF Way, Route, Plugins
    <3>3. CASE kind = "leave_channel" /\ ui # "console"
      BY <2>4, <3>3 DEF Way, Route
    <3>4. CASE kind = "only"
      BY <2>4, <3>4 DEF Way, Route
    <3> QED BY <2>4, <3>1, <3>2, <3>3, <3>4 DEF KindsOf
  <2> QED BY <2>1, <2>2, <2>3, <2>4 DEF Plugins
<1> HIDE DEF w, r
<1>4. Range(w) \subseteq Range(r)
  BY <1>2, <1>3
<1> QED BY <1>1, <1>4 DEF w, r

LEMMA TypeInvTypes ==
  ASSUME TypeInv
  PROVE  TypeOK
<1>1. /\ phase \in {"running", "stopping", "stopped", "crashed"}
      /\ GoodPipes(ui, typed, session, pipe)
      /\ ui \in {"console", "qt", "qtFirst"} /\ Len(typed) \in Nat
  BY DEF TypeInv, HistoryType
<1>2. ASSUME NEW p \in Plugins, NEW i \in 1..Len(pipe[p])
      PROVE  IsMessage(pipe[p][i]) /\ (pipe[p][i].kind # "shutdown" => Head(pipe[p][i].to) = p)
  <2> DEFINE m == pipe[p][i]
  <2>1. Good(ui, typed, session, p, m)
    BY <1>1 DEF GoodPipes
  <2> HIDE DEF m
  <2>2. m \in MessageSet /\ Placed(ui, p, m) /\ m.line <= Len(typed)
    BY <2>1 DEF Good, Origin
  <2>3. m.kind \in Kinds /\ m.line \in 0..Len(typed) /\ m.channel \in Channels
    BY <1>1, <2>2, FieldTypes
  <2>4. CASE m.kind = "shutdown" /\ m.to = <<"logger">>
    <3>1. Route(m.kind) = <<"logger">>
      BY <2>4 DEF Route
    <3> QED BY <2>3, <2>4, <3>1 DEF IsMessage, m
  <2>5. CASE m.kind \in KindsOf(ui, p) /\ m.to = Way(ui, p, m.kind)
    BY <1>1, <2>3, <2>5, OnItsRoute DEF IsMessage, m
  <2> QED BY <2>2, <2>4, <2>5 DEF Placed
<1>3. greylist \subseteq {Default} /\ disabled \in BOOLEAN /\ saved \in BOOLEAN
      /\ log \in Seq(Nat) /\ shown \in Seq(Nat)
  BY DEF TypeInv, LoggerType
<1>4. /\ connected \in BOOLEAN /\ toReader \in Seq(Channels \ {Blank})
      /\ channel \in Channels /\ only \in Channels
      /\ tabs \subseteq Channels /\ joined \subseteq Channels
  BY DEF TypeInv, UiType
<1>5. events \in Seq(Signal)
  BY DEF TypeInv, GoodEvents
<1>6. /\ mode \in Modes \cup LostModes
      /\ mayLog \subseteq 1..Len(typed) /\ mustLog \subseteq mayLog
  BY DEF TypeInv, HistoryType
<1> QED BY <1>1, <1>2, <1>3, <1>4, <1>5, <1>6 DEF TypeOK

(* Whatever is typed and however often the program is started: the pipes   *)
(* hold only messages about lines that were typed, on the routes of their  *)
(* kinds, and a channel without a name never gets to the thread that reads *)
(* the keyboard.  (The handlers of all five plugins and of the window.)    *)
THEOREM ConversationTyped == Spec => []TypeOK
<1>1. TypeInv => TypeOK
  BY TypeInvTypes
<1> QED BY <1>1, Typed, PTL

-------------------------------------------------------------------------------
(* The log: what is waiting for the logger is judged by the mode that will *)
(* be in force when it gets there, which may not be the one the user has   *)
(* chosen by then, nor the one the logger has now.                         *)

\* The logger acts on the mode m.
Follows(m, dis, grey) ==
  /\ m = "on" => ~dis
  /\ m \in {"off", "unkept"} => dis /\ grey = {}
  /\ m = "default" => dis /\ grey = {Default}

\* No new mode among the messages from a to b.
Steady(q, a, b) == \A i \in a..b : q[i].kind # "logging"

\* A line that has a channel.
Filed(m) == m.kind = "display" /\ m.line # 0 /\ m.channel # Blank

\* What is written may be, and what must be written is.
Fits(written, n, may, must) == (written => n \in may) /\ (n \in must => written)

Pending(q, m, dis, grey) ==
  /\ \A j \in 1..Len(q) : q[j].kind = "logging" => q[j].line = 0
  /\ Steady(q, 1, Len(q)) => Follows(m, dis, grey)
  /\ \A j \in 1..Len(q) :
       q[j].kind = "logging" /\ Steady(q, j + 1, Len(q)) => q[j].cmd = m

Judged(q, dis, grey, may, must) ==
  /\ \A k \in 1..Len(q) :
       Filed(q[k]) /\ Steady(q, 1, k - 1) =>
         Fits(~dis \/ q[k].channel \in grey, q[k].line, may, must)
  /\ \A j, k \in 1..Len(q) :
       j < k /\ q[j].kind = "logging" /\ Filed(q[k]) /\ Steady(q, j + 1, k - 1) =>
         Fits(q[j].cmd = "on" \/ (q[j].cmd = "default" /\ q[k].channel = Default),
              q[k].line, may, must)

Wanted ==
  \A n \in 1..Len(typed) :
    /\ typed[n].session <= session
    /\ typed[n].session = session =>
         /\ May(mode, typed[n].channel) => n \in mayLog
         /\ n \in mustLog => Must(mode, typed[n].channel)

\* The shutdown message is the last one, and the settings are saved with it.
Closing ==
  LET q == pipe["logger"]
  IN  /\ phase = "running" =>
           \A p \in Plugins : \A i \in 1..Len(pipe[p]) : pipe[p][i].kind # "shutdown"
      /\ \A i \in 1..Len(q) : q[i].kind = "shutdown" => i = Len(q)
      /\ phase = "stopping" =>
           IF q = << >> THEN saved = disabled ELSE q[Len(q)].kind = "shutdown"
      /\ phase = "stopped" => q = << >> /\ saved = disabled

\* Lines that are past the logger, or shown.
Seen(n) ==
  \/ n \in Range(shown)
  \/ \E i \in 1..Len(events) : events[i].kind = "display" /\ events[i].line = n
  \/ /\ ui # "qtFirst"
     /\ \E i \in 1..Len(pipe["ui"]) : pipe["ui"][i].kind = "display" /\ pipe["ui"][i].line = n

Logged(n) ==
  n \in Range(log) \/ \E k \in 1..Len(pipe["logger"]) : pipe["logger"][k].line = n

SeenIsLogged ==
  phase = "running" =>
    \A n \in mustLog : Seen(n) /\ ~Nameless(typed, n, "/channel") => Logged(n)

LogInv ==
  /\ Wanted /\ Closing
  /\ phase # "crashed" =>
       /\ Pending(pipe["logger"], mode, disabled, greylist)
       /\ Judged(pipe["logger"], disabled, greylist, mayLog, mustLog)
  /\ LogRespectsMode
  /\ \A i \in 1..Len(shown) : shown[i] <= Len(typed)
  /\ SeenIsLogged

LEMMA AppendFacts ==
  ASSUME NEW S, NEW q \in Seq(S), NEW x \in S
  PROVE  /\ Append(q, x) \in Seq(S) /\ Len(Append(q, x)) = Len(q) + 1 /\ Len(q) \in Nat
         /\ \A i \in 1..Len(q) : Append(q, x)[i] = q[i]
         /\ Append(q, x)[Len(q) + 1] = x
         /\ \A i \in 1..(Len(q) + 1) : i \in 1..Len(q) \/ i = Len(q) + 1
BY AppendProperties

LEMMA TailFacts ==
  ASSUME NEW S, NEW q \in Seq(S), q # << >>
  PROVE  /\ Tail(q) \in Seq(S) /\ Len(Tail(q)) = Len(q) - 1 /\ Len(q) \in Nat /\ Len(q) # 0
         /\ \A i \in 1..Len(Tail(q)) : Tail(q)[i] = q[i + 1] /\ i + 1 \in 1..Len(q)
         /\ Head(q) = q[1] /\ 1 \in 1..Len(q) /\ Head(q) \in S
<1>1. Len(q) \in Nat /\ Len(q) # 0
  OBVIOUS
<1>2. /\ Tail(q) \in Seq(S) /\ Len(Tail(q)) = Len(q) - 1 /\ Head(q) \in S
      /\ \A i \in 1..Len(Tail(q)) : Tail(q)[i] = q[i + 1]
  BY HeadTailProperties
<1>3. Head(q) = q[1] /\ 1 \in 1..Len(q)
  BY <1>1
<1> QED BY <1>1, <1>2, <1>3

\* A line that joins the queue will be judged by the mode the user chose last.
LEMMA QueueLine ==
  ASSUME NEW q \in Seq(MessageSet), NEW x \in MessageSet, x.kind # "logging",
         NEW m \in Modes \cup LostModes, NEW dis \in BOOLEAN, NEW grey \in SUBSET {Default},
         NEW may, NEW must,
         Pending(q, m, dis, grey), Judged(q, dis, grey, may, must),
         Filed(x) => /\ May(m, x.channel) => x.line \in may
                     /\ x.line \in must => Must(m, x.channel)
  PROVE  Pending(Append(q, x), m, dis, grey) /\ Judged(Append(q, x), dis, grey, may, must)
<1> DEFINE r == Append(q, x)
<1>1. /\ r \in Seq(MessageSet) /\ Len(r) = Len(q) + 1 /\ Len(q) \in Nat
      /\ \A i \in 1..Len(q) : r[i] = q[i]
      /\ r[Len(q) + 1] = x
      /\ \A i \in 1..(Len(q) + 1) : i \in 1..Len(q) \/ i = Len(q) + 1
  BY AppendFacts
<1> HIDE DEF r
<1>2. \A a, b \in Int : 1 <= a /\ b <= Len(q) => (Steady(r, a, b) <=> Steady(q, a, b))
  BY <1>1 DEF Steady
<1>3. \A a \in Int : 1 <= a => (Steady(r, a, Len(r)) <=> Steady(q, a, Len(q)))
  BY <1>1 DEF Steady
<1>4. Pending(r, m, dis, grey)
  <2>1. \A j \in 1..Len(r) : r[j].kind = "logging" => r[j].line = 0
    BY <1>1 DEF Pending
  <2>2. Steady(r, 1, Len(r)) => Follows(m, dis, grey)
    BY <1>3 DEF Pending
  <2>3. ASSUME NEW j \in 1..Len(r), r[j].kind = "logging", Steady(r, j + 1, Len(r))
        PROVE  r[j].cmd = m
    <3>1. j \in 1..Len(q) /\ Steady(q, j + 1, Len(q))
      BY <1>1, <1>3, <2>3
    <3> QED BY <1>1, <2>3, <3>1 DEF Pending
  <2> QED BY <2>1, <2>2, <2>3 DEF Pending
<1>5. Follows(m, dis, grey) /\ Filed(x) => Fits(~dis \/ x.channel \in grey, x.line, may, must)
  <2>1. ASSUME Follows(m, dis, grey)
        PROVE  /\ ~dis \/ x.channel \in grey => May(m, x.channel)
               /\ Must(m, x.channel) => ~dis \/ x.channel \in grey
    BY <2>1 DEF Follows, May, Must, Modes, LostModes
  <2> QED BY <2>1 DEF Fits
<1>6. ASSUME NEW k \in 1..Len(r), Filed(r[k]), Steady(r, 1, k - 1)
      PROVE  Fits(~dis \/ r[k].channel \in grey, r[k].line, may, must)
  <2>1. CASE k \in 1..Len(q)
    <3>1. Steady(q, 1, k - 1)
      BY <1>1, <1>2, <1>6, <2>1
    <3> QED BY <1>1, <1>6, <2>1, <3>1 DEF Judged
  <2>2. CASE k = Len(q) + 1
    <3>1. Steady(q, 1, Len(q))
      BY <1>1, <1>2, <1>6, <2>2
    <3>2. Follows(m, dis, grey)
      BY <3>1 DEF Pending
    <3> QED BY <1>1, <1>5, <1>6, <2>2, <3>2
  <2> QED BY <1>1, <2>1, <2>2
<1>7. ASSUME NEW j \in 1..Len(r), NEW k \in 1..Len(r), j < k, r[j].kind = "logging",
             Filed(r[k]), Steady(r, j + 1, k - 1)
      PROVE  Fits(r[j].cmd = "on" \/ (r[j].cmd = "default" /\ r[k].channel = Default),
                  r[k].line, may, must)
  <2>0. j \in 1..Len(q) /\ r[j] = q[j]
    BY <1>1, <1>7
  <2>1. CASE k \in 1..Len(q)
    <3>1. Steady(q, j + 1, k - 1)
      BY <1>1, <1>2, <1>7, <2>1
    <3> QED BY <1>1, <1>7, <2>0, <2>1, <3>1 DEF Judged
  <2>2. CASE k = Len(q) + 1
    <3>1. Steady(q, j + 1, Len(q))
      BY <1>1, <1>2, <1>7, <2>2
    <3>2. q[j].cmd = m
      BY <1>7, <2>0, <3>1 DEF Pending
    <3>3. r[k] = x /\ Filed(x)
      BY <1>1, <1>7, <2>2
    <3>4. /\ m = "on" \/ (m = "default" /\ x.channel = Default) => May(m, x.channel)
          /\ Must(m, x.channel) => m = "on" \/ (m = "default" /\ x.channel = Default)
      BY DEF May, Must, Modes, LostModes
    <3> QED BY <2>0, <3>2, <3>3, <3>4 DEF Fits
  <2> QED BY <1>1, <2>1, <2>2
<1> QED BY <1>4, <1>6, <1>7 DEF Judged, r

\* A new mode does not change how the lines before it are judged.
LEMMA QueueMode ==
  ASSUME NEW q \in Seq(MessageSet), NEW x \in MessageSet, x.kind = "logging", x.line = 0,
         NEW m, NEW dis, NEW grey, NEW may, NEW must,
         Pending(q, m, dis, grey), Judged(q, dis, grey, may, must),
         NEW may2, may \subseteq may2, NEW must2, must2 \subseteq must
  PROVE  Pending(Append(q, x), x.cmd, dis, grey) /\ Judged(Append(q, x), dis, grey, may2, must2)
<1> DEFINE r == Append(q, x)
<1>1. /\ r \in Seq(MessageSet) /\ Len(r) = Len(q) + 1 /\ Len(q) \in Nat
      /\ \A i \in 1..Len(q) : r[i] = q[i]
      /\ r[Len(q) + 1] = x
      /\ \A i \in 1..(Len(q) + 1) : i \in 1..Len(q) \/ i = Len(q) + 1
  BY AppendFacts
<1> HIDE DEF r
<1>2. \A a, b \in Int : 1 <= a /\ b <= Len(q) => (Steady(r, a, b) <=> Steady(q, a, b))
  BY <1>1 DEF Steady
<1>3. \A a \in Int : a <= Len(r) => ~Steady(r, a, Len(r))
  BY <1>1 DEF Steady
<1>4. Pending(r, x.cmd, dis, grey)
  <2>1. \A j \in 1..Len(r) : r[j].kind = "logging" => r[j].line = 0
    BY <1>1 DEF Pending
  <2>2. ~Steady(r, 1, Len(r))
    BY <1>1, <1>3
  <2>3. ASSUME NEW j \in 1..Len(r), Steady(r, j + 1, Len(r))
        PROVE  r[j].cmd = x.cmd
    BY <1>1, <1>3, <2>3
  <2> QED BY <2>1, <2>2, <2>3 DEF Pending
<1>5. \A b, n : Fits(b, n, may, must) => Fits(b, n, may2, must2)
  BY DEF Fits
<1>6. ~Filed(x)
  BY DEF Filed
<1>7. ASSUME NEW k \in 1..Len(r), Filed(r[k]), Steady(r, 1, k - 1)
      PROVE  Fits(~dis \/ r[k].channel \in grey, r[k].line, may2, must2)
  <2>1. k \in 1..Len(q) /\ r[k] = q[k]
    BY <1>1, <1>6, <1>7
  <2>2. Steady(q, 1, k - 1)
    BY <1>1, <1>2, <1>7, <2>1
  <2> QED BY <1>5, <1>7, <2>1, <2>2 DEF Judged
<1>8. ASSUME NEW j \in 1..Len(r), NEW k \in 1..Len(r), j < k, r[j].kind = "logging",
             Filed(r[k]), Steady(r, j + 1, k - 1)
      PROVE  Fits(r[j].cmd = "on" \/ (r[j].cmd = "default" /\ r[k].channel = Default),
                  r[k].line, may2, must2)
  <2>1. k \in 1..Len(q) /\ r[k] = q[k] /\ j \in 1..Len(q) /\ r[j] = q[j]
    BY <1>1, <1>6, <1>8
  <2>2. Steady(q, j + 1, k - 1)
    BY <1>1, <1>2, <1>8, <2>1
  <2> QED BY <1>5, <1>8, <2>1, <2>2 DEF Judged
<1> QED BY <1>4, <1>7, <1>8 DEF Judged, r

\* What the logger reads next leaves the rest judged as it was.
LEMMA QueueRead ==
  ASSUME NEW q \in Seq(MessageSet), q # << >>,
         NEW m, NEW dis, NEW grey, NEW may, NEW must,
         Pending(q, m, dis, grey), Judged(q, dis, grey, may, must),
         NEW dis2, NEW grey2,
         IF Head(q).kind = "logging"
         THEN /\ dis2 = (Head(q).cmd # "on")
              /\ grey2 = IF Head(q).cmd = "default" THEN {Default} ELSE {}
         ELSE dis2 = dis /\ grey2 = grey
  PROVE  Pending(Tail(q), m, dis2, grey2) /\ Judged(Tail(q), dis2, grey2, may, must)
<1> DEFINE r == Tail(q)
           h == Head(q)
<1>1. /\ r \in Seq(MessageSet) /\ Len(r) = Len(q) - 1 /\ Len(q) \in Nat /\ Len(q) # 0
      /\ \A i \in 1..Len(r) : r[i] = q[i + 1] /\ i + 1 \in 1..Len(q)
      /\ h = q[1] /\ 1 \in 1..Len(q)
  BY TailFacts
<1> HIDE DEF r, h
<1>2. \A a, b \in Int : 1 <= a /\ b <= Len(r) => (Steady(r, a, b) <=> Steady(q, a + 1, b + 1))
  <2>1. ASSUME NEW a \in Int, NEW b \in Int, 1 <= a, b <= Len(r), Steady(r, a, b),
               NEW i \in (a + 1)..(b + 1)
        PROVE  q[i].kind # "logging"
    <3>1. i - 1 \in a..b /\ i - 1 \in 1..Len(r) /\ (i - 1) + 1 = i
      BY <1>1, <2>1
    <3> QED BY <1>1, <2>1, <3>1 DEF Steady
  <2>2. ASSUME NEW a \in Int, NEW b \in Int, 1 <= a, b <= Len(r), Steady(q, a + 1, b + 1),
               NEW i \in a..b
        PROVE  r[i].kind # "logging"
    <3>1. i + 1 \in (a + 1)..(b + 1) /\ i \in 1..Len(r)
      BY <1>1, <2>2
    <3> QED BY <1>1, <2>2, <3>1 DEF Steady
  <2> QED BY <2>1, <2>2 DEF Steady
<1>3. \A b \in Int : h.kind # "logging" => (Steady(q, 1, b) <=> Steady(q, 2, b))
  BY <1>1 DEF Steady
<1>4. Pending(r, m, dis2, grey2)
  <2>1. \A j \in 1..Len(r) : r[j].kind = "logging" => r[j].line = 0
    BY <1>1 DEF Pending
  <2>2. ASSUME Steady(r, 1, Len(r))
        PROVE  Follows(m, dis2, grey2)
    <3>1. Steady(q, 2, Len(q))
      BY <1>1, <1>2, <2>2
    <3>2. CASE h.kind # "logging"
      BY <1>1, <1>3, <3>1, <3>2 DEF Pending, h
    <3>3. CASE h.kind = "logging"
      <4>1. h.cmd = m
        BY <1>1, <3>1, <3>3 DEF Pending
      <4> QED BY <3>3, <4>1 DEF Follows, h
    <3> QED BY <3>2, <3>3
  <2>3. ASSUME NEW j \in 1..Len(r), r[j].kind = "logging", Steady(r, j + 1, Len(r))
        PROVE  r[j].cmd = m
    <3>1. Steady(q, (j + 1) + 1, Len(q)) /\ j + 1 \in 1..Len(q)
      BY <1>1, <1>2, <2>3
    <3> QED BY <1>1, <2>3, <3>1 DEF Pending
  <2> QED BY <2>1, <2>2, <2>3 DEF Pending
<1>5. ASSUME NEW k \in 1..Len(r), Filed(r[k]), Steady(r, 1, k - 1)
      PROVE  Fits(~dis2 \/ r[k].channel \in grey2, r[k].line, may, must)
  <2>1. k + 1 \in 1..Len(q) /\ r[k] = q[k + 1] /\ Steady(q, 2, k)
    <3>1. 1 \in Int /\ k - 1 \in Int /\ 1 <= 1 /\ k - 1 <= Len(r)
      BY <1>1
    <3>2. Steady(q, 1 + 1, (k - 1) + 1)
      BY <1>2, <1>5, <3>1
    <3>3. 1 + 1 = 2 /\ (k - 1) + 1 = k
      BY <1>1
    <3> QED BY <1>1, <3>2, <3>3
  <2>2. CASE h.kind # "logging"
    <3>1. Steady(q, 1, (k + 1) - 1)
      BY <1>3, <2>1, <2>2
    <3> QED BY <1>5, <2>1, <2>2, <3>1 DEF Judged, h
  <2>3. CASE h.kind = "logging"
    <3>1. Steady(q, 1 + 1, (k + 1) - 1) /\ 1 < k + 1
      BY <2>1
    <3>2. Fits(q[1].cmd = "on" \/ (q[1].cmd = "default" /\ q[k + 1].channel = Default),
               q[k + 1].line, may, must)
      BY <1>1, <1>5, <2>1, <2>3, <3>1 DEF Judged
    <3>3. ~dis2 \/ r[k].channel \in grey2 <=>
            q[1].cmd = "on" \/ (q[1].cmd = "default" /\ q[k + 1].channel = Default)
      BY <1>1, <2>1, <2>3 DEF h
    <3> QED BY <2>1, <3>2, <3>3 DEF Fits
  <2> QED BY <2>2, <2>3
<1>6. ASSUME NEW j \in 1..Len(r), NEW k \in 1..Len(r), j < k, r[j].kind = "logging",
             Filed(r[k]), Steady(r, j + 1, k - 1)
      PROVE  Fits(r[j].cmd = "on" \/ (r[j].cmd = "default" /\ r[k].channel = Default),
                  r[k].line, may, must)
  <2>1. /\ k + 1 \in 1..Len(q) /\ r[k] = q[k + 1] /\ j + 1 \in 1..Len(q) /\ r[j] = q[j + 1]
        /\ Steady(q, (j + 1) + 1, (k + 1) - 1) /\ j + 1 < k + 1
    <3>1. j + 1 \in Int /\ k - 1 \in Int /\ 1 <= j + 1 /\ k - 1 <= Len(r)
      BY <1>1
    <3>2. Steady(q, (j + 1) + 1, (k - 1) + 1)
      BY <1>2, <1>6, <3>1
    <3>3. (k - 1) + 1 = (k + 1) - 1 /\ j + 1 < k + 1
      BY <1>1, <1>6
    <3> QED BY <1>1, <3>2, <3>3
  <2> QED BY <1>6, <2>1 DEF Judged
<1> QED BY <1>4, <1>5, <1>6 DEF Judged, r

\* A line that is only typed is not in the queue.
LEMMA QueueTyped ==
  ASSUME NEW q \in Seq(MessageSet), NEW dis, NEW grey, NEW may, NEW must,
         Judged(q, dis, grey, may, must),
         NEW n, \A k \in 1..Len(q) : q[k].line # n,
         NEW may2, may \subseteq may2, NEW must2, must2 \subseteq must \cup {n}
  PROVE  Judged(q, dis, grey, may2, must2)
<1>1. \A k \in 1..Len(q) : \A b :
        Fits(b, q[k].line, may, must) => Fits(b, q[k].line, may2, must2)
  BY DEF Fits
<1> QED BY <1>1 DEF Judged

-------------------------------------------------------------------------------
(* What a step does to the pipes                                           *)

LEMMA RestAt ==
  ASSUME TypeInv, NEW p \in Plugins, pipe[p] # << >>
  PROVE  /\ Rest(p) \in [Plugins -> Seq(MessageSet)]
         /\ \A q \in Plugins : Rest(p)[q] = IF q = p THEN Tail(pipe[p]) ELSE pipe[q]
         /\ pipe \in [Plugins -> Seq(MessageSet)]
<1>1. pipe \in [Plugins -> Seq(MessageSet)]
  BY DEF TypeInv, GoodPipes
<1>2. Tail(pipe[p]) \in Seq(MessageSet)
  BY <1>1
<1> QED BY <1>1, <1>2 DEF Rest

LEMMA PutAt ==
  ASSUME NEW pipes \in [Plugins -> Seq(MessageSet)], NEW m, Head(m.to) \in Plugins
  PROVE  \A q \in Plugins :
           Put(pipes, m)[q] = IF phase = "running" /\ q = Head(m.to)
                              THEN Append(pipes[q], m) ELSE pipes[q]
BY DEF Put

\* The message m is sent instead of the one that is read.
Instead(p, m) ==
  \A q \in Plugins :
    LET left == IF q = p THEN Tail(pipe[p]) ELSE pipe[q]
    IN  pipe'[q] = IF phase = "running" /\ q = Head(m.to) THEN Append(left, m) ELSE left

LEMMA WriteInstead ==
  ASSUME TypeInv, NEW p \in Plugins, pipe[p] # << >>, NEW m, Head(m.to) \in Plugins,
         pipe' = Put(Rest(p), m)
  PROVE  Instead(p, m)
<1>1. /\ Rest(p) \in [Plugins -> Seq(MessageSet)]
      /\ \A q \in Plugins : Rest(p)[q] = IF q = p THEN Tail(pipe[p]) ELSE pipe[q]
  BY RestAt
<1>2. \A q \in Plugins :
        pipe'[q] = IF phase = "running" /\ q = Head(m.to)
                   THEN Append(Rest(p)[q], m) ELSE Rest(p)[q]
  BY <1>1, PutAt
<1> QED BY <1>1, <1>2 DEF Instead

LEMMA MessageHead ==
  ASSUME ui \in {"console", "qt", "qtFirst"},
         NEW kind \in {"raw_edict", "register_replacer", "display_commands", "edict", "received",
                       "notify", "set_channel", "leave_channel", "only"},
         NEW line, NEW text, NEW chan
  PROVE  LET m == Message(kind, line, text, chan)
         IN  Head(m.to) \in Plugins \ {"logger"} /\ m.kind = kind /\ m.line = line
             /\ m.channel = chan /\ m.to = Route(kind)
<1>1. \/ Route(kind) = <<"meatgrinder">> \/ Route(kind) = <<"antenna">>
      \/ Route(kind) = <<"masseuse">> \/ Route(kind) = <<"ui">>
      \/ Route(kind) = <<"antenna", "ui">> \/ Route(kind) = <<"ui", "antenna">>
  BY DEF Route
<1>2. Head(Route(kind)) \in Plugins \ {"logger"}
  <2>1. \A a, b : Head(<<a>>) = a /\ Head(<<a, b>>) = a
    OBVIOUS
  <2> QED BY <1>1, <2>1 DEF Plugins
<1> QED BY <1>2, AboutFields

GrinderKinds == {"raw_edict", "register_replacer", "display_commands", "edict", "notify",
                 "set_channel", "leave_channel", "only"}

\* The meatgrinder sends at most one message, about the same line.
LEMMA GrinderShape ==
  ASSUME TypeInv, MeatgrinderStep
  PROVE  /\ pipe["meatgrinder"] # << >> /\ phase \in {"running", "stopping"}
         /\ \/ Crash
            \/ HandleQuit
            \/ phase' = phase /\ pipe' = Rest("meatgrinder")
            \/ /\ phase' = phase
               /\ \E m : /\ m.kind \in GrinderKinds /\ m.line = Edict.line
                         /\ m.to = Route(m.kind)
                         /\ Head(m.to) \in Plugins \ {"logger"}
                         /\ pipe' = Put(Rest("meatgrinder"), m)
<1> DEFINE Sent == /\ phase' = phase
                   /\ \E m : /\ m.kind \in GrinderKinds /\ m.line = Edict.line
                             /\ m.to = Route(m.kind)
                             /\ Head(m.to) \in Plugins \ {"logger"}
                             /\ pipe' = Put(Rest("meatgrinder"), m)
           Dropped == phase' = phase /\ pipe' = Rest("meatgrinder")
<1>1. ui \in {"console", "qt", "qtFirst"}
  BY DEF TypeInv
<1>2. pipe["meatgrinder"] # << >> /\ phase \in {"running", "stopping"}
  BY DEF MeatgrinderStep, DropEmpty, Rewrite, Complain, HandleNormal, HandleMe, HandleQuit,
         HandleChannelChange, HandleChannelLeave, HandleOnly, HandleCommands,
         HandleUserCommand, HandleEraseCommand, Define, Erase, DisplayCommands,
         Grinds, Handles, Reads
<1>3. ASSUME NEW kind \in GrinderKinds \ {"raw_edict", "register_replacer"}, NEW chan,
             Answer(kind, chan)
      PROVE  Sent
  <2> DEFINE m == About(kind, Edict.line, chan)
  <2>1. /\ Head(m.to) \in Plugins \ {"logger"} /\ m.kind = kind /\ m.line = Edict.line
        /\ m.to = Route(kind)
    BY <1>1, MessageHead DEF About, GrinderKinds
  <2>2. phase' = phase /\ pipe' = Put(Rest("meatgrinder"), m)
    BY <1>3 DEF Answer, Write
  <2> QED BY <2>1, <2>2
<1>4. ASSUME NEW text, Register(text)
      PROVE  Sent
  <2> DEFINE m == Message("register_replacer", Edict.line, text, Edict.channel)
  <2>1. /\ Head(m.to) \in Plugins \ {"logger"} /\ m.kind = "register_replacer" /\ m.line = Edict.line
        /\ m.to = Route("register_replacer")
    BY <1>1, MessageHead
  <2>2. phase' = phase /\ pipe' = Put(Rest("meatgrinder"), m)
    BY <1>4 DEF Register
  <2> QED BY <2>1, <2>2 DEF GrinderKinds
<1>5. ASSUME Rewrite
      PROVE  Sent
  <2>1. PICK m \in Rewritten(macros, Edict) : pipe' = Put(Rest("meatgrinder"), m)
    BY <1>5 DEF Rewrite, Write
  <2>2. PICK d : m = [Edict EXCEPT !.cmd = d.to, !.args = d.args \o @]
    BY <2>1 DEF Rewritten
  <2>3. Edict \in MessageSet /\ Edict.kind = "raw_edict" /\ Edict.to = <<"meatgrinder">>
    BY <1>5, EdictFacts DEF Rewrite, Grinds
  <2>4. m.kind = "raw_edict" /\ m.line = Edict.line /\ m.to = <<"meatgrinder">>
    BY <2>2, <2>3 DEF MessageSet
  <2>5. Head(m.to) \in Plugins \ {"logger"} /\ m.kind \in GrinderKinds
    BY <2>4 DEF Plugins, GrinderKinds
  <2>6. phase' = phase
    BY <1>5 DEF Rewrite
  <2>7. m.to = Route(m.kind)
    BY <2>4 DEF Route
  <2> QED BY <2>1, <2>4, <2>5, <2>6, <2>7
<1> HIDE DEF Sent
<1>6. ASSUME Undefined
      PROVE  Crash \/ Dropped
  BY <1>6 DEF Undefined, Swallow
<1>7. CASE DropEmpty
  BY <1>2, <1>7 DEF DropEmpty, Swallow, Sent
<1>8. CASE Rewrite
  BY <1>2, <1>5, <1>8 DEF Sent
<1>9. CASE Complain \/ HandleNormal \/ HandleChannelChange \/ HandleChannelLeave \/ HandleOnly
           \/ HandleCommands \/ DisplayCommands
  <2>1. {"notify", "edict", "set_channel", "leave_channel", "only", "display_commands"}
          \subseteq GrinderKinds \ {"raw_edict", "register_replacer"}
    BY DEF GrinderKinds
  <2>2. Sent
    BY <1>3, <1>9, <2>1 DEF Complain, HandleNormal, HandleChannelChange, HandleChannelLeave,
                            HandleOnly, HandleCommands, DisplayCommands
  <2> QED BY <1>2, <2>2 DEF Sent
<1>10. CASE HandleMe
  <2>1. "edict" \in GrinderKinds \ {"raw_edict", "register_replacer"}
    BY DEF GrinderKinds
  <2>2. Sent \/ Dropped
    BY <1>3, <1>10, <2>1 DEF HandleMe, Swallow
  <2> QED BY <1>2, <2>2 DEF Sent
<1>11. CASE HandleQuit
  BY <1>2, <1>11
<1>12. CASE HandleUserCommand \/ HandleEraseCommand
  <2>1. Sent \/ Dropped \/ Crash
    BY <1>4, <1>6, <1>12 DEF HandleUserCommand, HandleEraseCommand, Swallow
  <2> QED BY <1>2, <2>1 DEF Sent
<1>13. CASE Define \/ Erase
  <2>1. Dropped \/ Crash
    BY <1>6, <1>13 DEF Define, Erase, Swallow
  <2> QED BY <1>2, <2>1
<1> QED BY <1>7, <1>8, <1>9, <1>10, <1>11, <1>12, <1>13 DEF MeatgrinderStep

-------------------------------------------------------------------------------
(* The log is kept                                                         *)

\* A step of which the logger only notices that another line may wait for it.
Calm ==
  /\ phase \in {"running", "stopping"} /\ phase' = phase
  /\ \/ pipe'["logger"] = pipe["logger"]
     \/ /\ phase = "running"
        /\ \E x : x.kind # "logging" /\ pipe'["logger"] = Append(pipe["logger"], x)
  /\ phase = "running" =>
       \A p \in Plugins : \A i \in 1..Len(pipe'[p]) : pipe'[p][i].kind # "shutdown"
  /\ UNCHANGED <<ui, disabled, greylist, saved, log>>
  /\ UNCHANGED <<mode, mayLog, mustLog, typed, session>>
  /\ \A i \in 1..Len(shown') : shown'[i] <= Len(typed)
  /\ phase = "running" => \A n : Seen(n)' => Seen(n) \/ Logged(n)'

LEMMA LogTypes ==
  ASSUME TypeInv
  PROVE  /\ "logger" \in Plugins /\ pipe["logger"] \in Seq(MessageSet)
         /\ mode \in Modes \cup LostModes /\ disabled \in BOOLEAN /\ saved \in BOOLEAN
         /\ greylist \in SUBSET {Default} /\ typed \in Seq(TypedLine) /\ Len(typed) \in Nat
         /\ mayLog \subseteq 1..Len(typed) /\ mustLog \subseteq mayLog
         /\ log \in Seq(Nat) /\ shown \in Seq(Nat)
BY DEF TypeInv, GoodPipes, HistoryType, LoggerType, Plugins

\* A line on its way to the logger may be logged if the mode allows it now.
LEMMA FiledIsWanted ==
  ASSUME TypeInv, Wanted, NEW p, NEW x, Good(ui, typed, session, p, x), Filed(x)
  PROVE  /\ May(mode, x.channel) => x.line \in mayLog
         /\ x.line \in mustLog => Must(mode, x.channel)
<1>1. /\ x.line <= Len(typed) /\ x.line # 0 /\ typed[x.line].session = session
      /\ x.channel = typed[x.line].channel
  BY DEF Good, Origin, Filed
<1>2. x.line \in 1..Len(typed)
  <2>1. x.line \in Nat /\ Len(typed) \in Nat
    BY FieldTypes, LogTypes DEF Good
  <2> QED BY <1>1, <2>1
<1> QED BY <1>1, <1>2 DEF Wanted

LEMMA CalmQueue ==
  ASSUME TypeInv, TypeInv', LogInv, Calm
  PROVE  /\ Pending(pipe'["logger"], mode, disabled, greylist)
         /\ Judged(pipe'["logger"], disabled, greylist, mayLog, mustLog)
<1> DEFINE q == pipe["logger"]
<1>1. /\ Pending(q, mode, disabled, greylist) /\ Judged(q, disabled, greylist, mayLog, mustLog)
      /\ Wanted
  BY DEF LogInv, Calm
<1>2. CASE pipe'["logger"] = q
  BY <1>1, <1>2
<1>3. ASSUME NEW x, x.kind # "logging", pipe'["logger"] = Append(q, x)
      PROVE  /\ Pending(pipe'["logger"], mode, disabled, greylist)
             /\ Judged(pipe'["logger"], disabled, greylist, mayLog, mustLog)
  <2>1. q \in Seq(MessageSet) /\ Len(q) \in Nat /\ "logger" \in Plugins
    BY LogTypes
  <2> DEFINE r == Append(q, x)
  <2>2. Len(r) = Len(q) + 1 /\ r[Len(q) + 1] = x
    BY <2>1, SeqOfMore, AppendProperties
  <2>3. GoodPipes(ui, typed, session, pipe')
    BY DEF TypeInv, Calm
  <2> HIDE DEF q, r
  <2>4. Good(ui, typed, session, "logger", x)
    <3>1. Len(q) + 1 \in 1..Len(r)
      BY <2>1, <2>2
    <3>2. pipe'["logger"] = r
      BY <1>3 DEF r, q
    <3> QED BY <2>1, <2>2, <2>3, <3>1, <3>2 DEF GoodPipes
  <2>5. Filed(x) => /\ May(mode, x.channel) => x.line \in mayLog
                    /\ x.line \in mustLog => Must(mode, x.channel)
    BY <1>1, <2>4, FiledIsWanted
  <2>6. x \in MessageSet
    BY <2>4 DEF Good
  <2>7. /\ mode \in Modes \cup LostModes /\ disabled \in BOOLEAN /\ greylist \in SUBSET {Default}
    BY LogTypes
  <2> QED BY <1>1, <1>3, <2>1, <2>5, <2>6, <2>7, QueueLine DEF q
<1> QED BY <1>2, <1>3 DEF Calm

LEMMA CalmKeeps ==
  ASSUME TypeInv, TypeInv', LogInv, Calm
  PROVE  LogInv'
<1> DEFINE q == pipe["logger"]
<1>1. /\ phase' = phase /\ phase \in {"running", "stopping"}
      /\ UNCHANGED <<ui, disabled, greylist, saved, log, mode, mayLog, mustLog, typed, session>>
  BY DEF Calm
<1>2. /\ Pending(pipe'["logger"], mode', disabled', greylist')
      /\ Judged(pipe'["logger"], disabled', greylist', mayLog', mustLog')
  BY <1>1, CalmQueue
<1>3. Wanted'
  BY <1>1 DEF LogInv, Wanted
<1>4. Closing'
  <2>1. CASE phase = "running"
    <3>1. \A p \in Plugins : \A i \in 1..Len(pipe'[p]) : pipe'[p][i].kind # "shutdown"
      BY <2>1 DEF Calm
    <3>2. "logger" \in Plugins
      BY DEF Plugins
    <3> QED BY <1>1, <2>1, <3>1, <3>2 DEF Closing
  <2>2. CASE phase = "stopping"
    BY <1>1, <2>2 DEF LogInv, Closing, Calm
  <2> QED BY <1>1, <2>1, <2>2
<1>5. LogRespectsMode'
  BY <1>1 DEF LogInv, LogRespectsMode
<1>6. \A i \in 1..Len(shown') : shown'[i] <= Len(typed')
  BY <1>1 DEF Calm
<1>7. SeenIsLogged'
  <2>1. SUFFICES ASSUME phase = "running", NEW n \in mustLog, Seen(n)',
                        ~Nameless(typed, n, "/channel")
                 PROVE  Logged(n)'
    BY <1>1 DEF SeenIsLogged
  <2>2. CASE Seen(n)
    <3>1. Logged(n)
      BY <2>1, <2>2 DEF LogInv, SeenIsLogged
    <3>2. CASE pipe'["logger"] = q
      BY <1>1, <3>1, <3>2 DEF Logged
    <3>3. ASSUME NEW x, pipe'["logger"] = Append(q, x)
          PROVE  Logged(n)'
      <4>1. q \in Seq(MessageSet) /\ Len(q) \in Nat
        BY LogTypes
      <4>2. Len(Append(q, x)) = Len(q) + 1 /\ \A k \in 1..Len(q) : Append(q, x)[k] = q[k]
        BY <4>1, SeqOfMore, AppendProperties
      <4>3. \A k \in 1..Len(q) : k \in 1..(Len(q) + 1)
        BY <4>1
      <4> QED BY <1>1, <3>1, <3>3, <4>2, <4>3 DEF Logged
    <3> QED BY <3>2, <3>3 DEF Calm
  <2>3. CASE Logged(n)'
    BY <2>3
  <2> QED BY <2>1, <2>2, <2>3 DEF Calm
<1> QED BY <1>1, <1>2, <1>3, <1>4, <1>5, <1>6, <1>7 DEF LogInv

LEMMA CrashKeeps ==
  ASSUME TypeInv, LogInv, Crash,
         UNCHANGED <<disabled, greylist, saved, log, mode, mayLog, mustLog, typed, session, shown>>
  PROVE  LogInv'
<1>1. phase' = "crashed" /\ pipe'["logger"] = << >>
  BY LogTypes DEF Crash
<1>2. Wanted'
  BY DEF LogInv, Wanted
<1>3. Closing'
  BY <1>1 DEF Closing
<1>4. LogRespectsMode'
  BY DEF LogInv, LogRespectsMode
<1>5. SeenIsLogged'
  BY <1>1 DEF SeenIsLogged
<1>6. \A i \in 1..Len(shown') : shown'[i] <= Len(typed')
  BY DEF LogInv
<1> QED BY <1>1, <1>2, <1>3, <1>4, <1>5, <1>6 DEF LogInv

LEMMA ShutdownKeeps ==
  ASSUME TypeInv, LogInv, NEW pipes, pipes["logger"] = pipe["logger"],
         pipes \in [Plugins -> Seq(MessageSet)],
         InitiateShutdown(pipes), phase \in {"running", "stopping"},
         UNCHANGED <<disabled, greylist, saved, log, mode, mayLog, mustLog, typed, session, shown>>
  PROVE  LogInv'
<1> DEFINE q == pipe["logger"]
<1>1. phase' = "stopping" /\ "logger" \in Plugins
  BY LogTypes DEF InitiateShutdown
<1>2. /\ q \in Seq(MessageSet) /\ mode \in Modes \cup LostModes /\ disabled \in BOOLEAN
      /\ greylist \in SUBSET {Default} /\ Len(q) \in Nat
  BY LogTypes
<1>3. Pending(q, mode, disabled, greylist) /\ Judged(q, disabled, greylist, mayLog, mustLog)
  BY DEF LogInv
<1>4. /\ Pending(pipe'["logger"], mode, disabled, greylist)
      /\ Judged(pipe'["logger"], disabled, greylist, mayLog, mustLog)
      /\ Closing'
  <2>1. CASE phase = "stopping"
    <3>1. pipe' = pipes
      BY <2>1 DEF InitiateShutdown
    <3> QED BY <1>1, <1>3, <2>1, <3>1 DEF LogInv, Closing
  <2>2. CASE phase = "running"
    <3> DEFINE x == About("shutdown", 0, Blank)
               r == Append(q, x)
    <3>1. pipe'["logger"] = r
      BY <1>1, <2>2 DEF InitiateShutdown
    <3>2. x \in MessageSet
      <4>1. "shutdown" \in Kinds /\ 0 \in Nat /\ Blank \in Channels
            /\ NoText.cmd \in Words /\ NoText.args \in Seq(Channels)
        BY NoTextType DEF Kinds, Channels
      <4>2. Route("shutdown") \in Seq(Plugins)
        BY DEF Route, Plugins
      <4> QED BY <4>1, <4>2, MessageType DEF About, Message
    <3>3. x.kind = "shutdown"
      BY AboutFields DEF About
    <3> HIDE DEF x
    <3>4. Pending(r, mode, disabled, greylist) /\ Judged(r, disabled, greylist, mayLog, mustLog)
      BY <1>2, <1>3, <3>2, <3>3, QueueLine DEF Filed
    <3>5. /\ Len(r) = Len(q) + 1 /\ \A i \in 1..Len(q) : r[i] = q[i]
          /\ r[Len(q) + 1] = x
          /\ \A i \in 1..(Len(q) + 1) : i \in 1..Len(q) \/ i = Len(q) + 1
      BY <1>2, <3>2, AppendFacts
    <3>6. \A i \in 1..Len(q) : q[i].kind # "shutdown"
      BY <1>1, <2>2 DEF LogInv, Closing
    <3> HIDE DEF r
    <3>7. /\ \A i \in 1..Len(r) : r[i].kind = "shutdown" => i = Len(r)
          /\ r[Len(r)].kind = "shutdown" /\ r # << >>
      BY <1>2, <3>3, <3>5, <3>6
    <3> QED BY <1>1, <3>1, <3>4, <3>7 DEF Closing
  <2> QED BY <2>1, <2>2
<1>5. Wanted'
  BY DEF LogInv, Wanted
<1>6. LogRespectsMode'
  BY DEF LogInv, LogRespectsMode
<1>7. SeenIsLogged'
  BY <1>1 DEF SeenIsLogged
<1>8. \A i \in 1..Len(shown') : shown'[i] <= Len(typed')
  BY DEF LogInv
<1> QED BY <1>1, <1>4, <1>5, <1>6, <1>7, <1>8 DEF LogInv

LEMMA StopKeeps ==
  ASSUME TypeInv, LogInv, NEW p \in Plugins, Stop(p)
  PROVE  LogInv'
<1> DEFINE q == pipe["logger"]
<1>1. /\ pipe[p] # << >> /\ Head(pipe[p]).kind = "shutdown" /\ phase \in {"running", "stopping"}
      /\ pipe' = Rest(p) /\ phase' \in {"stopped", "stopping"}
      /\ phase' = "stopped" => \A r \in Plugins \ {p} : pipe[r] = << >>
      /\ saved' = IF p = "logger" THEN disabled ELSE saved
      /\ UNCHANGED <<disabled, greylist, log, shown>>
      /\ UNCHANGED <<mode, mayLog, mustLog, typed, session>>
  BY DEF Stop, Reads, First, history
<1>2. /\ q \in Seq(MessageSet) /\ "logger" \in Plugins /\ pipe \in [Plugins -> Seq(MessageSet)]
  BY LogTypes DEF TypeInv, GoodPipes
<1>3. Head(pipe[p]) = pipe[p][1] /\ 1 \in 1..Len(pipe[p])
  BY <1>1, <1>2
<1>4. phase = "stopping"
  BY <1>1, <1>2, <1>3 DEF LogInv, Closing
<1>5. Pending(q, mode, disabled, greylist) /\ Judged(q, disabled, greylist, mayLog, mustLog)
  BY <1>1 DEF LogInv
<1>6. \A r \in Plugins : pipe'[r] = IF r = p THEN Tail(pipe[r]) ELSE pipe[r]
  BY <1>1, RestAt
<1>7. /\ Pending(pipe'["logger"], mode, disabled, greylist)
      /\ Judged(pipe'["logger"], disabled, greylist, mayLog, mustLog)
      /\ Closing'
  <2>1. CASE p = "logger"
    <3>1. pipe'["logger"] = Tail(q) /\ q # << >> /\ Head(q).kind = "shutdown"
      BY <1>1, <1>6, <2>1
    <3>2. Pending(Tail(q), mode, disabled, greylist) /\ Judged(Tail(q), disabled, greylist, mayLog, mustLog)
      BY <1>2, <1>5, <3>1, QueueRead
    <3>3. Len(q) = 1
      BY <1>3, <2>1, <3>1 DEF LogInv, Closing
    <3>4. Tail(q) = << >>
      <4>1. Tail(q) \in Seq(MessageSet) /\ Len(Tail(q)) = 1 - 1
        BY <1>2, <3>1, <3>3, TailFacts
      <4>2. ASSUME NEW s \in Seq(MessageSet), Len(s) = 1 - 1
            PROVE  s = << >>
        BY <4>2
      <4> QED BY <4>1, <4>2
    <3>5. pipe'["logger"] = << >> /\ saved' = disabled' /\ Len(<< >>) = 0
      BY <1>1, <2>1, <3>1, <3>4
    <3>6. Closing'
      BY <1>1, <3>5 DEF Closing
    <3> QED BY <3>1, <3>2, <3>6
  <2>2. CASE p # "logger"
    <3>1. pipe'["logger"] = q /\ saved' = saved
      BY <1>1, <1>2, <1>6, <2>2
    <3>2. phase' = "stopped" => q = << >>
      BY <1>1, <1>2, <2>2
    <3> QED BY <1>1, <1>4, <1>5, <3>1, <3>2 DEF LogInv, Closing
  <2> QED BY <2>1, <2>2
<1>8. Wanted'
  BY <1>1 DEF LogInv, Wanted
<1>9. LogRespectsMode'
  BY <1>1 DEF LogInv, LogRespectsMode
<1>10. SeenIsLogged'
  BY <1>1 DEF SeenIsLogged
<1>11. \A i \in 1..Len(shown') : shown'[i] <= Len(typed')
  BY <1>1 DEF LogInv
<1> QED BY <1>1, <1>7, <1>8, <1>9, <1>10, <1>11 DEF LogInv

LEMMA RestartKeeps ==
  ASSUME TypeInv, LogInv, Restart
  PROVE  LogInv'
<1>1. /\ phase \in {"stopped", "crashed"} /\ phase' = "running"
      /\ pipe' = [p \in Plugins |-> << >>] /\ "logger" \in Plugins
      /\ disabled' = saved /\ greylist' = {} /\ shown' = << >> /\ events' = << >>
      /\ session' = session + 1 /\ session \in Nat
      /\ mode' = IF phase = "crashed" THEN "unsaved"
                 ELSE IF mode = "default" THEN "unkept" ELSE mode
      /\ UNCHANGED <<log, typed, mayLog, mustLog>>
  BY DEF Restart, Ended, Plugins, TypeInv, HistoryType
<1> DEFINE r == pipe'["logger"]
<1>2. r = << >> /\ Len(r) = 0
  BY <1>1
<1>3. Follows(mode', disabled', greylist')
  <2>1. CASE phase = "crashed"
    BY <1>1, <2>1 DEF Follows
  <2>2. CASE phase = "stopped"
    <3>1. Len(pipe["logger"]) = 0 /\ saved = disabled
      BY <2>2 DEF LogInv, Closing
    <3>2. Follows(mode, disabled, greylist)
      BY <2>2, <3>1 DEF LogInv, Pending, Steady
    <3> QED BY <1>1, <2>2, <3>1, <3>2 DEF Follows
  <2> QED BY <1>1, <2>1, <2>2
<1>4. /\ Pending(r, mode', disabled', greylist')
      /\ Judged(r, disabled', greylist', mayLog', mustLog')
  <2> HIDE DEF r
  <2> QED BY <1>2, <1>3 DEF Pending, Judged
<1>5. Wanted'
  <2>1. \A n \in 1..Len(typed) : typed[n].session <= session
    BY DEF LogInv, Wanted
  <2>2. \A n \in 1..Len(typed) : typed[n].session \in Nat
    <3>1. typed \in Seq(TypedLine)
      BY LogTypes
    <3>2. \A n \in 1..Len(typed) : typed[n] \in TypedLine
      BY <3>1
    <3> QED BY <3>2 DEF TypedLine
  <2>3. \A n \in 1..Len(typed) : typed[n].session <= session + 1 /\ typed[n].session # session + 1
    BY <1>1, <2>1, <2>2
  <2> QED BY <1>1, <2>3 DEF Wanted
<1>6. Closing'
  BY <1>1 DEF Closing
<1>7. LogRespectsMode'
  BY <1>1 DEF LogInv, LogRespectsMode
<1>8. SeenIsLogged'
  <2>1. \A n : ~Seen(n)'
    BY <1>1 DEF Seen, Range, Plugins
  <2> QED BY <2>1 DEF SeenIsLogged
<1>9. \A i \in 1..Len(shown') : shown'[i] <= Len(typed')
  BY <1>1
<1> QED BY <1>4, <1>5, <1>6, <1>7, <1>8, <1>9 DEF LogInv

LEMMA Stages ==
  ASSUME NEW a, NEW b
  PROVE  /\ Tail(<<a>>) = << >> /\ Head(<<a>>) = a /\ Head(<<a, b>>) = a
         /\ Tail(<<a, b>>) = <<b>> /\ <<b>> # << >>
<1>1. Tail(<<a>>) = << >>
  OBVIOUS
<1>2. Tail(<<a, b>>) = <<b>> /\ <<b>> # << >>
  OBVIOUS
<1> QED BY <1>1, <1>2

LEMMA RangeGrows ==
  ASSUME NEW s \in Seq(Nat), NEW x \in Nat
  PROVE  Range(Append(s, x)) = Range(s) \cup {x}
<1> DEFINE r == Append(s, x)
<1>1. /\ r \in Seq(Nat) /\ Len(r) = Len(s) + 1 /\ Len(s) \in Nat
      /\ \A i \in 1..Len(s) : r[i] = s[i]
      /\ r[Len(s) + 1] = x
      /\ \A i \in 1..(Len(s) + 1) : i \in 1..Len(s) \/ i = Len(s) + 1
  BY AppendFacts
<1>2. DOMAIN s = 1..Len(s) /\ DOMAIN r = 1..(Len(s) + 1)
  <2>1. \A t \in Seq(Nat) : DOMAIN t = 1..Len(t)
    OBVIOUS
  <2> HIDE DEF r
  <2> QED BY <1>1, <2>1
<1> HIDE DEF r
<1>3. \A i \in 1..Len(s) : i \in 1..(Len(s) + 1)
  BY <1>1
<1>4. Len(s) + 1 \in 1..(Len(s) + 1)
  BY <1>1
<1>5. Range(r) = Range(s) \cup {x}
  BY <1>1, <1>2, <1>3, <1>4 DEF Range
<1> QED BY <1>5 DEF r

\* Who echoes a message keeps it from no one who waits behind.
LEMMA EchoAt ==
  ASSUME TypeInv, NEW p \in Plugins, pipe[p] # << >>, First(p).kind # "shutdown",
         pipe' = Echo(Rest(p), First(p))
  PROVE  /\ Good(ui, typed, session, p, First(p))
         /\ \/ /\ Tail(Way(ui, p, First(p).kind)) = << >>
               /\ \A q \in Plugins : pipe'[q] = IF q = p THEN Tail(pipe[p]) ELSE pipe[q]
            \/ /\ Tail(Way(ui, p, First(p).kind)) # << >>
               /\ \E m : /\ m.kind = First(p).kind /\ m.line = First(p).line
                         /\ m.channel = First(p).channel
                         /\ m.to = Tail(Way(ui, p, First(p).kind))
                         /\ Head(m.to) \in Plugins
                         /\ Instead(p, m)
<1> DEFINE h == First(p)
           m == [h EXCEPT !.to = Tail(@)]
           w == Way(ui, p, h.kind)
<1>1. GoodPipes(ui, typed, session, pipe) /\ ui \in {"console", "qt", "qtFirst"}
  BY DEF TypeInv
<1>2. Good(ui, typed, session, p, h)
  BY <1>1, ReadGood DEF First
<1>3. h \in MessageSet /\ h.kind \in KindsOf(ui, p) /\ h.to = w
  BY <1>2 DEF Good, Placed
<1>4. w \in Seq(Plugins) /\ w # << >> /\ (Tail(w) # << >> => Head(Tail(w)) \in Plugins)
  BY <1>3, WayGoesOn
<1>5. Tail(w) \in Seq(Plugins)
  BY <1>4
<1> HIDE DEF w, h
<1>6. /\ m.kind = h.kind /\ m.line = h.line /\ m.channel = h.channel /\ m.to = Tail(w)
  BY <1>3, <1>5, OnwardType
<1>7. CASE Tail(w) = << >>
  <2>1. pipe' = Rest(p)
    BY <1>3, <1>7 DEF Echo, h
  <2> QED BY <1>2, <1>7, <2>1, RestAt DEF h, w
<1>8. CASE Tail(w) # << >>
  <2>1. pipe' = Put(Rest(p), m)
    BY <1>3, <1>8 DEF Echo, h
  <2>2. Head(m.to) \in Plugins
    BY <1>4, <1>6, <1>8
  <2> HIDE DEF m
  <2>3. Instead(p, m)
    BY <2>1, <2>2, WriteInstead
  <2> QED BY <1>2, <1>6, <1>8, <2>2, <2>3 DEF h, w
<1> QED BY <1>7, <1>8

\* The shutdown message stays the last one while others are read.
LEMMA LastStays ==
  ASSUME NEW q \in Seq(MessageSet), q # << >>, Head(q).kind # "shutdown",
         \A i \in 1..Len(q) : q[i].kind = "shutdown" => i = Len(q)
  PROVE  /\ \A i \in 1..Len(Tail(q)) : Tail(q)[i].kind = "shutdown" => i = Len(Tail(q))
         /\ q[Len(q)].kind = "shutdown" =>
              Tail(q) # << >> /\ Tail(q)[Len(Tail(q))].kind = "shutdown"
<1> DEFINE r == Tail(q)
<1>1. /\ r \in Seq(MessageSet) /\ Len(r) = Len(q) - 1 /\ Len(q) \in Nat /\ Len(q) # 0
      /\ \A i \in 1..Len(r) : r[i] = q[i + 1] /\ i + 1 \in 1..Len(q)
      /\ Head(q) = q[1]
  BY TailFacts
<1> HIDE DEF r
<1>2. ASSUME NEW i \in 1..Len(r), r[i].kind = "shutdown"
      PROVE  i = Len(r)
  <2>1. i + 1 = Len(q)
    BY <1>1, <1>2
  <2> QED BY <1>1, <2>1
<1>3. ASSUME q[Len(q)].kind = "shutdown"
      PROVE  r # << >> /\ r[Len(r)].kind = "shutdown"
  <2>1. Len(q) # 1
    BY <1>1, <1>3
  <2>2. Len(r) \in 1..Len(r) /\ Len(r) + 1 = Len(q)
    <3>1. \A a, b : b \in Nat /\ a = b - 1 /\ b # 0 /\ b # 1 => a \in 1..a /\ a + 1 = b
      OBVIOUS
    <3> QED BY <1>1, <2>1, <3>1
  <2>3. r[Len(r)] = q[Len(r) + 1]
    BY <1>1, <2>2
  <2>4. r # << >>
    BY <2>2
  <2> QED BY <1>3, <2>2, <2>3, <2>4
<1> QED BY <1>2, <1>3 DEF r

LEMMA DisplayLogged ==
  ASSUME TypeInv, TypeInv', LogInv, LogDisplay,
         UNCHANGED <<ui, phase, saved, events, shown, typed, mode, mayLog, mustLog, session>>
  PROVE  LogInv'
<1> DEFINE q == pipe["logger"]
           h == First("logger")
<1>1. /\ q # << >> /\ h.kind = "display" /\ phase \in {"running", "stopping"}
      /\ pipe' = Echo(Rest("logger"), h)
      /\ log' = IF Logs(h.channel) THEN Append(log, h.line) ELSE log
      /\ UNCHANGED <<disabled, greylist>>
  BY DEF LogDisplay, Reads
<1>2. /\ q \in Seq(MessageSet) /\ "logger" \in Plugins /\ log \in Seq(Nat) /\ Len(log) \in Nat
      /\ mustLog \subseteq mayLog /\ mayLog \subseteq 1..Len(typed) /\ Len(typed) \in Nat
      /\ ui \in {"console", "qt", "qtFirst"} /\ "ui" \in Plugins
      /\ GoodPipes(ui, typed, session, pipe)
  BY LogTypes DEF Plugins, TypeInv
<1>3. /\ Tail(q) \in Seq(MessageSet) /\ Len(Tail(q)) = Len(q) - 1 /\ Len(q) \in Nat /\ Len(q) # 0
      /\ \A i \in 1..Len(Tail(q)) : Tail(q)[i] = q[i + 1] /\ i + 1 \in 1..Len(q)
      /\ h = q[1] /\ 1 \in 1..Len(q) /\ h \in MessageSet
  BY <1>1, <1>2, TailFacts DEF First
<1>4. /\ Good(ui, typed, session, "logger", h)
      /\ pipe'["logger"] = Tail(q)
      /\ \/ pipe'["ui"] = pipe["ui"]
         \/ \E m : /\ m.kind = h.kind /\ m.line = h.line
                   /\ pipe'["ui"] = Append(pipe["ui"], m)
  <2>1. CASE ui = "qtFirst"
    <3>1. Way(ui, "logger", h.kind) = <<"logger">>
      BY <2>1 DEF Way
    <3>2. Tail(Way(ui, "logger", h.kind)) = << >>
      BY <3>1, Stages
    <3> QED BY <1>1, <1>2, <3>2, EchoAt
  <2>2. CASE ui # "qtFirst"
    <3>1. Way(ui, "logger", h.kind) = <<"logger", "ui">>
      BY <1>1, <2>2 DEF Way
    <3>2. Tail(Way(ui, "logger", h.kind)) = <<"ui">> /\ <<"ui">> # << >> /\ Head(<<"ui">>) = "ui"
      BY <3>1, Stages
    <3>3. PICK m : /\ m.kind = h.kind /\ m.line = h.line
                   /\ m.to = <<"ui">> /\ Instead("logger", m)
      BY <1>1, <1>2, <3>2, EchoAt
    <3>4. Good(ui, typed, session, "logger", h)
      BY <1>1, <1>2, EchoAt
    <3> HIDE DEF h
    <3>5. pipe'["logger"] = Tail(q)
      BY <1>2, <3>2, <3>3 DEF Instead
    <3>6. pipe'["ui"] \in {pipe["ui"], Append(pipe["ui"], m)}
      BY <1>2, <3>2, <3>3 DEF Instead
    <3> QED BY <3>3, <3>4, <3>5, <3>6
  <2> QED BY <2>1, <2>2
<1> HIDE DEF h
<1>5. Filed(h) => Fits(~disabled \/ h.channel \in greylist, h.line, mayLog, mustLog)
  <2>1. Steady(q, 1, 1 - 1)
    BY DEF Steady
  <2> QED BY <1>1, <1>3, <2>1 DEF LogInv, Judged
<1>6. LogRespectsMode'
  <2>1. CASE log' = log
    BY <2>1 DEF LogInv, LogRespectsMode
  <2>2. CASE Logs(h.channel) /\ log' = Append(log, h.line)
    <3>1. h.line \in mayLog \cup {0} /\ h.line \in Nat
      BY <1>1, <1>3, <1>5, <2>2, FieldTypes DEF Logs, Filed, Fits
    <3>2. /\ Len(log') = Len(log) + 1 /\ \A i \in 1..Len(log) : log'[i] = log[i]
          /\ log'[Len(log) + 1] = h.line
          /\ \A i \in 1..(Len(log) + 1) : i \in 1..Len(log) \/ i = Len(log) + 1
      BY <1>2, <2>2, <3>1, AppendFacts
    <3> QED BY <3>1, <3>2 DEF LogInv, LogRespectsMode
  <2> QED BY <1>1, <2>1, <2>2
<1>7. Pending(pipe'["logger"], mode', disabled', greylist')
      /\ Judged(pipe'["logger"], disabled', greylist', mayLog', mustLog')
  <2>1. Pending(q, mode, disabled, greylist) /\ Judged(q, disabled, greylist, mayLog, mustLog)
    BY <1>1 DEF LogInv
  <2>2. Head(q).kind # "logging"
    BY <1>1 DEF h, First
  <2> QED BY <1>1, <1>2, <1>4, <2>1, <2>2, QueueRead
<1>8. Wanted'
  BY DEF LogInv, Wanted
<1>9. Closing'
  <2>1. phase = "running" =>
          \A p \in Plugins : \A i \in 1..Len(pipe'[p]) : pipe'[p][i].kind # "shutdown"
    <3>1. SUFFICES ASSUME phase = "running", NEW p \in Plugins, NEW i \in 1..Len(pipe'[p]),
                          pipe'[p][i].kind = "shutdown"
                   PROVE  FALSE
      OBVIOUS
    <3>2. \A r \in Plugins : \A k \in 1..Len(pipe[r]) : pipe[r][k].kind # "shutdown"
      BY <3>1 DEF LogInv, Closing
    <3>3. PICK m : \A r \in Plugins :
                     LET left == IF r = "logger" THEN Tail(pipe["logger"]) ELSE pipe[r]
                     IN  pipe'[r] = left \/ (pipe'[r] = Append(left, m) /\ m.kind = "display")
      <4>1. CASE Tail(Way(ui, "logger", First("logger").kind)) = << >>
        BY <1>1, <1>2, <4>1, EchoAt DEF h
      <4>2. CASE Tail(Way(ui, "logger", First("logger").kind)) # << >>
        <5>1. PICK m : m.kind = First("logger").kind /\ Instead("logger", m)
          BY <1>1, <1>2, <4>2, EchoAt DEF h
        <5> QED BY <1>1, <5>1 DEF Instead, h
      <4> QED BY <4>1, <4>2
    <3> DEFINE left == IF p = "logger" THEN Tail(pipe["logger"]) ELSE pipe[p]
    <3>4. left \in Seq(MessageSet) /\ \A k \in 1..Len(left) : left[k].kind # "shutdown"
      BY <1>2, <1>3, <3>2 DEF GoodPipes
    <3>5. pipe'[p] = left \/ (pipe'[p] = Append(left, m) /\ m.kind = "display")
      BY <3>3
    <3> HIDE DEF left
    <3>6. CASE pipe'[p] = left
      BY <3>1, <3>4, <3>6
    <3>7. CASE pipe'[p] = Append(left, m) /\ m.kind = "display"
      <4>1. /\ Len(Append(left, m)) = Len(left) + 1 /\ Len(left) \in Nat
            /\ \A k \in 1..Len(left) : Append(left, m)[k] = left[k]
            /\ Append(left, m)[Len(left) + 1] = m
        BY <3>4, SeqOfMore, AppendProperties
      <4>2. i \in 1..Len(left) \/ i = Len(left) + 1
        BY <3>1, <3>7, <4>1
      <4> QED BY <3>1, <3>4, <3>7, <4>1, <4>2
    <3> QED BY <3>5, <3>6, <3>7
  <2>2. /\ \A i \in 1..Len(Tail(q)) : Tail(q)[i].kind = "shutdown" => i = Len(Tail(q))
        /\ phase = "stopping" => Tail(q) # << >> /\ Tail(q)[Len(Tail(q))].kind = "shutdown"
    <3>1. /\ \A i \in 1..Len(q) : q[i].kind = "shutdown" => i = Len(q)
          /\ phase = "stopping" => q[Len(q)].kind = "shutdown"
      BY <1>1 DEF LogInv, Closing
    <3>2. Head(q).kind # "shutdown"
      BY <1>1 DEF h, First
    <3> QED BY <1>1, <1>2, <3>1, <3>2, LastStays
  <2>3. phase' = phase /\ saved' = saved /\ disabled' = disabled /\ pipe'["logger"] = Tail(q)
    BY <1>1, <1>4
  <2> QED BY <1>1, <2>1, <2>2, <2>3 DEF Closing
<1>10. SeenIsLogged'
  <2>1. SUFFICES ASSUME phase = "running", NEW n \in mustLog, Seen(n)',
                        ~Nameless(typed, n, "/channel")
                 PROVE  Logged(n)'
    BY DEF SeenIsLogged
  <2>2. log' = log \/ log' = Append(log, h.line)
    BY <1>1
  <2>3. n \in Range(log) => n \in Range(log')
    <3>1. h.line \in Nat
      BY <1>3, FieldTypes
    <3> QED BY <1>2, <2>2, <3>1, RangeGrows
  <2>4. ASSUME h.line = n
        PROVE  n \in Range(log')
    <3>1. /\ h.line # 0 /\ n \in 1..Len(typed) /\ typed[n].session = session
          /\ h.channel = typed[n].channel
      BY <1>1, <1>2, <1>4, <2>1, <2>4 DEF Good, Origin
    <3>2. Must(mode, typed[n].channel)
      BY <2>1, <3>1 DEF LogInv, Wanted
    <3>3. Filed(h)
      BY <1>1, <3>1, <3>2 DEF Filed, Must
    <3>4. Logs(h.channel)
      BY <1>5, <2>1, <2>4, <3>3 DEF Fits, Logs, Filed
    <3>5. log' = Append(log, n) /\ n \in Nat
      BY <1>1, <2>4, <3>1, <3>4
    <3> QED BY <1>2, <3>5, RangeGrows
  <2>5. CASE h.line = n
    BY <2>4, <2>5 DEF Logged
  <2>6. CASE h.line # n
    <3>1. Seen(n)
      <4>1. CASE pipe'["ui"] = pipe["ui"]
        BY <2>1, <4>1 DEF Seen
      <4>2. ASSUME NEW m, m.line = h.line, pipe'["ui"] = Append(pipe["ui"], m)
            PROVE  Seen(n)
        <5>1. pipe["ui"] \in Seq(MessageSet)
          BY <1>2 DEF GoodPipes
        <5>2. /\ Len(Append(pipe["ui"], m)) = Len(pipe["ui"]) + 1 /\ Len(pipe["ui"]) \in Nat
              /\ \A k \in 1..Len(pipe["ui"]) : Append(pipe["ui"], m)[k] = pipe["ui"][k]
              /\ Append(pipe["ui"], m)[Len(pipe["ui"]) + 1] = m
          BY <5>1, SeqOfMore, AppendProperties
        <5>3. \A i \in 1..(Len(pipe["ui"]) + 1) : i \in 1..Len(pipe["ui"]) \/ i = Len(pipe["ui"]) + 1
          BY <5>2
        <5> QED BY <2>1, <2>6, <4>2, <5>2, <5>3 DEF Seen
      <4> QED BY <1>4, <4>1, <4>2
    <3>2. Logged(n)
      BY <2>1, <3>1 DEF LogInv, SeenIsLogged
    <3>3. CASE n \in Range(log)
      BY <2>3, <3>3 DEF Logged
    <3>4. CASE \E k \in 1..Len(q) : q[k].line = n
      <4>1. PICK k \in 1..Len(q) : q[k].line = n
        BY <3>4
      <4>2. k # 1
        BY <1>3, <2>6, <4>1
      <4>3. k - 1 \in 1..Len(Tail(q)) /\ (k - 1) + 1 = k
        BY <1>3, <4>1, <4>2
      <4>4. Tail(q)[k - 1].line = n
        BY <1>3, <4>1, <4>3
      <4> QED BY <1>4, <4>3, <4>4 DEF Logged
    <3> QED BY <3>2, <3>3, <3>4 DEF Logged
  <2> QED BY <2>5, <2>6
<1>11. \A i \in 1..Len(shown') : shown'[i] <= Len(typed')
  BY DEF LogInv
<1> QED BY <1>6, <1>7, <1>8, <1>9, <1>10, <1>11 DEF LogInv

LEMMA ModeLogged ==
  ASSUME TypeInv, LogInv, SetMode,
         UNCHANGED <<ui, phase, saved, events, shown, typed, mode, mayLog, mustLog, session>>
  PROVE  LogInv'
<1> DEFINE q == pipe["logger"]
<1>1. /\ q # << >> /\ Head(q).kind = "logging" /\ phase \in {"running", "stopping"}
      /\ pipe' = Rest("logger") /\ log' = log
      /\ disabled' = (Head(q).cmd # "on")
      /\ greylist' = IF Head(q).cmd = "default" THEN {Default} ELSE {}
  BY DEF SetMode, Reads, First, Swallow
<1>2. q \in Seq(MessageSet) /\ "logger" \in Plugins /\ "ui" \in Plugins
  BY LogTypes DEF Plugins
<1>3. /\ Tail(q) \in Seq(MessageSet) /\ Len(Tail(q)) = Len(q) - 1 /\ Len(q) \in Nat /\ Len(q) # 0
      /\ \A i \in 1..Len(Tail(q)) : Tail(q)[i] = q[i + 1] /\ i + 1 \in 1..Len(q)
      /\ Head(q) = q[1] /\ 1 \in 1..Len(q)
  BY <1>1, <1>2, TailFacts
<1>4. /\ \A r \in Plugins : pipe'[r] = IF r = "logger" THEN Tail(q) ELSE pipe[r]
      /\ pipe \in [Plugins -> Seq(MessageSet)]
  BY <1>1, <1>2, RestAt
<1>5. /\ Pending(q, mode, disabled, greylist)
      /\ Judged(q, disabled, greylist, mayLog, mustLog)
  BY <1>1 DEF LogInv
<1>6. /\ Pending(pipe'["logger"], mode', disabled', greylist')
      /\ Judged(pipe'["logger"], disabled', greylist', mayLog', mustLog')
  BY <1>1, <1>2, <1>4, <1>5, QueueRead
<1>7. Wanted'
  BY DEF LogInv, Wanted
<1>8. Closing'
  <2>1. phase = "running" =>
          \A p \in Plugins : \A i \in 1..Len(pipe'[p]) : pipe'[p][i].kind # "shutdown"
    <3>1. SUFFICES ASSUME phase = "running", NEW p \in Plugins, NEW i \in 1..Len(pipe'[p])
                   PROVE  pipe'[p][i].kind # "shutdown"
      OBVIOUS
    <3>2. \A r \in Plugins : \A k \in 1..Len(pipe[r]) : pipe[r][k].kind # "shutdown"
      BY <3>1 DEF LogInv, Closing
    <3>3. CASE p = "logger"
      BY <1>2, <1>3, <1>4, <3>1, <3>2, <3>3
    <3>4. CASE p # "logger"
      BY <1>4, <3>1, <3>2, <3>4
    <3> QED BY <3>3, <3>4
  <2>2. /\ \A i \in 1..Len(Tail(q)) : Tail(q)[i].kind = "shutdown" => i = Len(Tail(q))
        /\ phase = "stopping" => Tail(q) # << >> /\ Tail(q)[Len(Tail(q))].kind = "shutdown"
    <3>1. /\ \A i \in 1..Len(q) : q[i].kind = "shutdown" => i = Len(q)
          /\ phase = "stopping" => q[Len(q)].kind = "shutdown"
      BY <1>1 DEF LogInv, Closing
    <3>2. Head(q).kind # "shutdown"
      BY <1>1
    <3> QED BY <1>1, <1>2, <3>1, <3>2, LastStays
  <2>3. phase' = phase /\ saved' = saved /\ pipe'["logger"] = Tail(q)
    BY <1>2, <1>4
  <2> QED BY <1>1, <2>1, <2>2, <2>3 DEF Closing
<1>9. LogRespectsMode'
  BY <1>1 DEF LogInv, LogRespectsMode
<1>10. SeenIsLogged'
  <2>1. SUFFICES ASSUME phase = "running", NEW n \in mustLog, Seen(n)',
                        ~Nameless(typed, n, "/channel")
                 PROVE  Logged(n)'
    BY DEF SeenIsLogged
  <2>2. pipe'["ui"] = pipe["ui"]
    BY <1>2, <1>4
  <2>3. Seen(n)
    BY <2>1, <2>2 DEF Seen
  <2>4. Logged(n)
    BY <2>1, <2>3 DEF LogInv, SeenIsLogged
  <2>5. CASE n \in Range(log)
    BY <1>1, <2>5 DEF Logged
  <2>6. CASE \E k \in 1..Len(q) : q[k].line = n
    <3>1. PICK k \in 1..Len(q) : q[k].line = n
      BY <2>6
    <3>2. n # 0
      BY LogTypes, <2>1
    <3>3. k # 1
      BY <1>1, <1>3, <1>5, <3>1, <3>2 DEF Pending
    <3>4. k - 1 \in 1..Len(Tail(q)) /\ (k - 1) + 1 = k
      BY <1>3, <3>1, <3>3
    <3>5. Tail(q)[k - 1].line = n
      BY <1>3, <3>1, <3>4
    <3> QED BY <1>2, <1>4, <3>4, <3>5 DEF Logged
  <2> QED BY <2>4, <2>5, <2>6 DEF Logged
<1>11. \A i \in 1..Len(shown') : shown'[i] <= Len(typed')
  BY DEF LogInv
<1> QED BY <1>1, <1>6, <1>7, <1>8, <1>9, <1>10, <1>11 DEF LogInv

\* While the program runs, other messages go round than the last one.
LEMMA AppendOpen ==
  ASSUME NEW q \in Seq(MessageSet), NEW m, m.kind # "shutdown",
         \A i \in 1..Len(q) : q[i].kind # "shutdown"
  PROVE  \A i \in 1..Len(Append(q, m)) : Append(q, m)[i].kind # "shutdown"
<1> DEFINE r == Append(q, m)
<1>1. /\ Len(r) = Len(q) + 1 /\ Len(q) \in Nat
      /\ \A k \in 1..Len(q) : r[k] = q[k]
      /\ r[Len(q) + 1] = m
  BY SeqOfMore, AppendProperties
<1> HIDE DEF r
<1>2. ASSUME NEW i \in 1..Len(r)
      PROVE  r[i].kind # "shutdown"
  <2>1. i \in 1..Len(q) \/ i = Len(q) + 1
    BY <1>1
  <2> QED BY <1>1, <2>1
<1> QED BY <1>2 DEF r

LEMMA PutOpen ==
  ASSUME NEW pipes \in [Plugins -> Seq(MessageSet)], NEW m, Head(m.to) \in Plugins,
         m.kind # "shutdown",
         \A p \in Plugins : \A i \in 1..Len(pipes[p]) : pipes[p][i].kind # "shutdown"
  PROVE  \A p \in Plugins : \A i \in 1..Len(Put(pipes, m)[p]) : Put(pipes, m)[p][i].kind # "shutdown"
<1> SUFFICES ASSUME NEW p \in Plugins
             PROVE  \A i \in 1..Len(Put(pipes, m)[p]) : Put(pipes, m)[p][i].kind # "shutdown"
  OBVIOUS
<1>1. Put(pipes, m)[p] = pipes[p] \/ Put(pipes, m)[p] = Append(pipes[p], m)
  BY PutAt
<1>2. pipes[p] \in Seq(MessageSet) /\ \A i \in 1..Len(pipes[p]) : pipes[p][i].kind # "shutdown"
  OBVIOUS
<1>3. \A i \in 1..Len(Append(pipes[p], m)) : Append(pipes[p], m)[i].kind # "shutdown"
  BY <1>2, AppendOpen
<1> QED BY <1>1, <1>2, <1>3

\* A line that is only typed is nowhere yet.
LEMMA SeenIsTyped ==
  ASSUME TypeInv, \A i \in 1..Len(shown) : shown[i] <= Len(typed), NEW n, Seen(n)
  PROVE  n <= Len(typed)
<1>1. CASE n \in Range(shown)
  <2>1. PICK i \in DOMAIN shown : n = shown[i]
    BY <1>1 DEF Range
  <2>2. DOMAIN shown = 1..Len(shown)
    BY LogTypes
  <2> QED BY <2>1, <2>2
<1>2. CASE \E i \in 1..Len(events) : events[i].line = n
  BY <1>2 DEF TypeInv, GoodEvents, Origin
<1>3. CASE \E i \in 1..Len(pipe["ui"]) : pipe["ui"][i].line = n
  <2>1. "ui" \in Plugins
    BY DEF Plugins
  <2> QED BY <1>3, <2>1 DEF TypeInv, GoodPipes, Good, Origin
<1> QED BY <1>1, <1>2, <1>3 DEF Seen

LEMMA SendLogged ==
  ASSUME TypeInv, LogInv, NEW text, text.cmd \in Words, text.args \in Seq(Channels),
         NEW chan \in Channels, SendLine(text, chan), UNCHANGED events
  PROVE  LogInv'
<1> DEFINE x == [cmd |-> text.cmd, args |-> text.args, channel |-> chan, session |-> session]
           n == Len(typed) + 1
           m == Message("raw_edict", n, text, chan)
           t == Append(typed, x)
           q == pipe["logger"]
<1>1. /\ phase = "running" /\ pipe' = Put(pipe, m) /\ typed' = t
      /\ mayLog' = IF May(mode, chan) THEN mayLog \cup {n} ELSE mayLog
      /\ mustLog' = IF Must(mode, chan) THEN mustLog \cup {n} ELSE mustLog
      /\ UNCHANGED <<ui, phase, disabled, greylist, saved, log, shown, mode, session, events>>
  BY DEF SendLine, Act, loggerVars
<1>2. /\ typed \in Seq(TypedLine) /\ session \in Nat /\ mayLog \subseteq 1..Len(typed)
      /\ mustLog \subseteq mayLog /\ pipe \in [Plugins -> Seq(MessageSet)]
      /\ q \in Seq(MessageSet) /\ "logger" \in Plugins /\ "ui" \in Plugins
      /\ GoodPipes(ui, typed, session, pipe) /\ ui \in {"console", "qt", "qtFirst"}
  BY LogTypes DEF TypeInv, HistoryType, GoodPipes, Plugins
<1>3. x \in TypedLine /\ x.channel = chan /\ x.session = session
  BY <1>2 DEF TypedLine
<1> HIDE DEF x
<1>4. /\ Len(t) = n /\ Len(typed) \in Nat /\ t[n] = x
      /\ \A k \in 1..Len(typed) : t[k] = typed[k]
      /\ \A cmd : Mentioned(typed, {cmd}) => Mentioned(t, {cmd})
  BY <1>2, <1>3, TypedGrows
<1>5. Head(m.to) = "meatgrinder" /\ m.kind = "raw_edict" /\ "meatgrinder" \in Plugins
  <2>1. m.to = <<"meatgrinder">> /\ m.kind = "raw_edict"
    BY DEF Message, Route
  <2> QED BY <2>1 DEF Plugins
<1> HIDE DEF m, t
<1>6. pipe'["logger"] = q /\ pipe'["ui"] = pipe["ui"]
  BY <1>1, <1>2, <1>5, PutAt
<1>7. \A k \in 1..Len(q) : q[k].line # n
  <2>1. \A k \in 1..Len(q) : q[k].line \in Nat /\ q[k].line <= Len(typed)
    BY <1>2 DEF GoodPipes, Good, Origin, MessageSet
  <2> QED BY <1>4, <2>1
<1>8. Pending(q, mode, disabled, greylist) /\ Judged(q, disabled, greylist, mayLog', mustLog')
  <2>1. Pending(q, mode, disabled, greylist) /\ Judged(q, disabled, greylist, mayLog, mustLog)
    BY <1>1 DEF LogInv
  <2>2. mayLog \subseteq mayLog' /\ mustLog' \subseteq mustLog \cup {n}
    BY <1>1
  <2> QED BY <1>2, <1>7, <2>1, <2>2, QueueTyped
<1>9. Wanted'
  <2>1. ASSUME NEW k \in 1..Len(typed)
        PROVE  /\ t[k].session <= session
               /\ t[k].session = session =>
                    /\ May(mode, t[k].channel) => k \in mayLog'
                    /\ k \in mustLog' => Must(mode, t[k].channel)
    <3>1. k # n
      BY <1>4
    <3> QED BY <1>1, <1>4, <2>1, <3>1 DEF LogInv, Wanted
  <2>2. /\ t[n].session <= session
        /\ May(mode, t[n].channel) => n \in mayLog'
        /\ n \in mustLog' => Must(mode, t[n].channel)
    <3>1. n \notin mustLog
      BY <1>2, <1>4
    <3> QED BY <1>1, <1>2, <1>3, <1>4, <3>1
  <2>3. \A k \in 1..Len(t) : k \in 1..Len(typed) \/ k = n
    BY <1>4
  <2>4. \A k \in 1..Len(t) :
          /\ t[k].session <= session
          /\ t[k].session = session =>
               /\ May(mode, t[k].channel) => k \in mayLog'
               /\ k \in mustLog' => Must(mode, t[k].channel)
    BY <2>1, <2>2, <2>3
  <2>5. typed' = t /\ session' = session /\ mode' = mode
    BY <1>1
  <2> QED BY <2>4, <2>5 DEF Wanted
<1>10. Closing'
  <2>1. \A p \in Plugins : \A i \in 1..Len(pipe[p]) : pipe[p][i].kind # "shutdown"
    BY <1>1 DEF LogInv, Closing
  <2>2. \A p \in Plugins : \A i \in 1..Len(pipe'[p]) : pipe'[p][i].kind # "shutdown"
    BY <1>1, <1>2, <1>5, <2>1, PutOpen
  <2> QED BY <1>1, <1>2, <2>2 DEF Closing
<1>11. LogRespectsMode'
  BY <1>1 DEF LogInv, LogRespectsMode
<1>12. \A i \in 1..Len(shown') : shown'[i] <= Len(typed')
  <2>1. \A i \in 1..Len(shown) : shown[i] \in Nat /\ shown[i] <= Len(typed)
    BY LogTypes DEF LogInv
  <2> QED BY <1>1, <1>4, <2>1
<1>13. SeenIsLogged'
  <2>1. SUFFICES ASSUME NEW k \in mustLog', Seen(k)', ~Nameless(t, k, "/channel")
                 PROVE  Logged(k)'
    BY <1>1 DEF SeenIsLogged
  <2>2. Seen(k)
    BY <1>1, <1>6, <2>1 DEF Seen
  <2>3. k <= Len(typed)
    BY <2>2, SeenIsTyped DEF LogInv
  <2>4. k \in mustLog /\ k \in 1..Len(typed)
    BY <1>1, <1>2, <1>4, <2>1, <2>3
  <2>5. ~Nameless(typed, k, "/channel")
    BY <1>4, <2>1, <2>4 DEF Nameless
  <2>6. Logged(k)
    BY <1>1, <2>2, <2>4, <2>5 DEF LogInv, SeenIsLogged
  <2> QED BY <1>1, <1>6, <2>6 DEF Logged
<1> QED BY <1>1, <1>6, <1>8, <1>9, <1>10, <1>11, <1>12, <1>13 DEF LogInv

LEMMA ChooseLogged ==
  ASSUME TypeInv, LogInv, NEW m \in Modes, ChooseMode(m)
  PROVE  LogInv'
<1> DEFINE x == Message("logging", 0, Line(m, << >>), Blank)
           q == pipe["logger"]
<1>1. /\ phase = "running" /\ pipe' = Put(pipe, x) /\ mode' = m
      /\ mayLog' = mayLog \cup {n \in 1..Len(typed) : May(m, typed[n].channel)}
      /\ mustLog' = {n \in mustLog : Must(m, typed[n].channel)}
      /\ UNCHANGED <<ui, phase, disabled, greylist, saved, log, shown, typed, session, events>>
  BY DEF ChooseMode, Act, loggerVars, qtVars
<1>2. /\ typed \in Seq(TypedLine) /\ mayLog \subseteq 1..Len(typed)
      /\ mustLog \subseteq mayLog /\ pipe \in [Plugins -> Seq(MessageSet)]
      /\ q \in Seq(MessageSet) /\ Len(q) \in Nat /\ "logger" \in Plugins /\ "ui" \in Plugins
  BY LogTypes DEF TypeInv, HistoryType, GoodPipes, Plugins
<1>3. Head(x.to) = "logger" /\ x.kind = "logging" /\ x.line = 0 /\ x.cmd = m
  <2>1. x.to = <<"logger">> /\ x.kind = "logging" /\ x.line = 0 /\ x.cmd = m
    BY DEF Message, Route, Line
  <2> HIDE DEF x
  <2>2. Head(x.to) = "logger"
    BY <2>1, Stages
  <2> QED BY <2>1, <2>2
<1>4. x \in MessageSet
  <2>1. "logging" \in Kinds /\ m \in Words
    BY DEF Kinds, Words
  <2>3. Blank \in Channels /\ 0 \in Nat /\ << >> \in Seq(Channels)
    BY DEF Channels
  <2>2. Route("logging") \in Seq(Plugins)
    BY DEF Route, Plugins
  <2>4. Line(m, << >>).cmd = m /\ Line(m, << >>).args = << >>
    BY DEF Line
  <2> QED BY <2>1, <2>2, <2>3, <2>4, MessageType DEF Message
<1> HIDE DEF x
<1>5. pipe'["logger"] = Append(q, x) /\ pipe'["ui"] = pipe["ui"]
  BY <1>1, <1>2, <1>3, PutAt
<1>6. /\ Pending(Append(q, x), m, disabled, greylist)
      /\ Judged(Append(q, x), disabled, greylist, mayLog', mustLog')
  <2>1. Pending(q, mode, disabled, greylist) /\ Judged(q, disabled, greylist, mayLog, mustLog)
    BY <1>1 DEF LogInv
  <2>2. mayLog \subseteq mayLog' /\ mustLog' \subseteq mustLog
    BY <1>1
  <2> QED BY <1>2, <1>3, <1>4, <2>1, <2>2, QueueMode
<1>7. Wanted'
  <2>1. \A n \in 1..Len(typed) : typed[n].session <= session
    BY DEF LogInv, Wanted
  <2> QED BY <1>1, <2>1 DEF Wanted
<1>8. Closing'
  <2>1. \A p \in Plugins : \A i \in 1..Len(pipe[p]) : pipe[p][i].kind # "shutdown"
    BY <1>1 DEF LogInv, Closing
  <2>2. \A p \in Plugins : \A i \in 1..Len(pipe'[p]) : pipe'[p][i].kind # "shutdown"
    BY <1>1, <1>2, <1>3, <2>1, PutOpen
  <2> QED BY <1>1, <1>2, <2>2 DEF Closing
<1>9. LogRespectsMode'
  BY <1>1 DEF LogInv, LogRespectsMode
<1>10. SeenIsLogged'
  <2>1. SUFFICES ASSUME NEW k \in mustLog', Seen(k)', ~Nameless(typed, k, "/channel")
                 PROVE  Logged(k)'
    BY <1>1 DEF SeenIsLogged
  <2>2. Seen(k) /\ k \in mustLog
    BY <1>1, <1>5, <2>1 DEF Seen
  <2>3. Logged(k)
    BY <1>1, <2>1, <2>2 DEF LogInv, SeenIsLogged
  <2>4. /\ Len(Append(q, x)) = Len(q) + 1
        /\ \A i \in 1..Len(q) : i \in 1..(Len(q) + 1) /\ Append(q, x)[i] = q[i]
    BY <1>2, <1>4, AppendFacts
  <2> QED BY <1>1, <1>5, <2>3, <2>4 DEF Logged
<1>11. \A i \in 1..Len(shown') : shown'[i] <= Len(typed')
  BY <1>1 DEF LogInv
<1>12. phase' = "running" /\ disabled' = disabled /\ greylist' = greylist /\ mode' = m
       /\ pipe'["logger"] = Append(q, x)
  BY <1>1, <1>5
<1> QED BY <1>6, <1>7, <1>8, <1>9, <1>10, <1>11, <1>12 DEF LogInv

\* The plugin p reads a message and sends at most one, not past the logger.
Passes(p) ==
  \/ \A q \in Plugins : pipe'[q] = IF q = p THEN Tail(pipe[p]) ELSE pipe[q]
  \/ \E m : /\ m.kind \notin {"logging", "shutdown"}
            /\ m.kind = "display" => ui = "qtFirst" \/ Head(m.to) # "ui"
            /\ Instead(p, m)

LEMMA PassCalm ==
  ASSUME TypeInv, LogInv, NEW p \in Plugins \ {"logger"}, pipe[p] # << >>,
         phase \in {"running", "stopping"}, phase' = phase, Passes(p),
         UNCHANGED <<ui, disabled, greylist, saved, log>>,
         UNCHANGED <<mode, mayLog, mustLog, typed, session>>,
         \A i \in 1..Len(shown') : shown'[i] <= Len(typed),
         ASSUME NEW n, phase = "running",
                \/ n \in Range(shown')
                \/ \E i \in 1..Len(events') : events'[i].kind = "display" /\ events'[i].line = n
         PROVE  Seen(n) \/ Logged(n)'
  PROVE  Calm
<1>1. /\ pipe \in [Plugins -> Seq(MessageSet)] /\ "logger" \in Plugins /\ "ui" \in Plugins
      /\ p \in Plugins /\ p # "logger"
  BY DEF TypeInv, GoodPipes, Plugins
<1>2. PICK m : \A q \in Plugins :
                 LET left == IF q = p THEN Tail(pipe[p]) ELSE pipe[q]
                 IN  \/ pipe'[q] = left
                     \/ /\ pipe'[q] = Append(left, m) /\ phase = "running"
                        /\ m.kind \notin {"logging", "shutdown"}
                        /\ m.kind = "display" => ui = "qtFirst" \/ q # "ui"
  <2>1. CASE \A q \in Plugins : pipe'[q] = IF q = p THEN Tail(pipe[p]) ELSE pipe[q]
    BY <2>1
  <2>2. ASSUME NEW m, m.kind \notin {"logging", "shutdown"},
               m.kind = "display" => ui = "qtFirst" \/ Head(m.to) # "ui", Instead(p, m)
        PROVE  \A q \in Plugins :
                 LET left == IF q = p THEN Tail(pipe[p]) ELSE pipe[q]
                 IN  \/ pipe'[q] = left
                     \/ /\ pipe'[q] = Append(left, m) /\ phase = "running"
                        /\ m.kind \notin {"logging", "shutdown"}
                        /\ m.kind = "display" => ui = "qtFirst" \/ q # "ui"
    BY <2>2 DEF Instead
  <2> QED BY <2>1, <2>2 DEF Passes
<1>3. \/ pipe'["logger"] = pipe["logger"]
      \/ /\ phase = "running"
         /\ \E x : x.kind # "logging" /\ pipe'["logger"] = Append(pipe["logger"], x)
  BY <1>1, <1>2
<1>4. ASSUME NEW q \in Plugins
      PROVE  LET left == IF q = p THEN Tail(pipe[p]) ELSE pipe[q]
             IN  /\ left \in Seq(MessageSet)
                 /\ \A i \in 1..Len(left) : \E k \in 1..Len(pipe[q]) : left[i] = pipe[q][k]
  <2>1. CASE q = p
    <3>1. pipe[p] \in Seq(MessageSet)
      BY <1>1
    <3>2. /\ Tail(pipe[p]) \in Seq(MessageSet)
          /\ \A i \in 1..Len(Tail(pipe[p])) :
               Tail(pipe[p])[i] = pipe[p][i + 1] /\ i + 1 \in 1..Len(pipe[p])
      BY <3>1, TailFacts
    <3> QED BY <2>1, <3>2
  <2>2. CASE q # p
    BY <1>1, <2>2
  <2> QED BY <2>1, <2>2
<1>5. ASSUME phase = "running", NEW q \in Plugins
      PROVE  \A i \in 1..Len(pipe'[q]) : pipe'[q][i].kind # "shutdown"
  <2> DEFINE left == IF q = p THEN Tail(pipe[p]) ELSE pipe[q]
  <2>1. \A k \in 1..Len(pipe[q]) : pipe[q][k].kind # "shutdown"
    BY <1>5 DEF LogInv, Closing
  <2>2. left \in Seq(MessageSet) /\ \A i \in 1..Len(left) : left[i].kind # "shutdown"
    BY <1>4, <2>1
  <2>3. pipe'[q] = left \/ (pipe'[q] = Append(left, m) /\ m.kind # "shutdown")
    BY <1>2
  <2> HIDE DEF left
  <2> QED BY <2>2, <2>3, AppendOpen
<1>6. ASSUME phase = "running", NEW n, Seen(n)'
      PROVE  Seen(n) \/ Logged(n)'
  <2>1. CASE \/ n \in Range(shown')
             \/ \E i \in 1..Len(events') : events'[i].kind = "display" /\ events'[i].line = n
    BY <1>6, <2>1
  <2>2. ASSUME ui # "qtFirst", NEW i \in 1..Len(pipe'["ui"]), pipe'["ui"][i].kind = "display",
               pipe'["ui"][i].line = n
        PROVE  Seen(n)
    <3> DEFINE left == IF "ui" = p THEN Tail(pipe[p]) ELSE pipe["ui"]
    <3>1. /\ left \in Seq(MessageSet)
          /\ \A j \in 1..Len(left) : \E k \in 1..Len(pipe["ui"]) : left[j] = pipe["ui"][k]
      BY <1>1, <1>4
    <3>2. pipe'["ui"] = left \/ (pipe'["ui"] = Append(left, m) /\ m.kind # "display")
      BY <1>1, <1>2, <2>2
    <3> HIDE DEF left
    <3>3. i \in 1..Len(left) /\ pipe'["ui"][i] = left[i]
      <4>1. CASE pipe'["ui"] = left
        BY <2>2, <4>1
      <4>2. CASE pipe'["ui"] = Append(left, m) /\ m.kind # "display"
        <5>1. /\ Len(Append(left, m)) = Len(left) + 1 /\ Len(left) \in Nat
              /\ \A k \in 1..Len(left) : Append(left, m)[k] = left[k]
              /\ Append(left, m)[Len(left) + 1] = m
          BY <3>1, SeqOfMore, AppendProperties
        <5>2. i \in 1..Len(left) \/ i = Len(left) + 1
          BY <2>2, <4>2, <5>1
        <5> QED BY <2>2, <4>2, <5>1, <5>2
      <4> QED BY <3>2, <4>1, <4>2
    <3>4. PICK k \in 1..Len(pipe["ui"]) : left[i] = pipe["ui"][k]
      BY <3>1, <3>3
    <3> QED BY <2>2, <3>3, <3>4 DEF Seen
  <2> QED BY <1>6, <2>1, <2>2 DEF Seen
<1> QED BY <1>3, <1>5, <1>6 DEF Calm

LEMMA PassKeeps ==
  ASSUME TypeInv, TypeInv', LogInv, NEW p \in Plugins \ {"logger"}, pipe[p] # << >>,
         phase \in {"running", "stopping"}, phase' = phase, Passes(p),
         UNCHANGED <<ui, disabled, greylist, saved, log, shown, events>>,
         UNCHANGED <<mode, mayLog, mustLog, typed, session>>
  PROVE  LogInv'
<1>1. \A i \in 1..Len(shown') : shown'[i] <= Len(typed)
  BY DEF LogInv
<1>2. ASSUME NEW n, \/ n \in Range(shown')
                    \/ \E i \in 1..Len(events') : events'[i].kind = "display" /\ events'[i].line = n
      PROVE  Seen(n) \/ Logged(n)'
  BY <1>2 DEF Seen
<1>3. Calm
  BY <1>1, <1>2, PassCalm
<1> QED BY <1>3, CalmKeeps

\* Who only takes, or writes one message in answer.
LEMMA WritePasses ==
  ASSUME TypeInv, NEW p \in Plugins, pipe[p] # << >>,
         \/ pipe' = Rest(p)
         \/ \E m : /\ m.kind \notin {"logging", "shutdown"}
                   /\ m.kind = "display" => ui = "qtFirst" \/ Head(m.to) # "ui"
                   /\ Head(m.to) \in Plugins
                   /\ pipe' = Put(Rest(p), m)
  PROVE  Passes(p)
<1>1. CASE pipe' = Rest(p)
  BY <1>1, RestAt DEF Passes
<1>2. ASSUME NEW m, m.kind \notin {"logging", "shutdown"},
             m.kind = "display" => ui = "qtFirst" \/ Head(m.to) # "ui",
             Head(m.to) \in Plugins, pipe' = Put(Rest(p), m)
      PROVE  Passes(p)
  <2>1. Instead(p, m)
    BY <1>2, WriteInstead
  <2> QED BY <1>2, <2>1 DEF Passes
<1> QED BY <1>1, <1>2

LEMMA EchoPasses ==
  ASSUME TypeInv, NEW p \in Plugins, pipe[p] # << >>, First(p).kind \notin {"shutdown", "logging"},
         First(p).kind = "display" => p = "ui",
         pipe' = Echo(Rest(p), First(p))
  PROVE  Passes(p)
<1> DEFINE w == Way(ui, p, First(p).kind)
<1>1. CASE \A q \in Plugins : pipe'[q] = IF q = p THEN Tail(pipe[p]) ELSE pipe[q]
  BY <1>1 DEF Passes
<1>2. ASSUME NEW m, m.kind = First(p).kind, m.to = Tail(w), Tail(w) # << >>, Instead(p, m)
      PROVE  Passes(p)
  <2>1. ASSUME m.kind = "display"
        PROVE  Head(m.to) # "ui"
    <3>1. w = <<"ui", "logger">> \/ w = <<"ui">>
      BY <1>2, <2>1 DEF Way
    <3> HIDE DEF w
    <3>2. Tail(w) = <<"logger">> \/ Tail(w) = << >>
      BY <3>1, Stages
    <3>3. m.to = <<"logger">>
      BY <1>2, <3>2
    <3> QED BY <3>3, Stages
  <2> QED BY <1>2, <2>1 DEF Passes
<1>3. \/ \A q \in Plugins : pipe'[q] = IF q = p THEN Tail(pipe[p]) ELSE pipe[q]
      \/ Tail(w) # << >> /\ \E m : m.kind = First(p).kind /\ m.to = Tail(w) /\ Instead(p, m)
  BY EchoAt
<1> QED BY <1>1, <1>2, <1>3

LEMMA GrinderLogged ==
  ASSUME TypeInv, TypeInv', LogInv, MeatgrinderStep
  PROVE  LogInv'
<1>1. /\ UNCHANGED <<ui, disabled, greylist, saved, log, shown, events>>
      /\ UNCHANGED <<mode, mayLog, mustLog, typed, session>>
  BY DEF MeatgrinderStep, loggerVars, qtVars, history
<1>2. /\ pipe["meatgrinder"] # << >> /\ phase \in {"running", "stopping"}
      /\ "meatgrinder" \in Plugins \ {"logger"} /\ "logger" \in Plugins
  BY GrinderShape DEF Plugins
<1>3. CASE Crash
  BY <1>1, <1>3, CrashKeeps
<1>4. CASE HandleQuit
  <2>1. /\ Rest("meatgrinder") \in [Plugins -> Seq(MessageSet)]
        /\ Rest("meatgrinder")["logger"] = pipe["logger"]
    BY <1>2, RestAt
  <2>2. InitiateShutdown(Rest("meatgrinder"))
    BY <1>4 DEF HandleQuit
  <2> QED BY <1>1, <1>2, <2>1, <2>2, ShutdownKeeps
<1>5. CASE phase' = phase /\ pipe' = Rest("meatgrinder")
  <2>1. Passes("meatgrinder")
    BY <1>2, <1>5, WritePasses
  <2> QED BY <1>1, <1>2, <1>5, <2>1, PassKeeps
<1>6. ASSUME phase' = phase, NEW m, m.kind \in GrinderKinds, Head(m.to) \in Plugins \ {"logger"},
             pipe' = Put(Rest("meatgrinder"), m)
      PROVE  LogInv'
  <2>1. m.kind \notin {"logging", "shutdown", "display"}
    BY <1>6 DEF GrinderKinds
  <2>2. Passes("meatgrinder")
    BY <1>2, <1>6, <2>1, WritePasses
  <2> QED BY <1>1, <1>2, <1>6, <2>2, PassKeeps
<1> QED BY <1>3, <1>4, <1>5, <1>6, GrinderShape

LEMMA AntennaLogged ==
  ASSUME TypeInv, TypeInv', LogInv, AntennaStep
  PROVE  LogInv'
<1>1. /\ UNCHANGED <<ui, phase, disabled, greylist, saved, log, shown, events>>
      /\ UNCHANGED <<mode, mayLog, mustLog, typed, session>>
  BY DEF AntennaStep, loggerVars, qtVars, history
<1>2. /\ pipe["antenna"] # << >> /\ phase \in {"running", "stopping"}
      /\ First("antenna").kind \in {"edict", "set_channel", "leave_channel"}
  BY DEF AntennaStep, SendEdict, SendJoin, SendLeft, Reads
<1>3. "antenna" \in Plugins \ {"logger"} /\ ui \in {"console", "qt", "qtFirst"}
  BY DEF Plugins, TypeInv
<1>4. CASE SendEdict
  <2> DEFINE m == About("received", First("antenna").line, First("antenna").channel)
  <2>1. pipe' = Put(Rest("antenna"), m)
    BY <1>4 DEF SendEdict, Write
  <2>2. Head(m.to) \in Plugins /\ m.kind = "received"
    BY <1>3, MessageHead DEF About
  <2>3. Passes("antenna")
    BY <1>2, <1>3, <2>1, <2>2, WritePasses
  <2> QED BY <1>1, <1>2, <1>3, <2>3, PassKeeps
<1>5. CASE SendJoin \/ SendLeft
  <2>1. pipe' = Echo(Rest("antenna"), First("antenna"))
    BY <1>5 DEF SendJoin, SendLeft
  <2>2. Passes("antenna")
    BY <1>2, <1>3, <2>1, EchoPasses
  <2> QED BY <1>1, <1>2, <1>3, <2>2, PassKeeps
<1> QED BY <1>4, <1>5 DEF AntennaStep

LEMMA MasseuseLogged ==
  ASSUME TypeInv, TypeInv', LogInv, MasseuseStep
  PROVE  LogInv'
<1>1. /\ UNCHANGED <<ui, phase, disabled, greylist, saved, log, shown, events>>
      /\ UNCHANGED <<mode, mayLog, mustLog, typed, session>>
  BY DEF MasseuseStep, loggerVars, qtVars, history
<1> DEFINE m == About("display", First("masseuse").line, First("masseuse").channel)
<1>2. /\ pipe["masseuse"] # << >> /\ phase \in {"running", "stopping"}
      /\ pipe' = Put(Rest("masseuse"), m)
  BY DEF MasseuseStep, Translate, Reads, Write
<1>3. "masseuse" \in Plugins \ {"logger"}
  BY DEF Plugins
<1>4. /\ m.kind = "display"
      /\ (m.to = <<"ui", "logger">> /\ ui = "qtFirst") \/ m.to = <<"logger", "ui">>
  BY DEF About, Message, Route
<1> HIDE DEF m
<1>5. Head(m.to) \in Plugins /\ (ui = "qtFirst" \/ Head(m.to) # "ui")
  <2>1. Head(<<"ui", "logger">>) = "ui" /\ Head(<<"logger", "ui">>) = "logger"
    BY Stages
  <2> QED BY <1>4, <2>1 DEF Plugins
<1>6. Passes("masseuse")
  BY <1>2, <1>3, <1>4, <1>5, WritePasses
<1> QED BY <1>1, <1>2, <1>3, <1>6, PassKeeps

LEMMA ConsoleLogged ==
  ASSUME TypeInv, TypeInv', LogInv, ConsoleStep
  PROVE  LogInv'
<1>1. /\ ui = "console"
      /\ UNCHANGED <<ui, phase, disabled, greylist, saved, log, events>>
      /\ UNCHANGED <<mode, mayLog, mustLog, typed, session>>
  BY DEF ConsoleStep, loggerVars, qtVars, history
<1>2. /\ pipe["ui"] # << >> /\ phase \in {"running", "stopping"}
      /\ First("ui").kind \in {"display", "set_channel", "only"}
  BY DEF ConsoleStep, PrintLine, TellChannel, ShowOnly, Reads
<1>3. "ui" \in Plugins \ {"logger"} /\ pipe["ui"] \in Seq(MessageSet) /\ shown \in Seq(Nat)
  BY LogTypes DEF Plugins, TypeInv, GoodPipes
<1>4. CASE PrintLine
  <2> DEFINE h == First("ui")
  <2>1. /\ h.kind = "display" /\ pipe' = Echo(Rest("ui"), h)
        /\ shown' = shown \/ shown' = Append(shown, h.line)
    BY <1>4 DEF PrintLine, Reading, Reads
  <2>2. Passes("ui")
    BY <1>2, <1>3, <2>1, EchoPasses
  <2>3. Good(ui, typed, session, "ui", h) /\ h = pipe["ui"][1] /\ 1 \in 1..Len(pipe["ui"])
    <3>1. GoodPipes(ui, typed, session, pipe)
      BY DEF TypeInv
    <3> QED BY <1>2, <1>3, <3>1, ReadGood, TailFacts DEF First
  <2> HIDE DEF h
  <2>4. h.line \in Nat /\ h.line <= Len(typed)
    BY <2>3 DEF Good, Origin, MessageSet
  <2>5. \A i \in 1..Len(shown') : shown'[i] <= Len(typed)
    <3>1. \A i \in 1..Len(shown) : shown[i] <= Len(typed)
      BY DEF LogInv
    <3>2. /\ Len(Append(shown, h.line)) = Len(shown) + 1 /\ Len(shown) \in Nat
          /\ \A i \in 1..Len(shown) : Append(shown, h.line)[i] = shown[i]
          /\ Append(shown, h.line)[Len(shown) + 1] = h.line
          /\ \A i \in 1..(Len(shown) + 1) : i \in 1..Len(shown) \/ i = Len(shown) + 1
      BY <1>3, <2>4, AppendFacts
    <3> QED BY <2>1, <2>4, <3>1, <3>2
  <2>6. Seen(h.line)
    BY <1>1, <2>1, <2>3 DEF Seen
  <2>7. Range(shown') \subseteq Range(shown) \cup {h.line}
    BY <1>3, <2>1, <2>4, RangeGrows
  <2>8. ASSUME NEW n, \/ n \in Range(shown')
                      \/ \E i \in 1..Len(events') : events'[i].kind = "display" /\ events'[i].line = n
        PROVE  Seen(n) \/ Logged(n)'
    BY <1>1, <2>6, <2>7, <2>8 DEF Seen
  <2>9. Calm
    BY <1>1, <1>2, <1>3, <2>2, <2>5, <2>8, PassCalm
  <2> QED BY <2>9, CalmKeeps
<1>5. CASE TellChannel
  <2> DEFINE m == About("notify", First("ui").line, Blank)
  <2>1. shown' = shown /\ (pipe' = Rest("ui") \/ pipe' = Put(Rest("ui"), m))
    BY <1>5 DEF TellChannel, Write, Swallow, Reading
  <2>2. Head(m.to) \in Plugins /\ m.kind = "notify"
    BY <1>1, MessageHead DEF About
  <2>3. Passes("ui")
    BY <1>2, <1>3, <2>1, <2>2, WritePasses
  <2> QED BY <1>1, <1>2, <1>3, <2>1, <2>3, PassKeeps
<1>6. CASE ShowOnly
  <2>1. shown' = shown /\ pipe' = Rest("ui")
    BY <1>6 DEF ShowOnly, Swallow
  <2>2. Passes("ui")
    BY <1>2, <1>3, <2>1, WritePasses
  <2> QED BY <1>1, <1>2, <1>3, <2>1, <2>2, PassKeeps
<1> QED BY <1>4, <1>5, <1>6 DEF ConsoleStep

LEMMA EmitLogged ==
  ASSUME TypeInv, TypeInv', LogInv, Qt, Emit
  PROVE  LogInv'
<1> DEFINE h == First("ui")
           e == [kind |-> h.kind, line |-> h.line, channel |-> h.channel]
<1>1. /\ UNCHANGED <<ui, phase, disabled, greylist, saved, log, shown>>
      /\ UNCHANGED <<mode, mayLog, mustLog, typed, session>>
      /\ pipe' = Echo(Rest("ui"), h) /\ events' = Append(events, e)
      /\ pipe["ui"] # << >> /\ phase \in {"running", "stopping"}
      /\ h.kind \in {"display", "set_channel", "leave_channel"}
  BY DEF Emit, Reads, loggerVars, history, Reading
<1>2. /\ "ui" \in Plugins \ {"logger"} /\ "logger" \in Plugins
      /\ GoodPipes(ui, typed, session, pipe) /\ events \in Seq(Signal)
      /\ pipe["ui"] \in Seq(MessageSet) /\ pipe["logger"] \in Seq(MessageSet)
      /\ Len(pipe["logger"]) \in Nat /\ Len(events) \in Nat
  BY LogTypes DEF Plugins, TypeInv, GoodPipes, GoodEvents
<1>3. h = pipe["ui"][1] /\ 1 \in 1..Len(pipe["ui"])
  BY <1>1, <1>2, TailFacts DEF First
<1>4. Passes("ui")
  BY <1>1, <1>2, EchoPasses
<1>5. ASSUME ui = "qtFirst", phase = "running", h.kind = "display", NEW n, n = h.line
      PROVE  Logged(n)'
  <2>1. Way(ui, "ui", h.kind) = <<"ui", "logger">>
    BY <1>5 DEF Way
  <2>2. Tail(Way(ui, "ui", h.kind)) = <<"logger">> /\ <<"logger">> # << >>
    BY <2>1, Stages
  <2>3. PICK m : m.line = h.line /\ m.to = <<"logger">> /\ Instead("ui", m)
    BY <1>1, <1>2, <2>2, EchoAt
  <2> HIDE DEF h
  <2>4. Head(m.to) = "logger"
    BY <2>3, Stages
  <2>5. pipe'["logger"] = Append(pipe["logger"], m)
    BY <1>2, <1>5, <2>3, <2>4 DEF Instead
  <2>6. /\ Len(Append(pipe["logger"], m)) = Len(pipe["logger"]) + 1
        /\ Append(pipe["logger"], m)[Len(pipe["logger"]) + 1] = m
    BY <1>2, SeqOfMore, AppendProperties
  <2>7. Len(pipe["logger"]) + 1 \in 1..(Len(pipe["logger"]) + 1)
    BY <1>2
  <2> QED BY <1>5, <2>3, <2>5, <2>6, <2>7 DEF Logged
<1>6. ASSUME phase = "running", h.kind = "display", NEW n, n = h.line
      PROVE  Seen(n) \/ Logged(n)'
  BY <1>3, <1>5, <1>6 DEF Seen
<1>7. \A i \in 1..Len(events') :
        \/ i \in 1..Len(events) /\ events'[i] = events[i]
        \/ events'[i].kind = h.kind /\ events'[i].line = h.line
  <2>1. e.kind = h.kind /\ e.line = h.line
    OBVIOUS
  <2> HIDE DEF e
  <2>2. /\ Len(Append(events, e)) = Len(events) + 1
        /\ \A i \in 1..Len(events) : Append(events, e)[i] = events[i]
        /\ Append(events, e)[Len(events) + 1] = e
    BY <1>2, SeqOfMore, AppendProperties
  <2>3. \A i \in 1..(Len(events) + 1) : i \in 1..Len(events) \/ i = Len(events) + 1
    BY <1>2
  <2> QED BY <1>1, <2>1, <2>2, <2>3
<1> HIDE DEF h, e
<1>8. ASSUME NEW n, phase = "running",
             \/ n \in Range(shown')
             \/ \E i \in 1..Len(events') : events'[i].kind = "display" /\ events'[i].line = n
      PROVE  Seen(n) \/ Logged(n)'
  <2>1. CASE n \in Range(shown')
    BY <1>1, <2>1 DEF Seen
  <2>2. ASSUME NEW i \in 1..Len(events'), events'[i].kind = "display", events'[i].line = n
        PROVE  Seen(n) \/ Logged(n)'
    <3>1. CASE i \in 1..Len(events) /\ events'[i] = events[i]
      BY <2>2, <3>1 DEF Seen
    <3>2. CASE events'[i].kind = h.kind /\ events'[i].line = h.line
      BY <1>6, <1>8, <2>2, <3>2
    <3> QED BY <1>7, <3>1, <3>2
  <2> QED BY <1>8, <2>1, <2>2
<1>9. \A i \in 1..Len(shown') : shown'[i] <= Len(typed)
  BY <1>1 DEF LogInv
<1>10. Calm
  BY <1>1, <1>2, <1>4, <1>8, <1>9, PassCalm
<1> QED BY <1>10, CalmKeeps

\* Steps that take nothing from a pipe, and add nothing to show.
LEMMA SideCalm ==
  ASSUME TypeInv, LogInv, phase \in {"running", "stopping"}, phase' = phase,
         pipe'["logger"] = pipe["logger"],
         phase = "running" =>
           \A p \in Plugins : \A i \in 1..Len(pipe'[p]) : pipe'[p][i].kind # "shutdown",
         \A i \in 1..Len(pipe'["ui"]) :
           pipe'["ui"][i].kind = "display" =>
             \E k \in 1..Len(pipe["ui"]) : pipe'["ui"][i] = pipe["ui"][k],
         UNCHANGED <<ui, disabled, greylist, saved, log>>,
         UNCHANGED <<mode, mayLog, mustLog, typed, session>>,
         \A i \in 1..Len(shown') : shown'[i] <= Len(typed),
         ASSUME NEW n, \/ n \in Range(shown')
                       \/ \E i \in 1..Len(events') :
                            events'[i].kind = "display" /\ events'[i].line = n
         PROVE  Seen(n)
  PROVE  Calm
<1>1. ASSUME NEW n, Seen(n)'
      PROVE  Seen(n)
  <2>1. CASE \/ n \in Range(shown')
             \/ \E i \in 1..Len(events') : events'[i].kind = "display" /\ events'[i].line = n
    BY <2>1
  <2>2. CASE /\ ui # "qtFirst"
             /\ \E i \in 1..Len(pipe'["ui"]) :
                  pipe'["ui"][i].kind = "display" /\ pipe'["ui"][i].line = n
    BY <2>2 DEF Seen
  <2> QED BY <1>1, <2>1, <2>2 DEF Seen
<1> QED BY <1>1 DEF Calm

LEMMA WindowLogged ==
  ASSUME TypeInv, TypeInv', LogInv, Qt, WindowStep
  PROVE  LogInv'
<1>1. /\ UNCHANGED <<ui, disabled, greylist, saved, log>>
      /\ UNCHANGED <<mode, mayLog, mustLog, typed, session>>
  BY DEF WindowStep, loggerVars, history
<1>2. /\ phase \in {"running", "stopping"} /\ events # << >> /\ events' = Tail(events)
  BY DEF WindowStep, display, focus, leave, Takes
<1>3. /\ events \in Seq(Signal) /\ shown \in Seq(Nat) /\ GoodEvents(typed, session, events)
      /\ pipe \in [Plugins -> Seq(MessageSet)] /\ "ui" \in Plugins /\ "logger" \in Plugins
      /\ ui \in {"console", "qt", "qtFirst"}
  BY LogTypes DEF TypeInv, GoodEvents, GoodPipes, Plugins
<1>4. \A i \in 1..Len(events') : \E k \in 1..Len(events) : events'[i] = events[k]
  BY <1>2, <1>3, TailFacts
<1>5. ASSUME NEW n, \E i \in 1..Len(events') : events'[i].kind = "display" /\ events'[i].line = n
      PROVE  Seen(n)
  BY <1>4, <1>5 DEF Seen
<1>6. phase = "running" =>
        \A p \in Plugins : \A i \in 1..Len(pipe[p]) : pipe[p][i].kind # "shutdown"
  BY DEF LogInv, Closing
<1>7. \A i \in 1..Len(shown) : shown[i] <= Len(typed)
  BY DEF LogInv
<1>8. ASSUME shown' = shown, phase' = phase, pipe' = pipe
      PROVE  LogInv'
  <2>1. \A n : n \in Range(shown') => Seen(n)
    BY <1>8 DEF Seen
  <2>2. Calm
    BY <1>1, <1>2, <1>5, <1>6, <1>7, <1>8, <2>1, SideCalm
  <2> QED BY <2>2, CalmKeeps
<1>9. CASE display
  <2> DEFINE e == Head(events)
  <2>1. CASE Crash /\ shown' = shown
    BY <1>1, <2>1, CrashKeeps
  <2>2. CASE shown' = shown /\ phase' = phase /\ pipe' = pipe
    BY <1>8, <2>2
  <2>3. CASE shown' = Append(shown, e.line) /\ phase' = phase /\ pipe' = pipe
    <3>1. e \in Signal /\ Origin(typed, session, e) /\ e = events[1] /\ 1 \in 1..Len(events)
      BY <1>2, <1>3, TakeEvent
    <3>2. e.kind = "display"
      BY <1>9 DEF display, Takes
    <3> HIDE DEF e
    <3>3. e.line \in Nat /\ e.line <= Len(typed)
      BY <3>1 DEF Signal, Origin
    <3>4. \A i \in 1..Len(shown') : shown'[i] <= Len(typed)
      <4>1. /\ Len(Append(shown, e.line)) = Len(shown) + 1 /\ Len(shown) \in Nat
            /\ \A i \in 1..Len(shown) : Append(shown, e.line)[i] = shown[i]
            /\ Append(shown, e.line)[Len(shown) + 1] = e.line
            /\ \A i \in 1..(Len(shown) + 1) : i \in 1..Len(shown) \/ i = Len(shown) + 1
        BY <1>3, <3>3, AppendFacts
      <4> QED BY <1>7, <2>3, <3>3, <4>1
    <3>5. Seen(e.line)
      BY <3>1, <3>2 DEF Seen
    <3>6. Range(shown') = Range(shown) \cup {e.line}
      BY <1>3, <2>3, <3>3, RangeGrows
    <3>7. \A n : n \in Range(shown') => Seen(n)
      BY <3>5, <3>6 DEF Seen
    <3>8. Calm
      BY <1>1, <1>2, <1>5, <1>6, <2>3, <3>4, <3>7, SideCalm
    <3> QED BY <3>8, CalmKeeps
  <2> QED BY <1>9, <2>1, <2>2, <2>3 DEF display
<1>10. CASE focus
  <2> DEFINE m == About("set_channel", Head(events).line, Head(events).channel)
  <2>1. phase' = phase /\ shown' = shown /\ (pipe' = pipe \/ pipe' = Put(pipe, m))
    BY <1>10 DEF focus
  <2>2. CASE pipe' = pipe
    BY <1>8, <2>1, <2>2
  <2>3. CASE pipe' = Put(pipe, m)
    <3>1. Head(m.to) \in Plugins \ {"logger"} /\ m.kind = "set_channel"
      BY <1>3, MessageHead DEF About
    <3> HIDE DEF m
    <3>2. \A q \in Plugins : pipe'[q] = IF phase = "running" /\ q = Head(m.to)
                                        THEN Append(pipe[q], m) ELSE pipe[q]
      BY <1>3, <2>3, <3>1, PutAt
    <3>3. pipe'["logger"] = pipe["logger"]
      BY <1>3, <3>1, <3>2
    <3>4. phase = "running" =>
            \A p \in Plugins : \A i \in 1..Len(pipe'[p]) : pipe'[p][i].kind # "shutdown"
      BY <1>3, <1>6, <2>3, <3>1, PutOpen
    <3>5. ASSUME NEW i \in 1..Len(pipe'["ui"]), pipe'["ui"][i].kind = "display"
          PROVE  \E k \in 1..Len(pipe["ui"]) : pipe'["ui"][i] = pipe["ui"][k]
      <4>1. CASE pipe'["ui"] = pipe["ui"]
        BY <3>5, <4>1
      <4>2. CASE pipe'["ui"] = Append(pipe["ui"], m)
        <5>1. pipe["ui"] \in Seq(MessageSet)
          BY <1>3
        <5>2. /\ Len(Append(pipe["ui"], m)) = Len(pipe["ui"]) + 1 /\ Len(pipe["ui"]) \in Nat
              /\ \A k \in 1..Len(pipe["ui"]) : Append(pipe["ui"], m)[k] = pipe["ui"][k]
              /\ Append(pipe["ui"], m)[Len(pipe["ui"]) + 1] = m
          BY <5>1, SeqOfMore, AppendProperties
        <5>3. i \in 1..Len(pipe["ui"]) \/ i = Len(pipe["ui"]) + 1
          BY <3>5, <4>2, <5>2
        <5> QED BY <3>1, <3>5, <4>2, <5>2, <5>3
      <4> QED BY <1>3, <3>2, <4>1, <4>2
    <3>6. \A n : n \in Range(shown') => Seen(n)
      BY <2>1 DEF Seen
    <3>7. \A i \in 1..Len(shown') : shown'[i] <= Len(typed)
      BY <1>7, <2>1
    <3>8. Calm
      BY <1>1, <1>2, <1>5, <2>1, <3>3, <3>4, <3>5, <3>6, <3>7, SideCalm
    <3> QED BY <3>8, CalmKeeps
  <2> QED BY <2>1, <2>2, <2>3
<1>11. CASE leave
  BY <1>8, <1>11 DEF leave
<1> QED BY <1>9, <1>10, <1>11 DEF WindowStep

LEMMA ConnectLogged ==
  ASSUME TypeInv, TypeInv', LogInv, Connect
  PROVE  LogInv'
<1> DEFINE kind == IF connected THEN "leave_channel" ELSE "set_channel"
           order == SetToSeq(tabs)
           ms == [i \in DOMAIN order |-> About(kind, 0, order[i])]
<1>1. /\ Qt /\ kind \in {"set_channel", "leave_channel"} /\ phase = "running"
      /\ UNCHANGED <<ui, phase, disabled, greylist, saved, log, shown, events>>
      /\ UNCHANGED <<mode, mayLog, mustLog, typed, session>>
  BY DEF Connect, Act, loggerVars
<1>2. pipe' = [pipe EXCEPT !["ui"] = @ \o ms]
  BY DEF Connect
<1> HIDE DEF kind
<1>3. ms \in Seq(MessageSet) /\ \A i \in 1..Len(ms) : ms[i].kind = kind
  BY <1>1, TabMessages
<1> HIDE DEF ms
<1>4. /\ pipe \in [Plugins -> Seq(MessageSet)] /\ "ui" \in Plugins /\ "logger" \in Plugins
      /\ pipe["ui"] \in Seq(MessageSet)
  BY DEF TypeInv, GoodPipes, Plugins
<1>5. \A q \in Plugins : pipe'[q] = IF q = "ui" THEN pipe["ui"] \o ms ELSE pipe[q]
  BY <1>2, <1>4
<1>6. \A i \in 1..Len(pipe["ui"] \o ms) :
        \/ \E k \in 1..Len(pipe["ui"]) : (pipe["ui"] \o ms)[i] = pipe["ui"][k]
        \/ (pipe["ui"] \o ms)[i].kind = kind
  <2>1. /\ Len(pipe["ui"] \o ms) = Len(pipe["ui"]) + Len(ms)
        /\ \A i \in 1..(Len(pipe["ui"]) + Len(ms)) :
             (pipe["ui"] \o ms)[i] = IF i <= Len(pipe["ui"]) THEN pipe["ui"][i]
                                     ELSE ms[i - Len(pipe["ui"])]
    BY <1>3, <1>4, ConcatProperties
  <2>2. Len(pipe["ui"]) \in Nat /\ Len(ms) \in Nat
    BY <1>3, <1>4
  <2>3. ASSUME NEW i \in 1..(Len(pipe["ui"]) + Len(ms))
        PROVE  \/ i \in 1..Len(pipe["ui"]) /\ (pipe["ui"] \o ms)[i] = pipe["ui"][i]
               \/ (pipe["ui"] \o ms)[i].kind = kind
    <3>1. CASE i <= Len(pipe["ui"])
      BY <2>1, <2>2, <3>1
    <3>2. CASE ~(i <= Len(pipe["ui"]))
      <4>1. i - Len(pipe["ui"]) \in 1..Len(ms)
        BY <2>2, <3>2
      <4> QED BY <1>3, <2>1, <3>2, <4>1
    <3> QED BY <3>1, <3>2
  <2> QED BY <2>1, <2>3
<1>7. \A p \in Plugins : \A i \in 1..Len(pipe[p]) : pipe[p][i].kind # "shutdown"
  BY <1>1 DEF LogInv, Closing
<1>8. \A p \in Plugins : \A i \in 1..Len(pipe'[p]) : pipe'[p][i].kind # "shutdown"
  <2>1. \A i \in 1..Len(pipe'["ui"]) : pipe'["ui"][i].kind # "shutdown"
    BY <1>1, <1>4, <1>5, <1>6, <1>7
  <2> QED BY <1>5, <1>7, <2>1
<1>9. \A i \in 1..Len(pipe'["ui"]) :
        pipe'["ui"][i].kind = "display" =>
          \E k \in 1..Len(pipe["ui"]) : pipe'["ui"][i] = pipe["ui"][k]
  BY <1>1, <1>4, <1>5, <1>6
<1>10. \A i \in 1..Len(shown') : shown'[i] <= Len(typed)
  BY <1>1 DEF LogInv
<1>11. ASSUME NEW n, \/ n \in Range(shown')
                     \/ \E i \in 1..Len(events') :
                          events'[i].kind = "display" /\ events'[i].line = n
       PROVE  Seen(n)
  BY <1>1, <1>11 DEF Seen
<1>12. pipe'["logger"] = pipe["logger"]
  BY <1>4, <1>5
<1>13. Calm
  BY <1>1, <1>8, <1>9, <1>10, <1>11, <1>12, SideCalm
<1> QED BY <1>13, CalmKeeps

LEMMA InitLogged ==
  ASSUME Init
  PROVE  LogInv
<1>1. /\ phase = "running" /\ pipe = [p \in Plugins |-> << >>] /\ "logger" \in Plugins
      /\ disabled = FALSE /\ log = << >> /\ shown = << >> /\ typed = << >> /\ events = << >>
      /\ mode = "on" /\ mustLog = {}
  BY DEF Init, Plugins
<1> DEFINE q == pipe["logger"]
<1>2. q = << >> /\ Len(q) = 0
  BY <1>1
<1> HIDE DEF q
<1>3. Pending(q, mode, disabled, greylist) /\ Judged(q, disabled, greylist, mayLog, mustLog)
  BY <1>1, <1>2 DEF Pending, Judged, Follows
<1>4. Wanted /\ LogRespectsMode /\ SeenIsLogged
  BY <1>1 DEF Wanted, LogRespectsMode, SeenIsLogged
<1>5. Closing
  BY <1>1 DEF Closing
<1>6. \A i \in 1..Len(shown) : shown[i] <= Len(typed)
  BY <1>1
<1> QED BY <1>3, <1>4, <1>5, <1>6 DEF LogInv, q

LEMMA UserLogged ==
  ASSUME TypeInv, TypeInv', LogInv, UserStep
  PROVE  LogInv'
<1>1. typed \in Seq(TypedLine) /\ tabs \subseteq Channels
  BY LogTypes DEF TypeInv, UiType
<1>2. ASSUME NEW text, send_input(text)
      PROVE  LogInv'
  <2>1. text.cmd \in Words /\ text.args \in Seq(Channels)
    BY <1>1, <1>2, MayTypeText, ConversationAssumption DEF send_input
  <2>2. channel' \in Channels
    BY DEF TypeInv, UiType
  <2>3. SendLine(text, channel') /\ events' = events
    BY <1>2 DEF send_input, qtVars
  <2> QED BY <2>1, <2>2, <2>3, SendLogged
<1>3. ASSUME NEW text, request_edict_send(text)
      PROVE  LogInv'
  <2>1. text.cmd \in Words /\ text.args \in Seq(Channels)
    BY <1>1, <1>3, MayTypeText, ConversationAssumption DEF request_edict_send
  <2>2. PICK tab \in tabs \cup {Transfers} : SendLine(text, tab)
    BY <1>3 DEF request_edict_send
  <2>3. tab \in Channels
    BY <1>1 DEF Channels
  <2>4. events' = events
    BY <1>3 DEF request_edict_send, qtVars
  <2> QED BY <2>1, <2>2, <2>3, <2>4, SendLogged
<1>4. CASE Quit
  <2>1. /\ InitiateShutdown(pipe) /\ phase = "running"
        /\ UNCHANGED <<disabled, greylist, saved, log, mode, mayLog, mustLog, typed, session, shown>>
    BY <1>4 DEF Quit, loggerVars, history
  <2>2. pipe \in [Plugins -> Seq(MessageSet)]
    BY DEF TypeInv, GoodPipes
  <2> QED BY <2>1, <2>2, ShutdownKeeps
<1> QED BY <1>2, <1>3, <1>4, ConnectLogged, ChooseLogged, RestartKeeps DEF UserStep

LEMMA NextLogged ==
  ASSUME TypeInv, TypeInv', LogInv, [Next]_vars
  PROVE  LogInv'
<1>1. CASE UNCHANGED vars
  BY <1>1 DEF vars, loggerVars, qtVars, history, LogInv, Wanted, Closing, LogRespectsMode,
              SeenIsLogged, Seen, Logged
<1>2. ASSUME LoggerStep
      PROVE  LogInv'
  <2>1. UNCHANGED <<ui, phase, saved, events, shown, typed, mode, mayLog, mustLog, session>>
    BY <1>2 DEF LoggerStep, qtVars, history
  <2> QED BY <1>2, <2>1, DisplayLogged, ModeLogged DEF LoggerStep
<1>3. ASSUME NEW p \in Plugins, PluginStep(p)
      PROVE  LogInv'
  BY <1>2, <1>3, StopKeeps, GrinderLogged, AntennaLogged, MasseuseLogged,
     ConsoleLogged, EmitLogged DEF PluginStep
<1>4. CASE Qt /\ WindowStep
  BY <1>4, WindowLogged
<1>5. CASE UserStep
  BY <1>5, UserLogged
<1> QED BY <1>1, <1>3, <1>4, <1>5 DEF Next

LEMMA LogKept ==
  Spec => [](TypeInv /\ LogInv)
<1>1. Init => TypeInv /\ LogInv
  BY InitTyped, InitLogged
<1>2. TypeInv /\ LogInv /\ [Next]_vars => TypeInv' /\ LogInv'
  BY NextTyped, NextLogged
<1> QED BY <1>1, <1>2, PTL DEF Spec

(* What the user did not want in the log is not in it, over any number of  *)
(* sessions and quits; a crash loses what he chose, so that everything is  *)
(* allowed from there until he chooses again.  (logger.cpp: the mode, the  *)
(* greylist and what is kept of them.)                                     *)
THEOREM WishIsRespected == Spec => []LogRespectsMode
<1>1. LogInv => LogRespectsMode
  BY DEF LogInv
<1> QED BY <1>1, LogKept, PTL

(* What the user saw is in the log, or on its way there, if he had chosen  *)
(* ON, in this session or one that a quit ended, or DEFAULT in the present *)
(* session, since before he typed it.  Nothing is said of DEFAULT after a  *)
(* restart, which the code does not keep (DefaultModeIsKept), nor of what  *)
(* was chosen before a crash.  (logger.cpp, and the priorities at which it *)
(* and the user interfaces hear of display.)                               *)
THEOREM SightIsKept == Spec => []ShownIsLogged
<1>1. ASSUME TypeInv, LogInv
      PROVE  ShownIsLogged
  <2>1. SUFFICES ASSUME NEW i \in 1..Len(shown), phase = "running", shown[i] \in mustLog,
                        ~Bare(typed[shown[i]], "/channel"), ~Mentioned(typed, {"/channel"})
                 PROVE  Logged(shown[i])
    BY DEF ShownIsLogged, Logged
  <2>2. Seen(shown[i])
    <3>1. DOMAIN shown = 1..Len(shown)
      BY <1>1, LogTypes
    <3> QED BY <3>1 DEF Seen, Range
  <2>3. ~Nameless(typed, shown[i], "/channel")
    BY <2>1 DEF Nameless
  <2> QED BY <1>1, <2>1, <2>2, <2>3 DEF LogInv, SeenIsLogged
<1> QED BY <1>1, LogKept, PTL


-------------------------------------------------------------------------------
(* The order of lines: on their way from the keyboard to the screen and    *)
(* the log, lines that are said in plain words do not overtake each other. *)

Places == Plugins \cup {"window"}

\* What is on its way, and how far it is.  Where the window has registered
\* first, the logger and the screen are reached from there independently.
QueueAt(pipes, es) == [x \in Places |-> IF x = "window" THEN es ELSE pipes[x]]

StageOf(u) ==
  [x \in Places |->
     CASE x = "meatgrinder" -> 1
       [] x = "antenna" -> 2
       [] x = "masseuse" -> 3
       [] x = "logger" -> IF u = "qtFirst" THEN 5 ELSE 4
       [] x = "ui" -> IF u = "qtFirst" THEN 4 ELSE 5
       [] x = "window" -> IF u = "qtFirst" THEN 5 ELSE 6]

Before(st, x, y) == x = y \/ st[x] < st[y]

\* Of the lines S, the one that is farther was typed earlier.
InLine(S, st, q) ==
  \A x, y \in Places : \A i \in 1..Len(q[x]), j \in 1..Len(q[y]) :
    /\ q[x][i].line \in S /\ q[y][j].line \in S
    /\ st[x] < st[y] \/ (x = y /\ j < i)
    => q[y][j].line < q[x][i].line

\* What has arrived was typed before what has still to pass the place k.
Past(S, st, q, arrived, k) ==
  \A a \in 1..Len(arrived) : \A x \in Places : \A i \in 1..Len(q[x]) :
    /\ arrived[a] \in S /\ q[x][i].line \in S /\ Before(st, x, k)
    => arrived[a] < q[x][i].line

Rising(S, lines) ==
  \A i, j \in 1..Len(lines) :
    i < j /\ lines[i] \in S /\ lines[j] \in S => lines[i] < lines[j]

SaidLines(t) == {n \in 1..Len(t) : t[n].cmd = ""}

\* No macro rewrites plain words.
Plain(t) ==
  /\ ~Mentioned(t, {"", "/replace"})
  /\ \A n \in 1..Len(t) : t[n].cmd # "/replace"

Harmless(d) == d.command # "" /\ ("" \in Range(d.args) => d.command = "/replace")

\* Plain words remain what they are, and no command has an empty word in it.
SaysWell(S, m) ==
  /\ m.kind = "raw_edict" => "" \notin Range(m.args)
  /\ m.kind = "register_replacer" /\ m.cmd = "ADD" => "" \notin Range(m.args)
  /\ m.line \in S => /\ m.kind \in {"raw_edict", "edict", "received", "display"}
                     /\ m.kind = "raw_edict" => m.cmd = ""

AllSayWell(S, pipes) == \A p \in Plugins : \A i \in 1..Len(pipes[p]) : SaysWell(S, pipes[p][i])

OnlyDisplays(S, es) == \A i \in 1..Len(es) : es[i].line \in S => es[i].kind = "display"

ShownAt(u) == IF u = "console" THEN "ui" ELSE "window"

Lined(S, st, q, u, sh, lg) ==
  /\ InLine(S, st, q)
  /\ Rising(S, sh) /\ Past(S, st, q, sh, ShownAt(u))
  /\ Rising(S, lg) /\ Past(S, st, q, lg, "logger")

Orderly(S) ==
  /\ \A d \in BagToSet(macros) : Harmless(d)
  /\ AllSayWell(S, pipe) /\ OnlyDisplays(S, events)
  /\ Lined(S, StageOf(ui), QueueAt(pipe, events), ui, shown, log)

OrderInv == Plain(typed) => Orderly(SaidLines(typed))

-------------------------------------------------------------------------------
(* Queues in general                                                       *)

Lines(q) == \A x \in Places : q[x] \in Seq(MessageSet \cup Signal)

\* r is q without the front of p, or with m behind y.
Taken(q, p, r) == \A x \in Places : r[x] = IF x = p THEN Tail(q[p]) ELSE q[x]
Joined(q, y, m, r) == \A x \in Places : r[x] = IF x = y THEN Append(q[y], m) ELSE q[x]

LEMMA LineIsNumber ==
  ASSUME NEW m \in MessageSet \cup Signal
  PROVE  m.line \in Nat
BY DEF MessageSet, Signal

\* What is taken from the front was typed before all that is behind it.
LEMMA FrontTaken ==
  ASSUME NEW S, NEW st \in [Places -> Nat], NEW q, Lines(q), InLine(S, st, q),
         NEW p \in Places, q[p] # << >>,
         NEW r, Taken(q, p, r)
  PROVE  /\ Lines(r) /\ InLine(S, st, r)
         /\ q[p][1].line \in S =>
              \A x \in Places : \A i \in 1..Len(r[x]) :
                r[x][i].line \in S =>
                  /\ Before(st, x, p) => q[p][1].line < r[x][i].line
                  /\ st[p] < st[x] => r[x][i].line < q[p][1].line
         /\ \A lines, k : Past(S, st, q, lines, k) => Past(S, st, r, lines, k)
<1> DEFINE at(x, i) == IF x = p THEN i + 1 ELSE i
<1>1. /\ q[p] \in Seq(MessageSet \cup Signal) /\ Tail(q[p]) \in Seq(MessageSet \cup Signal)
      /\ 1 \in 1..Len(q[p])
      /\ \A i \in 1..Len(Tail(q[p])) : Tail(q[p])[i] = q[p][i + 1] /\ i + 1 \in 1..Len(q[p])
  BY TailFacts DEF Lines
<1>2. Lines(r)
  BY <1>1 DEF Lines, Taken
<1>3. \A x \in Places : \A i \in 1..Len(r[x]) : at(x, i) \in 1..Len(q[x]) /\ r[x][i] = q[x][at(x, i)]
  BY <1>1 DEF Taken
<1>4. \A x \in Places : \A i, j \in Int :
        /\ j < i => at(x, j) < at(x, i)
        /\ x = p /\ 1 <= i => 1 < at(x, i)
  OBVIOUS
<1> HIDE DEF at
<1>5. InLine(S, st, r)
  <2> SUFFICES ASSUME NEW x \in Places, NEW y \in Places,
                      NEW i \in 1..Len(r[x]), NEW j \in 1..Len(r[y]),
                      r[x][i].line \in S, r[y][j].line \in S,
                      st[x] < st[y] \/ (x = y /\ j < i)
               PROVE  r[y][j].line < r[x][i].line
    BY DEF InLine
  <2>1. at(x, i) \in 1..Len(q[x]) /\ r[x][i] = q[x][at(x, i)]
        /\ at(y, j) \in 1..Len(q[y]) /\ r[y][j] = q[y][at(y, j)]
    BY <1>3
  <2>2. st[x] < st[y] \/ (x = y /\ at(y, j) < at(x, i))
    BY <1>4
  <2> QED BY <2>1, <2>2 DEF InLine
<1>6. ASSUME q[p][1].line \in S, NEW x \in Places, NEW i \in 1..Len(r[x]), r[x][i].line \in S
      PROVE  /\ Before(st, x, p) => q[p][1].line < r[x][i].line
             /\ st[p] < st[x] => r[x][i].line < q[p][1].line
  <2>1. at(x, i) \in 1..Len(q[x]) /\ r[x][i] = q[x][at(x, i)]
    BY <1>3
  <2>2. x = p => 1 < at(x, i)
    BY <1>4
  <2> QED BY <1>1, <1>6, <2>1, <2>2 DEF InLine, Before
<1>7. ASSUME NEW lines, NEW k, Past(S, st, q, lines, k)
      PROVE  Past(S, st, r, lines, k)
  BY <1>3, <1>7 DEF Past
<1> QED BY <1>2, <1>5, <1>6, <1>7

\* What joins the queue at y comes between what is behind and what is before it.
LEMMA JoinsInLine ==
  ASSUME NEW S, NEW st \in [Places -> Nat], NEW q, Lines(q), InLine(S, st, q),
         NEW y \in Places, NEW m \in MessageSet \cup Signal,
         m.line \in S =>
           \A x \in Places : \A i \in 1..Len(q[x]) :
             q[x][i].line \in S =>
               /\ st[x] < st[y] => m.line < q[x][i].line
               /\ Before(st, y, x) => q[x][i].line < m.line,
         NEW r, Joined(q, y, m, r)
  PROVE  /\ Lines(r) /\ InLine(S, st, r)
         /\ \A lines, k :
              /\ Past(S, st, q, lines, k)
              /\ m.line \in S /\ Before(st, y, k) =>
                   \A a \in 1..Len(lines) : lines[a] \in S => lines[a] < m.line
              => Past(S, st, r, lines, k)
<1>1. /\ Append(q[y], m) \in Seq(MessageSet \cup Signal)
      /\ Len(Append(q[y], m)) = Len(q[y]) + 1 /\ Len(q[y]) \in Nat
      /\ \A i \in 1..Len(q[y]) : Append(q[y], m)[i] = q[y][i]
      /\ Append(q[y], m)[Len(q[y]) + 1] = m
      /\ \A i \in 1..(Len(q[y]) + 1) : i \in 1..Len(q[y]) \/ i = Len(q[y]) + 1
  BY AppendFacts DEF Lines
<1>2. Lines(r)
  BY <1>1 DEF Lines, Joined
<1>3. \A x \in Places : \A i \in 1..Len(r[x]) :
        \/ i \in 1..Len(q[x]) /\ r[x][i] = q[x][i]
        \/ x = y /\ i = Len(q[y]) + 1 /\ r[x][i] = m
  BY <1>1 DEF Joined
<1>4. InLine(S, st, r)
  <2> SUFFICES ASSUME NEW x \in Places, NEW z \in Places,
                      NEW i \in 1..Len(r[x]), NEW j \in 1..Len(r[z]),
                      r[x][i].line \in S, r[z][j].line \in S,
                      st[x] < st[z] \/ (x = z /\ j < i)
               PROVE  r[z][j].line < r[x][i].line
    BY DEF InLine
  <2>1. CASE i \in 1..Len(q[x]) /\ r[x][i] = q[x][i] /\ j \in 1..Len(q[z]) /\ r[z][j] = q[z][j]
    BY <2>1 DEF InLine
  <2>2. CASE /\ x = y /\ i = Len(q[y]) + 1 /\ r[x][i] = m
             /\ j \in 1..Len(q[z]) /\ r[z][j] = q[z][j]
    BY <2>2 DEF Before
  <2>3. CASE /\ i \in 1..Len(q[x]) /\ r[x][i] = q[x][i]
             /\ z = y /\ j = Len(q[y]) + 1 /\ r[z][j] = m
    <3>1. ~(x = z /\ j < i)
      BY <1>1, <2>3
    <3> QED BY <2>3, <3>1
  <2>4. CASE x = y /\ z = y /\ i = Len(q[y]) + 1 /\ j = Len(q[y]) + 1
    <3>1. ~(st[x] < st[z]) /\ ~(j < i)
      BY <1>1, <2>4
    <3> QED BY <3>1
  <2> QED BY <1>3, <2>1, <2>2, <2>3, <2>4
<1>5. ASSUME NEW lines, NEW k, Past(S, st, q, lines, k),
             m.line \in S /\ Before(st, y, k) =>
               \A a \in 1..Len(lines) : lines[a] \in S => lines[a] < m.line
      PROVE  Past(S, st, r, lines, k)
  <2> SUFFICES ASSUME NEW a \in 1..Len(lines), NEW x \in Places, NEW i \in 1..Len(r[x]),
                      lines[a] \in S, r[x][i].line \in S, Before(st, x, k)
               PROVE  lines[a] < r[x][i].line
    BY DEF Past
  <2>1. CASE i \in 1..Len(q[x]) /\ r[x][i] = q[x][i]
    BY <1>5, <2>1 DEF Past
  <2>2. CASE x = y /\ r[x][i] = m
    BY <1>5, <2>2
  <2> QED BY <1>3, <2>1, <2>2
<1> QED BY <1>2, <1>4, <1>5

\* A line that arrives from the place k, where it was first, is the last so far.
LEMMA ArrivesLast ==
  ASSUME NEW S, NEW st \in [Places -> Nat], NEW q, Lines(q), InLine(S, st, q),
         NEW k \in Places, q[k] # << >>,
         NEW r, Taken(q, k, r),
         NEW lines \in Seq(Nat), Rising(S, lines), Past(S, st, q, lines, k)
  PROVE  LET all == Append(lines, q[k][1].line)
         IN  Rising(S, all) /\ Past(S, st, r, all, k)
<1> DEFINE n == q[k][1].line
           all == Append(lines, n)
<1>1. q[k] \in Seq(MessageSet \cup Signal) /\ 1 \in 1..Len(q[k]) /\ n \in Nat
  <2>1. q[k] \in Seq(MessageSet \cup Signal) /\ 1 \in 1..Len(q[k]) /\ q[k][1] \in MessageSet \cup Signal
    BY TailFacts DEF Lines
  <2> QED BY <2>1, LineIsNumber
<1>2. /\ Len(all) = Len(lines) + 1 /\ Len(lines) \in Nat
      /\ \A i \in 1..Len(lines) : all[i] = lines[i]
      /\ all[Len(lines) + 1] = n
      /\ \A i \in 1..(Len(lines) + 1) : i \in 1..Len(lines) \/ i = Len(lines) + 1
  BY <1>1, AppendFacts
<1>3. n \in S => \A a \in 1..Len(lines) : lines[a] \in S => lines[a] < n
  BY <1>1 DEF Past, Before
<1>4. /\ n \in S => \A x \in Places : \A i \in 1..Len(r[x]) :
                      r[x][i].line \in S /\ Before(st, x, k) => n < r[x][i].line
      /\ Past(S, st, r, lines, k)
  BY FrontTaken
<1> HIDE DEF n, all
<1>5. Rising(S, all)
  <2> SUFFICES ASSUME NEW i \in 1..Len(all), NEW j \in 1..Len(all), i < j,
                      all[i] \in S, all[j] \in S
               PROVE  all[i] < all[j]
    BY DEF Rising
  <2>1. CASE j \in 1..Len(lines)
    <3>1. i \in 1..Len(lines)
      BY <1>2, <2>1
    <3> QED BY <1>2, <2>1, <3>1 DEF Rising
  <2>2. CASE j = Len(lines) + 1
    <3>1. i \in 1..Len(lines)
      BY <1>2, <2>2
    <3> QED BY <1>2, <1>3, <2>2, <3>1
  <2> QED BY <1>2, <2>1, <2>2
<1>6. Past(S, st, r, all, k)
  BY <1>2, <1>4 DEF Past
<1> QED BY <1>5, <1>6 DEF n, all

\* The place y is the next one behind p.
Onward(st, p, y) ==
  st[p] < st[y] /\ \A x \in Places : st[x] < st[y] => Before(st, x, p)

\* The front of p is taken, and goes on to y if it is a line of S.
LEMMA MovesOn ==
  ASSUME NEW S, NEW st \in [Places -> Nat], NEW q, Lines(q), InLine(S, st, q),
         NEW p \in Places, q[p] # << >>,
         NEW r, Taken(q, p, r),
         NEW y \in Places, NEW m \in MessageSet \cup Signal,
         m.line \in S => m.line = q[p][1].line /\ Onward(st, p, y),
         NEW s, Joined(r, y, m, s)
  PROVE  /\ Lines(s) /\ InLine(S, st, s)
         /\ \A lines : \A k \in Places : Past(S, st, q, lines, k) => Past(S, st, s, lines, k)
         /\ \A lines : Past(S, st, r, lines, p) => Past(S, st, s, lines, p)
<1>1. /\ Lines(r) /\ InLine(S, st, r)
      /\ q[p][1].line \in S =>
           \A x \in Places : \A i \in 1..Len(r[x]) :
             r[x][i].line \in S =>
               /\ Before(st, x, p) => q[p][1].line < r[x][i].line
               /\ st[p] < st[x] => r[x][i].line < q[p][1].line
      /\ \A lines, k : Past(S, st, q, lines, k) => Past(S, st, r, lines, k)
  BY FrontTaken
<1>2. 1 \in 1..Len(q[p])
  BY TailFacts DEF Lines
<1>3. \A x \in Places : st[x] \in Nat
  OBVIOUS
<1>4. m.line \in S =>
        \A x \in Places : \A i \in 1..Len(r[x]) :
          r[x][i].line \in S =>
            /\ st[x] < st[y] => m.line < r[x][i].line
            /\ Before(st, y, x) => r[x][i].line < m.line
  BY <1>1, <1>3 DEF Onward, Before
<1>5. /\ Lines(s) /\ InLine(S, st, s)
      /\ \A lines, k :
           /\ Past(S, st, r, lines, k)
           /\ m.line \in S /\ Before(st, y, k) =>
                \A a \in 1..Len(lines) : lines[a] \in S => lines[a] < m.line
           => Past(S, st, s, lines, k)
  BY <1>1, <1>4, JoinsInLine
<1>6. ASSUME NEW lines, NEW k \in Places, Past(S, st, q, lines, k)
      PROVE  Past(S, st, s, lines, k)
  <2>1. m.line \in S /\ Before(st, y, k) => Before(st, p, k)
    BY <1>3 DEF Onward, Before
  <2>2. m.line \in S /\ Before(st, y, k) =>
          \A a \in 1..Len(lines) : lines[a] \in S => lines[a] < m.line
    BY <1>2, <1>6, <2>1 DEF Past
  <2> QED BY <1>1, <1>5, <1>6, <2>2
<1>7. ASSUME NEW lines, Past(S, st, r, lines, p)
      PROVE  Past(S, st, s, lines, p)
  <2>1. m.line \in S => ~Before(st, y, p)
    BY <1>3 DEF Onward, Before
  <2> QED BY <1>5, <1>7, <2>1
<1> QED BY <1>5, <1>6, <1>7

\* It may go on to two places, neither of which is behind the other.
LEMMA MovesOnTwice ==
  ASSUME NEW S, NEW st \in [Places -> Nat], NEW q, Lines(q), InLine(S, st, q),
         NEW p \in Places, q[p] # << >>,
         NEW r, Taken(q, p, r),
         NEW y \in Places, NEW m \in MessageSet \cup Signal,
         m.line \in S => m.line = q[p][1].line /\ Onward(st, p, y),
         NEW s, Joined(r, y, m, s),
         NEW z \in Places \ {y}, NEW e \in MessageSet \cup Signal,
         e.line \in S => e.line = q[p][1].line /\ Onward(st, p, z),
         e.line \in S => m.line \in S,
         NEW w, Joined(s, z, e, w)
  PROVE  /\ Lines(w) /\ InLine(S, st, w)
         /\ \A lines : \A k \in Places : Past(S, st, q, lines, k) => Past(S, st, w, lines, k)
<1>1. /\ Lines(r) /\ InLine(S, st, r)
      /\ q[p][1].line \in S =>
           \A x \in Places : \A i \in 1..Len(r[x]) :
             r[x][i].line \in S =>
               /\ Before(st, x, p) => q[p][1].line < r[x][i].line
               /\ st[p] < st[x] => r[x][i].line < q[p][1].line
  BY FrontTaken
<1>2. /\ Lines(s) /\ InLine(S, st, s)
      /\ \A lines : \A k \in Places : Past(S, st, q, lines, k) => Past(S, st, s, lines, k)
  BY MovesOn
<1>3. 1 \in 1..Len(q[p])
  BY TailFacts DEF Lines
<1>4. \A x \in Places : st[x] \in Nat
  OBVIOUS
<1>5. e.line \in S => /\ ~(st[y] < st[z]) /\ ~Before(st, z, y)
  <2> HAVE e.line \in S
  <2>1. Onward(st, p, y) /\ Onward(st, p, z)
    OBVIOUS
  <2>2. st[p] < st[y] /\ st[p] < st[z] /\ st[p] \in Nat /\ st[y] \in Nat /\ st[z] \in Nat /\ z # y
    BY <1>4, <2>1 DEF Onward
  <2>3. /\ st[y] < st[z] => y = p \/ st[y] < st[p]
        /\ st[z] < st[y] => z = p \/ st[z] < st[p]
    BY <2>1 DEF Onward, Before
  <2> QED BY <2>2, <2>3 DEF Before
<1>6. e.line \in S =>
        \A x \in Places : \A i \in 1..Len(s[x]) :
          s[x][i].line \in S =>
            /\ st[x] < st[z] => e.line < s[x][i].line
            /\ Before(st, z, x) => s[x][i].line < e.line
  <2> SUFFICES ASSUME e.line \in S, NEW x \in Places, NEW i \in 1..Len(s[x]), s[x][i].line \in S
               PROVE  /\ st[x] < st[z] => e.line < s[x][i].line
                      /\ Before(st, z, x) => s[x][i].line < e.line
    OBVIOUS
  <2>1. CASE x = y
    BY <1>5, <2>1
  <2>2. CASE x # y
    <3>1. s[x] = r[x]
      BY <2>2 DEF Joined
    <3> QED BY <1>1, <1>4, <3>1 DEF Onward, Before
  <2> QED BY <2>1, <2>2
<1>7. /\ Lines(w) /\ InLine(S, st, w)
      /\ \A lines, k :
           /\ Past(S, st, s, lines, k)
           /\ e.line \in S /\ Before(st, z, k) =>
                \A a \in 1..Len(lines) : lines[a] \in S => lines[a] < e.line
           => Past(S, st, w, lines, k)
  BY <1>2, <1>6, JoinsInLine
<1>8. ASSUME NEW lines, NEW k \in Places, Past(S, st, q, lines, k)
      PROVE  Past(S, st, w, lines, k)
  <2>1. e.line \in S /\ Before(st, z, k) => Before(st, p, k)
    BY <1>4 DEF Onward, Before
  <2>2. e.line \in S /\ Before(st, z, k) =>
          \A a \in 1..Len(lines) : lines[a] \in S => lines[a] < e.line
    BY <1>3, <1>8, <2>1 DEF Past
  <2> QED BY <1>2, <1>7, <1>8, <2>2
<1> QED BY <1>7, <1>8

\* Only the lines of S matter.
LEMMA OthersDoNotMatter ==
  ASSUME NEW S, NEW st, NEW q, InLine(S, st, q),
         NEW r, \A x \in Places : \A i \in 1..Len(r[x]) :
                  r[x][i].line \in S => i \in 1..Len(q[x]) /\ r[x][i] = q[x][i]
  PROVE  /\ InLine(S, st, r)
         /\ \A lines, k : Past(S, st, q, lines, k) => Past(S, st, r, lines, k)
<1>1. InLine(S, st, r)
  BY DEF InLine
<1>2. \A lines, k : Past(S, st, q, lines, k) => Past(S, st, r, lines, k)
  BY DEF Past
<1> QED BY <1>1, <1>2

-------------------------------------------------------------------------------
(* The queues of the client                                                *)

UIs == {"console", "qt", "qtFirst"}

LEMMA StagesAre ==
  ASSUME NEW u \in UIs
  PROVE  LET st == StageOf(u)
         IN  /\ st \in [Places -> Nat]
             /\ Onward(st, "meatgrinder", "antenna") /\ Onward(st, "antenna", "masseuse")
             /\ IF u = "qtFirst"
                THEN Onward(st, "masseuse", "ui") /\ Onward(st, "ui", "logger")
                ELSE Onward(st, "masseuse", "logger") /\ Onward(st, "logger", "ui")
             /\ Onward(st, "ui", "window")
             /\ \A x \in Places : x # "meatgrinder" => st["meatgrinder"] < st[x]
<1> DEFINE st == StageOf(u)
<1>1. Places = {"meatgrinder", "antenna", "masseuse", "logger", "ui", "window"}
  BY DEF Places, Plugins
<1>2. /\ st["meatgrinder"] = 1 /\ st["antenna"] = 2 /\ st["masseuse"] = 3
      /\ st["logger"] = IF u = "qtFirst" THEN 5 ELSE 4
      /\ st["ui"] = IF u = "qtFirst" THEN 4 ELSE 5
      /\ st["window"] = IF u = "qtFirst" THEN 5 ELSE 6
  BY <1>1 DEF StageOf
<1>3. st = [x \in Places |-> st[x]] /\ \A x \in Places : st[x] \in Nat
  <2> DEFINE at(x) == CASE x = "meatgrinder" -> 1
                        [] x = "antenna" -> 2
                        [] x = "masseuse" -> 3
                        [] x = "logger" -> IF u = "qtFirst" THEN 5 ELSE 4
                        [] x = "ui" -> IF u = "qtFirst" THEN 4 ELSE 5
                        [] x = "window" -> IF u = "qtFirst" THEN 5 ELSE 6
  <2>0. st = [x \in Places |-> at(x)]
    BY DEF StageOf
  <2> HIDE DEF at, st
  <2>1. st = [x \in Places |-> st[x]]
    BY <2>0
  <2>2. \A x \in Places : st[x] \in Nat
    BY <1>1, <1>2
  <2> QED BY <2>1, <2>2
<1> HIDE DEF st
<1>4. st \in [Places -> Nat]
  BY <1>3
<1>5. Onward(st, "meatgrinder", "antenna") /\ Onward(st, "antenna", "masseuse")
  BY <1>1, <1>2 DEF Onward, Before
<1>6. u = "qtFirst" => Onward(st, "masseuse", "ui") /\ Onward(st, "ui", "logger")
  BY <1>1, <1>2 DEF Onward, Before
<1>7. u # "qtFirst" => Onward(st, "masseuse", "logger") /\ Onward(st, "logger", "ui")
  BY <1>1, <1>2 DEF Onward, Before
<1>8. Onward(st, "ui", "window")
  BY <1>1, <1>2 DEF Onward, Before
<1>9. \A x \in Places : x # "meatgrinder" => st["meatgrinder"] < st[x]
  BY <1>1, <1>2
<1> QED BY <1>4, <1>5, <1>6, <1>7, <1>8, <1>9 DEF st

LEMMA QueuesAre ==
  ASSUME TypeInv
  PROVE  /\ Lines(QueueAt(pipe, events))
         /\ QueueAt(pipe, events)["window"] = events
         /\ \A p \in Plugins : QueueAt(pipe, events)[p] = pipe[p]
<1>1. /\ \A p \in Plugins : pipe[p] \in Seq(MessageSet)
      /\ events \in Seq(Signal)
  BY DEF TypeInv, GoodPipes, GoodEvents
<1>2. "window" \notin Plugins /\ "window" \in Places /\ Plugins \subseteq Places
      /\ \A x \in Places : x = "window" \/ x \in Plugins
  BY DEF Places, Plugins
<1>3. /\ QueueAt(pipe, events)["window"] = events
      /\ \A p \in Plugins : QueueAt(pipe, events)[p] = pipe[p]
  BY <1>2 DEF QueueAt
<1>4. \A x \in Places : QueueAt(pipe, events)[x] \in Seq(MessageSet \cup Signal)
  <2> TAKE x \in Places
  <2>1. CASE x = "window"
    BY <1>1, <1>3, <2>1, SeqOfMore
  <2>2. CASE x \in Plugins
    BY <1>1, <1>3, <2>2, SeqOfMore
  <2> QED BY <1>2, <2>1, <2>2
<1> QED BY <1>3, <1>4 DEF Lines

\* A plugin reads a message, and sends at most one, perhaps about the same line.
GoesOn(S, p) ==
  \/ \A q \in Plugins : pipe'[q] = IF q = p THEN Tail(pipe[p]) ELSE pipe[q]
  \/ \E m : /\ Head(m.to) \in Plugins /\ Instead(p, m) /\ SaysWell(S, m)
            /\ m.line \in S => /\ m.line = First(p).line
                               /\ Onward(StageOf(ui), p, Head(m.to))

LEMMA SentType ==
  ASSUME TypeInv', NEW p \in Plugins, NEW left \in Seq(MessageSet), NEW m,
         pipe'[p] = Append(left, m)
  PROVE  m \in MessageSet
<1>1. pipe'[p] \in Seq(MessageSet)
  BY DEF TypeInv, GoodPipes
<1>2. left \in Seq(MessageSet \cup {m}) /\ m \in MessageSet \cup {m}
  BY SeqOfMore
<1>3. Len(pipe'[p]) = Len(left) + 1 /\ Len(left) \in Nat /\ pipe'[p][Len(left) + 1] = m
  BY <1>2, AppendFacts
<1>4. Len(left) + 1 \in 1..Len(pipe'[p])
  BY <1>3
<1>5. pipe'[p][Len(left) + 1] \in MessageSet
  BY <1>1, <1>4
<1> QED BY <1>3, <1>5

LEMMA GoesOnWell ==
  ASSUME TypeInv, NEW S, NEW p \in Plugins, pipe[p] # << >>,
         AllSayWell(S, pipe), GoesOn(S, p)
  PROVE  AllSayWell(S, pipe')
<1> SUFFICES ASSUME NEW q \in Plugins, NEW i \in 1..Len(pipe'[q])
             PROVE  SaysWell(S, pipe'[q][i])
  BY DEF AllSayWell
<1> DEFINE left == IF q = p THEN Tail(pipe[p]) ELSE pipe[q]
<1>1. \A x \in Plugins : pipe[x] \in Seq(MessageSet)
  BY DEF TypeInv, GoodPipes
<1>2. left \in Seq(MessageSet) /\ \A k \in 1..Len(left) : SaysWell(S, left[k])
  <2>1. CASE q = p
    <3>1. Tail(pipe[p]) \in Seq(MessageSet)
          /\ \A k \in 1..Len(Tail(pipe[p])) : Tail(pipe[p])[k] = pipe[p][k + 1] /\ k + 1 \in 1..Len(pipe[p])
      BY <1>1, TailFacts
    <3> QED BY <2>1, <3>1 DEF AllSayWell
  <2>2. CASE q # p
    BY <1>1, <2>2 DEF AllSayWell
  <2> QED BY <2>1, <2>2
<1>3. CASE pipe'[q] = left
  BY <1>2, <1>3
<1>4. ASSUME NEW m, SaysWell(S, m), pipe'[q] = Append(left, m)
      PROVE  SaysWell(S, pipe'[q][i])
  <2>1. left \in Seq(MessageSet \cup {m}) /\ m \in MessageSet \cup {m}
    BY <1>2, SeqOfMore
  <2> HIDE DEF left
  <2>2. /\ Len(Append(left, m)) = Len(left) + 1 /\ Len(left) \in Nat
        /\ \A k \in 1..Len(left) : Append(left, m)[k] = left[k]
        /\ Append(left, m)[Len(left) + 1] = m
        /\ \A k \in 1..(Len(left) + 1) : k \in 1..Len(left) \/ k = Len(left) + 1
    BY <2>1, AppendFacts
  <2> QED BY <1>2, <1>4, <2>2
<1>5. pipe'[q] = left \/ \E m : SaysWell(S, m) /\ pipe'[q] = Append(left, m)
  BY DEF GoesOn, Instead
<1> QED BY <1>3, <1>4, <1>5

LEMMA GoesOnInLine ==
  ASSUME TypeInv, TypeInv', NEW S, NEW p \in Plugins, pipe[p] # << >>,
         InLine(S, StageOf(ui), QueueAt(pipe, events)), GoesOn(S, p)
  PROVE  LET st == StageOf(ui)
             q == QueueAt(pipe, events)
             s == QueueAt(pipe', events)
         IN  /\ InLine(S, st, s)
             /\ \A lines : \A k \in Places : Past(S, st, q, lines, k) => Past(S, st, s, lines, k)
             /\ \A lines \in Seq(Nat) :
                  Rising(S, lines) /\ Past(S, st, q, lines, p) =>
                    LET all == Append(lines, First(p).line)
                    IN  Rising(S, all) /\ Past(S, st, s, all, p)
<1> DEFINE st == StageOf(ui)
           q == QueueAt(pipe, events)
           s == QueueAt(pipe', events)
           r == [x \in Places |-> IF x = p THEN Tail(q[p]) ELSE q[x]]
<1>1. ui \in UIs
  BY DEF TypeInv, UIs
<1>2. st \in [Places -> Nat]
  BY <1>1, StagesAre
<1>3. Lines(q) /\ (\A x \in Plugins : q[x] = pipe[x]) /\ q["window"] = events
  BY QueuesAre
<1>4. /\ p \in Places /\ "window" \in Places /\ "window" \notin Plugins /\ Plugins \subseteq Places
      /\ \A x \in Places : x = "window" \/ x \in Plugins
  BY DEF Places, Plugins
<1>5. Taken(q, p, r)
  BY DEF Taken
<1>6. s["window"] = events /\ \A x \in Plugins : s[x] = pipe'[x]
  BY <1>4 DEF QueueAt
<1>7. q[p] # << >> /\ q[p][1] = First(p)
  <2>1. q[p] = pipe[p] /\ pipe[p] \in Seq(MessageSet)
    BY <1>3 DEF TypeInv, GoodPipes
  <2>2. Head(pipe[p]) = pipe[p][1]
    BY <2>1, TailFacts
  <2> QED BY <2>1, <2>2 DEF First
<1>8. InLine(S, st, q)
  OBVIOUS
<1>9. DOMAIN s = Places /\ DOMAIN r = Places
  BY DEF QueueAt
<1>10. /\ s = [x \in Places |-> s[x]] /\ r = [x \in Places |-> r[x]]
  BY DEF QueueAt
<1> HIDE DEF st, q, s, r
<1>11. \A lines \in Seq(Nat) :
         Rising(S, lines) /\ Past(S, st, q, lines, p) =>
           LET all == Append(lines, First(p).line)
           IN  Rising(S, all) /\ Past(S, st, r, all, p)
  <2> TAKE lines \in Seq(Nat)
  <2> HAVE Rising(S, lines) /\ Past(S, st, q, lines, p)
  <2>1. LET all == Append(lines, q[p][1].line)
        IN  Rising(S, all) /\ Past(S, st, r, all, p)
    BY <1>2, <1>3, <1>4, <1>5, <1>7, <1>8, ArrivesLast
  <2> QED BY <1>7, <2>1
<1>12. InLine(S, st, r) /\ \A lines, k : Past(S, st, q, lines, k) => Past(S, st, r, lines, k)
  BY <1>2, <1>3, <1>4, <1>5, <1>7, <1>8, FrontTaken
<1>13. CASE \A x \in Plugins : pipe'[x] = IF x = p THEN Tail(pipe[p]) ELSE pipe[x]
  <2>1. \A x \in Places : s[x] = r[x]
    BY <1>3, <1>4, <1>5, <1>6, <1>13 DEF Taken
  <2>2. s = r
    BY <1>10, <2>1
  <2> QED BY <1>11, <1>12, <2>2 DEF st, q, s
<1>14. ASSUME NEW m, Head(m.to) \in Plugins, Instead(p, m), phase = "running",
              m.line \in S => m.line = First(p).line /\ Onward(st, p, Head(m.to))
       PROVE  /\ InLine(S, st, s)
              /\ \A lines : \A k \in Places : Past(S, st, q, lines, k) => Past(S, st, s, lines, k)
              /\ \A lines : Past(S, st, r, lines, p) => Past(S, st, s, lines, p)
  <2> DEFINE y == Head(m.to)
  <2>1. \A x \in Plugins :
          pipe'[x] = LET left == IF x = p THEN Tail(pipe[p]) ELSE pipe[x]
                     IN  IF x = y THEN Append(left, m) ELSE left
    BY <1>14 DEF Instead
  <2>2. Joined(r, y, m, s)
    BY <1>3, <1>4, <1>5, <1>6, <1>14, <2>1 DEF Joined, Taken
  <2>3. m \in MessageSet
    <3> DEFINE left == IF y = p THEN Tail(pipe[p]) ELSE pipe[y]
    <3>1. left \in Seq(MessageSet)
      <4>1. pipe[p] \in Seq(MessageSet) /\ pipe[y] \in Seq(MessageSet)
        BY <1>14 DEF TypeInv, GoodPipes
      <4>2. Tail(pipe[p]) \in Seq(MessageSet)
        BY <4>1, TailFacts
      <4> QED BY <4>1, <4>2
    <3>2. pipe'[y] = Append(left, m)
      BY <1>14, <2>1
    <3> HIDE DEF left
    <3> QED BY <1>14, <3>1, <3>2, SentType
  <2>4. y \in Places /\ m \in MessageSet \cup Signal
    BY <1>4, <1>14, <2>3
  <2>5. m.line \in S => m.line = q[p][1].line /\ Onward(st, p, y)
    BY <1>7, <1>14
  <2> HIDE DEF y
  <2> QED BY <1>2, <1>3, <1>4, <1>5, <1>7, <1>8, <2>2, <2>4, <2>5, MovesOn
<1>15. CASE phase = "running"
  <2>1. CASE \E m : /\ Head(m.to) \in Plugins /\ Instead(p, m) /\ SaysWell(S, m)
                    /\ m.line \in S => /\ m.line = First(p).line
                                       /\ Onward(StageOf(ui), p, Head(m.to))
    <3>1. /\ InLine(S, st, s)
          /\ \A lines : \A k \in Places : Past(S, st, q, lines, k) => Past(S, st, s, lines, k)
          /\ \A lines : Past(S, st, r, lines, p) => Past(S, st, s, lines, p)
      BY <1>14, <1>15, <2>1 DEF st
    <3> QED BY <1>11, <3>1 DEF st, q, s
  <2> QED BY <1>13, <2>1 DEF GoesOn
<1>16. CASE phase # "running"
  <2>1. \A x \in Plugins : pipe'[x] = IF x = p THEN Tail(pipe[p]) ELSE pipe[x]
    BY <1>16 DEF GoesOn, Instead
  <2> QED BY <1>13, <2>1
<1> QED BY <1>15, <1>16

-------------------------------------------------------------------------------
(* The order is kept                                                       *)

\* A plugin reads a message, and what has arrived with it is shown, or logged.
LEMMA PassOrdered ==
  ASSUME TypeInv, TypeInv', NEW S, Orderly(S), NEW p \in Plugins, pipe[p] # << >>,
         GoesOn(S, p), UNCHANGED <<ui, events>>,
         \/ shown' = shown
         \/ p = ShownAt(ui) /\ shown' = Append(shown, First(p).line),
         \/ log' = log
         \/ p = "logger" /\ log' = Append(log, First(p).line),
         \A d \in BagToSet(macros') : Harmless(d)
  PROVE  Orderly(S)'
<1> DEFINE st == StageOf(ui)
           q == QueueAt(pipe, events)
           s == QueueAt(pipe', events)
<1>1. ShownAt(ui) \in Places /\ "logger" \in Places
      /\ shown \in Seq(Nat) /\ log \in Seq(Nat)
  BY DEF ShownAt, Places, Plugins, TypeInv, LoggerType
<1>2. InLine(S, st, q) /\ Rising(S, shown) /\ Past(S, st, q, shown, ShownAt(ui))
      /\ Rising(S, log) /\ Past(S, st, q, log, "logger")
  BY DEF Orderly, Lined
<1>3. /\ InLine(S, st, s)
      /\ \A lines : \A k \in Places : Past(S, st, q, lines, k) => Past(S, st, s, lines, k)
      /\ \A lines \in Seq(Nat) :
           Rising(S, lines) /\ Past(S, st, q, lines, p) =>
             LET all == Append(lines, First(p).line)
             IN  Rising(S, all) /\ Past(S, st, s, all, p)
  BY <1>2, GoesOnInLine
<1>4. AllSayWell(S, pipe')
  BY GoesOnWell DEF Orderly
<1> HIDE DEF st, q, s
<1>5. Rising(S, shown') /\ Past(S, st, s, shown', ShownAt(ui))
  BY <1>1, <1>2, <1>3
<1>6. Rising(S, log') /\ Past(S, st, s, log', "logger")
  BY <1>1, <1>2, <1>3
<1>7. Lined(S, st, s, ui, shown', log')
  BY <1>3, <1>5, <1>6 DEF Lined
<1>8. OnlyDisplays(S, events)
  BY DEF Orderly
<1> QED BY <1>4, <1>7, <1>8 DEF Orderly, st, s

\* Nothing changes but what is not about the lines of S.
LEMMA OthersOrdered ==
  ASSUME NEW S, NEW pipes, NEW es,
         Lined(S, StageOf(ui), QueueAt(pipes, es), ui, shown, log),
         \A p \in Plugins : \A i \in 1..Len(pipe'[p]) :
           /\ SaysWell(S, pipe'[p][i])
           /\ pipe'[p][i].line \in S => i \in 1..Len(pipes[p]) /\ pipe'[p][i] = pipes[p][i],
         OnlyDisplays(S, es),
         \A i \in 1..Len(events') :
           events'[i].line \in S => i \in 1..Len(es) /\ events'[i] = es[i],
         UNCHANGED <<ui, log>>, shown' = shown \/ shown' = << >>,
         \A d \in BagToSet(macros') : Harmless(d)
  PROVE  Orderly(S)'
<1> DEFINE st == StageOf(ui)
           q == QueueAt(pipes, es)
           s == QueueAt(pipe', events')
<1>1. /\ InLine(S, st, q) /\ Rising(S, shown) /\ Past(S, st, q, shown, ShownAt(ui))
      /\ Rising(S, log) /\ Past(S, st, q, log, "logger")
  BY DEF Lined
<1>2. \A x \in Places : \A i \in 1..Len(s[x]) :
        s[x][i].line \in S => i \in 1..Len(q[x]) /\ s[x][i] = q[x][i]
  BY DEF QueueAt, Places
<1>3. /\ InLine(S, st, s)
      /\ \A lines, k : Past(S, st, q, lines, k) => Past(S, st, s, lines, k)
  <2> HIDE DEF q, s, st
  <2> QED BY <1>1, <1>2, OthersDoNotMatter
<1>4. Rising(S, shown') /\ Past(S, st, s, shown', ShownAt(ui))
  <2>1. CASE shown' = shown
    BY <1>1, <1>3, <2>1
  <2>2. CASE shown' = << >>
    <3>1. Len(shown') = 0
      BY <2>2
    <3> QED BY <3>1 DEF Rising, Past
  <2> QED BY <2>1, <2>2
<1>5. Lined(S, st, s, ui, shown', log)
  BY <1>1, <1>3, <1>4 DEF Lined
<1>6. AllSayWell(S, pipe')
  BY DEF AllSayWell
<1>7. OnlyDisplays(S, events')
  BY DEF OnlyDisplays
<1> QED BY <1>5, <1>6, <1>7 DEF Orderly

\* A message is taken away.
LEMMA RestOrdered ==
  ASSUME TypeInv, NEW S, Orderly(S), NEW p \in Plugins, pipe[p] # << >>
  PROVE  /\ Rest(p) \in [Plugins -> Seq(MessageSet)]
         /\ AllSayWell(S, Rest(p)) /\ OnlyDisplays(S, events)
         /\ Lined(S, StageOf(ui), QueueAt(Rest(p), events), ui, shown, log)
<1> DEFINE st == StageOf(ui)
           q == QueueAt(pipe, events)
           r == QueueAt(Rest(p), events)
<1>1. /\ ui \in UIs /\ pipe[p] \in Seq(MessageSet)
      /\ p \in Places /\ "window" \in Places /\ "window" \notin Plugins
      /\ \A x \in Places : x = "window" \/ x \in Plugins
  BY DEF TypeInv, GoodPipes, UIs, Places, Plugins
<1>2. st \in [Places -> Nat]
  BY <1>1, StagesAre
<1>3. Lines(q) /\ (\A x \in Plugins : q[x] = pipe[x]) /\ q["window"] = events
  BY QueuesAre
<1>4. /\ Rest(p) \in [Plugins -> Seq(MessageSet)]
      /\ \A x \in Plugins : Rest(p)[x] = IF x = p THEN Tail(pipe[p]) ELSE pipe[x]
  BY RestAt
<1>5. \A x \in Places : r[x] = IF x = "window" THEN events ELSE Rest(p)[x]
  BY DEF QueueAt
<1>6. /\ InLine(S, st, q) /\ Rising(S, shown) /\ Past(S, st, q, shown, ShownAt(ui))
      /\ Rising(S, log) /\ Past(S, st, q, log, "logger")
      /\ AllSayWell(S, pipe) /\ OnlyDisplays(S, events)
  BY DEF Orderly, Lined
<1> HIDE DEF q, r, st
<1>7. Taken(q, p, r)
  BY <1>1, <1>3, <1>4, <1>5 DEF Taken
<1>8. q[p] # << >>
  BY <1>3
<1>9. InLine(S, st, r) /\ \A lines, k : Past(S, st, q, lines, k) => Past(S, st, r, lines, k)
  BY <1>1, <1>2, <1>3, <1>6, <1>7, <1>8, FrontTaken
<1>10. AllSayWell(S, Rest(p))
  <2>1. \A k \in 1..Len(Tail(pipe[p])) : Tail(pipe[p])[k] = pipe[p][k + 1] /\ k + 1 \in 1..Len(pipe[p])
    BY <1>1, TailFacts
  <2>2. \A k \in 1..Len(Tail(pipe[p])) : SaysWell(S, Tail(pipe[p])[k])
    BY <1>6, <2>1 DEF AllSayWell
  <2> QED BY <1>4, <1>6, <2>2 DEF AllSayWell
<1>11. Lined(S, st, r, ui, shown, log)
  BY <1>6, <1>9 DEF Lined
<1> QED BY <1>4, <1>6, <1>10, <1>11 DEF st, r

\* Everybody is told to stop.
LEMMA ShutdownOrdered ==
  ASSUME NEW S, 0 \notin S, NEW pipes \in [Plugins -> Seq(MessageSet)],
         AllSayWell(S, pipes), OnlyDisplays(S, events),
         Lined(S, StageOf(ui), QueueAt(pipes, events), ui, shown, log),
         InitiateShutdown(pipes), UNCHANGED <<ui, events, shown, log>>,
         \A d \in BagToSet(macros') : Harmless(d)
  PROVE  Orderly(S)'
<1> DEFINE m == About("shutdown", 0, Blank)
<1>1. m.kind = "shutdown" /\ m.line = 0
  BY AboutFields DEF About
<1> HIDE DEF m
<1>2. SaysWell(S, m)
  BY <1>1 DEF SaysWell
<1>3. ASSUME NEW p \in Plugins, NEW i \in 1..Len(pipe'[p])
      PROVE  /\ SaysWell(S, pipe'[p][i])
             /\ pipe'[p][i].line \in S => i \in 1..Len(pipes[p]) /\ pipe'[p][i] = pipes[p][i]
  <2>1. CASE pipe' = pipes
    BY <1>3, <2>1 DEF AllSayWell
  <2>2. CASE pipe'[p] = Append(pipes[p], m)
    <3>1. pipes[p] \in Seq(MessageSet \cup {m}) /\ m \in MessageSet \cup {m}
      BY SeqOfMore
    <3>2. /\ Len(Append(pipes[p], m)) = Len(pipes[p]) + 1 /\ Len(pipes[p]) \in Nat
          /\ \A k \in 1..Len(pipes[p]) : Append(pipes[p], m)[k] = pipes[p][k]
          /\ Append(pipes[p], m)[Len(pipes[p]) + 1] = m
          /\ \A k \in 1..(Len(pipes[p]) + 1) : k \in 1..Len(pipes[p]) \/ k = Len(pipes[p]) + 1
      BY <3>1, AppendFacts
    <3>3. CASE i \in 1..Len(pipes[p])
      BY <2>2, <3>2, <3>3 DEF AllSayWell
    <3>4. CASE i = Len(pipes[p]) + 1
      BY <1>1, <1>2, <2>2, <3>2, <3>4
    <3> QED BY <1>3, <2>2, <3>2, <3>3, <3>4
  <2>3. pipe' = pipes \/ pipe'[p] = Append(pipes[p], m)
    BY DEF InitiateShutdown, m
  <2> QED BY <2>1, <2>2, <2>3
<1> QED BY <1>3, OthersOrdered

LEMMA RangeOfConcat ==
  ASSUME NEW E, NEW a \in Seq(E), NEW b \in Seq(E)
  PROVE  Range(a \o b) = Range(a) \cup Range(b)
<1>1. /\ a \o b \in Seq(E) /\ Len(a \o b) = Len(a) + Len(b) /\ Len(a) \in Nat /\ Len(b) \in Nat
      /\ \A i \in 1..Len(a) : (a \o b)[i] = a[i]
      /\ \A i \in 1..Len(b) : (a \o b)[Len(a) + i] = b[i]
  BY ConcatProperties
<1>2. /\ DOMAIN (a \o b) = 1..(Len(a) + Len(b))
      /\ DOMAIN a = 1..Len(a) /\ DOMAIN b = 1..Len(b)
  BY <1>1
<1>3. ASSUME NEW i \in 1..(Len(a) + Len(b))
      PROVE  (a \o b)[i] \in Range(a) \cup Range(b)
  <2>1. CASE i <= Len(a)
    BY <1>1, <1>2, <2>1 DEF Range
  <2>2. CASE ~(i <= Len(a))
    <3>1. i - Len(a) \in 1..Len(b) /\ i = Len(a) + (i - Len(a))
      BY <1>1, <2>2
    <3> QED BY <1>1, <1>2, <3>1 DEF Range
  <2> QED BY <2>1, <2>2
<1>4. \A i \in 1..Len(a) : i \in 1..(Len(a) + Len(b)) /\ a[i] = (a \o b)[i]
  BY <1>1
<1>5. \A i \in 1..Len(b) : Len(a) + i \in 1..(Len(a) + Len(b)) /\ b[i] = (a \o b)[Len(a) + i]
  BY <1>1
<1> QED BY <1>2, <1>3, <1>4, <1>5 DEF Range

\* What the meatgrinder sends in answer to a line says well what it says.
LEMMA AnswerSays ==
  ASSUME TypeInv, NEW S, NEW kind \in GrinderKinds \ {"raw_edict", "register_replacer"},
         Edict.line \in S => kind = "edict", NEW chan, Answer(kind, chan)
  PROVE  /\ phase' = phase
         /\ \E m : /\ pipe' = Put(Rest("meatgrinder"), m) /\ SaysWell(S, m)
                   /\ Head(m.to) \in Plugins
                   /\ m.line \in S => m.line = Edict.line /\ Head(m.to) = "antenna"
<1> DEFINE m == About(kind, Edict.line, chan)
<1>1. ui \in {"console", "qt", "qtFirst"}
  BY DEF TypeInv
<1>2. Head(m.to) \in Plugins /\ m.kind = kind /\ m.line = Edict.line
  BY <1>1, MessageHead DEF About, GrinderKinds
<1>3. phase' = phase /\ pipe' = Put(Rest("meatgrinder"), m)
  BY DEF Answer, Write
<1>4. kind = "edict" => Head(m.to) = "antenna"
  <2>1. m.to = Route(kind)
    BY AboutFields DEF About
  <2>2. Route("edict") = <<"antenna">>
    BY DEF Route
  <2> QED BY <2>1, <2>2, Stages
<1> HIDE DEF m
<1>5. SaysWell(S, m)
  BY <1>2 DEF SaysWell
<1> QED BY <1>2, <1>3, <1>4, <1>5

\* What a line says, if plain words are not rewritten.
LEMMA EdictSays ==
  ASSUME TypeInv, Plain(typed), NEW S, AllSayWell(S, pipe), Grinds("raw_edict")
  PROVE  /\ Edict \in MessageSet /\ Edict.cmd # "/replace" /\ "" \notin Range(Edict.args)
         /\ Edict.line \in S => Edict.cmd = ""
<1>1. /\ Reads("meatgrinder", "raw_edict") /\ "meatgrinder" \in Plugins /\ "raw_edict" \in Kinds
  BY DEF Grinds, Plugins, Kinds
<1>2. SaysWell(S, Edict) /\ Edict.kind = "raw_edict"
  <2>1. First("meatgrinder") = pipe["meatgrinder"][1] /\ 1 \in 1..Len(pipe["meatgrinder"])
        /\ First("meatgrinder").kind = "raw_edict"
    BY <1>1, ReadsGood
  <2> QED BY <1>1, <2>1 DEF AllSayWell, Edict
<1>3. Edict \in MessageSet /\ Edict.line \in 1..Len(typed)
      /\ (Edict.cmd = typed[Edict.line].cmd \/ Spoken(typed, Edict.cmd))
  BY <1>1, EdictFacts
<1>4. ~Spoken(typed, "/replace")
  BY DEF Spoken, Heard, Plain, Mentioned
<1>5. \A n \in 1..Len(typed) : typed[n].cmd # "/replace"
  BY DEF Plain
<1> QED BY <1>2, <1>3, <1>4, <1>5 DEF SaysWell

\* A line of S is dropped, or becomes an edict.
LEMMA GrinderSays ==
  ASSUME TypeInv, Plain(typed), NEW S, AllSayWell(S, pipe),
         \A d \in BagToSet(macros) : Harmless(d), MeatgrinderStep
  PROVE  /\ \A d \in BagToSet(macros') : Harmless(d)
         /\ \/ Crash
            \/ HandleQuit
            \/ phase' = phase /\ pipe' = Rest("meatgrinder")
            \/ /\ phase' = phase
               /\ \E m : /\ pipe' = Put(Rest("meatgrinder"), m) /\ SaysWell(S, m)
                         /\ Head(m.to) \in Plugins
                         /\ m.line \in S => m.line = Edict.line /\ Head(m.to) = "antenna"
<1> DEFINE Sent == /\ phase' = phase
                   /\ \E m : /\ pipe' = Put(Rest("meatgrinder"), m) /\ SaysWell(S, m)
                             /\ Head(m.to) \in Plugins
                             /\ m.line \in S => m.line = Edict.line /\ Head(m.to) = "antenna"
           Dropped == phase' = phase /\ pipe' = Rest("meatgrinder")
           Kept == macros' = macros
<1>1. ui \in {"console", "qt", "qtFirst"}
  BY DEF TypeInv
<1>2. ASSUME NEW kind \in GrinderKinds \ {"raw_edict", "register_replacer"}, NEW chan,
             Edict.line \in S => kind = "edict", Answer(kind, chan)
      PROVE  Sent /\ Kept
  <2>1. Sent
    BY <1>2, AnswerSays
  <2> QED BY <1>2, <2>1 DEF Answer
<1>3. {"notify", "edict", "set_channel", "leave_channel", "only", "display_commands"}
        \subseteq GrinderKinds \ {"raw_edict", "register_replacer"}
  BY DEF GrinderKinds
<1>4. ASSUME NEW cmd \in {"ADD", "REMOVE"}, NEW args, cmd = "ADD" => "" \notin Range(args),
             Edict.line \notin S, Register(Line(cmd, args))
      PROVE  Sent /\ Kept
  <2> DEFINE m == Message("register_replacer", Edict.line, Line(cmd, args), Edict.channel)
  <2>1. Head(m.to) \in Plugins /\ m.kind = "register_replacer" /\ m.line = Edict.line
    BY <1>1, MessageHead
  <2>2. m.cmd = cmd /\ m.args = args
    BY AboutFields DEF Line
  <2>3. phase' = phase /\ macros' = macros /\ pipe' = Put(Rest("meatgrinder"), m)
    BY <1>4 DEF Register
  <2> HIDE DEF m
  <2>4. SaysWell(S, m)
    BY <1>4, <2>1, <2>2 DEF SaysWell
  <2> QED BY <1>4, <2>1, <2>3, <2>4
<1>5. ASSUME Rewrite
      PROVE  Sent /\ Kept
  <2>1. PICK m \in Rewritten(macros, Edict) : pipe' = Put(Rest("meatgrinder"), m)
    BY <1>5 DEF Rewrite, Write
  <2>2. PICK d \in Macros(macros, Edict.cmd) : m = [Edict EXCEPT !.cmd = d.to, !.args = d.args \o @]
    BY <2>1 DEF Rewritten
  <2>3. Edict \in MessageSet /\ Edict.kind = "raw_edict" /\ Edict.to = <<"meatgrinder">>
    BY <1>5, EdictFacts DEF Rewrite, Grinds
  <2>4. m.kind = "raw_edict" /\ m.line = Edict.line /\ m.to = <<"meatgrinder">>
        /\ m.args = d.args \o Edict.args
    BY <2>2, <2>3 DEF MessageSet
  <2>5. Head(m.to) \in Plugins
    BY <2>4 DEF Plugins
  <2>6. phase' = phase /\ macros' = macros
    BY <1>5 DEF Rewrite
  <2>7. d \in BagToSet(macros) /\ d.command = Edict.cmd
    BY <2>2 DEF Macros
  <2>8. /\ Edict.cmd # "/replace" /\ "" \notin Range(Edict.args)
        /\ Edict.line \in S => Edict.cmd = ""
    BY <1>5, EdictSays DEF Rewrite
  <2>9. Edict.line \notin S /\ "" \notin Range(d.args)
    BY <2>7, <2>8 DEF Harmless
  <2>10. "" \notin Range(m.args)
    <3>1. d.args \in Seq(Channels) /\ Edict.args \in Seq(Channels)
      <4>1. GoodMacro(typed, d)
        BY <2>7 DEF TypeInv
      <4> QED BY <2>3, <4>1, FieldTypes DEF GoodMacro
    <3>2. Range(d.args \o Edict.args) = Range(d.args) \cup Range(Edict.args)
      BY <3>1, RangeOfConcat
    <3> QED BY <2>4, <2>8, <2>9, <3>2
  <2>11. SaysWell(S, m)
    BY <2>4, <2>9, <2>10 DEF SaysWell
  <2> QED BY <2>1, <2>4, <2>5, <2>6, <2>9, <2>11
<1>6. ASSUME Grinds("raw_edict")
      PROVE  /\ "" \notin Range(Edict.args)
             /\ Edict.line \in S => Edict.cmd = ""
  BY <1>6, EdictSays
<1>7. ASSUME Undefined
      PROVE  (Crash \/ Dropped) /\ Kept
  BY <1>7 DEF Undefined, Swallow
<1> HIDE DEF Sent
<1>8. CASE DropEmpty
  BY <1>8 DEF DropEmpty, Swallow
<1>9. CASE Rewrite
  BY <1>5, <1>9 DEF Sent
<1>10. CASE Complain
  <2>1. Edict.line \notin S
    BY <1>6, <1>10 DEF Complain, Known, Handlers
  <2> QED BY <1>2, <1>3, <1>10, <2>1 DEF Complain, Sent
<1>11. CASE HandleNormal
  BY <1>2, <1>3, <1>11 DEF HandleNormal, Sent
<1>12. CASE HandleMe
  <2>1. (Sent \/ Dropped) /\ Kept
    BY <1>2, <1>3, <1>12 DEF HandleMe, Swallow
  <2> QED BY <2>1 DEF Sent
<1>13. CASE HandleQuit
  BY <1>13 DEF HandleQuit
<1>14. CASE HandleChannelChange \/ HandleChannelLeave \/ HandleOnly \/ HandleCommands
  <2>1. Edict.line \notin S
    BY <1>6, <1>14 DEF HandleChannelChange, HandleChannelLeave, HandleOnly, HandleCommands, Handles
  <2>2. Sent /\ Kept
    BY <1>2, <1>3, <1>14, <2>1 DEF HandleChannelChange, HandleChannelLeave, HandleOnly, HandleCommands
  <2> QED BY <2>2 DEF Sent
<1>15. CASE HandleUserCommand
  <2>1. Edict.line \notin S /\ "" \notin Range(Edict.args)
    BY <1>6, <1>15 DEF HandleUserCommand, Handles
  <2>2. (Sent \/ Dropped \/ Crash) /\ Kept
    BY <1>4, <1>7, <1>15, <2>1 DEF HandleUserCommand, Swallow
  <2> QED BY <2>2 DEF Sent
<1>16. CASE HandleEraseCommand
  <2>1. Edict.line \notin S
    BY <1>6, <1>16 DEF HandleEraseCommand, Handles
  <2>2. (Sent \/ Dropped \/ Crash) /\ Kept
    BY <1>4, <1>7, <1>16, <2>1 DEF HandleEraseCommand, Swallow
  <2> QED BY <2>2 DEF Sent
<1>17. CASE Define
  <2> DEFINE h == First("meatgrinder")
  <2>1. /\ Reads("meatgrinder", "register_replacer") /\ "meatgrinder" \in Plugins
        /\ "register_replacer" \in Kinds
    BY <1>17 DEF Define, Grinds, Plugins, Kinds
  <2>2. /\ Good(ui, typed, session, "meatgrinder", h) /\ h.kind = "register_replacer"
        /\ h = pipe["meatgrinder"][1] /\ 1 \in 1..Len(pipe["meatgrinder"])
    BY <2>1, ReadsGood
  <2>3. h.cmd = "ADD" /\ SaysWell(S, h)
    BY <1>17, <2>1, <2>2 DEF Define, AllSayWell
  <2>4. h.args \in Seq(Channels) /\ Len(h.args) > 2 /\ "" \notin Range(h.args)
    BY <2>2, <2>3, FieldTypes DEF Good, Worded, SaysWell
  <2>5. h.args[1] # ""
    <3>1. \A a \in Seq(Channels) : Len(a) > 2 => 1 \in DOMAIN a
      OBVIOUS
    <3>2. h.args[1] \in Range(h.args)
      BY <2>4, <3>1 DEF Range
    <3> QED BY <2>4, <3>2
  <2>6. Definition.command = h.args[1] /\ Definition.args = << >>
    BY DEF Definition, Macro
  <2> HIDE DEF h
  <2>7. Harmless(Definition)
    <3>1. Range(<< >>) = {}
      BY DEF Range
    <3> QED BY <2>5, <2>6, <3>1 DEF Harmless
  <2>8. BagToSet(macros') = BagToSet(macros) \cup {Definition}
    BY <1>17, WithAdds DEF Define
  <2> QED BY <1>17, <2>7, <2>8 DEF Define, Swallow
<1>18. CASE Erase
  <2>1. Crash \/ Dropped
    BY <1>7, <1>18 DEF Erase, Swallow
  <2>2. BagToSet(macros') \subseteq BagToSet(macros)
    BY <1>7, <1>18, WithoutKeeps DEF Erase
  <2> QED BY <2>1, <2>2
<1>19. CASE DisplayCommands
  <2>1. Edict.line \notin S
    <3>1. /\ Reads("meatgrinder", "display_commands") /\ "meatgrinder" \in Plugins
          /\ "display_commands" \in Kinds
      BY <1>19 DEF DisplayCommands, Grinds, Plugins, Kinds
    <3>2. /\ First("meatgrinder") = pipe["meatgrinder"][1] /\ 1 \in 1..Len(pipe["meatgrinder"])
          /\ First("meatgrinder").kind = "display_commands"
      BY <3>1, ReadsGood
    <3> QED BY <3>1, <3>2 DEF AllSayWell, SaysWell, Edict
  <2> QED BY <1>2, <1>3, <1>19, <2>1 DEF DisplayCommands, Sent
<1> QED BY <1>8, <1>9, <1>10, <1>11, <1>12, <1>13, <1>14, <1>15, <1>16, <1>17, <1>18, <1>19
        DEF MeatgrinderStep

LEMMA EchoSays ==
  ASSUME TypeInv, NEW S, AllSayWell(S, pipe), NEW p \in Plugins, pipe[p] # << >>,
         First(p).kind \notin {"shutdown", "raw_edict", "register_replacer"},
         LET left == Tail(Way(ui, p, First(p).kind))
         IN  First(p).line \in S /\ left # << >> => Onward(StageOf(ui), p, Head(left)),
         pipe' = Echo(Rest(p), First(p))
  PROVE  GoesOn(S, p)
<1> DEFINE left == Tail(Way(ui, p, First(p).kind))
           h == First(p)
<1>1. SaysWell(S, h)
  <2>1. GoodPipes(ui, typed, session, pipe)
    BY DEF TypeInv
  <2>2. h = pipe[p][1] /\ 1 \in 1..Len(pipe[p])
    BY <2>1, ReadGood DEF First
  <2> QED BY <2>2 DEF AllSayWell
<1>2. \/ \A q \in Plugins : pipe'[q] = IF q = p THEN Tail(pipe[p]) ELSE pipe[q]
      \/ /\ left # << >>
         /\ \E m : /\ m.kind = h.kind /\ m.line = h.line /\ m.channel = h.channel
                   /\ m.to = left /\ Head(m.to) \in Plugins /\ Instead(p, m)
  BY EchoAt
<1> HIDE DEF left, h
<1>3. ASSUME NEW m, left # << >>, m.kind = h.kind, m.line = h.line, m.to = left,
             Head(m.to) \in Plugins, Instead(p, m)
      PROVE  GoesOn(S, p)
  <2>1. SaysWell(S, m)
    <3>1. h.kind \notin {"raw_edict", "register_replacer"}
      BY DEF h
    <3> QED BY <1>1, <1>3, <3>1 DEF SaysWell
  <2>2. m.line \in S => m.line = First(p).line /\ Onward(StageOf(ui), p, Head(m.to))
    BY <1>3 DEF left, h
  <2> QED BY <1>3, <2>1, <2>2 DEF GoesOn
<1> QED BY <1>2, <1>3 DEF GoesOn

LEMMA SendSays ==
  ASSUME TypeInv, NEW S, NEW p \in Plugins, pipe[p] # << >>, NEW m, SaysWell(S, m),
         Head(m.to) \in Plugins,
         m.line \in S => m.line = First(p).line /\ Onward(StageOf(ui), p, Head(m.to)),
         pipe' = Put(Rest(p), m)
  PROVE  GoesOn(S, p)
<1>1. Instead(p, m)
  BY WriteInstead
<1> QED BY <1>1 DEF GoesOn

LEMMA DropSays ==
  ASSUME TypeInv, NEW S, NEW p \in Plugins, pipe[p] # << >>, pipe' = Rest(p)
  PROVE  GoesOn(S, p)
<1>1. \A q \in Plugins : Rest(p)[q] = IF q = p THEN Tail(pipe[p]) ELSE pipe[q]
  BY RestAt
<1> QED BY <1>1 DEF GoesOn

LEMMA CrashOrdered ==
  ASSUME NEW S, Orderly(S), Crash, UNCHANGED <<ui, events, shown, log>>,
         \A d \in BagToSet(macros') : Harmless(d)
  PROVE  Orderly(S)'
<1>1. \A p \in Plugins : Len(pipe'[p]) = 0
  BY DEF Crash
<1>2. OnlyDisplays(S, events) /\ Lined(S, StageOf(ui), QueueAt(pipe, events), ui, shown, log)
  BY DEF Orderly
<1> QED BY <1>1, <1>2, OthersOrdered

LEMMA GrinderOrdered ==
  ASSUME TypeInv, TypeInv', NEW S, 0 \notin S, Orderly(S), Plain(typed), MeatgrinderStep
  PROVE  Orderly(S)'
<1>1. UNCHANGED <<ui, events, shown, log>>
  BY DEF MeatgrinderStep, loggerVars, qtVars
<1>2. pipe["meatgrinder"] # << >> /\ "meatgrinder" \in Plugins /\ ui \in UIs
  BY GrinderShape DEF Plugins, UIs, TypeInv
<1>3. (\A d \in BagToSet(macros) : Harmless(d)) /\ AllSayWell(S, pipe)
  BY DEF Orderly
<1>4. \A d \in BagToSet(macros') : Harmless(d)
  BY <1>3, GrinderSays
<1>5. CASE Crash
  BY <1>1, <1>4, <1>5, CrashOrdered
<1>6. CASE HandleQuit
  <2>1. InitiateShutdown(Rest("meatgrinder"))
    BY <1>6 DEF HandleQuit
  <2>2. /\ Rest("meatgrinder") \in [Plugins -> Seq(MessageSet)]
        /\ AllSayWell(S, Rest("meatgrinder")) /\ OnlyDisplays(S, events)
        /\ Lined(S, StageOf(ui), QueueAt(Rest("meatgrinder"), events), ui, shown, log)
    BY <1>2, RestOrdered
  <2> QED BY <1>1, <1>4, <2>1, <2>2, ShutdownOrdered
<1>7. CASE pipe' = Rest("meatgrinder")
  <2>1. GoesOn(S, "meatgrinder")
    BY <1>2, <1>7, DropSays
  <2> QED BY <1>1, <1>2, <1>4, <2>1, PassOrdered
<1>8. ASSUME NEW m, pipe' = Put(Rest("meatgrinder"), m), SaysWell(S, m), Head(m.to) \in Plugins,
             m.line \in S => m.line = Edict.line /\ Head(m.to) = "antenna"
      PROVE  Orderly(S)'
  <2>1. Onward(StageOf(ui), "meatgrinder", "antenna")
    BY <1>2, StagesAre
  <2>2. GoesOn(S, "meatgrinder")
    BY <1>2, <1>8, <2>1, SendSays DEF Edict
  <2> QED BY <1>1, <1>2, <1>4, <2>2, PassOrdered
<1> QED BY <1>3, <1>5, <1>6, <1>7, <1>8, GrinderSays

LEMMA AntennaOrdered ==
  ASSUME TypeInv, TypeInv', NEW S, Orderly(S), AntennaStep
  PROVE  Orderly(S)'
<1>1. UNCHANGED <<ui, macros, events, shown, log>>
  BY DEF AntennaStep, loggerVars, qtVars
<1>2. /\ pipe["antenna"] # << >> /\ "antenna" \in Plugins /\ ui \in UIs
      /\ ui \in {"console", "qt", "qtFirst"}
  BY DEF AntennaStep, SendEdict, SendJoin, SendLeft, Reads, Plugins, UIs, TypeInv
<1>3. (\A d \in BagToSet(macros) : Harmless(d)) /\ AllSayWell(S, pipe)
  BY DEF Orderly
<1>4. CASE SendEdict
  <2> DEFINE m == About("received", First("antenna").line, First("antenna").channel)
  <2>1. pipe' = Put(Rest("antenna"), m)
    BY <1>4 DEF SendEdict, Write
  <2>2. m.kind = "received" /\ m.line = First("antenna").line /\ m.to = Route("received")
    BY AboutFields DEF About
  <2>3. Head(m.to) = "masseuse"
    BY <2>2, Stages DEF Route
  <2> HIDE DEF m
  <2>4. SaysWell(S, m)
    BY <2>2 DEF SaysWell
  <2>5. Onward(StageOf(ui), "antenna", "masseuse") /\ "masseuse" \in Plugins
    BY <1>2, StagesAre DEF Plugins
  <2>6. GoesOn(S, "antenna")
    BY <1>2, <2>1, <2>2, <2>3, <2>4, <2>5, SendSays
  <2> QED BY <1>1, <1>2, <1>3, <2>6, PassOrdered
<1>5. CASE SendJoin \/ SendLeft
  <2> DEFINE h == First("antenna")
  <2>1. pipe' = Echo(Rest("antenna"), h) /\ h.kind \in {"set_channel", "leave_channel"}
    BY <1>5 DEF SendJoin, SendLeft, Reads
  <2>2. h.line \notin S
    <3>1. GoodPipes(ui, typed, session, pipe)
      BY DEF TypeInv
    <3>2. h = pipe["antenna"][1] /\ 1 \in 1..Len(pipe["antenna"])
      BY <1>2, <3>1, ReadGood DEF First
    <3>3. SaysWell(S, h)
      BY <1>2, <1>3, <3>2 DEF AllSayWell
    <3> QED BY <2>1, <3>3 DEF SaysWell
  <2>3. GoesOn(S, "antenna")
    BY <1>2, <1>3, <2>1, <2>2, EchoSays
  <2> QED BY <1>1, <1>2, <1>3, <2>3, PassOrdered
<1> QED BY <1>4, <1>5 DEF AntennaStep

LEMMA MasseuseOrdered ==
  ASSUME TypeInv, TypeInv', NEW S, Orderly(S), MasseuseStep
  PROVE  Orderly(S)'
<1>1. UNCHANGED <<ui, macros, events, shown, log>>
  BY DEF MasseuseStep, loggerVars, qtVars
<1> DEFINE m == About("display", First("masseuse").line, First("masseuse").channel)
<1>2. /\ pipe["masseuse"] # << >> /\ "masseuse" \in Plugins /\ ui \in UIs
      /\ pipe' = Put(Rest("masseuse"), m)
  BY DEF MasseuseStep, Translate, Reads, Write, Plugins, UIs, TypeInv
<1>3. \A d \in BagToSet(macros) : Harmless(d)
  BY DEF Orderly
<1>4. m.kind = "display" /\ m.line = First("masseuse").line /\ m.to = Route("display")
  BY AboutFields DEF About
<1> HIDE DEF m
<1>5. Head(m.to) = IF ui = "qtFirst" THEN "ui" ELSE "logger"
  <2>1. Route("display") = IF ui = "qtFirst" THEN <<"ui", "logger">> ELSE <<"logger", "ui">>
    BY DEF Route
  <2> QED BY <1>4, <2>1, Stages
<1>6. Onward(StageOf(ui), "masseuse", Head(m.to)) /\ Head(m.to) \in Plugins
  BY <1>2, <1>5, StagesAre DEF Plugins
<1>7. SaysWell(S, m)
  BY <1>4 DEF SaysWell
<1>8. GoesOn(S, "masseuse")
  BY <1>2, <1>4, <1>6, <1>7, SendSays
<1> QED BY <1>1, <1>2, <1>3, <1>8, PassOrdered

LEMMA LoggerOrdered ==
  ASSUME TypeInv, TypeInv', NEW S, Orderly(S), LoggerStep
  PROVE  Orderly(S)'
<1>1. UNCHANGED <<ui, macros, events, shown>>
  BY DEF LoggerStep, qtVars
<1>2. pipe["logger"] # << >> /\ "logger" \in Plugins /\ ui \in UIs
  BY DEF LoggerStep, LogDisplay, SetMode, Reads, Plugins, UIs, TypeInv
<1>3. (\A d \in BagToSet(macros) : Harmless(d)) /\ AllSayWell(S, pipe)
  BY DEF Orderly
<1>4. CASE LogDisplay
  <2>1. /\ pipe' = Echo(Rest("logger"), First("logger")) /\ First("logger").kind = "display"
        /\ log' = log \/ log' = Append(log, First("logger").line)
    BY <1>4 DEF LogDisplay, Reads
  <2>2. LET left == Tail(Way(ui, "logger", "display"))
        IN  left # << >> => Onward(StageOf(ui), "logger", Head(left))
    <3>1. CASE ui = "qtFirst"
      <4>1. Way(ui, "logger", "display") = <<"logger">>
        BY <3>1 DEF Way
      <4> QED BY <4>1, Stages
    <3>2. CASE ui # "qtFirst"
      <4>1. Way(ui, "logger", "display") = <<"logger", "ui">>
        BY <3>2 DEF Way
      <4>2. Head(Tail(Way(ui, "logger", "display"))) = "ui"
        BY <4>1, Stages
      <4> QED BY <1>2, <3>2, <4>2, StagesAre
    <3> QED BY <3>1, <3>2
  <2>3. GoesOn(S, "logger")
    BY <1>2, <1>3, <2>1, <2>2, EchoSays
  <2> QED BY <1>1, <1>2, <1>3, <2>1, <2>3, PassOrdered
<1>5. CASE SetMode
  <2>1. pipe' = Rest("logger") /\ log' = log
    BY <1>5 DEF SetMode, Swallow
  <2>2. GoesOn(S, "logger")
    BY <1>2, <2>1, DropSays
  <2> QED BY <1>1, <1>2, <1>3, <2>1, <2>2, PassOrdered
<1> QED BY <1>4, <1>5 DEF LoggerStep

LEMMA ConsoleOrdered ==
  ASSUME TypeInv, TypeInv', NEW S, Orderly(S), ConsoleStep
  PROVE  Orderly(S)'
<1>1. UNCHANGED <<ui, macros, events, log>> /\ ui = "console"
  BY DEF ConsoleStep, qtVars, loggerVars
<1>2. /\ pipe["ui"] # << >> /\ "ui" \in Plugins /\ ui \in UIs
      /\ ui \in {"console", "qt", "qtFirst"} /\ ShownAt(ui) = "ui"
  BY <1>1 DEF ConsoleStep, PrintLine, TellChannel, ShowOnly, Reads, Plugins, UIs, ShownAt
<1>3. (\A d \in BagToSet(macros) : Harmless(d)) /\ AllSayWell(S, pipe)
  BY DEF Orderly
<1>4. CASE PrintLine
  <2>1. /\ pipe' = Echo(Rest("ui"), First("ui")) /\ First("ui").kind = "display"
        /\ shown' = shown \/ shown' = Append(shown, First("ui").line)
    BY <1>4 DEF PrintLine, Reading, Reads
  <2>2. Tail(Way(ui, "ui", "display")) = << >>
    <3>1. Way(ui, "ui", "display") = <<"ui">>
      BY <1>1 DEF Way
    <3> QED BY <3>1, Stages
  <2>3. GoesOn(S, "ui")
    BY <1>2, <1>3, <2>1, <2>2, EchoSays
  <2> QED BY <1>1, <1>2, <1>3, <2>1, <2>3, PassOrdered
<1>5. CASE TellChannel
  <2> DEFINE m == About("notify", First("ui").line, Blank)
  <2>1. shown' = shown /\ (pipe' = Rest("ui") \/ pipe' = Put(Rest("ui"), m))
        /\ First("ui").kind = "set_channel"
    BY <1>5 DEF TellChannel, Write, Swallow, Reading, Reads
  <2>2. Head(m.to) \in Plugins /\ m.kind = "notify" /\ m.line = First("ui").line
    BY <1>2, MessageHead DEF About
  <2> HIDE DEF m
  <2>3. m.line \notin S
    <3>1. GoodPipes(ui, typed, session, pipe)
      BY DEF TypeInv
    <3>2. First("ui") = pipe["ui"][1] /\ 1 \in 1..Len(pipe["ui"])
      BY <1>2, <3>1, ReadGood DEF First
    <3>3. SaysWell(S, First("ui"))
      BY <1>2, <1>3, <3>2 DEF AllSayWell
    <3> QED BY <2>1, <2>2, <3>3 DEF SaysWell
  <2>4. SaysWell(S, m)
    BY <2>2, <2>3 DEF SaysWell
  <2>5. GoesOn(S, "ui")
    BY <1>2, <2>1, <2>2, <2>3, <2>4, SendSays, DropSays
  <2> QED BY <1>1, <1>2, <1>3, <2>1, <2>5, PassOrdered
<1>6. CASE ShowOnly
  <2>1. shown' = shown /\ pipe' = Rest("ui")
    BY <1>6 DEF ShowOnly, Swallow
  <2>2. GoesOn(S, "ui")
    BY <1>2, <2>1, DropSays
  <2> QED BY <1>1, <1>2, <1>3, <2>1, <2>2, PassOrdered
<1> QED BY <1>4, <1>5, <1>6 DEF ConsoleStep

\* What the window gets: a display only of a line of S.
LEMMA EmitOrdered ==
  ASSUME TypeInv, TypeInv', NEW S, Orderly(S), Qt, Emit
  PROVE  Orderly(S)'
<1> DEFINE st == StageOf(ui)
           h == First("ui")
           e == [kind |-> h.kind, line |-> h.line, channel |-> h.channel]
           q == QueueAt(pipe, events)
           r == [x \in Places |-> IF x = "ui" THEN Tail(q["ui"]) ELSE q[x]]
           s == QueueAt(pipe', events)
           w == QueueAt(pipe', events')
           left == Tail(Way(ui, "ui", h.kind))
<1>1. /\ UNCHANGED <<ui, macros, shown, log, phase>> /\ pipe["ui"] # << >>
      /\ h.kind \in {"display", "set_channel", "leave_channel"}
      /\ pipe' = Echo(Rest("ui"), h) /\ events' = Append(events, e)
  BY DEF Emit, Reads, Reading, loggerVars
<1>2. ui \in UIs /\ ui # "console" /\ phase \in {"running", "stopping"}
  BY DEF TypeInv, UIs, Qt, Emit, Reads
<1>3. st \in [Places -> Nat] /\ Onward(st, "ui", "window")
  BY <1>2, StagesAre
<1>4. Lines(q) /\ (\A x \in Plugins : q[x] = pipe[x]) /\ q["window"] = events
  BY QueuesAre
<1>5. /\ "ui" \in Plugins /\ "logger" \in Plugins /\ "window" \in Places /\ "window" \notin Plugins
      /\ Plugins \subseteq Places /\ \A x \in Places : x = "window" \/ x \in Plugins
  BY DEF Places, Plugins
<1>6. e \in Signal
  BY <1>1, EmitGood DEF Emit, Reading
<1>7. Taken(q, "ui", r) /\ s["window"] = events /\ w["window"] = events'
      /\ (\A x \in Plugins : s[x] = pipe'[x] /\ w[x] = pipe'[x])
  BY <1>5 DEF Taken, QueueAt
<1>8. Joined(s, "window", e, w)
  BY <1>1, <1>5, <1>7 DEF Joined
<1>9. /\ InLine(S, st, q) /\ Rising(S, shown) /\ Past(S, st, q, shown, ShownAt(ui))
      /\ Rising(S, log) /\ Past(S, st, q, log, "logger")
      /\ AllSayWell(S, pipe) /\ OnlyDisplays(S, events)
      /\ \A d \in BagToSet(macros) : Harmless(d)
  BY DEF Orderly, Lined
<1>10. GoodPipes(ui, typed, session, pipe) /\ pipe["ui"] \in Seq(MessageSet)
  BY <1>5 DEF TypeInv, GoodPipes
<1>11. h = pipe["ui"][1] /\ 1 \in 1..Len(pipe["ui"])
  BY <1>1, <1>5, <1>10, ReadGood DEF First
<1>12. h.line \in S => h.kind = "display"
  BY <1>1, <1>5, <1>9, <1>11 DEF AllSayWell, SaysWell
<1>13. h.line \in S /\ left # << >> => Onward(st, "ui", Head(left)) /\ Head(left) = "logger"
  <2> HAVE h.line \in S /\ left # << >>
  <2>1. CASE ui = "qtFirst"
    <3>1. Way(ui, "ui", "display") = <<"ui", "logger">>
      BY <2>1 DEF Way
    <3>2. Head(left) = "logger"
      BY <1>12, <3>1, Stages
    <3> QED BY <1>2, <2>1, <3>2, StagesAre
  <2>2. CASE ui # "qtFirst"
    <3>1. Way(ui, "ui", "display") = <<"ui">>
      BY <2>2 DEF Way
    <3>2. left = << >>
      BY <1>12, <3>1, Stages
    <3> QED BY <3>2
  <2> QED BY <2>1, <2>2
<1>14. GoesOn(S, "ui")
  BY <1>1, <1>5, <1>9, <1>13, EchoSays
<1>15. AllSayWell(S, pipe')
  BY <1>1, <1>5, <1>9, <1>14, GoesOnWell
<1>16. OnlyDisplays(S, events')
  <2>1. events \in Seq(Signal)
    BY DEF TypeInv, GoodEvents
  <2>2. /\ Len(events') = Len(events) + 1 /\ Len(events) \in Nat
        /\ \A i \in 1..Len(events) : events'[i] = events[i]
        /\ events'[Len(events) + 1] = e
        /\ \A i \in 1..(Len(events) + 1) : i \in 1..Len(events) \/ i = Len(events) + 1
    BY <1>1, <1>6, <2>1, AppendFacts
  <2>3. e.line = h.line /\ e.kind = h.kind
    OBVIOUS
  <2> QED BY <1>9, <1>12, <2>2, <2>3 DEF OnlyDisplays
<1>17. e.line = h.line
  OBVIOUS
<1>18. q["ui"] # << >> /\ q["ui"][1] = h
  BY <1>1, <1>4, <1>5, <1>11
<1>19. ShownAt(ui) \in Places /\ "logger" \in Places /\ "ui" \in Places
  BY <1>5 DEF ShownAt
<1>20. s = [x \in Places |-> s[x]] /\ r = [x \in Places |-> r[x]]
  BY DEF QueueAt
<1> HIDE DEF q, r, s, w, st, e
<1>21. /\ InLine(S, st, w)
       /\ \A lines : \A k \in Places : Past(S, st, q, lines, k) => Past(S, st, w, lines, k)
  <2>1. CASE \A x \in Plugins : pipe'[x] = IF x = "ui" THEN Tail(pipe["ui"]) ELSE pipe[x]
    <3>1. \A x \in Places : s[x] = r[x]
      BY <1>4, <1>5, <1>7, <2>1 DEF Taken
    <3>2. Joined(r, "window", e, w)
      BY <1>8, <1>20, <3>1
    <3>3. e \in MessageSet \cup Signal /\ (e.line \in S => e.line = q["ui"][1].line)
      BY <1>6, <1>17, <1>18
    <3> QED BY <1>3, <1>4, <1>7, <1>9, <1>18, <1>19, <1>5, <3>2, <3>3, MovesOn
  <2>2. ASSUME NEW m, m.line = h.line, m.to = left, left # << >>, Head(m.to) \in Plugins,
               Instead("ui", m), phase = "running"
        PROVE  /\ InLine(S, st, w)
               /\ \A lines : \A k \in Places : Past(S, st, q, lines, k) => Past(S, st, w, lines, k)
    <3> DEFINE y == Head(m.to)
               rest == IF y = "ui" THEN Tail(pipe["ui"]) ELSE pipe[y]
    <3>1. \A x \in Plugins :
            pipe'[x] = LET l == IF x = "ui" THEN Tail(pipe["ui"]) ELSE pipe[x]
                       IN  IF x = y THEN Append(l, m) ELSE l
      BY <2>2 DEF Instead
    <3>2. m \in MessageSet
      <4>1. pipe[y] \in Seq(MessageSet) /\ Tail(pipe["ui"]) \in Seq(MessageSet)
        <5>1. pipe[y] \in Seq(MessageSet)
          BY <1>10, <2>2 DEF GoodPipes
        <5>2. Tail(pipe["ui"]) \in Seq(MessageSet)
          BY <1>1, <1>10, TailFacts
        <5> QED BY <5>1, <5>2
      <4>2. rest \in Seq(MessageSet) /\ pipe'[y] = Append(rest, m)
        BY <2>2, <3>1, <4>1
      <4> HIDE DEF rest, y
      <4>3. y \in Plugins
        BY <2>2 DEF y
      <4> QED BY <4>2, <4>3, SentType
    <3>3. Joined(r, y, m, s)
      BY <1>4, <1>5, <1>7, <2>2, <3>1 DEF Joined, Taken
    <3>4. y \in Places /\ "window" \in Places \ {y} /\ m \in MessageSet \cup Signal
          /\ e \in MessageSet \cup Signal
      BY <1>5, <1>6, <2>2, <3>2
    <3>5. /\ m.line \in S => m.line = q["ui"][1].line /\ Onward(st, "ui", y)
          /\ e.line \in S => e.line = q["ui"][1].line /\ Onward(st, "ui", "window")
          /\ e.line \in S => m.line \in S
      BY <1>3, <1>13, <1>17, <1>18, <2>2
    <3> HIDE DEF y
    <3> QED BY <1>3, <1>4, <1>7, <1>8, <1>9, <1>18, <1>19, <3>3, <3>4, <3>5, MovesOnTwice
  <2>3. \/ \A x \in Plugins : pipe'[x] = IF x = "ui" THEN Tail(pipe["ui"]) ELSE pipe[x]
        \/ /\ left # << >>
           /\ \E m : /\ m.kind = h.kind /\ m.line = h.line /\ m.channel = h.channel
                     /\ m.to = left /\ Head(m.to) \in Plugins /\ Instead("ui", m)
    BY <1>1, <1>5, EchoAt
  <2>4. phase # "running" =>
          \A m : Instead("ui", m) =>
            \A x \in Plugins : pipe'[x] = IF x = "ui" THEN Tail(pipe["ui"]) ELSE pipe[x]
    BY DEF Instead
  <2> QED BY <2>1, <2>2, <2>3, <2>4
<1>22. Lined(S, st, w, ui, shown, log)
  BY <1>9, <1>19, <1>21 DEF Lined
<1>23. Orderly(S)' <=> /\ \A d \in BagToSet(macros') : Harmless(d)
                       /\ AllSayWell(S, pipe') /\ OnlyDisplays(S, events')
                       /\ Lined(S, StageOf(ui'), QueueAt(pipe', events'), ui', shown', log')
  BY DEF Orderly
<1> QED BY <1>1, <1>9, <1>15, <1>16, <1>22, <1>23 DEF st, w

\* A message about none of the lines of S is sent.
LEMMA PutOthers ==
  ASSUME NEW S, NEW pipes \in [Plugins -> Seq(MessageSet)], AllSayWell(S, pipes),
         NEW m, SaysWell(S, m), m.line \notin S, Head(m.to) \in Plugins
  PROVE  \A p \in Plugins : \A i \in 1..Len(Put(pipes, m)[p]) :
           /\ SaysWell(S, Put(pipes, m)[p][i])
           /\ Put(pipes, m)[p][i].line \in S =>
                i \in 1..Len(pipes[p]) /\ Put(pipes, m)[p][i] = pipes[p][i]
<1> TAKE p \in Plugins
<1> DEFINE old == pipes[p]
           new == Put(pipes, m)[p]
<1> SUFFICES ASSUME NEW i \in 1..Len(new)
             PROVE  SaysWell(S, new[i]) /\ (new[i].line \in S => i \in 1..Len(old) /\ new[i] = old[i])
  OBVIOUS
<1>1. new = old \/ new = Append(old, m)
  BY PutAt
<1>2. old \in Seq(MessageSet) /\ \A k \in 1..Len(old) : SaysWell(S, old[k])
  BY DEF AllSayWell
<1> HIDE DEF old, new
<1>3. CASE new = old
  BY <1>2, <1>3
<1>4. CASE new = Append(old, m)
  <2>1. old \in Seq(MessageSet \cup {m}) /\ m \in MessageSet \cup {m}
    BY <1>2, SeqOfMore
  <2>2. /\ Len(new) = Len(old) + 1 /\ Len(old) \in Nat
        /\ \A k \in 1..Len(old) : new[k] = old[k]
        /\ new[Len(old) + 1] = m
        /\ \A k \in 1..(Len(old) + 1) : k \in 1..Len(old) \/ k = Len(old) + 1
    BY <1>4, <2>1, AppendFacts
  <2> QED BY <1>2, <2>2
<1> QED BY <1>1, <1>3, <1>4

\* A signal is taken, and what it displays has passed all places.
LEMMA TakenOrdered ==
  ASSUME TypeInv, NEW S, Orderly(S), Qt, events # << >>, events' = Tail(events),
         shown' \in {shown, Append(shown, Head(events).line)}
  PROVE  /\ Lined(S, StageOf(ui), QueueAt(pipe, events'), ui, shown', log)
         /\ OnlyDisplays(S, events')
<1> DEFINE st == StageOf(ui)
           q == QueueAt(pipe, events)
           r == QueueAt(pipe, events')
<1>1. ui \in UIs /\ ShownAt(ui) = "window" /\ shown \in Seq(Nat) /\ events \in Seq(Signal)
  BY DEF TypeInv, UIs, Qt, ShownAt, LoggerType, GoodEvents
<1>2. st \in [Places -> Nat]
  BY <1>1, StagesAre
<1>3. /\ InLine(S, st, q) /\ Rising(S, shown) /\ Past(S, st, q, shown, "window")
      /\ Rising(S, log) /\ Past(S, st, q, log, "logger") /\ OnlyDisplays(S, events)
  BY <1>1 DEF Orderly, Lined
<1>4. Lines(q) /\ (\A x \in Plugins : q[x] = pipe[x]) /\ q["window"] = events
  BY QueuesAre
<1>5. "window" \in Places /\ \A x \in Places : r[x] = IF x = "window" THEN Tail(events) ELSE pipe[x]
  BY DEF QueueAt, Places
<1>6. \A x \in Places : x # "window" => x \in Plugins
  BY DEF Places
<1>7. Taken(q, "window", r)
  BY <1>4, <1>5, <1>6 DEF Taken
<1>8. /\ \A i \in 1..Len(Tail(events)) : Tail(events)[i] = events[i + 1] /\ i + 1 \in 1..Len(events)
      /\ Head(events) = events[1]
  BY <1>1, TailFacts
<1>9. OnlyDisplays(S, events')
  BY <1>3, <1>8 DEF OnlyDisplays
<1> HIDE DEF st, q, r
<1>10. InLine(S, st, r) /\ \A lines, k : Past(S, st, q, lines, k) => Past(S, st, r, lines, k)
  BY <1>2, <1>3, <1>4, <1>5, <1>7, FrontTaken
<1>11. LET all == Append(shown, q["window"][1].line)
       IN  Rising(S, all) /\ Past(S, st, r, all, "window")
  BY <1>1, <1>2, <1>3, <1>4, <1>5, <1>7, ArrivesLast
<1>12. Rising(S, shown') /\ Past(S, st, r, shown', "window")
  BY <1>3, <1>4, <1>8, <1>10, <1>11
<1>13. Lined(S, st, r, ui, shown', log)
  BY <1>1, <1>3, <1>10, <1>12 DEF Lined
<1> QED BY <1>9, <1>13 DEF st, r

LEMMA WindowOrdered ==
  ASSUME TypeInv, TypeInv', NEW S, Orderly(S), Qt, WindowStep
  PROVE  Orderly(S)'
<1>1. UNCHANGED <<ui, macros, log>> /\ events # << >> /\ events' = Tail(events)
  BY DEF WindowStep, display, focus, leave, Takes, loggerVars
<1>2. (\A d \in BagToSet(macros) : Harmless(d)) /\ AllSayWell(S, pipe) /\ OnlyDisplays(S, events)
  BY DEF Orderly
<1>3. pipe \in [Plugins -> Seq(MessageSet)] /\ events \in Seq(Signal) /\ ui \in {"console", "qt", "qtFirst"}
  BY DEF TypeInv, GoodPipes, GoodEvents
<1>4. \A p \in Plugins : \A i \in 1..Len(pipe[p]) : SaysWell(S, pipe[p][i])
  BY <1>2 DEF AllSayWell
<1>5. Orderly(S)' <=> /\ \A d \in BagToSet(macros') : Harmless(d)
                      /\ AllSayWell(S, pipe') /\ OnlyDisplays(S, events')
                      /\ Lined(S, StageOf(ui'), QueueAt(pipe', events'), ui', shown', log')
  BY DEF Orderly
<1>6. CASE display
  <2> DEFINE es == Tail(events)
  <2>4. events' = es
    BY <1>1
  <2>1. \/ pipe' = pipe /\ shown' \in {shown, Append(shown, Head(events).line)}
        \/ Crash /\ shown' = shown
    BY <1>6 DEF display
  <2>2. CASE pipe' = pipe /\ shown' \in {shown, Append(shown, Head(events).line)}
    <3>1. /\ Lined(S, StageOf(ui), QueueAt(pipe, events'), ui, shown', log)
          /\ OnlyDisplays(S, events')
      BY <1>1, <2>2, TakenOrdered
    <3> QED BY <1>1, <1>2, <1>5, <2>2, <3>1
  <2>3. CASE Crash /\ shown' = shown
    <3>1. /\ Lined(S, StageOf(ui), QueueAt(pipe, es), ui, shown, log)
          /\ OnlyDisplays(S, es)
      BY <1>1, <2>3, TakenOrdered
    <3>2. \A p \in Plugins : Len(pipe'[p]) = 0
      BY <2>3 DEF Crash
    <3>3. \A p \in Plugins : \A i \in 1..Len(pipe'[p]) :
            /\ SaysWell(S, pipe'[p][i])
            /\ pipe'[p][i].line \in S => i \in 1..Len(pipe[p]) /\ pipe'[p][i] = pipe[p][i]
      BY <3>2
    <3>4. (\A d \in BagToSet(macros') : Harmless(d)) /\ ui' = ui /\ log' = log
      BY <1>1, <1>2
    <3> HIDE DEF es
    <3>5. \A i \in 1..Len(events') : events'[i].line \in S => i \in 1..Len(es) /\ events'[i] = es[i]
      BY <2>4
    <3> QED BY <2>3, <2>4, <3>1, <3>3, <3>4, <3>5, OthersOrdered
  <2> QED BY <2>1, <2>2, <2>3
<1>7. CASE focus
  <2> DEFINE m == About("set_channel", Head(events).line, Head(events).channel)
  <2>1. shown' = shown /\ (pipe' = pipe \/ pipe' = Put(pipe, m)) /\ Head(events).kind = "set_channel"
    BY <1>7 DEF focus, Takes
  <2>2. /\ Lined(S, StageOf(ui), QueueAt(pipe, Tail(events)), ui, shown, log)
        /\ OnlyDisplays(S, Tail(events))
    BY <1>1, <2>1, TakenOrdered
  <2>3. m.kind = "set_channel" /\ m.line = Head(events).line /\ Head(m.to) \in Plugins
    BY <1>3, MessageHead DEF About
  <2> HIDE DEF m
  <2>4. m.line \notin S
    <3>1. Head(events) = events[1] /\ 1 \in 1..Len(events)
      BY <1>1, <1>3, TailFacts
    <3> QED BY <1>2, <2>1, <2>3, <3>1 DEF OnlyDisplays
  <2>5. SaysWell(S, m)
    BY <2>3, <2>4 DEF SaysWell
  <2>6. \A p \in Plugins : \A i \in 1..Len(Put(pipe, m)[p]) :
          /\ SaysWell(S, Put(pipe, m)[p][i])
          /\ Put(pipe, m)[p][i].line \in S =>
               i \in 1..Len(pipe[p]) /\ Put(pipe, m)[p][i] = pipe[p][i]
    BY <1>2, <1>3, <2>3, <2>4, <2>5, PutOthers
  <2>7. CASE pipe' = pipe
    BY <1>1, <1>2, <1>4, <2>1, <2>2, <2>7, OthersOrdered
  <2>8. CASE pipe' = Put(pipe, m)
    <3> DEFINE es == Tail(events)
    <3>1. /\ Lined(S, StageOf(ui), QueueAt(pipe, es), ui, shown, log)
          /\ OnlyDisplays(S, es) /\ events' = es
      BY <1>1, <2>2
    <3>2. \A p \in Plugins : \A i \in 1..Len(pipe'[p]) :
            /\ SaysWell(S, pipe'[p][i])
            /\ pipe'[p][i].line \in S => i \in 1..Len(pipe[p]) /\ pipe'[p][i] = pipe[p][i]
      BY <2>6, <2>8
    <3>3. (\A d \in BagToSet(macros') : Harmless(d)) /\ ui' = ui /\ log' = log
      BY <1>1, <1>2
    <3> HIDE DEF es
    <3>4. \A i \in 1..Len(events') : events'[i].line \in S => i \in 1..Len(es) /\ events'[i] = es[i]
      BY <3>1
    <3> QED BY <2>1, <3>1, <3>2, <3>3, <3>4, OthersOrdered
  <2> QED BY <2>1, <2>7, <2>8
<1>8. CASE leave
  <2>1. shown' = shown /\ pipe' = pipe
    BY <1>8 DEF leave
  <2>2. /\ Lined(S, StageOf(ui), QueueAt(pipe, events'), ui, shown', log)
        /\ OnlyDisplays(S, events')
    BY <1>1, <2>1, TakenOrdered
  <2> QED BY <1>1, <1>2, <1>5, <2>1, <2>2
<1> QED BY <1>6, <1>7, <1>8 DEF WindowStep

LEMMA StopOrdered ==
  ASSUME TypeInv, TypeInv', NEW S, Orderly(S), NEW p \in Plugins, Stop(p)
  PROVE  Orderly(S)'
<1>1. UNCHANGED <<ui, macros, events, shown, log>> /\ pipe' = Rest(p) /\ pipe[p] # << >>
  BY DEF Stop, qtVars, Reads
<1>2. \A d \in BagToSet(macros) : Harmless(d)
  BY DEF Orderly
<1>3. GoesOn(S, p)
  BY <1>1, DropSays
<1> QED BY <1>1, <1>2, <1>3, PassOrdered

LEMMA QuitOrdered ==
  ASSUME TypeInv, NEW S, 0 \notin S, Orderly(S), Quit
  PROVE  Orderly(S)'
<1>1. UNCHANGED <<ui, macros, events, shown, log>> /\ InitiateShutdown(pipe)
  BY DEF Quit, loggerVars, qtVars
<1>2. pipe \in [Plugins -> Seq(MessageSet)]
  BY DEF TypeInv, GoodPipes
<1> QED BY <1>1, <1>2, ShutdownOrdered DEF Orderly

LEMMA BuiltInHarmless ==
  \A d \in BagToSet(BuiltIn) : Harmless(d)
<1>1. BagToSet(BuiltIn) =
        {Macro("/slap", "/slap", "/me", << >>),
         Macro("/replace", "/replace", "/macro", <<"">>),
         Macro("/macros", "/macros", "/commands", <<"macros">>),
         Macro("/replacements", "/replacements", "/commands", <<"replacements">>)}
  BY DEF BuiltIn, BagToSet, SetToBag
<1>2. Range(<< >>) = {} /\ Range(<<"macros">>) = {"macros"} /\ Range(<<"replacements">>) = {"replacements"}
  BY DEF Range
<1>3. Harmless(Macro("/slap", "/slap", "/me", << >>))
  BY <1>2 DEF Harmless, Macro
<1>4. Harmless(Macro("/replace", "/replace", "/macro", <<"">>))
  BY DEF Harmless, Macro
<1>5. Harmless(Macro("/macros", "/macros", "/commands", <<"macros">>))
  BY <1>2 DEF Harmless, Macro
<1>6. Harmless(Macro("/replacements", "/replacements", "/commands", <<"replacements">>))
  BY <1>2 DEF Harmless, Macro
<1> HIDE DEF Harmless
<1> QED BY <1>1, <1>3, <1>4, <1>5, <1>6

LEMMA RestartOrdered ==
  ASSUME NEW S, Orderly(S), Restart
  PROVE  Orderly(S)'
<1>1. /\ \A p \in Plugins : Len(pipe'[p]) = 0
      /\ Len(events') = 0 /\ UNCHANGED <<ui, log>> /\ shown' = << >> /\ macros' = BuiltIn
  BY DEF Restart
<1>2. OnlyDisplays(S, events) /\ Lined(S, StageOf(ui), QueueAt(pipe, events), ui, shown, log)
  BY DEF Orderly
<1> QED BY <1>1, <1>2, OthersOrdered, BuiltInHarmless

LEMMA ChooseOrdered ==
  ASSUME TypeInv, NEW S, 0 \notin S, Orderly(S), NEW mod, ChooseMode(mod)
  PROVE  Orderly(S)'
<1> DEFINE m == Message("logging", 0, Line(mod, << >>), Blank)
<1>1. UNCHANGED <<ui, macros, events, shown, log>> /\ pipe' = Put(pipe, m)
  BY DEF ChooseMode, loggerVars, qtVars
<1>2. m.kind = "logging" /\ m.line = 0 /\ m.to = Route("logging")
  BY AboutFields
<1>3. Head(m.to) \in Plugins
  BY <1>2, Stages DEF Route, Plugins
<1> HIDE DEF m
<1>4. SaysWell(S, m)
  BY <1>2 DEF SaysWell
<1>5. pipe \in [Plugins -> Seq(MessageSet)]
  BY DEF TypeInv, GoodPipes
<1>6. /\ AllSayWell(S, pipe) /\ OnlyDisplays(S, events) /\ (\A d \in BagToSet(macros) : Harmless(d))
      /\ Lined(S, StageOf(ui), QueueAt(pipe, events), ui, shown, log)
  BY DEF Orderly
<1>7. \A p \in Plugins : \A i \in 1..Len(pipe'[p]) :
        /\ SaysWell(S, pipe'[p][i])
        /\ pipe'[p][i].line \in S => i \in 1..Len(pipe[p]) /\ pipe'[p][i] = pipe[p][i]
  BY <1>1, <1>2, <1>3, <1>4, <1>5, <1>6, PutOthers
<1> QED BY <1>1, <1>6, <1>7, OthersOrdered

LEMMA ConnectOrdered ==
  ASSUME TypeInv, NEW S, 0 \notin S, Orderly(S), Connect
  PROVE  Orderly(S)'
<1> DEFINE kind == IF connected THEN "leave_channel" ELSE "set_channel"
           order == SetToSeq(tabs)
           ms == [i \in DOMAIN order |-> About(kind, 0, order[i])]
<1>1. /\ Qt /\ kind \in {"set_channel", "leave_channel"}
      /\ UNCHANGED <<ui, macros, events, shown, log>>
      /\ pipe' = [pipe EXCEPT !["ui"] = @ \o ms]
  BY DEF Connect, loggerVars
<1> HIDE DEF kind
<1>2. /\ ms \in Seq(MessageSet) /\ Len(ms) \in Nat
      /\ \A i \in 1..Len(ms) : ms[i].kind = kind /\ ms[i].line = 0
  BY <1>1, TabMessages
<1> HIDE DEF ms
<1>3. pipe \in [Plugins -> Seq(MessageSet)] /\ "ui" \in Plugins
  BY DEF TypeInv, GoodPipes, Plugins
<1>4. /\ AllSayWell(S, pipe) /\ OnlyDisplays(S, events) /\ (\A d \in BagToSet(macros) : Harmless(d))
      /\ Lined(S, StageOf(ui), QueueAt(pipe, events), ui, shown, log)
  BY DEF Orderly
<1>5. \A q \in Plugins : pipe'[q] = IF q = "ui" THEN pipe["ui"] \o ms ELSE pipe[q]
  BY <1>1, <1>3
<1>6. \A i \in 1..Len(ms) : SaysWell(S, ms[i]) /\ ms[i].line \notin S
  BY <1>1, <1>2 DEF SaysWell
<1> DEFINE q == pipe["ui"]
           c == q \o ms
<1>7. q \in Seq(MessageSet) /\ Len(q) \in Nat /\ \A i \in 1..Len(q) : SaysWell(S, q[i])
  BY <1>3, <1>4 DEF AllSayWell
<1>8. pipe'["ui"] = c
  BY <1>3, <1>5
<1> HIDE DEF q
<1>9. /\ Len(c) = Len(q) + Len(ms)
      /\ \A i \in 1..Len(c) : c[i] = IF i <= Len(q) THEN q[i] ELSE ms[i - Len(q)]
  BY <1>2, <1>7, ConcatProperties
<1> HIDE DEF c
<1>10. ASSUME NEW i \in 1..Len(c)
       PROVE  SaysWell(S, c[i]) /\ (c[i].line \in S => i \in 1..Len(q) /\ c[i] = q[i])
  <2>1. CASE i <= Len(q)
    BY <1>7, <1>9, <2>1
  <2>2. CASE ~(i <= Len(q))
    <3>1. i - Len(q) \in 1..Len(ms)
      BY <1>2, <1>7, <1>9, <2>2
    <3> QED BY <1>6, <1>9, <2>2, <3>1
  <2> QED BY <2>1, <2>2
<1>11. \A p \in Plugins : \A i \in 1..Len(pipe'[p]) :
         /\ SaysWell(S, pipe'[p][i])
         /\ pipe'[p][i].line \in S => i \in 1..Len(pipe[p]) /\ pipe'[p][i] = pipe[p][i]
  <2> TAKE p \in Plugins
  <2>1. CASE p = "ui"
    BY <1>8, <1>10, <2>1 DEF q
  <2>2. CASE p # "ui"
    BY <1>4, <1>5, <2>2 DEF AllSayWell
  <2> QED BY <2>1, <2>2
<1> QED BY <1>1, <1>4, <1>11, OthersOrdered

\* A line that nobody has heard of yet does not count.
LEMMA NotYet ==
  ASSUME NEW S, NEW T, NEW st, NEW q, NEW u, NEW sh, NEW lg, Lined(S, st, q, u, sh, lg),
         \A x \in Places : \A i \in 1..Len(q[x]) : q[x][i].line \in T => q[x][i].line \in S,
         \A i \in 1..Len(sh) : sh[i] \in T => sh[i] \in S,
         \A i \in 1..Len(lg) : lg[i] \in T => lg[i] \in S
  PROVE  Lined(T, st, q, u, sh, lg)
<1>1. InLine(T, st, q)
  BY DEF Lined, InLine
<1>2. Rising(T, sh) /\ Rising(T, lg)
  BY DEF Lined, Rising
<1>3. Past(T, st, q, sh, ShownAt(u)) /\ Past(T, st, q, lg, "logger")
  BY DEF Lined, Past
<1> QED BY <1>1, <1>2, <1>3 DEF Lined

\* A line is typed after all others.
LEMMA SendOrdered ==
  ASSUME TypeInv, TypeInv', LogInv, OrderInv, NEW text, text.cmd \in Words,
         text.args \in Seq(Channels), NEW chan \in Channels, SendLine(text, chan), UNCHANGED events
  PROVE  OrderInv'
<1> DEFINE x == [cmd |-> text.cmd, args |-> text.args, channel |-> chan, session |-> session]
           n == Len(typed) + 1
           m == Message("raw_edict", n, text, chan)
           t == Append(typed, x)
           S == SaidLines(typed)
           T == SaidLines(t)
           st == StageOf(ui)
           q == QueueAt(pipe, events)
           r == QueueAt(pipe', events)
<1>1. /\ phase = "running" /\ pipe' = Put(pipe, m) /\ typed' = t
      /\ UNCHANGED <<ui, macros, log, shown, events>>
  BY DEF SendLine, Act, loggerVars
<1>2. /\ typed \in Seq(TypedLine) /\ session \in Nat /\ pipe \in [Plugins -> Seq(MessageSet)]
      /\ GoodPipes(ui, typed, session, pipe) /\ GoodEvents(typed, session, events) /\ ui \in UIs
      /\ mayLog \subseteq 1..Len(typed)
  BY LogTypes DEF TypeInv, HistoryType, GoodPipes, UIs
<1>3. x \in TypedLine /\ x.cmd = text.cmd /\ x.args = text.args
  BY <1>2 DEF TypedLine
<1>4. /\ m.to = <<"meatgrinder">> /\ m.kind = "raw_edict" /\ m.line = n
      /\ m.cmd = text.cmd /\ m.args = text.args
  BY DEF Message, Route
<1>5. Head(m.to) = "meatgrinder" /\ "meatgrinder" \in Plugins
  BY <1>4 DEF Plugins
<1> HIDE DEF x, m
<1>6. /\ Len(t) = n /\ Len(typed) \in Nat /\ t[n] = x
      /\ \A k \in 1..Len(typed) : k \in 1..n /\ t[k] = typed[k]
      /\ \A k \in 1..n : k \in 1..Len(typed) \/ k = n
  BY <1>2, <1>3, TypedGrows
<1> HIDE DEF t
<1>7. (\A k \in T : k \in S \/ k = n) /\ n \in Nat /\ n \in 1..n
  <2>1. \A k : k \in S <=> k \in 1..Len(typed) /\ typed[k].cmd = ""
    BY DEF SaidLines
  <2>2. \A k : k \in T <=> k \in 1..Len(t) /\ t[k].cmd = ""
    BY DEF SaidLines
  <2>3. n \in Nat /\ n \in 1..n
    BY <1>6
  <2> HIDE DEF S, T, n
  <2> QED BY <1>6, <2>1, <2>2, <2>3
<1>8. /\ \A p \in Plugins : \A i \in 1..Len(pipe[p]) : pipe[p][i].line \in Nat /\ pipe[p][i].line < n
      /\ \A i \in 1..Len(events) : events[i].line \in Nat /\ events[i].line < n
  <2>1. ASSUME NEW p \in Plugins, NEW i \in 1..Len(pipe[p])
        PROVE  pipe[p][i].line \in Nat /\ pipe[p][i].line < n
    <3>1. Good(ui, typed, session, p, pipe[p][i])
      BY <1>2 DEF GoodPipes
    <3>2. pipe[p][i].line \in Nat /\ pipe[p][i].line <= Len(typed)
      BY <3>1, FieldTypes DEF Good, Origin
    <3> QED BY <1>6, <3>2
  <2>2. ASSUME NEW i \in 1..Len(events)
        PROVE  events[i].line \in Nat /\ events[i].line < n
    <3>1. events[i] \in Signal /\ Origin(typed, session, events[i])
      BY <1>2 DEF GoodEvents
    <3>2. events[i].line \in Nat /\ events[i].line <= Len(typed)
      BY <3>1 DEF Signal, Origin
    <3> QED BY <1>6, <3>2
  <2> QED BY <2>1, <2>2
<1>9. /\ shown \in Seq(Nat) /\ log \in Seq(Nat)
      /\ \A i \in 1..Len(shown) : shown[i] < n
      /\ \A i \in 1..Len(log) : log[i] < n
  <2>1. shown \in Seq(Nat) /\ log \in Seq(Nat)
    BY LogTypes
  <2>2. ASSUME NEW i \in 1..Len(shown)
        PROVE  shown[i] < n
    <3>1. shown[i] \in Nat /\ shown[i] <= Len(typed)
      BY <2>1 DEF LogInv
    <3> QED BY <1>6, <3>1
  <2>3. ASSUME NEW i \in 1..Len(log)
        PROVE  log[i] < n
    <3>1. log[i] \in 1..Len(typed) \cup {0}
      BY <1>2 DEF LogInv, LogRespectsMode
    <3> QED BY <1>6, <3>1
  <2> QED BY <2>1, <2>2, <2>3
<1>10. SUFFICES ASSUME Plain(t)
                PROVE  /\ \A d \in BagToSet(macros) : Harmless(d)
                       /\ AllSayWell(T, pipe') /\ OnlyDisplays(T, events)
                       /\ Lined(T, st, r, ui, shown, log)
  BY <1>1 DEF OrderInv, Orderly
<1>11. Orderly(S)
  <2>1. \A k \in 1..Len(typed) : k \in 1..Len(t) /\ t[k] = typed[k]
    BY <1>6
  <2>2. Plain(typed)
    BY <1>10, <2>1 DEF Plain, Mentioned
  <2> QED BY <2>2 DEF OrderInv
<1>12. /\ (\A d \in BagToSet(macros) : Harmless(d)) /\ AllSayWell(S, pipe)
       /\ OnlyDisplays(S, events) /\ Lined(S, st, q, ui, shown, log)
  BY <1>11 DEF Orderly
<1>13. n \in T => text.cmd = ""
  BY <1>3, <1>6 DEF SaidLines
<1>14. "" \notin Range(text.args)
  <2>1. Range(t[n].args) \cap {"", "/replace"} = {}
    BY <1>6, <1>7, <1>10 DEF Plain, Mentioned
  <2> QED BY <1>3, <1>6, <2>1
<1> HIDE DEF S, T
<1>15. \A a \in Nat : a < n /\ a \in T => a \in S
  BY <1>7
<1>16. OnlyDisplays(T, events)
  BY <1>8, <1>12, <1>15 DEF OnlyDisplays
<1>17. AllSayWell(T, pipe)
  <2>1. SUFFICES ASSUME NEW p \in Plugins, NEW i \in 1..Len(pipe[p])
                 PROVE  SaysWell(T, pipe[p][i])
    BY DEF AllSayWell
  <2>2. SaysWell(S, pipe[p][i]) /\ (pipe[p][i].line \in T => pipe[p][i].line \in S)
    BY <1>8, <1>12, <1>15 DEF AllSayWell
  <2> QED BY <2>2 DEF SaysWell
<1>18. SaysWell(T, m)
  BY <1>4, <1>13, <1>14 DEF SaysWell
<1>19. AllSayWell(T, pipe')
  <2>1. SUFFICES ASSUME NEW p \in Plugins
                 PROVE  \A i \in 1..Len(pipe'[p]) : SaysWell(T, pipe'[p][i])
    BY DEF AllSayWell
  <2> DEFINE old == pipe[p]
             new == pipe'[p]
  <2>2. new = old \/ new = Append(old, m)
    BY <1>1, <1>2, <1>5, PutAt
  <2>3. old \in Seq(MessageSet) /\ \A k \in 1..Len(old) : SaysWell(T, old[k])
    BY <1>2, <1>17 DEF AllSayWell
  <2> HIDE DEF old, new
  <2>4. CASE new = Append(old, m)
    <3>1. old \in Seq(MessageSet \cup {m}) /\ m \in MessageSet \cup {m}
      BY <2>3, SeqOfMore
    <3>2. /\ Len(new) = Len(old) + 1 /\ Len(old) \in Nat
          /\ \A k \in 1..Len(old) : new[k] = old[k]
          /\ new[Len(old) + 1] = m
          /\ \A k \in 1..(Len(old) + 1) : k \in 1..Len(old) \/ k = Len(old) + 1
      BY <2>4, <3>1, AppendFacts
    <3> QED BY <1>18, <2>3, <3>2 DEF new
  <2> QED BY <2>2, <2>3, <2>4 DEF new
<1>20. Lines(q) /\ (\A p \in Plugins : q[p] = pipe[p]) /\ q["window"] = events
  BY QueuesAre
<1>21. \A y \in Places : \A i \in 1..Len(q[y]) : q[y][i].line \in Nat /\ q[y][i].line < n
  BY <1>8, <1>20 DEF Places
<1>22. Lined(T, st, q, ui, shown, log)
  <2> HIDE DEF q, st, n
  <2>1. \A y \in Places : \A i \in 1..Len(q[y]) : q[y][i].line \in T => q[y][i].line \in S
    BY <1>15, <1>21
  <2>2. \A i \in 1..Len(shown) : shown[i] \in T => shown[i] \in S
    BY <1>9, <1>15
  <2>3. \A i \in 1..Len(log) : log[i] \in T => log[i] \in S
    BY <1>9, <1>15
  <2> QED BY <1>12, <2>1, <2>2, <2>3, NotYet
<1>23. /\ st \in [Places -> Nat]
       /\ \A y \in Places : y # "meatgrinder" => st["meatgrinder"] < st[y]
  BY <1>2, StagesAre
<1>24. "meatgrinder" \in Places
  BY <1>5 DEF Places
<1>25. Joined(q, "meatgrinder", m, r)
  <2>1. \A p \in Plugins : pipe'[p] = IF p = "meatgrinder" THEN Append(pipe[p], m) ELSE pipe[p]
    BY <1>1, <1>2, <1>5 DEF Put
  <2>2. \A y \in Places : y # "window" => y \in Plugins
    BY DEF Places
  <2>3. \A y \in Places : r[y] = IF y = "window" THEN events ELSE pipe'[y]
    BY DEF QueueAt
  <2>4. "window" # "meatgrinder"
    OBVIOUS
  <2> HIDE DEF q, r
  <2> QED BY <1>20, <2>1, <2>2, <2>3, <2>4 DEF Joined
<1>26. m \in MessageSet
  <2>1. pipe["meatgrinder"] \in Seq(MessageSet) /\ pipe'["meatgrinder"] = Append(pipe["meatgrinder"], m)
    BY <1>1, <1>2, <1>5 DEF Put
  <2> QED BY <1>5, <2>1, SentType
<1> HIDE DEF q, r, st
<1>27. /\ InLine(T, st, q) /\ Rising(T, shown) /\ Rising(T, log)
       /\ Past(T, st, q, shown, ShownAt(ui)) /\ Past(T, st, q, log, "logger")
  BY <1>22 DEF Lined
<1>28. \A y \in Places : \A i \in 1..Len(q[y]) :
         /\ ~(st[y] < st["meatgrinder"])
         /\ q[y][i].line < m.line
  <2>1. ASSUME NEW y \in Places
        PROVE  ~(st[y] < st["meatgrinder"])
    <3>1. st[y] \in Nat /\ st["meatgrinder"] \in Nat
      BY <1>23, <1>24
    <3> QED BY <1>23, <3>1
  <2> QED BY <1>4, <1>21, <2>1
<1>29. /\ InLine(T, st, r)
       /\ \A lines, k :
            /\ Past(T, st, q, lines, k)
            /\ m.line \in T /\ Before(st, "meatgrinder", k) =>
                 \A a \in 1..Len(lines) : lines[a] \in T => lines[a] < m.line
            => Past(T, st, r, lines, k)
  <2>1. m \in MessageSet \cup Signal
    BY <1>26
  <2>2. m.line \in T =>
          \A y \in Places : \A i \in 1..Len(q[y]) :
            q[y][i].line \in T =>
              /\ st[y] < st["meatgrinder"] => m.line < q[y][i].line
              /\ Before(st, "meatgrinder", y) => q[y][i].line < m.line
    BY <1>28
  <2> QED BY <1>20, <1>23, <1>24, <1>25, <1>27, <2>1, <2>2, JoinsInLine
<1>30. Past(T, st, r, shown, ShownAt(ui)) /\ Past(T, st, r, log, "logger")
  BY <1>4, <1>9, <1>27, <1>29
<1>31. Lined(T, st, r, ui, shown, log)
  BY <1>27, <1>29, <1>30 DEF Lined
<1> QED BY <1>12, <1>16, <1>19, <1>31

LEMMA InitOrdered ==
  ASSUME Init
  PROVE  OrderInv
<1> DEFINE S == SaidLines(typed)
           q == QueueAt(pipe, events)
<1>1. /\ pipe = [p \in Plugins |-> << >>] /\ events = << >> /\ shown = << >> /\ log = << >>
      /\ macros = BuiltIn
  BY DEF Init
<1>2. (\A p \in Plugins : Len(pipe[p]) = 0) /\ Len(events) = 0 /\ Len(shown) = 0 /\ Len(log) = 0
  BY <1>1
<1>3. \A x \in Places : Len(q[x]) = 0
  BY <1>2 DEF QueueAt, Places
<1>4. AllSayWell(S, pipe) /\ OnlyDisplays(S, events)
  BY <1>2 DEF AllSayWell, OnlyDisplays
<1> HIDE DEF S, q
<1>5. Lined(S, StageOf(ui), q, ui, shown, log)
  BY <1>2, <1>3 DEF Lined, InLine, Past, Rising
<1>6. Orderly(S)
  BY <1>1, <1>4, <1>5, BuiltInHarmless DEF Orderly, q
<1> QED BY <1>6 DEF OrderInv, S

\* Nothing is typed: the lines that are said stay the same.
LEMMA ActOrdered ==
  ASSUME TypeInv, TypeInv', NEW S, 0 \notin S, Orderly(S), Plain(typed),
         UNCHANGED vars \/ (\E p \in Plugins : PluginStep(p)) \/ (Qt /\ WindowStep)
         \/ Quit \/ Connect \/ (\E m \in Modes : ChooseMode(m)) \/ Restart
  PROVE  Orderly(S)'
<1>1. CASE UNCHANGED vars
  <2>1. UNCHANGED <<ui, macros, pipe, events, shown, log>>
    BY <1>1 DEF vars, grinderVars, loggerVars, qtVars
  <2> QED BY <2>1 DEF Orderly
<1>2. ASSUME NEW p \in Plugins, PluginStep(p)
      PROVE  Orderly(S)'
  <2>1. CASE Stop(p)
    BY <2>1, StopOrdered
  <2>2. CASE MeatgrinderStep
    BY <2>2, GrinderOrdered
  <2>3. CASE AntennaStep
    BY <2>3, AntennaOrdered
  <2>4. CASE MasseuseStep
    BY <2>4, MasseuseOrdered
  <2>5. CASE LoggerStep
    BY <2>5, LoggerOrdered
  <2>6. CASE ConsoleStep
    BY <2>6, ConsoleOrdered
  <2>7. CASE Qt /\ Emit
    BY <2>7, EmitOrdered
  <2> QED BY <1>2, <2>1, <2>2, <2>3, <2>4, <2>5, <2>6, <2>7 DEF PluginStep
<1>3. CASE Qt /\ WindowStep
  BY <1>3, WindowOrdered
<1>4. CASE Quit
  BY <1>4, QuitOrdered
<1>5. CASE Connect
  BY <1>5, ConnectOrdered
<1>6. ASSUME NEW mod \in Modes, ChooseMode(mod)
      PROVE  Orderly(S)'
  BY <1>6, ChooseOrdered
<1>7. CASE Restart
  BY <1>7, RestartOrdered
<1> QED BY <1>1, <1>2, <1>3, <1>4, <1>5, <1>6, <1>7

LEMMA NextOrdered ==
  ASSUME TypeInv, TypeInv', LogInv, OrderInv, [Next]_vars
  PROVE  OrderInv'
<1>1. typed \in Seq(TypedLine) /\ tabs \subseteq Channels
  BY LogTypes DEF TypeInv, UiType
<1>2. ASSUME NEW text, send_input(text)
      PROVE  OrderInv'
  <2>1. text.cmd \in Words /\ text.args \in Seq(Channels)
    BY <1>1, <1>2, MayTypeText, ConversationAssumption DEF send_input
  <2>2. channel' \in Channels
    BY DEF TypeInv, UiType
  <2>3. SendLine(text, channel') /\ events' = events
    BY <1>2 DEF send_input, qtVars
  <2> QED BY <2>1, <2>2, <2>3, SendOrdered
<1>3. ASSUME NEW text, request_edict_send(text)
      PROVE  OrderInv'
  <2>1. text.cmd \in Words /\ text.args \in Seq(Channels)
    BY <1>1, <1>3, MayTypeText, ConversationAssumption DEF request_edict_send
  <2>2. PICK tab \in tabs \cup {Transfers} : SendLine(text, tab)
    BY <1>3 DEF request_edict_send
  <2>3. tab \in Channels
    BY <1>1 DEF Channels
  <2>4. events' = events
    BY <1>3 DEF request_edict_send, qtVars
  <2> QED BY <2>1, <2>2, <2>3, <2>4, SendOrdered
<1> DEFINE Acts == UNCHANGED vars \/ (\E p \in Plugins : PluginStep(p)) \/ (Qt /\ WindowStep)
                   \/ Quit \/ Connect \/ (\E m \in Modes : ChooseMode(m)) \/ Restart
<1>4. CASE Acts
  <2>1. typed' = typed
    BY <1>4 DEF vars, history, PluginStep, Stop, MeatgrinderStep, AntennaStep, MasseuseStep,
                LoggerStep, ConsoleStep, Emit, WindowStep, Quit, Connect, ChooseMode, Restart
  <2>2. SUFFICES ASSUME Plain(typed)
                 PROVE  Orderly(SaidLines(typed))'
    BY <2>1 DEF OrderInv
  <2>3. PICK S : S = SaidLines(typed)
    OBVIOUS
  <2>4. 0 \notin S
    <3>1. 0 \notin 1..Len(typed) /\ \A n \in SaidLines(typed) : n \in 1..Len(typed)
      <4>1. \A n : n \in SaidLines(typed) => n \in 1..Len(typed)
        BY DEF SaidLines
      <4>2. 0 \notin 1..Len(typed)
        BY LogTypes
      <4> QED BY <4>1, <4>2
    <3> QED BY <2>3, <3>1
  <2>5. Orderly(S)
    BY <2>2, <2>3 DEF OrderInv
  <2>6. Orderly(S)'
    BY <1>4, <2>2, <2>4, <2>5, ActOrdered
  <2>7. SaidLines(typed') = S
    BY <2>1, <2>3
  <2> QED BY <2>6, <2>7 DEF Orderly
<1>5. Acts \/ (\E text : send_input(text)) \/ (\E text : request_edict_send(text))
  BY DEF Next, UserStep
<1> QED BY <1>2, <1>3, <1>4, <1>5

LEMMA OrderKept ==
  Spec => [](TypeInv /\ LogInv /\ OrderInv)
<1>1. Init => TypeInv /\ LogInv /\ OrderInv
  BY InitTyped, InitLogged, InitOrdered
<1>2. TypeInv /\ LogInv /\ OrderInv /\ [Next]_vars => TypeInv' /\ LogInv' /\ OrderInv'
  BY NextTyped, NextLogged, NextOrdered
<1> QED BY <1>1, <1>2, PTL DEF Spec

(* What is said in plain words comes on the screen and into the log in the *)
(* order in which it was typed, once, whatever commands, changes of mode,  *)
(* quits and restarts come between, and in whichever order the window and  *)
(* the logger have registered.  (The core hands each plugin its messages   *)
(* in order, and no plugin overtakes on the way of a line.)                *)
THEOREM PlainWordsKeepOrder == Spec => []SameOrder
<1>1. ASSUME TypeInv, LogInv, OrderInv
      PROVE  SameOrder
  <2> DEFINE S == SaidLines(typed)
  <2>1. SUFFICES ASSUME Plain(typed)
                 PROVE  \A lines \in {shown, log} : \A i, j \in 1..Len(lines) :
                          /\ i < j
                          /\ lines[i] # 0 /\ typed[lines[i]].cmd = ""
                          /\ lines[j] # 0 /\ typed[lines[j]].cmd = ""
                          => lines[i] < lines[j]
    BY DEF SameOrder, Plain
  <2>2. Rising(S, shown) /\ Rising(S, log)
    BY <1>1, <2>1 DEF OrderInv, Orderly, Lined
  <2>3. /\ typed \in Seq(TypedLine) /\ Len(typed) \in Nat /\ mayLog \subseteq 1..Len(typed)
        /\ log \in Seq(Nat) /\ shown \in Seq(Nat)
    BY <1>1, LogTypes
  <2>4. \A i \in 1..Len(shown) : shown[i] \in 0..Len(typed)
    <3>1. ASSUME NEW i \in 1..Len(shown)
          PROVE  shown[i] \in 0..Len(typed)
      <4>1. shown[i] \in Nat /\ shown[i] <= Len(typed)
        BY <1>1, <2>3 DEF LogInv
      <4> QED BY <2>3, <4>1
    <3> QED BY <3>1
  <2>5. \A i \in 1..Len(log) : log[i] \in 0..Len(typed)
    <3>1. ASSUME NEW i \in 1..Len(log)
          PROVE  log[i] \in 0..Len(typed)
      <4>1. log[i] \in mayLog \cup {0}
        BY <1>1 DEF LogInv, LogRespectsMode
      <4> QED BY <2>3, <4>1
    <3> QED BY <3>1
  <2>6. \A n \in 0..Len(typed) : n # 0 /\ typed[n].cmd = "" => n \in S
    <3>1. \A n : n \in S <=> n \in 1..Len(typed) /\ typed[n].cmd = ""
      BY DEF SaidLines
    <3>2. \A n \in 0..Len(typed) : n # 0 => n \in 1..Len(typed)
      BY <2>3
    <3> QED BY <3>1, <3>2
  <2> HIDE DEF S
  <2> QED BY <2>2, <2>4, <2>5, <2>6 DEF Rising
<1> QED BY <1>1, OrderKept, PTL

-------------------------------------------------------------------------------
(* The channel the user named last: who waits has at most one message      *)
(* under way, and it is the one that tells the reader the channel, or the  *)
(* reader knows it.                                                        *)

\* The lines before n that name a channel, in the session s, and the last one.
Changes(t, s, n) ==
  {k \in 1..(n - 1) : t[k].session = s /\ t[k].cmd = "/channel" /\ ~Bare(t[k], "/channel")}

Chosen(t, s, n) ==
  LET changes == Changes(t, s, n)
  IN  IF changes = {} THEN Default
      ELSE t[CHOOSE k \in changes : \A j \in changes : j <= k].args[1]

Patient == ui = "console" /\ waited /\ ~Mentioned(typed, {"/channel"})

\* The message will make the reader talk in c.
Asks(m, c) ==
  \/ m.kind = "set_channel" /\ m.channel # Blank /\ c = m.channel
  \/ m.kind = "raw_edict" /\ m.cmd = "/channel" /\ ~Bare(m, "/channel") /\ c = m.args[1]

Told(c) == (toReader = << >> /\ channel = c) \/ toReader = <<c>>

Answered(c) ==
  \/ Told(c) /\ \A p \in Plugins : pipe[p] = << >>
  \/ \E p \in Plugins :
       /\ Len(pipe[p]) = 1 /\ \A q \in Plugins \ {p} : pipe[q] = << >>
       /\ \/ Asks(pipe[p][1], c) /\ toReader = << >>
          \/ (\A d : ~Asks(pipe[p][1], d)) /\ Told(c)

PatientInv ==
  Patient =>
    /\ \A n \in 1..Len(typed) : typed[n].channel = Chosen(typed, typed[n].session, n)
    /\ phase = "running" => Answered(Chosen(typed, session, Len(typed) + 1))

\* Some line is the last one.
LEMMA Latest ==
  ASSUME NEW k \in Nat, NEW C, C \subseteq 1..k, C # {}
  PROVE  \E x \in C : \A y \in C : y <= x
<1> DEFINE T == {d \in Nat : k - d \in C}
<1>1. T # {}
  <2>1. PICK z \in C : TRUE
    OBVIOUS
  <2>2. k - z \in Nat /\ k - (k - z) = z
    BY <2>1
  <2> QED BY <2>2
<1>2. PICK d \in T : \A e \in T : ~(<<e, d>> \in OpToRel(<, Nat))
  BY <1>1, WFMin, NatLessThanWellFounded
<1>3. k - d \in C /\ d \in Nat
  BY <1>2
<1>4. ASSUME NEW y \in C
      PROVE  y <= k - d
  <2>1. k - y \in Nat /\ k - (k - y) = y
    OBVIOUS
  <2>2. ~(k - y < d)
    BY <1>2, <2>1 DEF OpToRel
  <2> QED BY <1>3, <2>1, <2>2
<1> QED BY <1>3, <1>4

LEMMA ChosenIs ==
  ASSUME NEW t, NEW s, NEW n \in Nat, NEW k \in Changes(t, s, n), \A j \in Changes(t, s, n) : j <= k
  PROVE  Chosen(t, s, n) = t[k].args[1]
<1> DEFINE C == Changes(t, s, n)
           last == CHOOSE i \in C : \A j \in C : j <= i
<1>1. last \in C /\ \A j \in C : j <= last
  OBVIOUS
<1>2. \A i \in C : i \in Nat
  BY DEF Changes
<1> HIDE DEF C
<1>3. last <= k /\ k <= last /\ last \in Nat /\ k \in Nat
  BY <1>1, <1>2 DEF C
<1>4. last = k
  <2> HIDE DEF last
  <2> QED BY <1>3
<1> QED BY <1>4 DEF Chosen, C

LEMMA ChosenStays ==
  ASSUME NEW t \in Seq(TypedLine), NEW x \in TypedLine, NEW s, NEW n \in 1..(Len(t) + 1)
  PROVE  Chosen(Append(t, x), s, n) = Chosen(t, s, n)
<1> DEFINE a == Append(t, x)
           C == Changes(t, s, n)
<1>1. Len(t) \in Nat /\ \A k \in 1..Len(t) : a[k] = t[k]
  BY TypedGrows
<1> HIDE DEF a
<1>2. n \in Nat /\ n - 1 \in Nat /\ \A k \in 1..(n - 1) : k \in 1..Len(t)
  BY <1>1
<1>3. Changes(a, s, n) = C
  BY <1>1, <1>2 DEF Changes, Bare
<1>4. C \subseteq 1..(n - 1)
  BY DEF Changes
<1> HIDE DEF C
<1>5. CASE C = {}
  <2>1. Changes(t, s, n) = {} /\ Changes(a, s, n) = {}
    BY <1>3, <1>5 DEF C
  <2> QED BY <2>1 DEF Chosen, a
<1>6. CASE C # {}
  <2>1. PICK k \in C : \A j \in C : j <= k
    BY <1>2, <1>4, <1>6, Latest
  <2>2. Chosen(t, s, n) = t[k].args[1] /\ Chosen(a, s, n) = a[k].args[1]
    BY <1>2, <1>3, <2>1, ChosenIs DEF C
  <2> QED BY <1>1, <1>2, <1>4, <2>1, <2>2 DEF a
<1> QED BY <1>5, <1>6 DEF a

LEMMA ChosenMoves ==
  ASSUME NEW t \in Seq(TypedLine), NEW x \in TypedLine, NEW s
  PROVE  Chosen(Append(t, x), s, Len(t) + 2) =
           IF x.session = s /\ x.cmd = "/channel" /\ ~Bare(x, "/channel")
           THEN x.args[1] ELSE Chosen(t, s, Len(t) + 1)
<1> DEFINE a == Append(t, x)
           n == Len(t) + 1
           C == Changes(t, s, n)
           D == Changes(a, s, n + 1)
           Names == x.session = s /\ x.cmd = "/channel" /\ ~Bare(x, "/channel")
<1>1. /\ Len(t) \in Nat /\ \A k \in 1..Len(t) : a[k] = t[k]
      /\ a[n] = x
  BY TypedGrows
<1>2. /\ n \in Nat /\ n + 1 \in Nat /\ Len(t) + 2 = n + 1 /\ n \in 1..n
      /\ 1..(n - 1) = 1..Len(t) /\ 1..((n + 1) - 1) = 1..n
      /\ (\A k \in 1..n : k \in 1..Len(t) \/ k = n) /\ \A k \in 1..Len(t) : k \in 1..n /\ k < n
  BY <1>1
<1> HIDE DEF a, n
<1>3. \A k : k \in C <=> /\ k \in 1..Len(t) /\ t[k].session = s
                         /\ t[k].cmd = "/channel" /\ ~Bare(t[k], "/channel")
  BY <1>2 DEF Changes
<1>4. \A k : k \in D <=> /\ k \in 1..n /\ a[k].session = s
                         /\ a[k].cmd = "/channel" /\ ~Bare(a[k], "/channel")
  BY <1>2 DEF Changes
<1> HIDE DEF C, D
<1>5. \A k : k \in D <=> k \in C \/ (k = n /\ Names)
  BY <1>1, <1>2, <1>3, <1>4
<1>6. CASE Names
  <2>1. n \in D /\ \A j \in D : j <= n
    BY <1>2, <1>3, <1>5, <1>6
  <2>2. Chosen(a, s, n + 1) = x.args[1]
    BY <1>1, <1>2, <2>1, ChosenIs DEF D
  <2> QED BY <1>2, <1>6, <2>2 DEF a
<1>7. CASE ~Names
  <2>1. C = D
    BY <1>5, <1>7
  <2>2. CASE C = {}
    BY <1>2, <1>7, <2>1, <2>2 DEF Chosen, C, D, a, n
  <2>3. CASE C # {}
    <3>1. C \subseteq 1..Len(t)
      BY <1>3
    <3>2. PICK k \in C : \A j \in C : j <= k
      BY <1>1, <2>3, <3>1, Latest
    <3>3. Chosen(t, s, n) = t[k].args[1] /\ Chosen(a, s, n + 1) = a[k].args[1]
      BY <1>2, <2>1, <3>2, ChosenIs DEF C, D
    <3> QED BY <1>1, <1>2, <1>7, <3>1, <3>2, <3>3 DEF a, n
  <2> QED BY <2>2, <2>3
<1> QED BY <1>6, <1>7

\* What the answer of a plugin to the message that is under way may be.
LEMMA AnswerGoesOn ==
  ASSUME TypeInv, NEW c, Answered(c), phase = "running", UNCHANGED <<toReader, channel>>,
         NEW p \in Plugins, pipe[p] # << >>,
         \/ /\ \A q \in Plugins : pipe'[q] = IF q = p THEN Tail(pipe[p]) ELSE pipe[q]
            /\ \A d : ~Asks(First(p), d)
         \/ \E m : /\ Head(m.to) \in Plugins /\ Instead(p, m)
                   /\ \A d : Asks(m, d) <=> Asks(First(p), d)
  PROVE  Answered(c)'
<1> DEFINE h == First(p)
           left == Tail(pipe[p])
<1>1. /\ Len(pipe[p]) = 1 /\ (\A q \in Plugins \ {p} : pipe[q] = << >>)
      /\ \/ Asks(pipe[p][1], c) /\ toReader = << >>
         \/ (\A d : ~Asks(pipe[p][1], d)) /\ Told(c)
  BY DEF Answered
<1>2. pipe[p] \in Seq(MessageSet)
  BY DEF TypeInv, GoodPipes
<1>3. left = << >> /\ pipe[p][1] = h
  <2>1. Len(left) = 0 /\ left \in Seq(MessageSet) /\ Head(pipe[p]) = pipe[p][1]
    BY <1>1, <1>2, TailFacts
  <2>2. \A s \in Seq(MessageSet) : Len(s) = 0 => s = << >>
    OBVIOUS
  <2>3. Head(pipe[p]) = h
    BY DEF First
  <2> HIDE DEF left, h
  <2> QED BY <2>1, <2>2, <2>3
<1> HIDE DEF left, h
<1>4. Told(c)' <=> Told(c)
  BY DEF Told
<1>5. CASE /\ \A q \in Plugins : pipe'[q] = IF q = p THEN left ELSE pipe[q]
           /\ \A d : ~Asks(h, d)
  <2>1. \A q \in Plugins : pipe'[q] = << >>
    BY <1>1, <1>3, <1>5
  <2>2. Told(c)
    BY <1>1, <1>3, <1>5
  <2> QED BY <1>4, <2>1, <2>2 DEF Answered
<1>6. ASSUME NEW m, Head(m.to) \in Plugins, Instead(p, m), \A d : Asks(m, d) <=> Asks(h, d)
      PROVE  Answered(c)'
  <2> DEFINE y == Head(m.to)
  <2>1. \A q \in Plugins : pipe'[q] = IF q = y THEN Append(IF q = p THEN left ELSE pipe[q], m)
                                      ELSE IF q = p THEN left ELSE pipe[q]
    BY <1>6 DEF Instead, left
  <2>2. pipe'[y] = Append(<< >>, m) /\ \A q \in Plugins \ {y} : pipe'[q] = << >>
    BY <1>1, <1>3, <1>6, <2>1
  <2>3. Len(Append(<< >>, m)) = 1 /\ Append(<< >>, m)[1] = m
    <3>1. << >> \in Seq({m}) /\ m \in {m} /\ Len(<< >>) = 0
      OBVIOUS
    <3> HIDE DEF y
    <3> QED BY <3>1, AppendFacts
  <2>4. \/ Asks(m, c) /\ toReader' = << >>
        \/ (\A d : ~Asks(m, d)) /\ Told(c)'
    BY <1>1, <1>3, <1>4, <1>6
  <2>5. y \in Plugins
    BY <1>6
  <2>6. Len(pipe'[y]) = 1 /\ pipe'[y][1] = m
    BY <2>2, <2>3
  <2> HIDE DEF y
  <2> QED BY <2>2, <2>4, <2>5, <2>6 DEF Answered
<1> QED BY <1>5, <1>6 DEF left, h

LEMMA AnswerTaken ==
  ASSUME TypeInv, NEW c, Answered(c), phase = "running", UNCHANGED <<toReader, channel>>,
         NEW p \in Plugins, pipe[p] # << >>, pipe' = Rest(p), \A d : ~Asks(First(p), d)
  PROVE  Answered(c)'
<1>1. \A q \in Plugins : pipe'[q] = IF q = p THEN Tail(pipe[p]) ELSE pipe[q]
  BY RestAt
<1> QED BY <1>1, AnswerGoesOn

LEMMA AnswerWritten ==
  ASSUME TypeInv, NEW c, Answered(c), phase = "running", UNCHANGED <<toReader, channel>>,
         NEW p \in Plugins, pipe[p] # << >>, NEW m, Head(m.to) \in Plugins,
         pipe' = Put(Rest(p), m), \A d : Asks(m, d) <=> Asks(First(p), d)
  PROVE  Answered(c)'
<1>1. Instead(p, m)
  BY WriteInstead
<1> QED BY <1>1, AnswerGoesOn

LEMMA AnswerEchoed ==
  ASSUME TypeInv, NEW c, Answered(c), phase = "running", UNCHANGED <<toReader, channel>>,
         NEW p \in Plugins, pipe[p] # << >>, First(p).kind \notin {"shutdown", "raw_edict"},
         First(p).kind = "set_channel" => Tail(Way(ui, p, "set_channel")) # << >>,
         pipe' = Echo(Rest(p), First(p))
  PROVE  Answered(c)'
<1> DEFINE h == First(p)
           left == Tail(Way(ui, p, h.kind))
<1>1. \/ /\ left = << >>
         /\ \A q \in Plugins : pipe'[q] = IF q = p THEN Tail(pipe[p]) ELSE pipe[q]
      \/ /\ left # << >>
         /\ \E m : /\ m.kind = h.kind /\ m.line = h.line /\ m.channel = h.channel
                   /\ m.to = left /\ Head(m.to) \in Plugins /\ Instead(p, m)
  BY EchoAt
<1>2. h.kind = "set_channel" => left # << >>
  OBVIOUS
<1>3. h.kind # "raw_edict"
  OBVIOUS
<1> HIDE DEF left, h
<1>4. CASE /\ left = << >>
           /\ \A q \in Plugins : pipe'[q] = IF q = p THEN Tail(pipe[p]) ELSE pipe[q]
  <2>1. \A d : ~Asks(h, d)
    BY <1>2, <1>3, <1>4 DEF Asks
  <2> QED BY <1>4, <2>1, AnswerGoesOn DEF h
<1>5. ASSUME NEW m, m.kind = h.kind, m.channel = h.channel, Head(m.to) \in Plugins, Instead(p, m)
      PROVE  Answered(c)'
  <2>1. \A d : Asks(m, d) <=> Asks(h, d)
    BY <1>3, <1>5 DEF Asks
  <2> QED BY <1>5, <2>1, AnswerGoesOn DEF h
<1> QED BY <1>1, <1>4, <1>5

\* The meatgrinder: the word /channel is never rewritten, nor made.
LEMMA GrinderAnswers ==
  ASSUME TypeInv, ~Mentioned(typed, {"/channel"}), NEW c, Answered(c), MeatgrinderStep,
         phase = "running", phase' = "running"
  PROVE  Answered(c)'
<1>1. /\ ui \in {"console", "qt", "qtFirst"} /\ "meatgrinder" \in Plugins
      /\ UNCHANGED <<toReader, channel>>
  BY DEF TypeInv, Plugins, MeatgrinderStep, consoleVars
<1>2. pipe["meatgrinder"] # << >>
  BY GrinderShape
<1>3. ~Crash /\ ~HandleQuit
  BY DEF Crash, HandleQuit, InitiateShutdown
<1>4. ~Spoken(typed, "/channel")
  BY DEF Spoken, Heard, Mentioned
<1>5. First("meatgrinder") = Edict
  BY DEF Edict
<1> DEFINE Deaf == \A d : ~Asks(Edict, d)
<1>6. ASSUME Edict.kind \in Kinds \ {"raw_edict", "set_channel"}
      PROVE  Deaf
  BY <1>6 DEF Asks
<1>7. ASSUME Grinds("raw_edict"), Edict.cmd # "/channel"
      PROVE  Deaf
  BY <1>5, <1>7 DEF Asks, Grinds, Reads
<1>8. ASSUME Deaf, pipe' = Rest("meatgrinder")
      PROVE  Answered(c)'
  BY <1>1, <1>2, <1>5, <1>8, AnswerTaken
<1>9. ASSUME Deaf, NEW m, Head(m.to) \in Plugins, pipe' = Put(Rest("meatgrinder"), m),
             \A d : ~Asks(m, d)
      PROVE  Answered(c)'
  BY <1>1, <1>2, <1>5, <1>9, AnswerWritten
<1>10. ASSUME Deaf, NEW kind \in {"notify", "edict", "leave_channel", "only", "display_commands"},
              NEW chan, Answer(kind, chan)
       PROVE  Answered(c)'
  <2> DEFINE m == About(kind, Edict.line, chan)
  <2>1. Head(m.to) \in Plugins /\ m.kind = kind
    BY <1>1, MessageHead DEF About
  <2>2. pipe' = Put(Rest("meatgrinder"), m)
    BY <1>10 DEF Answer, Write
  <2> HIDE DEF m, Deaf
  <2>3. \A d : ~Asks(m, d)
    BY <2>1 DEF Asks
  <2> QED BY <1>9, <1>10, <2>1, <2>2, <2>3
<1>11. ASSUME Deaf, NEW text, Register(text)
       PROVE  Answered(c)'
  <2> DEFINE m == Message("register_replacer", Edict.line, text, Edict.channel)
  <2>1. Head(m.to) \in Plugins /\ m.kind = "register_replacer"
    BY <1>1, MessageHead
  <2>2. pipe' = Put(Rest("meatgrinder"), m)
    BY <1>11 DEF Register
  <2> HIDE DEF m, Deaf
  <2>3. \A d : ~Asks(m, d)
    BY <2>1 DEF Asks
  <2> QED BY <1>9, <1>11, <2>1, <2>2, <2>3
<1>12. ASSUME Rewrite
       PROVE  Answered(c)'
  <2>1. PICK m \in Rewritten(macros, Edict) : pipe' = Put(Rest("meatgrinder"), m)
    BY <1>12 DEF Rewrite, Write
  <2>2. PICK d \in Macros(macros, Edict.cmd) : m = [Edict EXCEPT !.cmd = d.to, !.args = d.args \o @]
    BY <2>1 DEF Rewritten
  <2>3. Edict \in MessageSet /\ Edict.kind = "raw_edict" /\ Edict.to = <<"meatgrinder">>
    BY <1>12, EdictFacts DEF Rewrite, Grinds
  <2>4. m.kind = "raw_edict" /\ m.to = <<"meatgrinder">> /\ m.cmd = d.to
    BY <2>2, <2>3 DEF MessageSet
  <2>5. GoodMacro(typed, d) /\ d.command = Edict.cmd
    BY <2>2 DEF Macros, TypeInv
  <2>6. d.to # "/channel" /\ d.command # "/channel"
    BY <1>4, <2>5 DEF GoodMacro, Spoken
  <2>7. Deaf /\ \A e : ~Asks(m, e)
    BY <2>3, <2>4, <2>5, <2>6 DEF Asks
  <2>8. Head(m.to) \in Plugins
    BY <2>4 DEF Plugins
  <2> HIDE DEF Deaf
  <2> QED BY <1>9, <2>1, <2>7, <2>8
<1>13. ASSUME HandleChannelChange
       PROVE  Answered(c)'
  <2> DEFINE m == About("set_channel", Edict.line, Argument)
  <2>1. Head(m.to) \in Plugins /\ m.kind = "set_channel" /\ m.channel = Argument
    BY <1>1, MessageHead DEF About
  <2>2. pipe' = Put(Rest("meatgrinder"), m)
    BY <1>13 DEF HandleChannelChange, Answer, Write
  <2>3. Edict.kind = "raw_edict" /\ Edict.cmd = "/channel"
    BY <1>5, <1>13 DEF HandleChannelChange, Handles, Grinds, Reads
  <2> HIDE DEF m
  <2>4. \A d : Asks(m, d) <=> Asks(Edict, d)
    BY <2>1, <2>3 DEF Asks, Argument, Bare
  <2> QED BY <1>1, <1>2, <1>5, <2>1, <2>2, <2>4, AnswerWritten
<1>14. ASSUME NEW kind \in {"register_replacer", "display_commands"}, Grinds(kind)
       PROVE  Deaf
  BY <1>5, <1>14 DEF Grinds, Reads, Asks
<1> HIDE DEF Deaf
<1>15. CASE DropEmpty
  BY <1>7, <1>8, <1>15 DEF DropEmpty, Swallow, IsEmpty
<1>16. CASE Complain
  <2>1. Deaf
    BY <1>7, <1>16 DEF Complain, Known, Handlers
  <2> QED BY <1>10, <1>16, <2>1 DEF Complain
<1>17. CASE HandleNormal \/ HandleMe \/ HandleChannelLeave \/ HandleOnly \/ HandleCommands
            \/ HandleUserCommand \/ HandleEraseCommand
  <2>1. Deaf
    BY <1>7, <1>17 DEF HandleNormal, HandleMe, HandleChannelLeave, HandleOnly, HandleCommands,
                       HandleUserCommand, HandleEraseCommand, Handles
  <2>2. CASE HandleNormal \/ HandleChannelLeave \/ HandleOnly \/ HandleCommands
    BY <1>10, <2>1, <2>2 DEF HandleNormal, HandleChannelLeave, HandleOnly, HandleCommands
  <2>3. CASE HandleMe
    BY <1>8, <1>10, <2>1, <2>3 DEF HandleMe, Swallow
  <2>4. CASE HandleUserCommand \/ HandleEraseCommand
    BY <1>3, <1>8, <1>11, <2>1, <2>4 DEF HandleUserCommand, HandleEraseCommand, Undefined, Swallow
  <2> QED BY <1>17, <2>2, <2>3, <2>4
<1>18. CASE Define \/ Erase
  <2>1. Deaf
    BY <1>14, <1>18 DEF Define, Erase
  <2>2. pipe' = Rest("meatgrinder")
    BY <1>3, <1>18 DEF Define, Erase, Undefined, Swallow
  <2> QED BY <1>8, <2>1, <2>2
<1>19. CASE DisplayCommands
  BY <1>10, <1>14, <1>19 DEF DisplayCommands
<1> QED BY <1>3, <1>12, <1>13, <1>15, <1>16, <1>17, <1>18, <1>19 DEF MeatgrinderStep

LEMMA PluginAnswers ==
  ASSUME TypeInv, ui = "console", ~Mentioned(typed, {"/channel"}), NEW c, Answered(c),
         NEW p \in Plugins, PluginStep(p), phase = "running", phase' = "running"
  PROVE  Answered(c)'
<1>1. CASE Stop(p)
  BY <1>1 DEF Stop
<1>2. CASE p = "meatgrinder" /\ MeatgrinderStep
  BY <1>2, GrinderAnswers
<1>3. CASE p = "antenna" /\ AntennaStep
  <2>1. UNCHANGED <<toReader, channel>> /\ pipe[p] # << >>
    BY <1>3 DEF AntennaStep, SendEdict, SendJoin, SendLeft, Reads, consoleVars
  <2>2. CASE SendEdict
    <3> DEFINE m == About("received", First("antenna").line, First("antenna").channel)
    <3>1. Head(m.to) \in Plugins /\ m.kind = "received" /\ First("antenna").kind = "edict"
      BY <2>2, MessageHead DEF About, SendEdict, Reads
    <3>2. pipe' = Put(Rest("antenna"), m)
      BY <2>2 DEF SendEdict, Write
    <3> HIDE DEF m
    <3>3. \A d : Asks(m, d) <=> Asks(First("antenna"), d)
      BY <3>1 DEF Asks
    <3> QED BY <1>3, <2>1, <3>1, <3>2, <3>3, AnswerWritten
  <2>3. CASE SendJoin \/ SendLeft
    <3>1. /\ First(p).kind \in {"set_channel", "leave_channel"}
          /\ pipe' = Echo(Rest(p), First(p))
      BY <1>3, <2>3 DEF SendJoin, SendLeft, Reads
    <3>2. Tail(Way(ui, p, "set_channel")) # << >>
      BY <1>3, Stages DEF Way
    <3> QED BY <2>1, <3>1, <3>2, AnswerEchoed
  <2> QED BY <1>3, <2>2, <2>3 DEF AntennaStep
<1>4. CASE p = "masseuse" /\ MasseuseStep
  <2> DEFINE m == About("display", First(p).line, First(p).channel)
  <2>1. /\ UNCHANGED <<toReader, channel>> /\ pipe[p] # << >>
        /\ First(p).kind \in {"received", "notify"} /\ pipe' = Put(Rest(p), m)
    BY <1>4 DEF MasseuseStep, Translate, Reads, Write, consoleVars
  <2>2. m.kind = "display" /\ m.to = <<"logger", "ui">>
    BY DEF About, Message, Route
  <2>3. Head(m.to) \in Plugins
    BY <2>2, Stages DEF Plugins
  <2> HIDE DEF m
  <2>4. \A d : Asks(m, d) <=> Asks(First(p), d)
    BY <2>1, <2>2 DEF Asks
  <2> QED BY <2>1, <2>3, <2>4, AnswerWritten
<1>5. CASE p = "logger" /\ LoggerStep
  <2>1. UNCHANGED <<toReader, channel>> /\ pipe[p] # << >>
    BY <1>5 DEF LoggerStep, LogDisplay, SetMode, Reads, consoleVars
  <2>2. CASE LogDisplay
    <3>1. First(p).kind = "display" /\ pipe' = Echo(Rest(p), First(p))
      BY <1>5, <2>2 DEF LogDisplay, Reads
    <3> QED BY <2>1, <3>1, AnswerEchoed
  <2>3. CASE SetMode
    <3>1. First(p).kind = "logging" /\ pipe' = Rest(p)
      BY <1>5, <2>3 DEF SetMode, Reads, Swallow
    <3>2. \A d : ~Asks(First(p), d)
      BY <3>1 DEF Asks
    <3> QED BY <2>1, <3>1, <3>2, AnswerTaken
  <2> QED BY <1>5, <2>2, <2>3 DEF LoggerStep
<1>6. CASE p = "ui" /\ ConsoleStep
  <2>1. pipe[p] # << >>
    BY <1>6 DEF ConsoleStep, PrintLine, TellChannel, ShowOnly, Reads
  <2>2. CASE PrintLine
    <3>1. First(p).kind = "display" /\ pipe' = Echo(Rest(p), First(p)) /\ UNCHANGED <<toReader, channel>>
      BY <1>6, <2>2 DEF PrintLine, Reads, Reading, consoleVars
    <3> QED BY <2>1, <3>1, AnswerEchoed
  <2>3. CASE ShowOnly
    <3>1. First(p).kind = "only" /\ pipe' = Rest(p) /\ UNCHANGED <<toReader, channel>>
      BY <1>6, <2>3 DEF ShowOnly, Reads, Swallow
    <3>2. \A d : ~Asks(First(p), d)
      BY <3>1 DEF Asks
    <3> QED BY <2>1, <3>1, <3>2, AnswerTaken
  <2>4. CASE TellChannel /\ Reading.channel = Blank
    <3> DEFINE m == About("notify", First(p).line, Blank)
    <3>1. /\ First(p).kind = "set_channel" /\ First(p).channel = Blank
          /\ pipe' = Put(Rest(p), m) /\ UNCHANGED <<toReader, channel>>
      BY <1>6, <2>4 DEF TellChannel, Reads, Write, Reading
    <3>2. Head(m.to) \in Plugins /\ m.kind = "notify"
      BY MessageHead DEF About
    <3> HIDE DEF m
    <3>3. \A d : Asks(m, d) <=> Asks(First(p), d)
      BY <3>1, <3>2 DEF Asks
    <3> QED BY <2>1, <3>1, <3>2, <3>3, AnswerWritten
  <2>5. CASE TellChannel /\ Reading.channel # Blank
    <3> DEFINE h == First(p)
    <3>1. /\ h.kind = "set_channel" /\ h.channel # Blank
          /\ pipe' = Rest(p) /\ toReader' = Append(toReader, h.channel)
      BY <1>6, <2>5 DEF TellChannel, Reads, Swallow, Reading
    <3>2. /\ Len(pipe[p]) = 1 /\ (\A q \in Plugins \ {p} : pipe[q] = << >>)
          /\ \/ Asks(pipe[p][1], c) /\ toReader = << >>
             \/ (\A d : ~Asks(pipe[p][1], d)) /\ Told(c)
      BY <2>1 DEF Answered
    <3>3. /\ pipe[p] \in Seq(MessageSet)
          /\ \A q \in Plugins : pipe'[q] = IF q = p THEN Tail(pipe[p]) ELSE pipe[q]
      BY <2>1, <3>1, RestAt DEF TypeInv, GoodPipes
    <3>4. Head(pipe[p]) = pipe[p][1] /\ Len(Tail(pipe[p])) = 0 /\ Tail(pipe[p]) \in Seq(MessageSet)
      BY <2>1, <3>2, <3>3, TailFacts
    <3>5. pipe[p][1] = h
      BY <3>4 DEF First
    <3>6. \A s \in Seq(MessageSet) : Len(s) = 0 => s = << >>
      OBVIOUS
    <3> HIDE DEF h
    <3>7. \A q \in Plugins : pipe'[q] = << >>
      BY <3>2, <3>3, <3>4, <3>6
    <3>8. Asks(h, h.channel)
      BY <3>1 DEF Asks
    <3>9. Asks(h, c) /\ toReader = << >>
      BY <3>2, <3>5, <3>8
    <3>10. c = h.channel
      BY <3>1, <3>9 DEF Asks
    <3>11. toReader' = <<c>>
      BY <3>1, <3>9, <3>10
    <3> QED BY <3>7, <3>11 DEF Answered, Told
  <2> QED BY <1>6, <2>2, <2>3, <2>4, <2>5 DEF ConsoleStep
<1> QED BY <1>1, <1>2, <1>3, <1>4, <1>5, <1>6 DEF PluginStep, Qt

\* On the console, whoever types has waited: the reader takes the channel.
LEMMA InputPatient ==
  ASSUME TypeInv, PatientInv, NEW text, send_input(text)
  PROVE  PatientInv'
<1> SUFFICES ASSUME Patient'
             PROVE  /\ \A n \in 1..Len(typed') :
                         typed'[n].channel = Chosen(typed', typed'[n].session, n)
                    /\ Answered(Chosen(typed, session, Len(typed) + 1))'
  BY DEF PatientInv
<1> DEFINE chan == channel'
           x == [cmd |-> text.cmd, args |-> text.args, channel |-> chan, session |-> session]
           n == Len(typed) + 1
           m == Message("raw_edict", n, text, chan)
           t == Append(typed, x)
<1>1. /\ typed \in Seq(TypedLine) /\ session \in Nat /\ Len(typed) \in Nat
      /\ pipe \in [Plugins -> Seq(MessageSet)] /\ "meatgrinder" \in Plugins
      /\ channel \in Channels /\ toReader \in Seq(Channels \ {Blank})
  BY LogTypes DEF TypeInv, HistoryType, GoodPipes, UiType, Plugins
<1>2. /\ phase = "running" /\ pipe' = Put(pipe, m) /\ typed' = t
      /\ ui' = ui /\ session' = session /\ phase' = phase /\ waited' = (waited /\ Idle)
      /\ channel' = (IF toReader = << >> THEN channel ELSE Head(toReader))
      /\ toReader' = (IF toReader = << >> THEN << >> ELSE Tail(toReader))
  BY DEF send_input, SendLine, Act
<1>3. text.cmd \in Words /\ text.args \in Seq(Channels)
  BY <1>1, MayTypeText, ConversationAssumption DEF send_input
<1>4. chan \in Channels
  <2>1. toReader # << >> => Head(toReader) \in Channels \ {Blank}
    BY <1>1
  <2> QED BY <1>1, <1>2, <2>1
<1>5. /\ m.kind = "raw_edict" /\ m.cmd = text.cmd /\ m.args = text.args /\ m.to = <<"meatgrinder">>
  BY DEF Message, Route
<1>6. /\ x \in TypedLine /\ x.cmd = text.cmd /\ x.args = text.args
      /\ x.channel = chan /\ x.session = session
  BY <1>1, <1>3, <1>4 DEF TypedLine
<1> HIDE DEF chan, x, m
<1>7. /\ Len(t) = n /\ t[n] = x /\ (\A k \in 1..Len(typed) : t[k] = typed[k])
      /\ \A k \in 1..n : k \in 1..Len(typed) \/ k = n
      /\ \A k \in 1..Len(typed) : k \in 1..n
      /\ n \in 1..n /\ n + 1 = Len(typed) + 2
  BY <1>1, <1>6, TypedGrows
<1> DEFINE c == Chosen(typed, session, n)
           d == Chosen(t, session, n + 1)
<1>8. Patient /\ Idle
  <2>1. ui = "console" /\ waited /\ Idle /\ ~Mentioned(t, {"/channel"})
    BY <1>2 DEF Patient
  <2>2. Mentioned(typed, {"/channel"}) => Mentioned(t, {"/channel"})
    BY <1>1, <1>6, TypedGrows
  <2> QED BY <2>1, <2>2 DEF Patient
<1>9. /\ \A k \in 1..Len(typed) : typed[k].channel = Chosen(typed, typed[k].session, k)
      /\ Answered(c)
  BY <1>2, <1>8 DEF PatientInv
<1>10. \A k \in 1..n : \A s : Chosen(t, s, k) = Chosen(typed, s, k)
  BY <1>1, <1>6, ChosenStays
<1>11. d = IF x.cmd = "/channel" /\ ~Bare(x, "/channel") THEN x.args[1] ELSE c
  BY <1>1, <1>6, <1>7, ChosenMoves
<1> HIDE DEF t, n, c, d
<1>12. Told(c)
  <2>1. \A p \in Plugins : ~(Len(pipe[p]) = 1)
    <3>1. \A p \in Plugins : pipe[p] = << >>
      BY <1>8 DEF Idle
    <3>2. \A p \in Plugins : Len(pipe[p]) = 0
      BY <3>1
    <3> QED BY <3>2
  <2> QED BY <1>9, <2>1 DEF Answered
<1>13. chan = c /\ toReader' = << >>
  <2>1. CASE toReader = << >> /\ channel = c
    BY <1>2, <2>1 DEF chan
  <2>2. CASE toReader = <<c>>
    <3>1. Head(<<c>>) = c /\ Tail(<<c>>) = << >> /\ <<c>> # << >>
      BY Stages
    <3> QED BY <1>2, <2>2, <3>1 DEF chan
  <2> QED BY <1>12, <2>1, <2>2 DEF Told
<1>14. ASSUME NEW k \in 1..n
       PROVE  t[k].channel = Chosen(t, t[k].session, k)
  <2>1. CASE k \in 1..Len(typed)
    BY <1>7, <1>9, <1>10, <2>1
  <2>2. CASE k = n
    BY <1>6, <1>7, <1>10, <1>13, <2>2 DEF c
  <2> QED BY <1>7, <2>1, <2>2
<1>15. ASSUME NEW e, e = d
       PROVE  Answered(e)'
  <2>1. Head(m.to) = "meatgrinder"
    BY <1>5
  <2>2. \A p \in Plugins : pipe'[p] = IF p = "meatgrinder" THEN Append(pipe[p], m) ELSE pipe[p]
    BY <1>1, <1>2, <2>1, PutAt
  <2>3. \A p \in Plugins : pipe[p] = << >>
    BY <1>8 DEF Idle
  <2>4. Len(Append(<< >>, m)) = 1 /\ Append(<< >>, m)[1] = m
    <3>1. << >> \in Seq({m}) /\ m \in {m} /\ Len(<< >>) = 0
      OBVIOUS
    <3> QED BY <3>1, AppendFacts
  <2>5. /\ Len(pipe'["meatgrinder"]) = 1 /\ pipe'["meatgrinder"][1] = m
        /\ \A q \in Plugins \ {"meatgrinder"} : pipe'[q] = << >>
    BY <1>1, <2>2, <2>3, <2>4
  <2>6. Bare(m, "/channel") <=> Bare(x, "/channel")
    BY <1>5, <1>6 DEF Bare
  <2>7. \A f : Asks(m, f) <=> m.cmd = "/channel" /\ ~Bare(m, "/channel") /\ f = m.args[1]
    BY <1>5 DEF Asks
  <2>8. CASE x.cmd = "/channel" /\ ~Bare(x, "/channel")
    <3>1. Asks(m, e)
      BY <1>5, <1>6, <1>11, <1>15, <2>6, <2>7, <2>8
    <3> QED BY <1>1, <1>13, <2>5, <3>1 DEF Answered
  <2>9. CASE ~(x.cmd = "/channel" /\ ~Bare(x, "/channel"))
    <3>1. \A f : ~Asks(m, f)
      BY <1>5, <1>6, <2>6, <2>7, <2>9
    <3>2. e = c
      BY <1>11, <1>15, <2>9
    <3>3. Told(e)'
      BY <1>13, <3>2 DEF Told, chan
    <3> QED BY <1>1, <2>5, <3>1, <3>3 DEF Answered
  <2> QED BY <2>8, <2>9
<1>16. Answered(Chosen(typed, session, Len(typed) + 1))'
  <2>1. PICK e : e = d
    OBVIOUS
  <2>2. Answered(e)'
    BY <1>15, <2>1
  <2>3. Chosen(typed', session', Len(typed') + 1) = e
    BY <1>2, <1>7, <2>1 DEF d
  <2> QED BY <2>2, <2>3 DEF Answered, Told
<1> QED BY <1>2, <1>7, <1>14, <1>16

\* A new session starts in the default channel.
LEMMA RestartPatient ==
  ASSUME TypeInv, LogInv, PatientInv, Restart
  PROVE  PatientInv'
<1> SUFFICES ASSUME Patient'
             PROVE  /\ \A n \in 1..Len(typed') :
                         typed'[n].channel = Chosen(typed', typed'[n].session, n)
                    /\ Answered(Chosen(typed, session, Len(typed) + 1))'
  BY DEF PatientInv
<1>1. /\ ui' = ui /\ typed' = typed /\ waited' = waited /\ session' = session + 1
      /\ \A p \in Plugins : pipe'[p] = << >>
      /\ toReader' = FirstToReader /\ channel' = Default
  BY DEF Restart
<1>2. Patient /\ ui = "console"
  BY <1>1 DEF Patient
<1>3. \A n \in 1..Len(typed) : typed[n].channel = Chosen(typed, typed[n].session, n)
  BY <1>2 DEF PatientInv
<1>4. typed \in Seq(TypedLine) /\ Len(typed) \in Nat /\ session \in Nat
  BY LogTypes DEF TypeInv, HistoryType
<1>5. \A n \in 1..Len(typed) : typed[n].session # session + 1
  <2>1. ASSUME NEW n \in 1..Len(typed)
        PROVE  typed[n].session # session + 1
    <3>1. typed[n].session \in Nat
      <4>1. typed[n] \in TypedLine
        BY <1>4
      <4> QED BY <4>1 DEF TypedLine
    <3>2. typed[n].session <= session
      BY DEF LogInv, Wanted
    <3> QED BY <1>4, <3>1, <3>2
  <2> QED BY <2>1
<1>6. Chosen(typed, session + 1, Len(typed) + 1) = Default
  <2>1. \A k \in 1..((Len(typed) + 1) - 1) : k \in 1..Len(typed)
    BY <1>4
  <2>2. Changes(typed, session + 1, Len(typed) + 1) = {}
    BY <1>5, <2>1 DEF Changes
  <2> QED BY <2>2 DEF Chosen
<1>7. toReader' = <<Default>>
  BY <1>1, <1>2 DEF FirstToReader
<1>8. Chosen(typed', session', Len(typed') + 1) = Default
  BY <1>1, <1>6
<1> QED BY <1>1, <1>3, <1>7, <1>8 DEF Answered, Told

LEMMA NextPatient ==
  ASSUME TypeInv, LogInv, PatientInv, [Next]_vars
  PROVE  PatientInv'
<1>1. ASSUME NEW text, send_input(text)
      PROVE  PatientInv'
  BY <1>1, InputPatient
<1>2. CASE Restart
  BY <1>2, RestartPatient
<1>3. CASE (Qt /\ WindowStep) \/ Connect \/ (\E m \in Modes : ChooseMode(m))
           \/ \E text : request_edict_send(text)
  <2>1. Qt /\ ui' = ui
    BY <1>3 DEF WindowStep, Connect, ChooseMode, request_edict_send, SendLine
  <2> QED BY <2>1 DEF Qt, PatientInv, Patient
<1> DEFINE Steps == UNCHANGED vars \/ (\E p \in Plugins : PluginStep(p)) \/ Quit
<1>4. CASE Steps
  <2>1. UNCHANGED <<ui, typed, session, waited>>
    BY <1>4 DEF vars, history, PluginStep, Stop, MeatgrinderStep, AntennaStep, MasseuseStep,
                LoggerStep, ConsoleStep, Emit, Quit
  <2>2. SUFFICES ASSUME Patient, phase' = "running"
                 PROVE  Answered(Chosen(typed, session, Len(typed) + 1))'
    BY <2>1 DEF PatientInv, Patient
  <2>3. ui = "console" /\ ~Mentioned(typed, {"/channel"})
    BY <2>2 DEF Patient
  <2>4. PICK c : c = Chosen(typed, session, Len(typed) + 1)
    OBVIOUS
  <2>5. Answered(c)'
    <3>1. CASE UNCHANGED vars
      <4>1. UNCHANGED <<pipe, toReader, channel, phase>>
        BY <3>1 DEF vars, consoleVars
      <4>2. Answered(c)
        BY <2>2, <2>4, <4>1 DEF PatientInv
      <4> QED BY <4>1, <4>2 DEF Answered, Told
    <3>2. ASSUME NEW p \in Plugins, PluginStep(p)
          PROVE  Answered(c)'
      <4>1. phase = "running"
        <5>1. CASE phase' = phase
          BY <2>2, <5>1
        <5>2. CASE Stop(p)
          BY <2>2, <5>2 DEF Stop
        <5>3. CASE MeatgrinderStep
          <6>1. ~Crash /\ ~HandleQuit
            BY <2>2 DEF Crash, HandleQuit, InitiateShutdown
          <6> QED BY <2>2, <5>3, <6>1, GrinderShape
        <5> QED BY <3>2, <5>1, <5>2, <5>3
            DEF PluginStep, AntennaStep, MasseuseStep, LoggerStep, ConsoleStep, Emit
      <4>2. Answered(c)
        BY <2>2, <2>4, <4>1 DEF PatientInv
      <4> QED BY <2>2, <2>3, <3>2, <4>1, <4>2, PluginAnswers
    <3>3. CASE Quit
      BY <2>2, <3>3 DEF Quit, InitiateShutdown
    <3> QED BY <1>4, <3>1, <3>2, <3>3
  <2>6. Chosen(typed', session', Len(typed') + 1) = c
    BY <2>1, <2>4
  <2> QED BY <2>5, <2>6 DEF Answered, Told
<1> QED BY <1>1, <1>2, <1>3, <1>4 DEF Next, UserStep

LEMMA InitPatient ==
  ASSUME Init
  PROVE  PatientInv
<1>1. /\ typed = << >> /\ channel = Default /\ toReader = FirstToReader
      /\ \A p \in Plugins : pipe[p] = << >>
  BY DEF Init
<1>2. Len(typed) = 0
  BY <1>1
<1>3. Chosen(typed, session, Len(typed) + 1) = Default
  <2>1. Changes(typed, session, Len(typed) + 1) = {}
    BY <1>2 DEF Changes
  <2> QED BY <2>1 DEF Chosen
<1>4. ui = "console" => Answered(Default)
  BY <1>1 DEF FirstToReader, Answered, Told
<1> QED BY <1>2, <1>3, <1>4 DEF PatientInv, Patient

(* On the console, whoever waits for the answers talks in the channel he   *)
(* named last, over any number of lines and sessions.  (basic.cpp,         *)
(* send_input: the reader takes one set_channel before each line.)         *)
THEOREM PatienceIsRewarded == Spec => []PatientUserIsRight
<1>1. ASSUME PatientInv
      PROVE  PatientUserIsRight
  <2> DEFINE C(n) == {k \in 1..(n - 1) : /\ typed[k].session = typed[n].session
                                         /\ typed[k].cmd = "/channel"
                                         /\ ~Bare(typed[k], "/channel")}
             Right(n) == typed[n].channel =
                           IF C(n) = {} THEN Default
                           ELSE typed[CHOOSE k \in C(n) : \A j \in C(n) : j <= k].args[1]
  <2>1. ASSUME Patient, NEW n \in 1..Len(typed)
        PROVE  Right(n)
    <3>1. typed[n].channel = Chosen(typed, typed[n].session, n)
      BY <1>1, <2>1 DEF PatientInv
    <3>2. Changes(typed, typed[n].session, n) = C(n)
      BY DEF Changes
    <3> HIDE DEF C
    <3> QED BY <3>1, <3>2 DEF Chosen
  <2>2. Patient => \A n \in 1..Len(typed) : Right(n)
    BY <2>1
  <2> QED BY <2>2 DEF PatientUserIsRight, Patient
<1>2. Init => TypeInv /\ LogInv /\ PatientInv
  BY InitTyped, InitLogged, InitPatient
<1>3. TypeInv /\ LogInv /\ PatientInv /\ [Next]_vars => TypeInv' /\ LogInv' /\ PatientInv'
  BY NextTyped, NextLogged, NextPatient
<1> QED BY <1>1, <1>2, <1>3, PTL DEF Spec

-------------------------------------------------------------------------------
(* The tabs and the channels: while messages are under way they differ, but *)
(* the last word about a channel that is still to reach the antenna says    *)
(* what the window will come to.                                            *)

Joins(m, c) == m.kind = "set_channel" /\ m.channel = c

Leaves(m, c) == m.kind = "leave_channel" /\ m.channel = c

\* Nothing in the queue is about the channel; nothing leaves it.
Still(q, c) == \A i \in 1..Len(q) : ~Joins(q[i], c) /\ ~Leaves(q[i], c)

Stays(q, c) == \A i \in 1..Len(q) : ~Leaves(q[i], c)

\* The window will find a tab wherever a signal asks for one.
Settled(es, has, c) ==
  \A i \in 1..Len(es) :
    Joins(es[i], c) => has /\ \A k \in 1..(i - 1) : ~Leaves(es[k], c)

\* The antenna will be in the channel when it has read what waits for it.
Remains(in, q, c) ==
  \/ in /\ Stays(q, c)
  \/ \E i \in 1..Len(q) : Joins(q[i], c) /\ \A k \in (i + 1)..Len(q) : ~Leaves(q[k], c)

Balanced(c) ==
  Still(pipe["ui"], c) /\ Settled(events, c \in tabs, c) =>
    (Remains(c \in joined, pipe["antenna"], c) <=> c \in tabs /\ Stays(events, c))

\* Only Connect leaves a channel for no line, or one without a name.
ForALine(m) ==
  m.line # 0 \/ m.kind \notin {"raw_edict", "register_replacer", "display_commands", "leave_channel"}

LeftAll ==
  Mentioned(typed, {"/leave"}) \/ \E n \in 1..Len(typed) : Bare(typed[n], "/leave")

\* After Connect was unchecked, all that goes on is that the channels are left.
Leaving ==
  /\ \A p \in Plugins : \A i \in 1..Len(pipe[p]) : pipe[p][i].kind \in {"leave_channel", "logging"}
  /\ \A i \in 1..Len(events) : events[i].kind = "leave_channel"
  /\ \A c \in tabs : ~Stays(pipe["ui"], c) \/ ~Stays(events, c)
  /\ \A c \in joined : ~Stays(pipe["ui"], c) \/ ~Stays(pipe["antenna"], c)

AllForLines == \A p \in Plugins : \A i \in 1..Len(pipe[p]) : ForALine(pipe[p][i])

Tabbed == AllForLines /\ \A c \in Channels : Balanced(c)

Tidy == Qt /\ phase = "running" /\ waited /\ ~LeftAll

TabsInv == Tidy => (connected => Tabbed) /\ (~connected => Leaving)

\* The last word counts.
LEMMA LastWord ==
  ASSUME NEW S, NEW q \in Seq(S), NEW x, NEW c, NEW in, NEW has
  PROVE  LET r == Append(q, x)
         IN  /\ Still(r, c) <=> Still(q, c) /\ ~Joins(x, c) /\ ~Leaves(x, c)
             /\ Stays(r, c) <=> Stays(q, c) /\ ~Leaves(x, c)
             /\ Settled(r, has, c) <=>
                  Settled(q, has, c) /\ (Joins(x, c) => has /\ Stays(q, c))
             /\ Remains(in, r, c) <=> Joins(x, c) \/ (Remains(in, q, c) /\ ~Leaves(x, c))
<1> DEFINE r == Append(q, x)
           n == Len(q)
<1>1. q \in Seq(S \cup {x}) /\ x \in S \cup {x}
  BY SeqOfMore
<1>2. /\ Len(r) = n + 1 /\ n \in Nat /\ r[n + 1] = x
      /\ \A i \in 1..n : r[i] = q[i]
      /\ \A i \in 1..(n + 1) : i \in 1..n \/ i = n + 1
  BY <1>1, AppendFacts
<1>3. (\A i \in 1..n : i \in 1..(n + 1)) /\ n + 1 \in 1..(n + 1)
  BY <1>2
<1>4. Joins(x, c) => ~Leaves(x, c)
  BY DEF Joins, Leaves
<1> HIDE DEF r
<1>5. Still(r, c) <=> Still(q, c) /\ ~Joins(x, c) /\ ~Leaves(x, c)
  BY <1>2, <1>3 DEF Still
<1>6. Stays(r, c) <=> Stays(q, c) /\ ~Leaves(x, c)
  BY <1>2, <1>3 DEF Stays
<1>7. Settled(r, has, c) <=> Settled(q, has, c) /\ (Joins(x, c) => has /\ Stays(q, c))
  <2>1. \A i \in 1..n : \A k \in 1..(i - 1) : k \in 1..n
    BY <1>2
  <2>2. \A k : k \in 1..((n + 1) - 1) <=> k \in 1..n
    BY <1>2
  <2>3. Settled(r, has, c) <=>
          /\ \A i \in 1..n : Joins(r[i], c) => has /\ \A k \in 1..(i - 1) : ~Leaves(r[k], c)
          /\ Joins(x, c) => has /\ \A k \in 1..n : ~Leaves(r[k], c)
    BY <1>2, <1>3, <2>2 DEF Settled
  <2> QED BY <1>2, <2>1, <2>3 DEF Settled, Stays
<1>8. Remains(in, r, c) <=> Joins(x, c) \/ (Remains(in, q, c) /\ ~Leaves(x, c))
  <2>1. \A i \in 1..n : \A k : k \in (i + 1)..(n + 1) <=> k \in (i + 1)..n \/ k = n + 1
    BY <1>2
  <2>2. \A i \in 1..n : \A k \in (i + 1)..n : k \in 1..n
    BY <1>2
  <2>3. \A k : k \notin ((n + 1) + 1)..(n + 1)
    BY <1>2
  <2>4. (\E i \in 1..Len(r) : Joins(r[i], c) /\ \A k \in (i + 1)..Len(r) : ~Leaves(r[k], c)) <=>
          \/ Joins(x, c)
          \/ \E i \in 1..n : Joins(q[i], c) /\ ~Leaves(x, c) /\ \A k \in (i + 1)..n : ~Leaves(q[k], c)
    BY <1>2, <1>3, <2>1, <2>2, <2>3
  <2> QED BY <1>4, <1>6, <2>4 DEF Remains
<1> QED BY <1>5, <1>6, <1>7, <1>8 DEF r

\* The first word is read.
LEMMA FirstWord ==
  ASSUME NEW S, NEW q \in Seq(S), q # << >>, NEW c, NEW in, NEW has
  PROVE  LET h == Head(q)
             r == Tail(q)
         IN  /\ Still(q, c) <=> Still(r, c) /\ ~Joins(h, c) /\ ~Leaves(h, c)
             /\ Stays(q, c) <=> Stays(r, c) /\ ~Leaves(h, c)
             /\ ~Leaves(h, c) /\ Settled(r, has, c) /\ (Joins(h, c) => has) => Settled(q, has, c)
             /\ Leaves(h, c) /\ Settled(r, FALSE, c) => Settled(q, has, c)
             /\ Remains(in, q, c) <=> Remains((in \/ Joins(h, c)) /\ ~Leaves(h, c), r, c)
<1> DEFINE h == Head(q)
           r == Tail(q)
           n == Len(q)
<1>1. /\ Len(r) = n - 1 /\ n \in Nat /\ n # 0
      /\ \A i \in 1..Len(r) : r[i] = q[i + 1] /\ i + 1 \in 1..n
      /\ h = q[1] /\ 1 \in 1..n
  BY TailFacts
<1>2. \A i \in 1..n : i = 1 \/ (i - 1 \in 1..Len(r) /\ q[i] = r[i - 1])
  <2>1. \A i \in 1..n : i = 1 \/ (i - 1 \in 1..Len(r) /\ (i - 1) + 1 = i)
    BY <1>1
  <2> QED BY <1>1, <2>1
<1>3. Joins(h, c) => ~Leaves(h, c)
  BY DEF Joins, Leaves
<1> HIDE DEF h, r
<1>4. Still(q, c) <=> Still(r, c) /\ ~Joins(h, c) /\ ~Leaves(h, c)
  BY <1>1, <1>2 DEF Still
<1>5. Stays(q, c) <=> Stays(r, c) /\ ~Leaves(h, c)
  BY <1>1, <1>2 DEF Stays
<1>6. Settled(q, has, c) <=>
        /\ Joins(h, c) => has
        /\ \A i \in 1..Len(r) : Joins(r[i], c) =>
             has /\ ~Leaves(h, c) /\ \A k \in 1..(i - 1) : ~Leaves(r[k], c)
  <2>1. Settled(q, has, c) <=>
          /\ Joins(h, c) => has
          /\ \A i \in 1..Len(r) : Joins(r[i], c) => has /\ \A k \in 1..i : ~Leaves(q[k], c)
    <3>1. \A k : k \notin 1..(1 - 1)
      OBVIOUS
    <3>2. \A i \in 1..Len(r) : 1..((i + 1) - 1) = 1..i
      BY <1>1
    <3>3. \A i \in 1..Len(r) : 1..(i - 1) \subseteq 1..i /\ (i - 1) + 1 = i
      BY <1>1
    <3>4. \A i \in 1..n : i = 1 \/ \E k \in 1..Len(r) : i = k + 1
      <4>1. \A i \in 1..n : i = 1 \/ (i - 1 \in 1..Len(r) /\ (i - 1) + 1 = i)
        BY <1>1
      <4> QED BY <4>1
    <3> QED BY <1>1, <3>1, <3>2, <3>4 DEF Settled
  <2>2. ASSUME NEW i \in 1..Len(r)
        PROVE  (\A k \in 1..i : ~Leaves(q[k], c)) <=>
                 ~Leaves(h, c) /\ \A k \in 1..(i - 1) : ~Leaves(r[k], c)
    <3>1. \A k \in 1..(i - 1) : k \in 1..Len(r) /\ k + 1 \in 1..i
      BY <1>1
    <3>2. \A k \in 1..i : k = 1 \/ (k - 1 \in 1..(i - 1) /\ k - 1 \in 1..Len(r) /\ (k - 1) + 1 = k)
      BY <1>1
    <3>3. 1 \in 1..i
      BY <1>1
    <3> QED BY <1>1, <3>1, <3>2, <3>3
  <2> QED BY <2>1, <2>2
<1>7. ~Leaves(h, c) /\ Settled(r, has, c) /\ (Joins(h, c) => has) => Settled(q, has, c)
  BY <1>6 DEF Settled
<1>8. Leaves(h, c) /\ Settled(r, FALSE, c) => Settled(q, has, c)
  BY <1>3, <1>6 DEF Settled
<1>9. Remains(in, q, c) <=> Remains((in \/ Joins(h, c)) /\ ~Leaves(h, c), r, c)
  <2>1. (\A k \in (1 + 1)..n : ~Leaves(q[k], c)) <=> Stays(r, c)
    <3>1. \A k \in (1 + 1)..n : k - 1 \in 1..Len(r) /\ (k - 1) + 1 = k
      BY <1>1
    <3>2. \A k \in 1..Len(r) : k + 1 \in (1 + 1)..n
      BY <1>1
    <3> QED BY <1>1, <3>1, <3>2 DEF Stays
  <2>2. ASSUME NEW i \in 1..Len(r)
        PROVE  (\A k \in ((i + 1) + 1)..n : ~Leaves(q[k], c)) <=>
                 \A k \in (i + 1)..Len(r) : ~Leaves(r[k], c)
    <3>1. \A k \in ((i + 1) + 1)..n : k - 1 \in (i + 1)..Len(r) /\ k - 1 \in 1..Len(r) /\ (k - 1) + 1 = k
      BY <1>1
    <3>2. \A k \in (i + 1)..Len(r) : k + 1 \in ((i + 1) + 1)..n /\ k \in 1..Len(r)
      BY <1>1
    <3> QED BY <1>1, <3>1, <3>2
  <2>3. (\E i \in 1..n : Joins(q[i], c) /\ \A k \in (i + 1)..n : ~Leaves(q[k], c)) <=>
          \/ Joins(h, c) /\ Stays(r, c)
          \/ \E i \in 1..Len(r) : Joins(r[i], c) /\ \A k \in (i + 1)..Len(r) : ~Leaves(r[k], c)
    <3>1. \A i \in 1..n : i = 1 \/ \E k \in 1..Len(r) : i = k + 1
      <4>1. \A i \in 1..n : i = 1 \/ (i - 1 \in 1..Len(r) /\ (i - 1) + 1 = i)
        BY <1>1
      <4> QED BY <4>1
    <3> QED BY <1>1, <2>1, <2>2, <3>1
  <2> QED BY <1>3, <1>5, <2>3 DEF Remains
<1> QED BY <1>4, <1>5, <1>7, <1>8, <1>9 DEF h, r

LEMMA NoWord ==
  ASSUME NEW q, Len(q) = 0, NEW c, NEW in, NEW has
  PROVE  /\ Still(q, c) /\ Stays(q, c) /\ Settled(q, has, c)
         /\ Remains(in, q, c) <=> in
BY DEF Still, Stays, Settled, Remains

\* What the pipes hold after a step was there, or is what was sent.
LEMMA StillAmong ==
  ASSUME TypeInv, NEW M, \A q \in Plugins : \A i \in 1..Len(pipe[q]) : pipe[q][i] \in M,
         NEW p \in Plugins, pipe[p] # << >>,
         \/ \A q \in Plugins : pipe'[q] = IF q = p THEN Tail(pipe[p]) ELSE pipe[q]
         \/ \E m \in M : Instead(p, m)
  PROVE  \A q \in Plugins : \A i \in 1..Len(pipe'[q]) : pipe'[q][i] \in M
<1>1. pipe \in [Plugins -> Seq(MessageSet)]
  BY DEF TypeInv, GoodPipes
<1> SUFFICES ASSUME NEW q \in Plugins
             PROVE  \A i \in 1..Len(pipe'[q]) : pipe'[q][i] \in M
  OBVIOUS
<1> DEFINE left == IF q = p THEN Tail(pipe[p]) ELSE pipe[q]
<1>2. left \in Seq(MessageSet) /\ \A i \in 1..Len(left) : left[i] \in M
  <2>1. CASE q = p
    <3>1. /\ Tail(pipe[p]) \in Seq(MessageSet)
          /\ \A i \in 1..Len(Tail(pipe[p])) :
               Tail(pipe[p])[i] = pipe[p][i + 1] /\ i + 1 \in 1..Len(pipe[p])
      BY <1>1, TailFacts
    <3> QED BY <2>1, <3>1
  <2>2. CASE q # p
    BY <1>1, <2>2
  <2> QED BY <2>1, <2>2
<1>3. pipe'[q] = left \/ \E m \in M : pipe'[q] = Append(left, m)
  BY DEF Instead
<1> HIDE DEF left
<1>4. ASSUME NEW m \in M, pipe'[q] = Append(left, m)
      PROVE  \A i \in 1..Len(pipe'[q]) : pipe'[q][i] \in M
  <2>1. left \in Seq(MessageSet \cup {m}) /\ m \in MessageSet \cup {m}
    BY <1>2, SeqOfMore
  <2>2. /\ Len(Append(left, m)) = Len(left) + 1 /\ Len(left) \in Nat
        /\ \A i \in 1..Len(left) : Append(left, m)[i] = left[i]
        /\ Append(left, m)[Len(left) + 1] = m
        /\ \A i \in 1..(Len(left) + 1) : i \in 1..Len(left) \/ i = Len(left) + 1
    BY <2>1, AppendFacts
  <2> QED BY <1>2, <1>4, <2>2
<1> QED BY <1>2, <1>3, <1>4

LEMMA LinesGoOn ==
  ASSUME TypeInv, AllForLines, NEW p \in Plugins, pipe[p] # << >>,
         \/ \A q \in Plugins : pipe'[q] = IF q = p THEN Tail(pipe[p]) ELSE pipe[q]
         \/ \E m : ForALine(m) /\ Instead(p, m)
  PROVE  AllForLines'
<1>1. pipe \in [Plugins -> Seq(MessageSet)]
  BY DEF TypeInv, GoodPipes
<1>2. ASSUME NEW N, \A m \in N : ForALine(m),
             \/ \A q \in Plugins : pipe'[q] = IF q = p THEN Tail(pipe[p]) ELSE pipe[q]
             \/ \E m \in N : Instead(p, m)
      PROVE  AllForLines'
  <2> DEFINE M == {m \in MessageSet \cup N : ForALine(m)}
  <2>1. \A q \in Plugins : \A i \in 1..Len(pipe[q]) : pipe[q][i] \in M
    BY <1>1 DEF AllForLines
  <2>2. N \subseteq M
    BY <1>2
  <2>3. \A m \in M : ForALine(m)
    OBVIOUS
  <2> HIDE DEF M
  <2>4. \A q \in Plugins : \A i \in 1..Len(pipe'[q]) : pipe'[q][i] \in M
    BY <1>2, <2>1, <2>2, StillAmong
  <2> QED BY <2>3, <2>4 DEF AllForLines
<1>3. CASE \A q \in Plugins : pipe'[q] = IF q = p THEN Tail(pipe[p]) ELSE pipe[q]
  <2>1. PICK N : N = {}
    OBVIOUS
  <2>2. \A m \in N : ForALine(m)
    BY <2>1
  <2> QED BY <1>2, <1>3, <2>2
<1>4. ASSUME NEW m, ForALine(m), Instead(p, m)
      PROVE  AllForLines'
  <2>1. PICK N : N = {m}
    OBVIOUS
  <2>2. (\A n \in N : ForALine(n)) /\ \E n \in N : Instead(p, n)
    BY <1>4, <2>1
  <2> QED BY <1>2, <2>2
<1> QED BY <1>3, <1>4

\* A step that says nothing about a channel to the antenna.
LEMMA PassTabbed ==
  ASSUME TypeInv, Tabbed, NEW p \in Plugins \ {"ui"}, pipe[p] # << >>,
         First(p).kind \notin {"set_channel", "leave_channel"},
         UNCHANGED <<tabs, joined, events>>,
         \/ \A q \in Plugins : pipe'[q] = IF q = p THEN Tail(pipe[p]) ELSE pipe[q]
         \/ \E m : /\ ForALine(m) /\ Instead(p, m)
                   /\ m.kind \in {"set_channel", "leave_channel"} => Head(m.to) # "antenna"
  PROVE  Tabbed'
<1>1. /\ pipe \in [Plugins -> Seq(MessageSet)] /\ "ui" \in Plugins /\ "antenna" \in Plugins
      /\ p \in Plugins /\ p # "ui"
  BY DEF TypeInv, GoodPipes, Plugins
<1>2. AllForLines'
  BY <1>1, LinesGoOn DEF Tabbed
<1>3. ASSUME NEW c \in Channels
      PROVE  Balanced(c)'
  <2> DEFINE left == IF "antenna" = p THEN Tail(pipe[p]) ELSE pipe["antenna"]
  <2>1. /\ left \in Seq(MessageSet)
        /\ Remains(c \in joined, left, c) <=> Remains(c \in joined, pipe["antenna"], c)
    <3>1. CASE p = "antenna"
      <4> DEFINE q == pipe["antenna"]
                 in == c \in joined
      <4>1. q \in Seq(MessageSet) /\ q # << >>
        BY <1>1, <3>1
      <4>2. ~Joins(Head(q), c) /\ ~Leaves(Head(q), c)
        BY <3>1 DEF Joins, Leaves, First
      <4>3. Tail(q) \in Seq(MessageSet)
        BY <4>1
      <4> HIDE DEF q, in
      <4>4. Remains(in, q, c) <=> Remains((in \/ Joins(Head(q), c)) /\ ~Leaves(Head(q), c), Tail(q), c)
        BY <4>1, FirstWord
      <4>5. Remains(in, q, c) <=> Remains(in, Tail(q), c)
        BY <4>2, <4>4 DEF Remains
      <4> QED BY <3>1, <4>3, <4>5 DEF q, in
    <3>2. CASE p # "antenna"
      BY <1>1, <3>2
    <3> QED BY <3>1, <3>2
  <2>2. \/ pipe'["antenna"] = left
        \/ \E m : /\ pipe'["antenna"] = Append(left, m)
                  /\ m.kind \notin {"set_channel", "leave_channel"}
    BY <1>1 DEF Instead
  <2>3. pipe'["ui"] = pipe["ui"] \/ \E m : pipe'["ui"] = Append(pipe["ui"], m)
    BY <1>1 DEF Instead
  <2> HIDE DEF left
  <2>4. Remains(c \in joined, pipe'["antenna"], c) <=> Remains(c \in joined, pipe["antenna"], c)
    <3>1. CASE pipe'["antenna"] = left
      BY <2>1, <3>1
    <3>2. ASSUME NEW m, pipe'["antenna"] = Append(left, m),
                 m.kind \notin {"set_channel", "leave_channel"}
          PROVE  Remains(c \in joined, pipe'["antenna"], c) <=> Remains(c \in joined, left, c)
      <4>1. ~Joins(m, c) /\ ~Leaves(m, c)
        BY <3>2 DEF Joins, Leaves
      <4> DEFINE in == c \in joined
      <4>2. Remains(in, Append(left, m), c) <=> Joins(m, c) \/ (Remains(in, left, c) /\ ~Leaves(m, c))
        BY <2>1, LastWord
      <4> QED BY <3>2, <4>1, <4>2
    <3> QED BY <2>1, <2>2, <3>1, <3>2
  <2>5. Still(pipe'["ui"], c) => Still(pipe["ui"], c)
    <3>1. ASSUME NEW m, pipe'["ui"] = Append(pipe["ui"], m)
          PROVE  Still(pipe'["ui"], c) => Still(pipe["ui"], c)
      <4>1. pipe["ui"] \in Seq(MessageSet)
        BY <1>1
      <4> QED BY <3>1, <4>1, LastWord
    <3> QED BY <2>3, <3>1
  <2>6. Balanced(c)
    BY DEF Tabbed
  <2> QED BY <2>4, <2>5, <2>6 DEF Balanced
<1> QED BY <1>2, <1>3 DEF Tabbed

LEMMA FrontGood ==
  ASSUME TypeInv, NEW p \in Plugins, pipe[p] # << >>
  PROVE  /\ Good(ui, typed, session, p, First(p))
         /\ First(p).kind = "shutdown" \/ First(p).kind \in KindsOf(ui, p)
         /\ First(p) = pipe[p][1] /\ 1 \in 1..Len(pipe[p])
<1>1. GoodPipes(ui, typed, session, pipe)
  BY DEF TypeInv
<1>2. Good(ui, typed, session, p, First(p))
  BY <1>1, ReadGood DEF First
<1>3. Head(pipe[p]) = pipe[p][1] /\ 1 \in 1..Len(pipe[p])
  BY <1>1, TailFacts DEF GoodPipes
<1> QED BY <1>2, <1>3 DEF First, Good, Placed

\* Qt: the window is told first, then the antenna.
LEMMA WindowFirst ==
  ASSUME Qt, NEW kind \in {"set_channel", "leave_channel"}
  PROVE  /\ Route(kind) = <<"ui", "antenna">> /\ Head(Route(kind)) = "ui"
         /\ Tail(Way(ui, "ui", kind)) = <<"antenna">> /\ Tail(Way(ui, "antenna", kind)) = << >>
         /\ <<"antenna">> # << >> /\ Head(<<"antenna">>) = "antenna"
<1>1. ui # "console"
  BY DEF Qt
<1>2. Route(kind) = <<"ui", "antenna">>
  BY <1>1 DEF Route
<1>3. Way(ui, "ui", kind) = <<"ui", "antenna">> /\ Way(ui, "antenna", kind) = <<"antenna">>
  BY <1>1 DEF Way
<1> QED BY <1>2, <1>3, Stages

LEMMA GrinderTabbed ==
  ASSUME TypeInv, LogInv, Qt, Tabbed, MeatgrinderStep, phase = "running", phase' = "running"
  PROVE  Tabbed'
<1> DEFINE p == "meatgrinder"
<1>1. p \in Plugins \ {"ui"} /\ UNCHANGED <<tabs, joined, events>>
  BY DEF Plugins, MeatgrinderStep, qtVars
<1>2. pipe[p] # << >>
  BY GrinderShape
<1>3. First(p).kind \in {"raw_edict", "register_replacer", "display_commands"} /\ ForALine(First(p))
  <2>1. /\ First(p).kind = "shutdown" \/ First(p).kind \in KindsOf(ui, p)
        /\ First(p) = pipe[p][1] /\ 1 \in 1..Len(pipe[p])
    BY <1>1, <1>2, FrontGood
  <2>2. First(p).kind # "shutdown"
    BY <1>1, <2>1 DEF LogInv, Closing
  <2> QED BY <1>1, <2>1, <2>2 DEF KindsOf, Tabbed, AllForLines
<1>4. ~Crash /\ ~HandleQuit
  BY DEF Crash, HandleQuit, InitiateShutdown
<1>5. CASE pipe' = Rest(p)
  <2>1. \A q \in Plugins : pipe'[q] = IF q = p THEN Tail(pipe[p]) ELSE pipe[q]
    BY <1>1, <1>2, <1>5, RestAt
  <2> QED BY <1>1, <1>2, <1>3, <2>1, PassTabbed
<1>6. ASSUME NEW m, m.line = Edict.line, m.to = Route(m.kind),
             Head(m.to) \in Plugins, pipe' = Put(Rest(p), m)
      PROVE  Tabbed'
  <2>1. Instead(p, m)
    BY <1>1, <1>2, <1>6, WriteInstead
  <2>2. ForALine(m)
    BY <1>3, <1>6 DEF ForALine, Edict
  <2>3. m.kind \in {"set_channel", "leave_channel"} => Head(m.to) # "antenna"
    BY <1>6, WindowFirst
  <2> QED BY <1>1, <1>2, <1>3, <2>1, <2>2, <2>3, PassTabbed
<1> QED BY <1>4, <1>5, <1>6, GrinderShape

\* Who joins or leaves a channel on the way is in it, or not, from then on.
LEMMA AntennaTabbed ==
  ASSUME TypeInv, Qt, Tabbed, ~LeftAll, AntennaStep, phase = "running"
  PROVE  Tabbed'
<1> DEFINE p == "antenna"
           h == First(p)
           q == pipe[p]
<1>1. /\ p \in Plugins \ {"ui"} /\ "ui" \in Plugins /\ UNCHANGED <<tabs, events>>
      /\ pipe \in [Plugins -> Seq(MessageSet)] /\ ui \in {"console", "qt", "qtFirst"}
  BY DEF Plugins, AntennaStep, qtVars, TypeInv, GoodPipes
<1>2. CASE SendEdict
  <2> DEFINE m == About("received", h.line, h.channel)
  <2>1. h.kind = "edict" /\ q # << >> /\ joined' = joined /\ pipe' = Put(Rest(p), m)
    BY <1>2 DEF SendEdict, Reads, Write
  <2>2. Head(m.to) \in Plugins /\ m.kind = "received"
    BY <1>1, MessageHead DEF About
  <2> HIDE DEF m
  <2>3. Instead(p, m) /\ ForALine(m)
    BY <1>1, <2>1, <2>2, WriteInstead DEF ForALine
  <2> QED BY <1>1, <2>1, <2>2, <2>3, PassTabbed
<1>3. CASE SendJoin \/ SendLeft
  <2>1. /\ h.kind \in {"set_channel", "leave_channel"} /\ q # << >>
        /\ pipe' = Echo(Rest(p), h)
    BY <1>3 DEF SendJoin, SendLeft, Reads
  <2>2. Tail(Way(ui, p, h.kind)) = << >>
    BY <2>1, WindowFirst
  <2>3. \A x \in Plugins : pipe'[x] = IF x = p THEN Tail(pipe[p]) ELSE pipe[x]
    BY <1>1, <2>1, <2>2, EchoAt
  <2>4. AllForLines'
    BY <1>1, <2>1, <2>3, LinesGoOn DEF Tabbed
  <2>5. Good(ui, typed, session, p, h) /\ h = q[1] /\ 1 \in 1..Len(q)
    BY <1>1, <2>1, FrontGood
  <2>6. h.kind = "leave_channel" => h.channel # Blank
    <3>1. SUFFICES ASSUME h.kind = "leave_channel", h.channel = Blank
                   PROVE  FALSE
      OBVIOUS
    <3>2. ForALine(h)
      BY <1>1, <2>5 DEF Tabbed, AllForLines
    <3>3. h.line # 0 /\ h \in MessageSet
      BY <2>5, <3>1, <3>2 DEF ForALine, Good
    <3>4. h.line \in Nat /\ h.line <= Len(typed) /\ Nameless(typed, h.line, "/leave")
      BY <2>5, <3>1, <3>3, FieldTypes DEF Good, Origin
    <3>5. h.line \in 1..Len(typed)
      BY <3>3, <3>4 DEF TypeInv, HistoryType
    <3> QED BY <3>4, <3>5 DEF Nameless, LeftAll
  <2> HIDE DEF h
  <2>7. ASSUME NEW c \in Channels
        PROVE  c \in joined' <=> (c \in joined \/ Joins(h, c)) /\ ~Leaves(h, c)
    <3>1. CASE SendJoin
      <4>1. h.kind = "set_channel" /\ joined' = joined \cup {h.channel}
        BY <3>1 DEF SendJoin, Reads, h
      <4> QED BY <4>1 DEF Joins, Leaves
    <3>2. CASE SendLeft
      <4>1. /\ h.kind = "leave_channel"
            /\ joined' = IF h.channel = Blank THEN {} ELSE joined \ {h.channel}
        BY <3>2 DEF SendLeft, Reads, h
      <4> QED BY <2>6, <4>1 DEF Joins, Leaves
    <3> QED BY <1>3, <3>1, <3>2
  <2>8. ASSUME NEW c \in Channels
        PROVE  Balanced(c)'
    <3> DEFINE in == c \in joined
               new == (in \/ Joins(h, c)) /\ ~Leaves(h, c)
    <3>1. q \in Seq(MessageSet) /\ q # << >> /\ Head(q) = h
      BY <1>1, <2>1 DEF First, h
    <3>2. pipe'[p] = Tail(q) /\ pipe'["ui"] = pipe["ui"]
      BY <1>1, <2>3
    <3> HIDE DEF q, in
    <3>3. Remains(in, q, c) <=> Remains(new, Tail(q), c)
      <4>1. Remains(in, q, c) <=> Remains((in \/ Joins(Head(q), c)) /\ ~Leaves(Head(q), c), Tail(q), c)
        BY <3>1, FirstWord
      <4> QED BY <3>1, <4>1
    <3>4. (c \in joined') <=> new
      BY <2>7 DEF in
    <3>5. Remains(c \in joined', pipe'[p], c) <=> Remains(in, q, c)
      BY <3>2, <3>3, <3>4 DEF Remains
    <3>6. Balanced(c)
      BY DEF Tabbed
    <3> QED BY <1>1, <3>2, <3>5, <3>6 DEF Balanced, q, in
  <2> QED BY <2>4, <2>8 DEF Tabbed
<1> QED BY <1>2, <1>3 DEF AntennaStep

\* What the window hears of, the antenna hears of as well.
LEMMA EmitTabbed ==
  ASSUME TypeInv, Qt, Tabbed, Emit, phase = "running"
  PROVE  Tabbed'
<1> DEFINE p == "ui"
           h == First(p)
           q == pipe[p]
           e == [kind |-> h.kind, line |-> h.line, channel |-> h.channel]
           a == pipe["antenna"]
<1>1. /\ p \in Plugins /\ "antenna" \in Plugins /\ p # "antenna" /\ UNCHANGED <<tabs, joined>>
      /\ pipe \in [Plugins -> Seq(MessageSet)] /\ events \in Seq(Signal)
  BY DEF Plugins, Emit, TypeInv, GoodPipes, GoodEvents
<1>2. /\ h.kind \in {"display", "set_channel", "leave_channel"} /\ q # << >>
      /\ pipe' = Echo(Rest(p), h) /\ events' = Append(events, e)
  BY DEF Emit, Reads, Reading
<1>3. h = q[1] /\ 1 \in 1..Len(q)
  BY <1>1, <1>2, FrontGood
<1>4. q \in Seq(MessageSet) /\ Head(q) = h
  BY <1>1 DEF First
<1>5. /\ \/ \A x \in Plugins : pipe'[x] = IF x = p THEN Tail(pipe[p]) ELSE pipe[x]
         \/ \E m : ForALine(m) /\ Instead(p, m)
      /\ pipe'[p] = Tail(q)
      /\ \/ pipe'["antenna"] = a /\ h.kind = "display"
         \/ \E m : /\ pipe'["antenna"] = Append(a, m)
                   /\ m.kind = h.kind /\ m.channel = h.channel
  <2> DEFINE left == Tail(Way(ui, p, h.kind))
  <2>1. \/ /\ left = << >>
           /\ \A x \in Plugins : pipe'[x] = IF x = p THEN Tail(pipe[p]) ELSE pipe[x]
        \/ /\ left # << >>
           /\ \E m : /\ m.kind = h.kind /\ m.line = h.line /\ m.channel = h.channel
                     /\ m.to = left /\ Head(m.to) \in Plugins /\ Instead(p, m)
    BY <1>1, <1>2, EchoAt
  <2>2. ForALine(h)
    BY <1>1, <1>3 DEF Tabbed, AllForLines
  <2>3. h.kind # "display" => left = <<"antenna">>
    BY <1>2, WindowFirst
  <2>4. h.kind = "display" => left = << >> \/ left = <<"logger">>
    <3>1. h.kind = "display" => Way(ui, p, h.kind) \in {<<"ui">>, <<"ui", "logger">>}
      BY DEF Way
    <3>2. Tail(<<"ui">>) = << >> /\ Tail(<<"ui", "logger">>) = <<"logger">>
      BY Stages
    <3> QED BY <3>1, <3>2
  <2>5. Head(<<"antenna">>) = "antenna" /\ <<"antenna">> # << >> /\ Head(<<"logger">>) = "logger"
    BY Stages
  <2> HIDE DEF left, h
  <2>6. CASE /\ left = << >>
             /\ \A x \in Plugins : pipe'[x] = IF x = p THEN Tail(pipe[p]) ELSE pipe[x]
    BY <1>1, <2>3, <2>5, <2>6
  <2>7. ASSUME NEW m, m.kind = h.kind, m.line = h.line, m.channel = h.channel, m.to = left,
               left # << >>, Instead(p, m)
        PROVE  /\ ForALine(m) /\ pipe'[p] = Tail(q)
               /\ \/ pipe'["antenna"] = a /\ h.kind = "display"
                  \/ pipe'["antenna"] = Append(a, m)
    <3>1. ForALine(m)
      BY <2>2, <2>7 DEF ForALine
    <3>2. Head(m.to) # p
      BY <2>3, <2>4, <2>5, <2>7
    <3>3. h.kind = "display" => Head(m.to) # "antenna"
      BY <2>4, <2>5, <2>7
    <3>4. h.kind # "display" => Head(m.to) = "antenna"
      BY <2>3, <2>5, <2>7
    <3> QED BY <1>1, <2>7, <3>1, <3>2, <3>3, <3>4 DEF Instead
  <2> QED BY <2>1, <2>6, <2>7
<1>6. AllForLines'
  BY <1>1, <1>2, <1>5, LinesGoOn DEF Tabbed
<1>7. e.kind = h.kind /\ e.channel = h.channel
  OBVIOUS
<1> HIDE DEF h, e
<1>8. ASSUME NEW c \in Channels
      PROVE  Balanced(c)'
  <2> DEFINE in == c \in joined
             has == c \in tabs
             b == pipe'["antenna"]
             es == events'
  <2>1. /\ Joins(e, c) <=> Joins(h, c)
        /\ Leaves(e, c) <=> Leaves(h, c)
        /\ Joins(h, c) => ~Leaves(h, c)
    BY <1>7 DEF Joins, Leaves
  <2>2. Still(q, c) <=> Still(pipe'[p], c) /\ ~Joins(h, c) /\ ~Leaves(h, c)
    BY <1>2, <1>4, <1>5, FirstWord
  <2>3. /\ Stays(es, c) <=> Stays(events, c) /\ ~Leaves(h, c)
        /\ Settled(es, has, c) <=>
             Settled(events, has, c) /\ (Joins(h, c) => has /\ Stays(events, c))
    <3> HIDE DEF has, e
    <3>1. LET r == Append(events, e)
          IN  /\ Stays(r, c) <=> Stays(events, c) /\ ~Leaves(e, c)
              /\ Settled(r, has, c) <=>
                   Settled(events, has, c) /\ (Joins(e, c) => has /\ Stays(events, c))
      BY <1>1, LastWord
    <3> QED BY <1>2, <2>1, <3>1
  <2>4. Remains(in, b, c) <=> Joins(h, c) \/ (Remains(in, a, c) /\ ~Leaves(h, c))
    <3>1. CASE b = a /\ h.kind = "display"
      BY <3>1 DEF Joins, Leaves
    <3>2. ASSUME NEW m, b = Append(a, m), m.kind = h.kind, m.channel = h.channel
          PROVE  Remains(in, b, c) <=> Joins(h, c) \/ (Remains(in, a, c) /\ ~Leaves(h, c))
      <4>1. (Joins(m, c) <=> Joins(h, c)) /\ (Leaves(m, c) <=> Leaves(h, c))
        BY <3>2 DEF Joins, Leaves
      <4>2. a \in Seq(MessageSet)
        BY <1>1
      <4> HIDE DEF in, a, b
      <4>3. Remains(in, Append(a, m), c) <=> Joins(m, c) \/ (Remains(in, a, c) /\ ~Leaves(m, c))
        BY <4>2, LastWord
      <4> QED BY <3>2, <4>1, <4>3
    <3> QED BY <1>5, <3>1, <3>2
  <2>5. Still(q, c) /\ Settled(events, has, c) => (Remains(in, a, c) <=> has /\ Stays(events, c))
    BY DEF Tabbed, Balanced
  <2>6. Still(pipe'[p], c) /\ Settled(es, has, c) => (Remains(in, b, c) <=> has /\ Stays(es, c))
    <3> HIDE DEF in, has, b, es, q, a
    <3> QED BY <2>1, <2>2, <2>3, <2>4, <2>5
  <2> QED BY <1>1, <2>6 DEF Balanced
<1> QED BY <1>6, <1>8 DEF Tabbed

\* The window opens a tab and tells so, or closes one that was left.
LEMMA WindowTabbed ==
  ASSUME TypeInv, Qt, Tabbed, connected, WindowStep, phase = "running", phase' = "running"
  PROVE  Tabbed'
<1> DEFINE e == Head(events)
           es == Tail(events)
<1>1. /\ events # << >> /\ events' = es /\ joined' = joined
      /\ pipe \in [Plugins -> Seq(MessageSet)] /\ events \in Seq(Signal)
      /\ "ui" \in Plugins /\ "antenna" \in Plugins /\ ui \in {"console", "qt", "qtFirst"}
  BY DEF WindowStep, display, focus, leave, Takes, TypeInv, GoodPipes, GoodEvents, Plugins
<1>2. ASSUME NEW c
      PROVE  /\ Stays(events, c) <=> Stays(es, c) /\ ~Leaves(e, c)
             /\ ~Leaves(e, c) /\ Settled(es, c \in tabs, c) /\ (Joins(e, c) => c \in tabs)
                  => Settled(events, c \in tabs, c)
             /\ Leaves(e, c) /\ Settled(es, FALSE, c) => Settled(events, c \in tabs, c)
  <2> DEFINE has == c \in tabs
  <2> HIDE DEF has
  <2>1. Stays(events, c) <=> Stays(es, c) /\ ~Leaves(e, c)
    BY <1>1, FirstWord
  <2>2. ~Leaves(e, c) /\ Settled(es, has, c) /\ (Joins(e, c) => has) => Settled(events, has, c)
    BY <1>1, FirstWord
  <2>3. Leaves(e, c) /\ Settled(es, FALSE, c) => Settled(events, has, c)
    BY <1>1, FirstWord
  <2> QED BY <2>1, <2>2, <2>3 DEF has
<1> HIDE DEF e, es
<1>3. ASSUME NEW c \in Channels
      PROVE  Still(pipe["ui"], c) /\ Settled(events, c \in tabs, c) =>
               (Remains(c \in joined, pipe["antenna"], c) <=> c \in tabs /\ Stays(events, c))
  BY DEF Tabbed, Balanced
\* Nothing is sent, and the tab, if the signal is about it, is as it asks for.
<1>4. ASSUME pipe' = pipe, NEW c \in Channels, c \in tabs' <=> c \in tabs /\ ~Leaves(e, c),
             Joins(e, c) => c \in tabs
      PROVE  Balanced(c)'
  <2>1. CASE Leaves(e, c)
    <3>1. Settled(es, c \in tabs', c) => Settled(es, FALSE, c)
      BY <1>4, <2>1 DEF Settled
    <3> QED BY <1>1, <1>2, <1>3, <1>4, <2>1, <3>1 DEF Balanced
  <2>2. CASE ~Leaves(e, c)
    <3>1. (c \in tabs') <=> c \in tabs
      BY <1>4, <2>2
    <3>2. Settled(es, c \in tabs', c) => Settled(events, c \in tabs, c)
      <4>1. Settled(es, c \in tabs', c) => Settled(es, c \in tabs, c)
        BY <3>1 DEF Settled
      <4>2. Settled(es, c \in tabs, c) /\ (Joins(e, c) => c \in tabs) => Settled(events, c \in tabs, c)
        BY <1>2, <2>2
      <4> QED BY <1>4, <4>1, <4>2
    <3> QED BY <1>1, <1>2, <1>3, <1>4, <2>2, <3>1, <3>2 DEF Balanced
  <2> QED BY <2>1, <2>2
<1>5. CASE display
  <2>1. e.kind = "display" /\ pipe' = pipe /\ tabs' = tabs
    BY <1>5 DEF display, Takes, Crash, e
  <2>2. \A c : ~Leaves(e, c) /\ ~Joins(e, c)
    BY <2>1 DEF Leaves, Joins
  <2> QED BY <1>4, <2>1, <2>2 DEF Tabbed, AllForLines
<1>6. CASE leave
  <2>1. e.kind = "leave_channel" /\ pipe' = pipe /\ tabs' = tabs \ {e.channel}
    BY <1>6 DEF leave, Takes, e
  <2>2. \A c : (Leaves(e, c) <=> c = e.channel) /\ ~Joins(e, c)
    BY <2>1 DEF Leaves, Joins
  <2> QED BY <1>4, <2>1, <2>2 DEF Tabbed, AllForLines
<1>7. CASE focus /\ e.channel \in tabs
  <2>1. e.kind = "set_channel" /\ pipe' = pipe /\ tabs' = tabs
    BY <1>7 DEF focus, Takes, e
  <2>2. \A c : ~Leaves(e, c) /\ (Joins(e, c) <=> c = e.channel)
    BY <2>1 DEF Leaves, Joins
  <2> QED BY <1>4, <1>7, <2>1, <2>2 DEF Tabbed, AllForLines
<1>8. CASE focus /\ e.channel \notin tabs
  <2> DEFINE m == About("set_channel", e.line, e.channel)
  <2>1. e.kind = "set_channel" /\ pipe' = Put(pipe, m) /\ tabs' = tabs \cup {e.channel}
    BY <1>8 DEF focus, Takes, e
  <2>2. m.kind = "set_channel" /\ m.channel = e.channel /\ Head(m.to) = "ui"
    BY WindowFirst, AboutFields DEF About
  <2> HIDE DEF m
  <2>3. \A x \in Plugins : pipe'[x] = IF x = "ui" THEN Append(pipe[x], m) ELSE pipe[x]
    BY <1>1, <2>1, <2>2, PutAt
  <2>4. \A c : ~Leaves(e, c) /\ (Joins(e, c) <=> c = e.channel) /\ (Joins(m, c) <=> c = e.channel)
    BY <2>1, <2>2 DEF Leaves, Joins
  <2>5. AllForLines'
    <3>1. ForALine(m)
      BY <2>2 DEF ForALine
    <3>2. pipe["ui"] \in Seq(MessageSet \cup {m}) /\ m \in MessageSet \cup {m}
      BY <1>1, SeqOfMore
    <3>3. \A i \in 1..Len(Append(pipe["ui"], m)) : ForALine(Append(pipe["ui"], m)[i])
      BY <1>1, <3>1, <3>2, AppendFacts DEF Tabbed, AllForLines
    <3> QED BY <2>3, <3>3 DEF Tabbed, AllForLines
  <2>6. ASSUME NEW c \in Channels
        PROVE  Balanced(c)'
    <3>1. CASE c = e.channel
      <4>1. pipe["ui"] \in Seq(MessageSet)
        BY <1>1
      <4>2. ~Still(Append(pipe["ui"], m), c)
        BY <2>4, <3>1, <4>1, LastWord
      <4> QED BY <1>1, <2>3, <4>2 DEF Balanced
    <3>2. CASE c # e.channel
      <4>1. Still(pipe'["ui"], c) => Still(pipe["ui"], c)
        <5>1. pipe["ui"] \in Seq(MessageSet)
          BY <1>1
        <5> QED BY <1>1, <2>3, <5>1, LastWord
      <4>2. (c \in tabs') <=> c \in tabs
        BY <2>1, <3>2
      <4>3. Settled(es, c \in tabs', c) => Settled(events, c \in tabs, c)
        <5>1. Settled(es, c \in tabs', c) => Settled(es, c \in tabs, c)
          BY <4>2 DEF Settled
        <5>2. Settled(es, c \in tabs, c) /\ (Joins(e, c) => c \in tabs) => Settled(events, c \in tabs, c)
          BY <1>2, <2>4
        <5> QED BY <2>4, <3>2, <5>1, <5>2
      <4>4. pipe'["antenna"] = pipe["antenna"]
        BY <1>1, <2>3
      <4>5. Stays(events, c) <=> Stays(es, c)
        BY <1>2, <2>4
      <4> QED BY <1>1, <1>3, <4>1, <4>2, <4>3, <4>4, <4>5 DEF Balanced
    <3> QED BY <3>1, <3>2
  <2> QED BY <2>5, <2>6 DEF Tabbed
<1> QED BY <1>5, <1>6, <1>7, <1>8 DEF WindowStep

\* While the channels are left, one after the other.
LEMMA LeavingGoesOn ==
  ASSUME TypeInv, LogInv, Qt, Leaving, NEW p \in Plugins, PluginStep(p),
         phase = "running", phase' = "running"
  PROVE  Leaving'
<1> DEFINE h == First(p)
           K == {"leave_channel", "logging"}
           TakenOff == \A x \in Plugins : pipe'[x] = IF x = p THEN Tail(pipe[p]) ELSE pipe[x]
<1>1. /\ pipe \in [Plugins -> Seq(MessageSet)] /\ events \in Seq(Signal)
      /\ "ui" \in Plugins /\ "antenna" \in Plugins /\ "ui" # "antenna"
  BY DEF TypeInv, GoodPipes, GoodEvents, Plugins
<1>2. ASSUME pipe[p] # << >>
      PROVE  /\ h.kind \in K /\ h.kind \in KindsOf(ui, p)
             /\ pipe[p] \in Seq(MessageSet) /\ Head(pipe[p]) = h
  <2>1. /\ h.kind = "shutdown" \/ h.kind \in KindsOf(ui, p)
        /\ h = pipe[p][1] /\ 1 \in 1..Len(pipe[p])
    BY <1>2, FrontGood
  <2>2. h.kind \in K
    BY <2>1 DEF Leaving
  <2> QED BY <1>1, <2>1, <2>2 DEF First
<1>3. ASSUME pipe[p] # << >>, TakenOff \/ \E m : m.kind \in K /\ Instead(p, m)
      PROVE  \A q \in Plugins : \A i \in 1..Len(pipe'[q]) : pipe'[q][i].kind \in K
  <2>1. PICK N : /\ \A m \in N : m.kind \in K
                 /\ TakenOff \/ \E m \in N : Instead(p, m)
    <3>1. CASE TakenOff
      <4>1. PICK N : N = {}
        OBVIOUS
      <4> QED BY <3>1, <4>1
    <3>2. ASSUME NEW m, m.kind \in K, Instead(p, m)
          PROVE  \E N : /\ \A n \in N : n.kind \in K
                        /\ \E n \in N : Instead(p, n)
      <4>1. PICK N : N = {m}
        OBVIOUS
      <4> HIDE DEF K
      <4>2. /\ \A n \in N : n.kind \in K
            /\ \E n \in N : Instead(p, n)
        BY <3>2, <4>1
      <4> QED BY <4>2
    <3> HIDE DEF K, TakenOff
    <3> QED BY <1>3, <3>1, <3>2
  <2> DEFINE M == {m \in MessageSet \cup N : m.kind \in K}
  <2>2. \A q \in Plugins : \A i \in 1..Len(pipe[q]) : pipe[q][i] \in M
    BY <1>1 DEF Leaving
  <2>3. N \subseteq M /\ \A m \in M : m.kind \in K
    BY <2>1
  <2> HIDE DEF M, K
  <2>4. \A q \in Plugins : \A i \in 1..Len(pipe'[q]) : pipe'[q][i] \in M
    BY <1>3, <2>1, <2>2, <2>3, StillAmong
  <2> QED BY <2>3, <2>4
<1> HIDE DEF K, TakenOff
<1>4. /\ \A i \in 1..Len(events) : events[i].kind = "leave_channel"
      /\ \A c \in tabs : ~Stays(pipe["ui"], c) \/ ~Stays(events, c)
      /\ \A c \in joined : ~Stays(pipe["ui"], c) \/ ~Stays(pipe["antenna"], c)
  BY DEF Leaving
<1>5. CASE Stop(p)
  BY <1>5 DEF Stop
<1>6. CASE p = "meatgrinder" /\ MeatgrinderStep
  <2>1. pipe[p] # << >>
    BY <1>6, GrinderShape
  <2> QED BY <1>2, <1>6, <2>1 DEF K, KindsOf
<1>7. CASE p = "antenna" /\ AntennaStep
  <2>1. pipe[p] # << >> /\ UNCHANGED <<tabs, events>>
    BY <1>7 DEF AntennaStep, SendEdict, SendJoin, SendLeft, Reads, qtVars
  <2>2. SendLeft
    BY <1>2, <1>7, <2>1 DEF AntennaStep, SendEdict, SendJoin, Reads, K
  <2>3. /\ h.kind = "leave_channel" /\ pipe' = Echo(Rest(p), h)
        /\ joined' \subseteq joined \ {h.channel}
    BY <1>7, <2>2 DEF SendLeft, Reads
  <2>4. Tail(Way(ui, p, h.kind)) = << >>
    BY <1>7, <2>3, WindowFirst
  <2>5. TakenOff
    BY <2>1, <2>3, <2>4, EchoAt DEF TakenOff
  <2>6. ASSUME NEW c \in joined'
        PROVE  ~Stays(pipe'["ui"], c) \/ ~Stays(pipe'["antenna"], c)
    <3>1. c \in joined /\ ~Leaves(h, c)
      BY <2>3 DEF Leaves
    <3>2. Stays(pipe[p], c) <=> Stays(Tail(pipe[p]), c) /\ ~Leaves(h, c)
      <4> HIDE DEF h
      <4>1. Stays(pipe[p], c) <=> Stays(Tail(pipe[p]), c) /\ ~Leaves(Head(pipe[p]), c)
        BY <1>2, <2>1, FirstWord
      <4> QED BY <1>2, <2>1, <4>1
    <3> QED BY <1>1, <1>4, <1>7, <2>5, <3>1, <3>2 DEF TakenOff
  <2>7. pipe'["ui"] = pipe["ui"]
    BY <1>1, <1>7, <2>5 DEF TakenOff
  <2> QED BY <1>3, <1>4, <2>1, <2>5, <2>6, <2>7 DEF Leaving, K
<1>8. CASE p = "masseuse" /\ MasseuseStep
  <2>1. pipe[p] # << >> /\ h.kind \in {"received", "notify"}
    BY <1>8 DEF MasseuseStep, Translate, Reads
  <2> QED BY <1>2, <2>1 DEF K
<1>9. CASE p = "logger" /\ LoggerStep
  <2>1. pipe[p] # << >> /\ UNCHANGED <<tabs, events, joined>>
    BY <1>9 DEF LoggerStep, LogDisplay, SetMode, Reads, qtVars
  <2>2. SetMode
    BY <1>2, <1>9, <2>1 DEF LoggerStep, LogDisplay, Reads, K
  <2>3. pipe' = Rest(p)
    BY <1>9, <2>2 DEF SetMode, Swallow
  <2>4. TakenOff
    BY <2>1, <2>3, RestAt DEF TakenOff
  <2>5. pipe'["ui"] = pipe["ui"] /\ pipe'["antenna"] = pipe["antenna"]
    BY <1>1, <1>9, <2>4 DEF TakenOff
  <2> QED BY <1>3, <1>4, <2>1, <2>4, <2>5 DEF Leaving, K
<1>10. CASE p = "ui" /\ ConsoleStep
  BY <1>10 DEF ConsoleStep, Qt
<1>11. CASE p = "ui" /\ Emit
  <2> DEFINE e == [kind |-> h.kind, line |-> h.line, channel |-> h.channel]
             a == pipe["antenna"]
  <2>1. /\ pipe[p] # << >> /\ UNCHANGED <<tabs, joined>>
        /\ h.kind \in {"display", "set_channel", "leave_channel"}
        /\ pipe' = Echo(Rest(p), h) /\ events' = Append(events, e)
    BY <1>11 DEF Emit, Reads, Reading
  <2>2. h.kind = "leave_channel"
    BY <1>2, <2>1 DEF K
  <2>3. Tail(Way(ui, p, h.kind)) = <<"antenna">> /\ <<"antenna">> # << >> /\ Head(<<"antenna">>) = "antenna"
    BY <1>11, <2>2, WindowFirst
  <2>4. PICK m : m.kind = h.kind /\ m.channel = h.channel /\ Head(m.to) = "antenna" /\ Instead(p, m)
    <3>1. \E m : /\ m.kind = h.kind /\ m.channel = h.channel
                 /\ m.to = Tail(Way(ui, p, h.kind)) /\ Instead(p, m)
      BY <2>1, <2>2, <2>3, EchoAt
    <3> QED BY <2>3, <3>1
  <2>5. pipe'["ui"] = Tail(pipe[p]) /\ pipe'["antenna"] = Append(a, m)
    BY <1>1, <1>11, <2>4 DEF Instead
  <2>6. e.kind = h.kind /\ e.channel = h.channel
    OBVIOUS
  <2> HIDE DEF e, h
  <2>7. ASSUME NEW c
        PROVE  /\ Stays(pipe["ui"], c) <=> Stays(pipe'["ui"], c) /\ ~Leaves(h, c)
               /\ Stays(pipe'["antenna"], c) <=> Stays(a, c) /\ ~Leaves(h, c)
               /\ Stays(events', c) <=> Stays(events, c) /\ ~Leaves(h, c)
    <3>1. (Leaves(m, c) <=> Leaves(h, c)) /\ (Leaves(e, c) <=> Leaves(h, c))
      BY <2>4, <2>6 DEF Leaves
    <3>2. Stays(pipe[p], c) <=> Stays(Tail(pipe[p]), c) /\ ~Leaves(Head(pipe[p]), c)
      BY <1>2, <2>1, FirstWord
    <3>3. Stays(Append(a, m), c) <=> Stays(a, c) /\ ~Leaves(m, c)
      BY <1>1, LastWord
    <3>4. Stays(Append(events, e), c) <=> Stays(events, c) /\ ~Leaves(e, c)
      BY <1>1, LastWord
    <3> QED BY <1>2, <1>11, <2>1, <2>5, <3>1, <3>2, <3>3, <3>4
  <2>8. \A i \in 1..Len(events') : events'[i].kind = "leave_channel"
    <3>1. events \in Seq(Signal \cup {e}) /\ e \in Signal \cup {e}
      BY <1>1, SeqOfMore
    <3>2. /\ Len(events') = Len(events) + 1 /\ events'[Len(events) + 1] = e
          /\ \A i \in 1..Len(events) : events'[i] = events[i]
          /\ \A i \in 1..(Len(events) + 1) : i \in 1..Len(events) \/ i = Len(events) + 1
      BY <2>1, <3>1, AppendFacts
    <3> QED BY <1>4, <2>2, <2>6, <3>2
  <2>9. m.kind \in K
    BY <2>2, <2>4 DEF K
  <2> QED BY <1>3, <1>4, <2>1, <2>4, <2>7, <2>8, <2>9 DEF Leaving, K
<1> QED BY <1>5, <1>6, <1>7, <1>8, <1>9, <1>10, <1>11 DEF PluginStep

LEMMA WindowLeaves ==
  ASSUME TypeInv, Leaving, WindowStep, phase' = "running"
  PROVE  Leaving'
<1> DEFINE e == Head(events)
<1>1. /\ events # << >> /\ events' = Tail(events) /\ joined' = joined /\ events \in Seq(Signal)
  BY DEF WindowStep, display, focus, leave, Takes, TypeInv, GoodEvents
<1>2. /\ \A i \in 1..Len(Tail(events)) : Tail(events)[i] = events[i + 1] /\ i + 1 \in 1..Len(events)
      /\ e = events[1] /\ 1 \in 1..Len(events)
  BY <1>1, TailFacts
<1>3. e.kind = "leave_channel" /\ \A i \in 1..Len(events') : events'[i].kind = "leave_channel"
  BY <1>1, <1>2 DEF Leaving
<1>4. pipe' = pipe /\ tabs' = tabs \ {e.channel}
  BY <1>3 DEF WindowStep, display, focus, leave, Takes
<1>5. ASSUME NEW c \in tabs'
      PROVE  ~Stays(pipe'["ui"], c) \/ ~Stays(events', c)
  <2>1. c \in tabs /\ ~Leaves(e, c)
    BY <1>4 DEF Leaves
  <2>2. Stays(events, c) <=> Stays(Tail(events), c) /\ ~Leaves(e, c)
    BY <1>1, FirstWord
  <2> QED BY <1>1, <1>4, <2>1, <2>2 DEF Leaving
<1> HIDE DEF e
<1> QED BY <1>1, <1>3, <1>4, <1>5 DEF Leaving

\* Nothing is under way: the tabs are the channels.
LEMMA IdleAgrees ==
  ASSUME TypeInv, Idle, Tabbed \/ Leaving
  PROVE  /\ tabs = joined
         /\ Leaving => tabs = {} /\ joined = {}
<1>1. /\ "ui" \in Plugins /\ "antenna" \in Plugins /\ tabs \subseteq Channels /\ joined \subseteq Channels
  BY DEF Plugins, TypeInv, UiType
<1>2. Len(pipe["ui"]) = 0 /\ Len(pipe["antenna"]) = 0 /\ Len(events) = 0
  <2>1. pipe["ui"] = << >> /\ pipe["antenna"] = << >> /\ events = << >>
    BY <1>1 DEF Idle
  <2>2. Len(<< >>) = 0
    OBVIOUS
  <2> QED BY <2>1, <2>2
<1>3. ASSUME Leaving
      PROVE  tabs = {} /\ joined = {}
  <2>1. \A c : Stays(pipe["ui"], c) /\ Stays(pipe["antenna"], c) /\ Stays(events, c)
    BY <1>2 DEF Stays
  <2> QED BY <1>3, <2>1 DEF Leaving
<1>4. ASSUME Tabbed, NEW c \in Channels
      PROVE  c \in tabs <=> c \in joined
  <2> DEFINE has == c \in tabs
             in == c \in joined
  <2>1. Balanced(c)
    BY <1>4 DEF Tabbed
  <2>2. Still(pipe["ui"], c) /\ Stays(events, c)
    BY <1>2 DEF Still, Stays
  <2>3. Settled(events, c \in tabs, c)
    BY <1>2 DEF Settled
  <2>4. Remains(c \in joined, pipe["antenna"], c) <=> c \in joined
    BY <1>2 DEF Remains, Stays
  <2> QED BY <2>1, <2>2, <2>3, <2>4 DEF Balanced
<1> QED BY <1>1, <1>3, <1>4

LEMMA FreshTabbed ==
  ASSUME \A p \in Plugins : Len(pipe'[p]) = 0, Len(events') = 0, tabs' = joined'
  PROVE  Tabbed'
<1>1. Len(pipe'["ui"]) = 0 /\ Len(pipe'["antenna"]) = 0
  BY DEF Plugins
<1>2. AllForLines'
  BY DEF AllForLines
<1>3. ASSUME NEW c \in Channels
      PROVE  Balanced(c)'
  <2>1. Still(pipe'["ui"], c) /\ Stays(events', c)
    BY <1>1 DEF Still, Stays
  <2>2. Remains(c \in joined', pipe'["antenna"], c) <=> c \in joined'
    BY <1>1 DEF Remains, Stays
  <2> QED BY <2>1, <2>2 DEF Balanced
<1> QED BY <1>2, <1>3 DEF Tabbed

\* Connect tells the antenna of each tab.
LEMMA AllTabsTold ==
  ASSUME TypeInv, Qt, NEW kind \in {"set_channel", "leave_channel"}
  PROVE  LET order == SetToSeq(tabs)
             ms == [i \in DOMAIN order |-> About(kind, 0, order[i])]
         IN  /\ Len(ms) \in Nat /\ (tabs = {} => Len(ms) = 0)
             /\ \A c \in tabs : \E i \in 1..Len(ms) : ms[i].channel = c
<1> DEFINE order == SetToSeq(tabs)
           n == Cardinality(tabs)
           ms == [i \in DOMAIN order |-> About(kind, 0, order[i])]
<1>1. IsFiniteSet(tabs)
  BY DEF TypeInv, UiType
<1>2. n \in Nat /\ order \in [1..n -> tabs] /\ IsInjective(order)
  BY <1>1, SetToSeqType
<1>3. order \in Injection(1..n, tabs)
  BY <1>2 DEF Injection, IsInjective
<1>4. Cardinality(1..n) = n
  <2>1. Cardinality(1..n) = IF 1 > n THEN 0 ELSE n - 1 + 1
    BY <1>2, FS_Interval
  <2> QED BY <1>2, <2>1
<1>5. order \in Surjection(1..n, tabs)
  BY <1>1, <1>3, <1>4, FS_Injection
<1>6. tabs = {} => n = 0
  BY <1>1, FS_EmptySet
<1> HIDE DEF order, n
<1>7. ms = [i \in 1..n |-> About(kind, 0, order[i])]
  BY <1>2
<1>8. Len(ms) = n
  BY <1>2, <1>7
<1>9. \A i \in 1..n : ms[i].channel = order[i]
  BY <1>7, AboutFields DEF About
<1>10. \A c \in tabs : \E i \in 1..n : order[i] = c
  BY <1>5 DEF Surjection
<1> HIDE DEF ms
<1>11. /\ Len(ms) \in Nat /\ (tabs = {} => Len(ms) = 0)
       /\ \A c \in tabs : \E i \in 1..Len(ms) : ms[i].channel = c
  BY <1>2, <1>6, <1>8, <1>9, <1>10
<1> QED BY <1>11 DEF ms, order

LEMMA ConnectTabs ==
  ASSUME TypeInv, Qt, Idle, Connect, connected => Tabbed, ~connected => Leaving
  PROVE  (connected' => Tabbed') /\ (~connected' => Leaving')
<1> DEFINE kind == IF connected THEN "leave_channel" ELSE "set_channel"
           order == SetToSeq(tabs)
           ms == [i \in DOMAIN order |-> About(kind, 0, order[i])]
<1>1. /\ kind \in {"set_channel", "leave_channel"} /\ (connected => kind = "leave_channel")
      /\ connected' = ~connected
      /\ pipe' = [pipe EXCEPT !["ui"] = @ \o ms] /\ UNCHANGED <<tabs, joined, events>>
      /\ pipe \in [Plugins -> Seq(MessageSet)] /\ "ui" \in Plugins
      /\ \A p \in Plugins : pipe[p] = << >>
      /\ events = << >>
  BY DEF Connect, TypeInv, GoodPipes, Plugins, Idle
<1> HIDE DEF kind
<1>2. /\ ms \in Seq(MessageSet)
      /\ \A i \in 1..Len(ms) : ms[i].kind = kind /\ ms[i].line = 0 /\ ms[i].channel \in tabs
  BY <1>1, TabMessages
<1>3. /\ Len(ms) \in Nat /\ (tabs = {} => Len(ms) = 0)
      /\ \A c \in tabs : \E i \in 1..Len(ms) : ms[i].channel = c
  BY <1>1, AllTabsTold
<1> HIDE DEF ms
<1>4. << >> \o ms = ms
  BY <1>2, ConcatEmptySeq
<1>5. pipe'["ui"] = ms /\ \A p \in Plugins \ {"ui"} : pipe'[p] = << >>
  BY <1>1, <1>4
<1>6. tabs = joined /\ (~connected => tabs = {})
  BY IdleAgrees
<1>7. Len(<< >>) = 0
  OBVIOUS
<1>8. CASE connected
  <2>1. \A p \in Plugins : \A i \in 1..Len(pipe'[p]) : pipe'[p][i].kind \in {"leave_channel", "logging"}
    <3>1. \A p \in Plugins \ {"ui"} : Len(pipe'[p]) = 0
      BY <1>5, <1>7
    <3>2. \A i \in 1..Len(pipe'["ui"]) : pipe'["ui"][i].kind \in {"leave_channel", "logging"}
      BY <1>1, <1>2, <1>5, <1>8
    <3>3. ASSUME NEW p \in Plugins, NEW i \in 1..Len(pipe'[p])
          PROVE  pipe'[p][i].kind \in {"leave_channel", "logging"}
      <4>1. CASE p = "ui"
        BY <3>2, <3>3, <4>1
      <4>2. CASE p # "ui"
        BY <3>1, <3>3, <4>2
      <4> QED BY <4>1, <4>2
    <3> QED BY <3>3
  <2>2. Len(events') = 0
    BY <1>1, <1>7
  <2>3. \A c \in tabs : ~Stays(pipe'["ui"], c)
    BY <1>1, <1>2, <1>3, <1>5, <1>8 DEF Stays, Leaves
  <2>4. Leaving'
    BY <1>1, <1>6, <2>1, <2>2, <2>3 DEF Leaving
  <2> QED BY <1>1, <1>8, <2>4
<1>9. CASE ~connected
  <2>1. Len(ms) = 0
    BY <1>3, <1>6, <1>9
  <2>2. \A p \in Plugins : Len(pipe'[p]) = 0
    BY <1>5, <1>7, <2>1
  <2>3. Tabbed'
    BY <1>1, <1>6, <1>7, <2>2, FreshTabbed
  <2> QED BY <1>1, <1>9, <2>3
<1> QED BY <1>8, <1>9

\* What the user types, and chooses, goes to neither the window nor the antenna.
LEMMA PutAside ==
  ASSUME TypeInv, Qt, NEW m, Head(m.to) \in Plugins \ {"ui", "antenna"}, pipe' = Put(pipe, m),
         UNCHANGED <<tabs, joined, events>>
  PROVE  /\ Tabbed /\ ForALine(m) => Tabbed'
         /\ Leaving /\ m.kind = "logging" => Leaving'
<1>1. /\ pipe \in [Plugins -> Seq(MessageSet)] /\ "ui" \in Plugins /\ "antenna" \in Plugins
  BY DEF TypeInv, GoodPipes, Plugins
<1>2. \A q \in Plugins : pipe'[q] = IF phase = "running" /\ q = Head(m.to)
                                    THEN Append(pipe[q], m) ELSE pipe[q]
  BY <1>1, PutAt
<1>3. pipe'["ui"] = pipe["ui"] /\ pipe'["antenna"] = pipe["antenna"]
  BY <1>1, <1>2
<1>4. ASSUME NEW q \in Plugins, NEW i \in 1..Len(pipe'[q])
      PROVE  pipe'[q][i] = m \/ (i \in 1..Len(pipe[q]) /\ pipe'[q][i] = pipe[q][i])
  <2>1. pipe'[q] = Append(pipe[q], m) \/ pipe'[q] = pipe[q]
    BY <1>2
  <2>2. pipe[q] \in Seq(MessageSet \cup {m}) /\ m \in MessageSet \cup {m}
    BY <1>1, SeqOfMore
  <2>3. /\ Len(Append(pipe[q], m)) = Len(pipe[q]) + 1 /\ Append(pipe[q], m)[Len(pipe[q]) + 1] = m
        /\ \A k \in 1..Len(pipe[q]) : Append(pipe[q], m)[k] = pipe[q][k]
        /\ \A k \in 1..(Len(pipe[q]) + 1) : k \in 1..Len(pipe[q]) \/ k = Len(pipe[q]) + 1
    BY <2>2, AppendFacts
  <2> QED BY <1>4, <2>1, <2>3
<1>5. ASSUME Tabbed, ForALine(m)
      PROVE  Tabbed'
  <2>1. AllForLines'
    BY <1>4, <1>5 DEF Tabbed, AllForLines
  <2>2. \A c \in Channels : Balanced(c)'
    BY <1>3, <1>5 DEF Tabbed, Balanced
  <2> QED BY <2>1, <2>2 DEF Tabbed
<1>6. ASSUME Leaving, m.kind = "logging"
      PROVE  Leaving'
  <2>1. \A q \in Plugins : \A i \in 1..Len(pipe'[q]) : pipe'[q][i].kind \in {"leave_channel", "logging"}
    BY <1>4, <1>6 DEF Leaving
  <2> QED BY <1>3, <1>6, <2>1 DEF Leaving
<1> QED BY <1>5, <1>6

LEMMA LeftForGood ==
  ASSUME TypeInv, NEW text, NEW chan, SendLine(text, chan), LeftAll,
         text.cmd \in Words, text.args \in Seq(Channels), chan \in Channels
  PROVE  LeftAll'
<1> DEFINE x == [cmd |-> text.cmd, args |-> text.args, channel |-> chan, session |-> session]
<1>1. typed \in Seq(TypedLine) /\ session \in Nat
  BY DEF TypeInv, HistoryType
<1>2. x \in TypedLine
  BY <1>1 DEF TypedLine
<1>3. typed' = Append(typed, x)
  BY DEF SendLine
<1> HIDE DEF x
<1>4. /\ Len(typed') = Len(typed) + 1
      /\ \A n \in 1..Len(typed) : n \in 1..(Len(typed) + 1) /\ typed'[n] = typed[n]
      /\ Mentioned(typed, {"/leave"}) => Mentioned(typed', {"/leave"})
  BY <1>1, <1>2, <1>3, TypedGrows
<1>5. ASSUME NEW n \in 1..Len(typed), Bare(typed[n], "/leave")
      PROVE  LeftAll'
  <2>1. n \in 1..Len(typed') /\ typed'[n] = typed[n]
    BY <1>4
  <2>2. Bare(typed'[n], "/leave")
    BY <1>5, <2>1
  <2> QED BY <2>1, <2>2 DEF LeftAll
<1>6. CASE Mentioned(typed, {"/leave"})
  BY <1>4, <1>6 DEF LeftAll
<1> QED BY <1>5, <1>6 DEF LeftAll

LEMMA NextTabs ==
  ASSUME TypeInv, LogInv, TabsInv, [Next]_vars
  PROVE  TabsInv'
<1> SUFFICES ASSUME Tidy'
             PROVE  (connected' => Tabbed') /\ (~connected' => Leaving')
  BY DEF TabsInv
<1>1. phase' = "running" /\ Qt' /\ waited' /\ ~LeftAll'
  BY DEF Tidy
<1>2. UNCHANGED ui => Qt
  BY <1>1 DEF Qt
<1>3. UNCHANGED typed => ~LeftAll
  BY <1>1 DEF LeftAll
<1>4. ASSUME UNCHANGED <<ui, typed, waited>>, phase = "running"
      PROVE  /\ Tidy /\ Qt /\ ~LeftAll
             /\ (connected => Tabbed) /\ (~connected => Leaving)
  <2>1. Tidy
    BY <1>1, <1>2, <1>3, <1>4 DEF Tidy
  <2> QED BY <2>1 DEF Tidy, TabsInv
<1>5. CASE UNCHANGED vars
  <2>1. UNCHANGED <<ui, phase, typed, waited, connected, pipe, tabs, joined, events>>
    BY <1>5 DEF vars, history, qtVars
  <2>2. (connected => Tabbed) /\ (~connected => Leaving)
    BY <1>1, <1>4, <2>1
  <2>3. (Tabbed' <=> Tabbed) /\ (Leaving' <=> Leaving)
    BY <2>1 DEF Tabbed, AllForLines, Balanced, Leaving
  <2> QED BY <2>1, <2>2, <2>3
<1>6. ASSUME NEW p \in Plugins, PluginStep(p)
      PROVE  (connected' => Tabbed') /\ (~connected' => Leaving')
  <2>1. ~Stop(p)
    BY <1>1 DEF Stop
  <2>2. UNCHANGED <<ui, typed, waited, connected>>
    BY <1>6, <2>1 DEF PluginStep, history, qtVars, MeatgrinderStep, AntennaStep, MasseuseStep,
                      LoggerStep, ConsoleStep, Emit
  <2>3. phase = "running"
    <3>1. CASE MeatgrinderStep
      <4>1. ~Crash /\ ~HandleQuit
        BY <1>1 DEF Crash, HandleQuit, InitiateShutdown
      <4> QED BY <1>1, <3>1, <4>1, GrinderShape
    <3>2. CASE phase' = phase
      BY <1>1, <3>2
    <3> QED BY <1>6, <2>1, <3>1, <3>2 DEF PluginStep, AntennaStep, MasseuseStep, LoggerStep, ConsoleStep, Emit
  <2>4. /\ Qt /\ ~LeftAll
        /\ (connected => Tabbed) /\ (~connected => Leaving)
    BY <1>4, <2>2, <2>3
  <2>5. CASE ~connected
    <3>1. Leaving'
      BY <1>1, <1>6, <2>3, <2>4, <2>5, LeavingGoesOn
    <3> QED BY <2>2, <2>5, <3>1
  <2>6. CASE connected
    <3>1. CASE p = "meatgrinder" /\ MeatgrinderStep
      BY <1>1, <2>2, <2>3, <2>4, <2>6, <3>1, GrinderTabbed
    <3>2. CASE p = "antenna" /\ AntennaStep
      BY <2>2, <2>3, <2>4, <2>6, <3>2, AntennaTabbed
    <3>3. CASE p = "masseuse" /\ MasseuseStep
      <4> DEFINE m == About("display", First(p).line, First(p).channel)
      <4>1. /\ UNCHANGED <<tabs, joined, events>> /\ pipe[p] # << >>
            /\ First(p).kind \in {"received", "notify"} /\ pipe' = Put(Rest(p), m)
        BY <3>3 DEF MasseuseStep, Translate, Reads, Write, qtVars
      <4>2. m.kind = "display" /\ m.to = Route("display")
        BY AboutFields DEF About
      <4>3. Head(m.to) \in Plugins
        <5>1. Route("display") \in {<<"ui", "logger">>, <<"logger", "ui">>}
          BY DEF Route
        <5>2. Head(<<"ui", "logger">>) = "ui" /\ Head(<<"logger", "ui">>) = "logger"
          BY Stages
        <5> QED BY <4>2, <5>1, <5>2 DEF Plugins
      <4> HIDE DEF m
      <4>4. Instead(p, m) /\ ForALine(m)
        BY <4>1, <4>2, <4>3, WriteInstead DEF ForALine
      <4>5. p \in Plugins \ {"ui"} /\ First(p).kind \notin {"set_channel", "leave_channel"}
        BY <3>3, <4>1
      <4>6. Tabbed'
        BY <2>4, <2>6, <4>1, <4>2, <4>4, <4>5, PassTabbed
      <4> QED BY <2>2, <2>6, <4>6
    <3>4. CASE p = "logger" /\ LoggerStep
      <4>1. /\ UNCHANGED <<tabs, joined, events>> /\ pipe[p] # << >>
            /\ First(p).kind \in {"display", "logging"}
        BY <3>4 DEF LoggerStep, LogDisplay, SetMode, Reads, qtVars
      <4>2. p \in Plugins \ {"ui"} /\ First(p).kind \notin {"set_channel", "leave_channel"}
        BY <3>4, <4>1
      <4>3. \/ \A q \in Plugins : pipe'[q] = IF q = p THEN Tail(pipe[p]) ELSE pipe[q]
            \/ \E m : m.kind = "display" /\ Instead(p, m)
        <5>1. CASE LogDisplay
          <6>1. First(p).kind = "display" /\ pipe' = Echo(Rest(p), First(p))
            BY <3>4, <5>1 DEF LogDisplay, Reads
          <6> QED BY <4>1, <6>1, EchoAt
        <5>2. CASE SetMode
          <6>1. pipe' = Rest(p)
            BY <3>4, <5>2 DEF SetMode, Swallow
          <6> QED BY <4>1, <6>1, RestAt
        <5> QED BY <3>4, <5>1, <5>2 DEF LoggerStep
      <4>4. \A m : m.kind = "display" => ForALine(m)
        BY DEF ForALine
      <4>5. Tabbed'
        BY <2>4, <2>6, <4>1, <4>2, <4>3, <4>4, PassTabbed
      <4> QED BY <2>2, <2>6, <4>5
    <3>5. CASE p = "ui" /\ Emit
      BY <2>2, <2>3, <2>4, <2>6, <3>5, EmitTabbed
    <3>6. ~ConsoleStep
      BY <2>4 DEF ConsoleStep, Qt
    <3> QED BY <1>6, <2>1, <3>1, <3>2, <3>3, <3>4, <3>5, <3>6 DEF PluginStep
  <2> QED BY <2>5, <2>6
<1>7. CASE Qt /\ WindowStep
  <2>1. UNCHANGED <<ui, typed, waited, connected>>
    BY <1>7 DEF WindowStep, history
  <2>2. phase = "running"
    BY <1>1, <1>7 DEF WindowStep, display, focus, leave, Crash
  <2>3. (connected => Tabbed) /\ (~connected => Leaving)
    BY <1>4, <2>1, <2>2
  <2>4. connected => Tabbed'
    BY <1>1, <1>7, <2>2, <2>3, WindowTabbed
  <2>5. ~connected => Leaving'
    BY <1>1, <1>7, <2>3, WindowLeaves
  <2> QED BY <2>1, <2>4, <2>5
<1>8. ASSUME NEW text, send_input(text)
      PROVE  FALSE
  <2>1. ui = "console" /\ ui' = ui
    BY <1>8 DEF send_input, SendLine
  <2> QED BY <1>2, <2>1 DEF Qt
<1>9. CASE Quit
  BY <1>1, <1>9 DEF Quit, InitiateShutdown
<1>10. ASSUME NEW text, request_edict_send(text)
       PROVE  (connected' => Tabbed') /\ (~connected' => Leaving')
  <2>1. /\ phase = "running" /\ connected /\ Qt /\ ui' = ui /\ waited' = waited
        /\ UNCHANGED <<tabs, joined, events, connected>>
    BY <1>10 DEF request_edict_send, SendLine, Act, qtVars
  <2>2. PICK chan \in Channels : SendLine(text, chan)
    BY <1>10 DEF request_edict_send, TypeInv, UiType, Channels
  <2>3. text.cmd \in Words /\ text.args \in Seq(Channels)
    <3>1. typed \in Seq(TypedLine)
      BY DEF TypeInv, HistoryType
    <3> QED BY <1>10, <3>1, MayTypeText, ConversationAssumption DEF request_edict_send
  <2>4. ~LeftAll
    BY <1>1, <2>2, <2>3, LeftForGood
  <2>5. Tabbed
    BY <1>1, <2>1, <2>4 DEF Tidy, TabsInv
  <2> DEFINE n == Len(typed) + 1
             m == Message("raw_edict", n, text, chan)
  <2>6. pipe' = Put(pipe, m)
    BY <2>2 DEF SendLine
  <2>7. n # 0
    <3>1. Len(typed) \in Nat
      BY DEF TypeInv, HistoryType
    <3> QED BY <3>1
  <2>8. m.line = n /\ m.to = <<"meatgrinder">>
    BY AboutFields DEF Route
  <2> HIDE DEF n, m
  <2>9. ForALine(m) /\ Head(m.to) \in Plugins \ {"ui", "antenna"}
    BY <2>7, <2>8, Stages DEF ForALine, Plugins
  <2>10. Tabbed'
    BY <2>1, <2>5, <2>6, <2>9, PutAside
  <2> QED BY <2>1, <2>10
<1>11. CASE Connect
  <2>1. /\ phase = "running" /\ Qt /\ UNCHANGED <<ui, typed>> /\ waited' = (waited /\ Idle)
    BY <1>11 DEF Connect, Act
  <2>2. Tidy /\ Idle
    BY <1>1, <1>3, <2>1 DEF Tidy
  <2> QED BY <1>11, <2>1, <2>2, ConnectTabs DEF TabsInv
<1>12. ASSUME NEW mo \in Modes, ChooseMode(mo)
       PROVE  (connected' => Tabbed') /\ (~connected' => Leaving')
  <2> DEFINE m == Message("logging", 0, Line(mo, << >>), Blank)
  <2>1. /\ phase = "running" /\ UNCHANGED <<ui, typed, waited, tabs, joined, events, connected>>
        /\ pipe' = Put(pipe, m)
    BY <1>12 DEF ChooseMode, Act, qtVars
  <2>2. Qt /\ (connected => Tabbed) /\ (~connected => Leaving)
    BY <1>4, <2>1
  <2>3. m.kind = "logging" /\ m.to = <<"logger">>
    BY AboutFields DEF Route
  <2> HIDE DEF m
  <2>4. ForALine(m) /\ Head(m.to) \in Plugins \ {"ui", "antenna"}
    BY <2>3, Stages DEF ForALine, Plugins
  <2>5. (Tabbed => Tabbed') /\ (Leaving => Leaving')
    BY <2>1, <2>2, <2>3, <2>4, PutAside
  <2> QED BY <2>1, <2>2, <2>5
<1>13. CASE Restart
  <2>1. /\ pipe' = [p \in Plugins |-> << >>] /\ events' = << >> /\ connected' = TRUE
        /\ tabs' = FirstTabs /\ joined' = {Default} /\ ui' = ui
    BY <1>13 DEF Restart
  <2>2. FirstTabs = {Default}
    BY <1>2, <2>1 DEF FirstTabs, Qt
  <2>3. Len(<< >>) = 0
    OBVIOUS
  <2>4. (\A p \in Plugins : Len(pipe'[p]) = 0) /\ Len(events') = 0
    BY <2>1, <2>3
  <2>5. Tabbed'
    BY <2>1, <2>2, <2>4, FreshTabbed
  <2> QED BY <2>1, <2>5
<1> QED BY <1>5, <1>6, <1>7, <1>8, <1>9, <1>10, <1>11, <1>12, <1>13 DEF Next, UserStep

LEMMA InitTabs ==
  ASSUME Init
  PROVE  TabsInv
<1>1. /\ pipe = [p \in Plugins |-> << >>] /\ events = << >> /\ connected = TRUE
      /\ tabs = FirstTabs /\ joined = {Default}
  BY DEF Init
<1>2. Len(<< >>) = 0
  OBVIOUS
<1>3. (\A p \in Plugins : Len(pipe[p]) = 0) /\ Len(events) = 0
  BY <1>1, <1>2
<1>4. ASSUME Qt
      PROVE  Tabbed
  <2>1. tabs = joined
    BY <1>1, <1>4 DEF FirstTabs, Qt
  <2>2. ASSUME NEW c \in Channels
        PROVE  Balanced(c)
    <3>1. Len(pipe["ui"]) = 0 /\ Len(pipe["antenna"]) = 0
      BY <1>3 DEF Plugins
    <3>2. Stays(events, c)
      BY <1>3 DEF Stays
    <3>3. Remains(c \in joined, pipe["antenna"], c) <=> c \in joined
      BY <3>1 DEF Remains, Stays
    <3> QED BY <2>1, <3>2, <3>3 DEF Balanced
  <2> QED BY <1>3, <2>2 DEF Tabbed, AllForLines
<1> QED BY <1>1, <1>4 DEF TabsInv, Tidy

(* In the window there is a tab for each channel one is in, and for no     *)
(* other, whenever nothing is under way, over any number of lines, clicks  *)
(* and sessions.  (lirch_qt_interface.cpp, focus and leave, against        *)
(* antenna.cpp; if Connect is used only when nothing is under way and the  *)
(* channel without a name is not left.)                                    *)
THEOREM TabsAgree == Spec => []TabsAreJoined
<1>1. ASSUME TypeInv, TabsInv
      PROVE  TabsAreJoined
  <2>1. Tidy /\ Idle => tabs = joined
    BY <1>1, IdleAgrees DEF TabsInv
  <2> QED BY <2>1 DEF TabsAreJoined, Tidy, LeftAll
<1>2. Init => TypeInv /\ LogInv /\ TabsInv
  BY InitTyped, InitLogged, InitTabs
<1>3. TypeInv /\ LogInv /\ TabsInv /\ [Next]_vars => TypeInv' /\ LogInv' /\ TabsInv'
  BY NextTyped, NextLogged, NextTabs
<1> QED BY <1>1, <1>2, <1>3, PTL DEF Spec

===============================================================================
