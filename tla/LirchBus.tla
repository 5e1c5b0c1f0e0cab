-------------------------------- MODULE LirchBus --------------------------------
(***************************************************************************)
(* The core and plugins that keep the contract of plugin_init (include/    *)
(* lirch/plugins/lirch_plugin.h) and of the message loops in plugins/: a   *)
(* plugin reads one message at a time, answers a refused registration with *)
(* another priority, echoes what it does not consume with its priority     *)
(* decremented, and returns on shutdown.  Reading a message and writing    *)
(* its echo are one action: nobody else reads the plugin's pipe, so only   *)
(* the write shows.                                                        *)
(***************************************************************************)
EXTENDS LirchCore

CONSTANTS
  RequestPriorities,  \* the priorities a plugin tries; may be out of bounds
  Upward,             \* plugins that retry one higher (antenna, masseuse)
  Swallows,           \* <<name, type>>: the plugin does not echo this type
  Detached,           \* plugins with detached threads that outlive run()
  Adders              \* plugins that start plugins (linuxtester)

ASSUME BusAssumption ==
  /\ RequestPriorities \subseteq Int
  /\ Detached \subseteq Names
  /\ Adders \subseteq Names

VARIABLES
  asked,       \* per load and type: "no", "asked" or "dropped" (the bound on
               \* registrations: each type once per load)
  posted,      \* payloads posted so far; each once (the bound on messages)
  added,       \* names plugins have asked to add; each once (bound)
  quit,        \* a core_quit has been written; once (bound)
  unanswered,  \* history: register messages written less statuses read
  deliveries   \* history: to which load and at which priority each payload
               \* was delivered

busVars == <<asked, posted, added, quit, unanswered, deliveries>>
vars == <<coreVars, busVars>>

TypeOK ==
  /\ CoreTypeOK
  /\ asked \in [Loads -> [Types -> {"no", "asked", "dropped"}]]
  /\ posted \in SUBSET Data
  /\ added \in SUBSET Names
  /\ quit \in BOOLEAN
  /\ unanswered \in [Loads -> Int]
  /\ deliveries \in [Data -> SUBSET [load : Loads, priority : Int]]

Init ==
  /\ CoreInit
  /\ asked = [l \in Loads |-> [t \in Types |-> "no"]]
  /\ posted = {}
  /\ added = {}
  /\ quit = FALSE
  /\ unanswered = [l \in Loads |-> 0]
  /\ deliveries = [d \in Data |-> {}]

\* Threads that write to in_pipe without reading anything first.
CanPost(l) ==
  \/ thread[l] = "run"
  \/ thread[l] = "exited" /\ loadName[l] \in Detached

ToCore(m) == inPipe' = Append(inPipe, m)

-------------------------------------------------------------------------------
(* The core's steps, with the history of deliveries. *)

LastWritten(l) == pipe'[l][Len(pipe'[l])]

Delivered(l, d) ==
  /\ Len(pipe'[l]) > Len(pipe[l])
  /\ LastWritten(l).kind = "data" /\ LastWritten(l).data = d

BusCoreStep ==
  /\ CoreStep
  /\ deliveries' =
       [d \in Data |->
          deliveries[d] \cup
            {[load |-> l, priority |-> LastWritten(l).priority] :
               l \in {k \in Loads : Delivered(k, d)}}]
  /\ UNCHANGED <<asked, posted, added, quit, unanswered>>

-------------------------------------------------------------------------------
(* plugin_init *)

\* It gives up, without a done, if the first message is not a hello.
ReadHello(l) ==
  /\ thread[l] = "hello"
  /\ pipe[l] # << >>
  /\ thread' = [thread EXCEPT ![l] =
                  IF Head(pipe[l]).kind = "hello" THEN "run" ELSE "exited"]
  /\ pipe' = [pipe EXCEPT ![l] = Tail(@)]
  /\ UNCHANGED <<core, vm, inPipe, outPipes, registrations, loadName, busVars>>

\* The done message is the last thing the thread writes.
SendDone(l) ==
  /\ ToCore(NamedMessage("done", loadName[l]))
  /\ thread' = [thread EXCEPT ![l] = "exited"]

\* run() returns or throws, for reasons of its own.
RunReturns(l) ==
  /\ thread[l] = "run"
  /\ SendDone(l)
  /\ UNCHANGED <<core, vm, outPipes, registrations, pipe, loadName>>
  /\ UNCHANGED <<asked, posted, added, quit, unanswered, deliveries>>

-------------------------------------------------------------------------------
(* What a running plugin writes on its own account *)

Register(l, t, p) ==
  /\ thread[l] = "run"
  /\ asked[l][t] = "no"
  /\ asked' = [asked EXCEPT ![l][t] = "asked"]
  /\ unanswered' = [unanswered EXCEPT ![l] = @ + 1]
  /\ ToCore(RegistrationMessage("register", loadName[l], t, p))
  /\ UNCHANGED <<core, vm, outPipes, registrations, pipe, thread, loadName>>
  /\ UNCHANGED <<posted, added, quit, deliveries>>

Unregister(l, t) ==
  /\ thread[l] = "run"
  /\ asked[l][t] = "asked"
  /\ asked' = [asked EXCEPT ![l][t] = "dropped"]
  /\ ToCore(RegistrationMessage("unregister", loadName[l], t, InitialPriority))
  /\ UNCHANGED <<core, vm, outPipes, registrations, pipe, thread, loadName>>
  /\ UNCHANGED <<posted, added, quit, unanswered, deliveries>>

\* message_create gives a new message the initial priority.
Post(l, t, d) ==
  /\ CanPost(l)
  /\ d \notin posted
  /\ posted' = posted \cup {d}
  /\ \/ ToCore(DataMessage(t, InitialPriority, d))
     \/ \E n \in Names : ToCore(TargetMessage(n, t, d))
  /\ UNCHANGED <<core, vm, outPipes, registrations, pipe, thread, loadName>>
  /\ UNCHANGED <<asked, added, quit, unanswered, deliveries>>

Add_Plugin(l, n) ==
  /\ thread[l] = "run"
  /\ loadName[l] \in Adders
  /\ n \notin added
  /\ added' = added \cup {n}
  /\ ToCore(NamedMessage("add_plugin", n))
  /\ UNCHANGED <<core, vm, outPipes, registrations, pipe, thread, loadName>>
  /\ UNCHANGED <<asked, posted, quit, unanswered, deliveries>>

Quit(l) ==
  /\ CanPost(l)
  /\ ~quit
  /\ quit' = TRUE
  /\ ToCore(NamedMessage("core_quit", NoPlugin))
  /\ UNCHANGED <<core, vm, outPipes, registrations, pipe, thread, loadName>>
  /\ UNCHANGED <<asked, posted, added, unanswered, deliveries>>

-------------------------------------------------------------------------------
(* The message loop: the first message in the pipe is taken and handled.   *)

Take(l, kind) ==
  /\ thread[l] = "run"
  /\ pipe[l] # << >>
  /\ Head(pipe[l]).kind = kind
  /\ pipe' = [pipe EXCEPT ![l] = Tail(@)]
  /\ UNCHANGED <<core, vm, outPipes, registrations, loadName>>
  /\ UNCHANGED <<asked, posted, added, quit, deliveries>>

\* Mutant: the message goes back to the core twice.
EchoTwice(l) ==
  /\ Take(l, "data")
  /\ LET m == Head(pipe[l])
         e == [m EXCEPT !.priority = @ - 1]
     IN  inPipe' = inPipe \o <<e, e>>
  /\ UNCHANGED <<thread, unanswered>>

\* Mutant: the priority is not decremented.
EchoUndiminished(l) ==
  /\ Take(l, "data")
  /\ ToCore(Head(pipe[l]))
  /\ UNCHANGED <<thread, unanswered>>

\* p.write(m.decrement_priority())
Echo(l) ==
  /\ Take(l, "data")
  /\ LET m == Head(pipe[l])
     IN  IF <<loadName[l], m.type>> \in Swallows
         THEN UNCHANGED inPipe
         ELSE ToCore([m EXCEPT !.priority = @ - 1])
  /\ UNCHANGED <<thread, unanswered>>

ReadRegistered(l) ==
  /\ Take(l, "registered")
  /\ unanswered' = [unanswered EXCEPT ![l] = @ - 1]
  /\ UNCHANGED <<inPipe, thread>>

\* The priority of the next try after a refusal.
NextTry(n, p) == IF n \in Upward THEN p + 1 ELSE p - 1

\* Another try; or, when none is left, run() returns (userlist, logger) or
\* goes on without that registration (meatgrinder, antenna, quip).
ReadRefused(l) ==
  /\ Take(l, "refused")
  /\ LET m == Head(pipe[l])
         p == NextTry(loadName[l], m.priority)
     IN  \/ /\ p \in RequestPriorities
            /\ ToCore(RegistrationMessage("register", loadName[l], m.type, p))
            /\ UNCHANGED <<thread, unanswered>>
         \/ /\ p \notin RequestPriorities
            /\ SendDone(l) \/ UNCHANGED <<inPipe, thread>>
            /\ unanswered' = [unanswered EXCEPT ![l] = @ - 1]

ReadShutdown(l) ==
  /\ Take(l, "shutdown")
  /\ SendDone(l)
  /\ UNCHANGED unanswered

-------------------------------------------------------------------------------
HandleMessage(l) ==
  \/ Echo(l)
  \/ ReadRegistered(l)
  \/ ReadRefused(l)
  \/ ReadShutdown(l)

PluginStep(l) ==
  \/ ReadHello(l)
  \/ HandleMessage(l)
  \/ RunReturns(l)
  \/ \E t \in Types, p \in RequestPriorities : Register(l, t, p)
  \/ \E t \in Types : Unregister(l, t)
  \/ \E t \in Types, d \in Data : Post(l, t, d)
  \/ \E n \in Names : Add_Plugin(l, n)
  \/ Quit(l)

Next == BusCoreStep \/ \E l \in Loads : PluginStep(l)

Spec == Init /\ [][Next]_vars

\* The core thread runs; a plugin thread reads its messages.  Nothing obliges
\* a plugin to register, to post or to return.
FairSpec ==
  /\ Spec
  /\ WF_vars(BusCoreStep)
  /\ \A l \in Loads :
       /\ WF_vars(ReadHello(l))
       /\ WF_vars(HandleMessage(l))

-------------------------------------------------------------------------------
(* Only plugins the core has a pipe to are registered, whatever order the  *)
(* add, register and done messages of all plugins arrive in: to_plugin     *)
(* never meets a registration to the non-existent plugin.                  *)
RegistrationsAreLive ==
  \A t \in Types, p \in Priorities :
    registrations[t][p] # NoPlugin => IsLoaded(registrations[t][p])

(* "This message tells you your name when you startup.  It should be the   *)
(* first message you receive, and should be sent once"                     *)
(* (required_messages.h).                                                  *)
HelloFirst ==
  \A l \in Loads :
    /\ thread[l] = "hello" =>
         pipe[l] # << >> /\ Head(pipe[l]) = NamedMessage("hello", loadName[l])
    /\ \A i \in 1..Len(pipe[l]) :
         pipe[l][i].kind = "hello" => i = 1 /\ thread[l] = "hello"

(* A plugin thread that still reads its pipe is the one the core writes to *)
(* under its name, also when a plugin of that name was removed and added   *)
(* again.                                                                  *)
RunningIsLoaded ==
  \A l \in Loads :
    thread[l] \in {"hello", "run"} => outPipes[loadName[l]] = l

(* run_core returns only when every plugin thread it started has sent its  *)
(* done: the threads are detached, nobody else waits for them.             *)
CoreStopsLast ==
  core = "stopped" => \A l \in Loads : thread[l] \in {"none", "exited"}

(* Echoing passes a message down the priorities: the deliveries of one     *)
(* message fall strictly, and no plugin gets it twice from the registry,   *)
(* whatever is registered, unregistered or removed between them.  (A       *)
(* targeted message arrives once with its initial priority before that.)   *)
PassedDownOnce ==
  [][\A d \in Data, l \in Loads : Delivered(l, d) =>
       \A e \in deliveries[d] :
         /\ LastWritten(l).priority < e.priority
         /\ e.load = l => e.priority = InitialPriority]_vars

(* A message has one copy at most, in one pipe: plugins handle it one      *)
(* after the other, never two at a time.                                   *)
CopiesIn(s, d) == {i \in 1..Len(s) : s[i].data = d}
OneCopy ==
  \A d \in Data :
    LET holders == {l \in Loads : CopiesIn(pipe[l], d) # {}}
    IN  /\ Cardinality(CopiesIn(inPipe, d)) + Cardinality(holders) <= 1
        /\ \A l \in holders : Cardinality(CopiesIn(pipe[l], d)) = 1

(* Every register message of a running plugin gets one registration_status *)
(* and no status comes without a request.                                  *)
OneStatusPerRequest ==
  \A l \in Loads :
    thread[l] = "run" =>
      unanswered[l] =
          Cardinality({i \in 1..Len(inPipe) :
                         /\ inPipe[i].kind = "register"
                         /\ inPipe[i].name = loadName[l]})
        + Cardinality({i \in 1..Len(pipe[l]) :
                         pipe[l][i].kind \in {"registered", "refused"}})

(* A priority belongs to the plugin that got it first: it is given to      *)
(* another only after a step has freed it.                                 *)
RegistrationIsExclusive ==
  [][\A t \in Types, p \in Priorities :
       registrations[t][p] # NoPlugin =>
         registrations'[t][p] \in {registrations[t][p], NoPlugin}]_vars

(* A core_quit stops the core, when no plugin is added after it.           *)
QuitStopsCore == quit ~> core = "stopped"

(* Every posted message leaves the system: the echoes of a message come to *)
(* an end.  What is queued for a thread that has exited is gone.           *)
MessageLeaves ==
  \A d \in Data :
    d \in posted ~>
      \/ core = "stopped"
      \/ /\ CopiesIn(inPipe, d) = {}
         /\ \A l \in Loads : thread[l] # "exited" => CopiesIn(pipe[l], d) = {}

===============================================================================
