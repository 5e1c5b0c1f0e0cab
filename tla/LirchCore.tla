------------------------------- MODULE LirchCore -------------------------------
(***************************************************************************)
(* The core thread (core/core.cpp): the message bus that every plugin is   *)
(* connected to.  It owns out_pipes and message_registrations, processes   *)
(* one message of in_pipe at a time and never writes to in_pipe itself, so *)
(* one action per message type is atomic for the other threads.  What the  *)
(* plugin threads do is left to the modules that extend this one.          *)
(*                                                                         *)
(* A plugin can be added again after it is done, with a new pipe and a new *)
(* thread; each start of a plugin is a load.                               *)
(***************************************************************************)
EXTENDS Registry, Sequences, FiniteSets

CONSTANTS
  Types,      \* message types that plugins register for
  Data,       \* payloads
  Loads,      \* loads (the bound on how often plugins are started)
  NoLoad,     \* no pipe under this name
  NoType,     \* fields a message does not use
  NoData,
  Preloads    \* the names of the add_plugin messages run_core is called with

ASSUME CoreAssumption ==
  /\ NoLoad \notin Loads
  /\ NoData \notin Data
  /\ Preloads \in Seq(Names)

VARIABLES
  core,           \* "running", or "stopped" once run_core has returned
  vm,             \* what is left of the argument of run_core
  inPipe,         \* in_pipe
  outPipes,       \* out_pipes: the load behind a name, or NoLoad
  registrations,  \* message_registrations
  pipe,           \* the queue towards each load, kept alive by its thread
  thread,         \* the plugin thread: none, hello (in plugin_init), run,
                  \* exited
  loadName        \* the name each load was started under

coreVars == <<core, vm, inPipe, outPipes, registrations, pipe, thread, loadName>>

\* A refused registration_status is kind "refused", a successful one
\* "registered"; "data" is every type the core only routes.
Kinds == {"add_plugin", "register", "unregister", "done", "target",
          "core_quit", "data", "hello", "shutdown", "registered", "refused"}

HasName == {"add_plugin", "register", "unregister", "done", "target", "hello"}
HasType == {"register", "unregister", "target", "data", "registered", "refused"}

Message ==
  {m \in [kind : Kinds, name : Names \cup {NoPlugin}, type : Types \cup {NoType},
          priority : Int, data : Data \cup {NoData}] :
     /\ m.kind \in HasName => m.name \in Names
     /\ m.kind \in HasType => m.type \in Types}

NamedMessage(k, n) ==
  [kind |-> k, name |-> n, type |-> NoType, priority |-> InitialPriority,
   data |-> NoData]
RegistrationMessage(k, n, t, p) ==
  [kind |-> k, name |-> n, type |-> t, priority |-> p, data |-> NoData]
DataMessage(t, p, d) ==
  [kind |-> "data", name |-> NoPlugin, type |-> t, priority |-> p, data |-> d]

TargetMessage(n, t, d) ==
  [kind |-> "target", name |-> n, type |-> t, priority |-> InitialPriority,
   data |-> d]

CoreTypeOK ==
  /\ core \in {"running", "stopped"}
  /\ vm \in Seq(Message)
  /\ inPipe \in Seq(Message)
  /\ outPipes \in [Names -> Loads \cup {NoLoad}]
  /\ registrations \in [Types -> Registries]
  /\ pipe \in [Loads -> Seq(Message)]
  /\ thread \in [Loads -> {"none", "hello", "run", "exited"}]
  /\ loadName \in [Loads -> Names \cup {NoPlugin}]

CoreInit ==
  /\ core = "running"
  /\ vm = [i \in 1..Len(Preloads) |-> NamedMessage("add_plugin", Preloads[i])]
  /\ inPipe = << >>
  /\ outPipes = [n \in Names |-> NoLoad]
  /\ registrations = [t \in Types |-> EmptyRegistry]
  /\ pipe = [l \in Loads |-> << >>]
  /\ thread = [l \in Loads |-> "none"]
  /\ loadName = [l \in Loads |-> NoPlugin]

IsLoaded(n) == outPipes[n] # NoLoad
Loaded == {n \in Names : IsLoaded(n)}

\* out_pipes[n].write(m)
WriteTo(n, m) == pipe' = [pipe EXCEPT ![outPipes[n]] = Append(@, m)]

-------------------------------------------------------------------------------
(* run_core: first the messages it was given, then in_pipe for as long as  *)
(* some plugin is left.                                                    *)

CoreHasMessage ==
  /\ core = "running"
  /\ vm # << >> \/ (Loaded # {} /\ inPipe # << >>)

Current == IF vm # << >> THEN Head(vm) ELSE Head(inPipe)

\* The core takes the message it processes next; it is of this kind.
Process(kind) ==
  /\ CoreHasMessage
  /\ Current.kind = kind
  /\ IF vm # << >>
     THEN vm' = Tail(vm) /\ UNCHANGED inPipe
     ELSE inPipe' = Tail(inPipe) /\ UNCHANGED vm
  /\ UNCHANGED core

\* Mutant: the loop ends when in_pipe is empty.
StopWhenIdle ==
  /\ core = "running"
  /\ vm = << >>
  /\ inPipe = << >>
  /\ core' = "stopped"
  /\ UNCHANGED <<vm, inPipe, outPipes, registrations, pipe, thread, loadName>>

StopCore ==
  /\ core = "running"
  /\ vm = << >>
  /\ Loaded = {}
  /\ core' = "stopped"
  /\ UNCHANGED <<vm, inPipe, outPipes, registrations, pipe, thread, loadName>>

-------------------------------------------------------------------------------
(* add_plugin *)

FreeLoads == {l \in Loads : thread[l] = "none"}
NextLoad == CHOOSE l \in FreeLoads : TRUE

\* Mutant: the pipe is in the map, but the hello is not written.
LoadWithoutHello(n) ==
  /\ FreeLoads # {}
  /\ LET l == NextLoad
     IN  /\ thread' = [thread EXCEPT ![l] = "hello"]
         /\ loadName' = [loadName EXCEPT ![l] = n]
         /\ outPipes' = [outPipes EXCEPT ![n] = l]
         /\ UNCHANGED pipe

\* load_plugin starts the thread, which blocks until the hello is there.
Load(n) ==
  /\ FreeLoads # {}
  /\ LET l == NextLoad
     IN  /\ thread' = [thread EXCEPT ![l] = "hello"]
         /\ loadName' = [loadName EXCEPT ![l] = n]
         /\ pipe' = [pipe EXCEPT ![l] = Append(@, NamedMessage("hello", n))]
         /\ outPipes' = [outPipes EXCEPT ![n] = l]

\* Mutant: no check for a conflicting name.
AddPluginTwice ==
  /\ Process("add_plugin")
  /\ LET n == Current.name
     IN  \/ Load(n)
         \/ UNCHANGED <<outPipes, pipe, thread, loadName>>
  /\ UNCHANGED registrations

\* A name that is taken is refused; a file that does not load is ignored.
AddPlugin ==
  /\ Process("add_plugin")
  /\ LET n == Current.name
     IN  \/ ~IsLoaded(n) /\ Load(n)
         \/ UNCHANGED <<outPipes, pipe, thread, loadName>>
  /\ UNCHANGED registrations

-------------------------------------------------------------------------------
(* done: remove_plugin *)

\* Mutant: the registrations of the plugin stay.
RemovePluginPipeOnly ==
  /\ Process("done")
  /\ outPipes' = [outPipes EXCEPT ![Current.name] = NoLoad]
  /\ UNCHANGED <<registrations, pipe, thread, loadName>>

\* Mutant: the entry is cleared with the wrong null value.
RemovePluginByName ==
  /\ Process("done")
  /\ outPipes' = [outPipes EXCEPT ![Current.name] = NoPlugin]
  /\ registrations' =
       [t \in Types |-> RemoveAll(registrations[t], Current.name)]
  /\ UNCHANGED <<pipe, thread, loadName>>

\* What is still queued for the plugin goes with its pipe.
RemovePlugin ==
  /\ Process("done")
  /\ outPipes' = [outPipes EXCEPT ![Current.name] = NoLoad]
  /\ registrations' =
       [t \in Types |-> RemoveAll(registrations[t], Current.name)]
  /\ UNCHANGED <<pipe, thread, loadName>>

-------------------------------------------------------------------------------
(* register and unregister *)

\* Mutant: a refused registration is not answered.
AddRegistrationSilently ==
  /\ Process("register")
  /\ LET m == Current
         r == registrations[m.type]
     IN  \/ /\ IsLoaded(m.name) /\ CanAdd(r, m.priority)
            /\ registrations' =
                 [registrations EXCEPT ![m.type] = Add(r, m.priority, m.name)]
            /\ WriteTo(m.name, RegistrationMessage(
                 "registered", NoPlugin, m.type, m.priority))
         \/ /\ ~(IsLoaded(m.name) /\ CanAdd(r, m.priority))
            /\ UNCHANGED <<registrations, pipe>>
  /\ UNCHANGED <<outPipes, thread, loadName>>

AddRegistration ==
  /\ Process("register")
  /\ LET m == Current
         r == registrations[m.type]
     IN  \/ /\ IsLoaded(m.name)
            /\ registrations' =
                 [registrations EXCEPT ![m.type] = Add(r, m.priority, m.name)]
            /\ WriteTo(m.name, RegistrationMessage(
                 IF CanAdd(r, m.priority) THEN "registered" ELSE "refused",
                 NoPlugin, m.type, m.priority))
         \/ ~IsLoaded(m.name) /\ UNCHANGED <<registrations, pipe>>
  /\ UNCHANGED <<outPipes, thread, loadName>>

RemoveRegistration ==
  /\ Process("unregister")
  /\ registrations' =
       [registrations EXCEPT ![Current.type] = RemoveAll(@, Current.name)]
  /\ UNCHANGED <<outPipes, pipe, thread, loadName>>

-------------------------------------------------------------------------------
(* target and core_quit *)

\* The targeted message arrives as it is, with its initial priority.
TargetPlugin ==
  /\ Process("target")
  /\ \/ /\ IsLoaded(Current.name)
        /\ WriteTo(Current.name,
             DataMessage(Current.type, InitialPriority, Current.data))
     \/ ~IsLoaded(Current.name) /\ UNCHANGED pipe
  /\ UNCHANGED <<outPipes, registrations, thread, loadName>>

\* Mutant: only plugins that have said something so far are told.
ShutdownRunning ==
  /\ Process("core_quit")
  /\ pipe' = [l \in Loads |->
                IF \E n \in Names : outPipes[n] = l /\ thread[l] = "run"
                THEN Append(pipe[l], NamedMessage("shutdown", NoPlugin))
                ELSE pipe[l]]
  /\ UNCHANGED <<outPipes, registrations, thread, loadName>>

InitiateShutdown ==
  /\ Process("core_quit")
  /\ pipe' = [l \in Loads |->
                IF \E n \in Names : outPipes[n] = l
                THEN Append(pipe[l], NamedMessage("shutdown", NoPlugin))
                ELSE pipe[l]]
  /\ UNCHANGED <<outPipes, registrations, thread, loadName>>

-------------------------------------------------------------------------------
(* to_plugin: every other message goes to the registered plugin with the   *)
(* highest priority not above the message's own, which it then takes on.   *)

\* The entry at priority q takes the message, and its plugin has a pipe.
Receives(q, m) ==
  LET r == registrations[m.type]
  IN  IsNext(q, r, m.priority) /\ IsLoaded(r[q])

\* Mutant: the message keeps its own priority.
ToPluginKeepingPriority ==
  /\ Process("data")
  /\ LET m == Current
     IN  \/ \E q \in Priorities :
              /\ Receives(q, m)
              /\ WriteTo(registrations[m.type][q], m)
         \/ ~(\E q \in Priorities : Receives(q, m)) /\ UNCHANGED pipe
  /\ UNCHANGED <<outPipes, registrations, thread, loadName>>

ToPlugin ==
  /\ Process("data")
  /\ LET m == Current
     IN  \/ \E q \in Priorities :
              /\ Receives(q, m)
              /\ WriteTo(registrations[m.type][q], [m EXCEPT !.priority = q])
         \/ ~(\E q \in Priorities : Receives(q, m)) /\ UNCHANGED pipe
  /\ UNCHANGED <<outPipes, registrations, thread, loadName>>

CoreStep ==
  \/ StopCore
  \/ AddPlugin
  \/ RemovePlugin
  \/ AddRegistration
  \/ RemoveRegistration
  \/ TargetPlugin
  \/ InitiateShutdown
  \/ ToPlugin

===============================================================================
