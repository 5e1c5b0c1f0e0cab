----------------------------- MODULE HandlerStartup -----------------------------
(***************************************************************************)
(* How the commands of the chat (/block, /nick, /quip) get to the          *)
(* meatgrinder when a client starts.  The plugins start at once and in     *)
(* no order.  The meatgrinder announces handler_ready when it has its      *)
(* registration for register_handler; a plugin sends register_handler      *)
(* when it hears the announcement, and some also when their registration   *)
(* for handler_ready comes through, in case the announcement is past.      *)
(*                                                                         *)
(* One start of each plugin; the messages that matter to this protocol     *)
(* are modelled, and of a plugin's commands one.                           *)
(***************************************************************************)
EXTENDS LirchCore

CONSTANTS
  Antenna, Meatgrinder, Quip, Userlist,     \* plugin names
  HandlerReady, RegisterHandler,            \* message types
  BlockCommand, QuipCommand, ListCommand,   \* payloads: one command for each
  NormalCommand,                            \* plugin, and the meatgrinder's
  MiddlePriority, \* 0, where antenna, quip and userlist register
  LowPriority,    \* -30000, where the meatgrinder registers
  Retries         \* how often a refused registration is tried again, at least

ASSUME StartupAssumption ==
  /\ Names = {Antenna, Meatgrinder, Quip, Userlist}
  /\ Antenna \notin {Meatgrinder, Quip, Userlist}
  /\ Meatgrinder \notin {Quip, Userlist} /\ Quip # Userlist
  /\ {HandlerReady, RegisterHandler} \subseteq Types
  /\ HandlerReady # RegisterHandler
  /\ MiddlePriority \in Int /\ LowPriority \in Int
  /\ {BlockCommand, QuipCommand, ListCommand, NormalCommand} \subseteq Data
  /\ Retries \in Nat

VARIABLES
  todo,      \* what a plugin still has to write before it reads on
  handlers,  \* the commands in the meatgrinder's map
  bound      \* FALSE once the antenna has failed to bind its socket

startupVars == <<todo, handlers, bound>>
vars == <<coreVars, startupVars>>

TypeOK ==
  /\ CoreTypeOK
  /\ todo \in [Loads -> Seq(Message)]
  /\ handlers \in SUBSET Data
  /\ bound \in BOOLEAN

Init ==
  /\ CoreInit
  /\ todo = [l \in Loads |-> << >>]
  /\ handlers = {}
  /\ bound = TRUE

-------------------------------------------------------------------------------
(* What the plugins write *)

Registration(n, t, p) == RegistrationMessage("register", n, t, p)
RegisterCommand(c) == DataMessage(RegisterHandler, InitialPriority, c)
Ready == DataMessage(HandlerReady, InitialPriority, NoData)
Echoed(m) == [m EXCEPT !.priority = @ - 1]
Done(n) == NamedMessage("done", n)

\* The first writes of each plugin's run().
FirstWrites(n) ==
  CASE n = Antenna ->
         <<Registration(n, HandlerReady, MiddlePriority)>>
    [] n = Meatgrinder ->
         <<Registration(n, RegisterHandler, LowPriority)>>
    [] n = Quip ->
         <<RegisterCommand(QuipCommand),
           Registration(n, HandlerReady, MiddlePriority)>>
    [] n = Userlist ->
         <<Registration(n, HandlerReady, MiddlePriority)>>

\* Mutant: the antenna retries downwards, as the other plugins do.
AntennaRetriesDown(m) ==
  IF m.priority > MiddlePriority - Retries
  THEN <<Registration(Antenna, m.type, m.priority - 1)>> ELSE << >>

AntennaRetry(m) ==
  IF m.priority < MiddlePriority + Retries
  THEN <<Registration(Antenna, m.type, m.priority + 1)>> ELSE << >>

AntennaReaction(m) ==
  CASE m.kind = "registered" -> <<RegisterCommand(BlockCommand)>>
    [] m.kind = "refused" -> AntennaRetry(m)
    [] OTHER -> <<RegisterCommand(BlockCommand), Echoed(m)>>

MeatgrinderReaction(m) ==
  CASE m.kind = "registered" -> <<Ready, RegisterCommand(NormalCommand)>>
    [] m.kind = "refused" /\ m.priority > LowPriority - Retries ->
         <<Registration(Meatgrinder, m.type, m.priority - 1)>>
    [] OTHER -> << >>

QuipReaction(m) ==
  CASE m.kind = "registered" -> << >>
    [] m.kind = "refused" ->
         IF m.priority > MinPriority
         THEN <<Registration(Quip, m.type, m.priority - 1)>> ELSE << >>
    [] OTHER -> <<RegisterCommand(QuipCommand), Echoed(m)>>

\* Mutant: the announcement is answered, but the answer to the registration
\* is not: whoever registers late stays unknown.
UserlistWaitsForReady(m) ==
  CASE m.kind = "refused" ->
         IF m.priority > MiddlePriority - Retries
         THEN <<Registration(Userlist, m.type, m.priority - 1)>>
         ELSE <<Done(Userlist)>>
    [] m.kind = "registered" -> << >>
    [] OTHER -> <<RegisterCommand(ListCommand)>>

\* It does not echo handler_ready, and it gives up when it gets no priority.
UserlistReaction(m) ==
  CASE m.kind = "refused" ->
         IF m.priority > MiddlePriority - Retries
         THEN <<Registration(Userlist, m.type, m.priority - 1)>>
         ELSE <<Done(Userlist)>>
    [] OTHER -> <<RegisterCommand(ListCommand)>>

Reaction(n, m) ==
  CASE n = Antenna -> AntennaReaction(m)
    [] n = Meatgrinder -> MeatgrinderReaction(m)
    [] n = Quip -> QuipReaction(m)
    [] n = Userlist -> UserlistReaction(m)

-------------------------------------------------------------------------------
StartupCoreStep == CoreStep /\ UNCHANGED startupVars

\* plugin_init reads the hello and calls run().
ReadHello(l) ==
  /\ thread[l] = "hello"
  /\ pipe[l] # << >>
  /\ Head(pipe[l]).kind = "hello"
  /\ thread' = [thread EXCEPT ![l] = "run"]
  /\ pipe' = [pipe EXCEPT ![l] = Tail(@)]
  /\ todo' = [todo EXCEPT ![l] = FirstWrites(loadName[l])]
  /\ UNCHANGED <<core, vm, inPipe, outPipes, registrations, loadName>>
  /\ UNCHANGED <<handlers, bound>>

\* A done is the last thing a plugin writes.
WriteNext(l) ==
  /\ thread[l] = "run"
  /\ todo[l] # << >>
  /\ inPipe' = Append(inPipe, Head(todo[l]))
  /\ todo' = [todo EXCEPT ![l] = Tail(@)]
  /\ thread' = [thread EXCEPT ![l] =
                  IF Head(todo[l]).kind = "done" THEN "exited" ELSE @]
  /\ UNCHANGED <<core, vm, outPipes, registrations, pipe, loadName>>
  /\ UNCHANGED <<handlers, bound>>

\* The antenna registers before it binds, and returns if that fails.
BindFails(l) ==
  /\ thread[l] = "run"
  /\ loadName[l] = Antenna
  /\ todo[l] = FirstWrites(Antenna)
  /\ bound
  /\ bound' = FALSE
  /\ todo' = [todo EXCEPT ![l] = Append(@, Done(Antenna))]
  /\ UNCHANGED <<core, vm, inPipe, outPipes, registrations, pipe, thread, loadName>>
  /\ UNCHANGED handlers

\* Mutant: the meatgrinder stores a handler without looking at the type.
HandleAnyMessage(l) ==
  /\ thread[l] = "run"
  /\ todo[l] = << >>
  /\ pipe[l] # << >>
  /\ LET m == Head(pipe[l])
     IN  /\ todo' = [todo EXCEPT ![l] = Reaction(loadName[l], m)]
         /\ handlers' = IF loadName[l] = Meatgrinder
                        THEN handlers \cup {m.data} ELSE handlers
  /\ pipe' = [pipe EXCEPT ![l] = Tail(@)]
  /\ UNCHANGED <<core, vm, inPipe, outPipes, registrations, thread, loadName>>
  /\ UNCHANGED bound

\* One turn of the plugin's message loop.
HandleMessage(l) ==
  /\ thread[l] = "run"
  /\ todo[l] = << >>
  /\ pipe[l] # << >>
  /\ LET m == Head(pipe[l])
     IN  /\ todo' = [todo EXCEPT ![l] = Reaction(loadName[l], m)]
         /\ handlers' = IF m.type = RegisterHandler /\ m.kind = "data"
                        THEN handlers \cup {m.data} ELSE handlers
  /\ pipe' = [pipe EXCEPT ![l] = Tail(@)]
  /\ UNCHANGED <<core, vm, inPipe, outPipes, registrations, thread, loadName>>
  /\ UNCHANGED bound

PluginStep(l) == ReadHello(l) \/ WriteNext(l) \/ HandleMessage(l)

Next == StartupCoreStep \/ \E l \in Loads : PluginStep(l) \/ BindFails(l)

Spec == Init /\ [][Next]_vars

\* The core and the plugins' loops run; nothing makes the socket fail.
FairSpec ==
  /\ Spec
  /\ WF_vars(StartupCoreStep)
  /\ \A l \in Loads : WF_vars(PluginStep(l))

-------------------------------------------------------------------------------
(* Nothing is queued and nobody has anything left to write.                *)
Quiet ==
  /\ vm = << >>
  /\ inPipe = << >>
  /\ \A l \in Loads :
       thread[l] # "exited" =>
         thread[l] = "run" /\ todo[l] = << >> /\ pipe[l] = << >>

Started(n) == \E l \in Loads : loadName[l] = n

Learned(n, c) == Started(n) => c \in handlers

(* However the plugins' starts interleave, the meatgrinder learns the      *)
(* commands of the antenna and of the userlist: who registers before the   *)
(* announcement hears it, and who registers after it has been announced    *)
(* finds the meatgrinder registered already.  (Not so if the antenna exits *)
(* because its socket does not bind: the announcement may be queued for it *)
(* then.)                                                                  *)
CommandsAreLearned ==
  <>[](bound /\ Started(Meatgrinder) =>
         /\ Learned(Meatgrinder, NormalCommand)
         /\ Learned(Antenna, BlockCommand)
         /\ Learned(Userlist, ListCommand))

(* Antenna and userlist register for the same types at priority 0, the     *)
(* antenna retries upwards and the others downwards: whoever comes first,  *)
(* the antenna gets handler_ready (set_channel, leave_channel) before the  *)
(* userlist, which swallows it.                                            *)
AntennaComesFirst ==
  \A p, q \in Priorities :
    /\ registrations[HandlerReady][p] = Antenna
    /\ registrations[HandlerReady][q] \in {Quip, Userlist}
    => p > q

(* "When the handler is ready, we want to tell it we know how to handle    *)
(* /quip" (quip.cpp): when the start is over, the meatgrinder knows /quip. *)
QuipIsTold ==
  Quiet /\ bound /\ Started(Meatgrinder) => Learned(Quip, QuipCommand)

===============================================================================
