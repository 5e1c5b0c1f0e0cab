# Lirch: verification project

Lirch is a chat client for a local network. It has no server: every client
multicasts UDP datagrams and listens to the others. Inside a client there is a
small core, which routes messages between plugins, and everything else (network,
list of users, commands, user interfaces, logging) is a plugin with a thread of
its own. This directory holds TLA+ modules that model the core, the contract of
the plugins and the protocols between some of them, configurations that check
them with TLC, and proofs that TLAPS checks.

    tlc -config MCBusReload.cfg MCLirchBus      # one run
    tlapm LirchBusProofs.tla                    # the proofs of one module

`PROJECT.json` lists components, runs, mutants, the source lines behind every
definition, the hazards of the code and the theorems.

## 1. Inventory

### Components

| component | source | state | operations |
|---|---|---|---|
| message pipe | `core/envelope/message.cpp`, `include/lirch/core/message_pipe.h` | queue, mutex, condition variable, shared by copies of one `shared_ptr` | `write`, `blocking_read`, `read`, `has_message`, `peek` |
| registry | `include/lirch/core/registry.h` | `std::map<int, string, greater<int>>`, one for each message type | `add`, `get`, `removeall` |
| core thread | `core/core.cpp`, `core/plugin_loader.cpp` | `out_pipes`, `message_registrations`, `in_pipe` | `run_core`, one handler for each core message, `to_plugin` |
| plugin contract | `include/lirch/plugins/lirch_plugin.h`, the loops in `plugins/*` | the plugin's pipe, its name | hello, register, echo, retry, shutdown, done |
| antenna | `plugins/antenna/antenna.cpp` | socket, own nick, time of the last send, blocklist | sends and receives datagrams, `/block` |
| userlist | `plugins/userlist/userlist.cpp` | map of nicks with channels and time last seen, own nick | updates, expiry, `/nick`, `/list`, `/whois`, channels |
| meatgrinder | `plugins/meatgrinder/meatgrinder.cpp` | map of command handlers, multimap of replacers | dispatch of a typed line, macros |
| masseuse | `plugins/masseuse/masseuse.cpp` | none | received and notify messages become display messages |
| logger | `plugins/logger/logger.cpp` | mode, greylist of channels, open files, settings file | logging, change of mode |
| quip | `plugins/quip/quip.cpp` | lines of a file | `/quip` |
| console client | `ui/basic/basic.cpp` | channel of the reader thread, channel filter | a reader thread on stdin, display |
| curses client | `ui/curses` | windows, line editor | keyboard loop, display |
| Qt client | `ui/lirch_client_pipe.cpp`, `ui/qt` | state of the mediator, tabs, widgets | open, close, send, join; signals to the GUI |
| process | `core/qt` | core thread, Qt application | start, ctrl-c, end |
| extras | `plugins/extra` | none | timers, a second done, plugins that load plugins |

### How they interact

All communication goes through pipes. The core reads `in_pipe`, into which every
plugin thread, detached helper threads and a signal handler write. Each plugin
has one pipe from the core. A message carries a type and a priority; the core
gives it to the plugin registered for that type at the highest priority that is
not above the message's, and the plugin *echoes* it with the priority decremented
so that the next one gets it. Plugins that do not echo swallow the message.
Registering, unregistering, starting and ending are messages of the same queue.
There is no shared state between plugins except through the Qt mediator, which
the GUI thread and a plugin thread share without a lock.

Between clients there is only the multicast group: datagrams are lost, and every
client also hears itself.

### What is hard

* *Concurrency.* The notification of the condition variable outside the lock; a
  signal handler that takes the lock; several writers whose messages interleave.
* *Asynchrony.* The core's answer to a request arrives when other plugins have
  changed the registry. A plugin can be removed and added again while messages of
  its predecessor are queued. userlist decides on things that antenna carries out
  later.
* *Ordering at startup.* Plugins start in no order, compete for the same
  priorities and announce themselves to one another with messages that may be
  past when the other one registers.
* *Loss and time.* Lost datagrams, signs of life, expiry.
* *Termination.* Echoes must come to an end, a quit must stop everything, and two
  threads join each other in the Qt clients.

### What makes each component correct

* pipe: mutual exclusion, no lost wakeup, a FIFO channel, never an empty message
  from `blocking_read`.
* registry: the ordered map behaves as a function from priorities to names; a
  chain of echoes visits each registration once.
* core: registrations and pipes belong together, nobody is written to under the
  wrong name, each request has one answer, priorities are exclusive, the core
  outlives its plugins and stops after a quit.
* plugin contract: a message is passed down, in one copy, and leaves the system.
* startup: whatever the order, commands reach the meatgrinder and the antenna ends
  up above the plugins that swallow.
* presence: who is online is listed, who has gone is forgotten, antenna and
  userlist agree on the nick.
* Qt client: closing the window ends the program, after its threads have ended; a
  mediator that closes is noticed by the user.
* meatgrinder: the client is done with every line, macros that replace each other
  harm nobody else, and no sequence of definitions and erasures is undefined.
* masseuse, logger and interfaces together: what is said is shown and logged in the
  order of typing, once; the log holds what the user wants and nothing else, as far as
  the code keeps his choice (not the mode *default channel only* over a restart, which
  is a finding, nor any mode over a crash); a line goes to the channel the user has chosen; the tabs of the Qt
  window are the channels the antenna is in.
* still to come (section 7): the end of the console client, blocks.

## 2. Modules

| module | models | built on |
|---|---|---|
| `MessageChannel` | abstract: a FIFO channel whose messages are sent and got once | |
| `MessagePipe` | the pipe: lock, queue, condition variable | refines `MessageChannel` |
| `SigintPipe` | `handle_sigint` on top of the pipe | extends `MessagePipe` |
| `Registry` | operators: the registry as a function | |
| `RegistryService` | abstract: what the core expects of a registry | extends `Registry` |
| `RegistryMap` | the `std::map` as it is written | refines `RegistryService` |
| `LirchCore` | the core thread, one action per message type | extends `Registry` |
| `LirchBus` | the core and plugins that keep the contract | extends `LirchCore` |
| `HandlerStartup` | antenna, meatgrinder, quip and userlist at startup | extends `LirchCore` |
| `Presence` | antennas and userlists of several clients | |
| `Meatgrinder` | operators: lines, macros and what they make of lines | |
| `Conversation` | from the keyboard to the screen and the log: meatgrinder, antenna, masseuse, logger and one of two interfaces | extends `Meatgrinder` |
| `QtClient` | GUI thread, plugin thread and core thread of the Qt client, with the mediator | |
| `MessagePipeProofs`, `RegistryProofs`, `LirchBusProofs`, `HandlerStartupProofs`, `PresenceProofs`, `QtClientProofs`, `ConversationProofs` | theorems | each extends its module (`RegistryProofs` extends `RegistryMap`) |
| `ConversationCrashProofs` | theorem about the crashes | extends `ConversationProofs`, for its invariants |
| `MC*` | constants for TLC | |

**Pipes.** `MessagePipe` has one action for each stretch of code between two
points where another thread can step in: taking the lock, what happens under it,
the notification after it is released. `pc[t]` says where thread `t` is, `msg[t]`
what it carries. `asleep` is the wait set of the condition variable. The variable
`written` bounds the model: each message is written once. Above the pipe, all
other modules use its abstraction, a sequence with `Append` and `Head`; that is
what `ImplementsChannel` licenses.

**Core.** The core never writes to `in_pipe`, and between taking a message and
writing the answers nobody else can see what it does, so each handler is one
action of `LirchCore`. `vm` is the argument of `run_core`, processed before
`in_pipe`. A plugin *name* may be started several times; each start is a *load*
with its own pipe and thread, and `outPipes` maps the name to the present load.
A file that does not load is the second disjunct of `AddPlugin`. The retry of a
refused registration is up to the plugin.

**Plugins.** In `LirchBus` a plugin may do at any time what the plugins in the
source do: register, unregister, post, target, add another plugin, quit, return.
What it reads it handles as the message loops do; after a refusal it tries one
priority lower or, as antenna and masseuse do (`Upward`), one higher, and at the
end of its range it returns, as userlist and logger do, or goes on without the
registration, as the others do. `Detached` are plugins whose helper threads write
after `run` has returned (userlist's timer, the console reader).

**Startup.** `HandlerStartup` replaces the arbitrary plugins by the four that take
part in the handshake, with `todo` for the writes at the start of `run` and for
the answers of a handler, so that the core and the other plugins can step in
between any two writes. -30000 is scaled to `LowPriority`, 2000 retries to
`Retries`.

**Presence.** A client is an antenna and a userlist, connected by two queues that
stand for the core. `socket[h]` holds datagrams that have arrived, in order;
`Multicast` puts a datagram into the sockets of all clients that are on, less the
ones that lose it. A host may be `absent`, so that the runs with two hosts are also about
one client that hears only itself. Times are ages that saturate above the limit they are compared
with. `unheard` and `clash` are history variables for the properties.

**Qt client.** Three threads. The GUI thread: `app` is where `main` is, `window`
and `dialogs` what is on the screen, `events` the queued signals; a message box runs
an event loop of its own, so signals are handled while boxes are open and the user
answers the topmost one first. The plugin thread: `plugin` is where `run` is;
`BeginClose` and `close` are the two halves of `mediator.close`, the change of
`state` and the signal, since the GUI can read `state` between them. The core
thread is reduced to what this client sees of it: the answers to registrations
(`free` says which priorities others have left), the quit, the done, and the other
plugins as a whole (`others`). `use`, `die` and `closeEvent` keep the order of the
code: `closeEvent` accepts when the core is gone and asks all the same. Whether Qt
quits when a box over a hidden window is the last one to close differs, so both are
possible. All signals that only change what the window shows are one `display`; the
tabs and what is shown in them are in `Conversation`.

**Conversation.** A line typed at the console or into the Qt window (`ui`) becomes a
`raw_edict`, which the meatgrinder rewrites or gives to a handler; the edict goes to
the antenna, comes back from the network, becomes a `display` and passes the logger
and the interface. The core appears only as the order of messages: a message that is
written goes at once to the pipe of the plugin that gets it next. This is exact,
since the core takes messages in the order in which they were written and the pipe
of a plugin is read in order too: the time a message spends in `in_pipe` only adds to
the time it waits. `Route` is what the registrations, settled after the start, make
of the types; the order of logger and Qt plugin, which compete for one priority, is
decided by `qtFirst`. The model starts when all have registered and the first
`set_channel` has gone round. A quit puts a shutdown behind what is queued for each
plugin, and what is written afterwards is read by nobody (`Put`).

A line is its first word and the words behind it, as `parse` finds them; a macro
fits a line that begins with its command and replaces the first word, perhaps by
several (`Rewritten`). Only that lets a line go round again. What regular expressions
do to the rest of a text is left out, and so are texts where they do not fit, which
behave as lines without a macro. Undefined behaviour (`erase(end())`, `at(0)` of
nothing) ends the program or does nothing: the next state is either. The bare word
and the word followed by a space are one line, since the undefined case includes that
nothing happens.

In the Qt client the window has its own thread and `events` are the signals on their
way to it; `focus` makes the tab and sends `set_channel` once more, as
`request_new_channel` does. The current tab may be any, the one for file transfers
included: its text is taken for a channel. The menu entry *New Channel* makes
the tab and sends `set_channel` as the signal for a new name does, and is not a
separate action; that it makes a second tab for a name that has one is left out.

History variables: `typed`, what the user typed and under which channel; `mode`, the
mode of logging he chose; `mayLog` and `mustLog`, the lines that some mode since the
typing allowed, or every one, with what is lost (`LostModes`) excepted: a mode chosen
before a crash becomes `unsaved`, which allows everything and asks for nothing, and
DEFAULT after a restart `unkept`, which allows the default channel and asks for nothing,
until the user chooses again; `waited`, whether he let things settle before he acted.
`shown` and `log` are sequences of line numbers.

## 3. Runs

Every property of a passing run has a mutant in `PROJECT.json`: a plausible bug
in one definition that makes TLC find it violated in the same run.

| run | question | bounds |
|---|---|---|
| `pipe` | exclusion, no lost wakeup, FIFO; every message is taken, a core_quit written by a ctrl-c handler too | 2 blocking readers, 1 polling reader, a plugin and the handler write, 3 messages |
| `sigint_any` | ctrl-c on a thread inside the pipe (**violation**) | 1 reader, a plugin and the handler |
| `registry_map` | the map implements the service | 3 names, 5 priorities and the values on both sides of the bounds |
| `bus_reload` | pipes, threads and registrations keep in step across restarts | 2 names, one with a detached writer, 3 loads, 1 type, 2 priorities |
| `bus_messages` | each plugin gets a message once, one copy; echoes end; a quit stops the core | 2 plugins, one that swallows, 1 type, 1 message, 2 priorities |
| `startup` | the antenna comes first, commands are learned | 4 plugins, 2 types, 2 retries |
| `startup_quip` | quip is told (**violation**) | the same |
| `presence` | antenna and userlist agree, who is online is listed, who has gone is forgotten | 1 client that hears itself, with 1 change of channel and 1 of nick, or 2 clients with 1 lost datagram; 1 may quit |
| `presence_expired` | the timer drops the unseen only (**violation**) | 1 client, 1 change of nick |
| `conversation` | what is shown and logged, where lines go, whether all comes to an end | console: 3 lines out of 17 kinds; Qt: 2 acts (a line, Connect, a mode), 2 sessions, and 1 act where the plugin registered before the logger |
| `conversation_default` | the mode *default channel only* is kept (**violation**) | the same |
| `qt_client` | closing the window ends everything, in the right order; a close is noticed | 1 type, 2 priorities, 1 message to display, 1 `/quit`, 1 quit by others |

Why the bounds are enough:

* *pipe*: a lost wakeup needs a sleeper, a writer between push and notify, and
  somebody who takes the message in between; the instance has two of each and a
  polling reader. The theorems then cover any number.
* *registry*: the failing answers of `add` and `get` are at the bounds, both of
  which are tried from outside; three names fill neighbouring entries and leave
  gaps.
* *bus*: confusion about a name needs a load, its successor and a third party that
  adds it: three loads, two names. Types are independent in the core, so one
  type is enough for a registry; a message interacts with the plugins above and
  below it, so two. Loads, payloads and registrations per load are the named
  bounds `Loads`, `posted`, `asked`, `added`, `quit`.
* *startup*: three plugins compete for one priority, so two retries find a place
  for each.
* *presence*: KeepAlive = 1 and Expiry = 2 keep the order of 60 and 120 seconds,
  the sign of life being sent when more than KeepAlive seconds have passed. A nick
  is either the default one, which all share at the start, or a chosen one.
  `askForUsers` sends five copies of a question against losses; the model sends
  one. `MaxChannelOps`, `MaxNickOps`, `MaxLost`, `Quitters` and `StartsOverlap`
  bound what users and network do; of the two hosts one may be `absent`. The user of a
  client on its own may act (`WhenAlone`), and where there are two a datagram may be lost
  (`WhenTwo`), since two that start, talk and change their nicks have
  too many states. In `presence` a client starts only when nothing is under way (`StartsOverlap = FALSE`); clients
  that start together share the default nick, which the properties except anyway.
* *conversation*: a macro, a line it rewrites and its erasure are three lines, as are
  a change of channel, a command and a line in the new channel; erasing more than was
  defined takes three lines too. A channel is named twice at most, so one name beside
  the default is enough; every other word of the lines may be a channel's name too, and
  the empty word is the empty name (`Named`, `Blank`). What a mode does to a line takes a mode and a line, with a
  restart between them; a race of the window and the antenna takes two acts. Which
  lines may come first, second and third is `ConsoleTexts` and `QtTexts`: commands of
  which one is enough come first, so that each still meets two lines behind it.
* *Qt client*: the queues only have to be long enough for a display, an answer and a
  shutdown to be under way together; two priorities and one below let a registration
  be accepted, retried and given up; two quits from different sides meet the user's
  own close.

Deadlock is checked in the runs of the pipe and the registry. In the others the
system may stop: the core returns after a quit, clients end, and users do nothing.

### Fairness

* Threads are scheduled: weak fairness of the core's step, of each plugin's
  handling of messages, of the antenna's and the userlist's loops.
* The mutex is not continuously free while others use it, so taking it has strong
  fairness (`MessagePipe`, `SigintPipe`): a thread that waits for a mutex that is
  released again and again gets it. The standard does not promise it; the
  futex-based mutexes the program runs on do not starve a waiter for ever.
* A reader keeps calling `blocking_read`: the loops of the core and the plugins.
* Time passes (`Tick`), and handling and delivering take less than a second: `Tick`
  waits until nothing is under way. So a timer never fires early because a thread
  was slow; that such a thread could cause an expiry is outside the model.
* The GUI thread handles its events and `main` goes on (`GuiStep`), also while a
  message box is open, since a box runs an event loop.
* In `Conversation` each plugin and the window go on; the plugins are fair one by one,
  so that a line that goes round in the meatgrinder for ever cannot stop the others,
  and a plugin reaches its shutdown because it reads its pipe in order.
* Users are not fair: nobody has to answer a message box, type, register,
  post, return or quit.

## 4. Findings

* `sigint_any`: the ctrl-c handler locks a mutex that the thread it interrupts may
  hold. The comment above it knows of the danger of locking twice; unregistering
  the handler does not avert it, since no thread blocks SIGINT. `pipe` shows
  that there is no problem when the main thread gets the signal.
* `startup_quip`: `/quip` can stay unknown for a whole session. quip registers for
  the announcement too late or below the userlist, which swallows it, and, unlike
  antenna and userlist, does not announce its command when its registration
  succeeds. The `TODO` in `run` of quip knows of a race and works round one order.
* `presence_expired`: a received change of nick overwrites a fresh entry with the
  old nick's stale one, and the timer then drops somebody who has just been heard
  of.
* `conversation_default`: the setup wizard offers *Default (default channel only)*
  beside On and Off (`lirch_setup_wizard.ui:119`). The logger keeps it as
  `logging_disabled` with an entry in its greylist (`logger.cpp:177-178`), and saves
  only the former (`:200`). On and Off come back after a quit and a restart, this mode
  comes back as Off, and what the user sees in the default channel is not logged. He is
  not asked again: the wizard opens by itself only when the program runs for the
  first time (`lirch_qt_interface.cpp:398`). `ShownIsLogged`
  excepts this case, the mode DEFAULT from a restart until the user chooses again.

Met while modelling `Conversation`, and part of the model, not violations of a
property:

* A bare `/channel` in the Qt client makes a tab whose name is empty. A line typed
  there never stops: `display` shows a text without a channel in every tab by calling
  itself, and this tab is one of them (`lirch_qt_interface.cpp:488-492`).
* `/macro` and `/macro_erase` followed by a space only, and `/macro_erase` of a word
  that has no macro, are undefined (`meatgrinder.cpp:78`, `:101`, `:172`).
  `OnlyKnownCrashes` shows that these and the empty tab are all there is.
* `/channel c` quickly followed by `/leave c` joins `c` again in the Qt client:
  the window's second `set_channel` comes after the leave. Window and antenna agree
  all the same (`TabsAreJoined`).
* The mode is saved when the logger ends (`logger.cpp:200`), so a crash loses it. From
  there until the user chooses again `LogRespectsMode` allows everything and
  `ShownIsLogged` asks for nothing. Without a crash never is more logged than the user
  wanted, over any number of sessions (`LogRespectsMode`).
* A bare `/leave` is multicast as leaving altogether, while the tabs stay
  (`antenna.cpp:376`), and disconnecting while a `set_channel` is under way leaves a
  channel joined that has no tab. `TabsAreJoined` excepts both.
* Where the Qt plugin has registered before the logger, a quit can come between them,
  and a line is shown but not logged. `ShownIsLogged` speaks of the time before.

## 5. Theorems

TLAPS proves, for any number of threads, messages, types, loads, clients, nicks,
priorities, typed lines, macros and sessions (names of plugins too, but for the startup
and the conversation, which are about certain ones):

| theorem | property |
|---|---|
| `MessagePipeProofs!TypeCorrect` | `TypeOK` |
| `MessagePipeProofs!LockIsExclusive` | `LockHolder` |
| `MessagePipeProofs!WakeupsAreNotLost` | `NoLostWakeup` |
| `MessagePipeProofs!BlockingReadIsNeverEmpty` | `BlockingReadReturnsMessage` |
| `MessagePipeProofs!PipeImplementsChannel` | `ImplementsChannel` |
| `RegistryProofs!MapOrdered` | (the order of the map, used by the next two) |
| `RegistryProofs!MapImplementsService` | `ImplementsService` |
| `RegistryProofs!EchoesVisitAll` | `EchoVisitsAll` |
| `LirchBusProofs!TypeCorrect` | `TypeOK` |
| `LirchBusProofs!RegisteredPluginsAreLoaded` | `RegistrationsAreLive` |
| `LirchBusProofs!PrioritiesAreExclusive` | `RegistrationIsExclusive` |
| `LirchBusProofs!RunningPluginsAreLoaded` | `RunningIsLoaded` |
| `LirchBusProofs!CoreOutlivesPlugins` | `CoreStopsLast` |
| `LirchBusProofs!HelloComesFirst` | `HelloFirst` |
| `LirchBusProofs!MessagesHaveOneCopy` | `OneCopy` |
| `LirchBusProofs!RequestsAreAnswered` | `OneStatusPerRequest` |
| `LirchBusProofs!MessagesPassDownOnce` | `PassedDownOnce` |
| `HandlerStartupProofs!TypeCorrect` | `TypeOK` |
| `HandlerStartupProofs!AntennaIsAbove` | `AntennaComesFirst` |
| `PresenceProofs!TypeCorrect` | `TypeOK` |
| `PresenceProofs!NicksAgree` | `AntennaFollowsUserlist` |
| `PresenceProofs!SilentAreListed` | `OnlineIsListed` |
| `QtClientProofs!TypeCorrect` | `TypeOK` |
| `QtClientProofs!JoinIsEnough` | `MediatorOutlivesPlugin` |
| `ConversationProofs!ConversationTyped` | `TypeOK` |
| `ConversationProofs!WishIsRespected` | `LogRespectsMode` |
| `ConversationProofs!SightIsKept` | `ShownIsLogged` |
| `ConversationProofs!PlainWordsKeepOrder` | `SameOrder` |
| `ConversationProofs!PatienceIsRewarded` | `PatientUserIsRight` |
| `ConversationProofs!TabsAgree` | `TabsAreJoined` |
| `ConversationCrashProofs!CrashesAreKnown` | `OnlyKnownCrashes` |

**Pipe.** The invariant is `TypeOK /\ LockHolder /\ WriterHasMessage /\
NoLostWakeup`. `WriterHasMessage` is needed because a push of the empty message
would break the type of the queue. `NoLostWakeup` is itself inductive: it bounds
the queue by the writers that have not notified plus the readers that will still
look. A push adds one to both sides; a notify moves one from the first set to the
second or finds nobody asleep; a take removes one from both; a reader that goes
back to sleep has seen an empty queue. The assumption is `PipeAssumption`: finitely
many threads, and values that mark absence are different from the others.

**Registry.** `MapInv` says that the entries of the map are strictly descending and
within the bounds; the function the service speaks of is read off them (`AsFunction`).
Three lemmas carry the refinement: what `lower_bound` finds (`LowerBoundFinds`), what
an insertion or an erasure moves (`InsertAtMoves`, `RemoveAtMoves`), and what the loop
of `removeall` has left after each round (`RoundsFollow`, `RemoveallKeepsOthers`). They
need a first entry below a bound and an induction over the rounds; both are instances of
`LeastNumber`, which the library's well-founded order on the naturals gives without a
theorem that takes an operator. `RegistryMap` writes the rounds as a recursive function
(`AfterRounds`), not as `SelectSeq`, of which the prover knows nothing. `EchoesVisitAll`
follows from the order: below the answer the next entry is the first.

**Types of the bus.** By one step per action, with lemmas for what an action takes
off a queue (`ProcessType`, `TakeType`) and for the messages that are built.
`NamedLoads` (a thread that has started has a name) is needed so that the messages
a plugin writes under its name are well typed. `PluginStepEffect` says once what
any step of a plugin may change, and the other proofs use that instead of the
plugin's eight actions.

**Registrations.** `RegistrationsAreLive` is inductive: a name enters a registry
only while it has a pipe and leaves all of them in the same step as its pipe.
`RegistrationIsExclusive` follows from the types and `CanAdd`.

**Threads.** `RunningIsLoaded` is not inductive: a done message that is under way
for a thread that still runs would remove its pipe. `LifeInv` adds what the done
messages stand for: each is of a name whose load has exited (`DonesAreOfExited`),
no two are of the same name (`DonesDiffer`), and a pipe belongs to the load that
was started under its name (`PipesBelong`). So a name cannot be added again while
a done for it is queued, and a done never hits a successor. `CoreStopsLast` follows:
when the core stops no name has a pipe, and a thread that runs has one. It rests on
`plugin_init` being the only sender of a plugin's done: settingstest
(`plugins/extra`), a test plugin that is outside the model, sends one of its own
first, and the second could hit a successor.

**Messages of the bus.** `HelloInv` adds to `HelloFirst` that nothing has been written
for a load that has not started, which follows from `PipesBelong`. `CopyInv` says what
`OneCopy` counts by places: two places that hold a payload are the same one, and no
place does before it is posted; so a step has only to take it off one queue and put it
behind one. It needs `NoData` not to be a payload (`CoreAssumption`). For
`OneStatusPerRequest`, `StatusInv` counts requests and statuses under way; a take or a
write changes a count by one (`CountTaken`, `CountBehind`). It has to know in addition
that a plugin starts with nothing asked under its name: a request in `in_pipe` is of
a plugin that runs, or a done of its plugin is behind it (`Asking`), so that when the
done is processed none is left. That in turn rests on there being one done only
(`DonesDiffer`), and the status goes to the one who asked by `RunningIsLoaded`.

**Passing down.** The deliveries of a message could rise again, or come back to a
plugin, only if a plugin moved within the registry of the type while the message is
under way. `SlotInv` says why it cannot: of a plugin and a type there is one open
request at most (a `register` on its way up or a refusal on its way down), or one entry
in the registry, and never both; a retry takes the refusal before it asks again. An
entry once granted is therefore the only one the plugin will ever have for that type
(`Granted`, `GrantedStays`). `PassInv` adds, for each payload (`Handed`), that a copy on
its way to the core is below all deliveries so far and one in a pipe not above any, and
that each delivery was the initial one or at the entry its load was granted. The core
writes strictly below the priority it reads, so neither higher nor to a load that had
the message.

**Startup.** `AntennaComesFirst` speaks of two registrations that are granted far
apart, so the invariant follows each priority from the plugin that asks for it over
the core and back: `Fits` says that the antenna asks for priorities from the middle
up, quip and userlist for such from the middle down. `QueuesSound` and `PipesSound`
carry that through `todo`, `in_pipe` and the refusals in the pipes, and
`RegistrationsFit` says the same of what the core has granted; at the middle itself
only one of them can be. A refusal reaches the plugin it is for because a pipe of the
core belongs to a load started under its name (`Linked`), and a plugin that starts
finds nothing of an earlier one (`Fresh`). `StartupAssumption` asks only that the
four plugins and the two types are different and that the priorities are integers.

**Nicks.** `AntennaFollowsUserlist` looks at the last `changed_nick` on its way. With
the clients that have not started, which have one nick in both places, it becomes
inductive beside the types (`NickInv`): what is put behind a queue without a change of nick, and what is taken
from its head, keeps the agreement (`AgreesBehind`, `AgreesTail`), and a new change at
the end settles it (`AgreesNew`). The types have to say which kind of message has a
channel, an old nick or neither in its second field. `Hosts` is finite, since the
losses that `MaxLost` bounds are counted over the clients.

**Who is listed.** `OnlineIsListed` speaks of the moments when nothing is under way; the
invariant has to say it of all the others. A *fact* about a nick is that a list has heard
of it lately enough, that it is in the default channel, or that its owner owes an answer.
`Derives` says which fact holds after a message if which held before it, and `Will` that
a fact holds when everything in the userlist's pipe and then in the socket has been
handled: there is a chain of facts along the two queues. What is put behind a queue
extends the chain, handling the first message shortens it (`WillTake`, `WillMove`,
`WillArrive`). `TouchInv` then says of each silent host and each other one that the list
will have heard of it no longer ago than it has been idle (`Told`), or it will still
say something, or a question under way will be answered because the host belongs to the
default channel (`InTouch`). The last is how a newcomer learns of those who are idle;
`TidyInv` (the queues of a client at its start), `NickInv` and `DifferInv` (no two
speak under one nick) see to it that a change of nick does not come between. When a
second passes, the list ages by one and so does the idle time, which never exceeds
`KeepAlive` with nothing under way; that the timer forgets nobody is the assumption
`LifeSignAssumption`, 60 < 120. Only silent users are spoken of: one who has left the
default channel no longer answers a newcomer, who learns of him with the next sign of
life, and a change of nick hands on the age of the old entry, as in the finding
`presence_expired`. The others may do what they like: the run has clients that start,
stay and quit, the theorem also those who talk, come, go and change their nicks.

**End of the Qt client.** `JoinInv` is the chain by which `MediatorOutlivesPlugin`
holds: `main` has ended only after the core returned (`Joined`), the core returned
only without pipes (`PipesGone`), the plugin's pipe goes when its done is read
(`DoneSeen`), and a done in `in_pipe` was the last thing the plugin's thread wrote
(`DoneSent`). No link may be left out: each is inductive only beside its neighbour.

**Types of the conversation.** `TypeInv` says more than `TypeOK`: where a message of a
kind can be and where it goes on from there (`Placed`, with the ways of `Way`), which
typed line it stems from and what it has kept of it (`Origin`), and that its words were
typed by the user or stand in a built-in macro (`Worded`, `GoodMacro`). So a message
about an empty channel stems from a bare command or from a macro somebody made of it,
which is what the properties except. The assumption is `ConversationAssumption`: the
default channel has a name, and the words of the built-in macros may be typed.

**The log.** A line is logged according to the mode in force when the logger gets to it,
while the property speaks of the modes in force when and since it was typed. `LogInv`
relates the two through the logger's pipe: the last change of mode in it is the one the
user chose, and without one the logger already acts on it (`Pending`); a line in the
pipe will be judged by the change before it, or by the present mode, and that verdict
fits `mayLog` and `mustLog` (`Judged`); a line that is still farther behind fits
the mode chosen last (`Wanted`). `Closing` takes this over a restart: the shutdown is the
last message the logger reads, and `saved` is what it then acts on. A line that has gone
past the logger, or past the window where that comes first, is in the log or waits for
the logger (`SeenIsLogged`); `ShownIsLogged` is the part of it a user can see. What
`mustLog` does not hold it does not claim: `SightIsKept` is about On over quits and
restarts and about DEFAULT in the session it was chosen in. Most
steps leave the logger alone or only put something behind its pipe; `PassKeeps` deals
with all of these at once.

**Order.** Each place where a line can be has a stage (`StageOf`). `InLine` says that
of two lines on their way the one at the higher stage, or farther ahead in the same
queue, was typed earlier; `Past` that what is shown or logged was typed before whatever
has still to pass there. Taking the front of a queue, putting it at the end of the next
(`MovesOn`), and doing both towards the window and the logger (`MovesOnTwice`) keep this.
Where the window comes before the logger the two share a stage, since neither waits for
the other. It holds of the lines said in plain words only; these must not turn into
commands, nor commands into them, so `Orderly` also says that no macro is about the
empty word (`Harmless`) and that no message to the meatgrinder will make one
(`SaysWell`), as long as nobody uses `/replace` (`Plain`).

**Patience.** If the user of the console waits, at most one message is under way, and
either it will tell the reader the channel he named last (`Asks`) or the reader's pipe
or its `channel` holds it already (`Told`). `PatientInv` says so, and that the lines
typed so far went to the right channel. The last of the lines that name a channel exists
by `Latest`, again from the order of the naturals.

**Tabs.** The tabs and the antenna's channels differ while messages and signals are
under way, so `Balanced` compares, for each channel, what they will come to. If nothing
about the channel waits for the window's plugin (`Still`) and there is a tab wherever a
signal asks for one (`Settled`), then the antenna will be in the channel in the end
exactly if there is a tab that no signal closes. What the antenna will come to is said
by the last message about the channel on its way, or by the present channels if there
is none (`Remains`). A tab that opens sends `set_channel` once more, so that the balance
is suspended until the window's plugin has seen it. Once Connect is unchecked only
leaving goes on (`Leaving`), and `Connect` itself is used when nothing is under way
and names every tab: `AllTabsTold` has that from `SetToSeq` being a bijection.

**Crashes.** An erasure is undefined where the word has no macro, and the property
blames the user only if up to that line he erased the word more often than he defined
it. So `CrashInv` keeps the books (`Books`): there is a line `h` such that, for every
word, the definitions up to `h` are at most as many as the macros that are there plus
the erasures up to `h` (`Balance`; a macro counts as often as it is in the bag,
`Copies`), and each later definition is under way (`AllUnderWay`). A command about
macros passes the queue of the meatgrinder twice, as a line and as `register_replacer`,
and may meet macros made of other commands on its way; `InTurn` says that these commands
still take effect in the order in which they were typed, since a line that is rewritten
is put behind the queue but is none of theirs (`Direct`, `Faithful`). A quit may swallow
a definition, but whatever is swallowed after it was typed later, so that nothing is
erased that counts on it (`UnderWay`). The empty tab needs a `set_channel` without a
name, which stems from a bare `/channel` (`NoBlankTab`). `Careful` is the property's
first exception: nobody mentions these commands as an argument.

Assumptions on constants are named in the modules that declare them and evaluated
by TLC in the runs.

## 6. What is only model-checked, and what is not modelled

Model-checked only:

* Liveness (`EveryMessageIsTaken`, `QuitStopsCore`, `MessageLeaves`,
  `CommandsAreLearned`, `DepartedIsForgotten`, `ClosingEnds`, `CloseIsNoticed`,
  `LinesSettle`, `QuitEnds`), since the prover has no fairness and no ENABLED.
* The four findings are counterexamples of TLC.

Induction over data is possible as far as it can be put as a least counterexample
(`LeastNumber`, `Latest`); theorems of the library that take an operator cannot be used,
nor can operators of the community modules that the prover does not know.

Not modelled:

* `has_message` and `peek` of the pipe, which change nothing; `clear`, `reset`,
  `swap` and `size`, which the core does not call.
* The dynamic loader: a file loads or it does not.
* Layout and lengths of datagrams, the normalisation of text, settings files,
  files of quips, everything drawn on a screen, the parsing of arguments.
* Data of messages, except where a property needs it: a payload is one of a few
  values.
* `/list`, `/whois` and the display of notices in userlist: they change nothing.
* The logger's directory and files that do not open; `SET_CHANNELS` and the answer to
  `query commands`, which nobody sends or asks for; ignored users and timestamps in
  the window; saving and opening logs there.
* The choice of a quip, and the keyboard and windows of the curses client: their
  message loops are those of `LirchBus`, the rest is text and terminal.
* settingstest and its second done message.

Simplified, where no property depends on it:

* A handler that echoes a message and then does its work is one step: the logger's
  line is in the log when the echo is written (`LogDisplay`), and a signal is posted
  together with the echo (`Emit`). In the code the one comes shortly after the other,
  so a line may be shown for a moment before it is in the log.
* `/macro` and `/macro_erase` put the missing slash before a command
  (`meatgrinder.cpp:79`, `:102`); the lines of `Conversation` name commands with it.
* The built-in macro for `/slap` adds words (`meatgrinder.cpp:155`). The model leaves
  them out, or a loop through `/slap` would make longer and longer lines. So a bare
  `/slap` comes to a bare `/me`, which is dropped, where the code says that somebody
  slaps. Likewise a replacement that begins with a word without a slash, which in the
  code is said as plain text, is an unknown command in the model.
* In `QtClient` a `/quit` goes through the meatgrinder in one step with the quit.
* In `LirchBus` the core makes a pipe, says hello and enters the pipe into `outPipes`
  in one step. That the plugin's thread, which runs by then, cannot read something else
  first follows from the order of the lines (`core.cpp:74-75`: nobody has the pipe
  before the hello is in it) and is not exercised. In `bus_messages`, where the end after a quit is checked,
  nobody adds plugins; in `bus_reload` somebody does.
* In `QtClient` a close that comes while the program is still loading counts as noticed
  (`CloseIsNoticed`).
* In `Conversation` datagrams come back in the order in which they were sent. Where the
  Qt plugin has registered before the logger (`qtFirst`), TLC allows the user one act;
  what holds there for more acts is known from the theorems.
* `PatientUserIsRight` is about a user who waits until nothing is under way. A line
  typed right behind a change of channel may still go to the old one: the reader looks
  for one `set_channel` before each line.
* Components planned below.

## 7. Plan

Done: pipes, ctrl-c, registry, core, plugin contract, startup, presence, the Qt
client, and the way of a line through meatgrinder, antenna, masseuse, logger and both
interfaces. Next, in this order:

1. The console client as a second way out beside `QtClient`: `lirch_core::exec`,
   `quit` and the destructor, where the core thread can come to join itself.
   The comment on `closeEvent` ("Any close request is accepted
   when the core is shutdown") against the prompt that can still refuse.
2. `Presence` with channels over several hosts (who is in a channel is known to
   those who joined later), and the antenna's blocklist. Two hosts that may do
   anything have more than 15 million states; this needs an abstraction of the ages
   first.

The runs stay few, one per question. Runs of the new modules keep to two or three
actors, two names or nicks and one or two operations of each user, as the present
ones do.
