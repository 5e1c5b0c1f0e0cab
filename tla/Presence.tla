-------------------------------- MODULE Presence --------------------------------
(***************************************************************************)
(* Who is online: the userlist plugins of several hosts, which know each   *)
(* other through the datagrams their antennas multicast (plugins/userlist, *)
(* plugins/antenna).  A host's antenna sends what it is told and a sign of *)
(* life when it has been idle; its userlist learns from what the antenna   *)
(* receives, its own datagrams included, and forgets nicks it has not      *)
(* heard from.                                                             *)
(*                                                                         *)
(* Between antenna and userlist the core routes messages in order, so the  *)
(* two pipes stand for it; set_channel and leave_channel pass the antenna  *)
(* first (AntennaComesFirst in HandlerStartup).  Times are ages that count *)
(* up to the limit they are compared with.  Nobody is blocked, and names   *)
(* fit into a datagram.                                                    *)
(***************************************************************************)
EXTENDS Naturals, Sequences, FiniteSets

CONSTANTS
  Hosts,
  Nicks,
  DefaultNick,      \* LIRCH_DEFAULT_NICK, which every client starts with
  Preferred,        \* the nick in each host's settings
  Channels,
  DefaultChannel,
  NoChannel,        \* the empty channel name: all channels
  KeepAlive,        \* idle seconds before a sign of life (60)
  Expiry,           \* seconds after which a nick is forgotten (120)
  StartsOverlap,    \* clients start whenever they like, or only when all is quiet
  MaxLost,          \* bounds, by how many clients take part, on the datagrams
  MaxChannelOps,    \*   the network loses and on what the user of each host does
  MaxNickOps,
  Quitters          \* hosts whose user may quit

ASSUME PresenceAssumption ==
  /\ IsFiniteSet(Hosts)
  /\ DefaultNick \in Nicks
  /\ Preferred \in [Hosts -> Nicks]
  /\ DefaultChannel \in Channels
  /\ NoChannel \notin Channels
  /\ KeepAlive \in Nat /\ Expiry \in Nat
  /\ StartsOverlap \in BOOLEAN /\ Quitters \subseteq Hosts
  /\ {MaxLost, MaxChannelOps, MaxNickOps} \subseteq [1..Cardinality(Hosts) -> Nat]

\* The sign of life is due before anybody may forget: 60 and 120 seconds.
ASSUME LifeSignAssumption == KeepAlive < Expiry

VARIABLES
  state,        \* each client: absent (never starts), off, on, or left
  toAntenna,    \* the antenna's pipe
  toUserlist,   \* the userlist's pipe
  socket,       \* datagrams that have arrived and are not read yet
  antennaNick,  \* currentNick of the antenna
  idle,         \* seconds since the antenna's lastSent
  userList,     \* the userlist's map
  currentNick,  \* currentNick of the userlist
  firstTime,    \* the userlist has not handled a nick message yet
  channelOps, nickOps,  \* what the user has done, for the bounds
  lost,         \* datagrams lost, for the bound
  unheard,      \* history: seconds since a datagram from each nick was handled
  clash         \* history: two clients have used the same nick at once

pipes == <<toAntenna, toUserlist, socket>>
history == <<unheard, clash>>
vars == <<state, pipes, antennaNick, idle, userList, currentNick, firstTime,
          channelOps, nickOps, lost, history>>

Old == Expiry + 1         \* any older age
Idle == KeepAlive + 1

\* An entry of the map; Unknown where there is none.
Status == [known : BOOLEAN, channels : SUBSET Channels, age : 0..Old]
Unknown == [known |-> FALSE, channels |-> {}, age |-> Old]

\* operator[] makes an empty entry with lastseen 0 where there is none.
Entry(e) == [e EXCEPT !.known = TRUE]

\* Field channel is the old nick in a nick_change (datagram type nick).
Datagrams == {"edict", "join", "left", "here", "auto", "who_is_here",
              "nick_change"}
Of(kinds, channels) == [kind : kinds, channel : channels, nick : Nicks]

Message ==
  Of({"edict", "join", "left", "here", "who_is_here", "set_channel",
      "leave_channel"}, Channels)
    \cup Of({"left", "auto", "nick", "changed_nick", "shutdown"}, {NoChannel})
    \cup Of({"nick_change"}, Nicks)

Pipes == [Hosts -> Seq(Message)]

TypeOK ==
  /\ state \in [Hosts -> {"absent", "off", "on", "left"}]
  /\ toAntenna \in Pipes
  /\ toUserlist \in Pipes
  /\ socket \in Pipes
  /\ antennaNick \in [Hosts -> Nicks]
  /\ idle \in [Hosts -> 0..Idle]
  /\ userList \in [Hosts -> [Nicks -> Status]]
  /\ currentNick \in [Hosts -> Nicks]
  /\ firstTime \in [Hosts -> BOOLEAN]
  /\ channelOps \in [Hosts -> Nat]
  /\ nickOps \in [Hosts -> Nat]
  /\ lost \in Nat
  /\ unheard \in [Hosts -> [Nicks -> 0..Old]]
  /\ clash \in BOOLEAN

Init ==
  /\ state \in [Hosts -> {"absent", "off"}]
  /\ \E h \in Hosts : state[h] = "off"
  /\ toAntenna = [h \in Hosts |-> << >>]
  /\ toUserlist = [h \in Hosts |-> << >>]
  /\ socket = [h \in Hosts |-> << >>]
  /\ antennaNick = [h \in Hosts |-> DefaultNick]
  /\ idle = [h \in Hosts |-> 0]
  /\ userList = [h \in Hosts |-> [n \in Nicks |-> Unknown]]
  /\ currentNick = [h \in Hosts |-> DefaultNick]
  /\ firstTime = [h \in Hosts |-> TRUE]
  /\ channelOps = [h \in Hosts |-> 0]
  /\ nickOps = [h \in Hosts |-> 0]
  /\ lost = 0
  /\ unheard = [h \in Hosts |-> [n \in Nicks |-> Old]]
  /\ clash = FALSE

About(k, c, n) == [kind |-> k, channel |-> c, nick |-> n]
OnChannel(k, c) == About(k, c, DefaultNick)   \* the nick is not used

\* Those who take part.
Clients == {h \in Hosts : state[h] # "absent"}

On == {h \in Hosts : state[h] = "on"}

\* Nothing is under way.
Quiet ==
  \A h \in On :
    /\ toAntenna[h] = << >> /\ toUserlist[h] = << >> /\ socket[h] = << >>
    /\ idle[h] <= KeepAlive

-------------------------------------------------------------------------------
(* The client *)

\* plugin threads run, and populateDefaultChannel has posted its messages.
Start(h) ==
  /\ state[h] = "off"
  /\ StartsOverlap \/ Quiet
  /\ state' = [state EXCEPT ![h] = "on"]
  /\ toAntenna' = [toAntenna EXCEPT ![h] =
                     <<OnChannel("who_is_here", DefaultChannel)>>]
  /\ toUserlist' = [toUserlist EXCEPT ![h] =
                      <<About("nick", NoChannel, Preferred[h])>>]
  /\ clash' = (clash \/ \E k \in On : antennaNick[k] = antennaNick[h])
  /\ UNCHANGED <<socket, antennaNick, idle, userList, currentNick, firstTime>>
  /\ UNCHANGED <<channelOps, nickOps, lost, unheard>>

UserActs(h, antennaMessages, userlistMessages) ==
  /\ state[h] = "on"
  /\ toAntenna' = [toAntenna EXCEPT ![h] = @ \o antennaMessages]
  /\ toUserlist' = [toUserlist EXCEPT ![h] = @ \o userlistMessages]
  /\ UNCHANGED <<state, socket, antennaNick, idle, userList, currentNick>>
  /\ UNCHANGED <<firstTime, lost, history>>

\* /channel, /leave and a line of text go to the antenna first.
UseChannel(h, kind, c) ==
  /\ channelOps[h] < MaxChannelOps[Cardinality(Clients)]
  /\ channelOps' = [channelOps EXCEPT ![h] = @ + 1]
  /\ UserActs(h, <<OnChannel(kind, c)>>, << >>)
  /\ UNCHANGED nickOps

\* /nick
ChangeNick(h, n) ==
  /\ nickOps[h] < MaxNickOps[Cardinality(Clients)]
  /\ nickOps' = [nickOps EXCEPT ![h] = @ + 1]
  /\ UserActs(h, << >>, <<About("nick", NoChannel, n)>>)
  /\ UNCHANGED channelOps

\* The core sends shutdown to every plugin.
Quit(h) ==
  /\ h \in Quitters
  /\ UserActs(h, <<OnChannel("shutdown", NoChannel)>>,
                 <<OnChannel("shutdown", NoChannel)>>)
  /\ \A i \in 1..Len(toAntenna[h]) : toAntenna[h][i].kind # "shutdown"
  /\ UNCHANGED <<channelOps, nickOps>>

-------------------------------------------------------------------------------
(* The antenna *)

\* One datagram to the group; loopback delivers it to the sender as well.
Multicast(h, d) ==
  /\ \E receivers \in SUBSET On :
       /\ lost' = lost + Cardinality(On \ receivers)
       /\ lost' <= MaxLost[Cardinality(Clients)]
       /\ socket' = [k \in Hosts |->
                    IF k \in receivers THEN Append(socket[k], d) ELSE socket[k]]
  /\ idle' = [idle EXCEPT ![h] = 0]

\* The antenna takes the first message and multicasts a datagram.
Send(h, d) ==
  /\ toAntenna' = [toAntenna EXCEPT ![h] = Tail(@)]
  /\ Multicast(h, d)
  /\ UNCHANGED <<currentNick, firstTime, channelOps, nickOps>>

SendNext(h, kind) ==
  /\ state[h] = "on"
  /\ toAntenna[h] # << >>
  /\ Head(toAntenna[h]).kind = kind

SendJoin(h) ==
  /\ SendNext(h, "set_channel")
  /\ LET m == Head(toAntenna[h])
     IN  /\ Send(h, About("join", m.channel, antennaNick[h]))
         /\ toUserlist' = [toUserlist EXCEPT ![h] = Append(@, m)]
  /\ UNCHANGED <<state, userList, antennaNick, unheard, clash>>

SendLeft(h) ==
  /\ SendNext(h, "leave_channel")
  /\ LET m == Head(toAntenna[h])
     IN  /\ Send(h, About("left", m.channel, antennaNick[h]))
         /\ toUserlist' = [toUserlist EXCEPT ![h] = Append(@, m)]
  /\ UNCHANGED <<state, userList, antennaNick, unheard, clash>>

\* Mutant: the datagram is sent, the antenna keeps its nick.
SendNickOnly(h) ==
  /\ SendNext(h, "changed_nick")
  /\ LET n == Head(toAntenna[h]).nick
     IN  Send(h, About("nick_change", antennaNick[h], n))
  /\ UNCHANGED <<state, toUserlist, userList, antennaNick, history>>

\* Mutant: the field for the channel is taken for the new nick.
SendNickOfChannel(h) ==
  /\ SendNext(h, "changed_nick")
  /\ LET m == Head(toAntenna[h])
     IN  /\ Send(h, About("nick_change", antennaNick[h], m.nick))
         /\ antennaNick' = [antennaNick EXCEPT ![h] = m.channel]
  /\ UNCHANGED <<state, toUserlist, userList, history>>

\* Old and new nick travel in the fields for channel and nick.
SendNick(h) ==
  /\ SendNext(h, "changed_nick")
  /\ LET n == Head(toAntenna[h]).nick
     IN  /\ Send(h, About("nick_change", antennaNick[h], n))
         /\ antennaNick' = [antennaNick EXCEPT ![h] = n]
         /\ clash' = (clash \/ \E k \in On \ {h} : antennaNick[k] = n)
  /\ UNCHANGED <<state, toUserlist, userList, unheard>>

\* here, who is here and edict
SendPlain(h) ==
  /\ \E kind \in {"here", "who_is_here", "edict"} : SendNext(h, kind)
  /\ LET m == Head(toAntenna[h])
     IN  Send(h, About(m.kind, m.channel, antennaNick[h]))
  /\ UNCHANGED <<state, toUserlist, userList, antennaNick, history>>

\* The antenna says goodbye and closes its socket; the userlist and what is
\* in its map and its pipe go with the program.
SendGoodbye(h) ==
  /\ SendNext(h, "shutdown")
  /\ \E receivers \in SUBSET On :
       /\ lost' = lost + Cardinality((On \ {h}) \ receivers)
       /\ lost' <= MaxLost[Cardinality(Clients)]
       /\ LET d == About("left", NoChannel, antennaNick[h])
          IN  socket' = [k \in Hosts |->
                           IF k = h THEN << >>
                           ELSE IF k \in receivers THEN Append(socket[k], d)
                           ELSE socket[k]]
  /\ state' = [state EXCEPT ![h] = "left"]
  /\ toAntenna' = [toAntenna EXCEPT ![h] = << >>]
  /\ toUserlist' = [toUserlist EXCEPT ![h] = << >>]
  /\ userList' = [userList EXCEPT ![h] = [n \in Nicks |-> Unknown]]
  /\ unheard' = [unheard EXCEPT ![h] = [n \in Nicks |-> Old]]
  /\ idle' = [idle EXCEPT ![h] = 0]
  /\ UNCHANGED <<antennaNick, currentNick, firstTime, channelOps, nickOps, clash>>

\* The sign of life is due, after KeepAlive seconds of silence.
SendAuto(h) ==
  /\ state[h] = "on"
  /\ idle[h] > KeepAlive
  /\ Multicast(h, About("auto", NoChannel, antennaNick[h]))
  /\ UNCHANGED <<state, toAntenna, toUserlist, antennaNick, userList>>
  /\ UNCHANGED <<currentNick, firstTime, channelOps, nickOps, history>>

\* received and received_status messages for the userlist
Receive(h) ==
  /\ state[h] = "on"
  /\ socket[h] # << >>
  /\ socket' = [socket EXCEPT ![h] = Tail(@)]
  /\ toUserlist' = [toUserlist EXCEPT ![h] = Append(@, Head(socket[h]))]
  /\ UNCHANGED <<state, toAntenna, antennaNick, idle, userList, currentNick>>
  /\ UNCHANGED <<firstTime, channelOps, nickOps, lost, history>>

-------------------------------------------------------------------------------
(* The userlist *)

\* It returns at the shutdown message.
UserlistRuns(h) ==
  /\ state[h] = "on"
  /\ toUserlist[h] # << >> => Head(toUserlist[h]).kind # "shutdown"

HandleNext(h) ==
  /\ UserlistRuns(h)
  /\ toUserlist[h] # << >>
  /\ toUserlist' = [toUserlist EXCEPT ![h] = Tail(@)]
  /\ UNCHANGED <<state, socket, antennaNick, idle, channelOps, nickOps, lost>>
  /\ UNCHANGED <<clash>>

Post(h, messages) == toAntenna' = [toAntenna EXCEPT ![h] = @ \o messages]

\* Mutant: lastseen is set when the entry is made and not again.
SeenOnce(e) == [known |-> TRUE, channels |-> e.channels,
                age |-> IF e.known THEN e.age ELSE 0]

Seen(e) == [known |-> TRUE, channels |-> e.channels, age |-> 0]

\* The map after a message about m.nick; currentNick is me.
Updated(list, me, m) ==
  LET seen == [list EXCEPT ![m.nick] = Seen(@)]
      In == [seen EXCEPT ![m.nick].channels = @ \cup {m.channel}]
  IN  CASE m.kind \in {"edict", "join", "here"} -> In
        [] m.kind = "auto" -> seen
        [] m.kind = "left" ->
             IF m.channel = NoChannel
             THEN [list EXCEPT ![m.nick] = Unknown]
             ELSE [seen EXCEPT ![m.nick].channels = @ \ {m.channel}]
        [] m.kind = "who_is_here" ->
             IF m.channel \in seen[me].channels
             THEN In
             ELSE [seen EXCEPT ![me] = Entry(@)]
        [] m.kind = "nick_change" ->
             [seen EXCEPT ![m.channel] = Unknown,
                          ![m.nick] = Entry(seen[m.channel])]

\* updateSenderStatus: only who_is_here is answered.
UpdateSenderStatus(h) ==
  /\ HandleNext(h)
  /\ LET m == Head(toUserlist[h])
     IN  /\ m.kind \in Datagrams
         /\ userList' = [userList EXCEPT ![h] = Updated(@, currentNick[h], m)]
         /\ unheard' = [unheard EXCEPT ![h][m.nick] = 0]
         /\ Post(h, IF /\ m.kind = "who_is_here"
                       /\ m.channel \in userList'[h][currentNick[h]].channels
                    THEN <<OnChannel("here", m.channel)>> ELSE << >>)
  /\ UNCHANGED <<currentNick, firstTime>>

\* A nick message of the user.  The first one joins the default channel.
SetNick(h) ==
  /\ HandleNext(h)
  /\ LET m == Head(toUserlist[h])
         taken == userList[h][m.nick].known /\ m.nick # DefaultNick
     IN  /\ m.kind = "nick"
         /\ currentNick' = IF taken THEN currentNick
                           ELSE [currentNick EXCEPT ![h] = m.nick]
         /\ Post(h, (IF firstTime[h]
                     THEN <<OnChannel("set_channel", DefaultChannel)>>
                     ELSE << >>)
                    \o (IF taken THEN << >>
                        ELSE <<About("changed_nick", NoChannel, m.nick)>>))
  /\ firstTime' = [firstTime EXCEPT ![h] = FALSE]
  /\ UNCHANGED <<userList, unheard>>

\* Who is not in the channel yet asks who is there (askForUsers repeats the
\* question five times; once counts for all).
HandleSetChannel(h) ==
  /\ HandleNext(h)
  /\ LET m == Head(toUserlist[h])
         me == currentNick[h]
     IN  /\ m.kind = "set_channel"
         /\ userList' = [userList EXCEPT ![h][me] = Entry(@)]
         /\ Post(h, IF m.channel \in userList[h][me].channels THEN << >>
                    ELSE <<OnChannel("who_is_here", m.channel)>>)
  /\ UNCHANGED <<currentNick, firstTime, unheard>>

\* The channel is forgotten for everybody.
HandleLeaveChannel(h) ==
  /\ HandleNext(h)
  /\ LET m == Head(toUserlist[h])
     IN  /\ m.kind = "leave_channel"
         /\ userList' = [userList EXCEPT ![h] = [n \in Nicks |->
                           [userList[h][n] EXCEPT !.channels = @ \ {m.channel}]]]
  /\ UNCHANGED <<toAntenna, currentNick, firstTime, unheard>>

\* Mutant: nicks that are still in a channel are kept.
ExpireIdlers(h) ==
  /\ UserlistRuns(h)
  /\ userList' = [userList EXCEPT ![h] = [n \in Nicks |->
                    IF @[n].age > Expiry /\ @[n].channels = {}
                    THEN Unknown ELSE @[n]]]
  /\ UNCHANGED <<state, pipes, antennaNick, idle, currentNick, firstTime>>
  /\ UNCHANGED <<channelOps, nickOps, lost, history>>

\* userlist_timer; its ten seconds are not counted, it may come at any time.
Expire(h) ==
  /\ UserlistRuns(h)
  /\ userList' = [userList EXCEPT ![h] = [n \in Nicks |->
                    IF @[n].age > Expiry THEN Unknown ELSE @[n]]]
  /\ UNCHANGED <<state, pipes, antennaNick, idle, currentNick, firstTime>>
  /\ UNCHANGED <<channelOps, nickOps, lost, history>>

-------------------------------------------------------------------------------
(* Time *)

Later(age, limit) == IF age < limit THEN age + 1 ELSE age

\* A second passes.  Handling and delivery take less than that.
Tick ==
  /\ Quiet
  /\ idle' = [h \in Hosts |-> IF h \in On THEN Later(idle[h], Idle) ELSE idle[h]]
  /\ userList' = [h \in Hosts |-> [n \in Nicks |->
                    [userList[h][n] EXCEPT !.age = Later(@, Old)]]]
  /\ unheard' = [h \in Hosts |-> [n \in Nicks |-> Later(unheard[h][n], Old)]]
  /\ UNCHANGED <<state, pipes, antennaNick, currentNick, firstTime>>
  /\ UNCHANGED <<channelOps, nickOps, lost, clash>>

AntennaStep(h) ==
  \/ SendJoin(h) \/ SendLeft(h) \/ SendNick(h) \/ SendPlain(h)
  \/ SendGoodbye(h) \/ SendAuto(h) \/ Receive(h)

UserlistStep(h) ==
  \/ UpdateSenderStatus(h) \/ SetNick(h)
  \/ HandleSetChannel(h) \/ HandleLeaveChannel(h)

UserStep(h) ==
  \/ Start(h)
  \/ \E c \in Channels, kind \in {"set_channel", "leave_channel", "edict"} :
       UseChannel(h, kind, c)
  \/ \E n \in Nicks : ChangeNick(h, n)
  \/ Quit(h)

Next ==
  \/ Tick
  \/ \E h \in Hosts : AntennaStep(h) \/ UserlistStep(h) \/ Expire(h) \/ UserStep(h)

Spec == Init /\ [][Next]_vars

\* Clients and time go on; the users need not do anything.
FairSpec ==
  /\ Spec
  /\ WF_vars(Tick)
  /\ \A h \in Hosts :
       WF_vars(AntennaStep(h)) /\ WF_vars(UserlistStep(h)) /\ WF_vars(Expire(h))

-------------------------------------------------------------------------------
\* The user has typed nothing: what there is, his client has said by itself.
Silent(h) == channelOps[h] = 0 /\ nickOps[h] = 0

(* Whoever is online and says nothing is in the list of everybody else, as *)
(* soon as nothing is under way and for as long as he is idle, whatever    *)
(* the others do: newcomers ask for him, and the sign of life comes before *)
(* the list forgets.  (For clients that did not share a nick while they    *)
(* started, and a network that loses nothing.)                             *)
OnlineIsListed ==
  Quiet /\ ~clash /\ lost = 0 =>
    \A h, k \in On :
      ~firstTime[h] /\ Silent(h) => userList[k][antennaNick[h]].known

(* Whoever has gone is forgotten in the end, also when his goodbye is lost *)
(* or he had none: no list keeps the nick unless somebody uses it.         *)
DepartedIsForgotten ==
  \A h \in Quitters : \A k \in Hosts \ {h} :
    state[h] = "left" /\ state[k] = "on" ~>
      [](\/ state[k] # "on"
         \/ ~userList[k][antennaNick[h]].known
         \/ \E j \in On : antennaNick[h] \in {antennaNick[j], currentNick[j]})

Changes(m) == m.kind = "changed_nick"

\* What the antenna says, or will when the last change in its queue is done.
Agrees(queue, said, accepted) ==
  \/ /\ \A i \in 1..Len(queue) : ~Changes(queue[i])
     /\ said = accepted
  \/ \E i \in 1..Len(queue) :
       /\ Changes(queue[i]) /\ queue[i].nick = accepted
       /\ \A j \in 1..Len(queue) : Changes(queue[j]) => j <= i

(* The antenna speaks under the nick the userlist has accepted: they agree *)
(* when every changed_nick on the way has arrived.                         *)
AntennaFollowsUserlist ==
  \A h \in On : Agrees(toAntenna[h], antennaNick[h], currentNick[h])

(* "Remove all nicks that haven't been seen in 2 minutes" (userlist.cpp):  *)
(* a nick that is removed by the timer has not been heard from for longer. *)
ExpiredWereUnseen ==
  [][\A h \in Hosts, n \in Nicks :
       Expire(h) /\ userList[h][n].known /\ ~userList'[h][n].known
         => unheard[h][n] > Expiry]_vars

===============================================================================
