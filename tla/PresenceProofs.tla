----------------------------- MODULE PresenceProofs -----------------------------
(***************************************************************************)
(* Theorems about the presence protocol, for any number of hosts, nicks    *)
(* and channels, any delays, losses and limits.                            *)
(***************************************************************************)
EXTENDS Presence, FiniteSetTheorems, SequenceTheorems, TLAPS

-------------------------------------------------------------------------------
(* The messages that are built have their types, and those that are read   *)
(* have the channel that goes with their kind.                             *)
LEMMA AboutType ==
  ASSUME NEW n \in Nicks
  PROVE  /\ \A c \in Channels,
               k \in {"edict", "join", "left", "here", "who_is_here",
                      "set_channel", "leave_channel"} : About(k, c, n) \in Message
         /\ \A k \in {"left", "auto", "nick", "changed_nick", "shutdown"} :
              About(k, NoChannel, n) \in Message
         /\ \A old \in Nicks : About("nick_change", old, n) \in Message
BY DEF About, Message, Of

LEMMA OnChannelType ==
  /\ \A c \in Channels,
       k \in {"edict", "join", "left", "here", "who_is_here", "set_channel",
              "leave_channel"} : OnChannel(k, c) \in Message
  /\ OnChannel("shutdown", NoChannel) \in Message
BY AboutType, PresenceAssumption DEF OnChannel

LEMMA MessageFields ==
  ASSUME NEW m \in Message
  PROVE  /\ m.nick \in Nicks
         /\ m.kind \in {"edict", "join", "here", "who_is_here", "set_channel",
                        "leave_channel"} => m.channel \in Channels
         /\ m.kind = "left" => m.channel \in Channels \cup {NoChannel}
         /\ m.kind = "nick_change" => m.channel \in Nicks
BY DEF Message, Of

(* What a host puts into a pipe of its own, or takes off it.               *)
LEMMA PipeTypes ==
  ASSUME NEW p \in Pipes, NEW h \in Hosts
  PROVE  /\ \A m \in Message : [p EXCEPT ![h] = Append(@, m)] \in Pipes
         /\ \A q \in Seq(Message) : [p EXCEPT ![h] = @ \o q] \in Pipes
         /\ \A q \in Seq(Message) : [p EXCEPT ![h] = q] \in Pipes
         /\ p[h] # << >> =>
              Head(p[h]) \in Message /\ [p EXCEPT ![h] = Tail(@)] \in Pipes
<1>1. p[h] \in Seq(Message) /\ p \in [Hosts -> Seq(Message)]
  BY DEF Pipes
<1>2. ASSUME NEW m \in Message
      PROVE  [p EXCEPT ![h] = Append(@, m)] \in [Hosts -> Seq(Message)]
  <2>1. Append(p[h], m) \in Seq(Message)
    BY <1>1
  <2> QED
    BY <1>1, <2>1
<1>3. ASSUME NEW q \in Seq(Message)
      PROVE  /\ [p EXCEPT ![h] = @ \o q] \in [Hosts -> Seq(Message)]
             /\ [p EXCEPT ![h] = q] \in [Hosts -> Seq(Message)]
  <2>1. p[h] \o q \in Seq(Message)
    BY <1>1
  <2> QED
    BY <1>1, <2>1
<1>4. ASSUME p[h] # << >>
      PROVE  /\ Head(p[h]) \in Message
             /\ [p EXCEPT ![h] = Tail(@)] \in [Hosts -> Seq(Message)]
  <2>1. Head(p[h]) \in Message /\ Tail(p[h]) \in Seq(Message)
    BY <1>1, <1>4
  <2> QED
    BY <1>1, <2>1
<1> QED
  BY <1>2, <1>3, <1>4 DEF Pipes

(* What a datagram does to the sockets, and to the count of those lost.    *)
LEMMA MulticastType ==
  ASSUME TypeOK, NEW h \in Hosts, NEW d \in Message, Multicast(h, d)
  PROVE  socket' \in Pipes /\ lost' \in Nat /\ idle' \in [Hosts -> 0..Idle]
<1>1. PICK receivers \in SUBSET On :
        /\ lost' = lost + Cardinality(On \ receivers)
        /\ lost' <= MaxLost[Cardinality(Clients)]
        /\ socket' = [k \in Hosts |->
                        IF k \in receivers THEN Append(socket[k], d) ELSE socket[k]]
  BY DEF Multicast
<1>2. IsFiniteSet(On \ receivers)
  BY PresenceAssumption, FS_Subset DEF On
<1>3. Cardinality(On \ receivers) \in Nat
  BY <1>2, FS_CardinalityType
<1>4. lost' \in Nat
  BY <1>1, <1>3, PresenceAssumption DEF TypeOK
<1>5. ASSUME NEW k \in Hosts
      PROVE  socket[k] \in Seq(Message) /\ Append(socket[k], d) \in Seq(Message)
  BY DEF TypeOK, Pipes
<1>6. socket' \in Pipes
  BY <1>1, <1>5 DEF Pipes
<1>7. 0 \in 0..Idle
  BY PresenceAssumption DEF Idle
<1>8. idle' \in [Hosts -> 0..Idle]
  BY <1>7 DEF Multicast, TypeOK
<1> QED
  BY <1>4, <1>6, <1>8

(* The entries of the map.                                                 *)
LEMMA StatusTypes ==
  /\ Unknown \in Status
  /\ \A e \in Status :
       /\ Entry(e) \in Status /\ Seen(e) \in Status
       /\ \A c \in Channels :
            [Seen(e) EXCEPT !.channels = @ \cup {c}] \in Status
       /\ \A c : [Seen(e) EXCEPT !.channels = @ \ {c}] \in Status
       /\ \A c : [e EXCEPT !.channels = @ \ {c}] \in Status
       /\ e.age \in 0..Old
       /\ \A a \in 0..Old : [e EXCEPT !.age = a] \in Status
<1>1. 0 \in 0..Old /\ Old \in 0..Old
  BY PresenceAssumption DEF Old
<1> QED
  BY <1>1 DEF Status, Unknown, Entry, Seen

LEMMA ListUpdate ==
  ASSUME NEW list \in [Nicks -> Status], NEW n \in Nicks, NEW e \in Status
  PROVE  [list EXCEPT ![n] = e] \in [Nicks -> Status]
OBVIOUS

LEMMA UpdatedType ==
  ASSUME NEW list \in [Nicks -> Status], NEW me \in Nicks,
         NEW m \in Message, m.kind \in Datagrams
  PROVE  Updated(list, me, m) \in [Nicks -> Status]
<1> DEFINE seen == [list EXCEPT ![m.nick] = Seen(@)]
           In == [seen EXCEPT ![m.nick].channels = @ \cup {m.channel}]
<1>1. m.nick \in Nicks /\ list[m.nick] \in Status
  BY MessageFields
<1>2. seen \in [Nicks -> Status] /\ seen[m.nick] = Seen(list[m.nick])
  BY <1>1, StatusTypes
<1>3. ASSUME m.channel \in Channels PROVE In \in [Nicks -> Status]
  <2>1. [seen[m.nick] EXCEPT !.channels = @ \cup {m.channel}] \in Status
    BY <1>1, <1>2, <1>3, StatusTypes
  <2>2. In = [seen EXCEPT ![m.nick] =
                [seen[m.nick] EXCEPT !.channels = @ \cup {m.channel}]]
    OBVIOUS
  <2> HIDE DEF seen
  <2> QED
    BY <1>1, <1>2, <2>1, <2>2, ListUpdate
<1>4. [seen EXCEPT ![m.nick].channels = @ \ {m.channel}] \in [Nicks -> Status]
  <2>1. [seen[m.nick] EXCEPT !.channels = @ \ {m.channel}] \in Status
    BY <1>1, <1>2, StatusTypes
  <2>2. [seen EXCEPT ![m.nick].channels = @ \ {m.channel}]
          = [seen EXCEPT ![m.nick] =
               [seen[m.nick] EXCEPT !.channels = @ \ {m.channel}]]
    OBVIOUS
  <2> HIDE DEF seen
  <2> QED
    BY <1>1, <1>2, <2>1, <2>2, ListUpdate
<1>5. [list EXCEPT ![m.nick] = Unknown] \in [Nicks -> Status]
  BY <1>1, StatusTypes
<1>6. [seen EXCEPT ![me] = Entry(@)] \in [Nicks -> Status]
  <2> HIDE DEF seen
  <2> QED
    BY <1>2, StatusTypes
<1>7. ASSUME m.channel \in Nicks
      PROVE  [seen EXCEPT ![m.channel] = Unknown, ![m.nick] = Entry(seen[m.channel])]
               \in [Nicks -> Status]
  <2> HIDE DEF seen
  <2> QED
    BY <1>1, <1>2, <1>7, StatusTypes
<1>8. CASE m.kind \in {"edict", "join", "here"}
  BY <1>3, <1>8, MessageFields DEF Updated
<1>9. CASE m.kind = "auto"
  BY <1>2, <1>9 DEF Updated
<1>10. CASE m.kind = "left"
  BY <1>4, <1>5, <1>10 DEF Updated
<1>11. CASE m.kind = "who_is_here"
  BY <1>3, <1>6, <1>11, MessageFields DEF Updated
<1>12. CASE m.kind = "nick_change"
  BY <1>7, <1>12, MessageFields DEF Updated
<1> QED
  BY <1>8, <1>9, <1>10, <1>11, <1>12 DEF Datagrams

-------------------------------------------------------------------------------
(* The steps of the users, the antennas and the userlists keep the types.  *)
LEMMA UserTypes ==
  ASSUME TypeOK, NEW h \in Hosts, UserStep(h)
  PROVE  TypeOK'
<1> USE DEF TypeOK, history
<1>1. CASE Start(h)
  <2>1. <<OnChannel("who_is_here", DefaultChannel)>> \in Seq(Message)
    BY OnChannelType, PresenceAssumption
  <2>2. <<About("nick", NoChannel, Preferred[h])>> \in Seq(Message)
    BY AboutType, PresenceAssumption
  <2>3. toAntenna' \in Pipes
    BY <1>1, <2>1, PipeTypes DEF Start
  <2>4. toUserlist' \in Pipes
    BY <1>1, <2>2, PipeTypes DEF Start
  <2>5. clash' \in BOOLEAN
    BY <1>1 DEF Start
  <2>6. state' \in [Hosts -> {"absent", "off", "on", "left"}]
    BY <1>1 DEF Start
  <2> QED
    BY <1>1, <2>3, <2>4, <2>5, <2>6 DEF Start
<1>2. ASSUME NEW c \in Channels, NEW kind \in {"set_channel", "leave_channel", "edict"},
             UseChannel(h, kind, c)
      PROVE  TypeOK'
  <2>1. <<OnChannel(kind, c)>> \in Seq(Message) /\ << >> \in Seq(Message)
    BY OnChannelType
  <2>2. toAntenna' \in Pipes /\ toUserlist' \in Pipes
    BY <1>2, <2>1, PipeTypes DEF UseChannel, UserActs
  <2>3. channelOps' \in [Hosts -> Nat]
    BY <1>2, PresenceAssumption DEF UseChannel
  <2> QED
    BY <1>2, <2>2, <2>3 DEF UseChannel, UserActs
<1>3. ASSUME NEW n \in Nicks, ChangeNick(h, n)
      PROVE  TypeOK'
  <2>1. <<About("nick", NoChannel, n)>> \in Seq(Message) /\ << >> \in Seq(Message)
    BY AboutType
  <2>2. toAntenna' \in Pipes /\ toUserlist' \in Pipes
    BY <1>3, <2>1, PipeTypes DEF ChangeNick, UserActs
  <2>3. nickOps' \in [Hosts -> Nat]
    BY <1>3, PresenceAssumption DEF ChangeNick
  <2> QED
    BY <1>3, <2>2, <2>3 DEF ChangeNick, UserActs
<1>4. CASE Quit(h)
  <2>1. <<OnChannel("shutdown", NoChannel)>> \in Seq(Message)
    BY OnChannelType
  <2>2. toAntenna' \in Pipes /\ toUserlist' \in Pipes
    BY <1>4, <2>1, PipeTypes DEF Quit, UserActs
  <2> QED
    BY <1>4, <2>2 DEF Quit, UserActs
<1> QED
  BY <1>1, <1>2, <1>3, <1>4 DEF UserStep

LEMMA SendType ==
  ASSUME TypeOK, NEW h \in Hosts, NEW d \in Message,
         toAntenna[h] # << >>, Send(h, d)
  PROVE  /\ socket' \in Pipes /\ lost' \in Nat
         /\ idle' \in [Hosts -> 0..Idle]
         /\ toAntenna' \in Pipes
         /\ UNCHANGED <<currentNick, firstTime, channelOps, nickOps>>
<1>1. toAntenna' \in Pipes
  BY PipeTypes DEF Send, TypeOK
<1> QED
  BY <1>1, MulticastType DEF Send

LEMMA SendNextType ==
  ASSUME TypeOK, NEW h \in Hosts, NEW kind, SendNext(h, kind)
  PROVE  /\ toAntenna[h] # << >>
         /\ Head(toAntenna[h]) \in Message
         /\ Head(toAntenna[h]).kind = kind
         /\ antennaNick[h] \in Nicks
BY PipeTypes DEF SendNext, TypeOK

LEMMA AntennaTypes ==
  ASSUME TypeOK, NEW h \in Hosts, AntennaStep(h)
  PROVE  TypeOK'
<1> USE DEF TypeOK
<1>1. ASSUME SendJoin(h) \/ SendLeft(h) PROVE TypeOK'
  <2> DEFINE m == Head(toAntenna[h])
  <2>1. PICK k \in {"join", "left"} :
          /\ toAntenna[h] # << >> /\ m \in Message
          /\ m.kind \in {"set_channel", "leave_channel"}
          /\ Send(h, About(k, m.channel, antennaNick[h]))
          /\ toUserlist' = [toUserlist EXCEPT ![h] = Append(@, m)]
          /\ UNCHANGED <<state, userList, antennaNick, unheard, clash>>
    BY <1>1, SendNextType DEF SendJoin, SendLeft
  <2>2. About(k, m.channel, antennaNick[h]) \in Message
    BY <2>1, MessageFields, AboutType
  <2>3. toUserlist' \in Pipes
    BY <2>1, PipeTypes
  <2> QED
    BY <2>1, <2>2, <2>3, SendType
<1>2. CASE SendNick(h)
  <2> DEFINE n == Head(toAntenna[h]).nick
  <2>1. toAntenna[h] # << >> /\ n \in Nicks
    BY <1>2, SendNextType, MessageFields DEF SendNick
  <2>2. About("nick_change", antennaNick[h], n) \in Message
    BY <2>1, AboutType
  <2>3. antennaNick' \in [Hosts -> Nicks]
    BY <1>2, <2>1 DEF SendNick
  <2>4. clash' \in BOOLEAN
    BY <1>2 DEF SendNick
  <2> QED
    BY <1>2, <2>1, <2>2, <2>3, <2>4, SendType DEF SendNick
<1>3. CASE SendPlain(h)
  <2> DEFINE m == Head(toAntenna[h])
  <2>1. /\ toAntenna[h] # << >> /\ m \in Message
        /\ m.kind \in {"here", "who_is_here", "edict"}
    BY <1>3, SendNextType DEF SendPlain
  <2>2. About(m.kind, m.channel, antennaNick[h]) \in Message
    BY <2>1, MessageFields, AboutType
  <2> QED
    BY <1>3, <2>1, <2>2, SendType DEF SendPlain, history
<1>4. CASE SendGoodbye(h)
  <2> DEFINE d == About("left", NoChannel, antennaNick[h])
  <2>1. PICK receivers \in SUBSET On :
          /\ lost' = lost + Cardinality((On \ {h}) \ receivers)
          /\ lost' <= MaxLost[Cardinality(Clients)]
          /\ socket' = [k \in Hosts |->
                           IF k = h THEN << >>
                           ELSE IF k \in receivers THEN Append(socket[k], d)
                           ELSE socket[k]]
    BY <1>4 DEF SendGoodbye
  <2>2. IsFiniteSet((On \ {h}) \ receivers)
    BY PresenceAssumption, FS_Subset DEF On
  <2>3. lost' \in Nat
    BY <2>1, <2>2, FS_CardinalityType, PresenceAssumption
  <2>4. d \in Message
    BY AboutType
  <2>5. ASSUME NEW k \in Hosts
        PROVE  /\ socket[k] \in Seq(Message) /\ Append(socket[k], d) \in Seq(Message)
               /\ << >> \in Seq(Message)
    BY <2>4 DEF Pipes
  <2>6. socket' \in Pipes
    BY <2>1, <2>5 DEF Pipes
  <2>7. << >> \in Seq(Message)
    OBVIOUS
  <2>8. toAntenna' \in Pipes /\ toUserlist' \in Pipes
    BY <1>4, <2>7, PipeTypes DEF SendGoodbye
  <2>9. userList' \in [Hosts -> [Nicks -> Status]]
    BY <1>4, StatusTypes DEF SendGoodbye
  <2>10. unheard' \in [Hosts -> [Nicks -> 0..Old]]
    BY <1>4, PresenceAssumption DEF SendGoodbye, Old
  <2>11. idle' \in [Hosts -> 0..Idle]
    BY <1>4, PresenceAssumption DEF SendGoodbye, Idle
  <2>12. state' \in [Hosts -> {"absent", "off", "on", "left"}]
    BY <1>4 DEF SendGoodbye
  <2> QED
    BY <1>4, <2>3, <2>6, <2>8, <2>9, <2>10, <2>11, <2>12 DEF SendGoodbye
<1>5. CASE SendAuto(h)
  <2>1. About("auto", NoChannel, antennaNick[h]) \in Message
    BY AboutType
  <2> QED
    BY <1>5, <2>1, MulticastType DEF SendAuto, history
<1>6. CASE Receive(h)
  <2>1. Head(socket[h]) \in Message /\ socket' \in Pipes
    BY <1>6, PipeTypes DEF Receive
  <2>2. toUserlist' \in Pipes
    BY <1>6, <2>1, PipeTypes DEF Receive
  <2> QED
    BY <1>6, <2>1, <2>2 DEF Receive, history
<1> QED
  BY <1>1, <1>2, <1>3, <1>4, <1>5, <1>6 DEF AntennaStep

LEMMA HandleNextType ==
  ASSUME TypeOK, NEW h \in Hosts, HandleNext(h)
  PROVE  Head(toUserlist[h]) \in Message /\ toUserlist' \in Pipes
BY PipeTypes DEF HandleNext, TypeOK

LEMMA PostType ==
  ASSUME TypeOK, NEW h \in Hosts, NEW q \in Seq(Message), Post(h, q)
  PROVE  toAntenna' \in Pipes
BY PipeTypes DEF Post, TypeOK

LEMMA UserlistTypes ==
  ASSUME TypeOK, NEW h \in Hosts, UserlistStep(h)
  PROVE  TypeOK'
<1> DEFINE m == Head(toUserlist[h])
           me == currentNick[h]
<1> USE DEF TypeOK
<1>0. HandleNext(h) => m \in Message /\ toUserlist' \in Pipes
  BY HandleNextType
<1>1. CASE UpdateSenderStatus(h)
  <2>1. m \in Message /\ m.kind \in Datagrams /\ m.nick \in Nicks
    BY <1>0, <1>1, MessageFields DEF UpdateSenderStatus
  <2>2. Updated(userList[h], me, m) \in [Nicks -> Status]
    BY <2>1, UpdatedType
  <2>3. userList' \in [Hosts -> [Nicks -> Status]]
    BY <1>1, <2>2 DEF UpdateSenderStatus
  <2>4. unheard' \in [Hosts -> [Nicks -> 0..Old]]
    <3>1. 0 \in 0..Old
      BY PresenceAssumption DEF Old
    <3> QED
      BY <1>1, <2>1, <3>1 DEF UpdateSenderStatus
  <2>5. toAntenna' \in Pipes
    <3>1. m.kind = "who_is_here" => <<OnChannel("here", m.channel)>> \in Seq(Message)
      BY <2>1, MessageFields, OnChannelType
    <3>2. << >> \in Seq(Message)
      OBVIOUS
    <3> QED
      BY <1>1, <3>1, <3>2, PostType DEF UpdateSenderStatus
  <2> QED
    BY <1>0, <1>1, <2>3, <2>4, <2>5 DEF UpdateSenderStatus, HandleNext
<1>2. CASE SetNick(h)
  <2> DEFINE taken == userList[h][m.nick].known /\ m.nick # DefaultNick
             join == IF firstTime[h]
                     THEN <<OnChannel("set_channel", DefaultChannel)>> ELSE << >>
             change == IF taken THEN << >>
                       ELSE <<About("changed_nick", NoChannel, m.nick)>>
  <2>1. m \in Message /\ m.nick \in Nicks
    BY <1>0, <1>2, MessageFields DEF SetNick
  <2>2. currentNick' \in [Hosts -> Nicks]
    BY <1>2, <2>1 DEF SetNick
  <2>3. OnChannel("set_channel", DefaultChannel) \in Message
    BY OnChannelType, PresenceAssumption
  <2>4. About("changed_nick", NoChannel, m.nick) \in Message
    BY <2>1, AboutType
  <2>5. join \in Seq(Message) /\ change \in Seq(Message)
    BY <2>3, <2>4
  <2>6. join \o change \in Seq(Message)
    BY <2>5
  <2>7. toAntenna' \in Pipes
    <3>1. Post(h, join \o change)
      BY <1>2 DEF SetNick
    <3> QED
      BY <2>6, <3>1, PostType
  <2>8. firstTime' \in [Hosts -> BOOLEAN]
    BY <1>2 DEF SetNick
  <2> QED
    BY <1>0, <1>2, <2>2, <2>7, <2>8 DEF SetNick, HandleNext
<1>3. CASE HandleSetChannel(h)
  <2>1. m \in Message /\ m.channel \in Channels
    BY <1>0, <1>3, MessageFields DEF HandleSetChannel
  <2>2. Entry(userList[h][me]) \in Status
    BY StatusTypes
  <2>3. userList' \in [Hosts -> [Nicks -> Status]]
    BY <1>3, <2>2 DEF HandleSetChannel
  <2>4. toAntenna' \in Pipes
    <3>1. <<OnChannel("who_is_here", m.channel)>> \in Seq(Message)
      BY <2>1, OnChannelType
    <3>2. << >> \in Seq(Message)
      OBVIOUS
    <3> QED
      BY <1>3, <3>1, <3>2, PostType DEF HandleSetChannel
  <2> QED
    BY <1>0, <1>3, <2>3, <2>4 DEF HandleSetChannel, HandleNext
<1>4. CASE HandleLeaveChannel(h)
  <2> DEFINE list == [n \in Nicks |->
                       [userList[h][n] EXCEPT !.channels = @ \ {m.channel}]]
  <2>1. ASSUME NEW n \in Nicks
        PROVE  [userList[h][n] EXCEPT !.channels = @ \ {m.channel}] \in Status
    <3>1. userList[h][n] \in Status
      OBVIOUS
    <3> QED
      BY <3>1, StatusTypes
  <2>2. userList' \in [Hosts -> [Nicks -> Status]]
    <3>1. userList' = [userList EXCEPT ![h] = list]
      BY <1>4 DEF HandleLeaveChannel
    <3>2. list \in [Nicks -> Status]
      BY <2>1
    <3> HIDE DEF list
    <3> QED
      BY <3>1, <3>2
  <2> QED
    BY <1>0, <1>4, <2>2 DEF HandleLeaveChannel, HandleNext
<1> QED
  BY <1>1, <1>2, <1>3, <1>4 DEF UserlistStep

(* The timer of the userlist, and the passing of time.                     *)
LEMMA TimeTypes ==
  ASSUME TypeOK, Tick \/ \E h \in Hosts : Expire(h)
  PROVE  TypeOK'
<1> USE DEF TypeOK, pipes, history
<1>1. ASSUME NEW h \in Hosts, Expire(h) PROVE TypeOK'
  <2>1. userList' \in [Hosts -> [Nicks -> Status]]
    BY <1>1, StatusTypes DEF Expire
  <2> QED
    BY <1>1, <2>1 DEF Expire
<1>2. CASE Tick
  <2>1. \A a \in 0..Old : Later(a, Old) \in 0..Old
    BY PresenceAssumption DEF Later, Old
  <2>2. \A a \in 0..Idle : Later(a, Idle) \in 0..Idle
    BY PresenceAssumption DEF Later, Idle
  <2>3. idle' \in [Hosts -> 0..Idle]
    BY <1>2, <2>2 DEF Tick
  <2>4. unheard' \in [Hosts -> [Nicks -> 0..Old]]
    BY <1>2, <2>1 DEF Tick
  <2>5. \A h \in Hosts, n \in Nicks :
          [userList[h][n] EXCEPT !.age = Later(@, Old)] \in Status
    <3> SUFFICES ASSUME NEW e \in Status
                 PROVE  [e EXCEPT !.age = Later(@, Old)] \in Status
      OBVIOUS
    <3> QED
      BY <2>1, StatusTypes
  <2>6. userList' \in [Hosts -> [Nicks -> Status]]
    BY <1>2, <2>5 DEF Tick
  <2> QED
    BY <1>2, <2>3, <2>4, <2>6 DEF Tick
<1> QED
  BY <1>1, <1>2

(* Every variable keeps its type: each message in a pipe or a socket has   *)
(* the channel, or the old nick, that its kind calls for, and the map of   *)
(* the userlist has an entry for every nick it is asked about.             *)
THEOREM TypeCorrect == Spec => []TypeOK
<1>1. Init => TypeOK
  <2> SUFFICES ASSUME Init PROVE TypeOK
    OBVIOUS
  <2>1. 0 \in 0..Idle /\ Old \in 0..Old
    BY PresenceAssumption DEF Idle, Old
  <2>2. toAntenna \in Pipes /\ toUserlist \in Pipes /\ socket \in Pipes
    BY DEF Init, Pipes
  <2>3. userList \in [Hosts -> [Nicks -> Status]]
    BY StatusTypes DEF Init
  <2>4. /\ antennaNick \in [Hosts -> Nicks] /\ currentNick \in [Hosts -> Nicks]
        /\ state \in [Hosts -> {"absent", "off", "on", "left"}]
        /\ firstTime \in [Hosts -> BOOLEAN] /\ clash \in BOOLEAN
    BY PresenceAssumption DEF Init
  <2>5. /\ idle \in [Hosts -> 0..Idle] /\ lost \in Nat
        /\ channelOps \in [Hosts -> Nat]
        /\ nickOps \in [Hosts -> Nat]
        /\ unheard \in [Hosts -> [Nicks -> 0..Old]]
    BY <2>1 DEF Init
  <2> QED
    BY <2>2, <2>3, <2>4, <2>5 DEF TypeOK
<1>2. TypeOK /\ [Next]_vars => TypeOK'
  <2> SUFFICES ASSUME TypeOK, [Next]_vars PROVE TypeOK'
    OBVIOUS
  <2>1. CASE Next
    BY <2>1, TimeTypes, AntennaTypes, UserlistTypes, UserTypes DEF Next
  <2>2. CASE UNCHANGED vars
    BY <2>2 DEF vars, pipes, history, TypeOK
  <2> QED
    BY <2>1, <2>2
<1> QED
  BY <1>1, <1>2, PTL DEF Spec

-------------------------------------------------------------------------------
(* What agrees with the queue of the antenna still does when something is  *)
(* put behind it or taken from its head.                                   *)
LEMMA AgreesBehind ==
  ASSUME NEW q \in Seq(Message), NEW r \in Seq(Message), NEW said, NEW accepted,
         Agrees(q, said, accepted), \A i \in 1..Len(r) : ~Changes(r[i])
  PROVE  Agrees(q \o r, said, accepted)
<1>1. /\ Len(q) \in Nat /\ Len(r) \in Nat /\ Len(q \o r) = Len(q) + Len(r)
      /\ \A i \in 1..Len(q) : (q \o r)[i] = q[i]
      /\ \A i \in 1..Len(q \o r) :
           i \notin 1..Len(q) => i - Len(q) \in 1..Len(r) /\ (q \o r)[i] = r[i - Len(q)]
  OBVIOUS
<1>2. \A i \in 1..Len(q \o r) :
        Changes((q \o r)[i]) => i \in 1..Len(q) /\ Changes(q[i])
  BY <1>1
<1>3. CASE \A i \in 1..Len(q) : ~Changes(q[i])
  BY <1>2, <1>3 DEF Agrees
<1>4. ASSUME NEW i \in 1..Len(q), Changes(q[i]), q[i].nick = accepted,
             \A j \in 1..Len(q) : Changes(q[j]) => j <= i
      PROVE  Agrees(q \o r, said, accepted)
  <2>1. i \in 1..Len(q \o r) /\ (q \o r)[i] = q[i]
    BY <1>1
  <2>2. \A j \in 1..Len(q \o r) : Changes((q \o r)[j]) => j <= i
    BY <1>2, <1>4
  <2> QED
    BY <1>4, <2>1, <2>2 DEF Agrees
<1> QED
  BY <1>3, <1>4 DEF Agrees

LEMMA AgreesNew ==
  ASSUME NEW q \in Seq(Message), NEW said, Len(q) >= 1, Changes(q[Len(q)])
  PROVE  Agrees(q, said, q[Len(q)].nick)
<1>1. Len(q) \in 1..Len(q) /\ \A j \in 1..Len(q) : j <= Len(q)
  OBVIOUS
<1> QED
  BY <1>1 DEF Agrees

LEMMA AgreesTail ==
  ASSUME NEW q \in Seq(Message), NEW said, NEW accepted, q # << >>,
         Agrees(q, said, accepted)
  PROVE  Agrees(Tail(q), IF Changes(Head(q)) THEN Head(q).nick ELSE said, accepted)
<1>1. /\ Len(q) \in Nat /\ Len(q) >= 1 /\ Len(Tail(q)) = Len(q) - 1 /\ Head(q) = q[1]
      /\ \A i \in 1..Len(Tail(q)) : i + 1 \in 1..Len(q) /\ Tail(q)[i] = q[i + 1]
  OBVIOUS
<1>2. CASE \A i \in 1..Len(q) : ~Changes(q[i])
  <2>1. said = accepted
    BY <1>2 DEF Agrees
  <2>2. ~Changes(Head(q)) /\ \A i \in 1..Len(Tail(q)) : ~Changes(Tail(q)[i])
    BY <1>1, <1>2
  <2> QED
    BY <2>1, <2>2 DEF Agrees
<1>3. ASSUME NEW i \in 1..Len(q), Changes(q[i]), q[i].nick = accepted,
             \A j \in 1..Len(q) : Changes(q[j]) => j <= i
      PROVE  Agrees(Tail(q), IF Changes(Head(q)) THEN Head(q).nick ELSE said, accepted)
  <2>1. CASE i = 1
    <3>1. \A j \in 1..Len(Tail(q)) : ~Changes(Tail(q)[j])
      BY <1>1, <1>3, <2>1
    <3> QED
      BY <1>1, <1>3, <2>1, <3>1 DEF Agrees
  <2>2. CASE i # 1
    <3>1. i - 1 \in 1..Len(Tail(q)) /\ Tail(q)[i - 1] = q[i]
      BY <1>1, <2>2
    <3>2. \A j \in 1..Len(Tail(q)) : Changes(Tail(q)[j]) => j <= i - 1
      BY <1>1, <1>3
    <3> QED
      BY <1>3, <3>1, <3>2 DEF Agrees
  <2> QED
    BY <2>1, <2>2
<1> QED
  BY <1>2, <1>3 DEF Agrees

LEMMA OneMessage ==
  ASSUME NEW m \in Message, ~Changes(m)
  PROVE  <<m>> \in Seq(Message) /\ \A i \in 1..Len(<<m>>) : ~Changes(<<m>>[i])
OBVIOUS

LEMMA LastMessage ==
  ASSUME NEW q \in Seq(Message), NEW j \in Seq(Message), NEW m \in Message
  PROVE  /\ q \o (j \o <<m>>) \in Seq(Message)
         /\ Len(q \o (j \o <<m>>)) >= 1
         /\ (q \o (j \o <<m>>))[Len(q \o (j \o <<m>>))] = m
<1> DEFINE jm == j \o <<m>>
<1>1. jm \in Seq(Message) /\ Len(jm) = Len(j) + 1 /\ Len(j) \in Nat /\ jm[Len(j) + 1] = m
  OBVIOUS
<1> HIDE DEF jm
<1>2. /\ q \o jm \in Seq(Message) /\ Len(q \o jm) = Len(q) + Len(jm) /\ Len(q) \in Nat
      /\ (q \o jm)[Len(q) + Len(jm)] = jm[Len(jm)]
  BY <1>1
<1> QED
  BY <1>1, <1>2 DEF jm

(* A client that has not started yet has the default nick in both places.  *)
SameNick(h) ==
  /\ state[h] = "off" => antennaNick[h] = currentNick[h]
  /\ state[h] = "on" => Agrees(toAntenna[h], antennaNick[h], currentNick[h])

NickInv == \A h \in Hosts : SameNick(h)

(* Whatever a host does, it does not touch these variables of another one. *)
LEMMA OthersKept ==
  ASSUME TypeOK, NickInv, NEW h \in Hosts, NEW k \in Hosts, k # h,
         state'[k] = state[k], toAntenna'[k] = toAntenna[k],
         antennaNick'[k] = antennaNick[k], currentNick'[k] = currentNick[k]
  PROVE  SameNick(k)'
BY DEF NickInv, SameNick

(* A step that puts messages about other things behind the queue.          *)
LEMMA QueueKept ==
  ASSUME TypeOK, NickInv, NEW h \in Hosts, NEW r \in Seq(Message),
         \A i \in 1..Len(r) : ~Changes(r[i]),
         toAntenna' = [toAntenna EXCEPT ![h] = @ \o r],
         UNCHANGED <<state, antennaNick, currentNick>>
  PROVE  NickInv'
<1>1. toAntenna[h] \in Seq(Message) /\ toAntenna'[h] = toAntenna[h] \o r
      /\ \A k \in Hosts \ {h} : toAntenna'[k] = toAntenna[k]
  BY DEF TypeOK, Pipes
<1>2. SameNick(h)'
  BY <1>1, AgreesBehind DEF NickInv, SameNick
<1>3. ASSUME NEW k \in Hosts, k # h PROVE SameNick(k)'
  BY <1>1, <1>3, OthersKept
<1> QED
  BY <1>2, <1>3 DEF NickInv

(* A step that sends the first message, which is not about the nick.       *)
LEMMA SendKept ==
  ASSUME TypeOK, NickInv, NEW h \in Hosts, toAntenna[h] # << >>,
         ~Changes(Head(toAntenna[h])),
         toAntenna' = [toAntenna EXCEPT ![h] = Tail(@)],
         UNCHANGED <<state, antennaNick, currentNick>>
  PROVE  NickInv'
<1>1. toAntenna[h] \in Seq(Message) /\ toAntenna'[h] = Tail(toAntenna[h])
      /\ \A k \in Hosts \ {h} : toAntenna'[k] = toAntenna[k]
  BY DEF TypeOK, Pipes
<1>2. SameNick(h)'
  BY <1>1, AgreesTail DEF NickInv, SameNick
<1>3. ASSUME NEW k \in Hosts, k # h PROVE SameNick(k)'
  BY <1>1, <1>3, OthersKept
<1> QED
  BY <1>2, <1>3 DEF NickInv

LEMMA UserKept ==
  ASSUME TypeOK, NickInv, NEW h \in Hosts, UserStep(h)
  PROVE  NickInv'
<1>1. CASE Start(h)
  <2> DEFINE q == <<OnChannel("who_is_here", DefaultChannel)>>
  <2>1. /\ toAntenna'[h] = q /\ state'[h] = "on" /\ state[h] = "off"
        /\ \A k \in Hosts \ {h} : toAntenna'[k] = toAntenna[k] /\ state'[k] = state[k]
        /\ UNCHANGED <<antennaNick, currentNick>>
    BY <1>1 DEF Start, TypeOK, Pipes
  <2>2. \A i \in 1..Len(q) : ~Changes(q[i])
    BY DEF OnChannel, About, Changes
  <2>3. SameNick(h)'
    <3>1. antennaNick'[h] = currentNick'[h]
      BY <2>1 DEF NickInv, SameNick
    <3> HIDE DEF q
    <3> QED
      BY <2>1, <2>2, <3>1 DEF SameNick, Agrees
  <2>4. ASSUME NEW k \in Hosts, k # h PROVE SameNick(k)'
    BY <2>1, <2>4, OthersKept
  <2> QED
    BY <2>3, <2>4 DEF NickInv
<1>2. ASSUME NEW c \in Channels, NEW kind \in {"set_channel", "leave_channel", "edict"},
             UseChannel(h, kind, c)
      PROVE  NickInv'
  <2> DEFINE r == <<OnChannel(kind, c)>>
  <2>1. r \in Seq(Message) /\ \A i \in 1..Len(r) : ~Changes(r[i])
    <3>1. OnChannel(kind, c) \in Message /\ ~Changes(OnChannel(kind, c))
      BY OnChannelType DEF OnChannel, About, Changes
    <3> QED
      BY <3>1, OneMessage
  <2>2. /\ toAntenna' = [toAntenna EXCEPT ![h] = @ \o r]
        /\ UNCHANGED <<state, antennaNick, currentNick>>
    BY <1>2 DEF UseChannel, UserActs
  <2> QED
    BY <2>1, <2>2, QueueKept
<1>3. ASSUME NEW n \in Nicks, ChangeNick(h, n)
      PROVE  NickInv'
  <2>1. << >> \in Seq(Message) /\ \A i \in 1..Len(<< >>) : ~Changes(<< >>[i])
    OBVIOUS
  <2>2. /\ toAntenna' = [toAntenna EXCEPT ![h] = @ \o << >>]
        /\ UNCHANGED <<state, antennaNick, currentNick>>
    BY <1>3 DEF ChangeNick, UserActs
  <2> QED
    BY <2>1, <2>2, QueueKept
<1>4. CASE Quit(h)
  <2> DEFINE r == <<OnChannel("shutdown", NoChannel)>>
  <2>1. r \in Seq(Message) /\ \A i \in 1..Len(r) : ~Changes(r[i])
    BY OnChannelType DEF OnChannel, About, Changes
  <2>2. /\ toAntenna' = [toAntenna EXCEPT ![h] = @ \o r]
        /\ UNCHANGED <<state, antennaNick, currentNick>>
    BY <1>4 DEF Quit, UserActs
  <2> QED
    BY <2>1, <2>2, QueueKept
<1> QED
  BY <1>1, <1>2, <1>3, <1>4 DEF UserStep

LEMMA AntennaKept ==
  ASSUME TypeOK, NickInv, NEW h \in Hosts, AntennaStep(h)
  PROVE  NickInv'
<1>1. CASE SendJoin(h) \/ SendLeft(h) \/ SendPlain(h)
  <2>1. /\ toAntenna[h] # << >> /\ ~Changes(Head(toAntenna[h]))
        /\ toAntenna' = [toAntenna EXCEPT ![h] = Tail(@)]
        /\ UNCHANGED <<state, antennaNick, currentNick>>
    BY <1>1 DEF SendJoin, SendLeft, SendPlain, SendNext, Send, Changes
  <2> QED
    BY <2>1, SendKept
<1>2. CASE SendNick(h)
  <2> DEFINE q == toAntenna[h]
  <2>1. /\ q \in Seq(Message) /\ q # << >> /\ Changes(Head(q))
        /\ toAntenna'[h] = Tail(q) /\ antennaNick'[h] = Head(q).nick
        /\ \A k \in Hosts \ {h} : /\ toAntenna'[k] = toAntenna[k]
                                 /\ antennaNick'[k] = antennaNick[k]
        /\ UNCHANGED <<state, currentNick>> /\ state[h] = "on"
    BY <1>2 DEF SendNick, SendNext, Send, Changes, TypeOK, Pipes
  <2>2. Agrees(q, antennaNick[h], currentNick[h])
    BY <2>1 DEF NickInv, SameNick
  <2>3. SameNick(h)'
    BY <2>1, <2>2, AgreesTail DEF SameNick
  <2>4. ASSUME NEW k \in Hosts, k # h PROVE SameNick(k)'
    BY <2>1, <2>4, OthersKept
  <2> QED
    BY <2>3, <2>4 DEF NickInv
<1>3. CASE SendGoodbye(h)
  <2>1. /\ state'[h] = "left"
        /\ \A k \in Hosts \ {h} : toAntenna'[k] = toAntenna[k] /\ state'[k] = state[k]
        /\ UNCHANGED <<antennaNick, currentNick>>
    BY <1>3 DEF SendGoodbye, TypeOK, Pipes
  <2>2. SameNick(h)'
    BY <2>1 DEF SameNick
  <2>3. ASSUME NEW k \in Hosts, k # h PROVE SameNick(k)'
    BY <2>1, <2>3, OthersKept
  <2> QED
    BY <2>2, <2>3 DEF NickInv
<1>4. CASE SendAuto(h) \/ Receive(h)
  BY <1>4 DEF SendAuto, Receive, NickInv, SameNick
<1> QED
  BY <1>1, <1>2, <1>3, <1>4 DEF AntennaStep

LEMMA UserlistKept ==
  ASSUME TypeOK, NickInv, NEW h \in Hosts, UserlistStep(h)
  PROVE  NickInv'
<1> DEFINE m == Head(toUserlist[h])
<1>0. HandleNext(h) =>
        m \in Message /\ state[h] = "on" /\ UNCHANGED <<state, antennaNick>>
  BY HandleNextType DEF HandleNext, UserlistRuns
<1>1. CASE UpdateSenderStatus(h)
  <2>1. PICK r \in {<<OnChannel("here", m.channel)>>, << >>} :
          /\ Post(h, r)
          /\ r # << >> => m.kind = "who_is_here"
    BY <1>1 DEF UpdateSenderStatus
  <2>2. m \in Message /\ UNCHANGED <<state, antennaNick, currentNick>>
    BY <1>0, <1>1 DEF UpdateSenderStatus
  <2>3. r \in Seq(Message) /\ \A i \in 1..Len(r) : ~Changes(r[i])
    <3>1. CASE r = << >>
      BY <3>1
    <3>2. CASE r = <<OnChannel("here", m.channel)>> /\ m.kind = "who_is_here"
      <4>1. OnChannel("here", m.channel) \in Message
        BY <2>2, <3>2, MessageFields, OnChannelType
      <4>2. ~Changes(OnChannel("here", m.channel))
        BY DEF OnChannel, About, Changes
      <4> QED
        BY <3>2, <4>1, <4>2
    <3> QED
      BY <2>1, <3>1, <3>2
  <2> QED
    BY <2>1, <2>2, <2>3, QueueKept DEF Post
<1>2. CASE SetNick(h)
  <2> DEFINE taken == userList[h][m.nick].known /\ m.nick # DefaultNick
             join == IF firstTime[h]
                     THEN <<OnChannel("set_channel", DefaultChannel)>> ELSE << >>
             change == About("changed_nick", NoChannel, m.nick)
             q == toAntenna[h]
  <2>1. /\ m \in Message /\ m.nick \in Nicks
        /\ state[h] = "on" /\ UNCHANGED <<state, antennaNick>>
    BY <1>0, <1>2, MessageFields DEF SetNick
  <2>2. join \in Seq(Message) /\ \A i \in 1..Len(join) : ~Changes(join[i])
    <3>1. /\ OnChannel("set_channel", DefaultChannel) \in Message
          /\ ~Changes(OnChannel("set_channel", DefaultChannel))
      BY OnChannelType, PresenceAssumption DEF OnChannel, About, Changes
    <3> QED
      BY <3>1
  <2>3. CASE taken
    <3>1. join \o << >> = join
      BY <2>2
    <3>2. toAntenna' = [toAntenna EXCEPT ![h] = @ \o join] /\ UNCHANGED currentNick
      BY <1>2, <2>3, <3>1 DEF SetNick, Post
    <3> HIDE DEF join
    <3> QED
      BY <2>1, <2>2, <3>2, QueueKept
  <2>4. CASE ~taken
    <3> DEFINE r == q \o (join \o <<change>>)
    <3>1. change \in Message /\ Changes(change) /\ change.nick = m.nick
      BY <2>1, AboutType DEF About, Changes
    <3>2. q \in Seq(Message) /\ currentNick \in [Hosts -> Nicks] /\ toAntenna \in Pipes
      BY DEF TypeOK, Pipes
    <3>3. toAntenna' = [toAntenna EXCEPT ![h] = r]
          /\ currentNick' = [currentNick EXCEPT ![h] = m.nick]
      BY <1>2, <2>4 DEF SetNick, Post
    <3>4. r \in Seq(Message) /\ Len(r) >= 1 /\ r[Len(r)] = change
      <4> HIDE DEF join, change
      <4> QED
        BY <2>2, <3>1, <3>2, LastMessage
    <3>5. Agrees(r, antennaNick[h], m.nick)
      <4> HIDE DEF r, change
      <4> QED
        BY <3>1, <3>4, AgreesNew
    <3>6. /\ toAntenna'[h] = r /\ currentNick'[h] = m.nick
          /\ \A k \in Hosts \ {h} : /\ toAntenna'[k] = toAntenna[k]
                                   /\ currentNick'[k] = currentNick[k]
      <4> HIDE DEF r
      <4> QED
        BY <3>2, <3>3 DEF Pipes
    <3>7. SameNick(h)'
      <4> HIDE DEF r
      <4> QED
        BY <2>1, <3>5, <3>6 DEF SameNick
    <3>8. ASSUME NEW k \in Hosts, k # h PROVE SameNick(k)'
      <4> HIDE DEF r
      <4> QED
        BY <2>1, <3>6, <3>8, OthersKept
    <3> QED
      BY <3>7, <3>8 DEF NickInv
  <2> QED
    BY <2>3, <2>4
<1>3. CASE HandleSetChannel(h)
  <2> DEFINE r == <<OnChannel("who_is_here", m.channel)>>
  <2>1. /\ m \in Message /\ m.channel \in Channels
        /\ UNCHANGED <<state, antennaNick, currentNick>>
    BY <1>0, <1>3, MessageFields DEF HandleSetChannel
  <2>2. Post(h, r) \/ Post(h, << >>)
    BY <1>3 DEF HandleSetChannel
  <2>3. r \in Seq(Message) /\ \A i \in 1..Len(r) : ~Changes(r[i])
    <3>1. OnChannel("who_is_here", m.channel) \in Message
      BY <2>1, OnChannelType
    <3>2. ~Changes(OnChannel("who_is_here", m.channel))
      BY DEF OnChannel, About, Changes
    <3> QED
      BY <3>1, <3>2, OneMessage
  <2>4. << >> \in Seq(Message) /\ \A i \in 1..Len(<< >>) : ~Changes(<< >>[i])
    OBVIOUS
  <2> HIDE DEF r
  <2> QED
    BY <2>1, <2>2, <2>3, <2>4, QueueKept DEF Post
<1>4. CASE HandleLeaveChannel(h)
  BY <1>4 DEF HandleLeaveChannel, HandleNext, NickInv, SameNick
<1> QED
  BY <1>1, <1>2, <1>3, <1>4 DEF UserlistStep

LEMMA NickStart == Init => NickInv
BY DEF Init, NickInv, SameNick

LEMMA NickStep == TypeOK /\ NickInv /\ [Next]_vars => NickInv'
<1> SUFFICES ASSUME TypeOK, NickInv, [Next]_vars PROVE NickInv'
  OBVIOUS
<1>1. CASE Tick \/ \E h \in Hosts : Expire(h)
  BY <1>1 DEF Tick, Expire, pipes, NickInv, SameNick
<1>2. CASE \E h \in Hosts : AntennaStep(h) \/ UserlistStep(h) \/ UserStep(h)
  BY <1>2, AntennaKept, UserlistKept, UserKept
<1>3. CASE UNCHANGED vars
  BY <1>3 DEF vars, pipes, NickInv, SameNick
<1> QED
  BY <1>1, <1>2, <1>3 DEF Next

(* The antenna speaks under the nick the userlist has accepted, or will    *)
(* when the changed_nick messages on the way have arrived: on every host,  *)
(* however users change their nicks and channels and whatever the network  *)
(* does.                                                                   *)
THEOREM NicksAgree == Spec => []AntennaFollowsUserlist
<1>1. NickInv => AntennaFollowsUserlist
  BY DEF NickInv, SameNick, AntennaFollowsUserlist, On
<1> QED
  BY <1>1, NickStart, NickStep, TypeCorrect, PTL DEF Spec

-------------------------------------------------------------------------------
(* A fact about nick n in a list: nothing in particular, that it has been  *)
(* heard of recently enough, that it is in the default channel, or that    *)
(* the owner of the list, n himself, owes an answer to who asks for the    *)
(* members of the channel.                                                 *)
Fact(what, n) == [what |-> what, nick |-> n]
Heard == [what : {"any", "fresh"}, nick : Nicks]
Joined == [what : {"any", "member"}, nick : Nicks]
AnsweredAs(n) == Joined \cup {Fact("answer", n)}

(* What message m says of nick n, handled by a userlist.                   *)
Tells(m, n) ==
  /\ m.nick = n
  /\ \/ m.kind \in {"edict", "join", "here", "auto", "who_is_here"}
     \/ m.kind = "left" /\ m.channel # NoChannel
Spoils(m, n) ==
  \/ m.kind = "nick_change" /\ n \in {m.channel, m.nick}
  \/ m.kind = "left" /\ m.channel = NoChannel /\ m.nick = n
Parts(m, n) == m.kind = "leave_channel" \/ (m.kind = "left" /\ m.nick = n)
Enters(m, n) ==
  /\ m.kind \in {"join", "here", "edict"}
  /\ m.nick = n /\ m.channel = DefaultChannel
Asking(m) == m.kind = "who_is_here" /\ m.channel = DefaultChannel

(* After message m fact b holds if fact a held before it.                  *)
Derives(a, m, b) ==
  \/ b.what = "any"
  \/ /\ b.what = "fresh"
     /\ \/ a = b /\ ~Spoils(m, b.nick)
        \/ Tells(m, b.nick)
        \/ m.kind = "nick_change" /\ m.nick = b.nick /\ a = Fact("fresh", m.channel)
  \/ /\ b.what = "member"
     /\ \/ a = b /\ ~Spoils(m, b.nick) /\ ~Parts(m, b.nick)
        \/ Enters(m, b.nick)
        \/ m.kind = "nick_change" /\ m.nick = b.nick /\ a = Fact("member", m.channel)
  \/ /\ b.what = "answer"
     /\ a = b \/ (a = Fact("member", b.nick) /\ Asking(m))

(* The list says fact a; fresh is not older than t.                        *)
Holds(list, t, a) ==
  LET e == list[a.nick]
  IN  CASE a.what = "any" -> TRUE
        [] a.what = "fresh" -> e.known /\ e.age <= t
        [] a.what = "member" ->
             e.known /\ e.age <= Idle /\ DefaultChannel \in e.channels
        [] a.what = "answer" -> FALSE

(* Fact b follows from fact a when the messages of the queue q are handled. *)
Chain(F, q, a, b) ==
  \E f \in [0..Len(q) -> F] :
    /\ f[0] = a /\ f[Len(q)] = b
    /\ \A i \in 1..Len(q) : Derives(f[i - 1], q[i], f[i])

(* Fact b will hold when what waits for the list, in the userlist's pipe u *)
(* and then in the socket s, has been handled.                             *)
Will(F, list, u, s, t, b) ==
  \E a, c \in F : Holds(list, t, a) /\ Chain(F, u, a, c) /\ Chain(F, s, c, b)

(* Nothing changes where nothing waits.                                    *)
LEMMA ChainEmpty ==
  ASSUME NEW F, NEW a \in F
  PROVE  /\ Chain(F, << >>, a, a)
         /\ \A b : Chain(F, << >>, a, b) => a = b
<1> DEFINE g == [i \in 0..0 |-> a]
<1>0. Len(<< >>) = 0 /\ 1..0 = {}
  OBVIOUS
<1>1. g \in [0..0 -> F] /\ g[0] = a
  OBVIOUS
<1>2. Chain(F, << >>, a, a)
  <2> HIDE DEF g
  <2> QED
    BY <1>0, <1>1 DEF Chain
<1>3. \A b : Chain(F, << >>, a, b) => a = b
  BY <1>0 DEF Chain
<1> QED
  BY <1>2, <1>3

(* The first message of a queue is handled, and the rest remains.          *)
LEMMA ChainFront ==
  ASSUME NEW F, NEW q \in Seq(Message), q # << >>, NEW a, NEW b, Chain(F, q, a, b)
  PROVE  \E c \in F : Derives(a, Head(q), c) /\ Chain(F, Tail(q), c, b)
<1>1. PICK f \in [0..Len(q) -> F] :
        /\ f[0] = a /\ f[Len(q)] = b
        /\ \A i \in 1..Len(q) : Derives(f[i - 1], q[i], f[i])
  BY DEF Chain
<1>2. /\ Len(q) \in Nat /\ Len(q) >= 1 /\ Len(Tail(q)) = Len(q) - 1 /\ Head(q) = q[1]
      /\ \A i \in 1..Len(Tail(q)) : i + 1 \in 1..Len(q) /\ Tail(q)[i] = q[i + 1]
  OBVIOUS
<1> DEFINE g == [i \in 0..Len(Tail(q)) |-> f[i + 1]]
<1>3. g \in [0..Len(Tail(q)) -> F]
  BY <1>2
<1>4. g[0] = f[1] /\ g[Len(Tail(q))] = b
  BY <1>1, <1>2
<1>5. ASSUME NEW i \in 1..Len(Tail(q)) PROVE Derives(g[i - 1], Tail(q)[i], g[i])
  <2>1. g[i - 1] = f[i] /\ g[i] = f[i + 1]
    BY <1>2
  <2>2. Derives(f[(i + 1) - 1], q[i + 1], f[i + 1])
    BY <1>1, <1>2
  <2>3. (i + 1) - 1 = i
    OBVIOUS
  <2> HIDE DEF g
  <2> QED
    BY <1>2, <2>1, <2>2, <2>3
<1>6. Chain(F, Tail(q), f[1], b)
  <2> HIDE DEF g
  <2> QED
    BY <1>3, <1>4, <1>5 DEF Chain
<1>7. f[1] \in F /\ Derives(a, Head(q), f[1])
  <2>1. Derives(f[1 - 1], q[1], f[1]) /\ 1 - 1 = 0
    BY <1>1, <1>2
  <2> QED
    BY <1>1, <1>2, <2>1
<1> QED
  BY <1>6, <1>7

(* A message is put behind a queue.                                        *)
LEMMA ChainBehind ==
  ASSUME NEW F, NEW G, F \subseteq G, NEW q \in Seq(Message), NEW m \in Message,
         NEW a, NEW b, NEW c \in G, Chain(F, q, a, b), Derives(b, m, c)
  PROVE  Chain(G, Append(q, m), a, c)
<1>1. PICK f \in [0..Len(q) -> F] :
        /\ f[0] = a /\ f[Len(q)] = b
        /\ \A i \in 1..Len(q) : Derives(f[i - 1], q[i], f[i])
  BY DEF Chain
<1>2. /\ Len(q) \in Nat /\ Len(Append(q, m)) = Len(q) + 1
      /\ Append(q, m)[Len(q) + 1] = m
      /\ \A i \in 1..Len(q) : Append(q, m)[i] = q[i]
  OBVIOUS
<1> DEFINE g == [i \in 0..Len(Append(q, m)) |-> IF i <= Len(q) THEN f[i] ELSE c]
<1>3. g \in [0..Len(Append(q, m)) -> G]
  BY <1>2
<1>4. g[0] = a /\ g[Len(Append(q, m))] = c
  BY <1>1, <1>2
<1>5. ASSUME NEW i \in 1..Len(Append(q, m))
      PROVE  Derives(g[i - 1], Append(q, m)[i], g[i])
  <2>1. CASE i <= Len(q)
    <3>1. i \in 1..Len(q) /\ g[i - 1] = f[i - 1] /\ g[i] = f[i]
      BY <1>2, <2>1
    <3> HIDE DEF g
    <3> QED
      BY <1>1, <1>2, <3>1
  <2>2. CASE ~(i <= Len(q))
    <3>1. i = Len(q) + 1 /\ g[i - 1] = b /\ g[i] = c
      BY <1>1, <1>2, <2>2
    <3> HIDE DEF g
    <3> QED
      BY <1>2, <3>1
  <2> QED
    BY <2>1, <2>2
<1> HIDE DEF g
<1> QED
  BY <1>3, <1>4, <1>5 DEF Chain

(* The empty fact holds throughout.                                        *)
LEMMA ChainOfAny ==
  ASSUME NEW F, NEW q \in Seq(Message), NEW a \in F, a.what = "any"
  PROVE  Chain(F, q, a, a)
<1> DEFINE g == [i \in 0..Len(q) |-> a]
<1>1. Len(q) \in Nat /\ g \in [0..Len(q) -> F] /\ g[0] = a /\ g[Len(q)] = a
  OBVIOUS
<1>2. ASSUME NEW i \in 1..Len(q) PROVE Derives(g[i - 1], q[i], g[i])
  <2>1. g[i] = a
    BY <1>1
  <2> HIDE DEF g
  <2> QED
    BY <2>1 DEF Derives
<1> HIDE DEF g
<1> QED
  BY <1>1, <1>2 DEF Chain

(* More facts allow the same chains.                                       *)
LEMMA ChainWider ==
  ASSUME NEW F, NEW G, F \subseteq G, NEW q \in Seq(Message), NEW a, NEW b,
         Chain(F, q, a, b)
  PROVE  Chain(G, q, a, b)
BY DEF Chain

(* The userlist handles the first message of its pipe.                     *)
LEMMA WillTake ==
  ASSUME NEW F, NEW list, NEW later, NEW u \in Seq(Message), NEW s, NEW t, NEW b,
         u # << >>, Will(F, list, u, s, t, b),
         \A a, c \in F : Holds(list, t, a) /\ Derives(a, Head(u), c)
                         => Holds(later, t, c)
  PROVE  Will(F, later, Tail(u), s, t, b)
<1>1. PICK a \in F, c \in F :
        Holds(list, t, a) /\ Chain(F, u, a, c) /\ Chain(F, s, c, b)
  BY DEF Will
<1>2. PICK d \in F : Derives(a, Head(u), d) /\ Chain(F, Tail(u), d, c)
  BY <1>1, ChainFront
<1>3. Holds(later, t, d)
  BY <1>1, <1>2
<1> QED
  BY <1>1, <1>2, <1>3 DEF Will

(* The antenna passes a datagram from the socket to the userlist.          *)
LEMMA WillMove ==
  ASSUME NEW F, NEW list, NEW u \in Seq(Message), NEW s \in Seq(Message), NEW t, NEW b,
         s # << >>, Will(F, list, u, s, t, b)
  PROVE  Will(F, list, Append(u, Head(s)), Tail(s), t, b)
<1>1. PICK a \in F, c \in F :
        Holds(list, t, a) /\ Chain(F, u, a, c) /\ Chain(F, s, c, b)
  BY DEF Will
<1>2. PICK d \in F : Derives(c, Head(s), d) /\ Chain(F, Tail(s), d, b)
  BY <1>1, ChainFront
<1>3. Head(s) \in Message
  OBVIOUS
<1>4. Chain(F, Append(u, Head(s)), a, d)
  BY <1>1, <1>2, <1>3, ChainBehind
<1> QED
  BY <1>1, <1>2, <1>4 DEF Will

(* A datagram arrives at the socket.                                       *)
LEMMA WillArrive ==
  ASSUME NEW F, NEW G, F \subseteq G, NEW list, NEW u \in Seq(Message),
         NEW s \in Seq(Message), NEW d \in Message, NEW t, NEW b, NEW c \in G,
         Will(F, list, u, s, t, b), Derives(b, d, c)
  PROVE  Will(G, list, u, Append(s, d), t, c)
<1>1. PICK a \in F, e \in F :
        Holds(list, t, a) /\ Chain(F, u, a, e) /\ Chain(F, s, e, b)
  BY DEF Will
<1>2. Chain(G, u, a, e)
  BY <1>1, ChainWider
<1>3. Chain(G, Append(s, d), e, c)
  BY <1>1, ChainBehind
<1>4. a \in G /\ e \in G
  BY <1>1
<1> QED
  BY <1>1, <1>2, <1>3, <1>4 DEF Will

(* A message that disturbs no fact is put into the pipe.                   *)
LEMMA WillBehind ==
  ASSUME NEW F, NEW list, NEW u \in Seq(Message), NEW s, NEW m \in Message, NEW t,
         NEW b, Will(F, list, u, s, t, b), \A c \in F : Derives(c, m, c)
  PROVE  Will(F, list, Append(u, m), s, t, b)
<1>1. PICK a \in F, c \in F :
        Holds(list, t, a) /\ Chain(F, u, a, c) /\ Chain(F, s, c, b)
  BY DEF Will
<1>2. Chain(F, Append(u, m), a, c)
  BY <1>1, ChainBehind
<1> QED
  BY <1>1, <1>2 DEF Will

(* The list changes by itself.                                             *)
LEMMA WillAge ==
  ASSUME NEW F, NEW list, NEW later, NEW u, NEW s, NEW t, NEW t2, NEW b,
         Will(F, list, u, s, t, b), \A a \in F : Holds(list, t, a) => Holds(later, t2, a)
  PROVE  Will(F, later, u, s, t2, b)
BY DEF Will

(* The empty fact always will hold.                                        *)
LEMMA WillAny ==
  ASSUME NEW F, NEW list, NEW u \in Seq(Message), NEW s \in Seq(Message), NEW t,
         NEW b \in F, b.what = "any"
  PROVE  Will(F, list, u, s, t, b)
<1>1. Chain(F, u, b, b) /\ Chain(F, s, b, b)
  BY ChainOfAny
<1>2. Holds(list, t, b)
  BY DEF Holds
<1> QED
  BY <1>1, <1>2 DEF Will

(* With nothing under way what will hold is what holds.                    *)
LEMMA WillNow ==
  ASSUME NEW F, NEW list, NEW t, NEW b
  PROVE  /\ Will(F, list, << >>, << >>, t, b) => Holds(list, t, b)
         /\ b \in F /\ Holds(list, t, b) => Will(F, list, << >>, << >>, t, b)
<1>1. ASSUME Will(F, list, << >>, << >>, t, b) PROVE Holds(list, t, b)
  <2>1. PICK a \in F, c \in F :
          Holds(list, t, a) /\ Chain(F, << >>, a, c) /\ Chain(F, << >>, c, b)
    BY <1>1 DEF Will
  <2> QED
    BY <2>1, ChainEmpty
<1>2. ASSUME b \in F, Holds(list, t, b) PROVE Will(F, list, << >>, << >>, t, b)
  BY <1>2, ChainEmpty DEF Will
<1> QED
  BY <1>1, <1>2

(* The fields of an entry that has been touched.                           *)
LEMMA EntryFields ==
  ASSUME NEW e \in Status
  PROVE  /\ Seen(e).known /\ Seen(e).age = 0 /\ Seen(e).channels = e.channels
         /\ Entry(e).known /\ Entry(e).age = e.age /\ Entry(e).channels = e.channels
         /\ Seen(e) \in Status /\ Entry(e) \in Status
         /\ \A c \in Channels :
              LET g == [Seen(e) EXCEPT !.channels = @ \cup {c}]
              IN  g.known /\ g.age = 0 /\ g.channels = e.channels \cup {c}
         /\ \A c :
              LET g == [Seen(e) EXCEPT !.channels = @ \ {c}]
              IN  g.known /\ g.age = 0 /\ g.channels = e.channels \ {c}
<1>1. Seen(e) \in Status /\ Entry(e) \in Status
  BY StatusTypes
<1>2. e = [known |-> e.known, channels |-> e.channels, age |-> e.age]
  BY DEF Status
<1> QED
  BY <1>1, <1>2 DEF Seen, Entry, Status

(* Better(e, f): f knows at least what e knew, and has heard no earlier.   *)
Better(e, f) ==
  f.known /\ f.age <= e.age /\ (DefaultChannel \in e.channels => DefaultChannel \in f.channels)

(* What message m does to the entry of x, which is f afterwards.           *)
Improves(list, m, x, f) ==
  /\ list[x].known /\ ~Spoils(m, x) =>
       /\ f.known /\ f.age <= list[x].age
       /\ DefaultChannel \in list[x].channels /\ ~Parts(m, x)
            => DefaultChannel \in f.channels
  /\ Tells(m, x) => f.known /\ f.age = 0
  /\ Enters(m, x) => f.known /\ f.age = 0 /\ DefaultChannel \in f.channels
  /\ m.kind = "nick_change" /\ m.nick = x /\ list[m.channel].known
       => Better(list[m.channel], f)

(* What a datagram does to the entry of any nick x.                        *)
LEMMA UpdatedFacts ==
  ASSUME NEW list \in [Nicks -> Status], NEW me \in Nicks,
         NEW m \in Message, m.kind \in Datagrams, NEW x \in Nicks
  PROVE  Improves(list, m, x, Updated(list, me, m)[x])
<1> DEFINE seen == [list EXCEPT ![m.nick] = Seen(@)]
           In == [seen EXCEPT ![m.nick].channels = @ \cup {m.channel}]
           f == Updated(list, me, m)[x]
<1>1. m.nick \in Nicks /\ list[m.nick] \in Status /\ list[x] \in Status
  BY MessageFields
<1>2. /\ seen \in [Nicks -> Status] /\ seen[m.nick] = Seen(list[m.nick])
      /\ \A n \in Nicks \ {m.nick} : seen[n] = list[n]
  BY <1>1, EntryFields
<1>3. /\ list[x].age \in Nat /\ list[x].age >= 0
      /\ \A n \in Nicks : list[n].age \in Nat
  BY PresenceAssumption DEF Status, Old
<1>4. In[x] = IF x = m.nick THEN [Seen(list[x]) EXCEPT !.channels = @ \cup {m.channel}]
              ELSE list[x]
  <2> HIDE DEF seen
  <2> QED
    BY <1>1, <1>2
<1>5. ASSUME f = In[x], m.channel \in Channels, m.kind \in {"edict", "join", "here", "who_is_here"}
      PROVE  Improves(list, m, x, f)
  <2> HIDE DEF In, f
  <2> QED
    BY <1>1, <1>3, <1>4, <1>5, EntryFields DEF Tells, Enters, Improves
<1>6. ASSUME m.kind \in {"edict", "join", "here"} PROVE Improves(list, m, x, f)
  <2>1. f = In[x] /\ m.channel \in Channels
    BY <1>6, MessageFields DEF Updated
  <2> HIDE DEF f, In
  <2> QED
    BY <1>5, <1>6, <2>1
<1>7. ASSUME m.kind = "auto" PROVE Improves(list, m, x, f)
  <2>1. f = seen[x]
    BY <1>7 DEF Updated
  <2> HIDE DEF f, seen
  <2> QED
    BY <1>1, <1>2, <1>3, <1>7, <2>1, EntryFields DEF Tells, Enters, Improves
<1>8. ASSUME m.kind = "left" PROVE Improves(list, m, x, f)
  <2>1. CASE m.channel = NoChannel
    <3>1. f = IF x = m.nick THEN Unknown ELSE list[x]
      BY <1>1, <1>8, <2>1 DEF Updated
    <3> HIDE DEF f
    <3> QED
      BY <1>1, <1>3, <1>8, <2>1, <3>1 DEF Tells, Enters, Spoils, Improves
  <2>2. CASE m.channel # NoChannel
    <3>1. f = [seen EXCEPT ![m.nick].channels = @ \ {m.channel}][x]
      BY <1>8, <2>2 DEF Updated
    <3>2. f = IF x = m.nick THEN [Seen(list[x]) EXCEPT !.channels = @ \ {m.channel}]
              ELSE list[x]
      <4> HIDE DEF f, seen
      <4> QED
        BY <1>1, <1>2, <3>1
    <3> HIDE DEF f
    <3> QED
      BY <1>1, <1>3, <1>8, <3>2, EntryFields DEF Tells, Enters, Parts, Improves
  <2> QED
    BY <2>1, <2>2
<1>9. ASSUME m.kind = "who_is_here" PROVE Improves(list, m, x, f)
  <2>1. m.channel \in Channels
    BY <1>9, MessageFields
  <2>2. CASE m.channel \in seen[me].channels
    <3>1. f = In[x]
      BY <1>9, <2>2 DEF Updated
    <3> HIDE DEF f, In
    <3> QED
      BY <1>5, <1>9, <2>1, <3>1
  <2>3. CASE m.channel \notin seen[me].channels
    <3>1. f = [seen EXCEPT ![me] = Entry(@)][x]
      BY <1>9, <2>3 DEF Updated
    <3>2. f = IF x = me THEN Entry(seen[x]) ELSE seen[x]
      <4> HIDE DEF f, seen
      <4> QED
        BY <1>2, <3>1
    <3>3. seen[x] \in Status /\ seen[x] = IF x = m.nick THEN Seen(list[x]) ELSE list[x]
      BY <1>2
    <3> HIDE DEF f, seen
    <3> QED
      BY <1>1, <1>3, <1>9, <3>2, <3>3, EntryFields DEF Tells, Enters, Improves
  <2> QED
    BY <2>2, <2>3
<1>10. ASSUME m.kind = "nick_change" PROVE Improves(list, m, x, f)
  <2>1. m.channel \in Nicks
    BY <1>10, MessageFields
  <2>2. f = [seen EXCEPT ![m.channel] = Unknown, ![m.nick] = Entry(seen[m.channel])][x]
    BY <1>10 DEF Updated
  <2>3. /\ x = m.nick => f = Entry(seen[m.channel])
        /\ x \notin {m.nick, m.channel} => f = list[x]
    <3> HIDE DEF f, seen
    <3> QED
      BY <1>1, <1>2, <2>1, <2>2
  <2>4. seen[m.channel] = IF m.channel = m.nick THEN Seen(list[m.channel]) ELSE list[m.channel]
    BY <1>1, <1>2, <2>1
  <2> HIDE DEF f, seen
  <2>5. x = m.nick /\ list[m.channel].known => Better(list[m.channel], f)
    <3>1. list[m.channel] \in Status
      BY <2>1
    <3> QED
      BY <1>1, <1>3, <2>1, <2>3, <2>4, <3>1, EntryFields DEF Better
  <2>6. ~Tells(m, x) /\ ~Enters(m, x)
    BY <1>10 DEF Tells, Enters
  <2> QED
    BY <1>3, <1>10, <2>3, <2>5, <2>6 DEF Spoils, Improves
<1> QED
  BY <1>6, <1>7, <1>8, <1>9, <1>10 DEF Datagrams

(* The facts that the list itself shows.                                   *)
Facts == Heard \cup Joined

(* Each kind of fact, spelled out.                                         *)
LEMMA HoldsWhen ==
  ASSUME NEW list, NEW t, NEW a
  PROVE  /\ a.what = "any" => Holds(list, t, a)
         /\ a.what = "fresh" =>
              (Holds(list, t, a) <=> (list[a.nick].known /\ list[a.nick].age <= t))
         /\ a.what = "member" =>
              (Holds(list, t, a) <=> (/\ list[a.nick].known /\ list[a.nick].age <= Idle
                                      /\ DefaultChannel \in list[a.nick].channels))
         /\ a.what = "answer" => ~Holds(list, t, a)
BY DEF Holds

(* A datagram leads from the facts before it to those that follow from     *)
(* them.                                                                   *)
LEMMA UpdatedHolds ==
  ASSUME NEW list \in [Nicks -> Status], NEW me \in Nicks,
         NEW m \in Message, m.kind \in Datagrams, NEW t \in Nat,
         NEW a \in Facts, NEW b \in Facts, Holds(list, t, a), Derives(a, m, b)
  PROVE  Holds(Updated(list, me, m), t, b)
<1> DEFINE x == b.nick
           new == Updated(list, me, m)
<1>1. x \in Nicks /\ a.nick \in Nicks /\ b.what \in {"any", "fresh", "member"}
      /\ m.nick \in Nicks
  BY MessageFields DEF Facts, Heard, Joined
<1>2. Idle \in Nat /\ \A n \in Nicks : list[n].age \in Nat /\ new[n].age \in Nat
  <2>1. KeepAlive \in Nat /\ Expiry \in Nat
    BY PresenceAssumption
  <2>2. Idle \in Nat /\ Old \in Nat
    BY <2>1 DEF Idle, Old
  <2>3. new \in [Nicks -> Status]
    BY UpdatedType
  <2> QED
    BY <2>2, <2>3 DEF Status
<1>3. Improves(list, m, x, new[x])
  BY <1>1, UpdatedFacts
<1>4. m.kind = "nick_change" => m.channel \in Nicks
  BY MessageFields
<1> HIDE DEF new
<1>5. ASSUME b.what = "any" PROVE Holds(new, t, b)
  BY <1>5 DEF Holds
<1>6. ASSUME b.what = "fresh" PROVE Holds(new, t, b)
  <2>1. CASE a = b /\ ~Spoils(m, b.nick)
    <3>1. list[x].known /\ list[x].age <= t
      BY <1>6, <2>1, HoldsWhen
    <3>2. new[x].known /\ new[x].age <= list[x].age
      BY <1>3, <2>1, <3>1 DEF Improves
    <3> QED
      BY <1>1, <1>2, <1>6, <3>1, <3>2, HoldsWhen
  <2>2. CASE Tells(m, b.nick)
    BY <1>1, <1>2, <1>3, <1>6, <2>2 DEF Holds, Improves
  <2>3. CASE m.kind = "nick_change" /\ m.nick = b.nick /\ a = Fact("fresh", m.channel)
    <3>1. a.what = "fresh" /\ a.nick = m.channel
      BY <2>3 DEF Fact
    <3>2. list[a.nick].known /\ Better(list[a.nick], new[x])
      BY <1>3, <2>3, <3>1 DEF Holds, Improves
    <3> QED
      BY <1>1, <1>2, <1>6, <3>1, <3>2 DEF Holds, Better
  <2> QED
    BY <1>6, <2>1, <2>2, <2>3 DEF Derives
<1>7. ASSUME b.what = "member" PROVE Holds(new, t, b)
  <2>1. CASE a = b /\ ~Spoils(m, b.nick) /\ ~Parts(m, b.nick)
    <3>1. list[x].known /\ list[x].age <= Idle /\ DefaultChannel \in list[x].channels
      BY <1>7, <2>1, HoldsWhen
    <3>2. /\ new[x].known /\ new[x].age <= list[x].age
          /\ DefaultChannel \in new[x].channels
      BY <1>3, <2>1, <3>1 DEF Improves
    <3> QED
      BY <1>1, <1>2, <1>7, <3>1, <3>2, HoldsWhen
  <2>2. CASE Enters(m, b.nick)
    BY <1>1, <1>2, <1>3, <1>7, <2>2 DEF Holds, Improves
  <2>3. CASE m.kind = "nick_change" /\ m.nick = b.nick /\ a = Fact("member", m.channel)
    <3>1. a.what = "member" /\ a.nick = m.channel
      BY <2>3 DEF Fact
    <3>2. list[a.nick].known /\ Better(list[a.nick], new[x])
      BY <1>3, <2>3, <3>1 DEF Holds, Improves
    <3> QED
      BY <1>1, <1>2, <1>7, <3>1, <3>2 DEF Holds, Better
  <2> QED
    BY <1>7, <2>1, <2>2, <2>3 DEF Derives
<1> QED
  BY <1>1, <1>5, <1>6, <1>7 DEF new

(* The other messages of a userlist's pipe, its timer, and what is answered. *)
LEMMA LeftHolds ==
  ASSUME NEW list \in [Nicks -> Status], NEW m \in Message, m.kind = "leave_channel",
         NEW later, later = [n \in Nicks |-> [list[n] EXCEPT !.channels = @ \ {m.channel}]],
         NEW t \in Nat, NEW a \in Facts, NEW b \in Facts, Holds(list, t, a), Derives(a, m, b)
  PROVE  Holds(later, t, b)
<1>1. b.nick \in Nicks /\ b.what \in {"any", "fresh", "member"} /\ list[b.nick] \in Status
  BY DEF Facts, Heard, Joined
<1>2. later[b.nick].known = list[b.nick].known /\ later[b.nick].age = list[b.nick].age
  BY <1>1 DEF Status
<1>3. b.what # "any" => a = b /\ b.what = "fresh"
  BY <1>1 DEF Derives, Tells, Enters, Parts
<1> QED
  BY <1>1, <1>2, <1>3 DEF Holds

(* An entry that is made, or the timer, takes no fact away.                *)
LEMMA OtherHolds ==
  ASSUME NEW list \in [Nicks -> Status], NEW later, NEW me \in Nicks,
         \/ later = list
         \/ later = [list EXCEPT ![me] = Entry(@)]
         \/ later = [n \in Nicks |-> IF list[n].age > Expiry THEN Unknown ELSE list[n]],
         NEW t \in 0..Idle, NEW a \in Facts, Holds(list, t, a)
  PROVE  Holds(later, t, a)
<1>1. a.nick \in Nicks /\ a.what \in {"any", "fresh", "member"} /\ list[a.nick] \in Status
  BY DEF Facts, Heard, Joined
<1>2. Idle \in Nat /\ Expiry \in Nat /\ Idle <= Expiry /\ list[a.nick].age \in Nat
  BY <1>1, PresenceAssumption, LifeSignAssumption DEF Idle, Status, Old
<1>3. a.what # "any" => list[a.nick].known /\ list[a.nick].age <= Idle
  <2>1. t \in Nat /\ t <= Idle
    BY <1>2
  <2> QED
    BY <1>1, <1>2, <2>1, HoldsWhen
<1>4. CASE later = list
  BY <1>4
<1>5. CASE later = [list EXCEPT ![me] = Entry(@)]
  <2>1. \/ later[a.nick] = list[a.nick]
        \/ later[a.nick] = Entry(list[a.nick])
    BY <1>1, <1>5
  <2> QED
    BY <1>1, <2>1, EntryFields DEF Holds
<1>6. CASE later = [n \in Nicks |-> IF list[n].age > Expiry THEN Unknown ELSE list[n]]
  <2>1. a.what # "any" => later[a.nick] = list[a.nick]
    BY <1>1, <1>2, <1>3, <1>6
  <2> QED
    BY <1>1, <2>1 DEF Holds
<1> QED
  BY <1>4, <1>5, <1>6

(* The other messages lead to no new fact.                                 *)
LEMMA OtherDerives ==
  ASSUME NEW m, m.kind \in {"nick", "set_channel", "shutdown"}, NEW a, NEW b, Derives(a, m, b)
  PROVE  b.what = "any" \/ a = b
BY DEF Derives, Tells, Enters, Asking

(* A member of the default channel answers whoever asks for its members.   *)
LEMMA MemberAnswers ==
  ASSUME NEW list \in [Nicks -> Status], NEW me \in Nicks, NEW m \in Message,
         Asking(m), NEW t, Holds(list, t, Fact("member", me))
  PROVE  m.channel \in Updated(list, me, m)[me].channels
<1>1. m.kind = "who_is_here" /\ m.channel = DefaultChannel /\ m.kind \in Datagrams
  BY DEF Asking, Datagrams
<1>2. list[me].known /\ DefaultChannel \in list[me].channels
  BY DEF Holds, Fact
<1>3. Improves(list, m, me, Updated(list, me, m)[me])
  BY <1>1, UpdatedFacts
<1> QED
  BY <1>1, <1>2, <1>3 DEF Improves, Spoils, Parts

-------------------------------------------------------------------------------
(* What waits for an antenna.  Speaks: the next message is sent under the  *)
(* nick the antenna has now.                                               *)
HasKind(q, kind) == \E i \in 1..Len(q) : q[i].kind = kind
Asks(q) == \E i \in 1..Len(q) : Asking(q[i])
Speaks(q) == q # << >> /\ Head(q).kind # "changed_nick"

(* The queues of a client whose user has typed nothing: a change of nick   *)
(* waits for the antenna only once, before it leaves the default nick, and *)
(* behind the set_channel that was posted with it.                         *)
QueueShape(q, first, nick) ==
  \A i \in 1..Len(q) :
    /\ q[i].kind # "leave_channel"
    /\ q[i].kind = "set_channel" => q[i].channel = DefaultChannel
    /\ q[i].kind = "changed_nick" =>
         /\ ~first /\ nick = DefaultNick
         /\ \A j \in 1..Len(q) :
              q[j].kind \in {"set_channel", "changed_nick"} => j <= i

ListShape(u, first) ==
  \A i \in 1..Len(u) :
    u[i].kind = "nick" =>
      first /\ \A j \in 1..Len(u) : u[j].kind = "nick" => j = i

(* The elements of a queue when one is put behind it or taken off.         *)
LEMMA Places ==
  ASSUME NEW q \in Seq(Message), NEW m \in Message
  PROVE  /\ Len(q) \in Nat /\ Len(Append(q, m)) = Len(q) + 1
         /\ Append(q, m) \in Seq(Message) /\ Append(q, m) # << >>
         /\ Append(q, m)[Len(q) + 1] = m
         /\ \A i \in 1..Len(q) : Append(q, m)[i] = q[i]
         /\ q # << >> =>
              /\ Len(q) >= 1 /\ Head(q) = q[1] /\ Tail(q) \in Seq(Message)
              /\ Head(q) \in Message /\ Len(Tail(q)) = Len(q) - 1
              /\ \A i \in 1..Len(q) - 1 : Tail(q)[i] = q[i + 1]
              /\ Head(Append(q, m)) = Head(q)
         /\ q = << >> => Head(Append(q, m)) = m /\ Len(q) = 0
<1> DEFINE r == Append(q, m)
<1>1. /\ Len(q) \in Nat /\ Len(r) = Len(q) + 1 /\ r \in Seq(Message)
      /\ r[Len(q) + 1] = m
      /\ \A i \in 1..Len(q) : r[i] = q[i]
  OBVIOUS
<1>2. r # << >> /\ Head(r) = r[1]
  OBVIOUS
<1>3. q = << >> => Len(q) = 0
  OBVIOUS
<1>4. q # << >> => /\ Len(q) >= 1 /\ Head(q) = q[1] /\ Tail(q) \in Seq(Message)
                  /\ Head(q) \in Message /\ Len(Tail(q)) = Len(q) - 1
                  /\ \A i \in 1..Len(q) - 1 : Tail(q)[i] = q[i + 1]
  OBVIOUS
<1> HIDE DEF r
<1>5. /\ q # << >> => Head(r) = Head(q)
      /\ q = << >> => Head(r) = m
  BY <1>1, <1>2, <1>3, <1>4
<1>6. r = Append(q, m)
  BY DEF r
<1> QED
  BY <1>1, <1>2, <1>3, <1>4, <1>5, <1>6

(* What a queue holds when a message is put behind it.                     *)
LEMMA KindBehind ==
  ASSUME NEW q \in Seq(Message), NEW m \in Message
  PROVE  /\ \A k : HasKind(Append(q, m), k) <=> (HasKind(q, k) \/ m.kind = k)
         /\ Asks(q) => Asks(Append(q, m))
         /\ Speaks(q) => Speaks(Append(q, m))
         /\ ~HasKind(q, "changed_nick") /\ m.kind # "changed_nick"
              => Speaks(Append(q, m))
<1>1. \A i \in 1..Len(q) : i \in 1..Len(Append(q, m))
  BY Places
<1>2. Len(q) + 1 \in 1..Len(Append(q, m))
  BY Places
<1>3. \A i \in 1..Len(Append(q, m)) : i \in 1..Len(q) \/ i = Len(q) + 1
  BY Places
<1>4. ASSUME NEW k PROVE HasKind(Append(q, m), k) <=> (HasKind(q, k) \/ m.kind = k)
  BY <1>1, <1>2, <1>3, Places DEF HasKind
<1>5. Asks(q) => Asks(Append(q, m))
  BY <1>1, Places DEF Asks
<1>6. Speaks(q) => Speaks(Append(q, m))
  BY Places DEF Speaks
<1>7. ASSUME ~HasKind(q, "changed_nick"), m.kind # "changed_nick"
      PROVE  Speaks(Append(q, m))
  <2>1. CASE q = << >>
    BY <1>7, <2>1, Places DEF Speaks
  <2>2. CASE q # << >>
    <3>1. 1 \in 1..Len(q)
      BY <2>2, Places
    <3> QED
      BY <1>7, <2>2, <3>1, Places DEF Speaks, HasKind
  <2> QED
    BY <2>1, <2>2
<1> QED
  BY <1>4, <1>5, <1>6, <1>7

(* What a queue holds when its first message is taken.                     *)
LEMMA KindTail ==
  ASSUME NEW q \in Seq(Message), q # << >>
  PROVE  /\ \A k : HasKind(Tail(q), k) => HasKind(q, k)
         /\ \A k : HasKind(q, k) => Head(q).kind = k \/ HasKind(Tail(q), k)
         /\ HasKind(q, Head(q).kind)
         /\ Asks(q) => Asking(Head(q)) \/ Asks(Tail(q))
<1>0. PICK m \in Message : m = Head(q)
  BY Places
<1>1. \A i \in 1..Len(Tail(q)) : i + 1 \in 1..Len(q) /\ Tail(q)[i] = q[i + 1]
  BY <1>0, Places
<1>2. \A i \in 1..Len(q) : i # 1 =>
         i - 1 \in 1..Len(Tail(q)) /\ Tail(q)[i - 1] = q[i]
  BY <1>0, Places
<1>3. 1 \in 1..Len(q) /\ Head(q) = q[1]
  BY <1>0, Places
<1>4. \A k : HasKind(Tail(q), k) => HasKind(q, k)
  BY <1>1 DEF HasKind
<1>5. ASSUME NEW k, HasKind(q, k) PROVE Head(q).kind = k \/ HasKind(Tail(q), k)
  BY <1>2, <1>3, <1>5 DEF HasKind
<1>6. Asks(q) => Asking(Head(q)) \/ Asks(Tail(q))
  BY <1>2, <1>3 DEF Asks
<1>7. HasKind(q, Head(q).kind)
  BY <1>3 DEF HasKind
<1> QED
  BY <1>4, <1>5, <1>6, <1>7

(* A message of no concern keeps the shape of the queue.                   *)
LEMMA ShapeBehind ==
  ASSUME NEW q \in Seq(Message), NEW m \in Message, NEW first, NEW nick,
         QueueShape(q, first, nick),
         m.kind \notin {"leave_channel", "set_channel", "changed_nick"}
  PROVE  QueueShape(Append(q, m), first, nick)
<1>1. \A i \in 1..Len(Append(q, m)) :
        \/ i \in 1..Len(q) /\ Append(q, m)[i] = q[i]
        \/ i = Len(q) + 1 /\ Append(q, m)[i] = m
  BY Places
<1> QED
  BY <1>1 DEF QueueShape

(* Taking the first message keeps the shape of the queue.                  *)
LEMMA ShapeTail ==
  ASSUME NEW q \in Seq(Message), NEW first, NEW nick, q # << >>,
         QueueShape(q, first, nick)
  PROVE  QueueShape(Tail(q), first, nick)
<1>0. PICK m \in Message : m = Head(q)
  BY Places
<1>1. Len(q) \in Nat /\ \A i \in 1..Len(Tail(q)) : i + 1 \in 1..Len(q) /\ Tail(q)[i] = q[i + 1]
  BY <1>0, Places
<1>2. ASSUME NEW i \in 1..Len(Tail(q)), NEW j \in 1..Len(Tail(q)),
             Tail(q)[i].kind = "changed_nick",
             Tail(q)[j].kind \in {"set_channel", "changed_nick"}
      PROVE  j <= i
  <2>1. j + 1 <= i + 1
    BY <1>1, <1>2 DEF QueueShape
  <2> QED
    BY <2>1
<1> QED
  BY <1>1, <1>2 DEF QueueShape

(* Behind a change of nick nothing else of the start follows.              *)
LEMMA ShapeAlone ==
  ASSUME NEW q \in Seq(Message), NEW first, NEW nick, q # << >>,
         QueueShape(q, first, nick)
  PROVE  /\ Head(q).kind = "changed_nick" =>
              /\ ~HasKind(Tail(q), "changed_nick") /\ ~HasKind(Tail(q), "set_channel")
              /\ ~HasKind(q, "set_channel") /\ ~first /\ nick = DefaultNick
         /\ HasKind(q, "set_channel") => Speaks(q)
         /\ Head(q).kind # "leave_channel"
         /\ Head(q).kind = "set_channel" => Head(q).channel = DefaultChannel
<1>0. PICK m \in Message : m = Head(q)
  BY Places
<1>1. Len(q) \in Nat /\ Head(q) = q[1] /\ 1 \in 1..Len(q)
      /\ \A i \in 1..Len(Tail(q)) : i + 1 \in 1..Len(q) /\ Tail(q)[i] = q[i + 1]
  BY <1>0, Places
<1>2. ASSUME Head(q).kind = "changed_nick"
      PROVE  /\ ~HasKind(Tail(q), "changed_nick") /\ ~HasKind(Tail(q), "set_channel")
             /\ ~HasKind(q, "set_channel") /\ ~first /\ nick = DefaultNick
  <2>1. \A j \in 1..Len(q) : q[j].kind \in {"set_channel", "changed_nick"} => j = 1
    BY <1>1, <1>2 DEF QueueShape
  <2>2. \A i \in 1..Len(Tail(q)) : i + 1 # 1
    OBVIOUS
  <2>3. ~HasKind(Tail(q), "changed_nick") /\ ~HasKind(Tail(q), "set_channel")
    BY <1>1, <2>1, <2>2 DEF HasKind
  <2>4. ~HasKind(q, "set_channel")
    BY <1>1, <1>2, <2>1 DEF HasKind
  <2> QED
    BY <1>1, <1>2, <2>3, <2>4 DEF QueueShape
<1>3. HasKind(q, "set_channel") => Speaks(q)
  BY <1>2 DEF Speaks
<1> QED
  BY <1>1, <1>2, <1>3 DEF QueueShape

(* Who changes his nick has the default nick and has joined.               *)
LEMMA ShapeFree ==
  ASSUME NEW q \in Seq(Message), NEW first, NEW nick, QueueShape(q, first, nick)
  PROVE  /\ first => ~HasKind(q, "changed_nick")
         /\ HasKind(q, "changed_nick") => nick = DefaultNick
         /\ ~HasKind(q, "changed_nick") => \A f, n : QueueShape(q, f, n)
BY DEF QueueShape, HasKind

(* The messages of the first nick keep the shape of the queue.             *)
LEMMA ShapeNew ==
  ASSUME NEW q \in Seq(Message), NEW m \in Message, NEW first, NEW nick,
         QueueShape(q, first, nick), ~HasKind(q, "changed_nick")
  PROVE  /\ m.kind = "set_channel" /\ m.channel = DefaultChannel
              => \A f, n : QueueShape(Append(q, m), f, n)
         /\ m.kind = "changed_nick" => QueueShape(Append(q, m), FALSE, DefaultNick)
<1>1. \A i \in 1..Len(Append(q, m)) :
        \/ i \in 1..Len(q) /\ Append(q, m)[i] = q[i]
        \/ i = Len(q) + 1 /\ Append(q, m)[i] = m
  BY Places
<1>2. \A i \in 1..Len(q) : q[i].kind # "changed_nick"
  BY DEF HasKind
<1>3. Len(q) \in Nat /\ Len(Append(q, m)) = Len(q) + 1
  BY Places
<1>4. ASSUME m.kind = "set_channel", m.channel = DefaultChannel, NEW f, NEW n
      PROVE  QueueShape(Append(q, m), f, n)
  BY <1>1, <1>2, <1>4 DEF QueueShape
<1>5. ASSUME m.kind = "changed_nick"
      PROVE  QueueShape(Append(q, m), FALSE, DefaultNick)
  BY <1>1, <1>2, <1>3, <1>5 DEF QueueShape
<1> QED
  BY <1>4, <1>5

(* Only a nick message could disturb the shape of the pipe.                *)
LEMMA ListBehind ==
  ASSUME NEW u \in Seq(Message), NEW m \in Message, NEW first,
         ListShape(u, first), m.kind # "nick"
  PROVE  ListShape(Append(u, m), first)
<1>1. \A i \in 1..Len(Append(u, m)) :
        \/ i \in 1..Len(u) /\ Append(u, m)[i] = u[i]
        \/ i = Len(u) + 1 /\ Append(u, m)[i] = m
  BY Places
<1> QED
  BY <1>1 DEF ListShape

(* The first nick message is the only one.                                 *)
LEMMA ListTail ==
  ASSUME NEW u \in Seq(Message), NEW first, u # << >>, ListShape(u, first)
  PROVE  /\ ListShape(Tail(u), first)
         /\ Head(u).kind = "nick" => first /\ ListShape(Tail(u), FALSE)
<1>0. PICK m \in Message : m = Head(u)
  BY Places
<1>1. Len(u) \in Nat /\ Head(u) = u[1] /\ 1 \in 1..Len(u)
      /\ \A i \in 1..Len(Tail(u)) : i + 1 \in 1..Len(u) /\ Tail(u)[i] = u[i + 1]
  BY <1>0, Places
<1>2. ASSUME NEW i \in 1..Len(Tail(u)), NEW j \in 1..Len(Tail(u)),
             Tail(u)[i].kind = "nick", Tail(u)[j].kind = "nick"
      PROVE  j = i
  <2>1. j + 1 = i + 1
    BY <1>1, <1>2 DEF ListShape
  <2> QED
    BY <2>1
<1>3. ListShape(Tail(u), first)
  BY <1>1, <1>2 DEF ListShape
<1>4. ASSUME Head(u).kind = "nick" PROVE first /\ ListShape(Tail(u), FALSE)
  <2>1. first /\ \A j \in 1..Len(u) : u[j].kind = "nick" => j = 1
    BY <1>1, <1>4 DEF ListShape
  <2>2. \A i \in 1..Len(Tail(u)) : i + 1 # 1
    OBVIOUS
  <2> QED
    BY <1>1, <2>1, <2>2 DEF ListShape
<1> QED
  BY <1>3, <1>4

(* The variables of host h that the shape of its queues is about.          *)
HostKept(h) ==
  /\ state'[h] = state[h] /\ toAntenna'[h] = toAntenna[h]
  /\ toUserlist'[h] = toUserlist[h] /\ antennaNick'[h] = antennaNick[h]
  /\ firstTime'[h] = firstTime[h]
  /\ channelOps'[h] = channelOps[h] /\ nickOps'[h] = nickOps[h]

(* A datagram of which no copy is lost arrives at everybody who is on.     *)
LEMMA MulticastEffect ==
  ASSUME TypeOK, NEW j \in Hosts, NEW d, Multicast(j, d)
  PROVE  /\ idle'[j] = 0
         /\ \A k \in Hosts \ {j} : idle'[k] = idle[k]
         /\ \A k \in Hosts : socket'[k] \in {socket[k], Append(socket[k], d)}
         /\ lost' = 0 => lost = 0 /\ \A k \in On : socket'[k] = Append(socket[k], d)
<1>1. PICK receivers \in SUBSET On :
        /\ lost' = lost + Cardinality(On \ receivers)
        /\ socket' = [k \in Hosts |->
                        IF k \in receivers THEN Append(socket[k], d) ELSE socket[k]]
  BY DEF Multicast
<1>2. IsFiniteSet(On \ receivers)
  BY PresenceAssumption, FS_Subset DEF On
<1>3. Cardinality(On \ receivers) \in Nat /\ lost \in Nat
  BY <1>2, FS_CardinalityType, PresenceAssumption DEF TypeOK
<1>4. ASSUME lost' = 0
      PROVE  lost = 0 /\ \A k \in On : socket'[k] = Append(socket[k], d)
  <2>1. lost = 0 /\ Cardinality(On \ receivers) = 0
    BY <1>1, <1>3, <1>4
  <2>2. On \ receivers = {}
    BY <1>2, <2>1, FS_EmptySet
  <2> QED
    BY <1>1, <2>1, <2>2 DEF On
<1>5. idle'[j] = 0 /\ \A k \in Hosts \ {j} : idle'[k] = idle[k]
  BY DEF Multicast, TypeOK
<1> QED
  BY <1>1, <1>4, <1>5

(* The userlist posts to the antenna of its own host.                      *)
LEMMA PostEffect ==
  ASSUME TypeOK, NEW j \in Hosts, NEW r \in Seq(Message), Post(j, r)
  PROVE  /\ toAntenna'[j] = toAntenna[j] \o r
         /\ \A k \in Hosts \ {j} : toAntenna'[k] = toAntenna[k]
BY DEF Post, TypeOK, Pipes

(* No message, or one, put behind a queue.                                 *)
LEMMA BehindOne ==
  ASSUME NEW q \in Seq(Message)
  PROVE  /\ q \o << >> = q
         /\ \A m \in Message : q \o <<m>> = Append(q, m)
<1>1. q \o << >> = q
  OBVIOUS
<1>2. ASSUME NEW m \in Message PROVE q \o <<m>> = Append(q, m)
  OBVIOUS
<1> QED
  BY <1>1, <1>2

(* Up to two messages put behind a queue.                                  *)
LEMMA BehindTwo ==
  ASSUME NEW q \in Seq(Message), NEW m \in Message, NEW n \in Message
  PROVE  /\ q \o (<<m>> \o << >>) = Append(q, m)
         /\ q \o (<< >> \o <<n>>) = Append(q, n)
         /\ q \o (<< >> \o << >>) = q
         /\ q \o (<<m>> \o <<n>>) = Append(Append(q, m), n)
<1>1. <<m>> \o << >> = <<m>> /\ << >> \o <<n>> = <<n>> /\ << >> \o << >> = << >>
  OBVIOUS
<1>2. <<m>> \in Seq(Message) /\ <<n>> \in Seq(Message) /\ Append(q, m) \in Seq(Message)
  OBVIOUS
<1>3. q \o (<<m>> \o <<n>>) = (q \o <<m>>) \o <<n>>
  BY <1>2, ConcatAssociative
<1>4. q \o (<<m>> \o <<n>>) = Append(Append(q, m), n)
  BY <1>2, <1>3, BehindOne
<1> QED
  BY <1>1, <1>4, BehindOne

(* What a step does to the pipes of its host.                              *)
LEMMA SendEffect ==
  ASSUME TypeOK, NEW j \in Hosts, NEW d, toAntenna[j] # << >>, Send(j, d)
  PROVE  /\ toAntenna'[j] = Tail(toAntenna[j])
         /\ \A k \in Hosts \ {j} : toAntenna'[k] = toAntenna[k]
         /\ toAntenna[j] \in Seq(Message) /\ Head(toAntenna[j]) \in Message
         /\ UNCHANGED <<currentNick, firstTime, channelOps, nickOps>>
         /\ Multicast(j, d)
BY DEF Send, TypeOK, Pipes

(* The antenna moves one datagram from the socket to the pipe.             *)
LEMMA ReceiveEffect ==
  ASSUME TypeOK, NEW j \in Hosts, Receive(j)
  PROVE  /\ socket[j] # << >> /\ socket[j] \in Seq(Message) /\ state[j] = "on"
         /\ toUserlist[j] \in Seq(Message)
         /\ socket'[j] = Tail(socket[j])
         /\ toUserlist'[j] = Append(toUserlist[j], Head(socket[j]))
         /\ \A k \in Hosts \ {j} :
              socket'[k] = socket[k] /\ toUserlist'[k] = toUserlist[k]
BY DEF Receive, TypeOK, Pipes

(* The userlist takes one message of its pipe.                             *)
LEMMA HandleEffect ==
  ASSUME TypeOK, NEW j \in Hosts, HandleNext(j)
  PROVE  /\ state[j] = "on" /\ toUserlist[j] # << >> /\ toUserlist[j] \in Seq(Message)
         /\ Head(toUserlist[j]) \in Message
         /\ toUserlist'[j] = Tail(toUserlist[j])
         /\ \A k \in Hosts \ {j} : toUserlist'[k] = toUserlist[k]
         /\ UNCHANGED <<state, socket, antennaNick, idle, channelOps, nickOps, lost, clash>>
BY DEF HandleNext, UserlistRuns, TypeOK, Pipes

(* What the userlist does with each kind of message.                       *)
LEMMA UserlistEffect ==
  ASSUME TypeOK, NEW j \in Hosts, UserlistStep(j)
  PROVE  LET m == Head(toUserlist[j])
             me == currentNick[j]
             q == toAntenna[j]
         IN  /\ HandleNext(j)
             /\ \A k \in Hosts \ {j} : /\ toAntenna'[k] = toAntenna[k]
                                      /\ userList'[k] = userList[k]
                                      /\ firstTime'[k] = firstTime[k]
             /\ \/ /\ m.kind \in Datagrams
                   /\ userList'[j] = Updated(userList[j], me, m)
                   /\ firstTime' = firstTime
                   /\ IF /\ m.kind = "who_is_here"
                         /\ m.channel \in userList'[j][me].channels
                      THEN toAntenna'[j] = Append(q, OnChannel("here", m.channel))
                      ELSE toAntenna'[j] = q
                \/ /\ m.kind = "nick"
                   /\ userList'[j] = userList[j]
                   /\ firstTime'[j] = FALSE
                   /\ LET s == IF firstTime[j]
                               THEN Append(q, OnChannel("set_channel", DefaultChannel))
                               ELSE q
                      IN  toAntenna'[j] \in
                            {s, Append(s, About("changed_nick", NoChannel, m.nick))}
                \/ /\ m.kind = "set_channel"
                   /\ userList'[j] = [userList[j] EXCEPT ![me] = Entry(@)]
                   /\ firstTime' = firstTime
                   /\ toAntenna'[j] \in {q, Append(q, OnChannel("who_is_here", m.channel))}
                \/ /\ m.kind = "leave_channel"
                   /\ userList'[j] = [n \in Nicks |->
                         [userList[j][n] EXCEPT !.channels = @ \ {m.channel}]]
                   /\ firstTime' = firstTime
                   /\ toAntenna'[j] = q
<1> DEFINE m == Head(toUserlist[j])
           me == currentNick[j]
           q == toAntenna[j]
<1>0. HandleNext(j)
  BY DEF UserlistStep, UpdateSenderStatus, SetNick, HandleSetChannel, HandleLeaveChannel
<1>1. m \in Message /\ m.nick \in Nicks /\ q \in Seq(Message)
      /\ userList \in [Hosts -> [Nicks -> Status]]
      /\ firstTime \in [Hosts -> BOOLEAN]
  BY <1>0, HandleNextType, MessageFields DEF TypeOK, Pipes
<1>2. ASSUME UpdateSenderStatus(j)
      PROVE  /\ \A k \in Hosts \ {j} : /\ toAntenna'[k] = toAntenna[k]
                                      /\ userList'[k] = userList[k]
                                      /\ firstTime'[k] = firstTime[k]
             /\ m.kind \in Datagrams
             /\ userList'[j] = Updated(userList[j], me, m)
             /\ firstTime' = firstTime
             /\ IF /\ m.kind = "who_is_here"
                   /\ m.channel \in userList'[j][me].channels
                THEN toAntenna'[j] = Append(q, OnChannel("here", m.channel))
                ELSE toAntenna'[j] = q
  <2>1. /\ m.kind \in Datagrams /\ firstTime' = firstTime
        /\ userList' = [userList EXCEPT ![j] = Updated(@, me, m)]
        /\ Post(j, IF /\ m.kind = "who_is_here"
                      /\ m.channel \in userList'[j][me].channels
                   THEN <<OnChannel("here", m.channel)>> ELSE << >>)
    BY <1>2 DEF UpdateSenderStatus
  <2>2. /\ userList'[j] = Updated(userList[j], me, m)
        /\ \A k \in Hosts \ {j} : userList'[k] = userList[k]
    BY <1>1, <2>1
  <2>3. CASE m.kind = "who_is_here" /\ m.channel \in userList'[j][me].channels
    <3>1. OnChannel("here", m.channel) \in Message
      BY <1>1, <2>3, MessageFields, OnChannelType
    <3>2. Post(j, <<OnChannel("here", m.channel)>>)
      BY <2>1, <2>3
    <3>3. <<OnChannel("here", m.channel)>> \in Seq(Message)
      BY <3>1
    <3> QED
      BY <1>1, <2>1, <2>2, <2>3, <3>1, <3>2, <3>3, PostEffect, BehindOne
  <2>4. CASE ~(m.kind = "who_is_here" /\ m.channel \in userList'[j][me].channels)
    <3>1. Post(j, << >>)
      BY <2>1, <2>4
    <3>2. << >> \in Seq(Message)
      OBVIOUS
    <3> QED
      BY <1>1, <2>1, <2>2, <2>4, <3>1, <3>2, PostEffect, BehindOne
  <2> QED
    BY <2>3, <2>4
<1>3. ASSUME SetNick(j)
      PROVE  /\ \A k \in Hosts \ {j} : /\ toAntenna'[k] = toAntenna[k]
                                      /\ userList'[k] = userList[k]
                                      /\ firstTime'[k] = firstTime[k]
             /\ m.kind = "nick"
             /\ userList'[j] = userList[j]
             /\ firstTime'[j] = FALSE
             /\ LET s == IF firstTime[j]
                         THEN Append(q, OnChannel("set_channel", DefaultChannel))
                         ELSE q
                IN  toAntenna'[j] \in
                      {s, Append(s, About("changed_nick", NoChannel, m.nick))}
  <2> DEFINE a == OnChannel("set_channel", DefaultChannel)
             b == About("changed_nick", NoChannel, m.nick)
  <2>1. PICK r, s :
          /\ r \in {<<a>>, << >>} /\ (r = <<a>> <=> firstTime[j])
          /\ s \in {<<b>>, << >>}
          /\ Post(j, r \o s)
    <3> DEFINE taken == userList[j][m.nick].known /\ m.nick # DefaultNick
               r == IF firstTime[j] THEN <<a>> ELSE << >>
               s == IF taken THEN << >> ELSE <<b>>
    <3>1. Post(j, r \o s)
      BY <1>3 DEF SetNick
    <3>2. <<a>> # << >>
      OBVIOUS
    <3>3. r \in {<<a>>, << >>} /\ (r = <<a>> <=> firstTime[j]) /\ s \in {<<b>>, << >>}
      BY <1>1, <3>2
    <3> HIDE DEF r, s
    <3> QED
      BY <3>1, <3>3
  <2>2. a \in Message /\ b \in Message
    BY <1>1, OnChannelType, AboutType, PresenceAssumption
  <2>3. r \o s \in Seq(Message)
    <3>1. /\ <<a>> \in Seq(Message) /\ <<b>> \in Seq(Message) /\ << >> \in Seq(Message)
      BY <2>2
    <3> HIDE DEF a, b
    <3>2. r \in Seq(Message) /\ s \in Seq(Message)
      BY <2>1, <3>1
    <3> QED
      BY <3>2
  <2>4. /\ toAntenna'[j] = q \o (r \o s)
        /\ \A k \in Hosts \ {j} : toAntenna'[k] = toAntenna[k]
    BY <2>1, <2>3, PostEffect
  <2>5. LET t == IF firstTime[j] THEN Append(q, a) ELSE q
        IN  toAntenna'[j] \in {t, Append(t, b)}
    <3>1. <<a>> # << >>
      OBVIOUS
    <3>2. /\ q \o (<<a>> \o << >>) = Append(q, a)
          /\ q \o (<< >> \o <<b>>) = Append(q, b)
          /\ q \o (<< >> \o << >>) = q
          /\ q \o (<<a>> \o <<b>>) = Append(Append(q, a), b)
      BY <1>1, <2>2, BehindTwo
    <3> HIDE DEF a, b
    <3> QED
      BY <2>1, <2>4, <3>1, <3>2
  <2>6. m.kind = "nick" /\ userList' = userList
        /\ firstTime' = [firstTime EXCEPT ![j] = FALSE]
    BY <1>3 DEF SetNick
  <2> QED
    BY <1>1, <2>4, <2>5, <2>6
<1>4. ASSUME HandleSetChannel(j)
      PROVE  /\ \A k \in Hosts \ {j} : /\ toAntenna'[k] = toAntenna[k]
                                      /\ userList'[k] = userList[k]
                                      /\ firstTime'[k] = firstTime[k]
             /\ m.kind = "set_channel"
             /\ userList'[j] = [userList[j] EXCEPT ![me] = Entry(@)]
             /\ firstTime' = firstTime
             /\ toAntenna'[j] \in {q, Append(q, OnChannel("who_is_here", m.channel))}
  <2>1. /\ m.kind = "set_channel" /\ firstTime' = firstTime
        /\ userList' = [userList EXCEPT ![j][me] = Entry(@)]
        /\ \/ Post(j, << >>)
           \/ Post(j, <<OnChannel("who_is_here", m.channel)>>)
    BY <1>4 DEF HandleSetChannel
  <2>2. OnChannel("who_is_here", m.channel) \in Message
    BY <1>1, <2>1, MessageFields, OnChannelType
  <2>3. << >> \in Seq(Message) /\ <<OnChannel("who_is_here", m.channel)>> \in Seq(Message)
    BY <2>2
  <2>4. /\ \A k \in Hosts \ {j} : toAntenna'[k] = toAntenna[k]
        /\ toAntenna'[j] \in {q, Append(q, OnChannel("who_is_here", m.channel))}
    BY <1>1, <2>1, <2>2, <2>3, PostEffect, BehindOne
  <2> QED
    BY <1>1, <2>1, <2>4
<1>5. ASSUME HandleLeaveChannel(j)
      PROVE  /\ \A k \in Hosts \ {j} : /\ toAntenna'[k] = toAntenna[k]
                                      /\ userList'[k] = userList[k]
                                      /\ firstTime'[k] = firstTime[k]
             /\ m.kind = "leave_channel"
             /\ userList'[j] = [n \in Nicks |->
                   [userList[j][n] EXCEPT !.channels = @ \ {m.channel}]]
             /\ firstTime' = firstTime
             /\ toAntenna'[j] = q
  BY <1>1, <1>5 DEF HandleLeaveChannel
<1> QED
  BY <1>0, <1>2, <1>3, <1>4, <1>5 DEF UserlistStep

-------------------------------------------------------------------------------
(* Only datagrams arrive at a socket.                                      *)
SocketInv == \A h \in Hosts : \A i \in 1..Len(socket[h]) : socket[h][i].kind \in Datagrams

(* A host whose user has typed nothing has queues of that shape.           *)
TidyHost(h) ==
  /\ state[h] = "off" => firstTime[h] /\ antennaNick[h] = DefaultNick
  /\ state[h] = "on" /\ Silent(h) =>
       /\ QueueShape(toAntenna[h], firstTime[h], antennaNick[h])
       /\ ListShape(toUserlist[h], firstTime[h])
       /\ firstTime[h] => antennaNick[h] = DefaultNick

TidyInv == \A h \in Hosts : TidyHost(h)

(* Without a clash no two hosts that are on speak under the same nick.     *)
DifferInv == ~clash => \A h, k \in On : antennaNick[h] = antennaNick[k] => h = k

(* A socket holds datagrams when one is read, or arrives.                  *)
LEMMA SocketTail ==
  ASSUME NEW q \in Seq(Message), \A i \in 1..Len(q) : q[i].kind \in Datagrams
  PROVE  /\ q # << >> => /\ Head(q).kind \in Datagrams
                         /\ \A i \in 1..Len(Tail(q)) : Tail(q)[i].kind \in Datagrams
         /\ \A m \in Message : m.kind \in Datagrams =>
              \A i \in 1..Len(Append(q, m)) : Append(q, m)[i].kind \in Datagrams
<1>1. ASSUME q # << >>
      PROVE  /\ Head(q).kind \in Datagrams
             /\ \A i \in 1..Len(Tail(q)) : Tail(q)[i].kind \in Datagrams
  <2>0. PICK m \in Message : m = Head(q)
    BY <1>1
  <2>1. /\ 1 \in 1..Len(q) /\ Head(q) = q[1]
        /\ \A i \in 1..Len(Tail(q)) : i + 1 \in 1..Len(q) /\ Tail(q)[i] = q[i + 1]
    BY <1>1, <2>0, Places
  <2> QED
    BY <2>1
<1>2. ASSUME NEW m \in Message, m.kind \in Datagrams, NEW i \in 1..Len(Append(q, m))
      PROVE  Append(q, m)[i].kind \in Datagrams
  <2>1. \/ i \in 1..Len(q) /\ Append(q, m)[i] = q[i]
        \/ i = Len(q) + 1 /\ Append(q, m)[i] = m
    BY Places
  <2> QED
    BY <1>2, <2>1
<1> QED
  BY <1>1, <1>2

(* Host j takes the first message of its antenna and multicasts d.         *)
Sending(j, d) ==
  /\ state[j] = "on" /\ d \in Message /\ d.kind \in Datagrams /\ Multicast(j, d)
  /\ toAntenna[j] # << >> /\ toAntenna[j] \in Seq(Message) /\ Head(toAntenna[j]) \in Message
  /\ toAntenna'[j] = Tail(toAntenna[j])
  /\ UNCHANGED <<state, userList, firstTime, channelOps, nickOps>>
  /\ \A k \in Hosts \ {j} : /\ toAntenna'[k] = toAntenna[k]
                           /\ toUserlist'[k] = toUserlist[k]
                           /\ antennaNick'[k] = antennaNick[k]

(* A join is sent for set_channel, which goes on to the userlist.          *)
LEMMA JoinEffect ==
  ASSUME TypeOK, NEW j \in Hosts, SendJoin(j)
  PROVE  LET m == Head(toAntenna[j])
         IN  /\ m.kind = "set_channel"
             /\ Sending(j, About("join", m.channel, antennaNick[j]))
             /\ toUserlist'[j] = Append(toUserlist[j], m)
             /\ UNCHANGED <<antennaNick, clash>>
<1> DEFINE m == Head(toAntenna[j])
           d == About("join", m.channel, antennaNick[j])
<1>1. /\ toAntenna[j] # << >> /\ m \in Message /\ m.kind = "set_channel"
      /\ state[j] = "on" /\ Send(j, d)
      /\ toUserlist' = [toUserlist EXCEPT ![j] = Append(@, m)]
      /\ UNCHANGED <<state, userList, antennaNick, clash>>
  BY SendNextType DEF SendJoin, SendNext
<1>2. d \in Message /\ d.kind \in Datagrams
  BY <1>1, MessageFields, AboutType DEF TypeOK, About, Datagrams
<1> HIDE DEF d
<1>3. /\ toUserlist'[j] = Append(toUserlist[j], m)
      /\ \A k \in Hosts \ {j} : toUserlist'[k] = toUserlist[k]
  BY <1>1 DEF TypeOK, Pipes
<1>4. Sending(j, d)
  BY <1>1, <1>2, <1>3, SendEffect DEF Sending
<1> QED
  BY <1>1, <1>3, <1>4 DEF d

(* A left is sent for leave_channel, which goes on to the userlist.        *)
LEMMA LeftEffect ==
  ASSUME TypeOK, NEW j \in Hosts, SendLeft(j)
  PROVE  LET m == Head(toAntenna[j])
         IN  /\ m.kind = "leave_channel"
             /\ Sending(j, About("left", m.channel, antennaNick[j]))
             /\ toUserlist'[j] = Append(toUserlist[j], m)
             /\ UNCHANGED <<antennaNick, clash>>
<1> DEFINE m == Head(toAntenna[j])
           d == About("left", m.channel, antennaNick[j])
<1>1. /\ toAntenna[j] # << >> /\ m \in Message /\ m.kind = "leave_channel"
      /\ state[j] = "on" /\ Send(j, d)
      /\ toUserlist' = [toUserlist EXCEPT ![j] = Append(@, m)]
      /\ UNCHANGED <<state, userList, antennaNick, clash>>
  BY SendNextType DEF SendLeft, SendNext
<1>2. d \in Message /\ d.kind \in Datagrams
  BY <1>1, MessageFields, AboutType DEF TypeOK, About, Datagrams
<1> HIDE DEF d
<1>3. /\ toUserlist'[j] = Append(toUserlist[j], m)
      /\ \A k \in Hosts \ {j} : toUserlist'[k] = toUserlist[k]
  BY <1>1 DEF TypeOK, Pipes
<1>4. Sending(j, d)
  BY <1>1, <1>2, <1>3, SendEffect DEF Sending
<1> QED
  BY <1>1, <1>3, <1>4 DEF d

(* A change of nick is sent, and the antenna changes its own.              *)
LEMMA NickEffect ==
  ASSUME TypeOK, NEW j \in Hosts, SendNick(j)
  PROVE  LET m == Head(toAntenna[j])
         IN  /\ m.kind = "changed_nick" /\ m.nick \in Nicks
             /\ Sending(j, About("nick_change", antennaNick[j], m.nick))
             /\ antennaNick'[j] = m.nick
             /\ UNCHANGED toUserlist
             /\ clash' = (clash \/ \E k \in On \ {j} : antennaNick[k] = m.nick)
<1> DEFINE m == Head(toAntenna[j])
           d == About("nick_change", antennaNick[j], m.nick)
<1>1. /\ toAntenna[j] # << >> /\ m \in Message /\ m.kind = "changed_nick"
      /\ state[j] = "on" /\ Send(j, d)
      /\ antennaNick' = [antennaNick EXCEPT ![j] = m.nick]
      /\ UNCHANGED <<state, userList, toUserlist>>
      /\ clash' = (clash \/ \E k \in On \ {j} : antennaNick[k] = m.nick)
  BY SendNextType DEF SendNick, SendNext
<1>2. d \in Message /\ d.kind \in Datagrams /\ m.nick \in Nicks
  BY <1>1, MessageFields, AboutType DEF TypeOK, About, Datagrams
<1> HIDE DEF d
<1>3. /\ antennaNick'[j] = m.nick
      /\ \A k \in Hosts \ {j} : antennaNick'[k] = antennaNick[k]
  BY <1>1 DEF TypeOK
<1>4. Sending(j, d)
  BY <1>1, <1>2, <1>3, SendEffect DEF Sending
<1> QED
  BY <1>1, <1>2, <1>3, <1>4 DEF d

(* The plain messages are sent as they are.                                *)
LEMMA PlainEffect ==
  ASSUME TypeOK, NEW j \in Hosts, SendPlain(j)
  PROVE  LET m == Head(toAntenna[j])
         IN  /\ m.kind \in {"here", "who_is_here", "edict"}
             /\ Sending(j, About(m.kind, m.channel, antennaNick[j]))
             /\ UNCHANGED <<toUserlist, antennaNick, clash>>
<1> DEFINE m == Head(toAntenna[j])
           d == About(m.kind, m.channel, antennaNick[j])
<1>1. /\ toAntenna[j] # << >> /\ m \in Message
      /\ m.kind \in {"here", "who_is_here", "edict"}
      /\ state[j] = "on" /\ Send(j, d)
      /\ UNCHANGED <<state, userList, toUserlist, antennaNick, clash>>
  BY SendNextType DEF SendPlain, SendNext, history
<1>2. d \in Message /\ d.kind \in Datagrams
  BY <1>1, MessageFields, AboutType DEF TypeOK, About, Datagrams
<1> HIDE DEF d
<1>3. Sending(j, d)
  BY <1>1, <1>2, SendEffect DEF Sending
<1> QED
  BY <1>1, <1>3 DEF d

(* The sign of life.                                                       *)
LEMMA AutoEffect ==
  ASSUME TypeOK, NEW j \in Hosts, SendAuto(j)
  PROVE  /\ state[j] = "on" /\ idle[j] > KeepAlive
         /\ About("auto", NoChannel, antennaNick[j]) \in Message
         /\ Multicast(j, About("auto", NoChannel, antennaNick[j]))
         /\ UNCHANGED <<state, toAntenna, toUserlist, antennaNick, userList>>
         /\ UNCHANGED <<currentNick, firstTime, channelOps, nickOps, clash>>
BY AboutType DEF SendAuto, history, TypeOK

(* No step puts anything but datagrams into a socket.                      *)
LEMMA SocketsKept ==
  ASSUME TypeOK, SocketInv, [Next]_vars
  PROVE  SocketInv'
<1>0. \A k \in Hosts : socket[k] \in Seq(Message)
  BY DEF TypeOK, Pipes
<1>1. ASSUME NEW d \in Message, d.kind \in Datagrams,
             \A k \in Hosts : socket'[k] \in {socket[k], Append(socket[k], d), << >>}
      PROVE  SocketInv'
  <2> SUFFICES ASSUME NEW k \in Hosts
               PROVE  \A i \in 1..Len(socket'[k]) : socket'[k][i].kind \in Datagrams
    BY DEF SocketInv
  <2>1. \A i \in 1..Len(socket[k]) : socket[k][i].kind \in Datagrams
    BY DEF SocketInv
  <2>2. \A i \in 1..Len(Append(socket[k], d)) :
          Append(socket[k], d)[i].kind \in Datagrams
    BY <1>0, <1>1, <2>1, SocketTail
  <2>3. \A i \in 1..Len(<< >>) : << >>[i].kind \in Datagrams
    OBVIOUS
  <2> QED
    BY <1>1, <2>1, <2>2, <2>3
<1>2. ASSUME socket' = socket PROVE SocketInv'
  BY <1>2 DEF SocketInv
<1>3. ASSUME NEW j \in Hosts, NEW d, Sending(j, d) PROVE SocketInv'
  <2>1. d \in Message /\ d.kind \in Datagrams /\ Multicast(j, d)
    BY <1>3 DEF Sending
  <2> QED
    BY <1>1, <2>1, MulticastEffect
<1>4. ASSUME NEW j \in Hosts, AntennaStep(j) PROVE SocketInv'
  <2>1. CASE SendJoin(j) \/ SendLeft(j) \/ SendNick(j) \/ SendPlain(j)
    BY <1>3, <2>1, JoinEffect, LeftEffect, NickEffect, PlainEffect
  <2>2. CASE SendAuto(j)
    <3>1. About("auto", NoChannel, antennaNick[j]).kind \in Datagrams
      BY DEF About, Datagrams
    <3> QED
      BY <1>1, <2>2, <3>1, AutoEffect, MulticastEffect
  <2>3. CASE SendGoodbye(j)
    <3> DEFINE d == About("left", NoChannel, antennaNick[j])
    <3>1. d \in Message /\ d.kind \in Datagrams
      BY AboutType DEF TypeOK, About, Datagrams
    <3>2. \A k \in Hosts : socket'[k] \in {socket[k], Append(socket[k], d), << >>}
      BY <2>3 DEF SendGoodbye
    <3> HIDE DEF d
    <3> QED
      BY <1>1, <3>1, <3>2
  <2>4. CASE Receive(j)
    <3> SUFFICES ASSUME NEW k \in Hosts
                 PROVE  \A i \in 1..Len(socket'[k]) : socket'[k][i].kind \in Datagrams
      BY DEF SocketInv
    <3>1. \A i \in 1..Len(socket[k]) : socket[k][i].kind \in Datagrams
      BY DEF SocketInv
    <3>2. socket'[k] = socket[k] \/ (socket[k] # << >> /\ socket'[k] = Tail(socket[k]))
      BY <2>4, ReceiveEffect
    <3> QED
      BY <1>0, <3>1, <3>2, SocketTail
  <2> QED
    BY <1>4, <2>1, <2>2, <2>3, <2>4 DEF AntennaStep
<1>5. ASSUME NEW j \in Hosts, UserlistStep(j) \/ Expire(j) \/ UserStep(j)
      PROVE  SocketInv'
  <2>1. UserlistStep(j) => socket' = socket
    BY UserlistEffect, HandleEffect
  <2>2. Expire(j) \/ UserStep(j) => socket' = socket
    BY DEF Expire, pipes, UserStep, Start, UseChannel, ChangeNick, Quit, UserActs
  <2> QED
    BY <1>2, <1>5, <2>1, <2>2
<1>6. Tick \/ UNCHANGED vars => socket' = socket
  BY DEF Tick, vars, pipes
<1> QED
  BY <1>2, <1>4, <1>5, <1>6 DEF Next

(* A step that leaves a host alone keeps its queues in shape.              *)
LEMMA TidyOther ==
  ASSUME NEW k \in Hosts, TidyHost(k), HostKept(k)
  PROVE  TidyHost(k)'
BY DEF TidyHost, HostKept, Silent

(* Sending keeps the queue of the antenna in shape.                        *)
LEMMA TidySend ==
  ASSUME TypeOK, TidyInv, NEW j \in Hosts, NEW d, Sending(j, d)
  PROVE  /\ Silent(j) => QueueShape(toAntenna'[j], firstTime'[j], antennaNick[j])
         /\ Silent(j)' => Silent(j)
         /\ firstTime'[j] = firstTime[j]
         /\ \A k \in Hosts \ {j} : TidyHost(k)'
<1>1. /\ state[j] = "on" /\ toAntenna[j] # << >> /\ toAntenna[j] \in Seq(Message)
      /\ toAntenna'[j] = Tail(toAntenna[j])
      /\ UNCHANGED <<state, firstTime, channelOps, nickOps>>
  BY DEF Sending
<1>2. Silent(j) => QueueShape(toAntenna[j], firstTime[j], antennaNick[j])
  BY <1>1 DEF TidyInv, TidyHost
<1>3. \A k \in Hosts \ {j} : HostKept(k)
  BY DEF Sending, HostKept
<1>4. Silent(j)' => Silent(j)
  BY <1>1 DEF Silent
<1> QED
  BY <1>1, <1>2, <1>3, <1>4, ShapeTail, TidyOther DEF TidyInv

(* The steps of the antenna keep the queues in shape.                      *)
LEMMA TidyAntenna ==
  ASSUME TypeOK, TidyInv, SocketInv, NEW j \in Hosts, AntennaStep(j)
  PROVE  TidyInv'
<1> DEFINE m == Head(toAntenna[j])
           q == toAntenna[j]
<1>0. /\ toUserlist[j] \in Seq(Message) /\ socket[j] \in Seq(Message)
      /\ q \in Seq(Message) /\ TidyHost(j)
  BY DEF TypeOK, Pipes, TidyInv
<1>1. CASE SendJoin(j) \/ SendLeft(j)
  <2>1. PICK d : Sending(j, d)
    BY <1>1, JoinEffect, LeftEffect
  <2>2. /\ m.kind \in {"set_channel", "leave_channel"}
        /\ toUserlist'[j] = Append(toUserlist[j], m) /\ antennaNick' = antennaNick
    BY <1>1, JoinEffect, LeftEffect
  <2>3. m \in Message /\ state[j] = "on" /\ state' = state
    BY <2>1 DEF Sending
  <2>4. Silent(j) => ListShape(Append(toUserlist[j], m), firstTime[j])
    <3>1. Silent(j) => ListShape(toUserlist[j], firstTime[j])
      BY <1>0, <2>3 DEF TidyHost
    <3> HIDE DEF m
    <3> QED
      BY <1>0, <2>2, <2>3, <3>1, ListBehind
  <2>5. TidyHost(j)'
    <3> HIDE DEF m
    <3> QED
      BY <1>0, <2>1, <2>2, <2>3, <2>4, TidySend DEF TidyHost
  <2> QED
    BY <2>1, <2>5, TidySend DEF TidyInv
<1>2. CASE SendNick(j)
  <2>1. PICK d : Sending(j, d)
    BY <1>2, NickEffect
  <2>2. /\ m.kind = "changed_nick" /\ antennaNick'[j] = m.nick /\ toUserlist' = toUserlist
    BY <1>2, NickEffect
  <2>3. /\ state[j] = "on" /\ state' = state /\ q # << >> /\ toAntenna'[j] = Tail(q)
        /\ Tail(q) \in Seq(Message) /\ firstTime' = firstTime
    BY <1>0, <2>1 DEF Sending
  <2>4. Silent(j) => /\ QueueShape(q, firstTime[j], antennaNick[j])
                     /\ ListShape(toUserlist[j], firstTime[j])
    BY <1>0, <2>3 DEF TidyHost
  <2>5. Silent(j) => /\ ~HasKind(Tail(q), "changed_nick") /\ ~firstTime[j]
                     /\ QueueShape(Tail(q), firstTime[j], antennaNick[j])
    BY <1>0, <2>2, <2>3, <2>4, ShapeAlone, ShapeTail
  <2>6. Silent(j) => QueueShape(Tail(q), firstTime[j], m.nick)
    BY <2>3, <2>5, ShapeFree
  <2>7. TidyHost(j)'
    <3> HIDE DEF m
    <3> QED
      BY <1>0, <2>1, <2>2, <2>3, <2>4, <2>5, <2>6, TidySend DEF TidyHost
  <2> QED
    BY <2>1, <2>7, TidySend DEF TidyInv
<1>3. CASE SendPlain(j)
  <2>1. PICK d : Sending(j, d)
    BY <1>3, PlainEffect
  <2>2. antennaNick' = antennaNick /\ toUserlist' = toUserlist
    BY <1>3, PlainEffect
  <2>3. state[j] = "on" /\ state' = state
    BY <2>1 DEF Sending
  <2>4. TidyHost(j)'
    BY <1>0, <2>1, <2>2, <2>3, TidySend DEF TidyHost
  <2> QED
    BY <2>1, <2>4, TidySend DEF TidyInv
<1>4. CASE SendGoodbye(j)
  <2>1. /\ state'[j] = "left"
        /\ \A k \in Hosts \ {j} : HostKept(k)
    BY <1>4 DEF SendGoodbye, HostKept, TypeOK, Pipes
  <2>2. TidyHost(j)'
    BY <2>1 DEF TidyHost
  <2> QED
    BY <2>1, <2>2, TidyOther DEF TidyInv
<1>5. CASE SendAuto(j)
  <2>1. \A k \in Hosts : HostKept(k)
    BY <1>5, AutoEffect DEF HostKept
  <2> QED
    BY <2>1, TidyOther DEF TidyInv
<1>6. CASE Receive(j)
  <2> DEFINE r == Head(socket[j])
  <2>1. /\ state[j] = "on" /\ socket[j] # << >>
        /\ toUserlist'[j] = Append(toUserlist[j], r)
        /\ \A k \in Hosts \ {j} : toUserlist'[k] = toUserlist[k]
        /\ UNCHANGED <<state, toAntenna, antennaNick, firstTime, channelOps, nickOps>>
    BY <1>6, ReceiveEffect DEF Receive
  <2>2. r \in Message /\ r.kind \in Datagrams
    BY <1>0, <2>1, SocketTail DEF SocketInv
  <2>3. \A k \in Hosts \ {j} : HostKept(k)
    BY <2>1 DEF HostKept
  <2> HIDE DEF r
  <2>4. \A first : ListShape(toUserlist[j], first) => ListShape(toUserlist'[j], first)
    BY <1>0, <2>1, <2>2, ListBehind DEF Datagrams
  <2>5. TidyHost(j)'
    BY <1>0, <2>1, <2>4 DEF TidyHost, Silent
  <2> QED
    BY <2>3, <2>5, TidyOther DEF TidyInv
<1> QED
  BY <1>1, <1>2, <1>3, <1>4, <1>5, <1>6 DEF AntennaStep

(* The steps of the userlist keep the queues in shape.                     *)
LEMMA TidyUserlist ==
  ASSUME TypeOK, TidyInv, NEW j \in Hosts, UserlistStep(j)
  PROVE  TidyInv'
<1> DEFINE m == Head(toUserlist[j])
           u == toUserlist[j]
           q == toAntenna[j]
<1>1. /\ state[j] = "on" /\ u # << >> /\ u \in Seq(Message) /\ m \in Message
      /\ toUserlist'[j] = Tail(u) /\ q \in Seq(Message) /\ m.nick \in Nicks
      /\ \A k \in Hosts \ {j} : toUserlist'[k] = toUserlist[k]
      /\ UNCHANGED <<state, antennaNick, channelOps, nickOps>>
  BY UserlistEffect, HandleEffect, MessageFields DEF TypeOK, Pipes
<1>2. \A k \in Hosts \ {j} : TidyHost(k)'
  BY <1>1, UserlistEffect, TidyOther DEF HostKept, TidyInv
<1>3. Silent(j)' => /\ Silent(j)
                    /\ QueueShape(q, firstTime[j], antennaNick[j])
                    /\ ListShape(u, firstTime[j])
                    /\ (firstTime[j] => antennaNick[j] = DefaultNick)
  BY <1>1 DEF TidyInv, TidyHost, Silent
<1>4. /\ OnChannel("set_channel", DefaultChannel) \in Message
      /\ About("changed_nick", NoChannel, m.nick) \in Message
  BY <1>1, AboutType, OnChannelType, PresenceAssumption
<1>5. ASSUME Silent(j)', firstTime'[j] = firstTime[j],
             \/ toAntenna'[j] = q
             \/ \E r \in Message : /\ r.kind \in {"here", "who_is_here"}
                                   /\ toAntenna'[j] = Append(q, r)
      PROVE  TidyHost(j)'
  <2>1. QueueShape(toAntenna'[j], firstTime[j], antennaNick[j])
    BY <1>1, <1>3, <1>5, ShapeBehind
  <2>2. ListShape(Tail(u), firstTime[j])
    BY <1>1, <1>3, <1>5, ListTail
  <2> HIDE DEF u
  <2> QED
    BY <1>1, <1>3, <1>5, <2>1, <2>2 DEF TidyHost
<1>6. ASSUME Silent(j)', m.kind = "nick" PROVE TidyHost(j)'
  <2> DEFINE a == OnChannel("set_channel", DefaultChannel)
             b == About("changed_nick", NoChannel, m.nick)
  <2>0. ListShape(u, firstTime[j]) /\ Head(u).kind = "nick"
    BY <1>3, <1>6
  <2>1. firstTime[j] /\ ListShape(Tail(u), FALSE) /\ antennaNick[j] = DefaultNick
    <3>1. firstTime[j] /\ ListShape(Tail(u), FALSE)
      <4> HIDE DEF u
      <4> QED
        BY <1>1, <2>0, ListTail
    <3> QED
      BY <1>3, <1>6, <3>1
  <2>2. firstTime'[j] = FALSE /\ toAntenna'[j] \in {Append(q, a), Append(Append(q, a), b)}
    BY <1>6, <2>1, UserlistEffect DEF Datagrams
  <2>3. ~HasKind(q, "changed_nick")
    BY <1>1, <1>3, <1>6, <2>1, ShapeFree
  <2>4. a.kind = "set_channel" /\ a.channel = DefaultChannel /\ b.kind = "changed_nick"
    BY DEF OnChannel, About
  <2> HIDE DEF a, b
  <2>5. a \in Message /\ b \in Message /\ Append(q, a) \in Seq(Message)
    BY <1>1, <1>4 DEF a, b
  <2>6. QueueShape(Append(q, a), FALSE, DefaultNick)
    BY <1>1, <1>3, <1>6, <2>3, <2>4, <2>5, ShapeNew
  <2>7. ~HasKind(Append(q, a), "changed_nick")
    BY <1>1, <2>3, <2>4, <2>5, KindBehind
  <2>8. QueueShape(Append(Append(q, a), b), FALSE, DefaultNick)
    BY <2>4, <2>5, <2>6, <2>7, ShapeNew
  <2> HIDE DEF u, q
  <2> QED
    BY <1>1, <2>1, <2>2, <2>6, <2>8 DEF TidyHost
<1>7. ASSUME Silent(j)', m.kind # "nick" PROVE TidyHost(j)'
  <2>1. \A k \in {"here", "who_is_here"} : OnChannel(k, m.channel).kind = k
    BY DEF OnChannel, About
  <2>2. m.channel \in Channels => \A k \in {"here", "who_is_here"} : OnChannel(k, m.channel) \in Message
    BY OnChannelType
  <2>3. m.kind \in {"set_channel", "who_is_here"} => m.channel \in Channels
    BY <1>1, MessageFields
  <2>4. firstTime'[j] = firstTime[j]
    BY <1>7, UserlistEffect
  <2>5. \/ toAntenna'[j] = q
        \/ /\ m.kind \in {"set_channel", "who_is_here"}
           /\ \E k \in {"here", "who_is_here"} : toAntenna'[j] = Append(q, OnChannel(k, m.channel))
    BY <1>7, UserlistEffect
  <2> QED
    BY <1>5, <1>7, <2>1, <2>2, <2>3, <2>4, <2>5
<1>8. ~Silent(j)' => TidyHost(j)'
  BY <1>1 DEF TidyHost
<1> QED
  BY <1>2, <1>6, <1>7, <1>8 DEF TidyInv

(* The acts of the users keep the queues in shape.                         *)
LEMMA TidyUser ==
  ASSUME TypeOK, TidyInv, NEW j \in Hosts, UserStep(j)
  PROVE  TidyInv'
<1>0. /\ toAntenna[j] \in Seq(Message) /\ toUserlist[j] \in Seq(Message)
      /\ channelOps[j] \in Nat /\ nickOps[j] \in Nat /\ TidyHost(j)
  BY PresenceAssumption DEF TypeOK, Pipes, TidyInv
<1>1. \A k \in Hosts \ {j} : TidyHost(k)'
  <2>1. \A k \in Hosts \ {j} : HostKept(k)
    BY DEF UserStep, Start, UseChannel, ChangeNick, Quit, UserActs, HostKept, TypeOK, Pipes
  <2> QED
    BY <2>1, TidyOther DEF TidyInv
<1>2. CASE Start(j)
  <2> DEFINE a == OnChannel("who_is_here", DefaultChannel)
             b == About("nick", NoChannel, Preferred[j])
  <2>1. /\ state[j] = "off" /\ state'[j] = "on"
        /\ toAntenna'[j] = <<a>> /\ toUserlist'[j] = <<b>>
        /\ UNCHANGED <<antennaNick, firstTime>>
    BY <1>2 DEF Start, TypeOK, Pipes
  <2>2. firstTime[j] /\ antennaNick[j] = DefaultNick
    BY <1>0, <2>1 DEF TidyHost
  <2>3. a.kind = "who_is_here"
    BY DEF OnChannel, About
  <2> HIDE DEF a, b
  <2>4. QueueShape(<<a>>, firstTime[j], antennaNick[j])
    BY <2>3 DEF QueueShape
  <2>5. ListShape(<<b>>, firstTime[j])
    BY <2>2 DEF ListShape
  <2>6. TidyHost(j)'
    BY <2>1, <2>2, <2>4, <2>5 DEF TidyHost
  <2> QED
    BY <1>1, <2>6 DEF TidyInv
<1>3. CASE \/ \E c \in Channels, kind \in {"set_channel", "leave_channel", "edict"} :
                UseChannel(j, kind, c)
           \/ \E n \in Nicks : ChangeNick(j, n)
  <2>1. channelOps'[j] = channelOps[j] + 1 \/ nickOps'[j] = nickOps[j] + 1
    BY <1>3 DEF UseChannel, ChangeNick, TypeOK
  <2>2. ~Silent(j)' /\ state'[j] = state[j] /\ state[j] = "on"
    <3>1. state'[j] = state[j] /\ state[j] = "on"
      BY <1>3 DEF UseChannel, ChangeNick, UserActs
    <3>2. channelOps'[j] # 0 \/ nickOps'[j] # 0
      BY <1>0, <2>1
    <3> QED
      BY <3>1, <3>2 DEF Silent
  <2>3. TidyHost(j)'
    BY <2>2 DEF TidyHost
  <2> QED
    BY <1>1, <2>3 DEF TidyInv
<1>4. CASE Quit(j)
  <2> DEFINE a == OnChannel("shutdown", NoChannel)
  <2>1. a \in Message /\ a.kind = "shutdown"
    BY OnChannelType DEF OnChannel, About
  <2> HIDE DEF a
  <2>2. /\ toAntenna'[j] = Append(toAntenna[j], a)
        /\ toUserlist'[j] = Append(toUserlist[j], a)
        /\ UNCHANGED <<state, antennaNick, firstTime, channelOps, nickOps>>
    <3>1. /\ toAntenna'[j] = toAntenna[j] \o <<a>>
          /\ toUserlist'[j] = toUserlist[j] \o <<a>>
          /\ UNCHANGED <<state, antennaNick, firstTime, channelOps, nickOps>>
      BY <1>4 DEF Quit, UserActs, TypeOK, Pipes, a
    <3> QED
      BY <1>0, <2>1, <3>1, BehindOne
  <2>3. \A first, nick :
          /\ QueueShape(toAntenna[j], first, nick) => QueueShape(toAntenna'[j], first, nick)
          /\ ListShape(toUserlist[j], first) => ListShape(toUserlist'[j], first)
    BY <1>0, <2>1, <2>2, ShapeBehind, ListBehind
  <2>4. TidyHost(j)'
    BY <1>0, <2>2, <2>3 DEF TidyHost, Silent
  <2> QED
    BY <1>1, <2>4 DEF TidyInv
<1> QED
  BY <1>2, <1>3, <1>4 DEF UserStep

(* Every step keeps the queues in shape.                                   *)
LEMMA TidyStep ==
  ASSUME TypeOK, TidyInv, SocketInv, [Next]_vars
  PROVE  TidyInv'
<1>1. CASE Tick \/ (\E h \in Hosts : Expire(h)) \/ UNCHANGED vars
  <2>1. \A k \in Hosts : HostKept(k)
    BY <1>1 DEF Tick, Expire, vars, pipes, HostKept
  <2> QED
    BY <2>1, TidyOther DEF TidyInv
<1> QED
  BY <1>1, TidyAntenna, TidyUserlist, TidyUser DEF Next

(* Without a clash no two hosts that are on speak under the same nick.     *)
LEMMA DifferStep ==
  ASSUME TypeOK, DifferInv, [Next]_vars
  PROVE  DifferInv'
<1> SUFFICES ASSUME ~clash', NEW h \in On', NEW k \in On', antennaNick'[h] = antennaNick'[k]
             PROVE  h = k
  BY DEF DifferInv
<1>1. ASSUME NEW j \in Hosts, Start(j) PROVE h = k
  <2>1. /\ state' = [state EXCEPT ![j] = "on"] /\ antennaNick' = antennaNick
        /\ ~clash /\ \A i \in On : antennaNick[i] # antennaNick[j]
    BY <1>1 DEF Start
  <2>2. \A i \in On' : i = j \/ i \in On
    BY <2>1 DEF On, TypeOK
  <2> QED
    BY <2>1, <2>2 DEF DifferInv
<1>2. ASSUME NEW j \in Hosts, SendNick(j) PROVE h = k
  <2>1. /\ state' = state /\ ~clash
        /\ \A i \in On \ {j} : antennaNick[i] # antennaNick'[j]
        /\ \A i \in Hosts \ {j} : antennaNick'[i] = antennaNick[i]
    BY <1>2, NickEffect DEF Sending
  <2>2. On' = On
    BY <2>1 DEF On
  <2> QED
    BY <2>1, <2>2 DEF DifferInv, On
<1>3. ASSUME On' \subseteq On, antennaNick' = antennaNick, clash' = clash PROVE h = k
  BY <1>3 DEF DifferInv
<1>4. ASSUME NEW j \in Hosts, AntennaStep(j) PROVE h = k
  <2>1. CASE SendJoin(j) \/ SendLeft(j) \/ SendPlain(j) \/ SendAuto(j) \/ Receive(j)
    <3>1. UNCHANGED <<state, antennaNick, clash>>
      BY <2>1, JoinEffect, LeftEffect, PlainEffect, AutoEffect DEF Sending, Receive, history
    <3> QED
      BY <1>3, <3>1 DEF On
  <2>2. CASE SendGoodbye(j)
    <3>1. On' \subseteq On
      BY <2>2 DEF SendGoodbye, On, TypeOK
    <3>2. UNCHANGED <<antennaNick, clash>>
      BY <2>2 DEF SendGoodbye
    <3> QED
      BY <1>3, <3>1, <3>2
  <2> QED
    BY <1>2, <1>4, <2>1, <2>2 DEF AntennaStep
<1>5. ASSUME NEW j \in Hosts, UserlistStep(j) PROVE h = k
  <2>1. UNCHANGED <<state, antennaNick, clash>>
    BY <1>5, UserlistEffect, HandleEffect
  <2> QED
    BY <1>3, <2>1 DEF On
<1>6. ASSUME NEW j \in Hosts, UserStep(j) PROVE h = k
  <2>1. UNCHANGED <<state, antennaNick, clash>> \/ Start(j)
    BY <1>6 DEF UserStep, UseChannel, ChangeNick, Quit, UserActs, history
  <2> QED
    BY <1>1, <1>3, <2>1 DEF On
<1>7. CASE Tick \/ (\E j \in Hosts : Expire(j)) \/ UNCHANGED vars
  <2>1. UNCHANGED <<state, antennaNick, clash>>
    BY <1>7 DEF Tick, Expire, vars, pipes, history
  <2> QED
    BY <1>3, <2>1 DEF On
<1> QED
  BY <1>4, <1>5, <1>6, <1>7 DEF Next

-------------------------------------------------------------------------------
(* Host k will have heard of host h no longer ago than h has been idle;    *)
(* host h will be in the default channel in its own list; host h will      *)
(* answer a question for the members of that channel.                      *)
Told(h, k) ==
  Will(Heard, userList[k], toUserlist[k], socket[k], idle[h], Fact("fresh", antennaNick[h]))
Belongs(h) ==
  Will(Joined, userList[h], toUserlist[h], socket[h], 0, Fact("member", antennaNick[h]))
Answers(h) ==
  Will(AnsweredAs(antennaNick[h]), userList[h], toUserlist[h], socket[h], 0,
       Fact("answer", antennaNick[h]))

(* Host k knows of host h, or something under way will tell it.            *)
InTouch(h, k) ==
  \/ Speaks(toAntenna[h])
  \/ Told(h, k)
  \/ /\ ~HasKind(toAntenna[h], "changed_nick")
     /\ Answers(h) \/ (Asks(toAntenna[k]) /\ Belongs(h))

(* A host that has joined is in its own list when the join has been sent,  *)
(* speaks up before it changes its nick, and is in touch with everybody.   *)
TouchHost(h) ==
  ~firstTime[h] =>
    /\ ~HasKind(toAntenna[h], "set_channel") =>
         /\ Belongs(h)
         /\ HasKind(toAntenna[h], "changed_nick") =>
              idle[h] = 0 /\ \A k \in On : Told(h, k)
    /\ \A k \in On : InTouch(h, k)

TouchInv == ~clash /\ lost = 0 => \A h \in On : Silent(h) => TouchHost(h)

(* A step that takes nothing away keeps a host in touch.                   *)
LEMMA TouchKept ==
  ASSUME NEW h, TouchHost(h), On' \subseteq On, firstTime'[h] = firstTime[h],
         idle'[h] = idle[h],
         HasKind(toAntenna[h], "set_channel") => HasKind(toAntenna'[h], "set_channel"),
         HasKind(toAntenna[h], "changed_nick") <=> HasKind(toAntenna'[h], "changed_nick"),
         Speaks(toAntenna[h]) => Speaks(toAntenna'[h]),
         \A k \in On' : Told(h, k) => Told(h, k)',
         Belongs(h) => Belongs(h)',
         Answers(h) => Answers(h)' \/ HasKind(toAntenna[h], "changed_nick")
                                   \/ Speaks(toAntenna'[h]),
         \A k \in On' : Asks(toAntenna[k]) /\ Belongs(h)
                          => Asks(toAntenna'[k]) \/ Answers(h)'
  PROVE  TouchHost(h)'
<1> SUFFICES ASSUME ~firstTime[h]
             PROVE  /\ ~HasKind(toAntenna'[h], "set_channel") =>
                         /\ Belongs(h)'
                         /\ HasKind(toAntenna'[h], "changed_nick") =>
                              idle'[h] = 0 /\ \A k \in On' : Told(h, k)'
                    /\ \A k \in On' : InTouch(h, k)'
  BY DEF TouchHost
<1>1. ASSUME ~HasKind(toAntenna'[h], "set_channel")
      PROVE  /\ Belongs(h)'
             /\ HasKind(toAntenna'[h], "changed_nick") =>
                  idle'[h] = 0 /\ \A k \in On' : Told(h, k)'
  BY <1>1 DEF TouchHost
<1>2. ASSUME NEW k \in On' PROVE InTouch(h, k)'
  <2>1. InTouch(h, k) /\ (Told(h, k) => Told(h, k)')
        /\ (Asks(toAntenna[k]) /\ Belongs(h) => Asks(toAntenna'[k]) \/ Answers(h)')
    BY <1>2 DEF TouchHost
  <2> QED
    BY <2>1 DEF InTouch
<1> QED
  BY <1>1, <1>2

(* Who has just said something is in touch with everybody.                 *)
LEMMA TouchVoice ==
  ASSUME NEW h, \A k \in On' : Told(h, k)', idle'[h] = 0,
         ~firstTime'[h] /\ ~HasKind(toAntenna'[h], "set_channel") => Belongs(h)'
  PROVE  TouchHost(h)'
BY DEF TouchHost, InTouch

(* Messages that are not about anybody in a list disturb no fact.          *)
LEMMA Neutral ==
  ASSUME NEW m, NEW n
  PROVE  /\ m.kind \in {"nick", "set_channel", "shutdown"} =>
              /\ \A c \in Heard : Derives(c, m, c)
              /\ \A c \in Joined : Derives(c, m, c)
              /\ \A c \in AnsweredAs(n) : Derives(c, m, c)
         /\ m.kind = "leave_channel" => \A c \in Heard : Derives(c, m, c)
BY DEF Heard, Joined, AnsweredAs, Fact, Derives, Spoils, Parts

(* The facts about a nick.                                                 *)
LEMMA FactSets ==
  ASSUME NEW n \in Nicks
  PROVE  /\ Fact("fresh", n) \in Heard /\ Fact("any", n) \in Heard
         /\ Fact("member", n) \in Joined /\ Fact("any", n) \in Joined
         /\ Joined \subseteq AnsweredAs(n) /\ Fact("answer", n) \in AnsweredAs(n)
         /\ \A w : Fact(w, n).what = w /\ Fact(w, n).nick = n
BY DEF Heard, Joined, AnsweredAs, Fact

(* Datagram d is behind what waits for the userlist of host k; its antenna *)
(* may have told it about a channel.                                       *)
Hears(k, d) ==
  /\ socket'[k] = Append(socket[k], d) /\ userList'[k] = userList[k]
  /\ \/ toUserlist'[k] = toUserlist[k]
     \/ \E m \in Message : /\ m.kind \in {"set_channel", "leave_channel"}
                           /\ toUserlist'[k] = Append(toUserlist[k], m)

(* What a datagram does to what a host will have heard.                    *)
LEMMA HearsFresh ==
  ASSUME TypeOK, NEW k \in Hosts, NEW d \in Message, Hears(k, d), NEW n \in Nicks, NEW t
  PROVE  /\ Tells(d, n) =>
              Will(Heard, userList'[k], toUserlist'[k], socket'[k], t, Fact("fresh", n))
         /\ ~Spoils(d, n)
              /\ Will(Heard, userList[k], toUserlist[k], socket[k], t, Fact("fresh", n))
              => Will(Heard, userList'[k], toUserlist'[k], socket'[k], t, Fact("fresh", n))
         /\ d.kind = "nick_change" /\ d.nick = n
              /\ Will(Heard, userList[k], toUserlist[k], socket[k], t, Fact("fresh", d.channel))
              => Will(Heard, userList'[k], toUserlist'[k], socket'[k], t, Fact("fresh", n))
<1>0. toUserlist[k] \in Seq(Message) /\ socket[k] \in Seq(Message)
  BY DEF TypeOK, Pipes
<1>1. ASSUME NEW b, Will(Heard, userList[k], toUserlist[k], socket[k], t, b),
             Derives(b, d, Fact("fresh", n))
      PROVE  Will(Heard, userList'[k], toUserlist'[k], socket'[k], t, Fact("fresh", n))
  <2>1. Will(Heard, userList[k], toUserlist[k], Append(socket[k], d), t, Fact("fresh", n))
    BY <1>0, <1>1, FactSets, WillArrive
  <2>2. ASSUME NEW m \in Message, m.kind \in {"set_channel", "leave_channel"}
        PROVE  Will(Heard, userList[k], Append(toUserlist[k], m), Append(socket[k], d), t,
                    Fact("fresh", n))
    BY <1>0, <2>1, <2>2, Neutral, WillBehind
  <2> QED
    BY <2>1, <2>2 DEF Hears
<1>2. ASSUME Tells(d, n)
      PROVE  Will(Heard, userList'[k], toUserlist'[k], socket'[k], t, Fact("fresh", n))
  <2>1. Will(Heard, userList[k], toUserlist[k], socket[k], t, Fact("any", n))
    BY <1>0, FactSets, WillAny
  <2>2. Derives(Fact("any", n), d, Fact("fresh", n))
    BY <1>2, FactSets DEF Derives
  <2> QED
    BY <1>1, <2>1, <2>2
<1>3. ~Spoils(d, n) => Derives(Fact("fresh", n), d, Fact("fresh", n))
  BY FactSets DEF Derives
<1>4. d.kind = "nick_change" /\ d.nick = n
        => Derives(Fact("fresh", d.channel), d, Fact("fresh", n))
  BY FactSets DEF Derives
<1> QED
  BY <1>1, <1>2, <1>3, <1>4

(* What a datagram does to who will be a member, and who will answer.      *)
LEMMA HearsMember ==
  ASSUME TypeOK, NEW k \in Hosts, NEW d \in Message, NEW n \in Nicks, NEW t,
         socket'[k] = Append(socket[k], d), userList'[k] = userList[k],
         \/ toUserlist'[k] = toUserlist[k]
         \/ \E m \in Message : /\ m.kind = "set_channel"
                               /\ toUserlist'[k] = Append(toUserlist[k], m)
  PROVE  /\ Enters(d, n) =>
              Will(Joined, userList'[k], toUserlist'[k], socket'[k], t, Fact("member", n))
         /\ ~Spoils(d, n) /\ ~Parts(d, n)
              /\ Will(Joined, userList[k], toUserlist[k], socket[k], t, Fact("member", n))
              => Will(Joined, userList'[k], toUserlist'[k], socket'[k], t, Fact("member", n))
         /\ d.kind = "nick_change" /\ d.nick = n
              /\ Will(Joined, userList[k], toUserlist[k], socket[k], t, Fact("member", d.channel))
              => Will(Joined, userList'[k], toUserlist'[k], socket'[k], t, Fact("member", n))
         /\ Asking(d)
              /\ Will(Joined, userList[k], toUserlist[k], socket[k], t, Fact("member", n))
              => Will(AnsweredAs(n), userList'[k], toUserlist'[k], socket'[k], t,
                      Fact("answer", n))
         /\ Will(AnsweredAs(n), userList[k], toUserlist[k], socket[k], t, Fact("answer", n))
              => Will(AnsweredAs(n), userList'[k], toUserlist'[k], socket'[k], t,
                      Fact("answer", n))
<1>0. toUserlist[k] \in Seq(Message) /\ socket[k] \in Seq(Message)
  BY DEF TypeOK, Pipes
<1>1. ASSUME NEW F \in {Joined, AnsweredAs(n)}, NEW G \in {Joined, AnsweredAs(n)},
             F \subseteq G, NEW b, NEW c \in G,
             Will(F, userList[k], toUserlist[k], socket[k], t, b), Derives(b, d, c)
      PROVE  Will(G, userList'[k], toUserlist'[k], socket'[k], t, c)
  <2>1. Will(G, userList[k], toUserlist[k], Append(socket[k], d), t, c)
    BY <1>0, <1>1, WillArrive
  <2>2. ASSUME NEW m \in Message, m.kind = "set_channel"
        PROVE  Will(G, userList[k], Append(toUserlist[k], m), Append(socket[k], d), t, c)
    <3>1. \A e \in G : Derives(e, m, e)
      BY <1>1, <2>2, Neutral
    <3> QED
      BY <1>0, <2>1, <3>1, WillBehind
  <2> QED
    BY <2>1, <2>2
<1>2. ASSUME Enters(d, n)
      PROVE  Will(Joined, userList'[k], toUserlist'[k], socket'[k], t, Fact("member", n))
  <2>1. Will(Joined, userList[k], toUserlist[k], socket[k], t, Fact("any", n))
    BY <1>0, FactSets, WillAny
  <2>2. Derives(Fact("any", n), d, Fact("member", n))
    BY <1>2, FactSets DEF Derives
  <2> QED
    BY <1>1, <2>1, <2>2, FactSets
<1>3. ~Spoils(d, n) /\ ~Parts(d, n) => Derives(Fact("member", n), d, Fact("member", n))
  BY FactSets DEF Derives
<1>4. d.kind = "nick_change" /\ d.nick = n
        => Derives(Fact("member", d.channel), d, Fact("member", n))
  BY FactSets DEF Derives
<1>5. Asking(d) => Derives(Fact("member", n), d, Fact("answer", n))
  BY FactSets DEF Derives
<1>6. Derives(Fact("answer", n), d, Fact("answer", n))
  BY FactSets DEF Derives
<1> QED
  BY <1>1, <1>2, <1>3, <1>4, <1>5, <1>6, FactSets

(* What is said by host j does not disturb what is known about another.    *)
LEMMA OthersHear ==
  ASSUME TypeOK, NEW j \in Hosts, NEW h \in On, h # j, NEW d \in Message, TouchHost(h),
         On' \subseteq On, \A k \in On' : Hears(k, d), h \in On',
         toUserlist'[h] = toUserlist[h], firstTime'[h] = firstTime[h],
         antennaNick'[h] = antennaNick[h], idle'[h] = idle[h],
         ~Spoils(d, antennaNick[h]), ~Parts(d, antennaNick[h]),
         \A k \in Hosts \ {j} : toAntenna'[k] = toAntenna[k],
         \/ j \notin On' \/ Asking(d)
         \/ Asks(toAntenna[j]) => Asks(toAntenna'[j])
  PROVE  TouchHost(h)'
<1>1. h \in Hosts /\ antennaNick[h] \in Nicks /\ \A k \in On' : k \in Hosts
  BY DEF On, TypeOK
<1>2. \A k \in On' : Told(h, k) => Told(h, k)'
  BY <1>1, HearsFresh DEF Told
<1>3. socket'[h] = Append(socket[h], d) /\ userList'[h] = userList[h]
  BY DEF Hears
<1>4. Belongs(h) => Belongs(h)'
  BY <1>1, <1>3, HearsMember DEF Belongs
<1>5. Answers(h) => Answers(h)'
  BY <1>1, <1>3, HearsMember DEF Answers
<1>6. Asking(d) /\ Belongs(h) => Answers(h)'
  BY <1>1, <1>3, HearsMember DEF Belongs, Answers
<1>7. \A k \in On' : Asks(toAntenna[k]) /\ Belongs(h) => Asks(toAntenna'[k]) \/ Answers(h)'
  BY <1>1, <1>6
<1>8. toAntenna'[h] = toAntenna[h]
  BY <1>1
<1> QED
  BY <1>2, <1>4, <1>5, <1>7, <1>8, TouchKept

(* A step that is not the act of a user keeps him silent.                  *)
LEMMA SilentKept ==
  ASSUME NEW h \in Hosts, channelOps'[h] = channelOps[h], nickOps'[h] = nickOps[h], Silent(h)'
  PROVE  Silent(h)
BY DEF Silent

(* Everybody hears what host j says.                                       *)
LEMMA AllHear ==
  ASSUME TypeOK, NEW j \in Hosts, NEW d, Multicast(j, d), lost' = 0,
         UNCHANGED <<state, userList>>,
         \A k \in Hosts \ {j} : toUserlist'[k] = toUserlist[k],
         \/ toUserlist'[j] = toUserlist[j]
         \/ \E m \in Message : /\ m.kind \in {"set_channel", "leave_channel"}
                               /\ toUserlist'[j] = Append(toUserlist[j], m)
  PROVE  On' = On /\ \A k \in On' : Hears(k, d)
<1>1. On' = On
  BY DEF On
<1>2. \A k \in On : socket'[k] = Append(socket[k], d) /\ userList'[k] = userList[k]
  BY MulticastEffect
<1> QED
  BY <1>1, <1>2 DEF Hears, On

(* What host j sends leaves the others in touch.                           *)
LEMMA OthersTouch ==
  ASSUME TypeOK, DifferInv, TouchInv, NEW j \in Hosts, NEW d, Sending(j, d),
         ~clash, lost' = 0, NEW h \in On, h # j, Silent(h),
         \/ toUserlist'[j] = toUserlist[j]
         \/ \E m \in Message : /\ m.kind \in {"set_channel", "leave_channel"}
                               /\ toUserlist'[j] = Append(toUserlist[j], m),
         Asking(Head(toAntenna[j])) => Asking(d),
         \/ d.kind # "nick_change" /\ d.nick = antennaNick[j]
         \/ /\ d.kind = "nick_change" /\ d.channel = antennaNick[j]
            /\ antennaNick[h] # d.nick
  PROVE  TouchHost(h)'
<1>1. /\ state[j] = "on" /\ d \in Message /\ Multicast(j, d)
      /\ toAntenna[j] # << >> /\ toAntenna[j] \in Seq(Message)
      /\ toAntenna'[j] = Tail(toAntenna[j])
      /\ UNCHANGED <<state, userList, firstTime>>
      /\ \A k \in Hosts \ {j} : /\ toAntenna'[k] = toAntenna[k]
                               /\ toUserlist'[k] = toUserlist[k]
                               /\ antennaNick'[k] = antennaNick[k]
  BY DEF Sending
<1>2. On' = On /\ \A k \in On' : Hears(k, d)
  BY <1>1, AllHear
<1>3. lost = 0 /\ idle'[h] = idle[h]
  BY <1>1, MulticastEffect DEF On
<1>4. TouchHost(h)
  BY <1>3 DEF TouchInv
<1>5. antennaNick[h] # antennaNick[j]
  BY <1>1 DEF DifferInv, On
<1>6. ~Spoils(d, antennaNick[h]) /\ ~Parts(d, antennaNick[h])
  <2>1. d.kind # "leave_channel"
    BY DEF Sending, Datagrams
  <2> QED
    BY <1>5, <2>1 DEF Spoils, Parts
<1>7. Asking(d) \/ (Asks(toAntenna[j]) => Asks(toAntenna'[j]))
  BY <1>1, KindTail
<1> QED
  BY <1>1, <1>2, <1>3, <1>4, <1>6, <1>7, OthersHear DEF On

(* Who says something is heard by everybody.                               *)
LEMMA SenderTold ==
  ASSUME TypeOK, NEW j \in Hosts, NEW d \in Message, NEW n \in Nicks,
         \A k \in On' : Hears(k, d), Tells(d, n), antennaNick'[j] = n
  PROVE  \A k \in On' : Told(j, k)'
<1> SUFFICES ASSUME NEW k \in On' PROVE Told(j, k)'
  OBVIOUS
<1>1. k \in Hosts
  BY DEF On
<1>2. Will(Heard, userList'[k], toUserlist'[k], socket'[k], idle'[j], Fact("fresh", n))
  BY <1>1, HearsFresh
<1> QED
  BY <1>2 DEF Told

(* Hosts stay in touch when one sends a join.                              *)
LEMMA TouchJoin ==
  ASSUME TypeOK, TidyInv, DifferInv, TouchInv, NEW j \in Hosts, SendJoin(j),
         ~clash', lost' = 0
  PROVE  TouchInv'
<1> DEFINE m == Head(toAntenna[j])
           d == About("join", m.channel, antennaNick[j])
<1>1. /\ m.kind = "set_channel" /\ Sending(j, d)
      /\ toUserlist'[j] = Append(toUserlist[j], m) /\ UNCHANGED <<antennaNick, clash>>
  BY JoinEffect
<1>2. /\ d \in Message /\ m \in Message /\ Multicast(j, d)
      /\ state[j] = "on" /\ j \in On /\ antennaNick[j] \in Nicks
      /\ UNCHANGED <<state, userList, channelOps, nickOps>>
      /\ \A k \in Hosts \ {j} : toUserlist'[k] = toUserlist[k]
      /\ toAntenna[j] # << >> /\ toAntenna[j] \in Seq(Message)
  BY <1>1 DEF Sending, On, TypeOK
<1>3. /\ d.kind = "join" /\ d.nick = antennaNick[j] /\ d.channel = m.channel
  BY DEF About
<1> HIDE DEF d, m
<1>4. On' = On /\ (\A k \in On' : Hears(k, d)) /\ idle'[j] = 0
  BY <1>1, <1>2, AllHear, MulticastEffect
<1>5. ASSUME NEW h \in On, h # j, Silent(h) PROVE TouchHost(h)'
  <2>1. ~Asking(Head(toAntenna[j]))
    BY <1>1 DEF Asking, m
  <2> QED
    BY <1>1, <1>2, <1>3, <1>5, <2>1, OthersTouch
<1>6. ASSUME Silent(j) PROVE TouchHost(j)'
  <2>1. \A k \in On' : Told(j, k)'
    BY <1>1, <1>2, <1>3, <1>4, SenderTold DEF Tells
  <2>2. m.channel = DefaultChannel
    <3>1. QueueShape(toAntenna[j], firstTime[j], antennaNick[j])
      BY <1>2, <1>6 DEF TidyInv, TidyHost
    <3> QED
      BY <1>1, <1>2, <3>1, ShapeAlone DEF m
  <2>3. Belongs(j)'
    <3>1. Enters(d, antennaNick[j])
      BY <1>3, <2>2 DEF Enters
    <3>2. socket'[j] = Append(socket[j], d) /\ userList'[j] = userList[j]
      BY <1>2, <1>4 DEF Hears
    <3>3. Will(Joined, userList'[j], toUserlist'[j], socket'[j], 0, Fact("member", antennaNick[j]))
      BY <1>1, <1>2, <3>1, <3>2, HearsMember
    <3> QED
      BY <1>1, <3>3 DEF Belongs
  <2> QED
    BY <1>4, <2>1, <2>3, TouchVoice
<1>7. \A h \in On : Silent(h)' => Silent(h)
  BY <1>2, SilentKept DEF On
<1> QED
  BY <1>4, <1>5, <1>6, <1>7 DEF TouchInv

(* Hosts stay in touch when one leaves a channel.                          *)
LEMMA TouchLeft ==
  ASSUME TypeOK, TidyInv, DifferInv, TouchInv, NEW j \in Hosts, SendLeft(j),
         ~clash', lost' = 0
  PROVE  TouchInv'
<1> DEFINE m == Head(toAntenna[j])
           d == About("left", m.channel, antennaNick[j])
<1>1. /\ m.kind = "leave_channel" /\ Sending(j, d)
      /\ toUserlist'[j] = Append(toUserlist[j], m) /\ UNCHANGED <<antennaNick, clash>>
  BY LeftEffect
<1>2. /\ m \in Message /\ state[j] = "on" /\ j \in On
      /\ UNCHANGED <<state, userList, channelOps, nickOps>>
      /\ toAntenna[j] # << >> /\ toAntenna[j] \in Seq(Message)
  BY <1>1 DEF Sending, On
<1>3. d.kind = "left" /\ d.nick = antennaNick[j]
  BY DEF About
<1> HIDE DEF d, m
<1>4. On' = On
  BY <1>2 DEF On
<1>5. ASSUME NEW h \in On, h # j, Silent(h) PROVE TouchHost(h)'
  <2>1. ~Asking(Head(toAntenna[j]))
    BY <1>1 DEF Asking, m
  <2> QED
    BY <1>1, <1>2, <1>3, <1>5, <2>1, OthersTouch
<1>6. ~Silent(j)
  <2>1. Silent(j) => QueueShape(toAntenna[j], firstTime[j], antennaNick[j])
    BY <1>2 DEF TidyInv, TidyHost
  <2> QED
    BY <1>1, <1>2, <2>1, ShapeAlone DEF m
<1>7. \A h \in On : Silent(h)' => Silent(h)
  BY <1>2, SilentKept DEF On
<1> QED
  BY <1>4, <1>5, <1>6, <1>7 DEF TouchInv

(* Hosts stay in touch when one answers, asks or talks.                    *)
LEMMA TouchPlain ==
  ASSUME TypeOK, TidyInv, DifferInv, TouchInv, NEW j \in Hosts, SendPlain(j),
         ~clash', lost' = 0
  PROVE  TouchInv'
<1> DEFINE m == Head(toAntenna[j])
           d == About(m.kind, m.channel, antennaNick[j])
<1>1. /\ m.kind \in {"here", "who_is_here", "edict"} /\ Sending(j, d)
      /\ UNCHANGED <<toUserlist, antennaNick, clash>>
  BY PlainEffect
<1>2. /\ d \in Message /\ m \in Message /\ Multicast(j, d)
      /\ state[j] = "on" /\ j \in On /\ antennaNick[j] \in Nicks
      /\ UNCHANGED <<state, userList, firstTime, channelOps, nickOps>>
      /\ toAntenna[j] # << >> /\ toAntenna[j] \in Seq(Message)
      /\ toAntenna'[j] = Tail(toAntenna[j])
  BY <1>1 DEF Sending, On, TypeOK
<1>3. d.kind = m.kind /\ d.nick = antennaNick[j] /\ d.channel = m.channel
  BY DEF About
<1> HIDE DEF d, m
<1>4. On' = On /\ (\A k \in On' : Hears(k, d)) /\ idle'[j] = 0
  BY <1>1, <1>2, AllHear, MulticastEffect
<1>5. ASSUME NEW h \in On, h # j, Silent(h) PROVE TouchHost(h)'
  <2>1. Asking(Head(toAntenna[j])) => Asking(d)
    BY <1>3 DEF Asking, m
  <2> QED
    BY <1>1, <1>2, <1>3, <1>5, <2>1, OthersTouch
<1>6. ASSUME Silent(j) PROVE TouchHost(j)'
  <2>1. \A k \in On' : Told(j, k)'
    BY <1>1, <1>2, <1>3, <1>4, SenderTold DEF Tells
  <2>2. ASSUME ~firstTime'[j], ~HasKind(toAntenna'[j], "set_channel") PROVE Belongs(j)'
    <3>1. ~HasKind(toAntenna[j], "set_channel")
      BY <1>1, <1>2, <2>2, KindTail DEF m
    <3>2. Belongs(j)
      <4>1. lost = 0 /\ ~clash
        BY <1>1, <1>2, MulticastEffect
      <4> QED
        BY <1>2, <1>6, <2>2, <3>1, <4>1 DEF TouchInv, TouchHost
    <3>3. socket'[j] = Append(socket[j], d) /\ userList'[j] = userList[j]
      BY <1>2, <1>4 DEF Hears
    <3>4. ~Spoils(d, antennaNick[j]) /\ ~Parts(d, antennaNick[j])
      BY <1>1, <1>3 DEF Spoils, Parts
    <3>5. Will(Joined, userList'[j], toUserlist'[j], socket'[j], 0, Fact("member", antennaNick[j]))
      BY <1>1, <1>2, <3>2, <3>3, <3>4, HearsMember DEF Belongs
    <3> QED
      BY <1>1, <3>5 DEF Belongs
  <2> QED
    BY <1>4, <2>1, <2>2, TouchVoice
<1>7. \A h \in On : Silent(h)' => Silent(h)
  BY <1>2, SilentKept DEF On
<1> QED
  BY <1>4, <1>5, <1>6, <1>7 DEF TouchInv

(* Hosts stay in touch when one changes its nick.                          *)
LEMMA TouchNick ==
  ASSUME TypeOK, TidyInv, DifferInv, TouchInv, NEW j \in Hosts, SendNick(j),
         ~clash', lost' = 0
  PROVE  TouchInv'
<1> DEFINE m == Head(toAntenna[j])
           d == About("nick_change", antennaNick[j], m.nick)
<1>1. /\ m.kind = "changed_nick" /\ m.nick \in Nicks /\ Sending(j, d)
      /\ antennaNick'[j] = m.nick /\ UNCHANGED toUserlist
      /\ clash' = (clash \/ \E k \in On \ {j} : antennaNick[k] = m.nick)
  BY NickEffect
<1>2. /\ d \in Message /\ m \in Message /\ Multicast(j, d)
      /\ state[j] = "on" /\ j \in On /\ antennaNick[j] \in Nicks
      /\ UNCHANGED <<state, userList, firstTime, channelOps, nickOps>>
      /\ toAntenna[j] # << >> /\ toAntenna[j] \in Seq(Message)
      /\ toAntenna'[j] = Tail(toAntenna[j])
  BY <1>1 DEF Sending, On, TypeOK
<1>3. d.kind = "nick_change" /\ d.nick = m.nick /\ d.channel = antennaNick[j]
  BY DEF About
<1> HIDE DEF d, m
<1>4. On' = On /\ (\A k \in On' : Hears(k, d)) /\ idle'[j] = 0 /\ lost = 0 /\ ~clash
  BY <1>1, <1>2, AllHear, MulticastEffect
<1>5. ASSUME NEW h \in On, h # j, Silent(h) PROVE TouchHost(h)'
  <2>1. ~Asking(Head(toAntenna[j]))
    BY <1>1 DEF Asking, m
  <2>2. antennaNick[h] # d.nick
    BY <1>1, <1>3, <1>5
  <2> QED
    BY <1>1, <1>2, <1>3, <1>4, <1>5, <2>1, <2>2, OthersTouch
<1>6. ASSUME Silent(j) PROVE TouchHost(j)'
  <2>1. QueueShape(toAntenna[j], firstTime[j], antennaNick[j])
    BY <1>2, <1>6 DEF TidyInv, TidyHost
  <2>2. ~HasKind(toAntenna[j], "set_channel") /\ ~firstTime[j]
    BY <1>1, <1>2, <2>1, ShapeAlone DEF m
  <2>3. HasKind(toAntenna[j], "changed_nick")
    BY <1>1, <1>2, KindTail DEF m
  <2>4. TouchHost(j)
    BY <1>2, <1>4, <1>6 DEF TouchInv
  <2>5. Belongs(j) /\ idle[j] = 0 /\ \A k \in On : Told(j, k)
    BY <2>2, <2>3, <2>4 DEF TouchHost
  <2>6. ASSUME NEW k \in On' PROVE Told(j, k)'
    <3>1. k \in Hosts /\ Hears(k, d) /\ Told(j, k)
      BY <1>4, <2>5 DEF On
    <3>2. Will(Heard, userList[k], toUserlist[k], socket[k], 0, Fact("fresh", d.channel))
      BY <1>3, <2>5, <3>1 DEF Told
    <3>3. Will(Heard, userList'[k], toUserlist'[k], socket'[k], 0, Fact("fresh", m.nick))
      BY <1>1, <1>2, <1>3, <3>1, <3>2, HearsFresh
    <3> QED
      BY <1>1, <1>4, <3>3 DEF Told
  <2>7. Belongs(j)'
    <3>1. socket'[j] = Append(socket[j], d) /\ userList'[j] = userList[j]
      BY <1>2, <1>4 DEF Hears
    <3>2. Will(Joined, userList[j], toUserlist[j], socket[j], 0, Fact("member", d.channel))
      BY <1>3, <2>5 DEF Belongs
    <3>3. Will(Joined, userList'[j], toUserlist'[j], socket'[j], 0, Fact("member", m.nick))
      BY <1>1, <1>2, <1>3, <3>1, <3>2, HearsMember
    <3> QED
      BY <1>1, <3>3 DEF Belongs
  <2> QED
    BY <1>4, <2>6, <2>7, TouchVoice
<1>7. \A h \in On : Silent(h)' => Silent(h)
  BY <1>2, SilentKept DEF On
<1> QED
  BY <1>4, <1>5, <1>6, <1>7 DEF TouchInv

(* Hosts stay in touch when one gives a sign of life.                      *)
LEMMA TouchAuto ==
  ASSUME TypeOK, DifferInv, TouchInv, NEW j \in Hosts, SendAuto(j), ~clash', lost' = 0
  PROVE  TouchInv'
<1> DEFINE d == About("auto", NoChannel, antennaNick[j])
<1>1. /\ state[j] = "on" /\ d \in Message /\ Multicast(j, d)
      /\ UNCHANGED <<state, toAntenna, toUserlist, antennaNick, userList>>
      /\ UNCHANGED <<firstTime, channelOps, nickOps, clash>>
      /\ antennaNick[j] \in Nicks /\ j \in On
  BY AutoEffect DEF On, TypeOK
<1>2. d.kind = "auto" /\ d.nick = antennaNick[j]
  BY DEF About
<1> HIDE DEF d
<1>3. On' = On /\ (\A k \in On' : Hears(k, d)) /\ idle'[j] = 0 /\ lost = 0 /\ ~clash
      /\ \A k \in Hosts \ {j} : idle'[k] = idle[k]
  BY <1>1, AllHear, MulticastEffect
<1>4. ASSUME NEW h \in On, h # j, Silent(h) PROVE TouchHost(h)'
  <2>1. antennaNick[h] # antennaNick[j]
    BY <1>1, <1>3, <1>4 DEF DifferInv, On
  <2>2. ~Spoils(d, antennaNick[h]) /\ ~Parts(d, antennaNick[h])
    BY <1>2 DEF Spoils, Parts
  <2>3. TouchHost(h) /\ idle'[h] = idle[h]
    BY <1>3, <1>4 DEF TouchInv, On
  <2> QED
    BY <1>1, <1>3, <1>4, <2>2, <2>3, OthersHear
<1>5. ASSUME Silent(j) PROVE TouchHost(j)'
  <2>1. \A k \in On' : Told(j, k)'
    BY <1>1, <1>2, <1>3, SenderTold DEF Tells
  <2>2. ASSUME ~firstTime'[j], ~HasKind(toAntenna'[j], "set_channel") PROVE Belongs(j)'
    <3>1. Belongs(j)
      BY <1>1, <1>3, <1>5, <2>2 DEF TouchInv, TouchHost
    <3>2. socket'[j] = Append(socket[j], d) /\ userList'[j] = userList[j]
      BY <1>1, <1>3 DEF Hears
    <3>3. ~Spoils(d, antennaNick[j]) /\ ~Parts(d, antennaNick[j])
      BY <1>2 DEF Spoils, Parts
    <3>4. Will(Joined, userList'[j], toUserlist'[j], socket'[j], 0, Fact("member", antennaNick[j]))
      BY <1>1, <3>1, <3>2, <3>3, HearsMember DEF Belongs
    <3> QED
      BY <1>1, <3>4 DEF Belongs
  <2> QED
    BY <1>3, <2>1, <2>2, TouchVoice
<1>6. \A h \in On : Silent(h)' => Silent(h)
  BY <1>1, SilentKept DEF On
<1> QED
  BY <1>3, <1>4, <1>5, <1>6 DEF TouchInv

(* The others stay in touch when one says goodbye.                         *)
LEMMA TouchGoodbye ==
  ASSUME TypeOK, DifferInv, TouchInv, NEW j \in Hosts, SendGoodbye(j), ~clash', lost' = 0
  PROVE  TouchInv'
<1> DEFINE d == About("left", NoChannel, antennaNick[j])
<1>1. PICK receivers \in SUBSET On :
        /\ lost' = lost + Cardinality((On \ {j}) \ receivers)
        /\ socket' = [k \in Hosts |->
                         IF k = j THEN << >>
                         ELSE IF k \in receivers THEN Append(socket[k], d)
                         ELSE socket[k]]
  BY DEF SendGoodbye
<1>2. lost = 0 /\ \A k \in On \ {j} : socket'[k] = Append(socket[k], d)
  <2>1. IsFiniteSet((On \ {j}) \ receivers)
    BY PresenceAssumption, FS_Subset DEF On
  <2>2. Cardinality((On \ {j}) \ receivers) \in Nat /\ lost \in Nat
    BY <2>1, FS_CardinalityType, PresenceAssumption DEF TypeOK
  <2>3. lost = 0 /\ Cardinality((On \ {j}) \ receivers) = 0
    BY <1>1, <2>2
  <2>4. (On \ {j}) \ receivers = {}
    BY <2>1, <2>3, FS_EmptySet
  <2> QED
    BY <1>1, <2>3, <2>4 DEF On
<1>3. d \in Message /\ d.kind = "left" /\ d.nick = antennaNick[j]
  BY AboutType DEF TypeOK, About
<1> HIDE DEF d
<1>4. /\ state[j] = "on" /\ state' = [state EXCEPT ![j] = "left"]
      /\ \A k \in Hosts \ {j} : /\ toAntenna'[k] = toAntenna[k]
                               /\ toUserlist'[k] = toUserlist[k]
                               /\ userList'[k] = userList[k] /\ idle'[k] = idle[k]
      /\ UNCHANGED <<antennaNick, firstTime, channelOps, nickOps, clash>>
  BY DEF SendGoodbye, SendNext, TypeOK, Pipes
<1>5. On' = On \ {j} /\ j \in On
  BY <1>4 DEF On, TypeOK
<1>6. \A k \in On' : Hears(k, d)
  BY <1>2, <1>4, <1>5 DEF Hears, On
<1>7. ASSUME NEW h \in On, h # j, Silent(h)' PROVE TouchHost(h)'
  <2>1. Silent(h)
    BY <1>4, <1>7 DEF Silent
  <2>2. antennaNick[h] # antennaNick[j]
    BY <1>4, <1>5, <1>7 DEF DifferInv
  <2>3. ~Spoils(d, antennaNick[h]) /\ ~Parts(d, antennaNick[h])
    BY <1>3, <2>2 DEF Spoils, Parts
  <2>4. TouchHost(h)
    BY <1>2, <1>4, <2>1 DEF TouchInv
  <2> QED
    BY <1>3, <1>4, <1>5, <1>6, <1>7, <2>3, <2>4, OthersHear DEF On
<1> QED
  BY <1>5, <1>7 DEF TouchInv

(* What host k will know of the facts F, it still will.                    *)
Keeps(F, k) ==
  \A t \in 0..Idle : \A b :
    Will(F, userList[k], toUserlist[k], socket[k], t, b)
      => Will(F, userList'[k], toUserlist'[k], socket'[k], t, b)

(* Who keeps the facts is told, belongs and answers as before.             *)
LEMMA KeptByKeeps ==
  ASSUME TypeOK, NEW h \in Hosts, idle'[h] = idle[h], antennaNick'[h] = antennaNick[h]
  PROVE  /\ \A k \in Hosts : Keeps(Heard, k) => (Told(h, k) => Told(h, k)')
         /\ Keeps(Joined, h) => (Belongs(h) => Belongs(h)')
         /\ Keeps(AnsweredAs(antennaNick[h]), h) => (Answers(h) => Answers(h)')
<1>1. idle[h] \in 0..Idle /\ 0 \in 0..Idle
  BY PresenceAssumption DEF TypeOK, Idle
<1> QED
  BY <1>1 DEF Keeps, Told, Belongs, Answers

(* A host whose list and queues do not change keeps the facts.             *)
LEMMA SameKeeps ==
  ASSUME NEW F, NEW k, userList'[k] = userList[k], toUserlist'[k] = toUserlist[k],
         socket'[k] = socket[k]
  PROVE  Keeps(F, k)
BY DEF Keeps

(* Hosts stay in touch when a datagram is read.                            *)
LEMMA TouchReceive ==
  ASSUME TypeOK, TouchInv, NEW j \in Hosts, Receive(j), ~clash', lost' = 0
  PROVE  TouchInv'
<1>1. /\ UNCHANGED <<state, toAntenna, antennaNick, idle, userList, firstTime>>
      /\ UNCHANGED <<channelOps, nickOps, lost, clash>>
  BY DEF Receive, history
<1>2. ASSUME NEW F, NEW k \in Hosts PROVE Keeps(F, k)
  <2>1. ASSUME k # j PROVE Keeps(F, k)
    BY <1>1, <2>1, ReceiveEffect, SameKeeps
  <2>2. ASSUME k = j PROVE Keeps(F, k)
    <3>1. /\ socket[j] # << >> /\ socket[j] \in Seq(Message) /\ toUserlist[j] \in Seq(Message)
          /\ socket'[j] = Tail(socket[j])
          /\ toUserlist'[j] = Append(toUserlist[j], Head(socket[j]))
          /\ userList'[j] = userList[j]
      BY <1>1, ReceiveEffect
    <3> QED
      BY <2>2, <3>1, WillMove DEF Keeps
  <2> QED
    BY <2>1, <2>2
<1>3. On' = On
  BY <1>1 DEF On
<1>4. ASSUME NEW h \in On, Silent(h)' PROVE TouchHost(h)'
  <2>1. h \in Hosts /\ Silent(h) /\ TouchHost(h)
    BY <1>1, <1>4 DEF On, Silent, TouchInv
  <2>2. /\ \A k \in On : Told(h, k) => Told(h, k)'
        /\ Belongs(h) => Belongs(h)'
        /\ Answers(h) => Answers(h)'
    BY <1>1, <1>2, <2>1, KeptByKeeps DEF On
  <2>3. /\ On' \subseteq On /\ toAntenna'[h] = toAntenna[h]
        /\ firstTime'[h] = firstTime[h] /\ idle'[h] = idle[h]
    BY <1>1, <1>3
  <2>4. \A k \in On' : Told(h, k) => Told(h, k)'
    BY <1>3, <2>2
  <2>5. \A k \in On' : Asks(toAntenna[k]) /\ Belongs(h) => Asks(toAntenna'[k]) \/ Answers(h)'
    BY <1>1
  <2> QED
    BY <2>1, <2>2, <2>3, <2>4, <2>5, TouchKept
<1> QED
  BY <1>3, <1>4 DEF TouchInv

(* The timer forgets nobody who is in touch.                               *)
LEMMA TouchExpire ==
  ASSUME TypeOK, TouchInv, NEW j \in Hosts, Expire(j), ~clash', lost' = 0
  PROVE  TouchInv'
<1>1. /\ UNCHANGED <<state, toAntenna, toUserlist, socket, antennaNick, idle, firstTime>>
      /\ UNCHANGED <<channelOps, nickOps, lost, clash>>
  BY DEF Expire, history, pipes
<1>2. ASSUME NEW F \in {Heard} \cup {Joined} \cup {AnsweredAs(n) : n \in Nicks},
             NEW k \in Hosts
      PROVE  Keeps(F, k)
  <2>1. userList[k] \in [Nicks -> Status]
    BY DEF TypeOK
  <2>2. \/ userList'[k] = userList[k]
        \/ userList'[k] = [n \in Nicks |-> IF userList[k][n].age > Expiry
                                          THEN Unknown ELSE userList[k][n]]
    BY DEF Expire, TypeOK
  <2>3. ASSUME NEW t \in 0..Idle, NEW a \in F, Holds(userList[k], t, a)
        PROVE  Holds(userList'[k], t, a)
    <3>1. a \in Facts
      <4>1. a \in Heard \/ a \in Joined \/ a.what = "answer"
        BY <1>2 DEF AnsweredAs, Fact
      <4> QED
        BY <2>3, <4>1, HoldsWhen DEF Facts
    <3>2. DefaultNick \in Nicks
      BY PresenceAssumption
    <3> QED
      BY <2>1, <2>2, <2>3, <3>1, <3>2, OtherHolds
  <2> QED
    BY <1>1, <2>3, WillAge DEF Keeps
<1>3. On' = On
  BY <1>1 DEF On
<1>4. ASSUME NEW h \in On, Silent(h)' PROVE TouchHost(h)'
  <2>1. h \in Hosts /\ Silent(h) /\ TouchHost(h) /\ antennaNick[h] \in Nicks
    BY <1>1, <1>4 DEF On, Silent, TouchInv, TypeOK
  <2>2. /\ \A k \in On : Told(h, k) => Told(h, k)'
        /\ Belongs(h) => Belongs(h)'
        /\ Answers(h) => Answers(h)'
    BY <1>1, <1>2, <2>1, KeptByKeeps DEF On
  <2>3. /\ On' \subseteq On /\ toAntenna'[h] = toAntenna[h]
        /\ firstTime'[h] = firstTime[h] /\ idle'[h] = idle[h]
    BY <1>1, <1>3
  <2>4. \A k \in On' : Told(h, k) => Told(h, k)'
    BY <1>3, <2>2
  <2>5. \A k \in On' : Asks(toAntenna[k]) /\ Belongs(h) => Asks(toAntenna'[k]) \/ Answers(h)'
    BY <1>1
  <2> QED
    BY <2>1, <2>2, <2>3, <2>4, <2>5, TouchKept
<1> QED
  BY <1>3, <1>4 DEF TouchInv

(* What every message handled by a userlist has in common.                 *)
LEMMA UserlistHandles ==
  ASSUME TypeOK, NEW j \in Hosts, UserlistStep(j)
  PROVE  /\ HandleNext(j)
         /\ state[j] = "on" /\ toUserlist[j] # << >> /\ toUserlist[j] \in Seq(Message)
         /\ Head(toUserlist[j]) \in Message
         /\ toUserlist'[j] = Tail(toUserlist[j])
         /\ UNCHANGED <<state, socket, antennaNick, idle, channelOps, nickOps, lost, clash>>
         /\ \A k \in Hosts \ {j} : /\ toUserlist'[k] = toUserlist[k]
                                  /\ toAntenna'[k] = toAntenna[k]
                                  /\ userList'[k] = userList[k]
                                  /\ firstTime'[k] = firstTime[k]
<1>1. HandleNext(j)
  BY DEF UserlistStep, UpdateSenderStatus, SetNick, HandleSetChannel, HandleLeaveChannel
<1>2. \A k \in Hosts \ {j} : /\ toAntenna'[k] = toAntenna[k]
                           /\ userList'[k] = userList[k]
                           /\ firstTime'[k] = firstTime[k]
  BY UserlistEffect
<1>3. /\ state[j] = "on" /\ toUserlist[j] # << >> /\ toUserlist[j] \in Seq(Message)
      /\ Head(toUserlist[j]) \in Message
      /\ toUserlist'[j] = Tail(toUserlist[j])
      /\ \A k \in Hosts \ {j} : toUserlist'[k] = toUserlist[k]
      /\ UNCHANGED <<state, socket, antennaNick, idle, channelOps, nickOps, lost, clash>>
  BY <1>1, HandleEffect
<1> QED
  BY <1>1, <1>2, <1>3

(* What follows from the first message of the pipe is a fact of the new    *)
(* list, unless the message is the question and the answer goes out now.   *)
LEMMA WillTakeOr ==
  ASSUME NEW n, NEW list, NEW later, NEW u \in Seq(Message), NEW s, NEW t, NEW b,
         u # << >>, Will(AnsweredAs(n), list, u, s, t, b),
         \A a, c \in Joined : Holds(list, t, a) /\ Derives(a, Head(u), c)
                              => Holds(later, t, c)
  PROVE  \/ Will(AnsweredAs(n), later, Tail(u), s, t, b)
         \/ Asking(Head(u)) /\ Holds(list, t, Fact("member", n))
<1> DEFINE F == AnsweredAs(n)
<1>1. PICK a \in F, c \in F :
        Holds(list, t, a) /\ Chain(F, u, a, c) /\ Chain(F, s, c, b)
  BY DEF Will
<1>2. PICK d \in F : Derives(a, Head(u), d) /\ Chain(F, Tail(u), d, c)
  BY <1>1, ChainFront
<1>3. \A e \in F : e \in Joined \/ (e = Fact("answer", n) /\ e.what = "answer" /\ e.nick = n)
  BY DEF AnsweredAs, Fact
<1>4. a \in Joined
  BY <1>1, <1>3, HoldsWhen
<1>5. CASE d \in Joined
  <2>1. Holds(later, t, d)
    BY <1>1, <1>2, <1>4, <1>5
  <2> QED
    BY <1>1, <1>2, <2>1 DEF Will
<1>6. CASE d.what = "answer" /\ d.nick = n
  <2>1. a = d \/ (a = Fact("member", n) /\ Asking(Head(u)))
    BY <1>2, <1>6 DEF Derives
  <2>2. a # d
    BY <1>1, <1>6, HoldsWhen
  <2> QED
    BY <1>1, <2>1, <2>2
<1> QED
  BY <1>3, <1>5, <1>6

(* One message of the userlist's pipe, and the facts before and after it.  *)
LEMMA TakesFacts ==
  ASSUME TypeOK, NEW j \in Hosts, UserlistStep(j), NEW t \in 0..Idle,
         NEW a \in Facts, NEW c \in Facts,
         Holds(userList[j], t, a), Derives(a, Head(toUserlist[j]), c)
  PROVE  Holds(userList'[j], t, c)
<1> DEFINE m == Head(toUserlist[j])
           me == currentNick[j]
           list == userList[j]
<1>1. /\ m \in Message /\ me \in Nicks /\ list \in [Nicks -> Status] /\ t \in Nat
  <2>1. Idle \in Nat
    BY PresenceAssumption DEF Idle
  <2>2. t \in Nat
    BY <2>1
  <2> QED
    BY <2>2, UserlistHandles DEF TypeOK
<1>2. CASE m.kind \in Datagrams
  <2>1. userList'[j] = Updated(list, me, m)
    BY <1>2, UserlistEffect DEF Datagrams
  <2> QED
    BY <1>1, <1>2, <2>1, UpdatedHolds
<1>3. CASE m.kind \in {"nick", "set_channel"}
  <2>1. userList'[j] = list \/ userList'[j] = [list EXCEPT ![me] = Entry(@)]
    BY <1>3, UserlistEffect DEF Datagrams
  <2>2. c.what = "any" \/ a = c
    BY <1>3, OtherDerives
  <2>3. Holds(list, t, c)
    BY <2>2, HoldsWhen
  <2> QED
    BY <1>1, <2>1, <2>3, OtherHolds
<1>4. CASE m.kind = "leave_channel"
  <2>1. userList'[j] = [n \in Nicks |-> [list[n] EXCEPT !.channels = @ \ {m.channel}]]
    BY <1>4, UserlistEffect DEF Datagrams
  <2> QED
    BY <1>1, <1>4, <2>1, LeftHolds
<1> QED
  BY <1>2, <1>3, <1>4, UserlistEffect

(* Handling a message keeps what will be known.                            *)
LEMMA TakesKeep ==
  ASSUME TypeOK, NEW j \in Hosts, UserlistStep(j), NEW k \in Hosts
  PROVE  /\ Keeps(Heard, k) /\ Keeps(Joined, k)
         /\ k # j => \A F : Keeps(F, k)
<1>1. /\ toUserlist[j] # << >> /\ toUserlist[j] \in Seq(Message)
      /\ toUserlist'[j] = Tail(toUserlist[j]) /\ socket' = socket
      /\ k # j => toUserlist'[k] = toUserlist[k] /\ userList'[k] = userList[k]
  BY UserlistHandles
<1>2. ASSUME k # j, NEW F PROVE Keeps(F, k)
  BY <1>1, <1>2, SameKeeps
<1>3. ASSUME k = j, NEW F, F \subseteq Facts PROVE Keeps(F, k)
  <2>1. \A t \in 0..Idle : \A a, c \in F :
          Holds(userList[j], t, a) /\ Derives(a, Head(toUserlist[j]), c)
            => Holds(userList'[j], t, c)
    BY <1>3, TakesFacts
  <2> SUFFICES ASSUME NEW t \in 0..Idle, NEW b,
                      Will(F, userList[j], toUserlist[j], socket[j], t, b)
               PROVE  Will(F, userList'[j], toUserlist'[j], socket'[j], t, b)
    BY <1>3 DEF Keeps
  <2>2. Will(F, userList'[j], Tail(toUserlist[j]), socket[j], t, b)
    BY <1>1, <2>1, WillTake
  <2> QED
    BY <1>1, <2>2
<1>4. Heard \subseteq Facts /\ Joined \subseteq Facts
  BY DEF Facts
<1> QED
  BY <1>2, <1>3, <1>4

(* The userlist posts at most an answer or a question,                     *)
LEMMA UserlistPosts ==
  ASSUME TypeOK, NEW j \in Hosts, UserlistStep(j), Head(toUserlist[j]).kind # "nick"
  PROVE  /\ firstTime'[j] = firstTime[j]
         /\ \/ toAntenna'[j] = toAntenna[j]
            \/ \E x \in Message : /\ x.kind \in {"here", "who_is_here"}
                                  /\ toAntenna'[j] = Append(toAntenna[j], x)
<1> DEFINE m == Head(toUserlist[j])
<1>1. m \in Message
  BY UserlistHandles
<1>2. m.channel \in Channels => /\ OnChannel("here", m.channel) \in Message
                                /\ OnChannel("who_is_here", m.channel) \in Message
  BY OnChannelType
<1>3. /\ OnChannel("here", m.channel).kind = "here"
      /\ OnChannel("who_is_here", m.channel).kind = "who_is_here"
  BY DEF OnChannel, About
<1>4. m.kind \in {"who_is_here", "set_channel"} => m.channel \in Channels
  BY <1>1, MessageFields
<1>5. firstTime'[j] = firstTime[j]
  BY UserlistEffect
<1>6. \/ toAntenna'[j] = toAntenna[j]
      \/ /\ m.kind = "who_is_here"
         /\ toAntenna'[j] = Append(toAntenna[j], OnChannel("here", m.channel))
      \/ /\ m.kind = "set_channel"
         /\ toAntenna'[j] = Append(toAntenna[j], OnChannel("who_is_here", m.channel))
  BY UserlistEffect
<1> QED
  BY <1>2, <1>3, <1>4, <1>5, <1>6

(* or, for a nick, the first set_channel and the change of nick.           *)
LEMMA UserlistJoins ==
  ASSUME TypeOK, NEW j \in Hosts, UserlistStep(j), Head(toUserlist[j]).kind = "nick"
  PROVE  \E a, b \in Message :
           /\ firstTime'[j] = FALSE
           /\ a.kind = "set_channel" /\ b.kind = "changed_nick"
           /\ firstTime[j] => toAntenna'[j] \in {Append(toAntenna[j], a),
                                                 Append(Append(toAntenna[j], a), b)}
           /\ ~firstTime[j] => toAntenna'[j] \in {toAntenna[j], Append(toAntenna[j], b)}
<1> DEFINE m == Head(toUserlist[j])
           a == OnChannel("set_channel", DefaultChannel)
           b == About("changed_nick", NoChannel, m.nick)
<1>1. m \in Message /\ m.nick \in Nicks
  BY UserlistHandles, MessageFields
<1>2. a \in Message /\ b \in Message /\ a.kind = "set_channel" /\ b.kind = "changed_nick"
  BY <1>1, OnChannelType, AboutType, PresenceAssumption DEF OnChannel, About
<1>3. /\ firstTime'[j] = FALSE
      /\ LET s == IF firstTime[j] THEN Append(toAntenna[j], a) ELSE toAntenna[j]
         IN  toAntenna'[j] \in {s, Append(s, b)}
  <2>1. m.kind = "nick" /\ m.kind \notin Datagrams
    BY DEF Datagrams
  <2> QED
    BY <2>1, UserlistEffect
<1> HIDE DEF a, b
<1> QED
  BY <1>2, <1>3

(* A question that waits for an antenna still does.                        *)
LEMMA UserlistAsks ==
  ASSUME TypeOK, NEW j \in Hosts, UserlistStep(j), NEW k \in Hosts, Asks(toAntenna[k])
  PROVE  Asks(toAntenna'[k])
<1>0. toAntenna[k] \in Seq(Message)
  BY DEF TypeOK, Pipes
<1>1. CASE k # j
  BY <1>1, UserlistHandles
<1>2. CASE k = j /\ Head(toUserlist[j]).kind # "nick"
  <2>1. CASE toAntenna'[j] = toAntenna[j]
    BY <1>2, <2>1
  <2>2. ASSUME NEW x \in Message, toAntenna'[j] = Append(toAntenna[j], x)
        PROVE  Asks(toAntenna'[k])
    BY <1>0, <1>2, <2>2, KindBehind
  <2> QED
    BY <1>2, <2>1, <2>2, UserlistPosts
<1>3. CASE k = j /\ Head(toUserlist[j]).kind = "nick"
  <2>1. PICK a \in Message, b \in Message :
          toAntenna'[j] \in {Append(toAntenna[j], a), Append(Append(toAntenna[j], a), b),
                             toAntenna[j], Append(toAntenna[j], b)}
    BY <1>3, UserlistJoins DEF TypeOK
  <2>2. PICK s \in Seq(Message) : s = Append(toAntenna[k], a)
    BY <1>0, Places
  <2>3. Asks(s) /\ Asks(Append(s, b)) /\ Asks(Append(toAntenna[k], b))
    BY <1>0, <2>2, KindBehind
  <2> QED
    BY <1>3, <2>1, <2>2, <2>3
<1> QED
  BY <1>1, <1>2, <1>3

(* A silent host handles only its first nick message.                      *)
LEMMA ListFirst ==
  ASSUME NEW u \in Seq(Message), NEW first \in BOOLEAN, u # << >>,
         ListShape(u, first), Head(u).kind = "nick"
  PROVE  first
<1>1. 1 \in 1..Len(u) /\ Head(u) = u[1]
  OBVIOUS
<1> QED
  BY <1>1 DEF ListShape

(* Without a change of nick under way the antenna speaks under the nick    *)
(* the userlist has accepted.                                              *)
LEMMA SettledNick ==
  ASSUME NickInv, NEW j \in On, ~HasKind(toAntenna[j], "changed_nick")
  PROVE  currentNick[j] = antennaNick[j]
<1>1. SameNick(j)
  BY DEF NickInv, On
<1>2. Agrees(toAntenna[j], antennaNick[j], currentNick[j])
  BY <1>1 DEF SameNick, On
<1> QED
  BY <1>2 DEF Agrees, Changes, HasKind

(* A question that reaches a member of the channel is answered.            *)
LEMMA UserlistAnswers ==
  ASSUME TypeOK, NickInv, NEW j \in On, UserlistStep(j), Answers(j),
         Head(toUserlist[j]).kind # "nick",
         ~HasKind(toAntenna[j], "changed_nick")
  PROVE  Answers(j)' \/ Speaks(toAntenna'[j])
<1> DEFINE m == Head(toUserlist[j])
           n == antennaNick[j]
<1>0. j \in Hosts
  BY DEF On
<1>1. /\ toUserlist[j] # << >> /\ toUserlist[j] \in Seq(Message) /\ m \in Message
      /\ toUserlist'[j] = Tail(toUserlist[j])
      /\ socket' = socket /\ antennaNick' = antennaNick
  BY <1>0, UserlistHandles
<1>2. 0 \in 0..Idle
  BY PresenceAssumption DEF Idle
<1>3. \A a, c \in Joined : Holds(userList[j], 0, a) /\ Derives(a, m, c)
                             => Holds(userList'[j], 0, c)
  BY <1>0, <1>2, TakesFacts DEF Facts
<1>4. Will(AnsweredAs(n), userList[j], toUserlist[j], socket[j], 0, Fact("answer", n))
  BY DEF Answers
<1>5. \/ Will(AnsweredAs(n), userList'[j], Tail(toUserlist[j]), socket[j], 0, Fact("answer", n))
      \/ Asking(m) /\ Holds(userList[j], 0, Fact("member", n))
  BY <1>1, <1>3, <1>4, WillTakeOr
<1>6. ASSUME Asking(m), Holds(userList[j], 0, Fact("member", n))
      PROVE  Speaks(toAntenna'[j])
  <2>1. currentNick[j] = n /\ n \in Nicks /\ userList[j] \in [Nicks -> Status]
    BY <1>0, SettledNick DEF TypeOK
  <2>2. m.channel \in Updated(userList[j], n, m)[n].channels
    BY <1>1, <1>6, <2>1, MemberAnswers
  <2>3. m.kind = "who_is_here" /\ m.channel \in Channels
    BY <1>1, <1>6, MessageFields DEF Asking
  <2>4. toAntenna'[j] = Append(toAntenna[j], OnChannel("here", m.channel))
    <3>1. m.kind \in Datagrams
      BY <2>3 DEF Datagrams
    <3>2. userList'[j] = Updated(userList[j], n, m)
      BY <1>0, <2>1, <2>3, <3>1, UserlistEffect
    <3> QED
      BY <1>0, <2>1, <2>2, <2>3, <3>1, <3>2, UserlistEffect
  <2>5. OnChannel("here", m.channel) \in Message /\ OnChannel("here", m.channel).kind = "here"
    BY <2>3, OnChannelType DEF OnChannel, About
  <2>6. toAntenna[j] \in Seq(Message)
    BY <1>0 DEF TypeOK, Pipes
  <2> QED
    BY <2>4, <2>5, <2>6, KindBehind
<1> QED
  BY <1>1, <1>5, <1>6 DEF Answers

(* Hosts stay in touch when a userlist handles a message.                  *)
LEMMA TouchUserlist ==
  ASSUME TypeOK, TidyInv, NickInv, TouchInv, NEW j \in Hosts, UserlistStep(j),
         ~clash', lost' = 0
  PROVE  TouchInv'
<1>1. /\ UNCHANGED <<state, socket, antennaNick, idle, channelOps, nickOps, lost, clash>>
      /\ state[j] = "on" /\ toUserlist[j] # << >> /\ toUserlist[j] \in Seq(Message)
      /\ \A k \in Hosts \ {j} : /\ toUserlist'[k] = toUserlist[k]
                               /\ toAntenna'[k] = toAntenna[k]
                               /\ userList'[k] = userList[k]
                               /\ firstTime'[k] = firstTime[k]
  BY UserlistHandles
<1>2. On' = On /\ j \in On
  BY <1>1 DEF On
<1>3. ASSUME NEW h \in On, Silent(h)' PROVE TouchHost(h)'
  <2>1. h \in Hosts /\ Silent(h) /\ TouchHost(h)
    BY <1>1, <1>3 DEF On, Silent, TouchInv
  <2>2. /\ \A k \in Hosts : Keeps(Heard, k) /\ Keeps(Joined, k)
        /\ h # j => Keeps(AnsweredAs(antennaNick[h]), h)
    BY <2>1, TakesKeep
  <2>3. /\ \A k \in On' : Told(h, k) => Told(h, k)'
        /\ Belongs(h) => Belongs(h)'
        /\ h # j => (Answers(h) => Answers(h)')
    <3>1. idle'[h] = idle[h] /\ antennaNick'[h] = antennaNick[h]
      BY <1>1
    <3> QED
      BY <2>1, <2>2, <3>1, KeptByKeeps DEF On
  <2>4. \A k \in On' : Asks(toAntenna[k]) => Asks(toAntenna'[k])
    BY UserlistAsks DEF On
  <2>5. CASE h # j
    <3>1. /\ On' \subseteq On /\ toAntenna'[h] = toAntenna[h]
          /\ firstTime'[h] = firstTime[h] /\ idle'[h] = idle[h]
      BY <1>1, <1>2, <2>1, <2>5
    <3>2. Answers(h) => Answers(h)'
      BY <2>3, <2>5
    <3> QED
      BY <2>1, <2>3, <2>4, <3>1, <3>2, TouchKept
  <2>6. CASE h = j /\ Head(toUserlist[j]).kind # "nick"
    <3>1. /\ On' \subseteq On /\ firstTime'[h] = firstTime[h] /\ idle'[h] = idle[h]
      BY <1>1, <1>2, <2>6, UserlistPosts
    <3>2. toAntenna[h] \in Seq(Message)
      BY <2>1 DEF TypeOK, Pipes
    <3>3. /\ HasKind(toAntenna[h], "set_channel") => HasKind(toAntenna'[h], "set_channel")
          /\ HasKind(toAntenna[h], "changed_nick") <=> HasKind(toAntenna'[h], "changed_nick")
          /\ Speaks(toAntenna[h]) => Speaks(toAntenna'[h])
      <4>1. CASE toAntenna'[j] = toAntenna[j]
        BY <2>6, <4>1
      <4>2. ASSUME NEW x \in Message, x.kind \in {"here", "who_is_here"},
                   toAntenna'[j] = Append(toAntenna[j], x)
            PROVE  /\ HasKind(toAntenna[h], "set_channel") => HasKind(toAntenna'[h], "set_channel")
                   /\ HasKind(toAntenna[h], "changed_nick")
                        <=> HasKind(toAntenna'[h], "changed_nick")
                   /\ Speaks(toAntenna[h]) => Speaks(toAntenna'[h])
        BY <2>6, <3>2, <4>2, KindBehind
      <4> QED
        BY <2>6, <4>1, <4>2, UserlistPosts
    <3>4. Answers(h) => \/ Answers(h)' \/ HasKind(toAntenna[h], "changed_nick")
                        \/ Speaks(toAntenna'[h])
      BY <1>2, <2>6, UserlistAnswers
    <3> QED
      BY <2>1, <2>3, <2>4, <3>1, <3>3, <3>4, TouchKept
  <2>7. CASE h = j /\ Head(toUserlist[j]).kind = "nick"
    <3>1. /\ QueueShape(toAntenna[j], firstTime[j], antennaNick[j])
          /\ ListShape(toUserlist[j], firstTime[j])
          /\ toAntenna[j] \in Seq(Message)
      BY <1>1, <2>1, <2>7 DEF TidyInv, TidyHost, TypeOK, Pipes
    <3>2. firstTime[j]
      BY <1>1, <2>7, <3>1, ListFirst DEF TypeOK
    <3>3. ~HasKind(toAntenna[j], "changed_nick")
      BY <3>1, <3>2, ShapeFree
    <3>4. PICK a \in Message, b \in Message :
            /\ a.kind = "set_channel" /\ b.kind = "changed_nick"
            /\ toAntenna'[j] \in {Append(toAntenna[j], a), Append(Append(toAntenna[j], a), b)}
      BY <2>7, <3>2, UserlistJoins
    <3>5. PICK s \in Seq(Message) : s = Append(toAntenna[j], a)
      BY <3>1, Places
    <3>6. HasKind(s, "set_channel") /\ Speaks(s)
      BY <3>1, <3>3, <3>4, <3>5, KindBehind
    <3>7. HasKind(toAntenna'[j], "set_channel") /\ Speaks(toAntenna'[j])
      <4>1. HasKind(Append(s, b), "set_channel") /\ Speaks(Append(s, b))
        BY <3>6, KindBehind
      <4>2. toAntenna'[j] \in {s, Append(s, b)}
        BY <3>4, <3>5
      <4> QED
        BY <3>6, <4>1, <4>2
    <3> QED
      BY <2>7, <3>7 DEF TouchHost, InTouch
  <2> QED
    BY <2>5, <2>6, <2>7
<1> QED
  BY <1>2, <1>3 DEF TouchInv

(* What the user's acts put behind the queues does not disturb the facts.  *)
LEMMA TouchActs ==
  ASSUME TypeOK, TouchInv, NEW j \in Hosts, NEW x \in Message, NEW m \in Message,
         UNCHANGED <<state, socket, antennaNick, idle, userList, firstTime, lost, clash>>,
         \A k \in Hosts \ {j} : /\ toAntenna'[k] = toAntenna[k]
                               /\ toUserlist'[k] = toUserlist[k]
                               /\ channelOps'[k] = channelOps[k]
                               /\ nickOps'[k] = nickOps[k],
         toAntenna'[j] \in {toAntenna[j], Append(toAntenna[j], x)},
         toUserlist'[j] \in {toUserlist[j], Append(toUserlist[j], m)},
         m.kind \in {"nick", "shutdown"},
         Silent(j)' => Silent(j) /\ x.kind = "shutdown",
         ~clash', lost' = 0
  PROVE  TouchInv'
<1>0. \A k \in Hosts : toUserlist[k] \in Seq(Message) /\ toAntenna[k] \in Seq(Message)
  BY DEF TypeOK, Pipes
<1>1. On' = On
  BY DEF On
<1>2. ASSUME NEW F, \A c \in F : Derives(c, m, c), NEW k \in Hosts PROVE Keeps(F, k)
  <2>1. CASE toUserlist'[k] = toUserlist[k]
    BY <2>1, SameKeeps
  <2>2. CASE toUserlist'[k] = Append(toUserlist[k], m)
    <3>1. userList'[k] = userList[k] /\ socket'[k] = socket[k]
      OBVIOUS
    <3> SUFFICES ASSUME NEW t \in 0..Idle, NEW b,
                        Will(F, userList[k], toUserlist[k], socket[k], t, b)
                 PROVE  Will(F, userList'[k], toUserlist'[k], socket'[k], t, b)
      BY DEF Keeps
    <3> QED
      BY <1>0, <1>2, <2>2, <3>1, WillBehind
  <2> QED
    BY <2>1, <2>2
<1>3. ASSUME NEW h \in On, Silent(h)' PROVE TouchHost(h)'
  <2>1. h \in Hosts /\ Silent(h) /\ TouchHost(h)
    <3>1. h \in Hosts /\ (h # j => Silent(h))
      BY <1>3 DEF On, Silent
    <3> QED
      BY <1>3, <3>1 DEF TouchInv
  <2>2. /\ \A k \in Hosts : Keeps(Heard, k) /\ Keeps(Joined, k)
        /\ Keeps(AnsweredAs(antennaNick[h]), h)
    BY <1>2, <2>1, Neutral
  <2>3. /\ \A k \in On' : Told(h, k) => Told(h, k)'
        /\ Belongs(h) => Belongs(h)'
        /\ Answers(h) => Answers(h)'
    <3>1. idle'[h] = idle[h] /\ antennaNick'[h] = antennaNick[h]
      OBVIOUS
    <3> QED
      BY <2>1, <2>2, <3>1, KeptByKeeps DEF On
  <2>4. \A k \in On' : Asks(toAntenna[k]) => Asks(toAntenna'[k])
    BY <1>0, KindBehind DEF On
  <2>5. /\ HasKind(toAntenna[h], "set_channel") => HasKind(toAntenna'[h], "set_channel")
        /\ HasKind(toAntenna[h], "changed_nick") <=> HasKind(toAntenna'[h], "changed_nick")
        /\ Speaks(toAntenna[h]) => Speaks(toAntenna'[h])
    <3>1. CASE toAntenna'[h] = toAntenna[h]
      BY <3>1
    <3>2. CASE toAntenna'[h] = Append(toAntenna[h], x) /\ x.kind = "shutdown"
      BY <1>0, <2>1, <3>2, KindBehind
    <3> QED
      BY <1>3, <2>1, <3>1, <3>2
  <2>6. On' \subseteq On /\ firstTime'[h] = firstTime[h] /\ idle'[h] = idle[h]
    BY <1>1
  <2> QED
    BY <2>1, <2>3, <2>4, <2>5, <2>6, TouchKept
<1> QED
  BY <1>1, <1>3 DEF TouchInv

(* A newcomer asks for those who are there.                                *)
LEMMA TouchStart ==
  ASSUME TypeOK, TidyInv, TouchInv, NEW j \in Hosts, Start(j), ~clash', lost' = 0
  PROVE  TouchInv'
<1> DEFINE a == OnChannel("who_is_here", DefaultChannel)
<1>1. /\ state[j] = "off" /\ state' = [state EXCEPT ![j] = "on"]
      /\ toAntenna'[j] = <<a>>
      /\ \A k \in Hosts \ {j} : /\ toAntenna'[k] = toAntenna[k]
                               /\ toUserlist'[k] = toUserlist[k]
      /\ ~clash /\ \A k \in On : antennaNick[k] # antennaNick[j]
      /\ UNCHANGED <<socket, antennaNick, idle, userList, firstTime>>
      /\ UNCHANGED <<channelOps, nickOps, lost>>
  BY DEF Start, TypeOK, Pipes
<1>2. On' = On \cup {j} /\ j \notin On /\ \A k \in On : k \in Hosts /\ k # j
  BY <1>1 DEF On, TypeOK
<1>3. firstTime[j] /\ antennaNick[j] = DefaultNick
  BY <1>1 DEF TidyInv, TidyHost
<1>4. TouchHost(j)'
  BY <1>1, <1>3 DEF TouchHost
<1>5. Asks(toAntenna'[j])
  <2>1. Asking(a)
    BY DEF Asking, OnChannel, About
  <2> HIDE DEF a
  <2>2. Len(<<a>>) = 1 /\ <<a>>[1] = a
    OBVIOUS
  <2> QED
    BY <1>1, <2>1, <2>2 DEF Asks
<1>6. ASSUME NEW h \in On, Silent(h)' PROVE TouchHost(h)'
  <2>1. h \in Hosts /\ Silent(h) /\ TouchHost(h) /\ toAntenna'[h] = toAntenna[h]
        /\ toUserlist'[h] = toUserlist[h] /\ state[h] = "on"
    BY <1>1, <1>2, <1>6 DEF On, Silent, TouchInv
  <2>2. /\ toAntenna[h] \in Seq(Message)
        /\ QueueShape(toAntenna[h], firstTime[h], antennaNick[h])
    BY <2>1 DEF TidyInv, TidyHost, TypeOK, Pipes
  <2>3. ~HasKind(toAntenna[h], "changed_nick")
    BY <1>1, <1>3, <2>2, ShapeFree
  <2>4. /\ Belongs(h) => Belongs(h)'
        /\ \A k \in On : InTouch(h, k) => InTouch(h, k)'
    BY <1>1, <1>2, <2>1 DEF Belongs, InTouch, Told, Answers
  <2>5. HasKind(toAntenna[h], "set_channel") => Speaks(toAntenna[h])
    <3>1. toAntenna[h] # << >> \/ ~HasKind(toAntenna[h], "set_channel")
      BY DEF HasKind
    <3> QED
      BY <2>2, <3>1, ShapeAlone
  <2>6. ASSUME ~firstTime[h], ~HasKind(toAntenna[h], "set_channel") PROVE Belongs(h)'
    BY <2>1, <2>4, <2>6 DEF TouchHost
  <2>7. ASSUME ~firstTime[h] PROVE InTouch(h, j)'
    BY <1>5, <2>1, <2>3, <2>5, <2>6, <2>7 DEF InTouch
  <2>8. ASSUME ~firstTime[h], NEW k \in On' PROVE InTouch(h, k)'
    BY <1>2, <2>1, <2>4, <2>7, <2>8 DEF TouchHost
  <2>9. firstTime'[h] = firstTime[h]
    BY <1>1
  <2> QED
    BY <2>1, <2>3, <2>6, <2>8, <2>9 DEF TouchHost
<1> QED
  BY <1>2, <1>4, <1>6 DEF TouchInv

(* Hosts stay in touch whatever a user does.                               *)
LEMMA TouchUser ==
  ASSUME TypeOK, TidyInv, TouchInv, NEW j \in Hosts, UserStep(j), ~clash', lost' = 0
  PROVE  TouchInv'
<1>0. /\ toAntenna[j] \in Seq(Message) /\ toUserlist[j] \in Seq(Message)
      /\ channelOps[j] \in Nat /\ nickOps[j] \in Nat
  BY PresenceAssumption DEF TypeOK, Pipes
<1> DEFINE s == OnChannel("shutdown", NoChannel)
<1>1. s \in Message /\ s.kind = "shutdown"
  BY OnChannelType DEF OnChannel, About
<1>2. ASSUME NEW x \in Seq(Message), NEW y \in Seq(Message), UserActs(j, x, y)
      PROVE  /\ UNCHANGED <<state, socket, antennaNick, idle, userList, firstTime, lost, clash>>
             /\ toAntenna'[j] = toAntenna[j] \o x /\ toUserlist'[j] = toUserlist[j] \o y
             /\ \A k \in Hosts \ {j} : /\ toAntenna'[k] = toAntenna[k]
                                      /\ toUserlist'[k] = toUserlist[k]
  BY <1>2 DEF UserActs, history, TypeOK, Pipes
<1>3. ASSUME NEW c \in Channels, NEW kind \in {"set_channel", "leave_channel", "edict"},
             UseChannel(j, kind, c)
      PROVE  TouchInv'
  <2> DEFINE x == OnChannel(kind, c)
  <2>1. x \in Message
    BY OnChannelType
  <2>2. <<x>> \in Seq(Message) /\ << >> \in Seq(Message)
    BY <2>1
  <2>3. UserActs(j, <<x>>, << >>) /\ UNCHANGED nickOps
        /\ channelOps' = [channelOps EXCEPT ![j] = @ + 1]
    BY <1>3 DEF UseChannel
  <2>4. /\ toAntenna'[j] = Append(toAntenna[j], x) /\ toUserlist'[j] = toUserlist[j]
    BY <1>0, <1>2, <2>1, <2>2, <2>3, BehindOne
  <2>5. ~Silent(j)' /\ \A k \in Hosts \ {j} : channelOps'[k] = channelOps[k]
    BY <1>0, <2>3 DEF Silent, TypeOK
  <2> HIDE DEF x, s
  <2>6. UNCHANGED <<state, socket, antennaNick, idle, userList, firstTime, lost, clash>>
        /\ \A k \in Hosts \ {j} : /\ toAntenna'[k] = toAntenna[k]
                                 /\ toUserlist'[k] = toUserlist[k]
    BY <1>2, <2>2, <2>3
  <2> QED
    BY <1>1, <2>1, <2>3, <2>4, <2>5, <2>6, TouchActs
<1>4. ASSUME NEW n \in Nicks, ChangeNick(j, n) PROVE TouchInv'
  <2> DEFINE y == About("nick", NoChannel, n)
  <2>1. y \in Message /\ y.kind = "nick"
    BY AboutType, PresenceAssumption DEF About
  <2>2. <<y>> \in Seq(Message) /\ << >> \in Seq(Message)
    BY <2>1
  <2>3. UserActs(j, << >>, <<y>>) /\ UNCHANGED channelOps
        /\ nickOps' = [nickOps EXCEPT ![j] = @ + 1]
    BY <1>4 DEF ChangeNick
  <2>4. /\ toUserlist'[j] = Append(toUserlist[j], y) /\ toAntenna'[j] = toAntenna[j]
    BY <1>0, <1>2, <2>1, <2>2, <2>3, BehindOne
  <2>5. ~Silent(j)' /\ \A k \in Hosts \ {j} : nickOps'[k] = nickOps[k]
    BY <1>0, <2>3 DEF Silent, TypeOK
  <2> HIDE DEF y, s
  <2>6. UNCHANGED <<state, socket, antennaNick, idle, userList, firstTime, lost, clash>>
        /\ \A k \in Hosts \ {j} : /\ toAntenna'[k] = toAntenna[k]
                                 /\ toUserlist'[k] = toUserlist[k]
    BY <1>2, <2>2, <2>3
  <2> QED
    BY <1>1, <2>1, <2>3, <2>4, <2>5, <2>6, TouchActs
<1>5. ASSUME Quit(j) PROVE TouchInv'
  <2>1. <<s>> \in Seq(Message)
    BY <1>1
  <2>2. UserActs(j, <<s>>, <<s>>) /\ UNCHANGED <<channelOps, nickOps>>
    BY <1>5 DEF Quit
  <2>3. /\ toUserlist'[j] = Append(toUserlist[j], s) /\ toAntenna'[j] = Append(toAntenna[j], s)
    BY <1>0, <1>1, <1>2, <2>1, <2>2, BehindOne
  <2>4. Silent(j)' => Silent(j)
    BY <2>2 DEF Silent
  <2> HIDE DEF s
  <2>5. UNCHANGED <<state, socket, antennaNick, idle, userList, firstTime, lost, clash>>
        /\ \A k \in Hosts \ {j} : /\ toAntenna'[k] = toAntenna[k]
                                 /\ toUserlist'[k] = toUserlist[k]
    BY <1>2, <2>1, <2>2
  <2> QED
    BY <1>1, <2>2, <2>3, <2>4, <2>5, TouchActs
<1> QED
  BY <1>3, <1>4, <1>5, TouchStart DEF UserStep

(* When nothing is under way a silent host is in every list, and no longer *)
(* unheard than it has been idle.                                          *)
LEMMA QuietTold ==
  ASSUME TypeOK, Quiet, NEW h \in On, TouchHost(h), ~firstTime[h]
  PROVE  /\ \A k \in On : /\ userList[k][antennaNick[h]].known
                          /\ userList[k][antennaNick[h]].age <= idle[h]
         /\ DefaultChannel \in userList[h][antennaNick[h]].channels
         /\ idle[h] <= KeepAlive
<1> DEFINE n == antennaNick[h]
<1>1. /\ \A k \in On : toAntenna[k] = << >> /\ toUserlist[k] = << >> /\ socket[k] = << >>
      /\ idle[h] <= KeepAlive
  BY DEF Quiet
<1>2. \A kind : ~HasKind(<< >>, kind) /\ ~Asks(<< >>) /\ ~Speaks(<< >>)
  BY DEF HasKind, Asks, Speaks
<1>3. Belongs(h) /\ \A k \in On : InTouch(h, k)
  BY <1>1, <1>2 DEF TouchHost
<1>4. /\ Fact("fresh", n).what = "fresh" /\ Fact("fresh", n).nick = n
      /\ Fact("member", n).what = "member" /\ Fact("member", n).nick = n
      /\ Fact("answer", n).what = "answer"
  BY DEF Fact
<1>5. ~Answers(h)
  BY <1>1, <1>4, WillNow, HoldsWhen DEF Answers
<1>6. \A k \in On : Told(h, k)
  BY <1>1, <1>2, <1>3, <1>5 DEF InTouch
<1>7. ASSUME NEW k \in On
      PROVE  userList[k][n].known /\ userList[k][n].age <= idle[h]
  <2>1. Will(Heard, userList[k], << >>, << >>, idle[h], Fact("fresh", n))
    BY <1>1, <1>6 DEF Told
  <2>2. Holds(userList[k], idle[h], Fact("fresh", n))
    BY <2>1, WillNow
  <2> QED
    BY <1>4, <2>2, HoldsWhen
<1>8. DefaultChannel \in userList[h][n].channels
  <2>1. Will(Joined, userList[h], << >>, << >>, 0, Fact("member", n))
    BY <1>1, <1>3 DEF Belongs
  <2>2. Holds(userList[h], 0, Fact("member", n))
    BY <2>1, WillNow
  <2> QED
    BY <1>4, <2>2, HoldsWhen
<1> QED
  BY <1>1, <1>7, <1>8

(* A second passes for the list and for the sender's idle time alike.      *)
LEMMA TouchTick ==
  ASSUME TypeOK, TouchInv, Tick, ~clash', lost' = 0
  PROVE  TouchInv'
<1>1. /\ Quiet /\ UNCHANGED <<state, toAntenna, toUserlist, socket, antennaNick, firstTime>>
      /\ UNCHANGED <<channelOps, nickOps, lost, clash>>
  BY DEF Tick, pipes
<1>2. On' = On
  BY <1>1 DEF On
<1>3. ASSUME NEW h \in On, Silent(h)' PROVE TouchHost(h)'
  <2> DEFINE n == antennaNick[h]
  <2>1. h \in Hosts /\ TouchHost(h) /\ n \in Nicks
    BY <1>1, <1>3 DEF On, Silent, TouchInv, TypeOK
  <2>2. CASE firstTime[h]
    BY <1>1, <2>2 DEF TouchHost
  <2>3. CASE ~firstTime[h]
    <3>1. /\ \A k \in On : /\ userList[k][n].known
                          /\ userList[k][n].age <= idle[h]
          /\ DefaultChannel \in userList[h][n].channels
          /\ idle[h] <= KeepAlive
      BY <1>1, <2>1, <2>3, QuietTold
    <3>2. /\ idle[h] \in Nat /\ KeepAlive \in Nat /\ Expiry \in Nat /\ Idle = KeepAlive + 1
      BY <2>1, PresenceAssumption DEF TypeOK, Idle
    <3>3. idle'[h] = idle[h] + 1
      <4>1. idle'[h] = Later(idle[h], Idle)
        BY <2>1, <1>3 DEF Tick
      <4> QED
        BY <3>1, <3>2, <4>1 DEF Later
    <3>4. ASSUME NEW k \in On
          PROVE  /\ userList'[k][n].known /\ userList'[k][n].age <= idle'[h]
                 /\ userList'[k][n].age \in Nat
                 /\ userList'[k][n].channels = userList[k][n].channels
      <4>1. k \in Hosts /\ userList[k][n] \in Status
        BY <2>1 DEF On, TypeOK
      <4>2. userList'[k][n] = [userList[k][n] EXCEPT !.age = Later(@, Old)]
        BY <2>1, <4>1 DEF Tick
      <4>3. /\ userList'[k][n].known = userList[k][n].known
            /\ userList'[k][n].channels = userList[k][n].channels
            /\ userList'[k][n].age = Later(userList[k][n].age, Old)
        BY <4>1, <4>2 DEF Status
      <4>4. userList[k][n].age \in Nat
        BY <3>2, <4>1 DEF Status, Old
      <4>5. userList'[k][n].age <= userList[k][n].age + 1
        BY <4>3, <4>4 DEF Later
      <4>6. userList'[k][n].age \in Nat
        BY <4>3, <4>4 DEF Later
      <4> QED
        BY <3>1, <3>2, <3>3, <4>3, <4>4, <4>5, <4>6
    <3>5. \A k \in On : toAntenna[k] = << >> /\ toUserlist[k] = << >> /\ socket[k] = << >>
      BY <1>1 DEF Quiet
    <3>6. /\ Fact("fresh", n) \in Heard /\ Fact("member", n) \in Joined
          /\ Fact("fresh", n).what = "fresh" /\ Fact("fresh", n).nick = n
          /\ Fact("member", n).what = "member" /\ Fact("member", n).nick = n
      BY <2>1 DEF Heard, Joined, Fact
    <3>7. ASSUME NEW k \in On PROVE Told(h, k)'
      <4>1. Holds(userList'[k], idle'[h], Fact("fresh", n))
        BY <3>4, <3>6, HoldsWhen
      <4>2. Will(Heard, userList'[k], << >>, << >>, idle'[h], Fact("fresh", n))
        BY <3>6, <4>1, WillNow
      <4> QED
        BY <1>1, <3>5, <4>2 DEF Told
    <3>8. Belongs(h)'
      <4>1. userList'[h][n].age <= Idle
        BY <1>3, <3>1, <3>2, <3>3, <3>4
      <4>2. Holds(userList'[h], 0, Fact("member", n))
        BY <1>3, <3>1, <3>4, <3>6, <4>1, HoldsWhen
      <4>3. Will(Joined, userList'[h], << >>, << >>, 0, Fact("member", n))
        BY <3>6, <4>2, WillNow
      <4> QED
        BY <1>1, <1>3, <3>5, <4>3 DEF Belongs
    <3>9. ~HasKind(toAntenna'[h], "changed_nick")
      BY <1>1, <1>3, <3>5 DEF HasKind
    <3> QED
      BY <1>2, <3>7, <3>8, <3>9 DEF TouchHost, InTouch
  <2> QED
    BY <2>2, <2>3
<1> QED
  BY <1>2, <1>3 DEF TouchInv

(* Hosts stay in touch.                                                    *)
LEMMA TouchStep ==
  ASSUME TypeOK, NickInv, TidyInv, DifferInv, TouchInv, [Next]_vars
  PROVE  TouchInv'
<1> SUFFICES ASSUME ~clash', lost' = 0 PROVE TouchInv'
  BY DEF TouchInv
<1>1. ASSUME NEW j \in Hosts, AntennaStep(j) PROVE TouchInv'
  BY <1>1, TouchJoin, TouchLeft, TouchNick, TouchPlain, TouchGoodbye, TouchAuto,
     TouchReceive DEF AntennaStep
<1>2. CASE UNCHANGED vars
  BY <1>2 DEF vars, pipes, history, TouchInv, TouchHost, InTouch, Told, Belongs,
     Answers, On, Silent
<1> QED
  BY <1>1, <1>2, TouchUserlist, TouchExpire, TouchUser, TouchTick DEF Next

(* Whoever is online and says nothing is in the list of everybody else as  *)
(* soon as nothing is under way, for as long as he is idle: the userlists  *)
(* and antennas of any number of hosts, with any nicks and channels, as    *)
(* long as the sign of life is due before a list forgets.                  *)
THEOREM SilentAreListed == Spec => []OnlineIsListed
<1>1. Init => SocketInv /\ TidyInv /\ DifferInv /\ TouchInv
  <2> SUFFICES ASSUME Init PROVE SocketInv /\ TidyInv /\ DifferInv /\ TouchInv
    OBVIOUS
  <2>1. On = {}
    BY DEF Init, On
  <2>2. SocketInv
    BY DEF Init, SocketInv
  <2>3. TidyInv
    BY DEF Init, TidyInv, TidyHost
  <2> QED
    BY <2>1, <2>2, <2>3 DEF DifferInv, TouchInv
<1>2. TypeOK /\ NickInv /\ SocketInv /\ TidyInv /\ DifferInv /\ TouchInv /\ [Next]_vars
        => SocketInv' /\ TidyInv' /\ DifferInv' /\ TouchInv'
  BY SocketsKept, TidyStep, DifferStep, TouchStep
<1>3. TypeOK /\ TouchInv => OnlineIsListed
  <2> SUFFICES ASSUME TypeOK, TouchInv, Quiet, ~clash, lost = 0,
                      NEW h \in On, NEW k \in On, ~firstTime[h], Silent(h)
               PROVE  userList[k][antennaNick[h]].known
    BY DEF OnlineIsListed
  <2>1. TouchHost(h)
    BY DEF TouchInv
  <2> QED
    BY <2>1, QuietTold
<1> QED
  BY <1>1, <1>2, <1>3, NickStart, NickStep, TypeCorrect, PTL DEF Spec

===============================================================================
