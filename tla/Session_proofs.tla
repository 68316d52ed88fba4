---------------------------- MODULE Session_proofs ----------------------------
(***************************************************************************)
(* Theorems about Session: however many connections a player opens, drops  *)
(* and leaves, and whatever waits on the way to the room, nobody holds a   *)
(* seat without a connection behind it.  What RoomTimers_proofs shows of a *)
(* room with a free environment is carried over to one fed by connections. *)
(***************************************************************************)
EXTENDS Session, RoomTimers_proofs

SessionType ==
    /\ conn \in [Conns -> {"none", "open", "joined", "lost", "closed"}]
    /\ wire \in Seq(RoomEvent) /\ unheard \subseteq Users

\* A connection of u has joined, and its farewell is still to come.
Behind(u) == \E c \in Conns : UserOf[c] = u /\ conn[c] \in {"joined", "lost"}

\* e tells the room that a connection of u is gone.
Bye(e, u) == e.type \in {"disconnected", "left"} /\ e.user = u

\* Once u has no connection behind it, every join still on the subject is followed by a
\* farewell there,
WireCovered(u) ==
    \A i \in DOMAIN wire : wire[i] = ParticipantJoined(u) => \E j \in DOMAIN wire : j > i /\ Bye(wire[j], u)

\* and every join in the inbox by a farewell behind it or on the subject.
InboxCovered(u) ==
    \A i \in DOMAIN inbox : inbox[i] = ParticipantJoined(u) =>
        \/ \E j \in DOMAIN inbox : j > i /\ Bye(inbox[j], u)
        \/ \E j \in DOMAIN wire : Bye(wire[j], u)

\* The order of a player's joins and farewells survives the way to the room, unless one of
\* them was lost.
JoinsCovered ==
    ~ctxDone => \A u \in Users \ unheard : Behind(u) \/ (WireCovered(u) /\ InboxCovered(u))

SessionInv == TimerInv /\ SessionType /\ JoinsCovered /\ SeatHasConnection

-----------------------------------------------------------------------------
(* Queues.                                                                  *)

\* Where the messages of a queue are once the first has been taken.
LEMMA TailAt ==
    ASSUME NEW S, NEW s \in Seq(S), s # <<>>
    PROVE  /\ Tail(s) \in Seq(S) /\ Len(s) \in Nat \ {0} /\ DOMAIN s = 1..Len(s) /\ Head(s) = s[1] /\ Head(s) \in S
           /\ DOMAIN Tail(s) = 1..(Len(s) - 1) /\ \A i \in 1..(Len(s) - 1) : Tail(s)[i] = s[i + 1]
OBVIOUS

\* Where they are once another has been added.
LEMMA AppendAt ==
    ASSUME NEW S, NEW s \in Seq(S), NEW e \in S
    PROVE  /\ Append(s, e) \in Seq(S) /\ Len(s) \in Nat /\ DOMAIN s = 1..Len(s)
           /\ DOMAIN Append(s, e) = 1..(Len(s) + 1) /\ Append(s, e)[Len(s) + 1] = e
           /\ \A i \in 1..Len(s) : Append(s, e)[i] = s[i]
OBVIOUS

\* What a connection publishes is an event of the room's, and joins and farewells are
\* told apart.
LEMMA Frames ==
    ASSUME NEW u \in Users
    PROVE  /\ ParticipantJoined(u) \in RoomEvent /\ ParticipantLeft(u) \in RoomEvent
           /\ \A n \in Drops : ParticipantDisconnected(u, n) \in RoomEvent
           /\ \A s \in 1..MaxSeq, w \in 0..DistanceMeters : TelemetryReceived(u, s, w) \in RoomEvent
           /\ Bye(ParticipantLeft(u), u) /\ \A n : Bye(ParticipantDisconnected(u, n), u)
           /\ \A v : ParticipantLeft(u) # ParticipantJoined(v)
           /\ \A v, n : ParticipantDisconnected(u, n) # ParticipantJoined(v)
           /\ \A v, s, w : TelemetryReceived(u, s, w) # ParticipantJoined(v)
           /\ \A v : v # u => ParticipantJoined(u) # ParticipantJoined(v)
<1>1. /\ ParticipantJoined(u) \in RoomEvent /\ ParticipantLeft(u) \in RoomEvent
      /\ \A n \in Drops : ParticipantDisconnected(u, n) \in RoomEvent
      /\ \A s \in 1..MaxSeq, w \in 0..DistanceMeters : TelemetryReceived(u, s, w) \in RoomEvent
  BY DEF RoomEvent
<1>2. Bye(ParticipantLeft(u), u) /\ \A n : Bye(ParticipantDisconnected(u, n), u)
  BY DEF Bye, ParticipantLeft, ParticipantDisconnected
<1>3. /\ \A v : ParticipantJoined(v).type = "joined" /\ ParticipantJoined(v).user = v
      /\ ParticipantLeft(u).type = "left" /\ \A n : ParticipantDisconnected(u, n).type = "disconnected"
      /\ \A s, w : TelemetryReceived(u, s, w).type = "telemetry"
  BY DEF ParticipantJoined, ParticipantLeft, ParticipantDisconnected, TelemetryReceived
<1> QED
  BY <1>1, <1>2, <1>3

\* A join names its player.
LEMMA JoinedUser ==
    ASSUME NEW e \in RoomEvent, e.type = "joined"
    PROVE  e = ParticipantJoined(e.user)
BY DEF RoomEvent, TimerEvent, ParticipantJoined, TelemetryReceived, ParticipantDisconnected, ParticipantEvicted,
       ParticipantLeft, noShowTimeout, activated, pendingExpired

\* What a timer or a start request sends is no join.
LEMMA RoomsOwn ==
    ASSUME NEW ev \in TimerEvent \cup {activated}, NEW v
    PROVE  ev \in RoomEvent /\ ev # ParticipantJoined(v)
<1>1. ParticipantJoined(v).type = "joined"
  BY DEF ParticipantJoined
<1>2. ev.type \in {"noShowTimeout", "pendingExpired", "evicted", "activated"}
  BY DEF TimerEvent, ParticipantEvicted, noShowTimeout, activated, pendingExpired
<1>3. ev \in RoomEvent
  BY DEF RoomEvent
<1> QED
  BY <1>1, <1>2, <1>3

-----------------------------------------------------------------------------
(* Steps.                                                                   *)

\* A connection's steps leave the room alone and move one connection.
LEMMA PlayerFrame ==
    ASSUME SessionInv, NEW c \in Conns, Player(c) \/ Report(c) \/ HubClosed(c)
    PROVE  /\ UNCHANGED <<actorVars, closingVars, timerVars, storeVars, starter, joining, running, inbox>>
           /\ joins' \in 0..MaxJoins /\ drops' \in 0..MaxDrops
           /\ \E p \in {"none", "open", "joined", "lost", "closed"} : conn' = [conn EXCEPT ![c] = p]
           /\ unheard \subseteq unheard' /\ unheard' \subseteq unheard \cup {UserOf[c]}
           /\ wire' = wire \/ \E ev \in RoomEvent : wire' = Append(wire, ev)
<1>0. /\ joins \in 0..MaxJoins /\ drops \in 0..MaxDrops /\ SessionType /\ UserOf[c] \in Users
      /\ conn \in [Conns -> {"none", "open", "joined", "lost", "closed"}]
  BY ConnsAssumption DEF SessionInv, TimerInv, TypeOK, OutsideType, SessionType
<1>1. UNCHANGED <<actorVars, closingVars, timerVars, storeVars, starter, joining, running, inbox>>
  BY DEF Player, Handshake, SendJoin, SendTelemetry, SendLeave, HangUp, Report, HubClosed, RoomStands
<1>2. joins' \in 0..MaxJoins /\ drops' \in 0..MaxDrops
  <2>1. \/ UNCHANGED <<joins, drops>>
        \/ joins < MaxJoins /\ joins' = joins + 1 /\ UNCHANGED drops
        \/ drops < MaxDrops /\ drops' = drops + 1 /\ UNCHANGED joins
    BY DEF Player, Handshake, SendJoin, SendTelemetry, SendLeave, HangUp, Report, HubClosed
  <2> QED
    BY <1>0, <2>1, BoundsAssumption
<1>3. \E p \in {"none", "open", "joined", "lost", "closed"} : conn' = [conn EXCEPT ![c] = p]
  <2>1. CASE conn' = conn
    <3>1. conn' = [conn EXCEPT ![c] = conn[c]] /\ conn[c] \in {"none", "open", "joined", "lost", "closed"}
      BY <1>0, <2>1
    <3> QED
      BY <3>1
  <2> QED
    BY <2>1 DEF Player, Handshake, SendJoin, SendTelemetry, SendLeave, HangUp, Report, HubClosed
<1>4. /\ unheard \subseteq unheard' /\ unheard' \subseteq unheard \cup {UserOf[c]}
  BY DEF Player, Handshake, SendJoin, SendTelemetry, SendLeave, HangUp, Report, HubClosed, Publish
<1>5. wire' = wire \/ \E ev \in RoomEvent : wire' = Append(wire, ev)
  <2>1. CASE Report(c)
    <3>1. drops + 1 \in Drops
      BY <1>0, <2>1, BoundsAssumption DEF Report, Drops
    <3> QED
      BY <1>0, <2>1, <3>1, Frames DEF Report, Publish
  <2>2. CASE SendJoin(c) \/ SendLeave(c)
    BY <1>0, <2>2, Frames DEF SendJoin, SendLeave, Publish
  <2>3. CASE SendTelemetry(c)
    BY <1>0, <2>3, Frames DEF SendTelemetry, Publish
  <2>4. CASE Handshake(c) \/ HangUp(c) \/ HubClosed(c)
    BY <2>4 DEF Handshake, HangUp, HubClosed
  <2> QED
    BY <2>1, <2>2, <2>3, <2>4 DEF Player
<1> QED
  BY <1>1, <1>2, <1>3, <1>4, <1>5

\* feedInbox takes the first message to the end of the inbox, or nowhere once the room has
\* closed.
LEMMA FeedFrame ==
    ASSUME SessionInv, feedInbox
    PROVE  /\ UNCHANGED <<actorVars, closingVars, timerVars, storeVars, envVars, running, conn, unheard>>
           /\ wire # <<>> /\ wire \in Seq(RoomEvent) /\ Head(wire) \in RoomEvent
           /\ wire' = Tail(wire) /\ wire' \in Seq(RoomEvent)
           /\ Send(Head(wire)) /\ (~ctxDone => inbox' = Append(inbox, Head(wire)))
<1>1. wire # <<>> /\ wire \in Seq(RoomEvent)
  BY DEF feedInbox, SessionInv, SessionType
<1>2. Head(wire) \in RoomEvent /\ Tail(wire) \in Seq(RoomEvent)
  BY <1>1, TailAt
<1> QED
  BY <1>1, <1>2 DEF feedInbox, Send

\* The three kinds of step.
LEMMA SessionCases ==
    ASSUME [SessionNext]_allVars
    PROVE  \/ \E c \in Conns : Player(c) \/ Report(c) \/ HubClosed(c)
           \/ feedInbox
           \/ /\ [Next]_vars /\ UNCHANGED sessionVars
              /\ applyEvent \/ RunReturns \/ Timers \/ StartRequests \/ UNCHANGED vars
BY DEF SessionNext, RoomSteps, Next, allVars, sessionVars

\* Every step of the session keeps every variable's type.
LEMMA SessionTypes ==
    ASSUME SessionInv, [SessionNext]_allVars
    PROVE  TypeOK' /\ SessionType'
<1>0. TypeOK /\ SessionType
  BY DEF SessionInv, TimerInv
<1>1. ASSUME NEW c \in Conns, Player(c) \/ Report(c) \/ HubClosed(c) PROVE TypeOK' /\ SessionType'
  <2>1. UserOf[c] \in Users
    BY ConnsAssumption
  <2>2. /\ UNCHANGED <<actorVars, closingVars, timerVars, storeVars, starter, joining, running, inbox>>
        /\ joins' \in 0..MaxJoins /\ drops' \in 0..MaxDrops
        /\ \E p \in {"none", "open", "joined", "lost", "closed"} : conn' = [conn EXCEPT ![c] = p]
        /\ unheard' \subseteq unheard \cup {UserOf[c]}
        /\ wire' = wire \/ \E ev \in RoomEvent : wire' = Append(wire, ev)
    BY <1>1, PlayerFrame
  <2>3. TypeOK'
    BY <1>0, <2>2
    DEF TypeOK, ActorType, ClosingType, QueueType, OutsideType, actorVars, closingVars, timerVars, storeVars
  <2>4. wire' \in Seq(RoomEvent)
    BY <1>0, <2>2, AppendAt DEF SessionType
  <2>5. conn' \in [Conns -> {"none", "open", "joined", "lost", "closed"}] /\ unheard' \subseteq Users
    BY <1>0, <2>1, <2>2 DEF SessionType
  <2> QED
    BY <2>3, <2>4, <2>5 DEF SessionType
<1>2. CASE feedInbox
  <2>1. /\ UNCHANGED <<actorVars, closingVars, timerVars, storeVars, envVars, running, conn, unheard>>
        /\ Head(wire) \in RoomEvent /\ wire' \in Seq(RoomEvent) /\ Send(Head(wire))
    BY <1>2, FeedFrame
  <2>2. inbox' \in Seq(RoomEvent) /\ Len(inbox') <= InboxCap
    BY <1>0, <2>1, SendType DEF TypeOK
  <2>3. TypeOK'
    BY <1>0, <2>1, <2>2
    DEF TypeOK, ActorType, ClosingType, QueueType, OutsideType, actorVars, closingVars, timerVars, storeVars, envVars
  <2> QED
    BY <1>0, <2>1, <2>3 DEF SessionType
<1>3. CASE [Next]_vars /\ UNCHANGED sessionVars
  BY <1>0, <1>3, NextType DEF SessionType, sessionVars
<1> QED
  BY <1>1, <1>2, <1>3, SessionCases

\* What the room keeps about timers and closing it keeps when connections feed it.
LEMMA SessionTimers ==
    ASSUME SessionInv, [SessionNext]_allVars
    PROVE  TimerInv'
<1>0. TimerInv /\ TypeOK /\ TypeOK'
  BY SessionTypes DEF SessionInv, TimerInv
<1>1. ASSUME UNCHANGED <<actorVars, closingVars, timerVars>>, Range(inbox) \subseteq Range(inbox')
      PROVE  TimerInv'
  <2>1. UNCHANGED <<participants, totalParticipants, ctxDone, finished, failures, armed, fired>>
    BY <1>1 DEF actorVars, closingVars, timerVars
  <2>2. FinishedClosed' /\ GraceExpiryPending'
    BY <1>0, <1>1, <2>1 DEF TimerInv, FinishedClosed, GraceExpiryPending
  <2>3. NoAbandonedRoom'
    BY <1>0, <1>1, <2>1 DEF TimerInv, NoAbandonedRoom, Unfinished
  <2> QED
    BY <1>0, <2>2, <2>3 DEF TimerInv
<1>2. ASSUME NEW c \in Conns, Player(c) \/ Report(c) \/ HubClosed(c) PROVE TimerInv'
  BY <1>1, <1>2, PlayerFrame
<1>3. CASE feedInbox
  BY <1>0, <1>1, <1>3, FeedFrame, SendDelivers
<1>4. CASE [Next]_vars
  BY <1>0, <1>4, NextTimers
<1> QED
  BY <1>2, <1>3, <1>4, SessionCases

-----------------------------------------------------------------------------
(* What a step of a connection does to its player.                          *)

\* Of a player of whom nothing was lost, either a connection stays behind, or the last one
\* has gone and its farewell is the newest message, or nothing was taken away.
LEMMA PlayerNews ==
    ASSUME SessionInv, NEW c \in Conns, Player(c) \/ Report(c) \/ HubClosed(c), ~ctxDone,
           NEW v \in Users, v \notin unheard'
    PROVE  \/ Behind(v)'
           \/ /\ Behind(v) => Behind(v)'
              /\ wire' = wire \/ \E ev \in RoomEvent : ev # ParticipantJoined(v) /\ wire' = Append(wire, ev)
           \/ \E ev \in RoomEvent : Bye(ev, v) /\ ev # ParticipantJoined(v) /\ wire' = Append(wire, ev)
<1>0. /\ UserOf[c] \in Users /\ conn \in [Conns -> {"none", "open", "joined", "lost", "closed"}]
      /\ drops \in 0..MaxDrops
  BY ConnsAssumption DEF SessionInv, TimerInv, TypeOK, OutsideType, SessionType
<1>1. PICK p : conn' = [conn EXCEPT ![c] = p]
  BY PlayerFrame
<1>2. CASE UserOf[c] # v
  <2>1. Behind(v) => Behind(v)'
    BY <1>0, <1>1, <1>2 DEF Behind
  <2>2. wire' = wire \/ \E ev \in RoomEvent : ev # ParticipantJoined(v) /\ wire' = Append(wire, ev)
    <3>1. CASE Report(c)
      <4>1. drops + 1 \in Drops
        BY <1>0, <3>1, BoundsAssumption DEF Report, Drops
      <4> QED
        BY <1>0, <3>1, <4>1, Frames DEF Report, Publish
    <3>2. CASE SendJoin(c) \/ SendLeave(c)
      BY <1>0, <1>2, <3>2, Frames DEF SendJoin, SendLeave, Publish
    <3>3. CASE SendTelemetry(c)
      BY <1>0, <3>3, Frames DEF SendTelemetry, Publish
    <3>4. CASE Handshake(c) \/ HangUp(c) \/ HubClosed(c)
      BY <3>4 DEF Handshake, HangUp, HubClosed
    <3> QED
      BY <3>1, <3>2, <3>3, <3>4 DEF Player
  <2> QED
    BY <2>1, <2>2
<1>3. CASE UserOf[c] = v
  <2>1. CASE SendJoin(c) \/ HangUp(c)
    <3>1. conn'[c] \in {"joined", "lost"}
      BY <1>0, <2>1 DEF SendJoin, HangUp
    <3> QED
      BY <1>3, <3>1 DEF Behind
  <2>2. CASE SendLeave(c)
    BY <1>0, <1>3, <2>2, Frames DEF SendLeave, Publish
  <2>3. CASE Report(c)
    <3>1. drops + 1 \in Drops
      BY <1>0, <2>3, BoundsAssumption DEF Report, Drops
    <3> QED
      BY <1>0, <1>3, <2>3, <3>1, Frames DEF Report, Publish
  <2>4. CASE SendTelemetry(c)
    <3>1. conn' = conn
      BY <2>4 DEF SendTelemetry
    <3>2. wire' = wire \/ \E ev \in RoomEvent : ev # ParticipantJoined(v) /\ wire' = Append(wire, ev)
      BY <1>0, <2>4, Frames DEF SendTelemetry, Publish
    <3> QED
      BY <3>1, <3>2 DEF Behind
  <2>5. CASE Handshake(c)
    <3>1. conn[c] = "none" /\ wire' = wire
      BY <2>5 DEF Handshake
    <3>2. Behind(v) => Behind(v)'
      BY <1>0, <1>1, <3>1 DEF Behind
    <3> QED
      BY <3>1, <3>2
  <2>6. CASE HubClosed(c)
    <3>1. conn[c] = "open" /\ wire' = wire
      BY <1>3, <2>6 DEF HubClosed
    <3>2. Behind(v) => Behind(v)'
      BY <1>0, <1>1, <3>1 DEF Behind
    <3> QED
      BY <3>1, <3>2
  <2> QED
    BY <2>1, <2>2, <2>3, <2>4, <2>5, <2>6 DEF Player
<1> QED
  BY <1>2, <1>3

\* Nothing published is taken back.
LEMMA WireGrows ==
    ASSUME SessionInv, wire' = wire \/ \E ev \in RoomEvent : wire' = Append(wire, ev)
    PROVE  Range(wire) \subseteq Range(wire')
BY AppendRange DEF SessionInv, SessionType

\* A player's joins stay covered when a connection takes a step.
LEMMA PlayerCovered ==
    ASSUME SessionInv, NEW c \in Conns, Player(c) \/ Report(c) \/ HubClosed(c)
    PROVE  JoinsCovered'
<1>0. wire \in Seq(RoomEvent) /\ UNCHANGED <<ctxDone, inbox>> /\ unheard \subseteq unheard'
  BY PlayerFrame DEF SessionInv, SessionType, closingVars
<1> SUFFICES ASSUME ~ctxDone, NEW v \in Users, v \notin unheard', ~Behind(v)'
             PROVE  WireCovered(v)' /\ InboxCovered(v)'
  BY <1>0 DEF JoinsCovered
<1>1. ASSUME NEW ev \in RoomEvent, wire' = Append(wire, ev)
      PROVE  /\ Len(wire) \in Nat /\ DOMAIN wire = 1..Len(wire) /\ DOMAIN wire' = 1..(Len(wire) + 1)
             /\ wire'[Len(wire) + 1] = ev /\ \A i \in 1..Len(wire) : wire'[i] = wire[i]
  BY <1>0, <1>1, AppendAt
<1>2. ASSUME NEW ev \in RoomEvent, Bye(ev, v), ev # ParticipantJoined(v), wire' = Append(wire, ev)
      PROVE  WireCovered(v)' /\ InboxCovered(v)'
  <2>1. /\ Len(wire) \in Nat /\ DOMAIN wire' = 1..(Len(wire) + 1) /\ wire'[Len(wire) + 1] = ev
    BY <1>1, <1>2
  <2>2. Len(wire) + 1 \in DOMAIN wire' /\ Bye(wire'[Len(wire) + 1], v)
    BY <1>2, <2>1
  <2>3. \A i \in DOMAIN wire' : wire'[i] = ParticipantJoined(v) => Len(wire) + 1 > i
    BY <1>2, <2>1
  <2>4. WireCovered(v)'
    BY <2>2, <2>3 DEF WireCovered
  <2>5. InboxCovered(v)'
    BY <2>2 DEF InboxCovered
  <2> QED
    BY <2>4, <2>5
<1>3. CASE ~Behind(v)
  <2>1. WireCovered(v) /\ InboxCovered(v)
    BY <1>0, <1>3 DEF SessionInv, JoinsCovered
  <2>2. CASE wire' = wire
    BY <1>0, <2>1, <2>2 DEF WireCovered, InboxCovered
  <2>3. ASSUME NEW ev \in RoomEvent, ev # ParticipantJoined(v), wire' = Append(wire, ev)
        PROVE  WireCovered(v)' /\ InboxCovered(v)'
    <3>1. /\ Len(wire) \in Nat /\ DOMAIN wire = 1..Len(wire) /\ DOMAIN wire' = 1..(Len(wire) + 1)
          /\ wire'[Len(wire) + 1] = ev /\ \A i \in 1..Len(wire) : wire'[i] = wire[i]
      BY <1>1, <2>3
    <3>2. \A i \in DOMAIN wire : i \in DOMAIN wire' /\ wire'[i] = wire[i]
      BY <3>1
    <3>3. \A i \in DOMAIN wire' : wire'[i] = ParticipantJoined(v) => i \in DOMAIN wire
      BY <2>3, <3>1
    <3>4. WireCovered(v)'
      <4> SUFFICES ASSUME NEW i \in DOMAIN wire', wire'[i] = ParticipantJoined(v)
                   PROVE  \E j \in DOMAIN wire' : j > i /\ Bye(wire'[j], v)
        BY DEF WireCovered
      <4>1. i \in DOMAIN wire /\ wire[i] = ParticipantJoined(v)
        BY <3>2, <3>3
      <4>2. PICK j \in DOMAIN wire : j > i /\ Bye(wire[j], v)
        BY <2>1, <4>1 DEF WireCovered
      <4> QED
        BY <3>2, <4>2
    <3>5. InboxCovered(v)'
      BY <1>0, <2>1, <3>2 DEF InboxCovered
    <3> QED
      BY <3>4, <3>5
  <2> QED
    BY <1>2, <2>2, <2>3, PlayerNews
<1>4. CASE Behind(v)
  BY <1>2, <1>4, PlayerNews
<1> QED
  BY <1>3, <1>4

\* A seat stays backed when a connection takes a step.
LEMMA PlayerSeats ==
    ASSUME SessionInv, NEW c \in Conns, Player(c) \/ Report(c) \/ HubClosed(c)
    PROVE  SeatHasConnection'
<1>0. /\ wire \in Seq(RoomEvent) /\ UNCHANGED <<ctxDone, inbox, participants>> /\ unheard \subseteq unheard'
      /\ Range(wire) \subseteq Range(wire') /\ DOMAIN participants \subseteq Users
  BY PlayerFrame, WireGrows
  DEF SessionInv, TimerInv, TypeOK, ActorType, IsPartialFunction, SessionType, closingVars, actorVars
<1> SUFFICES ASSUME ~ctxDone, NEW v \in DOMAIN participants, v \notin unheard', ~participants[v].disconnected,
                    ~Behind(v)'
             PROVE  OnTheWay(v, {"disconnected", "left"})'
  BY <1>0 DEF SeatHasConnection, Behind
<1>1. Behind(v) \/ OnTheWay(v, {"disconnected", "left"})
  BY <1>0 DEF SessionInv, SeatHasConnection, Behind
<1>2. CASE OnTheWay(v, {"disconnected", "left"})
  BY <1>0, <1>2 DEF OnTheWay
<1>3. CASE Behind(v)
  <2>1. PICK ev \in RoomEvent : Bye(ev, v) /\ wire' = Append(wire, ev)
    BY <1>0, <1>3, PlayerNews
  <2>2. ev \in Range(wire')
    BY <1>0, <2>1, AppendRange
  <2> QED
    BY <2>1, <2>2 DEF OnTheWay, Bye
<1> QED
  BY <1>1, <1>2, <1>3

-----------------------------------------------------------------------------
(* The way to the room.                                                     *)

\* A message keeps its place behind everything sent before it, and what was behind it on
\* the subject stays there.
LEMMA FeedCovered ==
    ASSUME SessionInv, feedInbox
    PROVE  JoinsCovered' /\ SeatHasConnection'
<1>0. /\ wire \in Seq(RoomEvent) /\ wire # <<>> /\ wire' = Tail(wire) /\ Head(wire) \in RoomEvent
      /\ UNCHANGED <<ctxDone, conn, unheard, participants>> /\ inbox \in Seq(RoomEvent)
      /\ ~ctxDone => inbox' = Append(inbox, Head(wire))
  BY FeedFrame DEF SessionInv, TimerInv, TypeOK, QueueType, closingVars, actorVars
<1>1. SUFFICES ASSUME ~ctxDone PROVE JoinsCovered' /\ SeatHasConnection'
  BY <1>0 DEF JoinsCovered, SeatHasConnection
<1>2. /\ Len(wire) \in Nat \ {0} /\ DOMAIN wire = 1..Len(wire) /\ Head(wire) = wire[1]
      /\ DOMAIN wire' = 1..(Len(wire) - 1) /\ \A i \in 1..(Len(wire) - 1) : wire'[i] = wire[i + 1]
  BY <1>0, TailAt
<1>3. /\ Len(inbox) \in Nat /\ DOMAIN inbox = 1..Len(inbox) /\ DOMAIN inbox' = 1..(Len(inbox) + 1)
      /\ inbox'[Len(inbox) + 1] = wire[1] /\ \A i \in 1..Len(inbox) : inbox'[i] = inbox[i]
  BY <1>0, <1>1, <1>2, AppendAt
<1>4. \A j \in DOMAIN wire : j = 1 \/ (j - 1 \in DOMAIN wire' /\ wire'[j - 1] = wire[j])
  BY <1>2
<1>5. JoinsCovered'
  <2> SUFFICES ASSUME NEW v \in Users \ unheard, ~Behind(v)
               PROVE  WireCovered(v)' /\ InboxCovered(v)'
    BY <1>0 DEF JoinsCovered, Behind
  <2>1. WireCovered(v) /\ InboxCovered(v)
    BY <1>1 DEF SessionInv, JoinsCovered
  <2>2. WireCovered(v)'
    <3> SUFFICES ASSUME NEW i \in DOMAIN wire', wire'[i] = ParticipantJoined(v)
                 PROVE  \E j \in DOMAIN wire' : j > i /\ Bye(wire'[j], v)
      BY DEF WireCovered
    <3>1. i \in 1..(Len(wire) - 1) /\ i + 1 \in DOMAIN wire /\ wire[i + 1] = ParticipantJoined(v)
      BY <1>2
    <3>2. PICK j \in DOMAIN wire : j > i + 1 /\ Bye(wire[j], v)
      BY <2>1, <3>1 DEF WireCovered
    <3>3. j - 1 \in DOMAIN wire' /\ wire'[j - 1] = wire[j] /\ j - 1 > i
      BY <1>2, <3>1, <3>2
    <3> QED
      BY <3>2, <3>3
  <2>3. InboxCovered(v)'
    <3> SUFFICES ASSUME NEW i \in DOMAIN inbox', inbox'[i] = ParticipantJoined(v)
                 PROVE  \/ \E j \in DOMAIN inbox' : j > i /\ Bye(inbox'[j], v)
                        \/ \E j \in DOMAIN wire' : Bye(wire'[j], v)
      BY DEF InboxCovered
    <3>1. CASE i = Len(inbox) + 1
      <4>1. 1 \in DOMAIN wire /\ wire[1] = ParticipantJoined(v)
        BY <1>2, <1>3, <3>1
      <4>2. PICK j \in DOMAIN wire : j > 1 /\ Bye(wire[j], v)
        BY <2>1, <4>1 DEF WireCovered
      <4>3. j # 1
        BY <1>2, <4>2
      <4> QED
        BY <1>4, <4>2, <4>3
    <3>2. CASE i # Len(inbox) + 1
      <4>1. i \in DOMAIN inbox /\ inbox[i] = ParticipantJoined(v)
        BY <1>3, <3>2
      <4>2. CASE \E j \in DOMAIN inbox : j > i /\ Bye(inbox[j], v)
        <5>1. PICK j \in DOMAIN inbox : j > i /\ Bye(inbox[j], v)
          BY <4>2
        <5>2. j \in DOMAIN inbox' /\ inbox'[j] = inbox[j]
          BY <1>3
        <5> QED
          BY <5>1, <5>2
      <4>3. CASE \E j \in DOMAIN wire : Bye(wire[j], v)
        <5>1. PICK j \in DOMAIN wire : Bye(wire[j], v)
          BY <4>3
        <5>2. CASE j = 1
          <6>1. Len(inbox) + 1 \in DOMAIN inbox' /\ Len(inbox) + 1 > i
            BY <1>3, <4>1
          <6> QED
            BY <1>3, <5>1, <5>2, <6>1
        <5>3. CASE j # 1
          BY <1>4, <5>1, <5>3
        <5> QED
          BY <5>2, <5>3
      <4> QED
        BY <2>1, <4>1, <4>2, <4>3 DEF InboxCovered
    <3> QED
      BY <3>1, <3>2
  <2> QED
    BY <2>2, <2>3
<1>6. SeatHasConnection'
  <2>1. Range(wire) \cup Range(inbox) \subseteq Range(wire') \cup Range(inbox')
    <3>1. Range(inbox) \subseteq Range(inbox') /\ Head(wire) \in Range(inbox')
      BY <1>0, <1>1, AppendRange
    <3>2. \A e \in Range(wire) : e = Head(wire) \/ e \in Range(wire')
      BY <1>0, TailRange
    <3> QED
      BY <3>1, <3>2
  <2>2. \A v : OnTheWay(v, {"disconnected", "left"}) => OnTheWay(v, {"disconnected", "left"})'
    BY <2>1 DEF OnTheWay
  <2> QED
    BY <1>0, <1>1, <2>2 DEF SessionInv, SeatHasConnection
<1> QED
  BY <1>5, <1>6

-----------------------------------------------------------------------------
(* The room.                                                                *)

\* A player who holds a seat after an event is marked disconnected, has just joined, or
\* held it before, in the same way, and the event was no farewell of theirs.
LEMMA SeatNews ==
    ASSUME TypeOK, applyEvent, NEW u \in DOMAIN participants'
    PROVE  \/ participants'[u].disconnected
           \/ Head(inbox) = ParticipantJoined(u)
           \/ /\ u \in DOMAIN participants /\ participants'[u].disconnected = participants[u].disconnected
              /\ ~Bye(Head(inbox), u)
<1> DEFINE e == Head(inbox)
<1>1. /\ IsPartialFunction(participants, Users, ParticipantState)
      /\ \A v \in DOMAIN participants : participants[v] \in ParticipantState
  BY DEF TypeOK, ActorType, IsPartialFunction
<1>2. CASE applyJoined
  <2>1. e \in RoomEvent /\ e.type = "joined"
    BY <1>2, ReceiveType DEF applyJoined, TypeOK
  <2>2. CASE u = e.user
    BY <2>1, <2>2, JoinedUser
  <2>3. CASE u # e.user
    <3>1. \/ e.user \in DOMAIN participants /\ participants' = [participants EXCEPT ![e.user] = Reconnected(@)]
          \/ participants' = participants
          \/ participants' = Put(participants, e.user, NewParticipant)
      BY <1>2 DEF applyJoined
    <3>2. u \in DOMAIN participants /\ participants'[u] = participants[u]
      BY <1>1, <2>3, <3>1 DEF Put, IsPartialFunction
    <3> QED
      BY <2>1, <3>2 DEF Bye
  <2> QED
    BY <2>2, <2>3
<1>3. CASE applyTelemetry
  <2>1. e.type = "telemetry"
    BY <1>3, ReceiveType DEF applyTelemetry, TypeOK
  <2>2. CASE participants' = participants
    BY <2>1, <2>2 DEF Bye
  <2>3. CASE participants' # participants
    <3>1. PICK v \in DOMAIN participants, p \in ParticipantState :
              participants' = [participants EXCEPT ![v] = p] /\ p.disconnected = participants[v].disconnected
      BY <1>3, <2>3, TelemetrySeat
    <3>2. u \in DOMAIN participants /\ participants'[u].disconnected = participants[u].disconnected
      BY <1>1, <3>1 DEF IsPartialFunction
    <3> QED
      BY <2>1, <3>2 DEF Bye
  <2> QED
    BY <2>2, <2>3
<1>4. CASE applyDisconnected
  <2>1. e.type = "disconnected"
    BY <1>4, ReceiveType DEF applyDisconnected, TypeOK
  <2>2. CASE e.user \notin DOMAIN participants /\ participants' = participants
    BY <2>2 DEF Bye
  <2>3. CASE e.user \in DOMAIN participants /\ participants' = [participants EXCEPT ![e.user] = LostConnection(@, e.drop)]
    <3>1. CASE u = e.user
      <4>1. participants'[u] = LostConnection(participants[u], e.drop) /\ participants[u] \in ParticipantState
        BY <1>1, <2>3, <3>1 DEF IsPartialFunction
      <4>2. LostConnection(participants[u], e.drop).disconnected
        BY <4>1 DEF LostConnection, ParticipantState
      <4> QED
        BY <4>1, <4>2
    <3>2. CASE u # e.user
      <4>1. u \in DOMAIN participants /\ participants'[u] = participants[u]
        BY <1>1, <2>3, <3>2 DEF IsPartialFunction
      <4> QED
        BY <3>2, <4>1 DEF Bye
    <3> QED
      BY <3>1, <3>2
  <2> QED
    BY <1>4, <2>2, <2>3 DEF applyDisconnected
<1>5. ASSUME NEW v, participants' = Drop(participants, v)
      PROVE  u \in DOMAIN participants /\ u # v /\ participants'[u] = participants[u]
  BY <1>1, <1>5, DropType
<1>6. CASE applyEvicted
  <2>1. e.type = "evicted" /\ (participants' = participants \/ participants' = Drop(participants, e.user))
    BY <1>6, ReceiveType DEF applyEvicted, departParticipant, actorVars, TypeOK
  <2> QED
    BY <1>5, <2>1 DEF Bye
<1>7. CASE applyLeft
  <2>1. \/ e.user \notin DOMAIN participants /\ participants' = participants
        \/ participants' = Drop(participants, e.user)
    BY <1>7 DEF applyLeft, departParticipant, actorVars
  <2> QED
    BY <1>5, <2>1 DEF Bye
<1>8. CASE applyNoShowTimeout \/ applyActivated \/ applyPendingExpired
  <2>1. e.type \in {"noShowTimeout", "activated", "pendingExpired"} /\ participants' = participants
    BY <1>8, ReceiveType DEF applyNoShowTimeout, applyActivated, applyPendingExpired, actorVars, TypeOK
  <2> QED
    BY <2>1 DEF Bye
<1> QED
  BY <1>2, <1>3, <1>4, <1>6, <1>7, <1>8 DEF applyEvent

\* A join is applied with its cover behind it, and a farewell to the seat it frees.
LEMMA ApplyCovered ==
    ASSUME SessionInv, applyEvent, UNCHANGED sessionVars
    PROVE  JoinsCovered' /\ SeatHasConnection'
<1>0. /\ TypeOK /\ FinishedClosed /\ inbox \in Seq(RoomEvent) /\ UNCHANGED <<conn, wire, unheard>>
      /\ DOMAIN participants' \subseteq Users
  BY ApplyType DEF SessionInv, TimerInv, TypeOK, ActorType, IsPartialFunction, QueueType, sessionVars
<1>1. ctxDone => ctxDone'
  BY <1>0, ApplyCloses
<1>2. SUFFICES ASSUME ~ctxDone, ~ctxDone' PROVE JoinsCovered' /\ SeatHasConnection'
  BY <1>1 DEF JoinsCovered, SeatHasConnection
<1>3. inbox # <<>> /\ inbox' = Tail(inbox)
  BY DEF applyEvent, applyJoined, applyTelemetry, applyDisconnected, applyEvicted, applyLeft,
         applyNoShowTimeout, applyActivated, applyPendingExpired, Receive
<1>4. /\ Len(inbox) \in Nat \ {0} /\ DOMAIN inbox = 1..Len(inbox) /\ Head(inbox) = inbox[1]
      /\ DOMAIN inbox' = 1..(Len(inbox) - 1) /\ \A i \in 1..(Len(inbox) - 1) : inbox'[i] = inbox[i + 1]
  BY <1>0, <1>3, TailAt
<1>5. JoinsCovered'
  <2> SUFFICES ASSUME NEW v \in Users \ unheard, ~Behind(v)
               PROVE  WireCovered(v)' /\ InboxCovered(v)'
    BY <1>0 DEF JoinsCovered, Behind
  <2>1. WireCovered(v) /\ InboxCovered(v)
    BY <1>2 DEF SessionInv, JoinsCovered
  <2>2. WireCovered(v)'
    BY <1>0, <2>1 DEF WireCovered
  <2>3. InboxCovered(v)'
    <3> SUFFICES ASSUME NEW i \in DOMAIN inbox', inbox'[i] = ParticipantJoined(v)
                 PROVE  \/ \E j \in DOMAIN inbox' : j > i /\ Bye(inbox'[j], v)
                        \/ \E j \in DOMAIN wire : Bye(wire[j], v)
      BY <1>0 DEF InboxCovered
    <3>1. i \in 1..(Len(inbox) - 1) /\ i + 1 \in DOMAIN inbox /\ inbox[i + 1] = ParticipantJoined(v)
      BY <1>4
    <3>2. CASE \E j \in DOMAIN inbox : j > i + 1 /\ Bye(inbox[j], v)
      <4>1. PICK j \in DOMAIN inbox : j > i + 1 /\ Bye(inbox[j], v)
        BY <3>2
      <4>2. j - 1 \in DOMAIN inbox' /\ inbox'[j - 1] = inbox[j] /\ j - 1 > i
        BY <1>4, <3>1, <4>1
      <4> QED
        BY <4>1, <4>2
    <3> QED
      BY <2>1, <3>1, <3>2 DEF InboxCovered
  <2> QED
    BY <2>2, <2>3
<1>6. SeatHasConnection'
  <2> SUFFICES ASSUME NEW v \in DOMAIN participants', v \notin unheard, ~participants'[v].disconnected, ~Behind(v)
               PROVE  OnTheWay(v, {"disconnected", "left"})'
    BY <1>0 DEF SeatHasConnection, Behind
  <2>1. v \in Users
    BY <1>0
  <2>2. CASE Head(inbox) = ParticipantJoined(v)
    <3>1. 1 \in DOMAIN inbox /\ inbox[1] = ParticipantJoined(v)
      BY <1>4, <2>2
    <3>2. (\E j \in DOMAIN inbox : j > 1 /\ Bye(inbox[j], v)) \/ \E j \in DOMAIN wire : Bye(wire[j], v)
      BY <1>2, <2>1, <3>1 DEF SessionInv, JoinsCovered, InboxCovered
    <3>3. CASE \E j \in DOMAIN inbox : j > 1 /\ Bye(inbox[j], v)
      <4>1. PICK j \in DOMAIN inbox : j > 1 /\ Bye(inbox[j], v)
        BY <3>3
      <4>2. j - 1 \in DOMAIN inbox' /\ inbox'[j - 1] = inbox[j]
        BY <1>4, <4>1
      <4> QED
        BY <4>1, <4>2 DEF OnTheWay, Range, Bye
    <3>4. CASE \E j \in DOMAIN wire : Bye(wire[j], v)
      BY <1>0, <3>4 DEF OnTheWay, Range, Bye
    <3> QED
      BY <3>2, <3>3, <3>4
  <2>3. CASE /\ v \in DOMAIN participants /\ participants'[v].disconnected = participants[v].disconnected
             /\ ~Bye(Head(inbox), v)
    <3>1. OnTheWay(v, {"disconnected", "left"})
      BY <1>2, <2>3 DEF SessionInv, SeatHasConnection, Behind
    <3>2. PICK ev \in Range(wire) \cup Range(inbox) : Bye(ev, v)
      BY <3>1 DEF OnTheWay, Bye
    <3>3. ev \in Range(wire') \cup Range(inbox')
      BY <1>0, <1>3, <2>3, <3>2, TailRange
    <3> QED
      BY <3>2, <3>3 DEF OnTheWay, Bye
  <2> QED
    BY <1>0, <2>2, <2>3, SeatNews
<1> QED
  BY <1>5, <1>6

\* Timers and start requests put no join into the inbox and take nothing out of it.
LEMMA OthersCovered ==
    ASSUME SessionInv, RunReturns \/ Timers \/ StartRequests \/ UNCHANGED vars, UNCHANGED sessionVars
    PROVE  JoinsCovered' /\ SeatHasConnection'
<1>0. TypeOK /\ inbox \in Seq(RoomEvent) /\ UNCHANGED <<conn, wire, unheard>>
  BY DEF SessionInv, TimerInv, TypeOK, QueueType, sessionVars
<1>1. UNCHANGED <<participants, ctxDone>>
  BY DEF RunReturns, Timers, TimerFires, TimerSends, StartRequests, StartGetRace, StartUpdate, StartMarkActive, vars,
         actorVars, closingVars
<1>2. inbox' = inbox \/ \E ev \in TimerEvent \cup {activated} : inbox' = Append(inbox, ev)
  BY DEF RunReturns, Timers, TimerFires, TimerSends, StartRequests, StartGetRace, StartUpdate, StartMarkActive, vars,
         Send
<1>3. CASE inbox' = inbox
  <2>1. JoinsCovered'
    BY <1>0, <1>1, <1>3 DEF SessionInv, JoinsCovered, Behind, WireCovered, InboxCovered
  <2>2. SeatHasConnection'
    BY <1>0, <1>1, <1>3 DEF SessionInv, SeatHasConnection, OnTheWay
  <2> QED
    BY <2>1, <2>2
<1>4. ASSUME NEW ev \in TimerEvent \cup {activated}, inbox' = Append(inbox, ev)
      PROVE  JoinsCovered' /\ SeatHasConnection'
  <2>1. ev \in RoomEvent /\ \A v : ev # ParticipantJoined(v)
    BY RoomsOwn
  <2>2. /\ Len(inbox) \in Nat /\ DOMAIN inbox = 1..Len(inbox) /\ DOMAIN inbox' = 1..(Len(inbox) + 1)
        /\ inbox'[Len(inbox) + 1] = ev /\ \A i \in 1..Len(inbox) : inbox'[i] = inbox[i]
    BY <1>0, <1>4, <2>1, AppendAt
  <2>3. \A i \in DOMAIN inbox : i \in DOMAIN inbox' /\ inbox'[i] = inbox[i]
    BY <2>2
  <2>4. \A v : \A i \in DOMAIN inbox' : inbox'[i] = ParticipantJoined(v) => i \in DOMAIN inbox
    BY <2>1, <2>2
  <2>5. JoinsCovered'
    <3> SUFFICES ASSUME ~ctxDone, NEW v \in Users \ unheard, ~Behind(v)
                 PROVE  WireCovered(v)' /\ InboxCovered(v)'
      BY <1>0, <1>1 DEF JoinsCovered, Behind
    <3>1. WireCovered(v) /\ InboxCovered(v)
      BY DEF SessionInv, JoinsCovered
    <3>2. WireCovered(v)'
      BY <1>0, <3>1 DEF WireCovered
    <3>3. InboxCovered(v)'
      <4> SUFFICES ASSUME NEW i \in DOMAIN inbox', inbox'[i] = ParticipantJoined(v)
                   PROVE  \/ \E j \in DOMAIN inbox' : j > i /\ Bye(inbox'[j], v)
                          \/ \E j \in DOMAIN wire : Bye(wire[j], v)
        BY <1>0 DEF InboxCovered
      <4>1. i \in DOMAIN inbox /\ inbox[i] = ParticipantJoined(v)
        BY <2>3, <2>4
      <4> QED
        BY <2>3, <3>1, <4>1 DEF InboxCovered
    <3> QED
      BY <3>2, <3>3
  <2>6. SeatHasConnection'
    <3>1. Range(inbox) \subseteq Range(inbox')
      BY <1>0, <1>4, <2>1, AppendRange
    <3>2. \A v : OnTheWay(v, {"disconnected", "left"}) => OnTheWay(v, {"disconnected", "left"})'
      BY <1>0, <3>1 DEF OnTheWay
    <3> QED
      BY <1>0, <1>1, <3>2 DEF SessionInv, SeatHasConnection
  <2> QED
    BY <2>5, <2>6
<1> QED
  BY <1>2, <1>3, <1>4

-----------------------------------------------------------------------------
(* The theorems.                                                            *)

\* Every step of players, subject and room keeps the invariant.
LEMMA NextSession == SessionInv /\ [SessionNext]_allVars => SessionInv'
<1> SUFFICES ASSUME SessionInv, [SessionNext]_allVars PROVE SessionInv'
  OBVIOUS
<1>1. TimerInv' /\ SessionType'
  BY SessionTypes, SessionTimers
<1>2. JoinsCovered' /\ SeatHasConnection'
  BY SessionCases, PlayerCovered, PlayerSeats, FeedCovered, ApplyCovered, OthersCovered
<1> QED
  BY <1>1, <1>2 DEF SessionInv

\* Nobody has connected.
LEMMA InitSession == SessionInit => SessionInv
<1> SUFFICES ASSUME SessionInit PROVE SessionInv
  OBVIOUS
<1>1. TimerInv
  BY InitTimers DEF SessionInit
<1>2. SessionType
  BY DEF SessionInit, SessionType
<1>3. wire = <<>> /\ inbox = <<>> /\ DOMAIN participants = {}
  BY DEF SessionInit, Init, NewRoomActor
<1>4. JoinsCovered
  <2>1. DOMAIN <<>> = {}
    OBVIOUS
  <2> QED
    BY <1>3, <2>1 DEF JoinsCovered, WireCovered, InboxCovered
<1>5. SeatHasConnection
  BY <1>3 DEF SeatHasConnection
<1> QED
  BY <1>1, <1>2, <1>4, <1>5 DEF SessionInv

\* The inductive invariant holds throughout.
LEMMA SessionInvariant == SessionSpec => []SessionInv
BY InitSession, NextSession, PTL DEF SessionSpec

\* Nobody whom the room takes for connected is without a connection, or a farewell on the
\* way, unless a message of theirs was lost or a joined connection of theirs lost its hub or
\* its gateway: for any number of players and connections, hubs that close under a running
\* room included, and any capacity of the subject and the inbox (endpoint.go:213-249, 278-284).
THEOREM SeatsHaveConnections == SessionSpec => []SeatHasConnection
<1>1. SessionInv => SeatHasConnection
  BY DEF SessionInv
<1> QED
  BY <1>1, SessionInvariant, PTL

\* With connections in place of a free environment, too, a disconnected player has an
\* expiry on its way.
THEOREM SessionGracePending == SessionSpec => []GraceExpiryPending
<1>1. SessionInv => GraceExpiryPending
  BY DEF SessionInv, TimerInv
<1> QED
  BY <1>1, SessionInvariant, PTL

\* Nor is a room that connections feed left without anybody to close it.
THEOREM SessionNotAbandoned == SessionSpec => []NoAbandonedRoom
<1>1. SessionInv => NoAbandonedRoom
  BY DEF SessionInv, TimerInv
<1> QED
  BY <1>1, SessionInvariant, PTL

==============================================================================
