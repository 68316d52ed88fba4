-------------------------- MODULE RoomTimers_proofs ---------------------------
(***************************************************************************)
(* More about RoomActor: the timers and the events on their way to the     *)
(* actor, for any number of players, connection losses and late expiries.  *)
(* Nobody keeps a seat by vanishing, no room is left without anybody to    *)
(* close it, and a rank once given stays.                                  *)
(***************************************************************************)
EXTENDS RoomActor_proofs

\* An event counting down, fired, or in the inbox.
Pending(ev) == ev \in armed \cup fired \cup Range(inbox)

\* r.finished is set together with r.cancel().
FinishedClosed == finished => ctxDone

-----------------------------------------------------------------------------
(* The inbox.                                                               *)

\* Taking the first event away leaves the others.
LEMMA TailRange ==
    ASSUME NEW S, NEW s \in Seq(S), s # <<>>, NEW e \in Range(s)
    PROVE  e = Head(s) \/ e \in Range(Tail(s))
<1>1. /\ Len(s) \in Nat \ {0} /\ DOMAIN s = 1..Len(s) /\ Head(s) = s[1]
      /\ DOMAIN Tail(s) = 1..(Len(s) - 1) /\ \A i \in 1..(Len(s) - 1) : Tail(s)[i] = s[i + 1]
  OBVIOUS
<1>2. PICK i \in 1..Len(s) : e = s[i]
  BY <1>1 DEF Range
<1>3. CASE i = 1
  BY <1>1, <1>2, <1>3
<1>4. CASE i # 1
  <2>1. i - 1 \in 1..(Len(s) - 1) /\ Tail(s)[i - 1] = s[i]
    BY <1>1, <1>4
  <2> QED
    BY <1>1, <1>2, <2>1 DEF Range
<1> QED
  BY <1>3, <1>4

\* Putting one at the end loses none.
LEMMA AppendRange ==
    ASSUME NEW S, NEW s \in Seq(S), NEW e \in S
    PROVE  e \in Range(Append(s, e)) /\ Range(s) \subseteq Range(Append(s, e))
<1>1. /\ DOMAIN Append(s, e) = 1..(Len(s) + 1) /\ DOMAIN s = 1..Len(s) /\ Len(s) \in Nat
      /\ \A i \in 1..Len(s) : Append(s, e)[i] = s[i]
      /\ Append(s, e)[Len(s) + 1] = e
  OBVIOUS
<1>2. e \in Range(Append(s, e))
  BY <1>1 DEF Range
<1>3. Range(s) \subseteq Range(Append(s, e))
  BY <1>1 DEF Range
<1> QED
  BY <1>2, <1>3

\* Send never takes an event away, and delivers as long as the room is not closed.
LEMMA SendDelivers ==
    ASSUME TypeOK, NEW ev \in RoomEvent, Send(ev)
    PROVE  Range(inbox) \subseteq Range(inbox') /\ (~ctxDone => ev \in Range(inbox'))
<1>1. CASE inbox' = Append(inbox, ev)
  <2>1. inbox \in Seq(RoomEvent)
    BY DEF TypeOK, QueueType
  <2> QED
    BY <1>1, <2>1, AppendRange
<1>2. CASE ctxDone /\ UNCHANGED inbox
  BY <1>2
<1> QED
  BY <1>1, <1>2 DEF Send

\* The steps of Next other than the actor's own.
OtherSteps ==
    RunReturns \/ Timers \/ Clients \/ StartRequests \/ RegistryRemove \/ Terminated \/ UNCHANGED vars

\* Outside of applyEvent no event is lost while the room is open, and no seat or
\* verdict changes.
LEMMA OtherStepsKeep ==
    ASSUME TypeOK, OtherSteps
    PROVE  /\ UNCHANGED <<participants, totalParticipants, failures, finished>> /\ (ctxDone => ctxDone')
           /\ ~ctxDone => \A ev \in TimerEvent : Pending(ev) => Pending(ev)'
<1>1. CASE RunReturns \/ RegistryRemove \/ Terminated \/ UNCHANGED vars
  BY <1>1 DEF RunReturns, RegistryRemove, Terminated, vars, actorVars, closingVars, timerVars, Pending
<1>2. CASE Timers
  <2>1. PICK x \in TimerEvent : TimerFires(x) \/ TimerSends(x)
    BY <1>2 DEF Timers
  <2>2. CASE TimerFires(x)
    BY <2>2 DEF TimerFires, actorVars, closingVars, Pending
  <2>3. CASE TimerSends(x)
    <3>1. x \in RoomEvent
      BY DEF RoomEvent
    <3>2. Range(inbox) \subseteq Range(inbox') /\ (~ctxDone => x \in Range(inbox'))
      BY <2>3, <3>1, SendDelivers DEF TimerSends
    <3> QED
      BY <2>3, <3>2 DEF TimerSends, actorVars, closingVars, Pending
  <2> QED
    BY <2>1, <2>2, <2>3
<1>3. CASE StartRequests
  <2>1. activated \in RoomEvent
    BY DEF RoomEvent
  <2>2. Range(inbox) \subseteq Range(inbox')
    BY <1>3, <2>1, SendDelivers DEF StartRequests, StartGetRace, StartUpdate, StartMarkActive
  <2> QED
    BY <1>3, <2>2
    DEF StartRequests, StartGetRace, StartUpdate, StartMarkActive, actorVars, closingVars, timerVars, Pending
<1>4. CASE Clients
  <2>1. PICK u \in Users :
            \/ JoinRace(u) \/ ConnectionLost(u) \/ LeaveRace(u) \/ RestJoinCheck(u) \/ RestJoinInsert(u)
            \/ \E s \in 1..MaxSeq, w \in 0..DistanceMeters : Telemetry(u, s, w)
    BY <1>4 DEF Clients
  <2>2. Range(inbox) \subseteq Range(inbox')
    <3>1. CASE JoinRace(u)
      <4>1. ParticipantJoined(u) \in RoomEvent
        BY DEF RoomEvent
      <4> QED
        BY <3>1, <4>1, SendDelivers DEF JoinRace
    <3>2. CASE ConnectionLost(u)
      <4>1. drops + 1 \in Drops
        BY <3>2, BoundsAssumption DEF ConnectionLost, Drops, TypeOK, OutsideType
      <4>2. ParticipantDisconnected(u, drops + 1) \in RoomEvent
        BY <4>1 DEF RoomEvent
      <4> QED
        BY <3>2, <4>2, SendDelivers DEF ConnectionLost
    <3>3. CASE LeaveRace(u)
      <4>1. ParticipantLeft(u) \in RoomEvent
        BY DEF RoomEvent
      <4> QED
        BY <3>3, <4>1, SendDelivers DEF LeaveRace
    <3>4. CASE \E s \in 1..MaxSeq, w \in 0..DistanceMeters : Telemetry(u, s, w)
      <4>1. PICK s \in 1..MaxSeq, w \in 0..DistanceMeters : Telemetry(u, s, w)
        BY <3>4
      <4>2. TelemetryReceived(u, s, w) \in RoomEvent
        BY DEF RoomEvent
      <4> QED
        BY <4>1, <4>2, SendDelivers DEF Telemetry
    <3>5. CASE RestJoinCheck(u) \/ RestJoinInsert(u)
      BY <3>5 DEF RestJoinCheck, RestJoinInsert
    <3> QED
      BY <2>1, <3>1, <3>2, <3>3, <3>4, <3>5
  <2>3. UNCHANGED <<participants, totalParticipants, failures, finished, ctxDone, armed, fired>>
    BY <2>1 DEF JoinRace, ConnectionLost, LeaveRace, Telemetry, RestJoinCheck, RestJoinInsert, SendsOnly,
                actorVars, closingVars, timerVars
  <2> QED
    BY <2>2, <2>3 DEF Pending
<1> QED
  BY <1>1, <1>2, <1>3, <1>4 DEF OtherSteps

-----------------------------------------------------------------------------
(* What an event does to a seat.                                            *)

\* Accepted telemetry changes what has been typed, the sequence number, and the rank
\* of a player who has none.
LEMMA TelemetrySeat ==
    ASSUME TypeOK, applyTelemetry, participants' # participants
    PROVE  \E u \in DOMAIN participants, p \in ParticipantState :
               /\ participants' = [participants EXCEPT ![u] = p]
               /\ p.lastSeq >= participants[u].lastSeq
               /\ p.disconnected = participants[u].disconnected
               /\ p.graceTimer = participants[u].graceTimer
               /\ participants[u].rank # Unranked => p.rank = participants[u].rank
               /\ p.rank = participants[u].rank \/ checkRaceFinished
<1> DEFINE e == Head(inbox)
           q == participants[e.user]
<1>1. e \in RoomEvent /\ e.type = "telemetry"
  BY ReceiveType DEF applyTelemetry, TypeOK
<1>2. e.seq \in 1..MaxSeq /\ e.words \in 0..DistanceMeters
  BY <1>1, EventFields
<1>3. Fresh(e)
  BY DEF applyTelemetry
<1>4. e.user \in DOMAIN participants /\ e.seq > q.lastSeq
  BY <1>3 DEF Fresh
<1>5. q \in ParticipantState
  BY <1>4 DEF TypeOK, ActorType, IsPartialFunction
<1>6. e.seq \in 0..MaxSeq /\ e.seq >= q.lastSeq
  BY <1>2, <1>4, <1>5, BoundsAssumption DEF ParticipantState
<1>7. CASE ~Finishes(e)
  <2> DEFINE p == [q EXCEPT !.words = e.words, !.lastSeq = e.seq]
  <2>1. /\ p \in ParticipantState /\ p.lastSeq = e.seq /\ p.disconnected = q.disconnected
        /\ p.graceTimer = q.graceTimer /\ p.rank = q.rank
    BY <1>2, <1>5, <1>6 DEF ParticipantState
  <2>2. participants' = [participants EXCEPT ![e.user] = p]
    BY <1>3, <1>4, <1>7 DEF applyTelemetry, TypeOK, ActorType, IsPartialFunction, ParticipantState
  <2> HIDE DEF p
  <2> QED
    BY <1>4, <1>6, <2>1, <2>2
<1>8. CASE Finishes(e)
  <2> DEFINE p == [q EXCEPT !.words = e.words, !.lastSeq = e.seq, !.rank = finishedCount + 1]
  <2>1. finishedCount + 1 \in Nat
    BY DEF TypeOK, ActorType
  <2>2. /\ p \in ParticipantState /\ p.lastSeq = e.seq /\ p.disconnected = q.disconnected
        /\ p.graceTimer = q.graceTimer
    BY <1>2, <1>5, <1>6, <2>1 DEF ParticipantState
  <2>3. participants' = [participants EXCEPT ![e.user] = p] /\ q.rank = Unranked /\ checkRaceFinished
    BY <1>3, <1>4, <1>8
    DEF applyTelemetry, Finishes, TypeOK, ActorType, IsPartialFunction, ParticipantState, NextRank
  <2> HIDE DEF p
  <2> QED
    BY <1>4, <1>6, <2>2, <2>3
<1> QED
  BY <1>7, <1>8

\* Two expiries of different players are different events.
LEMMA EvictedDiffer ==
    ASSUME NEW u, NEW v, NEW m, NEW n, u # v
    PROVE  ParticipantEvicted(u, m) # ParticipantEvicted(v, n)
  BY DEF ParticipantEvicted

\* u has its grace timer running again, is connected, or waits as before with its
\* expiry untouched.
Seat(u) == participants[u]
WaitsOn(u) ==
    \/ ~Seat(u)'.disconnected
    \/ ParticipantEvicted(u, Seat(u)'.graceTimer) \in armed'
    \/ /\ Seat(u).disconnected /\ Seat(u)'.graceTimer = Seat(u).graceTimer
       /\ ~(Head(inbox).type = "evicted" /\ Head(inbox).user = u)
       /\ \A n \in Drops \cup {NoTimer} :
              ParticipantEvicted(u, n) \in armed => ParticipantEvicted(u, n) \in armed'

\* u keeps the rank it has, and its sequence numbers only grow.
Keeps(u) ==
    /\ Seat(u).rank # Unranked => Seat(u)'.rank = Seat(u).rank
    /\ Seat(u)'.lastSeq >= Seat(u).lastSeq

\* An event seats a newcomer or carries every seat over as described.
LEMMA ApplySeat ==
    ASSUME TypeOK, applyEvent, NEW u \in DOMAIN participants'
    PROVE  \/ u \notin DOMAIN participants /\ participants'[u] = NewParticipant
           \/ u \in DOMAIN participants /\ Keeps(u) /\ WaitsOn(u)
<1> DEFINE e == Head(inbox)
           Goal == \/ u \notin DOMAIN participants /\ participants'[u] = NewParticipant
                   \/ u \in DOMAIN participants /\ Keeps(u) /\ WaitsOn(u)
<1>1. /\ IsPartialFunction(participants, Users, ParticipantState)
      /\ \A v \in DOMAIN participants : participants[v] \in ParticipantState /\ v \in Users
  BY DEF TypeOK, ActorType, IsPartialFunction
<1>2. \A v \in DOMAIN participants : participants[v].lastSeq \in Nat /\ participants[v].disconnected \in BOOLEAN
  BY <1>1, BoundsAssumption DEF ParticipantState
\* A seat that is carried over by an event about somebody else, or of another type.
<1>3. ASSUME u \in DOMAIN participants, participants'[u] = participants[u],
             ~(e.type = "evicted" /\ e.user = u),
             \A n \in Drops \cup {NoTimer} :
                 ParticipantEvicted(u, n) \in armed => ParticipantEvicted(u, n) \in armed'
      PROVE  Goal
  <2>1. Keeps(u)
    BY <1>2, <1>3 DEF Keeps, Seat
  <2>2. WaitsOn(u)
    BY <1>3 DEF WaitsOn, Seat
  <2> QED
    BY <1>3, <2>1, <2>2
<1>4. CASE applyJoined
  <2>1. e \in RoomEvent /\ e.type = "joined"
    BY <1>4, ReceiveType DEF applyJoined, TypeOK
  <2>2. e.user \in Users
    BY <2>1, EventFields
  <2>3. CASE /\ e.user \in DOMAIN participants /\ participants[e.user].disconnected
             /\ participants' = [participants EXCEPT ![e.user] = Reconnected(@)]
             /\ armed' = armed \ {ParticipantEvicted(e.user, participants[e.user].graceTimer)}
    <3>1. CASE u = e.user
      <4>1. participants'[u] = Reconnected(participants[u]) /\ u \in DOMAIN participants
        BY <2>3, <3>1 DEF TypeOK, ActorType, IsPartialFunction
      <4>2. /\ Reconnected(participants[u]).disconnected = FALSE
            /\ Reconnected(participants[u]).rank = participants[u].rank
            /\ Reconnected(participants[u]).lastSeq = participants[u].lastSeq
        BY <1>1, <4>1 DEF Reconnected, ParticipantState
      <4>3. WaitsOn(u)
        BY <4>1, <4>2 DEF WaitsOn, Seat
      <4>4. Keeps(u)
        BY <1>2, <4>1, <4>2 DEF Keeps, Seat
      <4> QED
        BY <4>1, <4>3, <4>4
    <3>2. CASE u # e.user
      <4>1. u \in DOMAIN participants /\ participants'[u] = participants[u]
        BY <2>3, <3>2 DEF TypeOK, ActorType, IsPartialFunction
      <4>2. \A n \in Drops \cup {NoTimer} :
                ParticipantEvicted(u, n) \in armed => ParticipantEvicted(u, n) \in armed'
        BY <2>3, <3>2, EvictedDiffer
      <4> QED
        BY <1>3, <2>1, <4>1, <4>2
    <3> QED
      BY <3>1, <3>2
  <2>4. CASE UNCHANGED <<participants, armed>>
    BY <1>3, <2>1, <2>4
  <2>5. CASE /\ e.user \notin DOMAIN participants
             /\ participants' = Put(participants, e.user, NewParticipant) /\ UNCHANGED armed
    <3>1. /\ DOMAIN participants' = DOMAIN participants \cup {e.user}
          /\ participants'[e.user] = NewParticipant
          /\ \A v \in DOMAIN participants \ {e.user} : participants'[v] = participants[v]
      <4> DEFINE f == Put(participants, e.user, NewParticipant)
      <4>1. /\ DOMAIN f = DOMAIN participants \cup {e.user} /\ f[e.user] = NewParticipant
            /\ \A v \in DOMAIN participants \ {e.user} : f[v] = participants[v]
        BY DEF Put
      <4>2. participants' = f
        BY <2>5
      <4> HIDE DEF f
      <4> QED
        BY <4>1, <4>2
    <3>2. CASE u = e.user
      BY <2>5, <3>1, <3>2
    <3>3. CASE u # e.user
      BY <1>3, <2>1, <2>5, <3>1, <3>3
    <3> QED
      BY <3>2, <3>3
  <2> QED
    BY <1>4, <2>3, <2>4, <2>5 DEF applyJoined
<1>5. CASE applyTelemetry
  <2>1. e.type = "telemetry" /\ UNCHANGED armed
    BY <1>5, ReceiveType DEF applyTelemetry, TypeOK, timerVars
  <2>2. CASE participants' = participants
    BY <1>3, <2>1, <2>2
  <2>3. CASE participants' # participants
    <3>1. PICK v \in DOMAIN participants, p \in ParticipantState :
               /\ participants' = [participants EXCEPT ![v] = p]
               /\ p.lastSeq >= participants[v].lastSeq
               /\ p.disconnected = participants[v].disconnected
               /\ p.graceTimer = participants[v].graceTimer
               /\ participants[v].rank # Unranked => p.rank = participants[v].rank
      BY <1>5, <2>3, TelemetrySeat
    <3>2. CASE u # v
      <4>1. u \in DOMAIN participants /\ participants'[u] = participants[u]
        BY <3>1, <3>2
      <4> QED
        BY <1>3, <2>1, <4>1
    <3>3. CASE u = v
      <4>1. participants'[u] = p
        BY <3>1, <3>3
      <4>2. Keeps(u)
        BY <3>1, <3>3, <4>1 DEF Keeps, Seat
      <4>3. WaitsOn(u)
        BY <2>1, <3>1, <3>3, <4>1 DEF WaitsOn, Seat
      <4> QED
        BY <3>3, <4>2, <4>3
    <3> QED
      BY <3>2, <3>3
  <2> QED
    BY <2>2, <2>3
<1>6. CASE applyDisconnected
  <2>1. e.type = "disconnected"
    BY <1>6, ReceiveType DEF applyDisconnected, TypeOK
  <2>2. CASE UNCHANGED <<participants, armed>>
    BY <1>3, <2>1, <2>2
  <2>3. CASE /\ e.user \in DOMAIN participants
             /\ participants' = [participants EXCEPT ![e.user] = LostConnection(@, e.drop)]
             /\ armed' = (armed \ {ParticipantEvicted(e.user, participants[e.user].graceTimer)})
                         \cup {ParticipantEvicted(e.user, e.drop)}
    <3>1. CASE u = e.user
      <4>1. participants'[u] = LostConnection(participants[u], e.drop) /\ u \in DOMAIN participants
        BY <2>3, <3>1 DEF TypeOK, ActorType, IsPartialFunction
      <4>2. /\ LostConnection(participants[u], e.drop).graceTimer = e.drop
            /\ LostConnection(participants[u], e.drop).rank = participants[u].rank
            /\ LostConnection(participants[u], e.drop).lastSeq = participants[u].lastSeq
        BY <1>1, <4>1 DEF LostConnection, ParticipantState
      <4>3. ParticipantEvicted(u, participants'[u].graceTimer) \in armed'
        BY <2>3, <3>1, <4>1, <4>2
      <4>4. WaitsOn(u)
        BY <4>3 DEF WaitsOn, Seat
      <4>5. Keeps(u)
        BY <1>2, <4>1, <4>2 DEF Keeps, Seat
      <4> QED
        BY <4>1, <4>4, <4>5
    <3>2. CASE u # e.user
      <4>1. u \in DOMAIN participants /\ participants'[u] = participants[u]
        BY <2>3, <3>2 DEF TypeOK, ActorType, IsPartialFunction
      <4>2. \A n \in Drops \cup {NoTimer} :
                ParticipantEvicted(u, n) \in armed => ParticipantEvicted(u, n) \in armed'
        BY <2>3, <3>2, EvictedDiffer
      <4> QED
        BY <1>3, <2>1, <4>1, <4>2
    <3> QED
      BY <3>1, <3>2
  <2> QED
    BY <1>6, <2>2, <2>3 DEF applyDisconnected
<1>7. ASSUME NEW v, participants' = Drop(participants, v), UNCHANGED armed, e.type = "evicted" => e.user = v
      PROVE  Goal
  <2>1. /\ DOMAIN participants' = DOMAIN participants \ {v}
        /\ \A x \in DOMAIN participants \ {v} : participants'[x] = participants[x]
    BY <1>1, <1>7, DropType
  <2> QED
    BY <1>3, <1>7, <2>1
<1>8. CASE applyEvicted
  <2>1. CASE departParticipant(e.user)
    BY <1>7, <1>8, <2>1 DEF applyEvicted, departParticipant, timerVars
  <2>2. CASE /\ ~(e.user \in DOMAIN participants /\ participants[e.user].disconnected)
             /\ UNCHANGED actorVars
    <3>1. UNCHANGED <<participants, armed>>
      BY <1>8, <2>2 DEF applyEvicted, actorVars, timerVars
    <3>2. CASE u # e.user
      BY <1>3, <3>1, <3>2
    <3>3. CASE u = e.user
      <4>1. u \in DOMAIN participants /\ ~participants'[u].disconnected
        BY <2>2, <3>1, <3>3
      <4>2. WaitsOn(u)
        BY <4>1 DEF WaitsOn, Seat
      <4>3. Keeps(u)
        BY <1>2, <3>1, <4>1 DEF Keeps, Seat
      <4> QED
        BY <4>1, <4>2, <4>3
    <3> QED
      BY <3>2, <3>3
  <2> QED
    BY <1>8, <2>1, <2>2 DEF applyEvicted
<1>9. CASE applyLeft
  <2>1. e.type = "left" /\ UNCHANGED armed
    BY <1>9, ReceiveType DEF applyLeft, TypeOK, timerVars
  <2>2. CASE participants' = Drop(participants, e.user)
    BY <1>7, <2>1, <2>2
  <2>3. CASE UNCHANGED participants
    BY <1>3, <2>1, <2>3
  <2> QED
    BY <1>9, <2>2, <2>3 DEF applyLeft, departParticipant, actorVars
<1>10. CASE applyNoShowTimeout \/ applyActivated \/ applyPendingExpired
  <2>1. e.type # "evicted"
    BY <1>10, ReceiveType DEF applyNoShowTimeout, applyActivated, applyPendingExpired, TypeOK
  <2>2. UNCHANGED <<participants, armed>>
    BY <1>10 DEF applyNoShowTimeout, applyActivated, applyPendingExpired, actorVars, timerVars
  <2> QED
    BY <1>3, <2>1, <2>2
<1> QED
  BY <1>4, <1>5, <1>6, <1>8, <1>9, <1>10 DEF applyEvent

-----------------------------------------------------------------------------
(* What an event does to the room's fate.                                   *)

\* The look at whether the race is over closes a room without anybody to race,
\* unless the call fails.
LEMMA CheckCloses ==
    ASSUME ClosingType, FinishedClosed, checkRaceFinished
    PROVE  /\ FinishedClosed' /\ (ctxDone => ctxDone') /\ (failures' = 0 => failures = 0)
           /\ ~ctxDone' /\ failures' = 0 => \E u \in DOMAIN participants' : participants'[u].rank = Unranked
<1>1. failures \in Nat /\ failures + 1 # 0
  BY BoundsAssumption DEF ClosingType
<1>2. CASE \E st, res : CallFails(st, res)
  <2>1. UNCHANGED <<finished, ctxDone>> /\ (ctxDone \/ failures' = failures + 1) /\ (ctxDone => failures' = failures)
    BY <1>2 DEF CallFails
  <2> QED
    BY <1>1, <2>1 DEF FinishedClosed
<1>3. CASE ctxDone' = TRUE /\ UNCHANGED failures
  BY <1>3 DEF FinishedClosed
<1>4. CASE UNCHANGED closingVars /\ (finished \/ \E u \in DOMAIN participants' : participants'[u].rank = Unranked)
  <2>1. UNCHANGED <<finished, ctxDone, failures>>
    BY <1>4 DEF closingVars
  <2> QED
    BY <1>4, <2>1 DEF FinishedClosed
<1> QED
  BY <1>2, <1>3, <1>4 DEF checkRaceFinished, expirePendingRoom, finishRace

\* r.finished comes with r.cancel(), and neither is taken back.
LEMMA ApplyCloses ==
    ASSUME TypeOK, FinishedClosed, applyEvent
    PROVE  FinishedClosed' /\ (ctxDone => ctxDone') /\ (failures' = 0 => failures = 0)
<1> DEFINE Goal == FinishedClosed' /\ (ctxDone => ctxDone') /\ (failures' = 0 => failures = 0)
<1>1. CASE checkRaceFinished
  BY <1>1, CheckCloses DEF TypeOK
<1>2. CASE UNCHANGED <<finished, ctxDone, failures>>
  BY <1>2 DEF FinishedClosed
<1>3. CASE expirePendingRoom
  <2>1. CASE CallFails(Cancelled, results)
    <3>1. failures \in Nat
      BY BoundsAssumption DEF TypeOK, ClosingType
    <3>2. UNCHANGED <<finished, ctxDone>> /\ (failures' = failures + 1 \/ failures' = failures)
      BY <2>1 DEF CallFails
    <3> QED
      BY <3>1, <3>2 DEF FinishedClosed
  <2>2. CASE ctxDone' = TRUE /\ UNCHANGED failures
    BY <2>2 DEF FinishedClosed
  <2> QED
    BY <1>3, <2>1, <2>2 DEF expirePendingRoom
<1> QED
  BY <1>1, <1>2, <1>3
  DEF applyEvent, applyJoined, applyTelemetry, applyDisconnected, applyEvicted, applyLeft, applyNoShowTimeout,
      applyActivated, applyPendingExpired, departParticipant, closingVars

\* An event after which nobody is left to race, in a room that stays open with no
\* failed call, found it so and was not the no-show timeout.
LEMMA ApplyLeavesSomebody ==
    ASSUME TypeOK, FinishedClosed, applyEvent, ~ctxDone', failures' = 0, Unfinished(participants') = {}
    PROVE  Unfinished(participants) = {} /\ Head(inbox).type # "noShowTimeout"
<1> DEFINE e == Head(inbox)
<1>1. ~checkRaceFinished
  BY CheckCloses DEF TypeOK, Unfinished
<1>2. ASSUME NEW v \in DOMAIN participants, NEW p, p.rank = participants[v].rank,
             participants' = [participants EXCEPT ![v] = p]
      PROVE  Unfinished(participants) = {}
  BY <1>2 DEF Unfinished, TypeOK, ActorType, IsPartialFunction
<1>3. \A v \in DOMAIN participants : participants[v] \in ParticipantState
  BY DEF TypeOK, ActorType, IsPartialFunction
<1>4. CASE applyJoined
  <2>1. e.type = "joined"
    BY <1>4, ReceiveType DEF applyJoined, TypeOK
  <2>2. CASE /\ e.user \in DOMAIN participants
             /\ participants' = [participants EXCEPT ![e.user] = Reconnected(participants[e.user])]
    <3>1. Reconnected(participants[e.user]).rank = participants[e.user].rank
      BY <1>3, <2>2 DEF Reconnected, ParticipantState
    <3> QED
      BY <1>2, <2>1, <2>2, <3>1
  <2>3. CASE UNCHANGED participants
    BY <2>1, <2>3
  <2>4. CASE participants' = Put(participants, e.user, NewParticipant)
    <3>1. e.user \in DOMAIN participants' /\ participants'[e.user].rank = Unranked
      BY <2>4 DEF Put, NewParticipant
    <3> QED
      BY <3>1 DEF Unfinished
  <2> QED
    BY <1>4, <2>2, <2>3, <2>4 DEF applyJoined
<1>5. CASE applyTelemetry
  <2>1. e.type = "telemetry"
    BY <1>5, ReceiveType DEF applyTelemetry, TypeOK
  <2>2. CASE participants' # participants
    BY <1>1, <1>2, <1>5, <2>1, <2>2, TelemetrySeat
  <2> QED
    BY <2>1, <2>2
<1>6. CASE applyDisconnected
  <2>1. e.type = "disconnected"
    BY <1>6, ReceiveType DEF applyDisconnected, TypeOK
  <2>2. CASE /\ e.user \in DOMAIN participants
             /\ participants' = [participants EXCEPT ![e.user] = LostConnection(participants[e.user], e.drop)]
    <3>1. LostConnection(participants[e.user], e.drop).rank = participants[e.user].rank
      BY <1>3, <2>2 DEF LostConnection, ParticipantState
    <3> QED
      BY <1>2, <2>1, <2>2, <3>1
  <2>3. CASE UNCHANGED participants
    BY <2>1, <2>3
  <2> QED
    BY <1>6, <2>2, <2>3 DEF applyDisconnected
<1>7. CASE applyEvicted \/ applyLeft \/ applyNoShowTimeout
  <2>1. UNCHANGED participants /\ e.type \in {"evicted", "left"}
    BY <1>1, <1>7, ReceiveType
    DEF applyEvicted, applyLeft, applyNoShowTimeout, departParticipant, actorVars, TypeOK
  <2> QED
    BY <2>1
<1>8. CASE applyActivated \/ applyPendingExpired
  <2>1. UNCHANGED participants /\ e.type \in {"activated", "pendingExpired"}
    BY <1>8, ReceiveType DEF applyActivated, applyPendingExpired, actorVars, TypeOK
  <2> QED
    BY <2>1
<1> QED
  BY <1>4, <1>5, <1>6, <1>7, <1>8 DEF applyEvent

\* Nor did it let anybody in.
LEMMA ApplyCountsNobody ==
    ASSUME TypeOK, applyEvent, Unfinished(participants') = {}
    PROVE  UNCHANGED totalParticipants
<1> DEFINE e == Head(inbox)
<1>1. CASE applyJoined
  <2>1. CASE participants' = Put(participants, e.user, NewParticipant)
    <3>1. e.user \in DOMAIN participants' /\ participants'[e.user].rank = Unranked
      BY <2>1 DEF Put, NewParticipant
    <3> QED
      BY <3>1 DEF Unfinished
  <2> QED
    BY <1>1, <2>1 DEF applyJoined
<1> QED
  BY <1>1
  DEF applyEvent, applyTelemetry, applyDisconnected, applyEvicted, applyLeft, applyNoShowTimeout,
      applyActivated, applyPendingExpired, departParticipant, actorVars

\* applyEvent takes one event from the inbox, and disarms no timer but a grace timer.
LEMMA ApplyQueue ==
    ASSUME TypeOK, applyEvent
    PROVE  /\ fired' = fired
           /\ \A ev \in Range(inbox) : ev = Head(inbox) \/ ev \in Range(inbox')
           /\ noShowTimeout \in armed => noShowTimeout \in armed'
<1>1. \E t : Receive(t)
  BY DEF applyEvent, applyJoined, applyTelemetry, applyDisconnected, applyEvicted, applyLeft,
         applyNoShowTimeout, applyActivated, applyPendingExpired
<1>2. inbox # <<>> /\ inbox' = Tail(inbox) /\ inbox \in Seq(RoomEvent)
  BY <1>1 DEF Receive, TypeOK, QueueType
<1>3. \A ev \in Range(inbox) : ev = Head(inbox) \/ ev \in Range(inbox')
  BY <1>2, TailRange
<1>4. fired' = fired
  BY DEF applyEvent, applyJoined, applyTelemetry, applyDisconnected, applyEvicted, applyLeft,
         applyNoShowTimeout, applyActivated, applyPendingExpired, timerVars
<1>5. \A u, n : noShowTimeout # ParticipantEvicted(u, n)
  <2>1. noShowTimeout.type = "noShowTimeout" /\ \A u, n : ParticipantEvicted(u, n).type = "evicted"
    BY DEF noShowTimeout, ParticipantEvicted
  <2> QED
    BY <2>1
<1>6. noShowTimeout \in armed => noShowTimeout \in armed'
  BY <1>5
  DEF applyEvent, applyJoined, applyTelemetry, applyDisconnected, applyEvicted, applyLeft,
      applyNoShowTimeout, applyActivated, applyPendingExpired, timerVars
<1> QED
  BY <1>3, <1>4, <1>6

-----------------------------------------------------------------------------
(* The invariants.                                                          *)

TimerInv == TypeOK /\ FinishedClosed /\ GraceExpiryPending /\ NoAbandonedRoom

\* However disconnects, reconnects, expiries in flight and departures interleave, a
\* player who is marked disconnected keeps an expiry on its way.
LEMMA NextGrace ==
    ASSUME TimerInv, [Next]_vars
    PROVE  GraceExpiryPending'
<1> SUFFICES ASSUME NEW u \in DOMAIN participants', participants'[u].disconnected, ~ctxDone'
             PROVE  ParticipantEvicted(u, participants'[u].graceTimer) \in armed' \cup fired' \cup Range(inbox')
  BY DEF GraceExpiryPending
<1>0. TypeOK /\ FinishedClosed /\ GraceExpiryPending
  BY DEF TimerInv
<1>1. \A v \in DOMAIN participants : v \in Users /\ participants[v].graceTimer \in Drops \cup {NoTimer}
  BY <1>0 DEF TypeOK, ActorType, IsPartialFunction, ParticipantState
<1>2. CASE applyEvent
  <2>1. ~ctxDone
    BY <1>0, <1>2, ApplyCloses
  <2>2. /\ fired' = fired
        /\ \A ev \in Range(inbox) : ev = Head(inbox) \/ ev \in Range(inbox')
    BY <1>0, <1>2, ApplyQueue
  <2>3. u \in DOMAIN participants /\ WaitsOn(u)
    <3>1. NewParticipant.disconnected = FALSE
      BY DEF NewParticipant
    <3> QED
      BY <1>0, <1>2, <3>1, ApplySeat
  <2>4. CASE ParticipantEvicted(u, participants'[u].graceTimer) \in armed'
    BY <2>4
  <2>5. CASE /\ participants[u].disconnected /\ participants'[u].graceTimer = participants[u].graceTimer
             /\ ~(Head(inbox).type = "evicted" /\ Head(inbox).user = u)
             /\ \A n \in Drops \cup {NoTimer} :
                    ParticipantEvicted(u, n) \in armed => ParticipantEvicted(u, n) \in armed'
    <3> DEFINE ev == ParticipantEvicted(u, participants[u].graceTimer)
    <3>1. ev \in armed \cup fired \cup Range(inbox)
      BY <1>0, <2>1, <2>3, <2>5 DEF GraceExpiryPending
    <3>2. ev.type = "evicted" /\ ev.user = u
      BY DEF ParticipantEvicted
    <3>3. ev # Head(inbox)
      BY <2>5, <3>2
    <3>4. ev \in armed => ev \in armed'
      BY <1>1, <2>3, <2>5
    <3>5. ev \in armed' \cup fired' \cup Range(inbox')
      BY <2>2, <3>1, <3>3, <3>4
    <3> QED
      BY <2>5, <3>5
  <2> QED
    BY <2>3, <2>4, <2>5 DEF WaitsOn, Seat
<1>3. CASE OtherSteps
  <2>1. /\ UNCHANGED participants /\ ~ctxDone
        /\ \A x \in TimerEvent : Pending(x) => x \in armed' \cup fired' \cup Range(inbox')
    BY <1>0, <1>3, OtherStepsKeep DEF Pending
  <2> DEFINE ev == ParticipantEvicted(u, participants[u].graceTimer)
  <2>2. Pending(ev)
    BY <1>0, <2>1 DEF GraceExpiryPending, Pending
  <2>3. ev \in TimerEvent
    <3>1. u \in Users /\ participants[u].graceTimer \in Drops \cup {NoTimer}
      BY <1>1, <2>1
    <3>2. ev \in RoomEvent
      BY <1>0, <2>2 DEF Pending, TypeOK, QueueType, Range, RoomEvent
    <3>3. ev.type = "evicted" /\ ev.user = u /\ ev.drop = participants[u].graceTimer
      BY DEF ParticipantEvicted
    <3>4. ev.drop \in Drops
      BY <3>2, <3>3, EventFields
    <3> QED
      BY <3>1, <3>3, <3>4 DEF TimerEvent
  <2>4. ev \in armed' \cup fired' \cup Range(inbox')
    BY <2>1, <2>2, <2>3
  <2> QED
    BY <2>1, <2>4
<1> QED
  BY <1>2, <1>3 DEF Next, OtherSteps

\* Every event that can leave a room without anybody to race looks whether it has.
LEMMA NextAbandoned ==
    ASSUME TimerInv, [Next]_vars
    PROVE  NoAbandonedRoom'
<1> SUFFICES ASSUME ~ctxDone', failures' = 0, Unfinished(participants') = {}
             PROVE  totalParticipants' = 0 /\ Pending(noShowTimeout)'
  BY DEF NoAbandonedRoom, Pending
<1>0. TypeOK /\ FinishedClosed /\ NoAbandonedRoom
  BY DEF TimerInv
<1>1. CASE applyEvent
  <2>1. ~ctxDone /\ failures = 0
    BY <1>0, <1>1, ApplyCloses
  <2>2. Unfinished(participants) = {} /\ Head(inbox).type # "noShowTimeout" /\ UNCHANGED totalParticipants
    BY <1>0, <1>1, ApplyLeavesSomebody, ApplyCountsNobody
  <2>3. totalParticipants = 0 /\ noShowTimeout \in armed \cup fired \cup Range(inbox)
    BY <1>0, <2>1, <2>2 DEF NoAbandonedRoom
  <2>4. noShowTimeout # Head(inbox)
    BY <2>2 DEF noShowTimeout
  <2> QED
    BY <1>0, <1>1, <2>2, <2>3, <2>4, ApplyQueue DEF Pending
<1>2. CASE OtherSteps
  <2>1. /\ UNCHANGED <<participants, totalParticipants, failures>> /\ ~ctxDone
        /\ \A ev \in TimerEvent : Pending(ev) => Pending(ev)'
    BY <1>0, <1>2, OtherStepsKeep
  <2>2. Unfinished(participants) = {}
    BY <2>1
  <2>3. totalParticipants = 0 /\ Pending(noShowTimeout)
    BY <1>0, <2>1, <2>2 DEF NoAbandonedRoom, Pending
  <2>4. noShowTimeout \in TimerEvent
    BY DEF TimerEvent
  <2> QED
    BY <2>1, <2>3, <2>4
<1> QED
  BY <1>1, <1>2 DEF Next, OtherSteps

\* The four facts hold together: each step needs the others to keep one of them.
LEMMA NextTimers ==
    ASSUME TimerInv, [Next]_vars
    PROVE  TimerInv'
<1>1. TypeOK'
  BY NextType DEF TimerInv
<1>2. FinishedClosed'
  <2>1. CASE applyEvent
    BY <2>1, ApplyCloses DEF TimerInv
  <2>2. CASE OtherSteps
    BY <2>2, OtherStepsKeep DEF TimerInv, FinishedClosed
  <2> QED
    BY <2>1, <2>2 DEF Next, OtherSteps
<1> QED
  BY <1>1, <1>2, NextGrace, NextAbandoned DEF TimerInv

\* A new room has nobody in it and its no-show timer armed.
LEMMA InitTimers == Init => TimerInv
<1> SUFFICES ASSUME Init PROVE TimerInv
  OBVIOUS
<1>1. DOMAIN participants = {} /\ noShowTimeout \in armed /\ finished = FALSE /\ totalParticipants = 0
  BY DEF Init, NewRoomActor
<1> QED
  BY <1>1, InitType DEF TimerInv, FinishedClosed, GraceExpiryPending, NoAbandonedRoom

\* So they hold throughout.
LEMMA TimerInvariant == Spec => []TimerInv
<1>1. TimerInv /\ [Next]_vars => TimerInv'
  BY NextTimers
<1> QED
  BY <1>1, InitTimers, PTL DEF Spec

\* A player marked as disconnected always has an expiry counting down, fired, or in
\* the inbox, for any number of players and connection losses: nobody keeps a seat by
\* vanishing.
THEOREM GraceExpiryIsPending == Spec => []GraceExpiryPending
<1>1. TimerInv => GraceExpiryPending
  BY DEF TimerInv
<1> QED
  BY <1>1, TimerInvariant, PTL

\* A room in which nobody is left to race is closed, or nobody has come to it yet and
\* it is about to hear of its no-show timer, unless a Postgres call has failed.
THEOREM NoRoomAbandoned == Spec => []NoAbandonedRoom
<1>1. TimerInv => NoAbandonedRoom
  BY DEF TimerInv
<1> QED
  BY <1>1, TimerInvariant, PTL

\* A finish rank is assigned once while its player stays, and accepted sequence
\* numbers never go back, whatever arrives late or twice.
THEOREM RanksStay == Spec => RankAndSeqStable
<1>1. TypeOK /\ [Next]_vars =>
          [\A u \in DOMAIN participants \cap DOMAIN participants' :
              /\ participants[u].rank # Unranked => participants'[u].rank = participants[u].rank
              /\ participants'[u].lastSeq >= participants[u].lastSeq]_vars
  <2> SUFFICES ASSUME TypeOK, [Next]_vars, NEW u \in DOMAIN participants \cap DOMAIN participants'
               PROVE  /\ participants[u].rank # Unranked => participants'[u].rank = participants[u].rank
                      /\ participants'[u].lastSeq >= participants[u].lastSeq
    OBVIOUS
  <2>1. CASE applyEvent
    BY <2>1, ApplySeat DEF Keeps, Seat
  <2>2. CASE OtherSteps
    <3>1. UNCHANGED participants
      BY <2>2, OtherStepsKeep
    <3>2. participants[u].lastSeq \in Nat
      BY BoundsAssumption DEF TypeOK, ActorType, IsPartialFunction, ParticipantState
    <3> QED
      BY <3>1, <3>2
  <2> QED
    BY <2>1, <2>2 DEF Next, OtherSteps
<1> QED
  BY <1>1, TypeCorrect, PTL DEF Spec, RankAndSeqStable

==============================================================================
