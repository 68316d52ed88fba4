--------------------------- MODULE RoomActor_proofs ---------------------------
(***************************************************************************)
(* Proofs about RoomActor, for any number of players, any distance, any    *)
(* inbox capacity and any bounds.                                          *)
(***************************************************************************)
EXTENDS RoomActor, FiniteSetTheorems, TLAPS

-----------------------------------------------------------------------------
(* The pieces the actor's state is made of.                                *)

\* A map stays a map of players when an entry is put into it.
LEMMA PutType ==
    ASSUME NEW f, NEW u \in Users, NEW p \in ParticipantState,
           IsPartialFunction(f, Users, ParticipantState)
    PROVE  /\ IsPartialFunction(Put(f, u, p), Users, ParticipantState)
           /\ DOMAIN Put(f, u, p) = DOMAIN f \cup {u}
           /\ Put(f, u, p)[u] = p
           /\ \A v \in DOMAIN f \ {u} : Put(f, u, p)[v] = f[v]
BY DEF IsPartialFunction, Put

\* A map stays a map of players when an entry is deleted.
LEMMA DropType ==
    ASSUME NEW f, NEW u, IsPartialFunction(f, Users, ParticipantState)
    PROVE  /\ IsPartialFunction(Drop(f, u), Users, ParticipantState)
           /\ DOMAIN Drop(f, u) = DOMAIN f \ {u}
           /\ \A v \in DOMAIN f \ {u} : Drop(f, u)[v] = f[v]
BY DEF IsPartialFunction, Drop, Restrict

\* What is in the fields of an event, by its type.
LEMMA EventFields ==
    ASSUME NEW e \in RoomEvent
    PROVE  /\ e.type \in {"joined", "left", "telemetry", "disconnected", "evicted"} => e.user \in Users
           /\ e.type = "telemetry" => e.seq \in 1..MaxSeq /\ e.words \in 0..DistanceMeters
           /\ e.type \in {"disconnected", "evicted"} => e.drop \in Drops
           /\ e.type = "evicted" => e = ParticipantEvicted(e.user, e.drop)
           /\ e.type = "noShowTimeout" => e = noShowTimeout
BY DEF RoomEvent, TimerEvent, ParticipantJoined, ParticipantLeft, TelemetryReceived,
       ParticipantDisconnected, ParticipantEvicted, noShowTimeout, activated, pendingExpired

\* Taking the first event off the inbox.
LEMMA ReceiveType ==
    ASSUME QueueType, NEW t, Receive(t)
    PROVE  /\ Head(inbox) \in RoomEvent /\ Head(inbox).type = t
           /\ inbox' \in Seq(RoomEvent) /\ Len(inbox') <= InboxCap
           /\ running' \in BOOLEAN
BY InboxAssumption DEF QueueType, Receive

\* Sending keeps the inbox within its capacity.
LEMMA SendType ==
    ASSUME QueueType, NEW e \in RoomEvent, Send(e)
    PROVE  inbox' \in Seq(RoomEvent) /\ Len(inbox') <= InboxCap
BY InboxAssumption DEF QueueType, Send

\* A newcomer is a participant.
LEMMA NewParticipantType == NewParticipant \in ParticipantState
BY DistanceAssumption, BoundsAssumption DEF NewParticipant, ParticipantState, NoTimer, Unranked

\* One player's result is a typed row.
LEMMA ResultType ==
    ASSUME NEW u \in Users, NEW p \in ParticipantState, NEW n \in Nat
    PROVE  buildParticipantResult(u, p, n) \in Row
<1> DEFINE fin == p.rank # Unranked
           rnk == IF p.rank = Unranked THEN n ELSE p.rank
<1>1. fin \in BOOLEAN
  OBVIOUS
<1>2. rnk \in Nat
  BY DEF ParticipantState
<1>3. buildParticipantResult(u, p, n) = [user |-> u, finisher |-> fin, rank |-> rnk]
  BY Zenon DEF buildParticipantResult
<1> HIDE DEF fin, rnk
<1> QED BY <1>1, <1>2, <1>3 DEF Row

\* The results are built of typed rows.
LEMMA ResultsType ==
    ASSUME NEW f, NEW g, NEW n \in Nat,
           IsPartialFunction(f, Users, ParticipantState), IsPartialFunction(g, Users, ParticipantState)
    PROVE  FinalResults(f, g, n) \subseteq Row
BY ResultType DEF FinalResults, IsPartialFunction

\* The room's fate keeps its type when a pending room is torn down, or is not.
LEMMA ExpireType ==
    ASSUME ClosingType, expirePendingRoom
    PROVE  ClosingType'
<1>0. Cancelled \in {"pending", "active", "finished", "cancelled"}
  BY DEF ClosingType, Cancelled
<1>1. CASE CallFails(Cancelled, results)
  BY <1>0, <1>1, BoundsAssumption DEF ClosingType, CallFails
<1> QED BY <1>0, <1>1 DEF ClosingType, expirePendingRoom

\* And likewise when an event ends with the look at whether the race is over.
LEMMA CheckType ==
    ASSUME ClosingType, ActorType', checkRaceFinished
    PROVE  ClosingType'
<1>1. CASE UNCHANGED closingVars
  BY <1>1 DEF ClosingType, closingVars
<1>3. CASE expirePendingRoom
  BY <1>3, ExpireType
<1> DEFINE res == FinalResults(participants', departedParticipants', totalParticipants')
<1>4. CASE finishRace(res)
  <2>1. res \subseteq Row
    BY ResultsType DEF ActorType
  <2> HIDE DEF res
  <2>2. CASE CallFails("finished", res)
    BY <2>1, <2>2, BoundsAssumption DEF ClosingType, CallFails
  <2> QED BY <1>4, <2>1, <2>2 DEF ClosingType, finishRace
<1> QED BY <1>1, <1>3, <1>4 DEF checkRaceFinished

\* A departure moves a typed entry from one map to the other.
LEMMA DepartType ==
    ASSUME ActorType, ClosingType, OutsideType, NEW u \in DOMAIN participants, departParticipant(u)
    PROVE  ActorType' /\ ClosingType' /\ evictedKey' \subseteq Users /\ rows' \subseteq Users
<1>1. u \in Users /\ participants[u] \in ParticipantState
  BY DEF ActorType, IsPartialFunction
<1>2. IsPartialFunction(participants', Users, ParticipantState)
  BY DropType DEF departParticipant, ActorType
<1>3. IsPartialFunction(departedParticipants', Users, ParticipantState)
  BY <1>1, PutType DEF departParticipant, ActorType
<1>4. ActorType'
  BY <1>1, <1>2, <1>3 DEF departParticipant, ActorType
<1>5. ClosingType'
  BY <1>4, CheckType DEF departParticipant
<1> QED BY <1>1, <1>4, <1>5 DEF departParticipant, OutsideType

-----------------------------------------------------------------------------
(* Type correctness, one lemma for applyEvent and one for the rest.         *)

\* Each case of applyEvent keeps the types.
LEMMA ApplyType ==
    ASSUME TypeOK, applyEvent
    PROVE  TypeOK'
<1> DEFINE e == Head(inbox)
<1> USE DEF TypeOK
<1>0. e \in RoomEvent /\ inbox' \in Seq(RoomEvent) /\ Len(inbox') <= InboxCap /\ UNCHANGED <<running, envVars>>
  BY ReceiveType DEF applyEvent, applyJoined, applyTelemetry, applyDisconnected, applyEvicted, applyLeft,
     applyNoShowTimeout, applyActivated, applyPendingExpired, Receive
<1>1. CASE applyJoined
  <2>1. e.user \in Users
    BY <1>0, <1>1, ReceiveType, EventFields DEF applyJoined
  <2>2. IsPartialFunction(participants', Users, ParticipantState) /\ totalParticipants' \in Nat
    <3>1. CASE e.user \notin DOMAIN participants
      <4>1. participants' = Put(participants, e.user, NewParticipant)
            /\ totalParticipants' = totalParticipants + 1
        BY <1>1, <3>1 DEF applyJoined, CountNew
      <4>2. IsPartialFunction(Put(participants, e.user, NewParticipant), Users, ParticipantState)
        BY <2>1, PutType, NewParticipantType DEF ActorType
      <4> QED BY <4>1, <4>2 DEF ActorType
    <3>2. CASE e.user \in DOMAIN participants /\ participants[e.user].disconnected
      <4>1. Reconnected(participants[e.user]) \in ParticipantState
        BY <3>2 DEF Reconnected, ParticipantState, ActorType, IsPartialFunction
      <4> QED BY <1>1, <3>2, <4>1 DEF applyJoined, ActorType, IsPartialFunction
    <3>3. CASE e.user \in DOMAIN participants /\ ~participants[e.user].disconnected
      BY <1>1, <3>3 DEF applyJoined, ActorType
    <3> QED BY <3>1, <3>2, <3>3
  <2>3. ActorType' /\ ClosingType' /\ OutsideType'
    BY <1>0, <1>1, <2>2 DEF applyJoined, ActorType, ClosingType, OutsideType, closingVars, storeVars, envVars
  <2> QED BY <1>0, <1>1, <2>3 DEF applyJoined, QueueType
<1>2. CASE applyTelemetry
  <2>1. e.user \in Users /\ e.seq \in 0..MaxSeq /\ e.words \in 0..DistanceMeters
    BY <1>0, <1>2, ReceiveType, EventFields DEF applyTelemetry
  <2>2. ActorType'
    <3>1. CASE ~Fresh(e)
      BY <1>2, <3>1 DEF applyTelemetry, ActorType
    <3>2. CASE Fresh(e) /\ ~Finishes(e)
      BY <1>2, <2>1, <3>2 DEF applyTelemetry, ActorType, IsPartialFunction, ParticipantState
    <3>3. CASE Fresh(e) /\ Finishes(e)
      BY <1>2, <2>1, <3>3 DEF applyTelemetry, ActorType, IsPartialFunction, ParticipantState, NextRank
    <3> QED BY <3>1, <3>2, <3>3
  <2>3. ClosingType'
    BY <1>2, <2>2, CheckType DEF applyTelemetry, ClosingType, closingVars
  <2> QED BY <1>0, <1>2, <2>2, <2>3 DEF applyTelemetry, QueueType, OutsideType, timerVars, storeVars, envVars
<1>3. CASE applyDisconnected
  <2>1. e.user \in Users /\ e.drop \in Drops
    BY <1>0, <1>3, ReceiveType, EventFields DEF applyDisconnected
  <2>2. ActorType'
    <3>1. CASE e.user \notin DOMAIN participants
      BY <1>3, <3>1 DEF applyDisconnected, ActorType
    <3>2. CASE e.user \in DOMAIN participants
      <4>1. LostConnection(participants[e.user], e.drop) \in ParticipantState
        BY <2>1, <3>2 DEF LostConnection, ParticipantState, ActorType, IsPartialFunction
      <4>2. IsPartialFunction(participants', Users, ParticipantState)
        BY <1>3, <3>2, <4>1 DEF applyDisconnected, ActorType, IsPartialFunction
      <4> QED BY <1>3, <4>2 DEF applyDisconnected, ActorType
    <3> QED BY <3>1, <3>2
  <2>3. armed' \subseteq TimerEvent
    BY <1>3, <2>1 DEF applyDisconnected, QueueType, TimerEvent
  <2> QED BY <1>0, <1>3, <2>2, <2>3
          DEF applyDisconnected, QueueType, ClosingType, OutsideType, closingVars, storeVars, envVars
<1>4. CASE applyEvicted
  <2>1. CASE departParticipant(e.user) /\ e.user \in DOMAIN participants
    BY <1>0, <1>4, <2>1, DepartType DEF applyEvicted, QueueType, OutsideType, timerVars, envVars
  <2>2. CASE UNCHANGED <<actorVars, closingVars, storeVars>>
    BY <1>0, <1>4, <2>2 DEF applyEvicted, ActorType, QueueType, ClosingType, OutsideType,
                            actorVars, closingVars, timerVars, storeVars, envVars
  <2> QED BY <1>4, <2>1, <2>2 DEF applyEvicted
<1>5. CASE applyLeft
  <2>1. CASE departParticipant(e.user) /\ e.user \in DOMAIN participants
    BY <1>0, <1>5, <2>1, DepartType DEF applyLeft, QueueType, OutsideType, timerVars, envVars
  <2>2. CASE UNCHANGED <<actorVars, closingVars, storeVars>>
    BY <1>0, <1>5, <2>2 DEF applyLeft, ActorType, QueueType, ClosingType, OutsideType,
                            actorVars, closingVars, timerVars, storeVars, envVars
  <2>3. CASE /\ participants' = Drop(participants, e.user)
             /\ rows' \subseteq rows
             /\ UNCHANGED <<departedParticipants, evicted, totalParticipants, finishedCount, active, evictedKey>>
             /\ checkRaceFinished
    <3>1. ActorType'
      BY <2>3, DropType DEF ActorType
    <3> QED BY <1>0, <1>5, <2>3, <3>1, CheckType DEF applyLeft, QueueType, OutsideType, timerVars, envVars
  <2> QED BY <1>5, <2>1, <2>2, <2>3 DEF applyLeft
<1>6. CASE applyNoShowTimeout
  <2>1. ActorType'
    BY <1>6 DEF applyNoShowTimeout, ActorType, actorVars
  <2> QED BY <1>0, <1>6, <2>1, CheckType
          DEF applyNoShowTimeout, QueueType, OutsideType, timerVars, storeVars, envVars
<1>7. CASE applyActivated
  BY <1>0, <1>7 DEF applyActivated, ActorType, QueueType, ClosingType, OutsideType, timerVars, storeVars, envVars
<1>8. CASE applyPendingExpired
  <2>1. ClosingType'
    BY <1>8, ExpireType DEF applyPendingExpired, ClosingType, closingVars
  <2> QED BY <1>0, <1>8, <2>1
          DEF applyPendingExpired, ActorType, QueueType, OutsideType, actorVars, timerVars, storeVars, envVars
<1> QED BY <1>1, <1>2, <1>3, <1>4, <1>5, <1>6, <1>7, <1>8 DEF applyEvent

\* Every step keeps the types.
LEMMA NextType ==
    ASSUME TypeOK, [Next]_vars
    PROVE  TypeOK'
<1> USE DEF TypeOK
<1>1. CASE applyEvent
  BY <1>1, ApplyType
<1>2. CASE RunReturns
  BY <1>2 DEF RunReturns, ActorType, ClosingType, QueueType, OutsideType,
              actorVars, closingVars, timerVars, storeVars, envVars
<1>3. CASE Timers
  <2>1. PICK ev \in TimerEvent : TimerFires(ev) \/ TimerSends(ev)
    BY <1>3 DEF Timers
  <2>2. ev \in RoomEvent
    BY DEF RoomEvent
  <2>3. QueueType'
    BY <2>1, <2>2, SendType DEF TimerFires, TimerSends, QueueType
  <2> QED BY <2>1, <2>3 DEF TimerFires, TimerSends, ActorType, ClosingType, OutsideType,
                            actorVars, closingVars, storeVars, envVars
<1>4. CASE Clients
  <2>1. PICK u \in Users :
            \/ JoinRace(u) \/ ConnectionLost(u) \/ LeaveRace(u)
            \/ RestJoinCheck(u) \/ RestJoinInsert(u)
            \/ \E s \in 1..MaxSeq, w \in 0..DistanceMeters : Telemetry(u, s, w)
    BY <1>4 DEF Clients
  <2>2. CASE JoinRace(u)
    <3>1. ParticipantJoined(u) \in RoomEvent
      BY DEF RoomEvent
    <3> QED BY <2>2, <3>1, SendType, BoundsAssumption
            DEF JoinRace, SendsOnly, ActorType, ClosingType, QueueType, OutsideType,
                actorVars, closingVars, timerVars, storeVars
  <2>3. CASE ConnectionLost(u)
    <3>1. ParticipantDisconnected(u, drops + 1) \in RoomEvent
      BY <2>3, BoundsAssumption DEF ConnectionLost, RoomEvent, Drops, OutsideType
    <3> QED BY <2>3, <3>1, SendType, BoundsAssumption
            DEF ConnectionLost, SendsOnly, ActorType, ClosingType, QueueType, OutsideType,
                actorVars, closingVars, timerVars, storeVars
  <2>4. CASE LeaveRace(u)
    <3>1. ParticipantLeft(u) \in RoomEvent
      BY DEF RoomEvent
    <3> QED BY <2>4, <3>1, SendType
            DEF LeaveRace, SendsOnly, ActorType, ClosingType, QueueType, OutsideType,
                actorVars, closingVars, timerVars, storeVars
  <2>5. CASE RestJoinCheck(u) \/ RestJoinInsert(u)
    BY <2>5 DEF RestJoinCheck, RestJoinInsert, ActorType, ClosingType, QueueType, OutsideType,
                actorVars, closingVars, timerVars, storeVars
  <2>6. CASE \E s \in 1..MaxSeq, w \in 0..DistanceMeters : Telemetry(u, s, w)
    <3>1. PICK s \in 1..MaxSeq, w \in 0..DistanceMeters : Telemetry(u, s, w)
      BY <2>6
    <3>2. TelemetryReceived(u, s, w) \in RoomEvent
      BY DEF RoomEvent
    <3> QED BY <3>1, <3>2, SendType
            DEF Telemetry, SendsOnly, ActorType, ClosingType, QueueType, OutsideType,
                actorVars, closingVars, timerVars, storeVars
  <2> QED BY <2>1, <2>2, <2>3, <2>4, <2>5, <2>6
<1>5. CASE StartRequests
  <2>1. PICK s \in Starters : StartGetRace(s) \/ StartUpdate(s) \/ StartMarkActive(s)
    BY <1>5 DEF StartRequests
  <2>2. activated \in RoomEvent
    BY DEF RoomEvent
  <2>3. QueueType'
    BY <2>1, <2>2, SendType DEF StartGetRace, StartUpdate, StartMarkActive, QueueType, timerVars
  <2> QED BY <2>1, <2>3 DEF StartGetRace, StartUpdate, StartMarkActive, ActorType, ClosingType, OutsideType,
                            actorVars, closingVars, timerVars, storeVars
<1>6. CASE RegistryRemove
  BY <1>6 DEF RegistryRemove, ActorType, ClosingType, QueueType, OutsideType,
              actorVars, timerVars, storeVars, envVars
<1>7. CASE Terminated \/ UNCHANGED vars
  BY <1>7 DEF Terminated, vars, ActorType, ClosingType, QueueType, OutsideType,
              actorVars, closingVars, timerVars, storeVars, envVars
<1> QED BY <1>1, <1>2, <1>3, <1>4, <1>5, <1>6, <1>7 DEF Next

\* The types hold initially.
LEMMA InitType == Init => TypeOK
<1> SUFFICES ASSUME Init PROVE TypeOK
  OBVIOUS
<1>1. ActorType
  <2>1. IsPartialFunction([u \in {} |-> NewParticipant], Users, ParticipantState)
    BY DEF IsPartialFunction
  <2> QED BY <2>1 DEF Init, NewRoomActor, ActorType
<1>2. ClosingType
  <2>1. finished \in BOOLEAN /\ ctxDone \in BOOLEAN
    BY DEF Init, NewRoomActor
  <2>2. results \subseteq Row /\ failures \in 0..MaxFailures
    BY BoundsAssumption DEF Init
  <2> QED BY <2>1, <2>2 DEF Init, ClosingType
<1>3. QueueType
  BY InboxAssumption DEF Init, NewRoomActor, QueueType, TimerEvent
<1>4. OutsideType
  BY BoundsAssumption DEF Init, OutsideType
<1> QED BY <1>1, <1>2, <1>3, <1>4 DEF TypeOK

\* The room's state is always of its type, and its inbox within capacity.
THEOREM TypeCorrect == Spec => []TypeOK
BY InitType, NextType, PTL DEF Spec

-----------------------------------------------------------------------------
(* Finish ranks.  Neither FinishRanksUnique nor EveryoneCounted mentions    *)
(* anything but the two maps and the two counters, so only the events that  *)
(* write one of those can disturb them.                                     *)

Ranking == FinishRanksUnique /\ EveryoneCounted

rankVars == <<participants, departedParticipants, finishedCount, totalParticipants>>

\* The players without a rank form a finite set.
LEMMA UnfinishedFinite ==
    ASSUME NEW f, IsPartialFunction(f, Users, ParticipantState)
    PROVE  /\ IsFiniteSet(Unfinished(f)) /\ Cardinality(Unfinished(f)) \in Nat
           /\ \A S \in SUBSET Unfinished(f) :
                  IsFiniteSet(S) /\ Cardinality(S) <= Cardinality(Unfinished(f))
<1>1. Unfinished(f) \subseteq Users
  BY DEF IsPartialFunction, Unfinished
<1>2. IsFiniteSet(Unfinished(f))
  BY <1>1, UsersAssumption, FS_Subset DEF UsersAssumption
<1> QED BY <1>2, FS_Subset, FS_CardinalityType

\* Putting an entry into a map adds at most that one player without a rank,
\* and none if the entry has a rank.
LEMMA PutUnfinished ==
    ASSUME NEW f, NEW u \in Users, NEW p \in ParticipantState,
           IsPartialFunction(f, Users, ParticipantState)
    PROVE  /\ Cardinality(Unfinished(Put(f, u, p))) <= Cardinality(Unfinished(f)) + 1
           /\ p.rank # Unranked => Cardinality(Unfinished(Put(f, u, p))) <= Cardinality(Unfinished(f))
<1> DEFINE S == Unfinished(f)
           T == Unfinished(Put(f, u, p))
<1>1. IsPartialFunction(Put(f, u, p), Users, ParticipantState)
  BY PutType
<1>2. T \subseteq S \cup {u} /\ (p.rank # Unranked => T \subseteq S)
  <2> DEFINE g == Put(f, u, p)
  <2>1. DOMAIN g = DOMAIN f \cup {u} /\ g[u] = p /\ \A v \in DOMAIN f \ {u} : g[v] = f[v]
    BY PutType
  <2> HIDE DEF g
  <2>2. Unfinished(g) \subseteq Unfinished(f) \cup {u} /\ (p.rank # Unranked => Unfinished(g) \subseteq Unfinished(f))
    BY <2>1 DEF Unfinished
  <2> QED BY <2>2 DEF g
<1>3. IsFiniteSet(S) /\ Cardinality(S) \in Nat /\ Cardinality(T) \in Nat
  BY <1>1, UnfinishedFinite
<1> HIDE DEF S, T
<1>4. IsFiniteSet(S \cup {u}) /\ Cardinality(S \cup {u}) \in Nat /\ Cardinality(S \cup {u}) <= Cardinality(S) + 1
  <2>1. IsFiniteSet(S \cup {u}) /\ Cardinality(S \cup {u}) = IF u \in S THEN Cardinality(S) ELSE Cardinality(S) + 1
    BY <1>3, FS_AddElement
  <2> QED BY <1>3, <2>1
<1>5. Cardinality(T) <= Cardinality(S \cup {u})
  BY <1>2, <1>4, FS_Subset
<1>6. p.rank # Unranked => Cardinality(T) <= Cardinality(S)
  BY <1>2, <1>3, FS_Subset
<1> QED BY <1>3, <1>4, <1>5, <1>6 DEF S, T

\* Deleting a player without a rank takes one off their number; deleting any
\* player adds nobody to it.
LEMMA DropUnfinished ==
    ASSUME NEW f, NEW u \in DOMAIN f, IsPartialFunction(f, Users, ParticipantState)
    PROVE  /\ Cardinality(Unfinished(Drop(f, u))) <= Cardinality(Unfinished(f))
           /\ f[u].rank = Unranked => Cardinality(Unfinished(Drop(f, u))) + 1 = Cardinality(Unfinished(f))
<1> DEFINE S == Unfinished(f)
           T == Unfinished(Drop(f, u))
<1>1. T = S \ {u} /\ (f[u].rank = Unranked => u \in S)
  <2> DEFINE g == Drop(f, u)
  <2>1. DOMAIN g = DOMAIN f \ {u} /\ \A v \in DOMAIN f \ {u} : g[v] = f[v]
    BY DropType
  <2> HIDE DEF g
  <2>2. Unfinished(g) = Unfinished(f) \ {u}
    BY <2>1 DEF Unfinished
  <2> QED BY <2>2 DEF g, Unfinished
<1>2. IsFiniteSet(S) /\ Cardinality(S) \in Nat
  BY UnfinishedFinite
<1> HIDE DEF S, T
<1>3. Cardinality(T) <= Cardinality(S)
  BY <1>1, <1>2, FS_Subset
<1>4. u \in S => Cardinality(T) = Cardinality(S) - 1
  BY <1>1, <1>2, FS_RemoveElement
<1> QED BY <1>1, <1>2, <1>3, <1>4 DEF S, T

\* A player who joins for the first time is counted, and has no rank.
LEMMA JoinRanking ==
    ASSUME TypeOK, Ranking, NEW u \in Users, u \notin DOMAIN participants,
           participants' = Put(participants, u, NewParticipant),
           totalParticipants' = totalParticipants + 1,
           UNCHANGED <<departedParticipants, finishedCount>>
    PROVE  Ranking'
<1>0. IsPartialFunction(participants, Users, ParticipantState) /\ finishedCount \in Nat /\ totalParticipants \in Nat
      /\ IsPartialFunction(departedParticipants, Users, ParticipantState)
  BY DEF TypeOK, ActorType
<1>1. /\ DOMAIN participants' = DOMAIN participants \cup {u} /\ participants'[u] = NewParticipant
      /\ \A v \in DOMAIN participants \ {u} : participants'[v] = participants[v]
  BY DEF Put
<1>2. NewParticipant.rank = Unranked /\ Unranked <= finishedCount
  BY <1>0 DEF NewParticipant, Unranked
<1>3. FinishRanksUnique'
  <2>1. Ranked(participants') = Ranked(participants)
    BY <1>1, <1>2 DEF Ranked
  <2>2. \A v \in Ranked(participants) : participants'[v] = participants[v]
    BY <1>1 DEF Ranked
  <2> QED BY <1>1, <1>2, <2>1, <2>2 DEF Ranking, FinishRanksUnique
<1>4. /\ Cardinality(Unfinished(participants')) <= Cardinality(Unfinished(participants)) + 1
      /\ Cardinality(Unfinished(participants)) \in Nat
      /\ Cardinality(Unfinished(departedParticipants)) \in Nat
  BY <1>0, PutUnfinished, NewParticipantType, UnfinishedFinite
<1>5. Cardinality(Unfinished(participants')) \in Nat
  BY <1>0, PutType, NewParticipantType, UnfinishedFinite
<1>6. EveryoneCounted'
  BY <1>0, <1>4, <1>5 DEF Ranking, EveryoneCounted
<1> QED BY <1>3, <1>6 DEF Ranking

\* A player who finishes takes the next rank.
LEMMA FinishRanking ==
    ASSUME TypeOK, Ranking, NEW u \in DOMAIN participants, participants[u].rank = Unranked,
           NEW p \in ParticipantState, p.rank = finishedCount + 1,
           participants' = [participants EXCEPT ![u] = p],
           finishedCount' = finishedCount + 1,
           UNCHANGED <<departedParticipants, totalParticipants>>
    PROVE  Ranking'
<1> USE DEF TypeOK, ActorType
<1>1. /\ DOMAIN participants' = DOMAIN participants /\ participants'[u] = p
      /\ \A v \in DOMAIN participants \ {u} : participants'[v] = participants[v]
      /\ \A v \in DOMAIN participants : participants[v].rank \in Nat
      /\ \A v \in DOMAIN departedParticipants : departedParticipants[v].rank \in Nat
  BY DEF IsPartialFunction, ParticipantState
<1>2. FinishRanksUnique'
  BY <1>1 DEF Ranking, FinishRanksUnique, Ranked, Unranked
<1>3. Unfinished(participants') = Unfinished(participants) \ {u} /\ u \in Unfinished(participants)
  BY <1>1 DEF Unfinished, Unranked
<1>4. /\ IsFiniteSet(Unfinished(participants)) /\ Cardinality(Unfinished(participants)) \in Nat
      /\ Cardinality(Unfinished(departedParticipants)) \in Nat
  BY UnfinishedFinite
<1>5. Cardinality(Unfinished(participants')) = Cardinality(Unfinished(participants)) - 1
  BY <1>3, <1>4, FS_RemoveElement
<1>6. EveryoneCounted'
  BY <1>4, <1>5 DEF Ranking, EveryoneCounted
<1> QED BY <1>2, <1>6 DEF Ranking

\* A player who departs takes the rank along, and a departed entry of the same
\* user, if there is one, is overwritten.
LEMMA DepartRanking ==
    ASSUME TypeOK, Ranking, NEW u \in DOMAIN participants,
           participants' = Drop(participants, u),
           departedParticipants' = Put(departedParticipants, u, participants[u]),
           UNCHANGED <<finishedCount, totalParticipants>>
    PROVE  Ranking'
<1> USE DEF TypeOK, ActorType
<1>0. u \in Users /\ participants[u] \in ParticipantState
  BY DEF IsPartialFunction
<1>1. /\ DOMAIN participants' = DOMAIN participants \ {u}
      /\ \A v \in DOMAIN participants \ {u} : participants'[v] = participants[v]
  BY DropType
<1>2. /\ DOMAIN departedParticipants' = DOMAIN departedParticipants \cup {u}
      /\ departedParticipants'[u] = participants[u]
      /\ \A v \in DOMAIN departedParticipants \ {u} : departedParticipants'[v] = departedParticipants[v]
  BY DEF Put
<1>3. FinishRanksUnique'
  BY <1>1, <1>2 DEF Ranking, FinishRanksUnique, Ranked
<1>4. /\ Cardinality(Unfinished(participants)) \in Nat
      /\ Cardinality(Unfinished(departedParticipants)) \in Nat
      /\ Cardinality(Unfinished(participants')) \in Nat
      /\ Cardinality(Unfinished(departedParticipants')) \in Nat
  BY <1>0, UnfinishedFinite, DropType, PutType
<1>5. EveryoneCounted'
  <2>1. Cardinality(Unfinished(participants')) + Cardinality(Unfinished(departedParticipants'))
            <= Cardinality(Unfinished(participants)) + Cardinality(Unfinished(departedParticipants))
    <3>1. CASE participants[u].rank = Unranked
      BY <1>0, <1>4, <3>1, DropUnfinished, PutUnfinished
    <3>2. CASE participants[u].rank # Unranked
      BY <1>0, <1>4, <3>2, DropUnfinished, PutUnfinished
    <3> QED BY <3>1, <3>2
  <2> QED BY <1>4, <2>1 DEF Ranking, EveryoneCounted
<1> QED BY <1>3, <1>5 DEF Ranking

\* A player who leaves the lobby takes nothing along.
LEMMA LeaveRanking ==
    ASSUME TypeOK, Ranking, NEW u \in DOMAIN participants,
           participants' = Drop(participants, u),
           UNCHANGED <<departedParticipants, finishedCount, totalParticipants>>
    PROVE  Ranking'
<1> USE DEF TypeOK, ActorType
<1>1. /\ DOMAIN participants' = DOMAIN participants \ {u}
      /\ \A v \in DOMAIN participants \ {u} : participants'[v] = participants[v]
  BY DropType
<1>2. FinishRanksUnique'
  BY <1>1 DEF Ranking, FinishRanksUnique, Ranked
<1>3. /\ Cardinality(Unfinished(participants)) \in Nat
      /\ Cardinality(Unfinished(departedParticipants)) \in Nat
      /\ Cardinality(Unfinished(participants')) \in Nat
  BY UnfinishedFinite, DropType
<1>4. EveryoneCounted'
  BY <1>3, DropUnfinished DEF Ranking, EveryoneCounted
<1> QED BY <1>2, <1>4 DEF Ranking

\* An event that writes none of the four variables disturbs nothing.
LEMMA SameRanking ==
    ASSUME Ranking, UNCHANGED rankVars
    PROVE  Ranking'
BY DEF Ranking, FinishRanksUnique, EveryoneCounted, Ranked, Unfinished, rankVars

\* A change of a participant that leaves the rank alone disturbs nothing.
LEMMA SameRank ==
    ASSUME TypeOK, Ranking, NEW u \in DOMAIN participants, NEW p \in ParticipantState,
           p.rank = participants[u].rank,
           participants' = [participants EXCEPT ![u] = p],
           UNCHANGED <<departedParticipants, finishedCount, totalParticipants>>
    PROVE  Ranking'
<1>1. /\ DOMAIN participants' = DOMAIN participants
      /\ \A v \in DOMAIN participants : participants'[v].rank = participants[v].rank
  BY DEF TypeOK, ActorType, IsPartialFunction
<1>2. Ranked(participants') = Ranked(participants) /\ Unfinished(participants') = Unfinished(participants)
  BY <1>1 DEF Ranked, Unfinished
<1>3. \A v \in Ranked(participants) : v \in DOMAIN participants
  BY DEF Ranked
<1>4. FinishRanksUnique'
  BY <1>1, <1>2, <1>3 DEF Ranking, FinishRanksUnique, Ranked
<1>5. EveryoneCounted'
  BY <1>2 DEF Ranking, EveryoneCounted, Unfinished
<1> QED BY <1>4, <1>5 DEF Ranking

\* Every step keeps the ranking.
LEMMA NextRanking ==
    ASSUME TypeOK, Ranking, [Next]_vars
    PROVE  Ranking'
<1> DEFINE e == Head(inbox)
<1> USE DEF TypeOK
<1>1. CASE applyJoined
  <2>1. e.user \in Users
    BY <1>1, ReceiveType, EventFields DEF applyJoined
  <2>2. CASE e.user \notin DOMAIN participants
    BY <1>1, <2>1, <2>2, JoinRanking DEF applyJoined, CountNew
  <2>3. CASE e.user \in DOMAIN participants /\ participants[e.user].disconnected
    <3>1. /\ Reconnected(participants[e.user]) \in ParticipantState
          /\ Reconnected(participants[e.user]).rank = participants[e.user].rank
      BY <2>3 DEF Reconnected, ParticipantState, ActorType, IsPartialFunction
    <3>2. participants' = [participants EXCEPT ![e.user] = Reconnected(participants[e.user])]
      BY <1>1, <2>3 DEF applyJoined
    <3> QED BY <1>1, <2>3, <3>1, <3>2, SameRank DEF applyJoined
  <2>4. CASE e.user \in DOMAIN participants /\ ~participants[e.user].disconnected
    BY <1>1, <2>4, SameRanking DEF applyJoined, rankVars
  <2> QED BY <2>2, <2>3, <2>4
<1>2. CASE applyTelemetry
  <2>1. e.user \in Users /\ e.seq \in 0..MaxSeq /\ e.words \in 0..DistanceMeters
    BY <1>2, ReceiveType, EventFields DEF applyTelemetry
  <2>2. CASE ~Fresh(e)
    BY <1>2, <2>2, SameRanking DEF applyTelemetry, rankVars
  <2>3. CASE Fresh(e) /\ ~Finishes(e)
    <3> DEFINE p == [participants[e.user] EXCEPT !.words = e.words, !.lastSeq = e.seq]
    <3>1. e.user \in DOMAIN participants
      BY <2>3 DEF Fresh
    <3>2. p \in ParticipantState /\ p.rank = participants[e.user].rank
      BY <2>1, <3>1 DEF ActorType, IsPartialFunction, ParticipantState
    <3>3. participants' = [participants EXCEPT ![e.user] = p]
      BY <1>2, <2>3, <3>1 DEF applyTelemetry, ActorType, IsPartialFunction, ParticipantState
    <3> HIDE DEF p
    <3> QED BY <1>2, <2>3, <3>1, <3>2, <3>3, SameRank DEF applyTelemetry
  <2>4. CASE Fresh(e) /\ Finishes(e)
    <3> DEFINE p == [participants[e.user] EXCEPT !.words = e.words, !.lastSeq = e.seq, !.rank = finishedCount + 1]
    <3>1. e.user \in DOMAIN participants /\ participants[e.user].rank = Unranked
      BY <2>4 DEF Fresh, Finishes
    <3>2. p \in ParticipantState /\ p.rank = finishedCount + 1
      <4>1. participants[e.user] \in ParticipantState /\ finishedCount + 1 \in Nat
        BY <3>1 DEF ActorType, IsPartialFunction
      <4> QED BY <2>1, <4>1 DEF ParticipantState
    <3>3. participants' = [participants EXCEPT ![e.user] = p]
      BY <1>2, <2>4, <3>1 DEF applyTelemetry, ActorType, IsPartialFunction, ParticipantState, NextRank
    <3> HIDE DEF p
    <3> QED BY <1>2, <2>4, <3>1, <3>2, <3>3, FinishRanking DEF applyTelemetry
  <2> QED BY <2>2, <2>3, <2>4
<1>3. CASE applyDisconnected
  <2>1. e.drop \in Drops
    BY <1>3, ReceiveType, EventFields DEF applyDisconnected
  <2>2. CASE e.user \notin DOMAIN participants
    BY <1>3, <2>2, SameRanking DEF applyDisconnected, rankVars
  <2>3. CASE e.user \in DOMAIN participants
    <3>1. /\ LostConnection(participants[e.user], e.drop) \in ParticipantState
          /\ LostConnection(participants[e.user], e.drop).rank = participants[e.user].rank
      BY <2>1, <2>3 DEF LostConnection, ParticipantState, ActorType, IsPartialFunction
    <3>2. participants' = [participants EXCEPT ![e.user] = LostConnection(participants[e.user], e.drop)]
      BY <1>3, <2>3 DEF applyDisconnected
    <3> QED BY <1>3, <2>3, <3>1, <3>2, SameRank DEF applyDisconnected
  <2> QED BY <2>2, <2>3
<1>4. CASE applyEvicted
  <2>1. CASE e.user \in DOMAIN participants /\ departParticipant(e.user)
    BY <2>1, DepartRanking DEF departParticipant
  <2>2. CASE UNCHANGED actorVars
    BY <2>2, SameRanking DEF actorVars, rankVars
  <2> QED BY <1>4, <2>1, <2>2 DEF applyEvicted
<1>5. CASE applyLeft
  <2>1. CASE e.user \in DOMAIN participants /\ departParticipant(e.user)
    BY <2>1, DepartRanking DEF departParticipant
  <2>2. CASE UNCHANGED actorVars
    BY <2>2, SameRanking DEF actorVars, rankVars
  <2>3. CASE /\ e.user \in DOMAIN participants /\ participants' = Drop(participants, e.user)
             /\ UNCHANGED <<departedParticipants, finishedCount, totalParticipants>>
    BY <2>3, LeaveRanking
  <2> QED BY <1>5, <2>1, <2>2, <2>3 DEF applyLeft
<1>6. CASE applyNoShowTimeout \/ applyActivated \/ applyPendingExpired
  BY <1>6, SameRanking DEF applyNoShowTimeout, applyActivated, applyPendingExpired, actorVars, rankVars
<1>7. CASE RunReturns \/ RegistryRemove \/ Terminated \/ UNCHANGED vars
  BY <1>7, SameRanking DEF RunReturns, RegistryRemove, Terminated, vars, actorVars, rankVars
<1>8. CASE Timers \/ StartRequests
  BY <1>8, SameRanking DEF Timers, TimerFires, TimerSends, StartRequests, StartGetRace, StartUpdate,
                           StartMarkActive, actorVars, rankVars
<1>9. CASE Clients
  BY <1>9, SameRanking DEF Clients, JoinRace, ConnectionLost, LeaveRace, Telemetry, RestJoinCheck,
                           RestJoinInsert, SendsOnly, actorVars, rankVars
<1> QED BY <1>1, <1>2, <1>3, <1>4, <1>5, <1>6, <1>7, <1>8, <1>9 DEF Next, applyEvent

\* A new room has nobody to rank.
LEMMA InitRanking == Init => Ranking
<1> SUFFICES ASSUME Init PROVE Ranking
  OBVIOUS
<1>1. DOMAIN participants = {} /\ DOMAIN departedParticipants = {}
  BY DEF Init, NewRoomActor
<1>2. Unfinished(participants) = {} /\ Unfinished(departedParticipants) = {}
      /\ Ranked(participants) = {} /\ Ranked(departedParticipants) = {}
  BY <1>1 DEF Unfinished, Ranked
<1>3. FinishRanksUnique
  BY <1>1, <1>2 DEF FinishRanksUnique
<1>4. Cardinality(Unfinished(participants)) = 0 /\ Cardinality(Unfinished(departedParticipants)) = 0
  BY <1>2, FS_EmptySet
<1>5. EveryoneCounted
  BY <1>4 DEF EveryoneCounted, Init, NewRoomActor
<1> QED BY <1>3, <1>5 DEF Ranking

\* No two players, live or departed, hold the same finish rank, however many
\* players join, finish, drop out, are evicted and come back.
THEOREM RanksUnique == Spec => []FinishRanksUnique
<1>1. Init => TypeOK /\ Ranking
  BY InitType, InitRanking
<1>2. TypeOK /\ Ranking /\ [Next]_vars => TypeOK' /\ Ranking'
  BY NextType, NextRanking
<1>3. Ranking => FinishRanksUnique
  BY DEF Ranking
<1> QED BY <1>1, <1>2, <1>3, PTL DEF Spec

\* The shared last place is never ahead of, or level with, a finisher.
THEOREM LastPlaceIsLast == Spec => []EveryoneCounted
<1>1. Init => TypeOK /\ Ranking
  BY InitType, InitRanking
<1>2. TypeOK /\ Ranking /\ [Next]_vars => TypeOK' /\ Ranking'
  BY NextType, NextRanking
<1>3. Ranking => EveryoneCounted
  BY DEF Ranking
<1> QED BY <1>1, <1>2, <1>3, PTL DEF Spec

-----------------------------------------------------------------------------
(* The room implements RaceOutcome.                                         *)

\* A race is announced as finished only after it has been.
AnnouncedFinished == "race_finished" \in announced => finished

\* What is in the fields of a result.
LEMMA ResultFields ==
    ASSUME NEW u, NEW p, NEW n, NEW r, r = buildParticipantResult(u, p, n)
    PROVE  /\ r.user = u
           /\ r.finisher <=> p.rank # Unranked
           /\ r.rank = IF p.rank = Unranked THEN n ELSE p.rank
<1>1. r.user = u
  BY DEF buildParticipantResult
<1>2. r.finisher = (p.rank # Unranked)
  BY Zenon DEF buildParticipantResult
<1>3. r.rank = IF p.rank = Unranked THEN n ELSE p.rank
  BY DEF buildParticipantResult
<1> QED BY <1>1, <1>2, <1>3

\* Once everybody still in the room has finished, the results are a proper
\* ranking of positive ranks.
LEMMA ResultsWellRanked ==
    ASSUME TypeOK, Ranking, \A u \in DOMAIN participants : participants[u].rank # Unranked
    PROVE  LET res == FinalResults(participants, departedParticipants, totalParticipants)
           IN  res \in SUBSET Outcome!Result /\ Outcome!WellRanked(res)
<1> DEFINE live == {buildParticipantResult(u, participants[u], totalParticipants) : u \in DOMAIN participants}
           gone == {buildParticipantResult(u, departedParticipants[u], totalParticipants) :
                        u \in DOMAIN departedParticipants}
<1>0. /\ IsPartialFunction(participants, Users, ParticipantState)
      /\ IsPartialFunction(departedParticipants, Users, ParticipantState)
      /\ finishedCount \in Nat /\ totalParticipants \in Nat
  BY DEF TypeOK, ActorType
<1>1. /\ \A u \in DOMAIN participants : participants[u].rank \in Nat
      /\ \A u \in DOMAIN departedParticipants : departedParticipants[u].rank \in Nat
  BY <1>0 DEF IsPartialFunction, ParticipantState
<1>2. \A u \in DOMAIN departedParticipants :
          departedParticipants[u].rank = Unranked => finishedCount < totalParticipants
  <2> SUFFICES ASSUME NEW u \in DOMAIN departedParticipants, departedParticipants[u].rank = Unranked
               PROVE  finishedCount < totalParticipants
    OBVIOUS
  <2>1. Unfinished(departedParticipants) # {}
    BY DEF Unfinished
  <2>2. /\ IsFiniteSet(Unfinished(departedParticipants))
        /\ Cardinality(Unfinished(departedParticipants)) \in Nat
        /\ Cardinality(Unfinished(participants)) \in Nat
    BY <1>0, UnfinishedFinite
  <2>3. Cardinality(Unfinished(departedParticipants)) # 0
    BY <2>1, <2>2, FS_EmptySet
  <2> QED BY <1>0, <2>2, <2>3 DEF Ranking, EveryoneCounted
<1>3. \A r \in live : \E u \in DOMAIN participants :
          /\ r = buildParticipantResult(u, participants[u], totalParticipants)
          /\ r.finisher /\ r.rank = participants[u].rank /\ u \in Ranked(participants)
  <2> SUFFICES ASSUME NEW u \in DOMAIN participants, NEW r,
                      r = buildParticipantResult(u, participants[u], totalParticipants)
               PROVE  r.finisher /\ r.rank = participants[u].rank /\ u \in Ranked(participants)
    OBVIOUS
  <2> QED BY ResultFields DEF Ranked
<1>4. \A r \in gone : \E u \in DOMAIN departedParticipants :
          /\ r = buildParticipantResult(u, departedParticipants[u], totalParticipants)
          /\ r.finisher => r.rank = departedParticipants[u].rank /\ u \in Ranked(departedParticipants)
          /\ ~r.finisher => r.rank = totalParticipants /\ departedParticipants[u].rank = Unranked
  <2> SUFFICES ASSUME NEW u \in DOMAIN departedParticipants, NEW r,
                      r = buildParticipantResult(u, departedParticipants[u], totalParticipants)
               PROVE  /\ r.finisher => /\ r.rank = departedParticipants[u].rank
                                       /\ u \in Ranked(departedParticipants)
                      /\ ~r.finisher => /\ r.rank = totalParticipants
                                        /\ departedParticipants[u].rank = Unranked
    OBVIOUS
  <2> QED BY ResultFields DEF Ranked
<1>5. FinalResults(participants, departedParticipants, totalParticipants) = live \cup gone
  BY DEF FinalResults
<1>6. live \cup gone \subseteq Row
  BY <1>0, <1>5, ResultsType
<1> HIDE DEF live, gone
<1>7. \A r \in live \cup gone : r.rank \in Nat \ {0} /\ r.rank <= totalParticipants
                                /\ (r.finisher => r.rank <= finishedCount)
                                /\ (~r.finisher => r.rank = totalParticipants /\ finishedCount < totalParticipants)
  <2>1. ASSUME NEW r \in live
        PROVE  r.finisher /\ r.rank \in Nat \ {0} /\ r.rank <= finishedCount
    BY <1>1, <1>3 DEF Ranking, FinishRanksUnique, Ranked, Unranked
  <2>2. ASSUME NEW r \in gone
        PROVE  /\ r.finisher => r.rank \in Nat \ {0} /\ r.rank <= finishedCount
               /\ ~r.finisher => r.rank = totalParticipants /\ finishedCount < totalParticipants
    BY <1>0, <1>1, <1>2, <1>4 DEF Ranking, FinishRanksUnique, Ranked, Unranked
  <2>3. finishedCount <= totalParticipants
    <3>1. Cardinality(Unfinished(departedParticipants)) \in Nat /\ Cardinality(Unfinished(participants)) \in Nat
      BY <1>0, UnfinishedFinite
    <3> QED BY <1>0, <3>1 DEF Ranking, EveryoneCounted
  <2> QED BY <1>0, <2>1, <2>2, <2>3
<1>8. \A r, q \in live \cup gone : r.finisher /\ q.finisher /\ r.rank = q.rank => r = q
  <2>1. ASSUME NEW r \in live, NEW q \in live, r.rank = q.rank PROVE r = q
    BY <1>3, <2>1 DEF Ranking, FinishRanksUnique
  <2>2. ASSUME NEW r \in live, NEW q \in gone, q.finisher PROVE r.rank # q.rank
    BY <1>3, <1>4, <2>2 DEF Ranking, FinishRanksUnique
  <2>3. ASSUME NEW r \in gone, NEW q \in gone, r.finisher, q.finisher, r.rank = q.rank PROVE r = q
    BY <1>4, <2>3 DEF Ranking, FinishRanksUnique
  <2> QED BY <2>1, <2>2, <2>3
<1>9. live \cup gone \in SUBSET Outcome!Result
  BY <1>6, <1>7 DEF Row, Outcome!Result
<1>10. Outcome!WellRanked(live \cup gone)
  BY <1>0, <1>7, <1>8 DEF Outcome!WellRanked
<1> QED BY <1>5, <1>9, <1>10

AllFinished == \A u \in DOMAIN participants : participants[u].rank # Unranked

ProperResults ==
    LET res == FinalResults(participants, departedParticipants, totalParticipants)
    IN  res \in SUBSET Outcome!Result /\ Outcome!WellRanked(res)

\* The same, as a fact about every state, so that it holds of the next one.
LEMMA ResultsProper == TypeOK /\ Ranking /\ AllFinished => ProperResults
BY ResultsWellRanked DEF AllFinished, ProperResults

\* The same of the state a step ends in.
LEMMA ResultsProperNext == TypeOK' /\ Ranking' /\ AllFinished' => ProperResults'
BY ResultsProper, PTL

\* Everybody the room has known since the race began.
Seats == DOMAIN participants \cup DOMAIN departedParticipants

\* Results are stored of a race that is active, for players the room knows.
Stored == \A r \in results : active /\ r.user \in Seats

\* The results name exactly the players of the two maps.
LEMMA ResultsNamed ==
    ASSUME NEW f, NEW g, NEW n
    PROVE  /\ \A q \in FinalResults(f, g, n) : q.user \in DOMAIN f \cup DOMAIN g
           /\ \A u \in DOMAIN f \cup DOMAIN g : \E q \in FinalResults(f, g, n) : q.user = u
<1>1. \A u, p : buildParticipantResult(u, p, n).user = u
  BY DEF buildParticipantResult
<1> QED BY <1>1 DEF FinalResults

\* Nobody is forgotten once the race is active: a player who goes becomes a
\* departed one.
LEMMA SeatsStay ==
    ASSUME TypeOK, active, applyEvent
    PROVE  Seats \subseteq Seats' /\ active'
<1> DEFINE e == Head(inbox)
<1>0. IsPartialFunction(participants, Users, ParticipantState)
      /\ IsPartialFunction(departedParticipants, Users, ParticipantState)
  BY DEF TypeOK, ActorType
<1>1. ASSUME NEW u, departParticipant(u) PROVE Seats \subseteq Seats' /\ active'
  <2>1. DOMAIN participants' = DOMAIN participants \ {u}
    BY <1>0, <1>1, DropType DEF departParticipant
  <2>2. DOMAIN departedParticipants' = DOMAIN departedParticipants \cup {u}
    BY <1>1 DEF departParticipant, Put
  <2> QED BY <1>1, <2>1, <2>2 DEF Seats, departParticipant
<1>2. CASE UNCHANGED actorVars
  BY <1>2 DEF actorVars, Seats
<1>3. CASE applyJoined
  <2>1. DOMAIN participants \subseteq DOMAIN participants'
    BY <1>3 DEF applyJoined, Put
  <2> QED BY <1>3, <2>1 DEF applyJoined, Seats
<1>4. CASE applyTelemetry \/ applyDisconnected
  BY <1>4 DEF applyTelemetry, applyDisconnected, Seats
<1>5. CASE applyEvicted
  BY <1>1, <1>2, <1>5 DEF applyEvicted
<1>6. CASE applyLeft
  BY <1>1, <1>2, <1>6 DEF applyLeft, actorVars
<1>7. CASE applyNoShowTimeout \/ applyPendingExpired
  BY <1>2, <1>7 DEF applyNoShowTimeout, applyPendingExpired
<1>8. CASE applyActivated
  BY <1>8 DEF applyActivated, Seats
<1> QED BY <1>3, <1>4, <1>5, <1>6, <1>7, <1>8 DEF applyEvent

\* Tearing down a pending room is the race's Cancel, or leaves it alone.
LEMMA ExpireOutcome ==
    ASSUME AnnouncedFinished, Stored, ~finished, ~active, UNCHANGED active, expirePendingRoom
    PROVE  AnnouncedFinished' /\ Stored' /\ [Outcome!Next]_(Outcome!vars)
<1>0. results = {} /\ UNCHANGED results
  BY DEF Stored, expirePendingRoom, CallFails
<1>1. CASE CallFails(Cancelled, results)
  BY <1>0, <1>1 DEF CallFails, AnnouncedFinished, Stored, phase, Outcome!vars
<1>2. CASE announced' = announced \cup {"race_expired"} /\ finished' = TRUE
  <2>1. "race_finished" \notin announced'
    BY <1>2 DEF AnnouncedFinished
  <2>2. phase = "pending" /\ phase' = "cancelled"
    BY <1>2, <2>1 DEF phase
  <2> QED BY <1>0, <1>2, <2>1, <2>2 DEF AnnouncedFinished, Stored, Outcome!Next, Outcome!Cancel
<1> QED BY <1>1, <1>2 DEF expirePendingRoom

\* The end of an event is Cancel, Store, Finish, or nothing.
LEMMA CheckOutcome ==
    ASSUME AnnouncedFinished, Stored, TypeOK', Ranking', UNCHANGED active, checkRaceFinished,
           active => Seats \subseteq Seats'
    PROVE  AnnouncedFinished' /\ Stored' /\ [Outcome!Next]_(Outcome!vars)
<1> DEFINE res == FinalResults(participants', departedParticipants', totalParticipants')
<1>1. CASE UNCHANGED closingVars
  BY <1>1 DEF closingVars, AnnouncedFinished, Stored, phase, Outcome!vars
<1>2. CASE ~finished /\ ~active /\ expirePendingRoom
  BY <1>2, ExpireOutcome
<1>3. CASE ~finished /\ active /\ AllFinished' /\ finishRace(res)
  <2>1. \A r \in results : \E q \in res : q.user = r.user
    <3>1. \A r \in results : r.user \in Seats'
      BY <1>3 DEF Stored
    <3> QED BY <3>1, ResultsNamed DEF Seats
  <2>2. \A q \in res : q.user \in Seats'
    BY ResultsNamed DEF Seats
  <2>3. res \in SUBSET Outcome!Result /\ Outcome!WellRanked(res)
    BY <1>3, ResultsProperNext DEF ProperResults
  <2> HIDE DEF res
  <2>4. CASE results' = res
    <3>1. Stored' /\ Outcome!Rank
      BY <1>3, <2>1, <2>2, <2>3, <2>4 DEF Stored, Outcome!Rank
    <3>2. CASE UNCHANGED <<finished, announced>>
      <4>1. phase = "active" /\ UNCHANGED phase /\ AnnouncedFinished'
        BY <1>3, <3>2 DEF phase, AnnouncedFinished
      <4> QED BY <3>1, <4>1 DEF Outcome!Next, Outcome!Store
    <3>3. CASE announced' = announced \cup {"race_finished"} /\ finished' = TRUE
      <4>1. phase = "active" /\ phase' = "finished" /\ AnnouncedFinished'
        BY <1>3, <3>3 DEF phase, AnnouncedFinished
      <4> QED BY <3>1, <4>1 DEF Outcome!Next, Outcome!Finish
    <3> QED BY <1>3, <3>2, <3>3 DEF finishRace, CallFails
  <2>5. CASE UNCHANGED results /\ CallFails("finished", res)
    BY <1>3, <2>5 DEF CallFails, AnnouncedFinished, Stored, phase, Outcome!vars
  <2> QED BY <1>3, <2>4, <2>5 DEF finishRace, CallFails
<1> QED BY <1>1, <1>2, <1>3 DEF checkRaceFinished, AllFinished

\* Every step of the room is a step of its race or leaves the race alone.
LEMMA NextOutcome ==
    ASSUME TypeOK, AnnouncedFinished, Stored, [Next]_vars, TypeOK', Ranking'
    PROVE  AnnouncedFinished' /\ Stored' /\ [Outcome!Next]_(Outcome!vars)
<1> DEFINE Same == UNCHANGED <<active, finished, announced, results>>
           Kept == active => Seats \subseteq Seats'
<1>0. CASE Same /\ Kept
  BY <1>0 DEF AnnouncedFinished, Stored, phase, Outcome!vars
<1>1. CASE UNCHANGED active /\ checkRaceFinished /\ Kept
  BY <1>1, CheckOutcome
<1>a. applyEvent => Kept
  BY SeatsStay
<1>b. UNCHANGED actorVars => Kept
  BY DEF actorVars, Seats
<1> HIDE DEF Kept
<1>2. CASE applyJoined \/ applyDisconnected
  <2>1. Same
    BY <1>2 DEF applyJoined, applyDisconnected, closingVars
  <2> QED BY <1>2, <2>1, <1>0, <1>a DEF applyEvent
<1>3. CASE applyTelemetry
  <2>1. Kept
    BY <1>3, <1>a DEF applyEvent
  <2> QED BY <1>0, <1>1, <1>3, <2>1 DEF applyTelemetry, closingVars
<1>4. CASE applyEvicted
  <2>1. Kept
    BY <1>4, <1>a DEF applyEvent
  <2> QED BY <1>0, <1>1, <1>4, <2>1 DEF applyEvicted, departParticipant, actorVars, closingVars
<1>5. CASE applyLeft
  <2>1. Kept
    BY <1>5, <1>a DEF applyEvent
  <2> QED BY <1>0, <1>1, <1>5, <2>1 DEF applyLeft, departParticipant, actorVars, closingVars
<1>6. CASE applyNoShowTimeout
  <2>1. Kept
    BY <1>6, <1>a DEF applyEvent
  <2> QED BY <1>1, <1>6, <2>1 DEF applyNoShowTimeout, actorVars
<1>7. CASE applyActivated
  <2>1. /\ active' = TRUE /\ announced' = announced \cup {"race_started"}
        /\ UNCHANGED <<finished, results, participants, departedParticipants>>
    BY <1>7 DEF applyActivated
  <2>2. AnnouncedFinished' /\ Stored' /\ ("race_finished" \in announced' <=> "race_finished" \in announced)
    BY <2>1 DEF AnnouncedFinished, Stored, Seats
  <2>3. CASE finished \/ active
    <3>1. UNCHANGED phase
      BY <2>1, <2>2, <2>3 DEF phase
    <3> QED BY <2>1, <2>2, <3>1 DEF Outcome!vars
  <2>4. CASE ~finished /\ ~active
    BY <2>1, <2>2, <2>4 DEF phase, Outcome!Next, Outcome!Start
  <2> QED BY <2>3, <2>4
<1>8. CASE applyPendingExpired
  <2>1. CASE Same
    BY <1>8, <2>1, <1>0, <1>a DEF applyEvent
  <2>2. CASE ~active /\ ~finished /\ UNCHANGED active /\ expirePendingRoom
    BY <2>2, ExpireOutcome
  <2> QED BY <1>8, <2>1, <2>2 DEF applyPendingExpired, actorVars, closingVars
<1>9. CASE RunReturns \/ RegistryRemove \/ Terminated \/ UNCHANGED vars
  <2>1. Same /\ UNCHANGED actorVars
    BY <1>9 DEF RunReturns, RegistryRemove, Terminated, vars, actorVars, closingVars
  <2> QED BY <2>1, <1>0, <1>b
<1>10. CASE Timers \/ StartRequests
  <2>1. Same /\ UNCHANGED actorVars
    BY <1>10 DEF Timers, TimerFires, TimerSends, StartRequests, StartGetRace, StartUpdate,
                 StartMarkActive, actorVars, closingVars
  <2> QED BY <2>1, <1>0, <1>b
<1>11. CASE Clients
  <2>1. Same /\ UNCHANGED actorVars
    BY <1>11 DEF Clients, JoinRace, ConnectionLost, LeaveRace, Telemetry, RestJoinCheck,
                 RestJoinInsert, SendsOnly, actorVars, closingVars
  <2> QED BY <2>1, <1>0, <1>b
<1> QED BY <1>2, <1>3, <1>4, <1>5, <1>6, <1>7, <1>8, <1>9, <1>10, <1>11 DEF Next, applyEvent

\* The room implements the race: pending, then cancelled, or active and then
\* finished with a proper ranking; announced once, and never taken back, even by
\* the events that are applied after the room has been cancelled.  A FinishRace
\* whose answer was lost stores a proper ranking too, and the one that follows
\* it leaves nobody out.
THEOREM RoomImplementsRace == Spec => ImplementsRaceOutcome
<1> DEFINE Inv == TypeOK /\ Ranking /\ AnnouncedFinished /\ Stored
<1>1. Init => Inv /\ Outcome!Init
  <2> SUFFICES ASSUME Init PROVE Inv /\ Outcome!Init
    OBVIOUS
  <2>1. AnnouncedFinished /\ Stored /\ phase = "pending" /\ results = {}
    BY DEF Init, NewRoomActor, AnnouncedFinished, Stored, phase
  <2> QED BY <2>1, InitType, InitRanking DEF Outcome!Init
<1>2. Inv /\ [Next]_vars => Inv' /\ [Outcome!Next]_(Outcome!vars)
  BY NextType, NextRanking, NextOutcome
<1> QED BY <1>1, <1>2, PTL DEF Spec, ImplementsRaceOutcome, Outcome!Spec
=============================================================================
