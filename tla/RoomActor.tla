------------------------------ MODULE RoomActor ------------------------------
(***************************************************************************)
(* The room actor of one race (backend/internal/room/room.go): the single  *)
(* goroutine that owns the race's state, the inbox through which every     *)
(* other goroutine reaches it, the timers it arms, the Postgres and Redis  *)
(* writes it makes, and the REST handler that starts the race behind its   *)
(* back.                                                                   *)
(*                                                                         *)
(* One action is one event applied by applyEvent, one Send, one timer      *)
(* firing, or one SQL statement of the Start handler.  Time is not         *)
(* modelled: an armed timer may fire at any moment.  Left out: display     *)
(* names, pace, wall-clock times, logging, what is published to Kafka, the *)
(* read-only IsEvicted query, and the race_state snapshots and the channel *)
(* they go through (module RoomRegistry).                                  *)
(***************************************************************************)
EXTENDS Integers, Sequences, FiniteSets, Functions

CONSTANTS
    Users,           \* the players who joined the race through the REST API
    Starters,        \* the concurrent POST /races/{id}/start requests
    DistanceMeters,  \* words to type before a player has finished
    InboxCap,        \* capacity of the inbox channel (64 in the code)
    MaxSeq,          \* bound: highest sequence number a client sends
    MaxJoins,        \* bound: join_race frames sent to the room
    MaxDrops,        \* bound: connection losses reported to the room
    MaxFailures      \* bound: CancelRace and FinishRace calls that fail

ASSUME UsersAssumption == IsFiniteSet(Users)
ASSUME DistanceAssumption == DistanceMeters \in Nat \ {0}
ASSUME InboxAssumption == InboxCap \in Nat \ {0}
ASSUME BoundsAssumption ==
    MaxSeq \in Nat /\ MaxJoins \in Nat /\ MaxDrops \in Nat /\ MaxFailures \in Nat

VARIABLES
    participants,         \* live players, a function from some of Users
    departedParticipants, \* players evicted or gone mid-race, likewise
    evicted,              \* in-memory set of user ids that may not come back
    totalParticipants,
    finishedCount,
    active,
    finished,
    ctxDone,              \* the actor's context is cancelled
    running,              \* Run has not returned yet
    inbox,                \* buffered events, in arrival order
    armed,                \* timers still counting: the events they will send
    fired,                \* fired timers whose goroutine has yet to get through Send
    status,               \* races.status in Postgres
    rows,                 \* users with a race_participants row
    results,              \* the results FinishRace committed
    evictedKey,           \* the Redis set of evicted users that ws-gateway reads
    announced,            \* lifecycle messages handed to the broadcast channel
    starter,              \* where each Start request stands
    joining,              \* users whose REST join has passed its checks
    joins, drops, failures

actorVars == <<participants, departedParticipants, evicted, totalParticipants,
               finishedCount, active>>
closingVars == <<finished, ctxDone, status, results, announced, failures>>
timerVars == <<armed, fired>>
storeVars == <<rows, evictedKey>>
envVars == <<starter, joining, joins, drops>>
vars == <<actorVars, closingVars, timerVars, storeVars, envVars, running, inbox>>

-----------------------------------------------------------------------------
(* Events.  A connection loss carries a number, and so does the grace timer *)
(* it arms: the code has no such field, it lets a property tell which timer *)
(* an eviction came from.                                                   *)

ParticipantJoined(u) == [type |-> "joined", user |-> u]
TelemetryReceived(u, s, w) == [type |-> "telemetry", user |-> u, seq |-> s, words |-> w]
ParticipantDisconnected(u, n) == [type |-> "disconnected", user |-> u, drop |-> n]
ParticipantEvicted(u, n) == [type |-> "evicted", user |-> u, drop |-> n]
ParticipantLeft(u) == [type |-> "left", user |-> u]
noShowTimeout == [type |-> "noShowTimeout"]
activated == [type |-> "activated"]
pendingExpired == [type |-> "pendingExpired"]

Drops == 1..MaxDrops
TimerEvent ==
    {noShowTimeout, pendingExpired} \cup {ParticipantEvicted(u, n) : u \in Users, n \in Drops}
RoomEvent ==
    TimerEvent \cup {activated}
    \cup {ParticipantJoined(u) : u \in Users} \cup {ParticipantLeft(u) : u \in Users}
    \cup {TelemetryReceived(u, s, w) : u \in Users, s \in 1..MaxSeq, w \in 0..DistanceMeters}
    \cup {ParticipantDisconnected(u, n) : u \in Users, n \in Drops}

NoTimer == 0     \* graceTimer is nil
Unranked == 0    \* FinishRank is nil

\* DisconnectedAt is not nil exactly when disconnected holds.
ParticipantState ==
    [words : 0..DistanceMeters, lastSeq : 0..MaxSeq, disconnected : BOOLEAN,
     graceTimer : Drops \cup {NoTimer}, rank : Nat]

NewParticipant ==
    [words |-> 0, lastSeq |-> 0, disconnected |-> FALSE, graceTimer |-> NoTimer, rank |-> Unranked]

Put(f, u, p) == [x \in DOMAIN f \cup {u} |-> IF x = u THEN p ELSE f[x]]
Drop(f, u) == Restrict(f, DOMAIN f \ {u})

-----------------------------------------------------------------------------
NewRoomActor ==
    /\ participants = [u \in {} |-> NewParticipant]
    /\ departedParticipants = [u \in {} |-> NewParticipant]
    /\ evicted = {} /\ totalParticipants = 0 /\ finishedCount = 0
    /\ active = FALSE /\ finished = FALSE /\ ctxDone = FALSE /\ running = TRUE
    /\ inbox = <<>>
    /\ armed = {noShowTimeout, pendingExpired} /\ fired = {}

Init ==
    /\ NewRoomActor
    /\ status = "pending" /\ rows = Users /\ results = {} /\ evictedKey = {}
    /\ announced = {}
    /\ starter = [s \in Starters |-> "idle"] /\ joining = {}
    /\ joins = 0 /\ drops = 0 /\ failures = 0

\* Mutant: a channel without a capacity.
Send_Unbounded(ev) ==
    \/ running /\ inbox' = Append(inbox, ev)
    \/ ctxDone /\ UNCHANGED inbox

\* Blocks while the inbox is full; gives up once the context is cancelled,
\* when either branch of the select may win.  What lands in the inbox after
\* Run has returned is never read, so that case is the second disjunct too.
Send(ev) ==
    \/ running /\ Len(inbox) < InboxCap /\ inbox' = Append(inbox, ev)
    \/ ctxDone /\ UNCHANGED inbox

-----------------------------------------------------------------------------
(* Tearing the room down.  A Postgres call made with a cancelled context    *)
(* always fails.                                                            *)

\* The caller learns no more than that the call failed: what it was to write is
\* not in Postgres, or it is and the answer to the COMMIT was lost.
CallFails(newStatus, newResults) ==
    /\ \/ ctxDone /\ UNCHANGED <<status, results, failures>>
       \/ /\ ~ctxDone /\ failures < MaxFailures
          /\ failures' = failures + 1
          /\ \/ UNCHANGED <<status, results>>
             \/ status' = newStatus /\ results' = newResults
    /\ UNCHANGED <<finished, ctxDone, announced>>

\* CancelRace's UPDATE touches only a pending row, and touching none is no error.
Cancelled == IF status = "pending" THEN "cancelled" ELSE status

expirePendingRoom ==
    \/ /\ ~ctxDone
       /\ status' = Cancelled
       /\ announced' = announced \cup {"race_expired"}
       /\ finished' = TRUE /\ ctxDone' = TRUE
       /\ UNCHANGED <<results, failures>>
    \/ CallFails(Cancelled, results)

\* A player without a rank shares the last place, totalParticipants.
buildParticipantResult(u, p, total) ==
    [user |-> u, finisher |-> p.rank # Unranked,
     rank |-> IF p.rank = Unranked THEN total ELSE p.rank]

Row == [user : Users, finisher : BOOLEAN, rank : Nat]

FinalResults(live, departed, total) ==
    {buildParticipantResult(u, live[u], total) : u \in DOMAIN live}
    \cup {buildParticipantResult(u, departed[u], total) : u \in DOMAIN departed}

\* FinishRace sets races.status whatever it was.
finishRace(res) ==
    \/ /\ ~ctxDone
       /\ status' = "finished" /\ results' = res
       /\ announced' = announced \cup {"race_finished"}
       /\ finished' = TRUE /\ ctxDone' = TRUE
       /\ UNCHANGED failures
    \/ CallFails("finished", res)

\* Runs at the end of an event, on the state that event has produced.
checkRaceFinished ==
    \/ /\ finished \/ \E u \in DOMAIN participants' : participants'[u].rank = Unranked
       /\ UNCHANGED closingVars
    \/ /\ ~finished /\ \A u \in DOMAIN participants' : participants'[u].rank # Unranked
       /\ \/ ~active /\ expirePendingRoom
          \/ active /\ finishRace(FinalResults(participants', departedParticipants', totalParticipants'))

\* Mutant: a departure that does not look whether the race is over.
departParticipant_NoCheck(u) ==
    /\ participants' = Drop(participants, u)
    /\ departedParticipants' = Put(departedParticipants, u, participants[u])
    /\ evicted' = evicted \cup {u} /\ evictedKey' = evictedKey \cup {u}
    /\ UNCHANGED <<rows, totalParticipants, finishedCount, active, closingVars>>

\* A failed MarkEvicted is logged and forgotten.  The grace timer is not stopped.
departParticipant(u) ==
    /\ participants' = Drop(participants, u)
    /\ departedParticipants' = Put(departedParticipants, u, participants[u])
    /\ evicted' = evicted \cup {u}
    /\ \/ ~ctxDone /\ evictedKey' = evictedKey \cup {u}
       \/ UNCHANGED evictedKey
    /\ UNCHANGED <<rows, totalParticipants, finishedCount, active>>
    /\ checkRaceFinished

-----------------------------------------------------------------------------
(* The cases of applyEvent.  Run's select may still pick an event once the  *)
(* context is cancelled, so no case asks for ~ctxDone.                      *)

Receive(type) ==
    /\ running /\ inbox # <<>> /\ Head(inbox).type = type
    /\ inbox' = Tail(inbox)
    /\ UNCHANGED <<running, envVars>>

\* Mutants: the disconnect marker survives the reconnect; only a lobby's joins count.
Reconnected_MarkerKept(p) == [p EXCEPT !.graceTimer = NoTimer]
CountNew_PendingOnly == IF active THEN totalParticipants ELSE totalParticipants + 1

Reconnected(p) == [p EXCEPT !.disconnected = FALSE, !.graceTimer = NoTimer]
CountNew == totalParticipants + 1

\* A user who is not in the map is new, whether or not in evicted.
applyJoined ==
    LET u == Head(inbox).user IN
    /\ Receive("joined")
    /\ \/ /\ u \in DOMAIN participants /\ participants[u].disconnected
          /\ participants' = [participants EXCEPT ![u] = Reconnected(@)]
          /\ armed' = armed \ {ParticipantEvicted(u, participants[u].graceTimer)}
          /\ UNCHANGED totalParticipants
       \/ /\ u \in DOMAIN participants /\ ~participants[u].disconnected
          /\ UNCHANGED <<participants, armed, totalParticipants>>
       \/ /\ u \notin DOMAIN participants
          /\ participants' = Put(participants, u, NewParticipant)
          /\ totalParticipants' = CountNew
          /\ UNCHANGED armed
    /\ UNCHANGED <<departedParticipants, evicted, finishedCount, active, closingVars, fired, storeVars>>

\* Mutants: a player may finish again; the rank is one more than the finishers
\* still in the room.
Finishes_Again(e) == e.words >= DistanceMeters
NextRank_LiveCount == Cardinality({u \in DOMAIN participants : participants[u].rank # Unranked}) + 1

Fresh(e) ==
    active /\ e.user \in DOMAIN participants /\ e.seq > participants[e.user].lastSeq
Finishes(e) == participants[e.user].rank = Unranked /\ e.words >= DistanceMeters
NextRank == finishedCount + 1

applyTelemetry ==
    LET e == Head(inbox) IN
    /\ Receive("telemetry")
    /\ UNCHANGED <<departedParticipants, evicted, totalParticipants, active, timerVars, storeVars>>
    /\ \/ ~Fresh(e) /\ UNCHANGED <<participants, finishedCount, closingVars>>
       \/ /\ Fresh(e) /\ ~Finishes(e)
          /\ participants' = [participants EXCEPT ![e.user].words = e.words, ![e.user].lastSeq = e.seq]
          /\ UNCHANGED <<finishedCount, closingVars>>
       \/ /\ Fresh(e) /\ Finishes(e)
          /\ finishedCount' = finishedCount + 1
          /\ participants' = [participants EXCEPT ![e.user].words = e.words, ![e.user].lastSeq = e.seq,
                                                  ![e.user].rank = NextRank]
          /\ checkRaceFinished

LostConnection(p, n) == [p EXCEPT !.disconnected = TRUE, !.graceTimer = n]

applyDisconnected ==
    LET u == Head(inbox).user
        n == Head(inbox).drop
    IN
    /\ Receive("disconnected")
    /\ \/ u \notin DOMAIN participants /\ UNCHANGED <<participants, armed>>
       \/ /\ u \in DOMAIN participants
          /\ participants' = [participants EXCEPT ![u] = LostConnection(@, n)]
          /\ armed' = (armed \ {ParticipantEvicted(u, participants[u].graceTimer)})
                      \cup {ParticipantEvicted(u, n)}
    /\ UNCHANGED <<departedParticipants, evicted, totalParticipants, finishedCount, active,
                   closingVars, fired, storeVars>>

applyEvicted ==
    LET u == Head(inbox).user IN
    /\ Receive("evicted")
    /\ UNCHANGED timerVars
    /\ \/ /\ u \in DOMAIN participants /\ participants[u].disconnected
          /\ departParticipant(u)
       \/ /\ ~(u \in DOMAIN participants /\ participants[u].disconnected)
          /\ UNCHANGED <<actorVars, closingVars, storeVars>>

\* LeaveRace deletes the row of a pending race; it fails otherwise, unnoticed.
applyLeft ==
    LET u == Head(inbox).user IN
    /\ Receive("left")
    /\ UNCHANGED timerVars
    /\ \/ u \notin DOMAIN participants /\ UNCHANGED <<actorVars, closingVars, storeVars>>
       \/ u \in DOMAIN participants /\ active /\ departParticipant(u)
       \/ /\ u \in DOMAIN participants /\ ~active
          /\ participants' = Drop(participants, u)
          /\ \/ ~ctxDone /\ status = "pending" /\ rows' = rows \ {u}
             \/ UNCHANGED rows
          /\ UNCHANGED <<departedParticipants, evicted, totalParticipants, finishedCount, active, evictedKey>>
          /\ checkRaceFinished

applyNoShowTimeout ==
    /\ Receive("noShowTimeout")
    /\ UNCHANGED <<actorVars, timerVars, storeVars>>
    /\ checkRaceFinished

applyActivated ==
    /\ Receive("activated")
    /\ active' = TRUE
    /\ announced' = announced \cup {"race_started"}
    /\ UNCHANGED <<participants, departedParticipants, evicted, totalParticipants, finishedCount,
                   finished, ctxDone, status, results, failures, timerVars, storeVars>>

\* Mutants: no look at r.active; an occupied lobby is left alone.
applyPendingExpired_AnyPhase ==
    /\ Receive("pendingExpired")
    /\ UNCHANGED <<actorVars, timerVars, storeVars>>
    /\ (finished /\ UNCHANGED closingVars) \/ (~finished /\ expirePendingRoom)
applyPendingExpired_EmptyOnly ==
    /\ Receive("pendingExpired")
    /\ UNCHANGED <<actorVars, timerVars, storeVars>>
    /\ checkRaceFinished

applyPendingExpired ==
    /\ Receive("pendingExpired")
    /\ UNCHANGED <<actorVars, timerVars, storeVars>>
    /\ \/ (active \/ finished) /\ UNCHANGED closingVars
       \/ ~active /\ ~finished /\ expirePendingRoom

applyEvent ==
    \/ applyJoined \/ applyTelemetry \/ applyDisconnected \/ applyEvicted \/ applyLeft
    \/ applyNoShowTimeout \/ applyActivated \/ applyPendingExpired

\* Mutant: Run drains its inbox before it looks at ctx.Done().
RunReturns_Drained ==
    /\ running /\ ctxDone /\ inbox = <<>>
    /\ running' = FALSE
    /\ UNCHANGED <<actorVars, closingVars, timerVars, storeVars, envVars, inbox>>

\* Run sees ctx.Done() and returns.
RunReturns ==
    /\ running /\ ctxDone
    /\ running' = FALSE
    /\ UNCHANGED <<actorVars, closingVars, timerVars, storeVars, envVars, inbox>>

-----------------------------------------------------------------------------
(* Timers: time.AfterFunc runs its function on a goroutine of its own, so   *)
(* Stop has no effect on a timer that has fired, even if its Send still     *)
(* waits.                                                                   *)

TimerFires(ev) ==
    /\ ev \in armed
    /\ armed' = armed \ {ev} /\ fired' = fired \cup {ev}
    /\ UNCHANGED <<actorVars, closingVars, storeVars, envVars, running, inbox>>

TimerSends(ev) ==
    /\ ev \in fired
    /\ fired' = fired \ {ev}
    /\ Send(ev)
    /\ UNCHANGED <<actorVars, closingVars, armed, storeVars, envVars, running>>

-----------------------------------------------------------------------------
(* What reaches the room from outside.  feedInbox hands over one client     *)
(* frame after another; a user may have several tabs open and any of them   *)
(* may send anything.                                                       *)

SendsOnly == UNCHANGED <<actorVars, closingVars, timerVars, storeVars, starter, joining, running>>

JoinRace(u) ==
    /\ running /\ joins < MaxJoins
    /\ joins' = joins + 1
    /\ Send(ParticipantJoined(u))
    /\ SendsOnly /\ UNCHANGED drops

Telemetry(u, s, w) ==
    /\ running
    /\ Send(TelemetryReceived(u, s, w))
    /\ SendsOnly /\ UNCHANGED <<joins, drops>>

ConnectionLost(u) ==
    /\ running /\ drops < MaxDrops
    /\ drops' = drops + 1
    /\ Send(ParticipantDisconnected(u, drops + 1))
    /\ SendsOnly /\ UNCHANGED joins

LeaveRace(u) ==
    /\ running
    /\ Send(ParticipantLeft(u))
    /\ SendsOnly /\ UNCHANGED <<joins, drops>>

\* POST /races/{id}/join: the service reads the race and the caller's row, and
\* inserts a row in a later statement that looks at neither.  The limit on the
\* number of rows is left out.
RestJoinCheck(u) ==
    /\ status = "pending" /\ u \notin rows \cup joining
    /\ joining' = joining \cup {u}
    /\ UNCHANGED <<actorVars, closingVars, timerVars, storeVars, starter, joins, drops, running, inbox>>

RestJoinInsert(u) ==
    /\ u \in joining
    /\ joining' = joining \ {u} /\ rows' = rows \cup {u}
    /\ UNCHANGED <<actorVars, closingVars, timerVars, evictedKey, starter, joins, drops, running, inbox>>

\* POST /races/{id}/start: GetRace, the UPDATE (which has no guard on status),
\* then MarkActive on the registered actor.
StartGetRace(s) ==
    /\ starter[s] = "idle" /\ status = "pending"
    /\ starter' = [starter EXCEPT ![s] = "checked"]
    /\ UNCHANGED <<actorVars, closingVars, timerVars, storeVars, joining, joins, drops, running, inbox>>

StartUpdate(s) ==
    /\ starter[s] = "checked"
    /\ starter' = [starter EXCEPT ![s] = "updated"]
    /\ status' = "active"
    /\ UNCHANGED <<actorVars, finished, ctxDone, results, announced, failures,
                   timerVars, storeVars, joining, joins, drops, running, inbox>>

StartMarkActive(s) ==
    /\ starter[s] = "updated"
    /\ starter' = [starter EXCEPT ![s] = "done"]
    /\ Send(activated)
    /\ UNCHANGED <<actorVars, closingVars, timerVars, storeVars, joining, joins, drops, running>>

\* Registry.Remove cancels the room's context from outside.
RegistryRemove ==
    /\ ~ctxDone
    /\ ctxDone' = TRUE
    /\ UNCHANGED <<actorVars, finished, status, results, announced, failures,
                   timerVars, storeVars, envVars, running, inbox>>

\* Everything has ended.
Terminated ==
    /\ ~running /\ armed = {} /\ fired = {}
    /\ UNCHANGED vars

-----------------------------------------------------------------------------
Clients ==
    \E u \in Users :
        \/ JoinRace(u) \/ ConnectionLost(u) \/ LeaveRace(u)
        \/ RestJoinCheck(u) \/ RestJoinInsert(u)
        \/ \E s \in 1..MaxSeq, w \in 0..DistanceMeters : Telemetry(u, s, w)

StartRequests == \E s \in Starters : StartGetRace(s) \/ StartUpdate(s) \/ StartMarkActive(s)

Timers == \E ev \in TimerEvent : TimerFires(ev) \/ TimerSends(ev)

Next == applyEvent \/ RunReturns \/ Timers \/ Clients \/ StartRequests \/ RegistryRemove \/ Terminated

Spec == Init /\ [][Next]_vars

(* Fairness: Go's scheduler runs every runnable goroutine, so Run applies   *)
(* what is in its inbox and returns once cancelled, and a timer fires; a    *)
(* goroutine blocked on a full channel is queued behind earlier senders and *)
(* gets its turn, hence strong fairness for a timer's Send.                 *)
Fairness ==
    /\ WF_vars(applyEvent) /\ WF_vars(RunReturns)
    /\ \A ev \in TimerEvent : WF_vars(TimerFires(ev)) /\ SF_vars(TimerSends(ev))

FairSpec == Spec /\ Fairness

-----------------------------------------------------------------------------
(* Safety.                                                                  *)

IsPartialFunction(f, S, T) == DOMAIN f \subseteq S /\ f \in [DOMAIN f -> T]

ActorType ==
    /\ IsPartialFunction(participants, Users, ParticipantState)
    /\ IsPartialFunction(departedParticipants, Users, ParticipantState)
    /\ evicted \subseteq Users
    /\ totalParticipants \in Nat /\ finishedCount \in Nat /\ active \in BOOLEAN
ClosingType ==
    /\ finished \in BOOLEAN /\ ctxDone \in BOOLEAN
    /\ status \in {"pending", "active", "finished", "cancelled"}
    /\ results \subseteq Row
    /\ announced \subseteq {"race_started", "race_finished", "race_expired"}
    /\ failures \in 0..MaxFailures
QueueType ==
    /\ inbox \in Seq(RoomEvent) /\ Len(inbox) <= InboxCap
    /\ armed \subseteq TimerEvent /\ fired \subseteq TimerEvent
    /\ running \in BOOLEAN
OutsideType ==
    /\ evictedKey \subseteq Users /\ rows \subseteq Users /\ joining \subseteq Users
    /\ starter \in [Starters -> {"idle", "checked", "updated", "done"}]
    /\ joins \in 0..MaxJoins /\ drops \in 0..MaxDrops

\* Every variable has the type the Go declarations give it, and the inbox never
\* holds more than its capacity.
TypeOK == ActorType /\ ClosingType /\ QueueType /\ OutsideType

Ranked(f) == {u \in DOMAIN f : f[u].rank # Unranked}
Unfinished(f) == {u \in DOMAIN f : f[u].rank = Unranked}

\* No two players, live or departed, ever hold the same finish rank, and no
\* rank is beyond the number of finishers.  checkRaceFinished's results merge
\* both maps, and a finisher may move from one to the other at any time; this
\* is what the comment on finishedCount claims (room.go:107-115).
FinishRanksUnique ==
    /\ \A u \in DOMAIN participants : participants[u].rank <= finishedCount
    /\ \A u \in DOMAIN departedParticipants : departedParticipants[u].rank <= finishedCount
    /\ \A u, v \in Ranked(participants) : participants[u].rank = participants[v].rank => u = v
    /\ \A u, v \in Ranked(departedParticipants) :
            departedParticipants[u].rank = departedParticipants[v].rank => u = v
    /\ \A u \in Ranked(participants), v \in Ranked(departedParticipants) :
            participants[u].rank # departedParticipants[v].rank

\* Everybody who holds a rank or may still need the shared last place has been
\* counted into totalParticipants, so that last place is behind every finisher.
EveryoneCounted ==
    finishedCount + Cardinality(Unfinished(participants))
                  + Cardinality(Unfinished(departedParticipants)) <= totalParticipants

\* A disconnected player always has an expiry on its way (counting, fired, or
\* in the inbox): however disconnects, reconnects and late expiries overlap,
\* nobody keeps a seat for good by vanishing (room.go:342-369).
GraceExpiryPending ==
    \A u \in DOMAIN participants :
        participants[u].disconnected /\ ~ctxDone =>
            ParticipantEvicted(u, participants[u].graceTimer) \in armed \cup fired \cup Range(inbox)

\* A room with nobody left to race closes at once, unless a Postgres call has
\* failed, or nobody has come yet and the no-show timer is still to be heard of.
\* checkRaceFinished is called from every event that can empty the room, and
\* only from those (room.go:508-516).
NoAbandonedRoom ==
    ~ctxDone /\ failures = 0 /\ Unfinished(participants) = {} =>
        totalParticipants = 0 /\ noShowTimeout \in armed \cup fired \cup Range(inbox)

\* A finish rank is assigned once: while a player stays in the room no later
\* telemetry changes it, and accepted sequence numbers only grow.
RankAndSeqStable ==
    [][\A u \in DOMAIN participants \cap DOMAIN participants' :
            /\ participants[u].rank # Unranked => participants'[u].rank = participants[u].rank
            /\ participants'[u].lastSeq >= participants[u].lastSeq]_vars

\* The room as its race: what RaceOutcome promises, step by step.
phase ==
    IF finished THEN IF "race_finished" \in announced THEN "finished" ELSE "cancelled"
    ELSE IF active THEN "active" ELSE "pending"

Outcome == INSTANCE RaceOutcome WITH phase <- phase, results <- results

\* Every step of the room is a step of its race or leaves the race alone: the
\* outcome is announced once, whatever is still applied after r.cancel(), and
\* whatever results are in Postgres form a proper ranking.  They may get there
\* before the race is over for the room, which then ranks again, over them: a
\* FinishRace whose answer was lost (room.go:606-612).
ImplementsRaceOutcome == Outcome!Spec

-----------------------------------------------------------------------------
(* Liveness, with a Postgres that answers (MaxFailures = 0).                *)

\* A lobby does not stay pending for ever: it starts or is torn down.
PendingResolves == <>(active \/ ctxDone)

\* A player who drops out is back, or evicted, some day.
GraceResolves ==
    \A u \in Users :
        (u \in DOMAIN participants /\ participants[u].disconnected) ~>
            (u \notin DOMAIN participants \/ ~participants[u].disconnected \/ ctxDone)

\* Once the room is cancelled its goroutine and every timer goroutine end, even
\* when the inbox is full: no Send blocks for ever (room.go:188-193).
GoroutinesEnd == ctxDone ~> [](~running /\ armed = {} /\ fired = {})
=============================================================================
