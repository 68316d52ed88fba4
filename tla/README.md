# A verification model of the race rooms

The repository runs typing races: players open a WebSocket to *ws-gateway*,
which relays frames over NATS to the *race-service* instance that owns the
race's room; the room is a single goroutine that keeps the race's state,
decides its outcome and writes it to Postgres. Telemetry and results also go to
Kafka, from where *consumer* writes them to Postgres, and a leaderboard is read
from what FinishRace has written. This directory models these paths in TLA+, checks
them with TLC on small instances, and proves their safety properties with TLAPS for
every size.

File paths below are relative to `src/backend/`.

## The system

| Part | State it keeps | Operations | Hard because |
|---|---|---|---|
| Room actor (`internal/room/room.go`) | players, departed players, evicted set, counters, phase | `applyEvent`, `Send`, timers, `finishRace`, `expirePendingRoom` | timers that fire around reconnects; REST changes the race behind its back; events applied after it has cancelled itself |
| Room registry (`internal/room/registry.go`) | map of rooms, five goroutines per room | `Spawn`, `Remove`, `heartbeat`, `feedInbox`, `drainBroadcast`, `cleanupWhenDone` | two channels ready at once; teardown in several goroutines |
| Room locator (`internal/roomlocator`) | ownership key with a TTL, evicted set, `room:events` | `Claim`, `Refresh`, `Release`, `Owner`, `MarkEvicted` | lost events, lapsed claims |
| Bus (`internal/roomrelay`, `internal/roombus`) | NATS subjects `room.{id}.in` and `.out` | publish, subscribe | no replay: whoever is not subscribed misses it; a full subscription drops |
| Race hubs (`internal/wsgateway/racehub.go`) | one hub per race with a reference count, its set of connections | `attach`, `detach`, `run`, `Shutdown` | a hub that is closing while another is made for the same race |
| Connections (`internal/wsgateway/endpoint.go`) | a channel, a context, reader and writer | `ServeHTTP`, `serveConn`, `readLoop`, `writeLoop` | four goroutines that end each other |
| REST routing (`internal/wsgateway/gateway.go`) | cache of owners | `resolveTarget`, `WatchRoomEvents` | stale entries |
| Race service, repository (`internal/race`, `internal/postgres`) | `races`, `race_participants` | `CreateRace`, `JoinRace`, `StartRace`, `LeaveRace`, `FinishRace`, `CancelRace` | check in one statement, write in another; requests that end halfway |
| Leaderboard (`internal/leaderboard`, `internal/postgres`) | `leaderboard_alltime` | `FinishRace`'s upserts, `GetTop`, `GetUserStats` | transactions of several races over the same lines; reads in several statements |
| Processes (`cmd/server`, `cmd/ws-gateway`) | - | graceful shutdown | who waits for whom |
| Kafka consumer (`internal/consumer`, `cmd/consumer`) | batch, the group's committed offset | two reader loops, batches, dead letters | one offset stands for everything before it; crashes between a write and its commit |
| Others: producer, discovery, auth, middleware, metrics, tracing, telegram relay, frontend | little or none | | |

What makes each part correct:

* **Room**: finish ranks are unique and ahead of the shared last place; the
  outcome is decided once, from the right phase; a player who vanishes is
  evicted some day and nobody else is; an empty room closes; no goroutine
  outlives it.
* **Registry**: what the room said last is published, then `room_closed`, then
  nothing; the claim lasts as long as the room; everything is torn down.
* **Gateway**: closing a hub loses no broadcast; nobody blocks on a closed hub;
  a connection's loss is reported exactly when the room has to know; stale routes heal.
* **Race service**: the player limit holds up to what is in
  flight; who is told to play has a row, and a race that is offered has a room;
  the text is in Postgres before anyone is told to start.
* **Leaderboard**: it is the sum of the finished races, each added whole and once;
  what is read in two statements fits together; no call hangs on a lock.
* **Consumer**: no message is lost, whatever fails between reading and committing;
  nothing is written twice unless something failed; every message is dealt with.

## The modules

| Module | Models |
|---|---|
| `RaceOutcome` | the abstract specification: pending, then cancelled, or active and finished with a proper ranking, which may have been stored before by an attempt whose answer was lost |
| `RoomActor` | the actor, its inbox and timers, the SQL statements of Start and Join, the evicted set in Redis |
| `RoomActor_proofs`, `RoomTimers_proofs` | theorems about `RoomActor`: the ranking and the outcome; timers and late events |
| `RaceHub` | the hub registry, all hubs made for one race, and each connection's goroutines |
| `RoomRegistry` | one room from `Spawn` to the exit of the process, its Redis claim, one gateway's routing cache |
| `Consumer` | the two Kafka reader loops, the group's offset, Postgres and the dead-letter topics as far as the loops see them |
| `Session` | a composition: a player's connections and their readers, the inbound subject and `feedInbox` in front of `RoomActor`'s own actions |
| `Lobby` | Create, Join and Start, statement by statement, for several requests and races, and the calls of the rooms on the same rows |
| `Scoreboard` | the abstract specification of the leaderboard: a finished race is added as a whole |
| `Leaderboard` | concurrent `FinishRace` transactions, the consumer's reconciliation, the leaderboard and status reads |
| `Session_proofs`, `RaceHub_proofs`, `RoomRegistry_proofs`, `Lobby_proofs`, `Leaderboard_proofs`, `Consumer_proofs` | theorems about the module of that name |
| `MCRoomActor`, `MCRaceHub`, `MCSession`, `MCLobby`, `MCLeaderboard` | symmetry sets and constant values for TLC |

**RoomActor.** One action per case of `applyEvent` (`applyJoined`,
`applyTelemetry`, ...), each with everything the case calls:
`departParticipant` includes `checkRaceFinished`, which includes `finishRace`
or `expirePendingRoom`. `inbox` is the channel; `Send` blocks while it is full
and may give up once the context is cancelled. A timer moves from `armed` to
`fired` (its goroutine runs; `Stop` comes too late) to the inbox. Time is
abstracted: an armed timer may fire at any moment. Disconnects are numbered, and
so are the expiries they arm; the code has no such number, and no action reads
one to decide anything except which timer `Stop` stops. `Run`'s select may pick
an event after cancellation, so no case asks for a live context; a Postgres call
with a cancelled one fails. A `FinishRace` or `CancelRace` that fails otherwise
(`CallFails`) has either written nothing or written everything with the answer to its
COMMIT lost; the room cannot tell and goes on as before, so that results can be in
Postgres while the race runs and be stored anew by a later call. This is `Store` of
`RaceOutcome`: what is promised of it is that each time a proper ranking is stored and
that nobody is missing who was in the one before. `finished` and `announced` give the
abstract `phase`.

**RaceHub.** `hubPc` is where each hub's `run` stands: `closed` after
`close(h.closed)`, `gone` after `onClose`. Register, unregister and
`disconnectAll` are rendezvous with `run` or return at once when the hub is
closed. `owed` is a history variable: broadcasts published while a connection
was registered that were neither written nor dropped for it. The room is an
environment that publishes broadcasts and `room_closed` and drops its claim.
`gateway` is the process: SIGTERM calls `Shutdown`, and once it has signalled every
hub the process may exit. `http.Server.Shutdown` (external) does not wait for
hijacked connections, which WebSockets are, so whatever the goroutines have not done
by then they never do.

**Session.** EXTENDS `RoomActor` and uses its events, timers and Start requests as
they are, in place of its free environment of clients. A connection goes from
`open` to `joined` to `lost` (socket gone, `readLoop` still to publish) or straight to
`closed` after leave_race. `wire` is the race's inbound subject with the
subscription's buffer: what arrives while it is full is dropped without notice, and a
publish may fail. A connection's hub may close at any time (`HubClosed`), under a
running room too (how is told below), or the gateway exit; the reader then ends
without a farewell. `unheard` collects the players who lost a message or a farewell in
these ways.
`RoomActor`'s two bounds on joins and connection losses count messages here too.

**Lobby.** One action per SQL statement. `req` is where each handler goroutine stands,
with the status it has read. The room is reduced to the calls it makes (LeaveRace,
CancelRace, FinishRace, applying `activated`). A statement may fail, may fail after
Postgres has done it, the client may leave, and race-service may crash. `left` and
`orphaned` are history variables. `Races` is what `GenerateRaceID` may
draw; one of its ids may be in use already.

**Leaderboard, Scoreboard.** `tx` is a race's open transaction with its private writes;
`lock` who holds a leaderboard line. Postgres is external: READ COMMITTED, row locks
to the end of the transaction, one of two transactions that wait for each other is
aborted. `Results` and `Rows` are constants because the room has decided by then (a call
that repeats one whose commit went unheard may carry other results in the code; none of
the properties depends on it). `GetTop` is modelled for both windows: `aged` has the
races that ended more than seven days ago, and a week may pass (`WeekPasses`) between
the count and the page. The weekly list has everybody with a row in a race of the
window, also without a result, whose average is NULL; a page with such a row cannot be
scanned and the request fails (`TopQueryFails`). The instance has a race won in the ordinary way, one where a player quit, came back
and finished (two results of one user), and one whose only player quit.
`Leaderboard` implements `Scoreboard` (`INSTANCE Scoreboard WITH board <- board,
commits <- commits`), as `RoomActor` implements `RaceOutcome` (`INSTANCE RaceOutcome
WITH phase <- phase, results <- results`).

**RoomRegistry.** The actor is reduced to what it offers its broadcast channel
and when it is cancelled. `key` counts heartbeat intervals left of the claim (60 s
TTL, 20 s interval, hence `ClaimTTL = 3`). Claim, Refresh, Release and the
`room:events` publications may fail or be lost, as the code tolerates.
Publishing to NATS is taken to succeed.

**Consumer.** The loops share nothing, so a behaviour follows one of them, chosen
by `topic` in the initial state, on one partition. A message is its offset and what
becomes of it (`kind`): it can be written, it does not decode, its write fails for good
and says so (`ErrPermanentWrite`, a foreign key), or its write fails every time with an
error like any other, as for an id that decodes and is no UUID. The permanent failure is modelled in both loops because both handle it,
though today's `ReconcileParticipantResults` never returns it. `committed` is what
the broker has from the last `CommitMessages`, which may be lower than an earlier
one; only a restart or a rebalance makes the reader return to it. A write may fail
with its effect in place (connection lost after the commit). The flush of a loop
that is ending uses its own context, every other call of the sample loop the one
SIGTERM cancels, and `processRaceFinishedMessage` one that nobody cancels. Failed
fetches change nothing and are left out.

## The runs

`tlc -config X.cfg M`; the manifest lists module and configuration of each.

| Run | Instance | Shows |
|---|---|---|
| `room_race` | 2 players, 2 joins, sequence numbers 1-2, inbox of 1, one failing Postgres call | `FinishRanksUnique`, `EveryoneCounted`, `RankAndSeqStable`, `ImplementsRaceOutcome` |
| `room_live` | 1 player, 2 joins, 1 connection loss, fairness | `PendingResolves`, `GraceResolves`, `GoroutinesEnd` |
| `session` | 1 player, 2 connections, 2 joins, 2 connection losses, subscription buffer of 2, inbox of 1 | `SeatHasConnection`, `GraceExpiryPending`, `NoAbandonedRoom` |
| `hub_fanout` | 2 connections, channels of 1, 2 broadcasts | `FinalBroadcastDelivered`, `NoGhostConnections` |
| `hub_live` | 2 connections, fairness | `ConnectionsEnd`, `ShutdownDisconnects`, `RoomClosedEndsHub` |
| `registry_life` | channel of 2, 2 snapshots, TTL of 3 intervals, 1 failed refresh, fairness | `RoomClosedLast`, `QueuedFinalPublished`, `OwnedWhileRunning`, `RoomTornDown`, `StaleRouteHeals` |
| `lobby` | 3 users, a race of at most 2, an id in use, 2 concurrent requests, 1 fault | `OvershootBounded`, `OpenRaceHasRoom`, `TokenHasRow`, `StartedInPostgresFirst` |
| `leaderboard` | 3 races over 3 players, 3 `FinishRace` calls, 1 fault, 2 pages of 1, 1 race at a time out of the week, fairness | `ImplementsScoreboard`, `CountedOnce`, `WeeklyWinsCounted`, `FinishedShownWithRanks`, `ListedPagesFilled`, `ReconcileChangesNothing`, `FinishRaceReturns` |
| `consumer_sink` | 3 messages of all kinds, batches of 2, 1 failing call, 2 crashes, shutdowns or rebalances, fairness | `CommittedHandled`, `ExactlyOnce`, `MessagesHandled` |

Why these bounds are enough for the interesting cases: two players are what a
rank collision, a departed finisher or a shared last place take, and a failed
`FinishRace` lets one of them leave and come back into the same room; an inbox
of one makes every sender block; two connections of one player are what a takeover, a
late disconnect and a stale expiry take, and two slots on the wire let two
messages queue up in either order while a third is dropped; two requests at once put any
two statements of any two handlers in either order, and three users overfill a race of
two; two of the three races share two players, so that their transactions can wait for
each other, and the call left over repeats a race whose commit went unheard, and one race that leaves the week can empty a second page of one line; a second broadcast overflows a one-slot channel; two
connections can be on different hubs of one race; three messages give a batch, one
that overtakes it and a rest that only time flushes, and a second disruption hits
what the first one left behind. The safety properties of the
passing runs are also proved without bounds; the bounds matter for liveness. Players, connections and requests are symmetric in every
action, so symmetry is used in the safety runs.

Only the room's own runs check for deadlock: when a process has exited, when clients
and the room do nothing more, when a topic is read to its end, or when the last race
is over, the other systems rest. The room's runs do, with `Terminated` standing for a room that has ended.

### What the code does not keep

Three runs check one statement each that a comment or a document makes and TLC
refutes; `PROJECT.json` quotes the lines.

| Run | Statement | Counterexample |
|---|---|---|
| `session_takeover` | `ConnectedNotEvicted` | an older connection's disconnect is applied after the newer one's join; the player is marked as gone and evicted with an open connection |
| `hub_unreported` | `DisconnectReported` | the gateway exits before the readers it has cancelled publish their disconnects |
| `lobby_prompt` | `OnePromptPerRace` | two Starts read `pending` and store a text each; the room has announced the one that Postgres no longer has |

Further counterexamples the models contain, not kept as runs.

* Room: an expiry that fired before a reconnect and is applied after the next
  disconnect evicts at the start of the new grace period; `pendingExpired` applied
  between Start's `UPDATE` and `MarkActive` closes the room, announces that it expired and
  leaves an active race in Postgres, against the comment at
  `internal/room/room.go:415-418`; results whose COMMIT was not
  answered are in Postgres while the race goes on, and the race may end with others; a
  player who quit and sends `join_race` over a second socket is a fresh
  participant again (`ParticipantJoined` does not consult `evicted`) and is counted
  twice; a disconnect that is lost keeps a seat for ever.
* Gateway: with three connections, the first detaches and its hub is told to stop;
  before its `onClose` runs the second makes a new hub, whose entry that `onClose` deletes
  by race id; the third makes another, whose entry the second counts down when it detaches;
  the third's hub stops with the third in it. A connection that passed the owner check
  just before the race ended waits for ever.
* Registry: the process may exit before `race_finished` is published, since the
  registry is empty as soon as the room is cancelled; `feedInbox` and its subscription
  outlive their room; a lapsed claim is never made again.
* Race service: a Create whose second statement fails leaves a race that is listed and
  has no room; a creator who leaves is offered the own race again; a player who left
  a lobby may come back with the old token and has no row; a Start that read `pending`
  revives a cancelled race.
* Leaderboard: a commit whose reply is lost is followed by a second one when a later
  event finds the race over again, and the race counts twice; a player who never
  connected has a race in the weekly count and none in the all-time one; a player alone
  who quits wins; a race that leaves the weekly window between the two queries of
  `GetTop` may leave an announced page empty (excepted in `ListedPagesFilled`); a player who
  joined and never connected to a race has a row without results in a finished race,
  and, without another race in the week, a NULL average, so that the page of the weekly
  board with that player is an error for everybody (`TopQueryFails`).
* Consumer: a sample that decodes and can never be stored, and is no foreign-key case,
  keeps its batch and all that joins it for ever (`Stuck`, excepted in `MessagesHandled`),
  although `src/context/project-overview.md:202` has the consumer move on; after a failed
  reconciliation the loop goes on, and the next commit passes
  the failed message (which matters little, see below);
  samples waiting in a batch are lost if a later undecodable message is committed and
  the consumer then crashes (both are `PassedOver` in `CommittedHandled`).

One result is about code that does nothing: the reconciliation of `finish_rank` by the
consumer, described as a safety net (`internal/postgres/race_repository.go:291-294`), never
changes a row. The room publishes `race.finished` after its `FinishRace` has committed, which
has written the rank of every result that has a row. `ReconcileChangesNothing` checks this
and `ReconcileIsNoop` proves it.

### Fairness

Go runs every runnable goroutine, so each goroutine's step is weakly fair. Between
goroutines strong fairness is assumed in two places: a sender blocked on a full channel (the
runtime queues senders first come, first served) and `drainBroadcast`'s
`ctx.Done()` case (select chooses among ready cases at random). Timers fire, TTLs
end. Clients, operators and Postgres owe nothing; the room's liveness is stated for
a Postgres that answers (`MaxFailures = 0`), since the code accepts
that a failed `FinishRace` is not retried. The consumer's loop is weakly fair as a
whole, `FetchMessage` does not time out for ever on a partition that has messages (strong
fairness of adding or dropping a sample: a batch that cannot be written keeps the loop busy
between fetches), `flushInterval` passes, and Kubernetes starts a consumer that is down again;
calls fail, and disruptions happen, finitely often. In `Leaderboard` Postgres answers,
grants a lock that keeps coming free (strong fairness of a transaction's next
statement: the lock queue is first come, first served) and finds deadlocks.

## The proofs

`tlapm M_proofs.tla` checks the proofs of a module. Every invariant that a passing run
checks has a theorem, and so have the two action properties and the two refinements.
The theorems hold for any sets of players, connections, requests and races and any
capacities; where the argument counts, the sets are assumed finite. The bounds on
inputs, faults and disruptions are assumed to be natural numbers and may be as large as
one likes. Each proof has the same shape: an invariant that every action preserves, one
lemma per kind of step, and on top of them lemmas about the operators the module is
built from.

**RoomActor** (`RoomActor_proofs`, `RoomTimers_proofs`). Assumed: `Users` is finite,
distance and inbox capacity are positive.

* `TypeCorrect`. One lemma per kind of step (`ApplyType`, `NextType`), on lemmas about
  the maps (`PutType`, `DropType`).
* `RanksUnique` and `LastPlaceIsLast`: `FinishRanksUnique` and `EveryoneCounted` are
  inductive together with `TypeOK`. The weight is in counting: moving a player from one
  map to the other, or overwriting an older departure, may not raise the number of
  unfinished players (`PutUnfinished`, `DropUnfinished`).
* `RoomImplementsRace`: `Spec => ImplementsRaceOutcome`, with calls that fail after their
  commit. The invariant is `TypeOK /\ Ranking /\ AnnouncedFinished /\ Stored`: `Ranking` makes the results a proper
  ranking (`ResultsWellRanked`: a finisher's rank is below `totalParticipants`
  whenever anyone is unfinished), `AnnouncedFinished` keeps the phase from
  changing once decided, and `Stored` says that results stored early are those of players
  the room still has in one of its two maps, so that the next ranking names them again
  (`SeatsStay`, `ResultsNamed`).
* `GraceExpiryIsPending` and `NoRoomAbandoned`: inductive with `FinishedClosed`
  (a finished room is cancelled). What has to be followed is an event from its timer
  through its goroutine into the inbox; only the actor takes it from there, and only
  the reconnect of the same player stops it.
* `RanksStay`: `RankAndSeqStable`, an action property, needs only `TypeOK`.

**Session** (`Session_proofs`). Assumed besides: every connection has a user, the
subscription's buffer is positive.

* `SessionGracePending`, `SessionNotAbandoned`: what holds of a room with a free
  environment holds of one that connections feed, although its steps that put messages
  into the inbox differ; the steps of the actor, its timers and the Start requests
  are `RoomActor`'s and so are the lemmas.
* `SeatsHaveConnections`: `SeatHasConnection` by itself does not survive the
  application of a join that arrives after its connection has ended.
  `JoinsCovered` adds that such a join always has a farewell behind it, on the subject
  (`WireCovered`) or in the inbox (`InboxCovered`): the order in which a player's
  messages were published is kept up to the actor. It holds for any number of
  connections, with hubs that close under a running room: a player whose connection ended
  in that way is `unheard`.

**RaceHub** (`RaceHub_proofs`). Assumed: `Conns` is finite, channels have room for one.

* `RaceHubTypeCorrect`. A hub's number is bounded because each hub is made by an
  attach (`HubsMade`: there are at most as many as attached connections).
* `NoGhosts`: `NoGhostConnections` from `ConnsHome` (a running hub has open connections
  of its own only) and `HasHub`.
* `ClosingLosesNothing`: `FinalBroadcastDelivered` says something of a writer that has
  drained its channel. The invariant says where the broadcasts are before:
  whatever a connection is owed is in its channel or in the subscription of the running
  hub that has it (`OwedComing`). `ClosedIsLast` makes the message on which a hub closes
  the last one, so nothing is left behind it; `WritersOK` lets a writer drain only then.

**RoomRegistry** (`RoomRegistry_proofs`). Assumed: capacity and TTL are positive.

* `RegistryTypeCorrect`.
* `ClosesLast`: from `ClosedByDrainer` (`room_closed` is the drainer's last act).
* `FinalIsPublished`: from `FinalKept` (the last message is in the channel or out of it,
  and the drainer ends only with the channel empty) and `DoneSeen`.
* `RunningIsOwned`: from `KeyLasts`: as long as fewer refreshes have failed than the TTL
  has spare intervals, each has cost at most one interval of the claim.
  `NotStarted` says that there is nothing to own before `Spawn` returns.

**Lobby** (`Lobby_proofs`). Assumed: the sets are finite, the limits positive, and the
values for no user, no race and no text are not users, races or texts.

* `LobbyTypeCorrect`, with `ReqOK`: a handler past its first statement knows its user and
  a race that exists.
* `OvershootIsBounded`: the property already counts the handlers that have passed the
  check and will insert. A handler joins them only when the rows it counted leave a place,
  and there are never more of them than handlers; an INSERT turns one of them into a row.
  `FreshIdEmpty` starts a race at zero.
* `TokensHaveRows`: with `SpawnHasRow`, for the token a Create signs after two more
  statements.
* `StartReachesPostgresFirst`: `StartedInPostgres` says it of a text from the `UPDATE`
  on, while it is still with the handler or in the actor's inbox.
* `OpenRacesHaveRooms`: from `PendingHasRoom`, which says it of every pending race: a full
  race is not offered, but is again as soon as somebody leaves.

**Leaderboard** (`Leaderboard_proofs`). Assumed: the sets are finite, results have their
types, a user has at most one result of each of the actor's two maps, pages have at least
one line, and the value for an unlocked line is not a race.

* `LeaderboardTypeCorrect`, with `TxOK` and `LocksOK`: a line is locked by the
  transaction that has written it and by no other.
* `BoardIsScoreboard`: `Spec => ImplementsScoreboard`. `LinesOK` says what a
  transaction sees at any time: the committed line with the results added that it has
  dealt with (`Adds`, on counts, victories and best time). It is kept by the other
  transactions because they cannot commit a line that this one has locked. When
  nothing is left to do, the step is `Scoreboard`'s.
* `RacesCountOnce`: from `CommitsOK`, which follows the commits whose reply was lost.
* `ReconcileIsNoop` (an action property) and `FinishedRacesShowRanks`: from `RanksOK`:
  a finished race has a rank for each result, and every rank stems from a result.
  `PublishedLast`: the consumer cannot hear of a race before its commit.
* `WeeklyWinsAreCounted`, `ListedPagesAreFilled`: with `ReaderOK`: what a reader has
  seen in its first statement still holds in the second, since victories and, in either
  window, counted players only grow - unless a race has left the week in between
  (`rolled`); a race that is finished again comes back into it (`WindowKeeps`).

**Consumer** (`Consumer_proofs`). Assumed: the topics are the two the code reads, batches
have at least one message.

* `ConsumerTypeCorrect`.
* `OffsetsHandled`: `Spec => []CommittedHandled`. A commit of one message vouches for
  everything before it, so the invariant has to follow what is fetched until it is
  accounted for: `FetchedAccounted` (it is accounted for or in the batch),
  `BatchAccounted` (the same of everything before a message of the batch, since a
  rebalance moves the position back and keeps the batch), `BatchHandled` and
  `CurrentAccounted` (what is about to be committed may be). Most actions are
  instances of two lemmas, `QuietStep` and `SingleStep`.
* `WrittenOnce`: `Spec => []ExactlyOnce`. Two more invariants: `Calm`
  (until the first fault or disruption the loop reads on in order, and nothing that is
  still to be fetched or waits in the batch has a row) and `FinishedOnce` (a repeated
  reconciliation does not write again).

Checked by TLC only: what must eventually happen, which is out of the prover's reach
(`PendingResolves`, `GraceResolves`, `GoroutinesEnd`, `ConnectionsEnd`,
`ShutdownDisconnects`, `RoomClosedEndsHub`, `RoomTornDown`, `StaleRouteHeals`,
`FinishRaceReturns`, `MessagesHandled`). `MessagesHandled` excepts what waits for ever in
a batch with an unwritable message (`Stuck`). The three statements that the code does not
keep are refuted by TLC's counterexamples.

## Not modelled

The producer's publishes of samples; several partitions or consumers at
once (a rebalance away and back is modelled); two gateways or two
race-service instances at once; the subscription buffer on the outbound side; failed
NATS publishes of the room; the shutdown budget running out; the leaderboard's
distance and pace sums; the order of ties in the leaderboard's pages and in
`race_state`; metrics, tracing, authentication, the frontend. `PROJECT.json` gives a
reason for each component.

## Plan

All safety properties of the passing runs are proved. What would extend the
project, in this order:

1. A second gateway in `RaceHub` and a second race-service instance in `RoomRegistry`:
   `RoomClosedLast` and `OwnedWhileRunning` are stated for one owner of the room, and two
   of them could meet after a lapsed claim.
2. `Session` with the hub's side of a connection, so that `SeatHasConnection` and
   `FinalBroadcastDelivered` speak of the same connection.
3. A liveness argument for rooms of every size in prose, along `GraceExpiryPending` and
   `NoAbandonedRoom`, which are its safety part.
