---------------------------- MODULE RoomRegistry -----------------------------
(***************************************************************************)
(* The life of one room around its actor: Registry.Spawn and the           *)
(* goroutines it starts (backend/internal/room/registry.go), the Redis     *)
(* ownership key and the room:events channel                               *)
(* (internal/roomlocator/locator.go), the routing cache of one ws-gateway  *)
(* (internal/wsgateway/gateway.go) and race-service's graceful shutdown    *)
(* (cmd/server/run.go).                                                    *)
(*                                                                         *)
(* The actor is reduced to what it hands to its broadcast channel and to   *)
(* when its context is cancelled; module RoomActor has the rest.           *)
(***************************************************************************)
EXTENDS Integers, Sequences, SequencesExt

CONSTANTS
    BroadcastBufferSize,  \* capacity of the broadcast channel (16 in the code)
    MaxTicks,             \* bound: race_state snapshots the actor makes
    ClaimTTL,             \* heartbeat intervals a claim lasts (60s / 20s in the code)
    MaxFailures           \* bound: Refresh calls that do not reach Redis

ASSUME BufferAssumption == BroadcastBufferSize \in Nat \ {0}
ASSUME ClaimAssumption == ClaimTTL \in Nat \ {0}
ASSUME BoundsAssumption == MaxTicks \in Nat /\ MaxFailures \in Nat

VARIABLES
    spawn,       \* how far Spawn has come
    registered,  \* reg.rooms has the actor
    actor,       \* where the actor's goroutine stands
    ctxDone,     \* the actor's context is cancelled
    broadcast,   \* the buffered broadcast channel
    final,       \* what became of race_finished or race_expired
    out,         \* what is published on room.{race_id}.out
    drainer, cleanup, feeder,   \* the goroutines Spawn starts
    key,         \* intervals the ownership key has left in Redis, 0 without one
    claimed,     \* Spawn's Claim has written the key
    events,      \* room:events the gateway has yet to read
    cache,       \* the gateway's cache has an unexpired entry for the race
    lookup,      \* a REST request in resolveTarget: idle, or Owner has answered
    server,      \* race-service: up, draining, exited
    ticks, failures

actorVars == <<actor, ctxDone, broadcast, final, ticks>>
redisVars == <<key, claimed, events, failures>>
gatewayVars == <<cache, lookup>>
vars == <<spawn, registered, actorVars, out, drainer, cleanup, feeder, redisVars, gatewayVars, server>>

State == "race_state"
Final == "final"          \* race_finished or race_expired
RoomClosed == "room_closed"

Alive == server # "exited"
Owned == key > 0

Init ==
    /\ spawn = "start" /\ registered = FALSE
    /\ actor = "new" /\ ctxDone = FALSE /\ broadcast = <<>> /\ final = "none" /\ ticks = 0
    /\ out = <<>> /\ drainer = "off" /\ cleanup = "off" /\ feeder = "off"
    /\ key = 0 /\ claimed = FALSE /\ events = <<>> /\ failures = 0
    /\ cache = FALSE /\ lookup = "idle" /\ server = "up"

-----------------------------------------------------------------------------
(* Spawn: register, Claim, SubscribeIn, then the goroutines.                *)

SpawnRegisters ==
    /\ server = "up" /\ spawn = "start"
    /\ spawn' = "registered" /\ registered' = TRUE
    /\ UNCHANGED <<actorVars, out, drainer, cleanup, feeder, redisVars, gatewayVars, server>>

\* SET NX EX and PUBLISH created.  Both errors are logged and ignored.
Claim ==
    /\ Alive /\ spawn = "registered"
    /\ spawn' = "claimed"
    /\ \/ /\ key' = ClaimTTL /\ claimed' = TRUE
          /\ events' \in {events, Append(events, "created")}
       \/ UNCHANGED <<key, claimed, events>>
    /\ UNCHANGED <<registered, actorVars, out, drainer, cleanup, feeder, failures, gatewayVars, server>>

\* Without a subscription there is no feedInbox; the room runs all the same.
SpawnStarts ==
    /\ Alive /\ spawn = "claimed"
    /\ spawn' = "returned"
    /\ feeder' \in {"loop", "off"}
    /\ actor' = "running" /\ drainer' = "loop" /\ cleanup' = "waiting"
    /\ UNCHANGED <<registered, ctxDone, broadcast, final, ticks, out, redisVars, gatewayVars, server>>

-----------------------------------------------------------------------------
(* The actor: every broadcast is dropped when the channel is full.          *)

\* Mutant: no look at the channel's capacity.
Offer_Always(m) == broadcast' = Append(broadcast, m)
Offer(m) == broadcast' = IF Len(broadcast) < BroadcastBufferSize THEN Append(broadcast, m) ELSE broadcast
OfferFinal ==
    /\ Offer(Final)
    /\ final' = IF Len(broadcast) < BroadcastBufferSize THEN "queued" ELSE "dropped"

\* A tick may still win Run's select when the context is cancelled.
broadcastSnapshot ==
    /\ Alive /\ actor = "running" /\ ticks < MaxTicks
    /\ ticks' = ticks + 1
    /\ Offer(State)
    /\ UNCHANGED <<spawn, registered, actor, ctxDone, final, out, drainer, cleanup, feeder, redisVars,
                   gatewayVars, server>>

\* finishRace up to FinishRace: the last snapshot.
FinishBegins ==
    /\ Alive /\ actor = "running" /\ ~ctxDone /\ ticks < MaxTicks
    /\ actor' = "persisting" /\ ticks' = ticks + 1
    /\ Offer(State)
    /\ UNCHANGED <<spawn, registered, ctxDone, final, out, drainer, cleanup, feeder, redisVars,
                   gatewayVars, server>>

\* FinishRace returns: race_finished and r.cancel(), or the error is logged.  The
\* context may have been cancelled during the call, which then fails.
FinishEnds ==
    /\ Alive /\ actor = "persisting"
    /\ actor' = "running"
    /\ \/ ~ctxDone /\ OfferFinal /\ ctxDone' = TRUE
       \/ UNCHANGED <<broadcast, final, ctxDone>>
    /\ UNCHANGED <<spawn, registered, ticks, out, drainer, cleanup, feeder, redisVars, gatewayVars, server>>

\* expirePendingRoom: race_expired and r.cancel() without a snapshot.
expirePendingRoom ==
    /\ Alive /\ actor = "running" /\ ~ctxDone
    /\ OfferFinal /\ ctxDone' = TRUE
    /\ UNCHANGED <<spawn, registered, actor, ticks, out, drainer, cleanup, feeder, redisVars,
                   gatewayVars, server>>

RunReturns ==
    /\ Alive /\ actor = "running" /\ ctxDone
    /\ actor' = "returned"
    /\ UNCHANGED <<spawn, registered, ctxDone, broadcast, final, ticks, out, drainer, cleanup, feeder,
                   redisVars, gatewayVars, server>>

\* Registry.Remove.
RegistryRemove ==
    /\ Alive /\ registered
    /\ registered' = FALSE /\ ctxDone' = TRUE
    /\ UNCHANGED <<spawn, actor, broadcast, final, ticks, out, drainer, cleanup, feeder, redisVars,
                   gatewayVars, server>>

-----------------------------------------------------------------------------
(* drainBroadcast.  A failed publish is logged and the message lost; NATS   *)
(* is taken to accept what it is given.                                     *)

PublishOut ==
    /\ Alive /\ drainer \in {"loop", "draining"} /\ broadcast # <<>>
    /\ broadcast' = Tail(broadcast)
    /\ out' = Append(out, Head(broadcast))
    /\ UNCHANGED <<spawn, registered, actor, ctxDone, final, ticks, drainer, cleanup, feeder, redisVars,
                   gatewayVars, server>>

\* Mutants: a plain range over a channel that nobody closes; room_closed as
\* soon as ctx.Done() is seen, without the drain loop.
DrainSeesDone_RangeOnly == drainer = "closed" /\ UNCHANGED vars
DrainSeesDone_Closes ==
    /\ Alive /\ drainer = "loop" /\ ctxDone
    /\ drainer' = "done" /\ out' = Append(out, RoomClosed)
    /\ UNCHANGED <<spawn, registered, actorVars, cleanup, feeder, redisVars, gatewayVars, server>>

DrainSeesDone ==
    /\ Alive /\ drainer = "loop" /\ ctxDone
    /\ drainer' = "draining"
    /\ UNCHANGED <<spawn, registered, actorVars, out, cleanup, feeder, redisVars, gatewayVars, server>>

\* Mutant: the drain loop goes on after room_closed.
PublishRoomClosed_GoesOn ==
    /\ Alive /\ drainer = "draining" /\ broadcast = <<>> /\ RoomClosed \notin ToSet(out)
    /\ out' = Append(out, RoomClosed)
    /\ UNCHANGED <<spawn, registered, actorVars, drainer, cleanup, feeder, redisVars, gatewayVars, server>>

PublishRoomClosed ==
    /\ Alive /\ drainer = "draining" /\ broadcast = <<>>
    /\ drainer' = "done" /\ out' = Append(out, RoomClosed)
    /\ UNCHANGED <<spawn, registered, actorVars, cleanup, feeder, redisVars, gatewayVars, server>>

drainBroadcast == PublishOut \/ DrainSeesDone \/ PublishRoomClosed

-----------------------------------------------------------------------------
(* cleanupWhenDone, heartbeat, feedInbox and Redis.                         *)

CleanupRemoves ==
    /\ Alive /\ cleanup = "waiting" /\ ctxDone
    /\ cleanup' = "removed" /\ registered' = FALSE
    /\ UNCHANGED <<spawn, actorVars, out, drainer, feeder, redisVars, gatewayVars, server>>

\* DEL and PUBLISH removed, either of which may fail; no PUBLISH after a failed DEL.
Release ==
    /\ Alive /\ cleanup = "removed"
    /\ cleanup' = "released"
    /\ \/ key' = 0 /\ events' \in {events, Append(events, "removed")}
       \/ UNCHANGED <<key, events>>
    /\ UNCHANGED <<spawn, registered, actorVars, out, drainer, feeder, claimed, failures, gatewayVars, server>>

cleanupWhenDone == CleanupRemoves \/ Release

\* An interval passes with nobody left to refresh the key.
KeyAges ==
    /\ Owned /\ (ctxDone \/ ~Alive)
    /\ key' = key - 1
    /\ UNCHANGED <<spawn, registered, actorVars, out, drainer, cleanup, feeder, claimed, events, failures,
                   gatewayVars, server>>

\* An interval passes and Refresh is called.  EXPIRE puts the expiry off, unless
\* the key is gone by then: that is an error, which is logged.
Refreshed == IF key > 1 THEN ClaimTTL ELSE 0

Refresh ==
    /\ \/ key' = Refreshed /\ UNCHANGED failures
       \/ /\ failures < MaxFailures
          /\ failures' = failures + 1
          /\ key' = IF Owned THEN key - 1 ELSE 0
    /\ UNCHANGED <<spawn, registered, actorVars, out, drainer, cleanup, feeder, claimed, events,
                   gatewayVars, server>>

\* Mutants: no ctx.Done() case; the first refresh comes an interval too late.
heartbeat_Forever == Alive /\ spawn = "returned" /\ Refresh
heartbeat_TooSlow ==
    /\ Alive /\ spawn = "returned" /\ ~ctxDone
    /\ key' = IF key > 2 THEN key - 2 ELSE 0
    /\ UNCHANGED <<spawn, registered, actorVars, out, drainer, cleanup, feeder, claimed, events, failures,
                   gatewayVars, server>>

heartbeat == Alive /\ spawn = "returned" /\ ~ctxDone /\ Refresh

\* feedInbox ranges over its subscription, which closes with the context handed
\* to Spawn: the process's own, which nothing cancels.
FeedInboxEnds ==
    /\ feeder = "loop" /\ server = "exited"
    /\ feeder' = "done"
    /\ UNCHANGED <<spawn, registered, actorVars, out, drainer, cleanup, redisVars, gatewayVars, server>>

-----------------------------------------------------------------------------
(* The gateway's routing cache.                                             *)

\* WatchRoomEvents applies one event.
WatchRoomEvents ==
    /\ events # <<>>
    /\ events' = Tail(events)
    /\ cache' = (Head(events) = "created")
    /\ UNCHANGED <<spawn, registered, actorVars, out, drainer, cleanup, feeder, key, claimed, failures, lookup, server>>

\* A published event the gateway never gets.
EventLost ==
    /\ events # <<>>
    /\ events' = Tail(events)
    /\ UNCHANGED <<spawn, registered, actorVars, out, drainer, cleanup, feeder, key, claimed, failures,
                   gatewayVars, server>>

\* A miss: Owner is asked, and the cache written through in a later step.
ResolveOwner ==
    /\ lookup = "idle" /\ ~cache /\ Owned
    /\ lookup' = "found"
    /\ UNCHANGED <<spawn, registered, actorVars, out, drainer, cleanup, feeder, redisVars, cache, server>>

ResolveCaches ==
    /\ lookup = "found"
    /\ lookup' = "idle" /\ cache' = TRUE
    /\ UNCHANGED <<spawn, registered, actorVars, out, drainer, cleanup, feeder, redisVars, server>>

CacheExpires ==
    /\ cache
    /\ cache' = FALSE
    /\ UNCHANGED <<spawn, registered, actorVars, out, drainer, cleanup, feeder, redisVars, lookup, server>>

-----------------------------------------------------------------------------
(* Graceful shutdown.                                                       *)

\* SIGTERM; httpSrv.Shutdown lets the request that is in Spawn return first.
Sigterm ==
    /\ server = "up" /\ spawn \in {"start", "returned"}
    /\ server' = "draining"
    /\ UNCHANGED <<spawn, registered, actorVars, out, drainer, cleanup, feeder, redisVars, gatewayVars>>

\* waitForRoomsToDrain sees Count() = 0; main returns and the process is gone.
\* Running out of the shutdown budget is left out.
ExitDrained ==
    /\ server = "draining" /\ ~registered
    /\ server' = "exited"
    /\ UNCHANGED <<spawn, registered, actorVars, out, drainer, cleanup, feeder, redisVars, gatewayVars>>

-----------------------------------------------------------------------------
Spawn == SpawnRegisters \/ Claim \/ SpawnStarts
Actor == broadcastSnapshot \/ FinishBegins \/ FinishEnds \/ expirePendingRoom \/ RunReturns
Gateway == WatchRoomEvents \/ EventLost \/ ResolveOwner \/ ResolveCaches \/ CacheExpires

Next ==
    \/ Spawn
    \/ Actor \/ RegistryRemove \/ drainBroadcast \/ cleanupWhenDone \/ heartbeat \/ FeedInboxEnds
    \/ KeyAges \/ Gateway \/ Sigterm \/ ExitDrained

Spec == Init /\ [][Next]_vars

(* Fairness: the goroutines of the room and of the gateway run, TTLs end,   *)
(* and room:events are read or lost.  Nothing obliges a race to finish or   *)
(* the process to be stopped.                                               *)
Fairness ==
    /\ WF_vars(Spawn) /\ WF_vars(RunReturns) /\ WF_vars(FinishEnds)
    /\ WF_vars(PublishOut) /\ SF_vars(DrainSeesDone) /\ WF_vars(PublishRoomClosed)
    /\ WF_vars(cleanupWhenDone) /\ WF_vars(heartbeat) /\ WF_vars(FeedInboxEnds)
    /\ WF_vars(KeyAges) /\ WF_vars(WatchRoomEvents)
    /\ WF_vars(ResolveCaches) /\ WF_vars(CacheExpires)

FairSpec == Spec /\ Fairness

-----------------------------------------------------------------------------
(* Safety.                                                                  *)

\* Every variable has its type, and the broadcast channel keeps to its capacity.
TypeOK ==
    /\ spawn \in {"start", "registered", "claimed", "returned"} /\ registered \in BOOLEAN
    /\ actor \in {"new", "running", "persisting", "returned"} /\ ctxDone \in BOOLEAN
    /\ broadcast \in Seq({State, Final}) /\ Len(broadcast) <= BroadcastBufferSize
    /\ final \in {"none", "queued", "dropped"} /\ ticks \in 0..MaxTicks
    /\ out \in Seq({State, Final, RoomClosed})
    /\ drainer \in {"off", "loop", "draining", "done"}
    /\ cleanup \in {"off", "waiting", "removed", "released"}
    /\ feeder \in {"off", "loop", "done"}
    /\ key \in 0..ClaimTTL /\ claimed \in BOOLEAN /\ failures \in 0..MaxFailures
    /\ events \in Seq({"created", "removed"})
    /\ cache \in BOOLEAN /\ lookup \in {"idle", "found"}
    /\ server \in {"up", "draining", "exited"}

\* room_closed is published once and nothing after it, though the actor may
\* still apply ticks after its context is cancelled (registry.go:62-64).
RoomClosedLast == \A i \in 1..Len(out) : out[i] = RoomClosed => i = Len(out)

\* The race's last message is never lost to a select that sees the cancelled
\* context first: if it got into the channel, it is out before room_closed
\* (registry.go:211-222).
QueuedFinalPublished == RoomClosed \in ToSet(out) /\ final = "queued" => Final \in ToSet(out)

\* A running room stays findable through as many failed refreshes as its TTL
\* has spare intervals: the heartbeat keeps the claim alive, and nothing releases
\* it before the room's context is cancelled (registry.go:15-20).
OwnedWhileRunning == claimed /\ ~ctxDone /\ Alive /\ failures < ClaimTTL - 1 => Owned

-----------------------------------------------------------------------------
(* Liveness.                                                                *)

\* A cancelled room leaves the registry and says room_closed, unless the process
\* ends first.
RoomTornDown == ctxDone ~> (~registered /\ RoomClosed \in ToSet(out)) \/ ~Alive

\* Once the room has been released the gateway stops routing to it for good, even
\* if DEL failed, the removed event was lost, or a lookup that had read the old
\* owner wrote the cache afterwards (gateway.go:60-63).
StaleRouteHeals == cleanup = "released" ~> []~cache
=============================================================================
