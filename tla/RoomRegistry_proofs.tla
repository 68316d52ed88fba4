------------------------- MODULE RoomRegistry_proofs -------------------------
(***************************************************************************)
(* Theorems about RoomRegistry: what a room publishes and when it can be   *)
(* found, for any size of the broadcast channel, any TTL and any order in  *)
(* which Spawn, the actor, the drainer, the cleanup and the heartbeat run. *)
(***************************************************************************)
EXTENDS RoomRegistry, TLAPS

\* The goroutines start when Spawn returns.
NotStarted == spawn # "returned" => actor = "new" /\ drainer = "off" /\ cleanup = "off"

\* The drain loop and the cleanup are on the far side of ctx.Done().
DoneSeen ==
    /\ drainer \in {"draining", "done"} => ctxDone
    /\ cleanup \in {"removed", "released"} => ctxDone

\* room_closed is the drainer's last act.
ClosedByDrainer == \A i \in 1..Len(out) : out[i] = RoomClosed => i = Len(out) /\ drainer = "done"

\* The last message is in the channel or out of it, and once the drainer is done
\* it is out.
FinalKept ==
    final = "queued" =>
        /\ Final \in ToSet(broadcast) \/ Final \in ToSet(out)
        /\ drainer = "done" => Final \in ToSet(out)

\* Every failed refresh costs an interval, and the next one that works gives all
\* of them back.
KeyLasts == claimed /\ ~ctxDone /\ Alive /\ failures < ClaimTTL - 1 => key >= ClaimTTL - failures

Inv == TypeOK /\ NotStarted /\ DoneSeen /\ ClosedByDrainer /\ FinalKept /\ KeyLasts

-----------------------------------------------------------------------------
(* Sequences.                                                               *)

\* What a sequence contains once something is put at its end,
LEMMA AppendContents ==
    ASSUME NEW S, NEW s \in Seq(S), NEW e \in S
    PROVE  ToSet(Append(s, e)) = ToSet(s) \cup {e}
<1>1. /\ DOMAIN Append(s, e) = 1..(Len(s) + 1) /\ DOMAIN s = 1..Len(s) /\ Len(s) \in Nat
      /\ \A i \in 1..Len(s) : Append(s, e)[i] = s[i]
      /\ Append(s, e)[Len(s) + 1] = e
  OBVIOUS
<1>2. \A i \in 1..(Len(s) + 1) : i \in 1..Len(s) \/ i = Len(s) + 1
  BY <1>1
<1> QED
  BY <1>1, <1>2 DEF ToSet

\* and once its first element is taken.
LEMMA TailContents ==
    ASSUME NEW S, NEW s \in Seq(S), s # <<>>
    PROVE  ToSet(s) \subseteq {Head(s)} \cup ToSet(Tail(s)) /\ Head(s) \in S /\ Tail(s) \in Seq(S)
<1>1. /\ Len(s) \in Nat \ {0} /\ DOMAIN s = 1..Len(s) /\ Head(s) = s[1]
      /\ DOMAIN Tail(s) = 1..(Len(s) - 1) /\ \A i \in 1..(Len(s) - 1) : Tail(s)[i] = s[i + 1]
  OBVIOUS
<1>2. ASSUME NEW i \in 1..Len(s), i # 1
      PROVE  s[i] \in ToSet(Tail(s))
  <2>1. i - 1 \in 1..(Len(s) - 1) /\ Tail(s)[i - 1] = s[i]
    BY <1>1, <1>2
  <2> QED
    BY <1>1, <2>1 DEF ToSet
<1>3. ToSet(s) \subseteq {Head(s)} \cup ToSet(Tail(s))
  BY <1>1, <1>2 DEF ToSet
<1> QED
  BY <1>3

-----------------------------------------------------------------------------
(* Types.                                                                   *)

\* Offer never overfills the channel.
LEMMA OfferType ==
    ASSUME TypeOK, NEW m \in {State, Final}, Offer(m)
    PROVE  broadcast' \in Seq({State, Final}) /\ Len(broadcast') <= BroadcastBufferSize
<1>1. CASE Len(broadcast) < BroadcastBufferSize
  <2>1. broadcast' = Append(broadcast, m)
    BY <1>1 DEF Offer
  <2>2. broadcast' \in Seq({State, Final}) /\ Len(broadcast') = Len(broadcast) + 1 /\ Len(broadcast) \in Nat
    BY <2>1 DEF TypeOK
  <2> QED
    BY <1>1, <2>2, BufferAssumption
<1>2. CASE ~(Len(broadcast) < BroadcastBufferSize)
  BY <1>2 DEF Offer, TypeOK
<1> QED
  BY <1>1, <1>2

\* A key's interval passes, or its expiry is put off: never beyond the TTL.
LEMMA RefreshType ==
    ASSUME TypeOK, Refresh
    PROVE  key' \in 0..ClaimTTL /\ failures' \in 0..MaxFailures
  BY ClaimAssumption, BoundsAssumption DEF TypeOK, Refresh, Refreshed, Owned

\* Every step of Spawn, the actor, its goroutines, Redis, the gateway and the
\* server keeps every variable in its type.
LEMMA NextType ==
    ASSUME TypeOK, [Next]_vars
    PROVE  TypeOK'
<1> USE DEF TypeOK
<1>1. CASE Spawn
  <2>1. CASE SpawnRegisters
    BY <2>1 DEF SpawnRegisters, actorVars, redisVars, gatewayVars
  <2>2. CASE Claim
    <3>1. key' \in 0..ClaimTTL
      BY <2>2, ClaimAssumption DEF Claim
    <3>2. claimed' \in BOOLEAN
      BY <2>2 DEF Claim
    <3>3. events' \in Seq({"created", "removed"})
      <4>1. Append(events, "created") \in Seq({"created", "removed"})
        OBVIOUS
      <4>2. events' \in {events, Append(events, "created")}
        BY <2>2 DEF Claim
      <4> QED
        BY <4>1, <4>2
    <3> QED
      BY <2>2, <3>1, <3>2, <3>3 DEF Claim, actorVars, gatewayVars
  <2>3. CASE SpawnStarts
    BY <2>3 DEF SpawnStarts, redisVars, gatewayVars
  <2> QED
    BY <1>1, <2>1, <2>2, <2>3 DEF Spawn
<1>2. CASE Actor
  <2>1. CASE broadcastSnapshot
    <3>1. broadcast' \in Seq({State, Final}) /\ Len(broadcast') <= BroadcastBufferSize
      BY <2>1, OfferType DEF broadcastSnapshot
    <3>2. ticks' \in 0..MaxTicks
      BY <2>1, BoundsAssumption DEF broadcastSnapshot
    <3> QED
      BY <2>1, <3>1, <3>2 DEF broadcastSnapshot, redisVars, gatewayVars
  <2>2. CASE FinishBegins
    <3>1. broadcast' \in Seq({State, Final}) /\ Len(broadcast') <= BroadcastBufferSize
      BY <2>2, OfferType DEF FinishBegins
    <3>2. ticks' \in 0..MaxTicks
      BY <2>2, BoundsAssumption DEF FinishBegins
    <3> QED
      BY <2>2, <3>1, <3>2 DEF FinishBegins, redisVars, gatewayVars
  <2>3. CASE FinishEnds
    <3>1. /\ broadcast' \in Seq({State, Final}) /\ Len(broadcast') <= BroadcastBufferSize
          /\ final' \in {"none", "queued", "dropped"} /\ ctxDone' \in BOOLEAN
      <4>1. CASE OfferFinal /\ ctxDone' = TRUE
        BY <4>1, OfferType DEF OfferFinal
      <4> QED
        BY <2>3, <4>1 DEF FinishEnds
    <3> QED
      BY <2>3, <3>1 DEF FinishEnds, redisVars, gatewayVars
  <2>4. CASE expirePendingRoom
    <3>1. /\ broadcast' \in Seq({State, Final}) /\ Len(broadcast') <= BroadcastBufferSize
          /\ final' \in {"none", "queued", "dropped"}
      BY <2>4, OfferType DEF expirePendingRoom, OfferFinal
    <3> QED
      BY <2>4, <3>1 DEF expirePendingRoom, redisVars, gatewayVars
  <2>5. CASE RunReturns
    BY <2>5 DEF RunReturns, redisVars, gatewayVars
  <2> QED
    BY <1>2, <2>1, <2>2, <2>3, <2>4, <2>5 DEF Actor
<1>3. CASE RegistryRemove
  <2>1. registered' \in BOOLEAN /\ ctxDone' \in BOOLEAN
    BY <1>3 DEF RegistryRemove
  <2>2. UNCHANGED <<spawn, actor, broadcast, final, ticks, out, drainer, cleanup, feeder, redisVars,
                    gatewayVars, server>>
    BY <1>3 DEF RegistryRemove
  <2> QED
    BY <2>1, <2>2 DEF redisVars, gatewayVars
<1>4. CASE drainBroadcast
  <2>1. CASE PublishOut
    <3>1. Head(broadcast) \in {State, Final} /\ Tail(broadcast) \in Seq({State, Final})
          /\ Len(Tail(broadcast)) <= BroadcastBufferSize
      BY <2>1, BufferAssumption DEF PublishOut
    <3>2. out' \in Seq({State, Final, RoomClosed})
      BY <2>1, <3>1 DEF PublishOut
    <3> QED
      BY <2>1, <3>1, <3>2 DEF PublishOut, redisVars, gatewayVars
  <2>2. CASE DrainSeesDone
    BY <2>2 DEF DrainSeesDone, actorVars, redisVars, gatewayVars
  <2>3. CASE PublishRoomClosed
    <3>1. out' \in Seq({State, Final, RoomClosed})
      BY <2>3 DEF PublishRoomClosed
    <3> QED
      BY <2>3, <3>1 DEF PublishRoomClosed, actorVars, redisVars, gatewayVars
  <2> QED
    BY <1>4, <2>1, <2>2, <2>3 DEF drainBroadcast
<1>5. CASE cleanupWhenDone
  <2>1. CASE CleanupRemoves
    <3>1. cleanup' = "removed" /\ registered' \in BOOLEAN
      BY <2>1 DEF CleanupRemoves
    <3>2. UNCHANGED <<spawn, actorVars, out, drainer, feeder, redisVars, gatewayVars, server>>
      BY <2>1 DEF CleanupRemoves
    <3> QED
      BY <3>1, <3>2 DEF actorVars, redisVars, gatewayVars
  <2>2. CASE Release
    <3>1. key' \in 0..ClaimTTL
      BY <2>2, ClaimAssumption DEF Release
    <3>2. events' \in Seq({"created", "removed"})
      <4>1. Append(events, "removed") \in Seq({"created", "removed"})
        OBVIOUS
      <4>2. events' \in {events, Append(events, "removed")}
        BY <2>2 DEF Release
      <4> QED
        BY <4>1, <4>2
    <3> QED
      BY <2>2, <3>1, <3>2 DEF Release, actorVars, gatewayVars
  <2> QED
    BY <1>5, <2>1, <2>2 DEF cleanupWhenDone
<1>6. CASE heartbeat
  <2>1. key' \in 0..ClaimTTL /\ failures' \in 0..MaxFailures
    BY <1>6, RefreshType DEF heartbeat
  <2> QED
    BY <1>6, <2>1 DEF heartbeat, Refresh, actorVars, gatewayVars
<1>7. CASE FeedInboxEnds
  BY <1>7 DEF FeedInboxEnds, actorVars, redisVars, gatewayVars
<1>8. CASE KeyAges
  <2>1. key' \in 0..ClaimTTL
    BY <1>8, ClaimAssumption DEF KeyAges, Owned
  <2> QED
    BY <1>8, <2>1 DEF KeyAges, actorVars, gatewayVars
<1>9. CASE Gateway
  <2>1. CASE WatchRoomEvents
    <3>1. events' \in Seq({"created", "removed"}) /\ cache' \in BOOLEAN
      BY <2>1 DEF WatchRoomEvents
    <3> QED
      BY <2>1, <3>1 DEF WatchRoomEvents, actorVars
  <2>2. CASE EventLost
    <3>1. events' \in Seq({"created", "removed"})
      BY <2>2 DEF EventLost
    <3> QED
      BY <2>2, <3>1 DEF EventLost, actorVars, gatewayVars
  <2>3. CASE ResolveOwner \/ ResolveCaches \/ CacheExpires
    BY <2>3 DEF ResolveOwner, ResolveCaches, CacheExpires, actorVars, redisVars
  <2> QED
    BY <1>9, <2>1, <2>2, <2>3 DEF Gateway
<1>10. CASE Sigterm \/ ExitDrained
  BY <1>10 DEF Sigterm, ExitDrained, actorVars, redisVars, gatewayVars
<1>11. CASE UNCHANGED vars
  BY <1>11 DEF vars, actorVars, redisVars, gatewayVars
<1> QED
  BY <1>1, <1>2, <1>3, <1>4, <1>5, <1>6, <1>7, <1>8, <1>9, <1>10, <1>11 DEF Next

-----------------------------------------------------------------------------
(* The order in which the goroutines start and stop.                        *)

\* A cancelled context stays cancelled, and only what has seen it goes on.
LEMMA NextOrder ==
    ASSUME TypeOK, NotStarted, DoneSeen, [Next]_vars
    PROVE  NotStarted' /\ DoneSeen'
<1> USE DEF NotStarted, DoneSeen
<1>1. CASE SpawnRegisters \/ Claim
  BY <1>1 DEF SpawnRegisters, Claim, actorVars
<1>2. CASE SpawnStarts
  BY <1>2 DEF SpawnStarts
<1>3. CASE broadcastSnapshot \/ FinishBegins \/ RunReturns
  BY <1>3 DEF broadcastSnapshot, FinishBegins, RunReturns
<1>4. CASE FinishEnds \/ expirePendingRoom
  <2>1. ctxDone => ctxDone'
    BY <1>4 DEF FinishEnds, expirePendingRoom
  <2>2. spawn = "returned"
    BY <1>4 DEF FinishEnds, expirePendingRoom
  <2>3. UNCHANGED <<spawn, drainer, cleanup>>
    BY <1>4 DEF FinishEnds, expirePendingRoom
  <2> QED
    BY <2>1, <2>2, <2>3
<1>5. CASE RegistryRemove
  BY <1>5 DEF RegistryRemove
<1>6. CASE drainBroadcast
  <2>1. CASE PublishOut
    BY <2>1 DEF PublishOut
  <2>2. CASE DrainSeesDone \/ PublishRoomClosed
    BY <2>2 DEF DrainSeesDone, PublishRoomClosed, actorVars
  <2> QED
    BY <1>6, <2>1, <2>2 DEF drainBroadcast
<1>7. CASE cleanupWhenDone
  BY <1>7 DEF cleanupWhenDone, CleanupRemoves, Release, actorVars
<1>8. CASE UNCHANGED <<spawn, actor, ctxDone, drainer, cleanup>>
  BY <1>8
<1> QED
  BY <1>1, <1>2, <1>3, <1>4, <1>5, <1>6, <1>7, <1>8
  DEF Next, Spawn, Actor, heartbeat, Refresh, FeedInboxEnds, KeyAges, Gateway, WatchRoomEvents, EventLost,
      ResolveOwner, ResolveCaches, CacheExpires, Sigterm, ExitDrained, vars, actorVars

-----------------------------------------------------------------------------
(* What is published.                                                       *)

\* Nothing follows room_closed.
LEMMA NextClosed ==
    ASSUME TypeOK, NotStarted, ClosedByDrainer, [Next]_vars
    PROVE  ClosedByDrainer'
<1>1. CASE PublishOut
  <2> DEFINE m == Head(broadcast)
  <2>1. m \in {State, Final} /\ m # RoomClosed
    BY <1>1, TailContents DEF PublishOut, TypeOK, State, Final, RoomClosed
  <2>2. out' = Append(out, m) /\ drainer # "done"
    BY <1>1 DEF PublishOut
  <2> HIDE DEF m
  <2>3. /\ Len(out') = Len(out) + 1 /\ Len(out) \in Nat
        /\ out'[Len(out) + 1] = m /\ \A i \in 1..Len(out) : out'[i] = out[i]
    BY <2>1, <2>2 DEF TypeOK
  <2>4. \A i \in 1..Len(out) : out[i] # RoomClosed
    BY <2>2 DEF ClosedByDrainer
  <2>5. \A i \in 1..(Len(out) + 1) : out'[i] # RoomClosed
    BY <2>1, <2>3, <2>4
  <2> QED
    BY <2>3, <2>5 DEF ClosedByDrainer
<1>2. CASE PublishRoomClosed
  <2>1. out' = Append(out, RoomClosed) /\ drainer # "done" /\ drainer' = "done"
    BY <1>2 DEF PublishRoomClosed
  <2>2. /\ Len(out') = Len(out) + 1 /\ Len(out) \in Nat
        /\ \A i \in 1..Len(out) : out'[i] = out[i]
    BY <2>1 DEF TypeOK
  <2>3. \A i \in 1..Len(out) : out[i] # RoomClosed
    BY <2>1 DEF ClosedByDrainer
  <2> QED
    BY <2>1, <2>2, <2>3 DEF ClosedByDrainer
<1>3. CASE UNCHANGED out /\ (drainer = "done" => drainer' = "done")
  BY <1>3 DEF ClosedByDrainer
<1>4. CASE Spawn
  BY <1>3, <1>4 DEF Spawn, SpawnRegisters, Claim, SpawnStarts, NotStarted
<1>5. CASE Actor \/ RegistryRemove
  BY <1>3, <1>5
  DEF Actor, broadcastSnapshot, FinishBegins, FinishEnds, expirePendingRoom, RunReturns, RegistryRemove
<1>6. CASE drainBroadcast
  BY <1>1, <1>2, <1>3, <1>6 DEF drainBroadcast, DrainSeesDone
<1>7. CASE UNCHANGED <<out, drainer>>
  BY <1>3, <1>7
<1> QED
  BY <1>4, <1>5, <1>6, <1>7
  DEF Next, cleanupWhenDone, CleanupRemoves, Release, heartbeat, Refresh, FeedInboxEnds, KeyAges, Gateway,
      WatchRoomEvents, EventLost, ResolveOwner, ResolveCaches, CacheExpires, Sigterm, ExitDrained, vars

\* Offering a message takes none away, and a final one that fits is in.
LEMMA OfferContents ==
    ASSUME TypeOK, NEW m \in {State, Final}, Offer(m)
    PROVE  /\ ToSet(broadcast) \subseteq ToSet(broadcast')
           /\ Len(broadcast) < BroadcastBufferSize => m \in ToSet(broadcast')
<1>1. CASE Len(broadcast) < BroadcastBufferSize
  <2>1. broadcast' = Append(broadcast, m)
    BY <1>1 DEF Offer
  <2>2. ToSet(Append(broadcast, m)) = ToSet(broadcast) \cup {m}
    BY AppendContents DEF TypeOK
  <2> QED
    BY <2>1, <2>2
<1>2. CASE ~(Len(broadcast) < BroadcastBufferSize)
  <2>1. broadcast' = broadcast
    BY <1>2 DEF Offer
  <2> QED
    BY <1>2, <2>1
<1> QED
  BY <1>1, <1>2

\* The race's last message, once queued, is on its way or out.
LEMMA NextFinal ==
    ASSUME TypeOK, NotStarted, DoneSeen, FinalKept, [Next]_vars
    PROVE  FinalKept'
<1> DEFINE In == Final \in ToSet(broadcast)
           Out == Final \in ToSet(out)
<1>1. CASE OfferFinal /\ ~ctxDone /\ UNCHANGED <<out, drainer>>
  <2>1. Len(broadcast) < BroadcastBufferSize => Final \in ToSet(broadcast')
    BY <1>1, OfferContents DEF OfferFinal
  <2>2. final' = "queued" => Len(broadcast) < BroadcastBufferSize
    BY <1>1 DEF OfferFinal
  <2>3. drainer' # "done"
    BY <1>1 DEF DoneSeen
  <2> QED
    BY <2>1, <2>2, <2>3 DEF FinalKept
<1>2. CASE Offer(State) /\ UNCHANGED <<final, out, drainer>>
  <2>1. ToSet(broadcast) \subseteq ToSet(broadcast')
    BY <1>2, OfferContents
  <2> QED
    BY <1>2, <2>1 DEF FinalKept
<1>3. CASE PublishOut
  <2>1. ToSet(broadcast) \subseteq {Head(broadcast)} \cup ToSet(Tail(broadcast))
    BY <1>3, TailContents DEF PublishOut, TypeOK
  <2>2. ToSet(Append(out, Head(broadcast))) = ToSet(out) \cup {Head(broadcast)}
    <3>1. Head(broadcast) \in {State, Final, RoomClosed}
      BY <1>3, TailContents DEF PublishOut, TypeOK
    <3> QED
      BY <3>1, AppendContents DEF TypeOK
  <2>3. broadcast' = Tail(broadcast) /\ out' = Append(out, Head(broadcast)) /\ final' = final /\ drainer' # "done"
    BY <1>3 DEF PublishOut
  <2> QED
    BY <2>1, <2>2, <2>3 DEF FinalKept
<1>4. CASE PublishRoomClosed
  <2>1. ToSet(Append(out, RoomClosed)) = ToSet(out) \cup {RoomClosed}
    BY AppendContents DEF TypeOK
  <2>2. ToSet(broadcast) = {}
    BY <1>4 DEF PublishRoomClosed, ToSet
  <2>3. out' = Append(out, RoomClosed) /\ UNCHANGED <<broadcast, final>>
    BY <1>4 DEF PublishRoomClosed, actorVars
  <2> QED
    BY <2>1, <2>2, <2>3 DEF FinalKept
<1>5. CASE UNCHANGED <<broadcast, out, final>> /\ (drainer' = "done" => drainer = "done")
  BY <1>5 DEF FinalKept
<1>6. CASE Spawn
  BY <1>5, <1>6 DEF Spawn, SpawnRegisters, Claim, SpawnStarts, actorVars
<1>7. CASE Actor
  BY <1>1, <1>2, <1>5, <1>7
  DEF Actor, broadcastSnapshot, FinishBegins, FinishEnds, expirePendingRoom, RunReturns
<1>8. CASE drainBroadcast
  BY <1>3, <1>4, <1>5, <1>8 DEF drainBroadcast, DrainSeesDone, actorVars
<1>9. CASE UNCHANGED <<broadcast, out, final, drainer>>
  BY <1>5, <1>9
<1> QED
  BY <1>6, <1>7, <1>8, <1>9
  DEF Next, RegistryRemove, cleanupWhenDone, CleanupRemoves, Release, heartbeat, Refresh, FeedInboxEnds, KeyAges,
      Gateway, WatchRoomEvents, EventLost, ResolveOwner, ResolveCaches, CacheExpires, Sigterm, ExitDrained,
      vars, actorVars

-----------------------------------------------------------------------------
(* The ownership key.                                                       *)

\* Only a failing refresh takes an interval from a running room's key.
LEMMA NextKey ==
    ASSUME TypeOK, NotStarted, DoneSeen, KeyLasts, [Next]_vars
    PROVE  KeyLasts'
<1>1. CASE /\ UNCHANGED <<key, claimed, failures>> /\ (ctxDone => ctxDone')
           /\ server = "exited" => server' = "exited"
  BY <1>1 DEF KeyLasts, Alive
<1>2. CASE Claim
  <2>1. CASE key' = ClaimTTL
    BY <1>2, <2>1, ClaimAssumption, BoundsAssumption DEF Claim, KeyLasts, TypeOK
  <2> QED
    BY <1>1, <1>2, <2>1 DEF Claim, actorVars
<1>3. CASE heartbeat
  <2>1. UNCHANGED <<claimed, ctxDone, server>> /\ ~ctxDone /\ Alive /\ Refresh
    BY <1>3 DEF heartbeat, Refresh, actorVars
  <2>2. key \in Nat /\ failures \in Nat /\ ClaimTTL \in Nat
    BY ClaimAssumption, BoundsAssumption DEF TypeOK
  <2>3. CASE key' = Refreshed /\ UNCHANGED failures
    BY <2>1, <2>2, <2>3 DEF KeyLasts, Refreshed, Alive
  <2>4. CASE failures' = failures + 1 /\ key' = IF Owned THEN key - 1 ELSE 0
    BY <2>1, <2>2, <2>4 DEF KeyLasts, Owned, Alive
  <2> QED
    BY <2>1, <2>3, <2>4 DEF Refresh
<1>4. CASE KeyAges
  <2>1. ctxDone' \/ ~Alive'
    BY <1>4 DEF KeyAges, actorVars, Alive
  <2> QED
    BY <2>1 DEF KeyLasts
<1>5. CASE Release
  <2>1. ctxDone'
    BY <1>5 DEF Release, actorVars, DoneSeen
  <2> QED
    BY <2>1 DEF KeyLasts
<1>6. CASE SpawnRegisters \/ SpawnStarts
  BY <1>1, <1>6 DEF SpawnRegisters, SpawnStarts, actorVars, redisVars
<1>7. CASE Actor \/ RegistryRemove
  BY <1>1, <1>7
  DEF Actor, broadcastSnapshot, FinishBegins, FinishEnds, expirePendingRoom, RunReturns, RegistryRemove, redisVars
<1>8. CASE drainBroadcast \/ CleanupRemoves \/ FeedInboxEnds \/ Gateway
  BY <1>1, <1>8
  DEF drainBroadcast, PublishOut, DrainSeesDone, PublishRoomClosed, CleanupRemoves, FeedInboxEnds, Gateway,
      WatchRoomEvents, EventLost, ResolveOwner, ResolveCaches, CacheExpires, actorVars, redisVars
<1>9. CASE Sigterm \/ ExitDrained
  BY <1>1, <1>9 DEF Sigterm, ExitDrained, actorVars, redisVars
<1>10. CASE UNCHANGED vars
  BY <1>1, <1>10 DEF vars, actorVars, redisVars
<1> QED
  BY <1>2, <1>3, <1>4, <1>5, <1>6, <1>7, <1>8, <1>9, <1>10 DEF Next, Spawn, cleanupWhenDone

-----------------------------------------------------------------------------
(* The theorems.                                                            *)

\* The inductive invariant holds from the start and is kept by every step.
LEMMA RegistryInv == Spec => []Inv
<1>1. Init => Inv
  <2> SUFFICES ASSUME Init PROVE Inv
    OBVIOUS
  <2>1. TypeOK
    <3>1. /\ broadcast \in Seq({State, Final}) /\ out \in Seq({State, Final, RoomClosed})
          /\ events \in Seq({"created", "removed"}) /\ Len(broadcast) = 0
      BY DEF Init
    <3>2. key \in 0..ClaimTTL /\ failures \in 0..MaxFailures /\ ticks \in 0..MaxTicks
      BY ClaimAssumption, BoundsAssumption DEF Init
    <3>3. Len(broadcast) <= BroadcastBufferSize
      BY <3>1, BufferAssumption
    <3> QED
      BY <3>1, <3>2, <3>3 DEF Init, TypeOK
  <2> QED
    BY <2>1 DEF Init, Inv, NotStarted, DoneSeen, ClosedByDrainer, FinalKept, KeyLasts
<1>2. Inv /\ [Next]_vars => Inv'
  <2> SUFFICES ASSUME Inv, [Next]_vars PROVE Inv'
    OBVIOUS
  <2>1. TypeOK /\ NotStarted /\ DoneSeen /\ ClosedByDrainer /\ FinalKept /\ KeyLasts
    BY DEF Inv
  <2>2. TypeOK'
    BY <2>1, NextType
  <2>3. NotStarted' /\ DoneSeen'
    BY <2>1, NextOrder
  <2>4. ClosedByDrainer'
    BY <2>1, NextClosed
  <2>5. FinalKept'
    BY <2>1, NextFinal
  <2>6. KeyLasts'
    BY <2>1, NextKey
  <2> QED
    BY <2>2, <2>3, <2>4, <2>5, <2>6 DEF Inv
<1> QED
  BY <1>1, <1>2, PTL DEF Spec

\* Every variable keeps its type and the broadcast channel its capacity, whatever
\* that is.
THEOREM RegistryTypeCorrect == Spec => []TypeOK
<1>1. Inv => TypeOK
  BY DEF Inv
<1> QED
  BY <1>1, RegistryInv, PTL

\* drainBroadcast publishes room_closed once and nothing after it, however the
\* actor's last ticks race with the cancelled context.
THEOREM ClosesLast == Spec => []RoomClosedLast
<1>1. Inv => RoomClosedLast
  BY DEF Inv, ClosedByDrainer, RoomClosedLast
<1> QED
  BY <1>1, RegistryInv, PTL

\* A race_finished or race_expired that got into the broadcast channel is published
\* before room_closed, although ctx.Done() and the channel race in the select.
THEOREM FinalIsPublished == Spec => []QueuedFinalPublished
<1>1. Inv => QueuedFinalPublished
  <2> SUFFICES ASSUME Inv, RoomClosed \in ToSet(out), final = "queued"
               PROVE  Final \in ToSet(out)
    BY DEF QueuedFinalPublished
  <2>1. PICK i \in DOMAIN out : out[i] = RoomClosed
    BY DEF ToSet
  <2>2. i \in 1..Len(out)
    BY <2>1 DEF Inv, TypeOK
  <2>3. drainer = "done"
    BY <2>1, <2>2 DEF Inv, ClosedByDrainer
  <2> QED
    BY <2>3 DEF Inv, FinalKept
<1> QED
  BY <1>1, RegistryInv, PTL

\* The heartbeat keeps a claimed, running room in Redis through fewer failures than
\* its TTL has spare intervals, for every TTL.
THEOREM RunningIsOwned == Spec => []OwnedWhileRunning
<1>1. Inv => OwnedWhileRunning
  BY ClaimAssumption, BoundsAssumption DEF Inv, TypeOK, KeyLasts, OwnedWhileRunning, Owned
<1> QED
  BY <1>1, RegistryInv, PTL

==============================================================================
