------------------------------- MODULE RaceHub -------------------------------
(***************************************************************************)
(* How ws-gateway holds the sockets of one race                            *)
(* (backend/internal/wsgateway/racehub.go and endpoint.go): the            *)
(* RaceHubRegistry's reference-counted entry, every raceHub goroutine      *)
(* created for the race, for each connection the ServeHTTP goroutine and   *)
(* its reader and writer, and the process's graceful exit                  *)
(* (backend/cmd/ws-gateway/run.go).                                        *)
(*                                                                         *)
(* One action is one critical section of the registry's mutex, one case of *)
(* raceHub.run's select, one deferred call of run, or one step of a        *)
(* connection's goroutines.  The room side is an environment: it publishes *)
(* numbered broadcasts, then room_closed, on room.{race_id}.out, and       *)
(* releases its Redis claim.  NATS delivers in order to whoever is         *)
(* subscribed; its 64-message subscription buffer is taken to suffice.     *)
(***************************************************************************)
EXTENDS Integers, Sequences, FiniteSets, SequencesExt

CONSTANTS
    Conns,           \* connection attempts made to this gateway for the race
    ConnBufferSize,  \* capacity of a connection's channel (8 in the code)
    MaxBroadcasts    \* bound: broadcasts the room publishes

ASSUME ConnsAssumption == IsFiniteSet(Conns)
ASSUME BufferAssumption == ConnBufferSize \in Nat \ {0}
ASSUME BroadcastsAssumption == MaxBroadcasts \in Nat

VARIABLES
    entry,        \* hubs[raceID]: the hub and its refCount, or NoEntry
    made,         \* hubs created so far; they are numbered in that order
    hubPc,        \* where each hub's run stands
    stop,         \* hubs whose stop channel is closed
    toDisconnect, \* hubs that Shutdown has yet to signal
    gateway,      \* the process: up, stopping once Shutdown is called, exited
    msgs,         \* what each hub's subscription has delivered and run not read
    conns,        \* run's connection set, per hub
    connPc,       \* where each ServeHTTP call stands
    hubOf,        \* the hub each connection is attached to
    reader, writer,
    connCh,       \* each connection's outbound channel
    owed,         \* broadcasts published while a connection was registered, and
                  \* neither written to it nor dropped for it; not in the code
    cancelled,    \* connections whose connCtx is cancelled
    hungUp,       \* clients who have closed their socket
    quit,         \* clients who have sent leave_race
    reported,     \* readers that have published InboundKindDisconnected
    published,    \* broadcasts published by the room
    roomClosed,   \* room_closed is published
    owned         \* the race's ownership key is in Redis

registryVars == <<entry, made>>
chVars == <<connCh, owed>>
hubVars == <<hubPc, stop, toDisconnect, gateway, msgs, conns>>
connVars == <<connPc, hubOf, reader, writer, chVars, cancelled>>
clientVars == <<hungUp, quit, reported>>
roomVars == <<published, roomClosed, owned>>
vars == <<registryVars, hubVars, connVars, clientVars, roomVars>>

Hubs == 1..Cardinality(Conns)
NoHub == 0
NoEntry == [hub |-> NoHub, refCount |-> 0]
RoomClosedMsg == 0                       \* a broadcast is its number
Broadcasts == 1..MaxBroadcasts

\* closed: run has returned and closed h.closed; gone: onClose has run.
HubPc == {"none", "loop", "closed", "gone"}
ConnPc == {"idle", "checked", "attached", "open", "detaching", "done", "refused"}

Closed(h) == hubPc[h] \in {"closed", "gone"}
\* Between attach and detach.
Held(c) == connPc[c] \in {"attached", "open", "detaching"}

Init ==
    /\ entry = NoEntry /\ made = 0
    /\ hubPc = [h \in Hubs |-> "none"] /\ stop = {} /\ toDisconnect = {} /\ gateway = "up"
    /\ msgs = [h \in Hubs |-> <<>>] /\ conns = [h \in Hubs |-> {}]
    /\ connPc = [c \in Conns |-> "idle"] /\ hubOf = [c \in Conns |-> NoHub]
    /\ reader = [c \in Conns |-> "off"] /\ writer = [c \in Conns |-> "off"]
    /\ connCh = [c \in Conns |-> <<>>] /\ owed = [c \in Conns |-> {}] /\ cancelled = {}
    /\ hungUp = {} /\ quit = {} /\ reported = {}
    /\ published = 0 /\ roomClosed = FALSE /\ owned = TRUE

-----------------------------------------------------------------------------
(* The registry.                                                            *)

\* Owner and IsEvicted, then the upgrade.  The race id is not looked up again.
ServeHTTP(c) ==
    /\ connPc[c] = "idle" /\ owned
    /\ connPc' = [connPc EXCEPT ![c] = "checked"]
    /\ UNCHANGED <<registryVars, hubVars, hubOf, reader, writer, chVars, cancelled, clientVars, roomVars>>

attach(c) ==
    /\ connPc[c] = "checked"
    /\ connPc' = [connPc EXCEPT ![c] = "attached"]
    /\ \/ /\ entry # NoEntry
          /\ entry' = [entry EXCEPT !.refCount = @ + 1]
          /\ hubOf' = [hubOf EXCEPT ![c] = entry.hub]
          /\ UNCHANGED <<made, hubPc>>
       \/ /\ entry = NoEntry
          /\ made' = made + 1
          /\ hubPc' = [hubPc EXCEPT ![made + 1] = "loop"]
          /\ entry' = [hub |-> made + 1, refCount |-> 1]
          /\ hubOf' = [hubOf EXCEPT ![c] = made + 1]
    /\ UNCHANGED <<stop, toDisconnect, gateway, msgs, conns, reader, writer, chVars, cancelled,
                   clientVars, roomVars>>

\* SubscribeOut fails: the socket is closed and nothing has to be undone.
attachFails(c) ==
    /\ connPc[c] = "checked" /\ entry = NoEntry
    /\ connPc' = [connPc EXCEPT ![c] = "refused"]
    /\ UNCHANGED <<registryVars, hubVars, hubOf, reader, writer, chVars, cancelled, clientVars, roomVars>>

\* By race id: whichever hub the entry is for by now.  ServeHTTP returns, and
\* what the connection kept is gone with it.
detach(c) ==
    /\ connPc[c] = "detaching"
    /\ connPc' = [connPc EXCEPT ![c] = "done"]
    /\ \/ entry = NoEntry /\ UNCHANGED <<entry, stop>>
       \/ /\ entry # NoEntry /\ entry.refCount > 1
          /\ entry' = [entry EXCEPT !.refCount = @ - 1]
          /\ UNCHANGED stop
       \/ /\ entry # NoEntry /\ entry.refCount <= 1
          /\ entry' = NoEntry
          /\ stop' = stop \cup {entry.hub}
    /\ hubOf' = [hubOf EXCEPT ![c] = NoHub]
    /\ reader' = [reader EXCEPT ![c] = "off"] /\ writer' = [writer EXCEPT ![c] = "off"]
    /\ connCh' = [connCh EXCEPT ![c] = <<>>] /\ owed' = [owed EXCEPT ![c] = {}]
    /\ cancelled' = cancelled \ {c} /\ hungUp' = hungUp \ {c}
    /\ UNCHANGED <<made, hubPc, toDisconnect, gateway, msgs, conns, quit, reported, roomVars>>

\* Called once, on SIGTERM.
Shutdown ==
    /\ gateway = "up"
    /\ gateway' = "stopping"
    /\ toDisconnect' = IF entry = NoEntry THEN {} ELSE {entry.hub}
    /\ UNCHANGED <<registryVars, hubPc, stop, msgs, conns, connVars, clientVars, roomVars>>

-----------------------------------------------------------------------------
(* raceHub.run.                                                             *)

\* Mutant: run acts on room_closed, but its deferred close(h.closed) is missing.
Returns_NotClosed(h) ==
    /\ hubPc' = [hubPc EXCEPT ![h] = "none"]
    /\ msgs' = [msgs EXCEPT ![h] = <<>>]

\* run returns; what its subscription still holds is never read.
Returns(h) ==
    /\ hubPc' = [hubPc EXCEPT ![h] = "closed"]
    /\ msgs' = [msgs EXCEPT ![h] = <<>>]

\* Mutant: no look at whether the connection's channel is full.
HasRoom_Always(c) == c \in Conns
HasRoom(c) == Len(connCh[c]) < ConnBufferSize

hubReceives(h) ==
    /\ hubPc[h] = "loop" /\ msgs[h] # <<>>
    /\ \/ /\ Head(msgs[h]) # RoomClosedMsg
          /\ connCh' = [c \in Conns |-> IF c \in conns[h] /\ HasRoom(c)
                                        THEN Append(connCh[c], Head(msgs[h])) ELSE connCh[c]]
          /\ owed' = [c \in Conns |-> IF c \in conns[h] /\ ~HasRoom(c)
                                      THEN owed[c] \ {Head(msgs[h])} ELSE owed[c]]
          /\ msgs' = [msgs EXCEPT ![h] = Tail(@)]
          /\ UNCHANGED hubPc
       \/ /\ Head(msgs[h]) = RoomClosedMsg
          /\ Returns(h)
          /\ UNCHANGED <<connCh, owed>>
    /\ UNCHANGED <<registryVars, stop, toDisconnect, gateway, conns, connPc, hubOf, reader, writer,
                   cancelled, clientVars, roomVars>>

hubStops(h) ==
    /\ hubPc[h] = "loop" /\ h \in stop
    /\ Returns(h)
    /\ UNCHANGED <<registryVars, stop, toDisconnect, gateway, conns, connVars, clientVars, roomVars>>

\* Mutant: run takes the shutdown signal and cancels nobody.
disconnectAll_Ignored(h) ==
    /\ h \in toDisconnect
    /\ toDisconnect' = toDisconnect \ {h}
    /\ UNCHANGED <<registryVars, hubPc, stop, gateway, msgs, conns, connVars, clientVars, roomVars>>

\* disconnectAll: a rendezvous with run, or nothing once the hub has closed.
disconnectAll(h) ==
    /\ h \in toDisconnect
    /\ toDisconnect' = toDisconnect \ {h}
    /\ \/ hubPc[h] = "loop" /\ cancelled' = cancelled \cup conns[h]
       \/ Closed(h) /\ UNCHANGED cancelled
    /\ UNCHANGED <<registryVars, hubPc, stop, gateway, msgs, conns, connPc, hubOf, reader, writer,
                   chVars, clientVars, roomVars>>

\* run's other deferred calls: unsubscribe, and onClose, which deletes the race's
\* entry, whichever hub it is for by now.
onClose(h) ==
    /\ hubPc[h] = "closed"
    /\ hubPc' = [hubPc EXCEPT ![h] = "gone"]
    /\ entry' = NoEntry
    /\ UNCHANGED <<made, stop, toDisconnect, gateway, msgs, conns, connVars, clientVars, roomVars>>

-----------------------------------------------------------------------------
(* serveConn.                                                               *)

\* A rendezvous with run, or nothing once the hub has closed; then both loops start.
registerConn(c) ==
    LET h == hubOf[c] IN
    /\ connPc[c] = "attached"
    /\ connPc' = [connPc EXCEPT ![c] = "open"]
    /\ reader' = [reader EXCEPT ![c] = "loop"] /\ writer' = [writer EXCEPT ![c] = "loop"]
    /\ \/ hubPc[h] = "loop" /\ conns' = [conns EXCEPT ![h] = @ \cup {c}]
       \/ Closed(h) /\ UNCHANGED conns
    /\ UNCHANGED <<registryVars, hubPc, stop, toDisconnect, gateway, msgs, hubOf, chVars, cancelled,
                   clientVars, roomVars>>

LoopsDone(c) == reader[c] = "done" /\ writer[c] \in {"done", "drained"}

\* Mutants: unregisterConn gives up on a busy hub; it has no closed-hub case.
unregisterConn_GivesUp(c) ==
    /\ connPc[c] = "open" /\ LoopsDone(c)
    /\ connPc' = [connPc EXCEPT ![c] = "detaching"]
    /\ cancelled' = cancelled \cup {c}
    /\ \/ hubPc[hubOf[c]] = "loop" /\ conns' = [conns EXCEPT ![hubOf[c]] = @ \ {c}]
       \/ UNCHANGED conns
    /\ UNCHANGED <<registryVars, hubPc, stop, toDisconnect, gateway, msgs, hubOf, reader, writer,
                   chVars, clientVars, roomVars>>
unregisterConn_Blocks(c) ==
    /\ connPc[c] = "open" /\ LoopsDone(c) /\ hubPc[hubOf[c]] = "loop"
    /\ connPc' = [connPc EXCEPT ![c] = "detaching"]
    /\ cancelled' = cancelled \cup {c}
    /\ conns' = [conns EXCEPT ![hubOf[c]] = @ \ {c}]
    /\ UNCHANGED <<registryVars, hubPc, stop, toDisconnect, gateway, msgs, hubOf, reader, writer,
                   chVars, clientVars, roomVars>>

\* Both loops have returned: unregister, cancel; detach comes next.
unregisterConn(c) ==
    LET h == hubOf[c] IN
    /\ connPc[c] = "open" /\ LoopsDone(c)
    /\ connPc' = [connPc EXCEPT ![c] = "detaching"]
    /\ cancelled' = cancelled \cup {c}
    /\ \/ hubPc[h] = "loop" /\ conns' = [conns EXCEPT ![h] = @ \ {c}]
       \/ Closed(h) /\ UNCHANGED conns
    /\ UNCHANGED <<registryVars, hubPc, stop, toDisconnect, gateway, msgs, hubOf, reader, writer,
                   chVars, clientVars, roomVars>>

\* Read fails, because the client is gone or connCtx is cancelled.  With the
\* hub closed the disconnect is not reported.
readFails(c) ==
    /\ reader[c] = "loop" /\ c \in hungUp \cup cancelled
    /\ reader' = [reader EXCEPT ![c] = "done"]
    /\ cancelled' = cancelled \cup {c}
    /\ reported' = IF Closed(hubOf[c]) THEN reported ELSE reported \cup {c}
    /\ UNCHANGED <<registryVars, hubVars, connPc, hubOf, writer, chVars, hungUp, quit, roomVars>>

\* The client sends leave_race: it is published and the loop ends.  Every other
\* frame is published and the loop goes on.
readLeaves(c) ==
    /\ reader[c] = "loop" /\ c \notin cancelled
    /\ reader' = [reader EXCEPT ![c] = "done"]
    /\ cancelled' = cancelled \cup {c} /\ quit' = quit \cup {c}
    /\ UNCHANGED <<registryVars, hubVars, connPc, hubOf, writer, chVars, hungUp, reported, roomVars>>

\* The select's message case, and the drain loop's.  A write fails on a cancelled
\* context, and on a client who is gone or too slow.
writeMsg(c) ==
    /\ writer[c] \in {"loop", "draining"} /\ connCh[c] # <<>>
    /\ connCh' = [connCh EXCEPT ![c] = Tail(@)]
    /\ \/ /\ c \notin cancelled
          /\ owed' = [owed EXCEPT ![c] = @ \ {Head(connCh[c])}]
          /\ UNCHANGED <<writer, cancelled>>
       \/ /\ UNCHANGED owed
          /\ writer' = [writer EXCEPT ![c] = "done"]
          /\ cancelled' = cancelled \cup {c}
    /\ UNCHANGED <<registryVars, hubVars, connPc, hubOf, reader, clientVars, roomVars>>

\* Mutant: the writer returns on a closed hub without draining its channel.
writerSeesClosed_NoDrain(c) ==
    /\ writer[c] = "loop" /\ Closed(hubOf[c])
    /\ writer' = [writer EXCEPT ![c] = "drained"]
    /\ cancelled' = cancelled \cup {c}
    /\ UNCHANGED <<registryVars, hubVars, connPc, hubOf, reader, chVars, clientVars, roomVars>>

writerSeesClosed(c) ==
    /\ writer[c] = "loop" /\ Closed(hubOf[c])
    /\ writer' = [writer EXCEPT ![c] = "draining"]
    /\ UNCHANGED <<registryVars, hubVars, connPc, hubOf, reader, chVars, cancelled, clientVars, roomVars>>

writerDrained(c) ==
    /\ writer[c] = "draining" /\ connCh[c] = <<>>
    /\ writer' = [writer EXCEPT ![c] = "drained"]
    /\ cancelled' = cancelled \cup {c}
    /\ UNCHANGED <<registryVars, hubVars, connPc, hubOf, reader, chVars, clientVars, roomVars>>

writerSeesCancel(c) ==
    /\ writer[c] = "loop" /\ c \in cancelled
    /\ writer' = [writer EXCEPT ![c] = "done"]
    /\ UNCHANGED <<registryVars, hubVars, connPc, hubOf, reader, chVars, cancelled, clientVars, roomVars>>

-----------------------------------------------------------------------------
(* Clients and the room.                                                    *)

\* Noticed by Read only, so a client who goes earlier counts as going then.
HangUp(c) ==
    /\ reader[c] = "loop" /\ c \notin hungUp
    /\ hungUp' = hungUp \cup {c}
    /\ UNCHANGED <<registryVars, hubVars, connVars, quit, reported, roomVars>>

Deliver(m) == msgs' = [h \in Hubs |-> IF hubPc[h] = "loop" THEN Append(msgs[h], m) ELSE msgs[h]]

PublishOut ==
    /\ ~roomClosed /\ published < MaxBroadcasts
    /\ published' = published + 1
    /\ Deliver(published + 1)
    /\ owed' = [c \in Conns |-> IF \E h \in Hubs : hubPc[h] = "loop" /\ c \in conns[h]
                                THEN owed[c] \cup {published + 1} ELSE owed[c]]
    /\ UNCHANGED <<registryVars, hubPc, stop, toDisconnect, gateway, conns, connPc, hubOf, reader,
                   writer, connCh, cancelled, clientVars, roomClosed, owned>>

PublishRoomClosed ==
    /\ ~roomClosed
    /\ roomClosed' = TRUE
    /\ Deliver(RoomClosedMsg)
    /\ UNCHANGED <<registryVars, hubPc, stop, toDisconnect, gateway, conns, connVars, clientVars,
                   published, owned>>

\* cleanupWhenDone's Release and drainBroadcast's room_closed come in any order.
Release ==
    /\ owned
    /\ owned' = FALSE
    /\ UNCHANGED <<registryVars, hubVars, connVars, clientVars, published, roomClosed>>

-----------------------------------------------------------------------------
(* The process.                                                             *)

\* hubs.Shutdown has returned.  httpSrv.Shutdown waits for requests in flight but
\* not for hijacked connections, which all of these are, and main returns.
Exit ==
    /\ gateway = "stopping" /\ toDisconnect = {}
    /\ gateway' = "exited"
    /\ UNCHANGED <<registryVars, hubPc, stop, toDisconnect, msgs, conns, connVars, clientVars, roomVars>>

Alive == gateway # "exited"

run(h) == Alive /\ (hubReceives(h) \/ hubStops(h) \/ onClose(h))
shutdownLoop(h) == Alive /\ disconnectAll(h)
serveConn(c) == Alive /\ (attach(c) \/ registerConn(c) \/ unregisterConn(c) \/ detach(c))
readLoop(c) == Alive /\ readFails(c)
writeLoop(c) ==
    Alive /\ (writeMsg(c) \/ writerSeesClosed(c) \/ writerDrained(c) \/ writerSeesCancel(c))

\* What clients and the room do ends with the gateway too: nothing here hears of it.
Next ==
    \/ \E h \in Hubs : run(h) \/ shutdownLoop(h)
    \/ \E c \in Conns : serveConn(c) \/ readLoop(c) \/ writeLoop(c)
    \/ /\ Alive
       /\ \/ \E c \in Conns : readLeaves(c) \/ ServeHTTP(c) \/ attachFails(c) \/ HangUp(c)
          \/ Shutdown \/ PublishOut \/ PublishRoomClosed \/ Release
    \/ Exit

Spec == Init /\ [][Next]_vars

(* Fairness: every goroutine that can take a step takes one, and each       *)
(* blocking call of serveConn has a case that stays ready.  Clients and the *)
(* room owe nothing.                                                        *)
Fairness ==
    /\ \A h \in Hubs : WF_vars(run(h)) /\ WF_vars(shutdownLoop(h))
    /\ \A c \in Conns : WF_vars(serveConn(c)) /\ WF_vars(readLoop(c)) /\ WF_vars(writeLoop(c))

FairSpec == Spec /\ Fairness

-----------------------------------------------------------------------------
(* Safety.                                                                  *)

\* Every variable has its type; a connection's channel keeps to its capacity,
\* and no more hubs are made than connections attach.
TypeOK ==
    /\ entry = NoEntry \/ (entry.hub \in 1..made /\ entry.refCount \in Nat \ {0})
    /\ made \in 0..Cardinality(Conns)
    /\ hubPc \in [Hubs -> HubPc] /\ stop \subseteq Hubs /\ toDisconnect \subseteq Hubs
    /\ gateway \in {"up", "stopping", "exited"}
    /\ msgs \in [Hubs -> Seq(Broadcasts \cup {RoomClosedMsg})]
    /\ conns \in [Hubs -> SUBSET Conns]
    /\ connPc \in [Conns -> ConnPc] /\ hubOf \in [Conns -> Hubs \cup {NoHub}]
    /\ reader \in [Conns -> {"off", "loop", "done"}]
    /\ writer \in [Conns -> {"off", "loop", "draining", "drained", "done"}]
    /\ connCh \in [Conns -> Seq(Broadcasts)] /\ \A c \in Conns : Len(connCh[c]) <= ConnBufferSize
    /\ owed \in [Conns -> SUBSET Broadcasts]
    /\ cancelled \subseteq Conns /\ hungUp \subseteq Conns /\ quit \subseteq Conns
    /\ reported \subseteq Conns
    /\ published \in 0..MaxBroadcasts /\ roomClosed \in BOOLEAN /\ owned \in BOOLEAN

\* When a writer ends because its hub has closed, every broadcast the room
\* published while the connection was registered has been written to it, or was
\* dropped because its channel was full: closing the hub loses nothing
\* (endpoint.go:322-329).  A hub stopped by a detach owes its connections nothing.
FinalBroadcastDelivered ==
    \A c \in Conns : writer[c] = "drained" /\ hubOf[c] \notin stop => owed[c] = {}

\* A connection that has unregistered is in no live hub's set, so no hub keeps
\* fanning out to, counting, or at Shutdown cancelling, a connection that has
\* ended, whether its hub was closing or not when it left.
NoGhostConnections ==
    \A c \in Conns, h \in Hubs :
        connPc[c] \in {"detaching", "done"} /\ hubPc[h] = "loop" => c \notin conns[h]

-----------------------------------------------------------------------------
(* Liveness.                                                                *)

\* Once its client is gone, ServeHTTP returns: neither registerConn nor
\* unregisterConn blocks on a hub that has closed meanwhile
\* (racehub.go:165-184), and both loops end each other.
ConnectionsEnd == \A c \in Conns : c \in hungUp ~> connPc[c] = "done" \/ ~Alive

\* Shutdown ends every connection registered with a hub it still has to signal,
\* even if the hub closes first (racehub.go:307-314).
ShutdownDisconnects ==
    \A c \in Conns : (\E h \in toDisconnect : c \in conns[h]) ~> connPc[c] = "done" \/ ~Alive

\* A room_closed delivered to a hub ends every connection open on it.
RoomClosedEndsHub ==
    \A c \in Conns :
        connPc[c] = "open" /\ RoomClosedMsg \in ToSet(msgs[hubOf[c]]) ~> connPc[c] = "done" \/ ~Alive

-----------------------------------------------------------------------------
(* What the repository says of the gateway and the code does not keep.      *)

\* A connection that ends while its race goes on is reported as disconnected,
\* unless the player quit: a closed hub means the room has closed
\* (endpoint.go:213-220), no hub is torn down while in use, and the process does not
\* exit before the connections it has cancelled have ended (racehub.go:186-193).
DisconnectReported ==
    \A c \in Conns :
        (connPc[c] = "done" \/ (~Alive /\ c \in cancelled)) /\ ~roomClosed /\ c \notin quit
            => c \in reported
=============================================================================
