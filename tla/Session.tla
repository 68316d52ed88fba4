------------------------------- MODULE Session -------------------------------
(***************************************************************************)
(* A player's connections and the room they reach: ws-gateway's handshake  *)
(* and readLoop (wsgateway/endpoint.go), the race's inbound NATS subject   *)
(* (roomrelay/bus.go, roombus/adapter.go) and feedInbox (room/registry.go) *)
(* in front of the room actor, whose steps are those of module RoomActor.  *)
(* Where RoomActor takes joins, telemetry and connection losses from a     *)
(* free environment, here each comes from a connection, in the order its   *)
(* reader published it.                                                    *)
(*                                                                         *)
(* The subject is one queue: NATS keeps the order of one publisher, and    *)
(* publishers of other gateways interleave.  A connection's hub may close  *)
(* at any time, under a running room too, and its gateway may exit: how    *)
(* that comes about is in module RaceHub.  Registry.Remove has no caller   *)
(* in the program.                                                         *)
(***************************************************************************)
EXTENDS RoomActor

CONSTANTS
    Conns,               \* the WebSocket connections that may be opened
    UserOf,              \* the player whose session token each one carries
    SubscriptionBuffer   \* messages the subscription buffers (64 in the code)

ASSUME ConnsAssumption == UserOf \in [Conns -> Users]
ASSUME BufferAssumption == SubscriptionBuffer \in Nat \ {0}

VARIABLES
    conn,      \* where each connection stands
    wire,      \* room.{race_id}.in: published, not yet handed to the room
    unheard    \* players of whom a message was lost, or a connection's end not told

sessionVars == <<conn, wire, unheard>>
allVars == <<vars, sessionVars>>

\* none, open, joined, lost (the socket is gone and readLoop has yet to publish
\* the disconnect), closed.
Live(c) == conn[c] \in {"open", "joined"}

SessionInit ==
    /\ Init
    /\ conn = [c \in Conns |-> "none"] /\ wire = <<>> /\ unheard = {}

-----------------------------------------------------------------------------
RoomStands ==
    UNCHANGED <<actorVars, closingVars, timerVars, storeVars, starter, joining, running, inbox>>

\* The NATS client drops what arrives while the subscription's channel is full;
\* the publisher is not told.
Publish(u, ev) ==
    \/ Len(wire) < SubscriptionBuffer /\ wire' = Append(wire, ev) /\ UNCHANGED unheard
    \/ Len(wire) = SubscriptionBuffer /\ unheard' = unheard \cup {u} /\ UNCHANGED wire

\* The token is the player's; the race must have an owner, and the player must
\* not be in the evicted set.  The set is read here and never again.
Handshake(c) ==
    /\ conn[c] = "none" /\ running /\ UserOf[c] \notin evictedKey
    /\ conn' = [conn EXCEPT ![c] = "open"]
    /\ RoomStands /\ UNCHANGED <<wire, unheard, joins, drops>>

\* A publish that fails is logged and the loop reads on, as if nothing was sent.
SendJoin(c) ==
    /\ Live(c) /\ joins < MaxJoins
    /\ joins' = joins + 1
    /\ Publish(UserOf[c], ParticipantJoined(UserOf[c]))
    /\ conn' = [conn EXCEPT ![c] = "joined"]
    /\ RoomStands /\ UNCHANGED drops

SendTelemetry(c) ==
    /\ Live(c)
    /\ \E s \in 1..MaxSeq, w \in 0..DistanceMeters :
            Publish(UserOf[c], TelemetryReceived(UserOf[c], s, w))
    /\ RoomStands /\ UNCHANGED <<conn, joins, drops>>

\* readLoop returns after leave_race, without a disconnect.
SendLeave(c) ==
    /\ Live(c)
    /\ Publish(UserOf[c], ParticipantLeft(UserOf[c]))
    /\ conn' = [conn EXCEPT ![c] = "closed"]
    /\ RoomStands /\ UNCHANGED <<joins, drops>>

HangUp(c) ==
    /\ Live(c)
    /\ conn' = [conn EXCEPT ![c] = "lost"]
    /\ RoomStands /\ UNCHANGED <<wire, unheard, joins, drops>>

\* Mutant: the connection's own context, cancelled by now, is used to publish.
Report_OwnContext(c) ==
    /\ conn[c] = "lost"
    /\ conn' = [conn EXCEPT ![c] = "closed"]
    /\ RoomStands /\ UNCHANGED <<wire, unheard, joins, drops>>

\* Read has failed: the disconnect is published once, and a failure is logged.
Report(c) ==
    /\ conn[c] = "lost" /\ drops < MaxDrops
    /\ conn' = [conn EXCEPT ![c] = "closed"]
    /\ drops' = drops + 1
    /\ \/ Publish(UserOf[c], ParticipantDisconnected(UserOf[c], drops + 1))
       \/ unheard' = unheard \cup {UserOf[c]} /\ UNCHANGED wire
    /\ RoomStands /\ UNCHANGED joins

\* The hub has closed, on room_closed or under a running room, or the gateway is
\* gone: the reader ends and reports nothing.
HubClosed(c) ==
    /\ conn[c] \in {"open", "joined", "lost"}
    /\ conn' = [conn EXCEPT ![c] = "closed"]
    /\ unheard' = IF conn[c] = "open" THEN unheard ELSE unheard \cup {UserOf[c]}
    /\ RoomStands /\ UNCHANGED <<wire, joins, drops>>

\* One event after another; the next waits while Send blocks.
feedInbox ==
    /\ wire # <<>>
    /\ Send(Head(wire)) /\ wire' = Tail(wire)
    /\ UNCHANGED <<actorVars, closingVars, timerVars, storeVars, envVars, running, conn, unheard>>

-----------------------------------------------------------------------------
Player(c) ==
    Handshake(c) \/ SendJoin(c) \/ SendTelemetry(c) \/ SendLeave(c) \/ HangUp(c)

RoomSteps == (applyEvent \/ RunReturns \/ Timers \/ StartRequests) /\ UNCHANGED sessionVars

SessionNext ==
    \/ \E c \in Conns : Player(c) \/ Report(c) \/ HubClosed(c)
    \/ feedInbox
    \/ RoomSteps

SessionSpec == SessionInit /\ [][SessionNext]_allVars

-----------------------------------------------------------------------------
OnTheWay(u, types) ==
    \E e \in Range(wire) \cup Range(inbox) : e.type \in types /\ e.user = u

\* Nobody holds a seat without a connection behind it: a player the room takes
\* for connected has a joined connection, or one whose loss is still to be
\* reported, or the news is on its way - however many connections the player
\* opens, drops and leaves, unless a message of theirs was lost or the hub or
\* the gateway of a joined connection went down under it.  Otherwise readLoop
\* publishes exactly one farewell per connection, with a context of its own
\* (endpoint.go:227-249, 278-284).
SeatHasConnection ==
    ~ctxDone => \A u \in DOMAIN participants \ unheard :
        \/ participants[u].disconnected
        \/ \E c \in Conns : UserOf[c] = u /\ conn[c] \in {"joined", "lost"}
        \/ OnTheWay(u, {"disconnected", "left"})

\* An eviction never removes a player who has come back: one with an open
\* connection whose join the room has applied (room.go:31-33).  TLC refutes it.
ConnectedNotEvicted ==
    [][\A u \in Users :
            ~ctxDone /\ applyEvicted /\ u \in DOMAIN participants \ DOMAIN participants' =>
                \A c \in Conns : UserOf[c] = u /\ conn[c] = "joined" => OnTheWay(u, {"joined"})]_allVars
=============================================================================
