---------------------------- MODULE RaceHub_proofs ----------------------------
(***************************************************************************)
(* Theorems about RaceHub: no hub keeps a connection that has left it, and *)
(* a closing hub loses no broadcast, for any number of connections and     *)
(* broadcasts and any channel capacity.                                    *)
(***************************************************************************)
EXTENDS RaceHub, FiniteSetTheorems, TLAPS

EntryType == entry \in [hub : Nat, refCount : Nat]

\* Connections that attach has counted, those that have ended since included.
Attached == {c \in Conns : connPc[c] \in {"attached", "open", "detaching", "done"}}

\* A hub exists from attach on, and no connection makes two.
HubsMade ==
    /\ made <= Cardinality(Attached)
    /\ \A h \in Hubs : h > made => hubPc[h] = "none" /\ conns[h] = {} /\ msgs[h] = <<>>

\* A running hub's set holds open connections of its own.
ConnsHome ==
    \A h \in Hubs : hubPc[h] = "loop" => \A c \in conns[h] : hubOf[c] = h /\ connPc[c] = "open"

\* A connection between attach and detach has a hub.
HasHub == \A c \in Conns : Held(c) => hubOf[c] \in Hubs

\* A writer runs while its connection is open; it drains its channel only when its hub
\* has closed, and until the channel is empty.
WritersOK ==
    \A c \in Conns :
        /\ writer[c] # "off" => connPc[c] \in {"open", "detaching"}
        /\ writer[c] \in {"draining", "drained"} => Closed(hubOf[c])
        /\ writer[c] = "drained" => connCh[c] = <<>>

\* room_closed is the last message of any subscription.
ClosedIsLast ==
    \A h \in Hubs : \A i \in DOMAIN msgs[h] :
        msgs[h][i] = RoomClosedMsg => i = Len(msgs[h]) /\ roomClosed

\* Broadcasts on their way to a connection: in its channel, or waiting for the hub that
\* has it.
Coming(c, m) ==
    \/ m \in ToSet(connCh[c])
    \/ \E h \in Hubs : hubPc[h] = "loop" /\ c \in conns[h] /\ m \in ToSet(msgs[h])

\* Nothing is owed to a connection that has not registered or has ended.
OwedOpen == \A c \in Conns : owed[c] # {} => connPc[c] \in {"open", "detaching"}

\* What a connection is owed is on its way, unless its writer has given up or its hub
\* was stopped.
OwedComing ==
    \A c \in Conns : writer[c] # "done" /\ hubOf[c] \notin stop => \A m \in owed[c] : Coming(c, m)

Inv ==
    /\ TypeOK /\ EntryType /\ HubsMade /\ HasHub /\ ConnsHome /\ WritersOK /\ ClosedIsLast
    /\ OwedOpen /\ OwedComing

-----------------------------------------------------------------------------
(* Types.                                                                   *)

\* Room for another hub: a connection about to attach has not been counted.
LEMMA RoomForHub ==
    ASSUME TypeOK, HubsMade, NEW c \in Conns, connPc[c] = "checked"
    PROVE  /\ made + 1 \in Hubs /\ made + 1 \in 1..Cardinality(Conns)
           /\ \A pc : pc = [connPc EXCEPT ![c] = "attached"] =>
                made + 1 <= Cardinality({x \in Conns : pc[x] \in {"attached", "open", "detaching", "done"}})
<1>1. Cardinality(Conns) \in Nat /\ made \in Nat /\ connPc \in [Conns -> ConnPc]
  BY ConnsAssumption, FS_CardinalityType DEF TypeOK
<1>2. Attached \subseteq Conns /\ c \notin Attached
  BY DEF Attached
<1>3. IsFiniteSet(Attached) /\ Cardinality(Attached) \in Nat
  BY <1>2, ConnsAssumption, FS_Subset, FS_CardinalityType
<1>4. Cardinality(Attached \cup {c}) = Cardinality(Attached) + 1 /\ IsFiniteSet(Attached \cup {c})
  BY <1>2, <1>3, FS_AddElement
<1>5. Cardinality(Attached \cup {c}) <= Cardinality(Conns)
  BY <1>2, ConnsAssumption, FS_Subset
<1>6. made + 1 <= Cardinality(Attached) + 1
  BY <1>1, <1>3 DEF HubsMade
<1>7. made + 1 \in 1..Cardinality(Conns)
  BY <1>1, <1>3, <1>4, <1>5, <1>6
<1>8. ASSUME NEW pc, pc = [connPc EXCEPT ![c] = "attached"]
      PROVE  {x \in Conns : pc[x] \in {"attached", "open", "detaching", "done"}} = Attached \cup {c}
  BY <1>1, <1>8 DEF Attached
<1> QED
  BY <1>4, <1>6, <1>7, <1>8 DEF Hubs

\* The registry's entry is for a hub that exists.
LEMMA EntryHub ==
    ASSUME TypeOK, EntryType, entry # NoEntry
    PROVE  /\ entry.hub \in Hubs /\ entry.hub \in 1..made /\ entry.refCount \in Nat \ {0}
<1>1. Cardinality(Conns) \in Nat
  BY ConnsAssumption, FS_CardinalityType
<1>2. entry.hub \in 1..made /\ entry.refCount \in Nat \ {0} /\ made \in 0..Cardinality(Conns)
  BY DEF TypeOK
<1> QED
  BY <1>1, <1>2 DEF Hubs

\* The steps, apart from whose goroutine takes them.
LEMMA StepCases ==
    ASSUME [Next]_vars
    PROVE  \/ \E h \in Hubs : hubReceives(h) \/ hubStops(h) \/ onClose(h) \/ disconnectAll(h)
           \/ \E c \in Conns : \/ ServeHTTP(c) \/ attach(c) \/ attachFails(c) \/ registerConn(c)
                               \/ unregisterConn(c) \/ detach(c) \/ HangUp(c) \/ readFails(c) \/ readLeaves(c)
                               \/ writeMsg(c) \/ writerSeesClosed(c) \/ writerDrained(c) \/ writerSeesCancel(c)
           \/ Shutdown \/ PublishOut \/ PublishRoomClosed \/ Release \/ Exit \/ UNCHANGED vars
BY DEF Next, run, shutdownLoop, serveConn, readLoop, writeLoop

\* What every step keeps of the registry's variables.
RegistryType ==
    /\ entry = NoEntry \/ (entry.hub \in 1..made /\ entry.refCount \in Nat \ {0})
    /\ made \in 0..Cardinality(Conns) /\ EntryType

\* Counting a connection in or out keeps the entry for a hub that exists.
LEMMA NextRegistry ==
    ASSUME Inv, [Next]_vars
    PROVE  RegistryType'
<1>0. TypeOK /\ EntryType /\ HubsMade
  BY DEF Inv
<1>1. Cardinality(Conns) \in Nat /\ made \in Nat
  BY <1>0, ConnsAssumption, FS_CardinalityType DEF TypeOK
<1>2. NoEntry \in [hub : Nat, refCount : Nat]
  BY DEF NoEntry, NoHub
<1>3. CASE UNCHANGED registryVars
  BY <1>0, <1>3 DEF registryVars, RegistryType, TypeOK, EntryType
<1>4. CASE entry' = NoEntry /\ made' = made
  BY <1>0, <1>2, <1>4 DEF RegistryType, TypeOK, EntryType
<1>5. ASSUME NEW c \in Conns, attach(c) PROVE RegistryType'
  <2>1. connPc[c] = "checked"
    BY <1>5 DEF attach
  <2>2. CASE entry # NoEntry
    <3>1. entry' = [entry EXCEPT !.refCount = @ + 1] /\ made' = made
      BY <1>5, <2>2 DEF attach
    <3>2. entry.hub \in 1..made /\ entry.refCount \in Nat \ {0}
      BY <1>0, <2>2, EntryHub
    <3>3. /\ entry'.hub = entry.hub /\ entry'.refCount = entry.refCount + 1
          /\ entry' \in [hub : Nat, refCount : Nat]
      BY <1>0, <3>1, <3>2 DEF EntryType
    <3> QED
      BY <1>0, <3>1, <3>2, <3>3 DEF RegistryType, EntryType, TypeOK
  <2>3. CASE entry = NoEntry
    <3>1. entry' = [hub |-> made + 1, refCount |-> 1] /\ made' = made + 1
      BY <1>5, <2>3 DEF attach
    <3>2. made + 1 \in 1..Cardinality(Conns)
      BY <1>0, <2>1, RoomForHub
    <3>3. entry'.hub = made + 1 /\ entry'.refCount = 1 /\ entry' \in [hub : Nat, refCount : Nat]
      BY <1>1, <3>1
    <3> QED
      BY <1>1, <3>1, <3>2, <3>3 DEF RegistryType, EntryType
  <2> QED
    BY <2>2, <2>3
<1>6. ASSUME NEW c \in Conns, detach(c) PROVE RegistryType'
  <2>1. CASE entry # NoEntry /\ entry.refCount > 1 /\ entry' = [entry EXCEPT !.refCount = @ - 1]
    <3>1. entry.hub \in 1..made /\ entry.refCount \in Nat \ {0} /\ made' = made
      BY <1>0, <1>6, <2>1, EntryHub DEF detach
    <3>2. /\ entry'.hub = entry.hub /\ entry'.refCount = entry.refCount - 1
          /\ entry.refCount - 1 \in Nat \ {0} /\ entry' \in [hub : Nat, refCount : Nat]
      BY <1>0, <2>1, <3>1 DEF EntryType
    <3> QED
      BY <1>0, <3>1, <3>2 DEF RegistryType, EntryType, TypeOK
  <2> QED
    BY <1>3, <1>4, <1>6, <2>1 DEF detach, registryVars
<1>7. ASSUME NEW h \in Hubs, hubReceives(h) \/ hubStops(h) \/ onClose(h) \/ disconnectAll(h)
      PROVE  RegistryType'
  BY <1>3, <1>4, <1>7 DEF hubReceives, hubStops, onClose, disconnectAll
<1>8. ASSUME NEW c \in Conns, \/ ServeHTTP(c) \/ attachFails(c) \/ registerConn(c) \/ unregisterConn(c) \/ HangUp(c)
                              \/ readFails(c) \/ readLeaves(c) \/ writeMsg(c) \/ writerSeesClosed(c)
                              \/ writerDrained(c) \/ writerSeesCancel(c)
      PROVE  RegistryType'
  BY <1>3, <1>8
  DEF ServeHTTP, attachFails, registerConn, unregisterConn, HangUp, readFails, readLeaves, writeMsg,
      writerSeesClosed, writerDrained, writerSeesCancel
<1>9. CASE Shutdown \/ PublishOut \/ PublishRoomClosed \/ Release \/ Exit \/ UNCHANGED vars
  BY <1>3, <1>9 DEF Shutdown, PublishOut, PublishRoomClosed, Release, Exit, vars
<1> QED
  BY <1>5, <1>6, <1>7, <1>8, <1>9, StepCases

\* The hubs and the process.
HubType ==
    /\ hubPc \in [Hubs -> HubPc] /\ stop \subseteq Hubs /\ toDisconnect \subseteq Hubs
    /\ gateway \in {"up", "stopping", "exited"}
    /\ msgs \in [Hubs -> Seq(Broadcasts \cup {RoomClosedMsg})]
    /\ conns \in [Hubs -> SUBSET Conns]

\* Only a hub made before receives, closes or is stopped.
LEMMA NextHubType ==
    ASSUME Inv, [Next]_vars
    PROVE  HubType'
<1> DEFINE M == Broadcasts \cup {RoomClosedMsg}
<1>0. TypeOK /\ EntryType /\ HubsMade /\ HubType
  BY DEF Inv, TypeOK, HubType
<1>1. /\ \A h \in Hubs : msgs[h] \in Seq(M)
      /\ <<>> \in Seq(M)
      /\ \A q \in Seq(M) : (\A m \in M : Append(q, m) \in Seq(M)) /\ (q # <<>> => Tail(q) \in Seq(M))
  BY <1>0 DEF HubType
<1>2. CASE UNCHANGED hubVars
  BY <1>0, <1>2 DEF HubType, hubVars
<1>3. ASSUME NEW h \in Hubs, hubReceives(h) \/ hubStops(h) PROVE HubType'
  <2>1. UNCHANGED <<stop, toDisconnect, gateway, conns>>
    BY <1>3 DEF hubReceives, hubStops
  <2>2. hubPc' = hubPc \/ hubPc' = [hubPc EXCEPT ![h] = "closed"]
    BY <1>3 DEF hubReceives, hubStops, Returns
  <2>3. msgs' = [msgs EXCEPT ![h] = <<>>] \/ (msgs[h] # <<>> /\ msgs' = [msgs EXCEPT ![h] = Tail(@)])
    BY <1>3 DEF hubReceives, hubStops, Returns
  <2>4. hubPc' \in [Hubs -> HubPc]
    BY <1>0, <2>2 DEF HubType, HubPc
  <2>5. msgs' \in [Hubs -> Seq(M)]
    <3>1. msgs \in [Hubs -> Seq(M)]
      BY <1>0 DEF HubType
    <3> HIDE DEF M
    <3>2. PICK q \in Seq(M) : msgs' = [msgs EXCEPT ![h] = q]
      BY <1>1, <2>3
    <3> QED
      BY <3>1, <3>2
  <2> QED
    BY <1>0, <2>1, <2>4, <2>5 DEF HubType
<1>4. ASSUME NEW h \in Hubs, onClose(h) PROVE HubType'
  <2>1. UNCHANGED <<stop, toDisconnect, gateway, msgs, conns>> /\ hubPc' = [hubPc EXCEPT ![h] = "gone"]
    BY <1>4 DEF onClose
  <2> QED
    BY <1>0, <2>1 DEF HubType, HubPc
<1>5. ASSUME NEW h \in Hubs, disconnectAll(h) PROVE HubType'
  <2>1. UNCHANGED <<hubPc, stop, gateway, msgs, conns>> /\ toDisconnect' \subseteq toDisconnect
    BY <1>5 DEF disconnectAll
  <2> QED
    BY <1>0, <2>1 DEF HubType
<1>6. ASSUME NEW c \in Conns, attach(c) PROVE HubType'
  <2>1. UNCHANGED <<stop, toDisconnect, gateway, msgs, conns>>
    BY <1>6 DEF attach
  <2>2. hubPc' = hubPc \/ hubPc' = [hubPc EXCEPT ![made + 1] = "loop"]
    BY <1>6 DEF attach
  <2> QED
    BY <1>0, <2>1, <2>2 DEF HubType, HubPc
<1>7. ASSUME NEW c \in Conns, detach(c) PROVE HubType'
  <2>1. UNCHANGED <<hubPc, toDisconnect, gateway, msgs, conns>>
    BY <1>7 DEF detach
  <2>2. stop' = stop \/ (entry # NoEntry /\ stop' = stop \cup {entry.hub})
    BY <1>7 DEF detach
  <2> QED
    BY <1>0, <2>1, <2>2, EntryHub DEF HubType
<1>8. ASSUME NEW c \in Conns, registerConn(c) \/ unregisterConn(c) PROVE HubType'
  <2>1. UNCHANGED <<hubPc, stop, toDisconnect, gateway, msgs>>
    BY <1>8 DEF registerConn, unregisterConn
  <2>2. conns' \in [Hubs -> SUBSET Conns]
    <3> DEFINE h == hubOf[c]
    <3>1. \/ conns' = conns
          \/ conns' = [conns EXCEPT ![h] = @ \cup {c}]
          \/ conns' = [conns EXCEPT ![h] = @ \ {c}]
      BY <1>8 DEF registerConn, unregisterConn
    <3>2. conns \in [Hubs -> SUBSET Conns]
      BY <1>0 DEF HubType
    <3> HIDE DEF h
    <3> QED
      BY <3>1, <3>2
  <2> QED
    BY <1>0, <2>1, <2>2 DEF HubType
<1>9. CASE Shutdown
  <2>1. UNCHANGED <<hubPc, stop, msgs, conns>> /\ gateway' = "stopping"
    BY <1>9 DEF Shutdown
  <2>2. toDisconnect' \subseteq Hubs
    BY <1>0, <1>9, EntryHub DEF Shutdown
  <2> QED
    BY <1>0, <2>1, <2>2 DEF HubType
<1>10. CASE Exit
  BY <1>0, <1>10 DEF Exit, HubType
<1>11. CASE PublishOut \/ PublishRoomClosed
  <2>1. UNCHANGED <<hubPc, stop, toDisconnect, gateway, conns>>
    BY <1>11 DEF PublishOut, PublishRoomClosed
  <2>2. published \in 0..MaxBroadcasts
    BY <1>0 DEF TypeOK
  <2>3. PICK m \in M : Deliver(m)
    <3>1. CASE PublishOut
      <4>1. published + 1 \in Broadcasts /\ Deliver(published + 1)
        BY <2>2, <3>1, BroadcastsAssumption DEF PublishOut, Broadcasts
      <4> QED
        BY <4>1
    <3>2. CASE PublishRoomClosed
      BY <3>2 DEF PublishRoomClosed
    <3> QED
      BY <1>11, <3>1, <3>2
  <2>4. msgs' \in [Hubs -> Seq(M)]
    <3> HIDE DEF M
    <3> QED
      BY <1>1, <2>3 DEF Deliver
  <2> QED
    BY <1>0, <2>1, <2>4 DEF HubType
<1>12. ASSUME NEW c \in Conns, \/ ServeHTTP(c) \/ attachFails(c) \/ HangUp(c) \/ readFails(c) \/ readLeaves(c)
                               \/ writeMsg(c) \/ writerSeesClosed(c) \/ writerDrained(c) \/ writerSeesCancel(c)
       PROVE  UNCHANGED hubVars
  BY <1>12
  DEF ServeHTTP, attachFails, HangUp, readFails, readLeaves, writeMsg, writerSeesClosed, writerDrained, writerSeesCancel
<1>13. CASE Release \/ UNCHANGED vars
  BY <1>2, <1>13 DEF Release, vars
<1> QED
  BY <1>2, <1>3, <1>4, <1>5, <1>6, <1>7, <1>8, <1>9, <1>10, <1>11, <1>12, <1>13, StepCases

\* The connections' goroutines and the clients.
ConnType ==
    /\ connPc \in [Conns -> ConnPc] /\ hubOf \in [Conns -> Hubs \cup {NoHub}]
    /\ reader \in [Conns -> {"off", "loop", "done"}]
    /\ writer \in [Conns -> {"off", "loop", "draining", "drained", "done"}]
    /\ cancelled \subseteq Conns /\ hungUp \subseteq Conns /\ quit \subseteq Conns
    /\ reported \subseteq Conns

\* A connection's goroutines move through their phases only.
LEMMA NextConnType ==
    ASSUME Inv, [Next]_vars
    PROVE  ConnType'
<1>0. TypeOK /\ EntryType /\ HubsMade /\ ConnType
  BY DEF Inv, TypeOK, ConnType
<1>1. ASSUME UNCHANGED <<connPc, hubOf, reader, writer, clientVars>>, cancelled' \subseteq Conns
      PROVE  ConnType'
  BY <1>0, <1>1 DEF ConnType, clientVars
<1>2. ASSUME NEW h \in Hubs, hubReceives(h) \/ hubStops(h) \/ onClose(h) PROVE ConnType'
  BY <1>0, <1>1, <1>2 DEF hubReceives, hubStops, onClose, connVars, ConnType
<1>3. ASSUME NEW h \in Hubs, disconnectAll(h) PROVE ConnType'
  <2>1. UNCHANGED <<connPc, hubOf, reader, writer, clientVars>>
    BY <1>3 DEF disconnectAll
  <2>2. cancelled' = cancelled \/ cancelled' = cancelled \cup conns[h]
    BY <1>3 DEF disconnectAll
  <2> QED
    BY <1>0, <1>1, <2>1, <2>2 DEF TypeOK
<1>4. ASSUME NEW c \in Conns, ServeHTTP(c) \/ attachFails(c) PROVE ConnType'
  <2>1. UNCHANGED <<hubOf, reader, writer, cancelled, clientVars>>
    BY <1>4 DEF ServeHTTP, attachFails
  <2>2. connPc' \in [Conns -> ConnPc]
    BY <1>0, <1>4 DEF ServeHTTP, attachFails, ConnType, ConnPc
  <2> QED
    BY <1>0, <2>1, <2>2 DEF ConnType, clientVars
<1>5. ASSUME NEW c \in Conns, attach(c) PROVE ConnType'
  <2>1. UNCHANGED <<reader, writer, cancelled, clientVars>>
    BY <1>5 DEF attach
  <2>2. connPc' \in [Conns -> ConnPc]
    BY <1>0, <1>5 DEF attach, ConnType, ConnPc
  <2>3. PICK h \in Hubs : hubOf' = [hubOf EXCEPT ![c] = h]
    BY <1>0, <1>5, EntryHub, RoomForHub DEF attach
  <2>4. hubOf' \in [Conns -> Hubs \cup {NoHub}]
    BY <1>0, <2>3 DEF ConnType
  <2> QED
    BY <1>0, <2>1, <2>2, <2>4 DEF ConnType, clientVars
<1>6. ASSUME NEW c \in Conns, registerConn(c) PROVE ConnType'
  <2>1. UNCHANGED <<hubOf, cancelled, clientVars>>
    BY <1>6 DEF registerConn
  <2>2. /\ connPc' = [connPc EXCEPT ![c] = "open"] /\ reader' = [reader EXCEPT ![c] = "loop"]
        /\ writer' = [writer EXCEPT ![c] = "loop"]
    BY <1>6 DEF registerConn
  <2> QED
    BY <1>0, <2>1, <2>2 DEF ConnType, ConnPc, clientVars
<1>7. ASSUME NEW c \in Conns, unregisterConn(c) PROVE ConnType'
  <2>1. UNCHANGED <<hubOf, reader, writer, clientVars>>
    BY <1>7 DEF unregisterConn
  <2>2. connPc' = [connPc EXCEPT ![c] = "detaching"] /\ cancelled' = cancelled \cup {c}
    BY <1>7 DEF unregisterConn
  <2> QED
    BY <1>0, <2>1, <2>2 DEF ConnType, ConnPc, clientVars
<1>8. ASSUME NEW c \in Conns, detach(c) PROVE ConnType'
  <2>1. /\ connPc' = [connPc EXCEPT ![c] = "done"] /\ hubOf' = [hubOf EXCEPT ![c] = NoHub]
        /\ reader' = [reader EXCEPT ![c] = "off"] /\ writer' = [writer EXCEPT ![c] = "off"]
        /\ cancelled' = cancelled \ {c} /\ hungUp' = hungUp \ {c} /\ UNCHANGED <<quit, reported>>
    BY <1>8 DEF detach
  <2> QED
    BY <1>0, <2>1 DEF ConnType, ConnPc
<1>9. ASSUME NEW c \in Conns, HangUp(c) PROVE ConnType'
  BY <1>0, <1>9 DEF HangUp, ConnType, connVars
<1>10. ASSUME NEW c \in Conns, readFails(c) \/ readLeaves(c) PROVE ConnType'
  <2>1. UNCHANGED <<connPc, hubOf, writer, hungUp>>
    BY <1>10 DEF readFails, readLeaves
  <2>2. /\ reader' = [reader EXCEPT ![c] = "done"] /\ cancelled' = cancelled \cup {c}
        /\ quit' \subseteq quit \cup {c} /\ reported' \subseteq reported \cup {c}
    BY <1>10 DEF readFails, readLeaves
  <2> QED
    BY <1>0, <2>1, <2>2 DEF ConnType
<1>11. ASSUME NEW c \in Conns, writeMsg(c) \/ writerSeesClosed(c) \/ writerDrained(c) \/ writerSeesCancel(c)
       PROVE  ConnType'
  <2>1. UNCHANGED <<connPc, hubOf, reader, clientVars>>
    BY <1>11 DEF writeMsg, writerSeesClosed, writerDrained, writerSeesCancel
  <2>2. cancelled' = cancelled \/ cancelled' = cancelled \cup {c}
    BY <1>11 DEF writeMsg, writerSeesClosed, writerDrained, writerSeesCancel
  <2>3. writer' = writer \/ \E w \in {"draining", "drained", "done"} : writer' = [writer EXCEPT ![c] = w]
    BY <1>11 DEF writeMsg, writerSeesClosed, writerDrained, writerSeesCancel
  <2> QED
    BY <1>0, <2>1, <2>2, <2>3 DEF ConnType, clientVars
<1>12. CASE Shutdown \/ PublishOut \/ PublishRoomClosed \/ Release \/ Exit \/ UNCHANGED vars
  <2>1. UNCHANGED <<connPc, hubOf, reader, writer, clientVars, cancelled>>
    BY <1>12 DEF Shutdown, PublishOut, PublishRoomClosed, Release, Exit, vars, connVars
  <2> QED
    BY <1>0, <1>1, <2>1 DEF ConnType
<1> QED
  BY <1>2, <1>3, <1>4, <1>5, <1>6, <1>7, <1>8, <1>9, <1>10, <1>11, <1>12, StepCases

\* What is on its way to the clients, and the room.
ChannelType ==
    /\ connCh \in [Conns -> Seq(Broadcasts)] /\ \A c \in Conns : Len(connCh[c]) <= ConnBufferSize
    /\ owed \in [Conns -> SUBSET Broadcasts]
    /\ published \in 0..MaxBroadcasts /\ roomClosed \in BOOLEAN /\ owned \in BOOLEAN

\* A hub looks for room before it sends, so no channel grows past its capacity.
LEMMA NextChannelType ==
    ASSUME Inv, [Next]_vars
    PROVE  ChannelType'
<1>0. TypeOK /\ ChannelType
  BY DEF Inv, TypeOK, ChannelType
<1>1. CASE UNCHANGED <<chVars, roomVars>>
  BY <1>0, <1>1 DEF ChannelType, chVars, roomVars
<1>2. \A c \in Conns : connCh[c] \in Seq(Broadcasts) /\ Len(connCh[c]) \in Nat /\ Len(connCh[c]) <= ConnBufferSize
  BY <1>0 DEF ChannelType
<1>3. <<>> \in Seq(Broadcasts) /\ Len(<<>>) = 0 /\ ConnBufferSize \in Nat /\ 0 <= ConnBufferSize
  BY BufferAssumption
<1>4. ASSUME NEW h \in Hubs, hubReceives(h) PROVE ChannelType'
  <2>1. UNCHANGED <<published, roomClosed, owned>>
    BY <1>4 DEF hubReceives, roomVars
  <2>2. CASE Head(msgs[h]) # RoomClosedMsg
    <3> DEFINE m == Head(msgs[h])
    <3>1. m \in Broadcasts
      <4>1. msgs[h] \in Seq(Broadcasts \cup {RoomClosedMsg}) /\ msgs[h] # <<>>
        BY <1>0, <1>4 DEF TypeOK, hubReceives
      <4>2. m \in Broadcasts \cup {RoomClosedMsg}
        BY <4>1
      <4> QED
        BY <2>2, <4>2
    <3>2. /\ connCh' = [c \in Conns |-> IF c \in conns[h] /\ HasRoom(c) THEN Append(connCh[c], m) ELSE connCh[c]]
          /\ owed' = [c \in Conns |-> IF c \in conns[h] /\ ~HasRoom(c) THEN owed[c] \ {m} ELSE owed[c]]
      BY <1>4, <2>2 DEF hubReceives
    <3> HIDE DEF m
    <3>3. \A c \in Conns : /\ Append(connCh[c], m) \in Seq(Broadcasts)
                           /\ HasRoom(c) => Len(Append(connCh[c], m)) <= ConnBufferSize
      BY <1>2, <1>3, <3>1 DEF HasRoom
    <3>4. connCh' \in [Conns -> Seq(Broadcasts)] /\ \A c \in Conns : Len(connCh'[c]) <= ConnBufferSize
      BY <1>2, <3>2, <3>3
    <3>5. owed' \in [Conns -> SUBSET Broadcasts]
      BY <1>0, <3>2 DEF ChannelType
    <3> QED
      BY <1>0, <2>1, <3>4, <3>5 DEF ChannelType
  <2>3. CASE Head(msgs[h]) = RoomClosedMsg
    BY <1>1, <1>4, <2>1, <2>3 DEF hubReceives, chVars, roomVars
  <2> QED
    BY <2>2, <2>3
<1>5. ASSUME NEW c \in Conns, writeMsg(c) PROVE ChannelType'
  <2>1. connCh[c] # <<>> /\ connCh' = [connCh EXCEPT ![c] = Tail(@)] /\ UNCHANGED roomVars
    BY <1>5 DEF writeMsg
  <2>2. owed' = owed \/ owed' = [owed EXCEPT ![c] = @ \ {Head(connCh[c])}]
    BY <1>5 DEF writeMsg
  <2>3. PICK q : q = Tail(connCh[c])
    OBVIOUS
  <2>4. q \in Seq(Broadcasts) /\ Len(q) <= ConnBufferSize
    BY <1>2, <1>3, <2>1, <2>3
  <2>5. connCh' = [connCh EXCEPT ![c] = q]
    BY <2>1, <2>3
  <2>6. connCh' \in [Conns -> Seq(Broadcasts)] /\ \A x \in Conns : Len(connCh'[x]) <= ConnBufferSize
    BY <1>0, <2>4, <2>5 DEF ChannelType
  <2>7. owed' \in [Conns -> SUBSET Broadcasts]
    BY <1>0, <2>2 DEF ChannelType
  <2> QED
    BY <1>0, <2>1, <2>6, <2>7 DEF ChannelType, roomVars
<1>6. ASSUME NEW c \in Conns, detach(c) PROVE ChannelType'
  <2>1. /\ connCh' = [connCh EXCEPT ![c] = <<>>] /\ owed' = [owed EXCEPT ![c] = {}] /\ UNCHANGED roomVars
    BY <1>6 DEF detach
  <2>2. connCh' \in [Conns -> Seq(Broadcasts)] /\ \A x \in Conns : Len(connCh'[x]) <= ConnBufferSize
    BY <1>0, <1>3, <2>1 DEF ChannelType
  <2>3. owed' \in [Conns -> SUBSET Broadcasts]
    BY <1>0, <2>1 DEF ChannelType
  <2> QED
    BY <1>0, <2>1, <2>2, <2>3 DEF ChannelType, roomVars
<1>7. CASE PublishOut
  <2>1. /\ published < MaxBroadcasts /\ published' = published + 1 /\ UNCHANGED <<connCh, roomClosed, owned>>
        /\ owed' = [c \in Conns |-> IF \E h \in Hubs : hubPc[h] = "loop" /\ c \in conns[h]
                                    THEN owed[c] \cup {published + 1} ELSE owed[c]]
    BY <1>7 DEF PublishOut
  <2>2. published \in 0..MaxBroadcasts
    BY <1>0 DEF ChannelType
  <2>3. published + 1 \in Broadcasts /\ published' \in 0..MaxBroadcasts
    BY <2>1, <2>2, BroadcastsAssumption DEF Broadcasts
  <2>4. owed' \in [Conns -> SUBSET Broadcasts]
    BY <1>0, <2>1, <2>3 DEF ChannelType
  <2> QED
    BY <1>0, <2>1, <2>3, <2>4 DEF ChannelType
<1>8. CASE PublishRoomClosed \/ Release
  <2>1. UNCHANGED <<connCh, owed, published>> /\ roomClosed' \in BOOLEAN /\ owned' \in BOOLEAN
    BY <1>0, <1>8 DEF PublishRoomClosed, Release, ChannelType, connVars, chVars
  <2> QED
    BY <1>0, <2>1 DEF ChannelType
<1>9. ASSUME NEW h \in Hubs, hubStops(h) \/ onClose(h) \/ disconnectAll(h)
      PROVE  UNCHANGED <<chVars, roomVars>>
  BY <1>9 DEF hubStops, onClose, disconnectAll, connVars
<1>10. ASSUME NEW c \in Conns, \/ ServeHTTP(c) \/ attach(c) \/ attachFails(c) \/ registerConn(c) \/ unregisterConn(c)
                               \/ HangUp(c) \/ readFails(c) \/ readLeaves(c) \/ writerSeesClosed(c)
                               \/ writerDrained(c) \/ writerSeesCancel(c)
       PROVE  UNCHANGED <<chVars, roomVars>>
  BY <1>10
  DEF ServeHTTP, attach, attachFails, registerConn, unregisterConn, HangUp, readFails, readLeaves, writerSeesClosed,
      writerDrained, writerSeesCancel, connVars
<1>11. Shutdown \/ Exit \/ UNCHANGED vars => UNCHANGED <<chVars, roomVars>>
  BY DEF Shutdown, Exit, vars, connVars
<1> QED
  BY <1>1, <1>4, <1>5, <1>6, <1>7, <1>8, <1>9, <1>10, <1>11, StepCases

\* Every step keeps every variable's type.
LEMMA NextType ==
    ASSUME Inv, [Next]_vars
    PROVE  TypeOK' /\ EntryType'
BY NextRegistry, NextHubType, NextConnType, NextChannelType
DEF RegistryType, HubType, ConnType, ChannelType, TypeOK

-----------------------------------------------------------------------------
(* Hubs and their connections.                                              *)

\* A hub starts once, and never again once it has closed.
LEMMA HubPhases ==
    ASSUME Inv, [Next]_vars, NEW h \in Hubs
    PROVE  /\ hubPc'[h] = "loop" =>
                \/ hubPc[h] = "loop"
                \/ hubPc[h] = "none" /\ h = made + 1 /\ made' = made + 1 /\ conns' = conns /\ msgs' = msgs
           /\ Closed(h) => Closed(h)'
           /\ made' \in {made, made + 1}
           /\ hubPc'[h] # "none" => hubPc[h] # "none" \/ (h = made + 1 /\ made' = made + 1)
<1>0. TypeOK /\ EntryType /\ HubsMade /\ hubPc \in [Hubs -> HubPc] /\ made \in Nat
  BY ConnsAssumption, FS_CardinalityType DEF Inv, TypeOK
<1>1. ASSUME NEW g \in Hubs, hubReceives(g) \/ hubStops(g) \/ onClose(g) \/ disconnectAll(g)
      PROVE  /\ made' = made
             /\ hubPc' = hubPc \/ \E p \in {"closed", "gone"} : hubPc[g] # "none" /\ hubPc' = [hubPc EXCEPT ![g] = p]
  BY <1>1 DEF hubReceives, hubStops, onClose, disconnectAll, Returns, registryVars
<1>2. ASSUME NEW c \in Conns, attach(c)
      PROVE  \/ hubPc' = hubPc /\ made' = made
             \/ /\ made + 1 \in Hubs /\ hubPc[made + 1] = "none" /\ hubPc' = [hubPc EXCEPT ![made + 1] = "loop"]
                /\ made' = made + 1 /\ conns' = conns /\ msgs' = msgs
  <2>1. connPc[c] = "checked" /\ conns' = conns /\ msgs' = msgs
    BY <1>2 DEF attach
  <2>2. made + 1 \in Hubs
    BY <1>0, <2>1, RoomForHub
  <2>3. hubPc[made + 1] = "none"
    BY <1>0, <2>2 DEF HubsMade
  <2> QED
    BY <1>2, <2>1, <2>2, <2>3 DEF attach
<1>3. ASSUME NEW c \in Conns, \/ ServeHTTP(c) \/ attachFails(c) \/ registerConn(c) \/ unregisterConn(c) \/ detach(c)
                              \/ HangUp(c) \/ readFails(c) \/ readLeaves(c) \/ writeMsg(c) \/ writerSeesClosed(c)
                              \/ writerDrained(c) \/ writerSeesCancel(c)
      PROVE  hubPc' = hubPc /\ made' = made
  BY <1>3
  DEF ServeHTTP, attachFails, registerConn, unregisterConn, detach, HangUp, readFails, readLeaves, writeMsg,
      writerSeesClosed, writerDrained, writerSeesCancel, hubVars, registryVars
<1>4. Shutdown \/ PublishOut \/ PublishRoomClosed \/ Release \/ Exit \/ UNCHANGED vars =>
        hubPc' = hubPc /\ made' = made
  BY DEF Shutdown, PublishOut, PublishRoomClosed, Release, Exit, vars, hubVars, registryVars
<1>5. \/ hubPc' = hubPc /\ made' = made
      \/ made' = made /\ \E g \in Hubs, p \in {"closed", "gone"} : hubPc[g] # "none" /\ hubPc' = [hubPc EXCEPT ![g] = p]
      \/ /\ made + 1 \in Hubs /\ hubPc[made + 1] = "none" /\ hubPc' = [hubPc EXCEPT ![made + 1] = "loop"]
         /\ made' = made + 1 /\ conns' = conns /\ msgs' = msgs
  BY <1>1, <1>2, <1>3, <1>4, StepCases
<1> QED
  BY <1>0, <1>5 DEF Closed

\* No connection is counted twice, and one that is counted stays so.
LEMMA NextMade ==
    ASSUME Inv, [Next]_vars
    PROVE  HubsMade'
<1>0. TypeOK /\ EntryType /\ HubsMade /\ ConnsHome
  BY DEF Inv
<1>1. /\ made \in Nat /\ connPc \in [Conns -> ConnPc] /\ conns \in [Hubs -> SUBSET Conns]
      /\ hubPc \in [Hubs -> HubPc]
  BY <1>0, ConnsAssumption, FS_CardinalityType DEF TypeOK
<1>2. made' <= Cardinality(Attached')
  <2> DEFINE A == {x \in Conns : connPc'[x] \in {"attached", "open", "detaching", "done"}}
  <2>1. ASSUME made' = made, Attached \subseteq A PROVE made' <= Cardinality(A)
    <3>1. A \subseteq Conns /\ Attached \subseteq Conns
      BY DEF Attached
    <3> HIDE DEF A
    <3>2. IsFiniteSet(A) /\ IsFiniteSet(Attached) /\ Cardinality(A) \in Nat /\ Cardinality(Attached) \in Nat
      BY <3>1, ConnsAssumption, FS_Subset, FS_CardinalityType
    <3>3. Cardinality(Attached) <= Cardinality(A)
      BY <2>1, <3>2, FS_Subset
    <3> QED
      BY <1>0, <1>1, <2>1, <3>2, <3>3 DEF HubsMade
  <2>2. ASSUME NEW c \in Conns, attach(c) PROVE made' <= Cardinality(A)
    <3>1. connPc[c] = "checked" /\ connPc' = [connPc EXCEPT ![c] = "attached"]
          /\ made' \in {made, made + 1}
      BY <2>2 DEF attach
    <3>2. made' = made => Attached \subseteq A
      BY <1>1, <3>1 DEF Attached
    <3>3. made + 1 <= Cardinality(A)
      BY <1>0, <3>1, RoomForHub
    <3> HIDE DEF A
    <3> QED
      BY <2>1, <3>1, <3>2, <3>3
  <2>3. ASSUME NEW c \in Conns, \/ ServeHTTP(c) \/ attachFails(c) \/ registerConn(c) \/ unregisterConn(c) \/ detach(c)
        PROVE  made' = made /\ Attached \subseteq A
    <3>1. made' = made
      BY <2>3 DEF ServeHTTP, attachFails, registerConn, unregisterConn, detach, registryVars
    <3>2. \/ connPc[c] \in {"idle", "checked"} /\ \E p : connPc' = [connPc EXCEPT ![c] = p]
          \/ \E p \in {"open", "detaching", "done"} : connPc' = [connPc EXCEPT ![c] = p]
      BY <2>3 DEF ServeHTTP, attachFails, registerConn, unregisterConn, detach
    <3> QED
      BY <1>1, <3>1, <3>2 DEF Attached
  <2>4. ASSUME NEW c \in Conns, \/ HangUp(c) \/ readFails(c) \/ readLeaves(c) \/ writeMsg(c) \/ writerSeesClosed(c)
                                \/ writerDrained(c) \/ writerSeesCancel(c)
        PROVE  made' = made /\ connPc' = connPc
    BY <2>4
    DEF HangUp, readFails, readLeaves, writeMsg, writerSeesClosed, writerDrained, writerSeesCancel, registryVars,
        connVars
  <2>5. ASSUME NEW h \in Hubs, hubReceives(h) \/ hubStops(h) \/ onClose(h) \/ disconnectAll(h)
        PROVE  made' = made /\ connPc' = connPc
    BY <2>5 DEF hubReceives, hubStops, onClose, disconnectAll, registryVars, connVars
  <2>6. Shutdown \/ PublishOut \/ PublishRoomClosed \/ Release \/ Exit \/ UNCHANGED vars =>
          made' = made /\ connPc' = connPc
    BY DEF Shutdown, PublishOut, PublishRoomClosed, Release, Exit, vars, registryVars, connVars
  <2>7. connPc' = connPc => Attached \subseteq A
    BY DEF Attached
  <2>8. Attached' = A
    BY DEF Attached
  <2> HIDE DEF A
  <2>9. made' <= Cardinality(A)
    BY <2>1, <2>2, <2>3, <2>4, <2>5, <2>6, <2>7, StepCases
  <2> QED
    BY <2>8, <2>9
<1>3. ASSUME NEW h \in Hubs, h > made'
      PROVE  hubPc'[h] = "none" /\ conns'[h] = {} /\ msgs'[h] = <<>>
  <2>1. made' \in {made, made + 1} /\ h \in Nat
    BY HubPhases DEF Hubs
  <2>2. (h > made /\ h # made + 1) \/ (made' = made /\ h > made)
    BY <1>1, <1>3, <2>1
  <2>3. hubPc[h] = "none" /\ conns[h] = {} /\ msgs[h] = <<>>
    BY <1>0, <2>2 DEF HubsMade
  <2>4. hubPc'[h] = "none"
    BY <1>1, <2>1, <2>2, <2>3, HubPhases
  <2>5. conns'[h] = {}
    <3>1. ASSUME NEW c \in Conns, registerConn(c) \/ unregisterConn(c) PROVE conns'[h] = {}
      <4> DEFINE g == hubOf[c]
      <4>1. \/ conns' = conns
            \/ hubPc[g] = "loop" /\ conns' = [conns EXCEPT ![g] = @ \cup {c}]
            \/ hubPc[g] = "loop" /\ conns' = [conns EXCEPT ![g] = @ \ {c}]
        BY <3>1 DEF registerConn, unregisterConn
      <4> HIDE DEF g
      <4> QED
        BY <1>1, <2>3, <4>1
    <3>2. ASSUME NEW c \in Conns, \/ ServeHTTP(c) \/ attach(c) \/ attachFails(c) \/ detach(c) \/ HangUp(c) \/ readFails(c)
                                  \/ readLeaves(c) \/ writeMsg(c) \/ writerSeesClosed(c) \/ writerDrained(c)
                                  \/ writerSeesCancel(c)
          PROVE  conns' = conns
      BY <3>2
      DEF ServeHTTP, attach, attachFails, detach, HangUp, readFails, readLeaves, writeMsg, writerSeesClosed,
          writerDrained, writerSeesCancel, hubVars
    <3>3. ASSUME NEW g \in Hubs, hubReceives(g) \/ hubStops(g) \/ onClose(g) \/ disconnectAll(g)
          PROVE  conns' = conns
      BY <3>3 DEF hubReceives, hubStops, onClose, disconnectAll
    <3>4. Shutdown \/ PublishOut \/ PublishRoomClosed \/ Release \/ Exit \/ UNCHANGED vars => conns' = conns
      BY DEF Shutdown, PublishOut, PublishRoomClosed, Release, Exit, vars, hubVars
    <3> QED
      BY <2>3, <3>1, <3>2, <3>3, <3>4, StepCases
  <2>6. msgs'[h] = <<>>
    <3>1. ASSUME NEW g \in Hubs, hubReceives(g) \/ hubStops(g) PROVE msgs'[h] = <<>>
      <4>1. hubPc[g] = "loop" /\ \E q : msgs' = [msgs EXCEPT ![g] = q]
        BY <3>1 DEF hubReceives, hubStops, Returns
      <4>2. msgs'[h] = msgs[h]
        BY <1>0, <2>3, <4>1 DEF TypeOK
      <4> QED
        BY <2>3, <4>2
    <3>2. ASSUME PublishOut \/ PublishRoomClosed PROVE msgs'[h] = <<>>
      <4>1. \E m : Deliver(m)
        BY <3>2 DEF PublishOut, PublishRoomClosed
      <4> QED
        BY <2>3, <4>1 DEF Deliver
    <3>3. ASSUME NEW c \in Conns, \/ ServeHTTP(c) \/ attach(c) \/ attachFails(c) \/ registerConn(c) \/ unregisterConn(c)
                                  \/ detach(c) \/ HangUp(c) \/ readFails(c) \/ readLeaves(c) \/ writeMsg(c)
                                  \/ writerSeesClosed(c) \/ writerDrained(c) \/ writerSeesCancel(c)
          PROVE  msgs' = msgs
      BY <3>3
      DEF ServeHTTP, attach, attachFails, registerConn, unregisterConn, detach, HangUp, readFails, readLeaves,
          writeMsg, writerSeesClosed, writerDrained, writerSeesCancel, hubVars
    <3>4. ASSUME NEW g \in Hubs, onClose(g) \/ disconnectAll(g) PROVE msgs' = msgs
      BY <3>4 DEF onClose, disconnectAll
    <3>5. Shutdown \/ Release \/ Exit \/ UNCHANGED vars => msgs' = msgs
      BY DEF Shutdown, Release, Exit, vars, hubVars
    <3> QED
      BY <2>3, <3>1, <3>2, <3>3, <3>4, <3>5, StepCases
  <2> QED
    BY <2>4, <2>5, <2>6
<1> QED
  BY <1>2, <1>3 DEF HubsMade

\* Whatever a hub running after the step had before it, it had as an open connection.
LEMMA StillHome ==
    ASSUME Inv, [Next]_vars, NEW h \in Hubs, hubPc'[h] = "loop", NEW c \in conns[h]
    PROVE  hubPc[h] = "loop" /\ c \in Conns /\ hubOf[c] = h /\ connPc[c] = "open"
<1>1. TypeOK /\ HubsMade /\ ConnsHome /\ made \in Nat
  BY ConnsAssumption, FS_CardinalityType DEF Inv, TypeOK
<1>2. h = made + 1 => h > made
  BY <1>1
<1>3. hubPc[h] = "loop"
  BY <1>1, <1>2, HubPhases DEF HubsMade
<1> QED
  BY <1>1, <1>3 DEF ConnsHome, TypeOK

\* A hub that closes meanwhile is no longer asked, and one that runs takes its connection
\* out before it ends.
LEMMA NextHome ==
    ASSUME Inv, [Next]_vars
    PROVE  ConnsHome'
<1>0. /\ conns \in [Hubs -> SUBSET Conns] /\ connPc \in [Conns -> ConnPc] /\ hubOf \in [Conns -> Hubs \cup {NoHub}]
      /\ hubPc \in [Hubs -> HubPc]
  BY DEF Inv, TypeOK
<1>1. CASE UNCHANGED <<conns, hubOf, connPc>>
  BY <1>1, StillHome DEF ConnsHome
<1>2. ASSUME NEW c \in Conns, connPc[c] # "open", UNCHANGED conns,
             \E p : connPc' = [connPc EXCEPT ![c] = p], \E g : hubOf' = [hubOf EXCEPT ![c] = g]
      PROVE  ConnsHome'
  <2> SUFFICES ASSUME NEW h \in Hubs, hubPc'[h] = "loop", NEW d \in conns'[h]
               PROVE  hubOf'[d] = h /\ connPc'[d] = "open"
    BY DEF ConnsHome
  <2>1. d \in Conns /\ hubOf[d] = h /\ connPc[d] = "open"
    BY <1>2, StillHome
  <2>2. d # c
    BY <1>2, <2>1
  <2> QED
    BY <1>0, <1>2, <2>1, <2>2
<1>3. ASSUME NEW c \in Conns, ServeHTTP(c) \/ attach(c) \/ attachFails(c) \/ detach(c)
      PROVE  ConnsHome'
  <2>1. connPc[c] # "open" /\ UNCHANGED conns /\ \E p : connPc' = [connPc EXCEPT ![c] = p]
    BY <1>3 DEF ServeHTTP, attach, attachFails, detach, hubVars
  <2>2. hubOf' = hubOf \/ \E g : hubOf' = [hubOf EXCEPT ![c] = g]
    BY <1>3 DEF ServeHTTP, attach, attachFails, detach
  <2>3. hubOf' = hubOf => hubOf' = [hubOf EXCEPT ![c] = hubOf[c]]
    BY <1>0
  <2> QED
    BY <1>2, <2>1, <2>2, <2>3
<1>4. ASSUME NEW c \in Conns, registerConn(c) PROVE ConnsHome'
  <2> DEFINE g == hubOf[c]
  <2>1. /\ connPc[c] = "attached" /\ connPc' = [connPc EXCEPT ![c] = "open"] /\ UNCHANGED hubOf
        /\ \/ conns' = [conns EXCEPT ![g] = @ \cup {c}]
           \/ conns' = conns
    BY <1>4 DEF registerConn
  <2> SUFFICES ASSUME NEW h \in Hubs, hubPc'[h] = "loop", NEW d \in conns'[h]
               PROVE  hubOf'[d] = h /\ connPc'[d] = "open"
    BY DEF ConnsHome
  <2>2. CASE d \in conns[h]
    BY <1>0, <2>1, <2>2, StillHome
  <2>3. CASE d \notin conns[h]
    <3>1. d = c /\ h = g
      BY <1>0, <2>1, <2>3
    <3> QED
      BY <1>0, <2>1, <3>1
  <2> QED
    BY <2>2, <2>3
<1>5. ASSUME NEW c \in Conns, unregisterConn(c) PROVE ConnsHome'
  <2> DEFINE g == hubOf[c]
  <2>1. /\ connPc' = [connPc EXCEPT ![c] = "detaching"] /\ UNCHANGED <<hubOf, hubPc>>
        /\ \/ conns' = [conns EXCEPT ![g] = @ \ {c}]
           \/ Closed(g) /\ conns' = conns
    BY <1>5 DEF unregisterConn
  <2> SUFFICES ASSUME NEW h \in Hubs, hubPc'[h] = "loop", NEW d \in conns'[h]
               PROVE  hubOf'[d] = h /\ connPc'[d] = "open"
    BY DEF ConnsHome
  <2>2. d \in conns[h]
    BY <1>0, <2>1
  <2>3. hubPc[h] = "loop" /\ d \in Conns /\ hubOf[d] = h /\ connPc[d] = "open"
    BY <2>2, StillHome
  <2>4. d # c
    <3>1. ASSUME d = c PROVE FALSE
      <4>1. g = h /\ ~Closed(g)
        BY <2>3, <3>1 DEF Closed
      <4> QED
        BY <1>0, <2>1, <3>1, <4>1
    <3> QED
      BY <3>1
  <2> QED
    BY <1>0, <2>1, <2>3, <2>4
<1>6. ASSUME NEW h \in Hubs, hubReceives(h) \/ hubStops(h) \/ onClose(h) \/ disconnectAll(h)
      PROVE  UNCHANGED <<conns, hubOf, connPc>>
  BY <1>6 DEF hubReceives, hubStops, onClose, disconnectAll, connVars
<1>7. ASSUME NEW c \in Conns, \/ HangUp(c) \/ readFails(c) \/ readLeaves(c) \/ writeMsg(c) \/ writerSeesClosed(c)
                              \/ writerDrained(c) \/ writerSeesCancel(c)
      PROVE  UNCHANGED <<conns, hubOf, connPc>>
  BY <1>7
  DEF HangUp, readFails, readLeaves, writeMsg, writerSeesClosed, writerDrained, writerSeesCancel, hubVars, connVars
<1>8. Shutdown \/ PublishOut \/ PublishRoomClosed \/ Release \/ Exit \/ UNCHANGED vars =>
        UNCHANGED <<conns, hubOf, connPc>>
  BY DEF Shutdown, PublishOut, PublishRoomClosed, Release, Exit, vars, hubVars, connVars
<1> QED
  BY <1>1, <1>3, <1>4, <1>5, <1>6, <1>7, <1>8, StepCases

\* attach gives a connection the entry's hub or a new one, and detach takes it back.
LEMMA NextHasHub ==
    ASSUME Inv, [Next]_vars
    PROVE  HasHub'
<1>0. /\ connPc \in [Conns -> ConnPc] /\ hubOf \in [Conns -> Hubs \cup {NoHub}] /\ HasHub /\ TypeOK /\ EntryType
      /\ HubsMade
  BY DEF Inv, TypeOK
<1>1. CASE UNCHANGED <<connPc, hubOf>>
  BY <1>0, <1>1 DEF HasHub, Held
<1>2. ASSUME NEW c \in Conns, attach(c) PROVE HasHub'
  <2>1. connPc[c] = "checked" /\ connPc' = [connPc EXCEPT ![c] = "attached"]
    BY <1>2 DEF attach
  <2>2. PICK g \in Hubs : hubOf' = [hubOf EXCEPT ![c] = g]
    BY <1>0, <1>2, <2>1, EntryHub, RoomForHub DEF attach
  <2> QED
    BY <1>0, <2>1, <2>2 DEF HasHub, Held
<1>3. ASSUME NEW c \in Conns, ServeHTTP(c) \/ attachFails(c) \/ registerConn(c) \/ unregisterConn(c)
      PROVE  HasHub'
  <2>1. /\ hubOf' = hubOf
        /\ \/ \E p \in {"checked", "refused"} : connPc' = [connPc EXCEPT ![c] = p]
           \/ Held(c) /\ \E p : connPc' = [connPc EXCEPT ![c] = p]
    BY <1>3 DEF ServeHTTP, attachFails, registerConn, unregisterConn, Held
  <2> QED
    BY <1>0, <2>1 DEF HasHub, Held
<1>4. ASSUME NEW c \in Conns, detach(c) PROVE HasHub'
  <2>1. connPc' = [connPc EXCEPT ![c] = "done"] /\ \E g : hubOf' = [hubOf EXCEPT ![c] = g]
    BY <1>4 DEF detach
  <2> QED
    BY <1>0, <2>1 DEF HasHub, Held
<1>5. ASSUME NEW h \in Hubs, hubReceives(h) \/ hubStops(h) \/ onClose(h) \/ disconnectAll(h)
      PROVE  UNCHANGED <<connPc, hubOf>>
  BY <1>5 DEF hubReceives, hubStops, onClose, disconnectAll, connVars
<1>6. ASSUME NEW c \in Conns, \/ HangUp(c) \/ readFails(c) \/ readLeaves(c) \/ writeMsg(c) \/ writerSeesClosed(c)
                              \/ writerDrained(c) \/ writerSeesCancel(c)
      PROVE  UNCHANGED <<connPc, hubOf>>
  BY <1>6
  DEF HangUp, readFails, readLeaves, writeMsg, writerSeesClosed, writerDrained, writerSeesCancel, connVars
<1>7. Shutdown \/ PublishOut \/ PublishRoomClosed \/ Release \/ Exit \/ UNCHANGED vars =>
        UNCHANGED <<connPc, hubOf>>
  BY DEF Shutdown, PublishOut, PublishRoomClosed, Release, Exit, vars, connVars
<1> QED
  BY <1>1, <1>2, <1>3, <1>4, <1>5, <1>6, <1>7, StepCases

\* A drained writer's channel stays empty: its hub has closed, so no hub fills it.
LEMMA NextWriters ==
    ASSUME Inv, [Next]_vars
    PROVE  WritersOK'
<1>0. /\ connPc \in [Conns -> ConnPc] /\ hubOf \in [Conns -> Hubs \cup {NoHub}] /\ hubPc \in [Hubs -> HubPc]
      /\ writer \in [Conns -> {"off", "loop", "draining", "drained", "done"}] /\ WritersOK /\ ConnsHome /\ HasHub
      /\ connCh \in [Conns -> Seq(Broadcasts)] /\ conns \in [Hubs -> SUBSET Conns]
  BY DEF Inv, TypeOK
<1>1. \A h \in Hubs : Closed(h) => hubPc'[h] \in {"closed", "gone"}
  BY HubPhases DEF Closed
<1>2. \A d \in Conns : writer[d] # "off" => hubOf[d] \in Hubs
  BY <1>0 DEF WritersOK, HasHub, Held
\* What a step leaves alone stays as it should be.
<1>3. ASSUME NEW d \in Conns, writer'[d] = writer[d], connPc'[d] = connPc[d], hubOf'[d] = hubOf[d],
             writer[d] = "drained" => connCh'[d] = <<>>
      PROVE  /\ writer'[d] # "off" => connPc'[d] \in {"open", "detaching"}
             /\ writer'[d] \in {"draining", "drained"} => hubPc'[hubOf'[d]] \in {"closed", "gone"}
             /\ writer'[d] = "drained" => connCh'[d] = <<>>
  BY <1>0, <1>1, <1>2, <1>3 DEF WritersOK
<1>4. CASE UNCHANGED <<writer, connPc, hubOf, connCh>>
  BY <1>0, <1>3, <1>4 DEF WritersOK, Closed
<1>5. ASSUME NEW h \in Hubs, hubReceives(h) PROVE WritersOK'
  <2>1. UNCHANGED <<writer, connPc, hubOf>> /\ hubPc[h] = "loop"
    BY <1>5 DEF hubReceives
  <2>2. ASSUME NEW d \in Conns, writer[d] = "drained" PROVE connCh'[d] = <<>>
    <3>1. connCh[d] = <<>> /\ d \notin conns[h]
      BY <1>0, <2>1, <2>2 DEF WritersOK, ConnsHome, Closed
    <3> QED
      BY <1>5, <3>1 DEF hubReceives
  <2> QED
    BY <1>3, <2>1, <2>2 DEF WritersOK, Closed
<1>6. ASSUME NEW c \in Conns, hubPc' = hubPc,
             \A d \in Conns : d # c => /\ writer'[d] = writer[d] /\ connPc'[d] = connPc[d] /\ hubOf'[d] = hubOf[d]
                                       /\ connCh'[d] = connCh[d],
             writer'[c] # "off" => connPc'[c] \in {"open", "detaching"},
             writer'[c] \in {"draining", "drained"} => Closed(hubOf'[c]), writer'[c] = "drained" => connCh'[c] = <<>>
      PROVE  WritersOK'
  <2>1. ASSUME NEW d \in Conns, d # c
        PROVE  /\ writer'[d] # "off" => connPc'[d] \in {"open", "detaching"}
               /\ writer'[d] \in {"draining", "drained"} => hubPc'[hubOf'[d]] \in {"closed", "gone"}
               /\ writer'[d] = "drained" => connCh'[d] = <<>>
    <3>1. /\ writer'[d] = writer[d] /\ connPc'[d] = connPc[d] /\ hubOf'[d] = hubOf[d]
          /\ writer[d] = "drained" => connCh'[d] = <<>>
      BY <1>0, <1>6, <2>1 DEF WritersOK
    <3> QED
      BY <1>3, <3>1
  <2> QED
    BY <1>6, <2>1 DEF WritersOK, Closed
<1>7. ASSUME NEW c \in Conns, ServeHTTP(c) \/ attach(c) \/ attachFails(c) PROVE WritersOK'
  <2>1. /\ connPc[c] \in {"idle", "checked"} /\ UNCHANGED <<writer, connCh>>
        /\ \E p : connPc' = [connPc EXCEPT ![c] = p] 
        /\ hubOf' = hubOf \/ \E g : hubOf' = [hubOf EXCEPT ![c] = g]
    BY <1>7 DEF ServeHTTP, attach, attachFails, chVars
  <2>2. writer[c] = "off"
    BY <1>0, <2>1 DEF WritersOK
  <2>3. ASSUME NEW d \in Conns
        PROVE  /\ writer'[d] # "off" => connPc'[d] \in {"open", "detaching"}
               /\ writer'[d] \in {"draining", "drained"} => hubPc'[hubOf'[d]] \in {"closed", "gone"}
               /\ writer'[d] = "drained" => connCh'[d] = <<>>
    <3>1. CASE d = c
      BY <2>1, <2>2, <3>1
    <3>2. CASE d # c
      BY <1>0, <1>3, <2>1, <3>2 DEF WritersOK
    <3> QED
      BY <3>1, <3>2
  <2> QED
    BY <2>3 DEF WritersOK, Closed
<1>8. ASSUME NEW c \in Conns, registerConn(c) \/ unregisterConn(c) PROVE WritersOK'
  <2>1. /\ UNCHANGED <<hubOf, connCh, hubPc>>
        /\ \/ connPc' = [connPc EXCEPT ![c] = "open"] /\ writer' = [writer EXCEPT ![c] = "loop"]
           \/ connPc' = [connPc EXCEPT ![c] = "detaching"] /\ writer' = writer
    BY <1>8 DEF registerConn, unregisterConn, chVars
  <2>2. CASE connPc' = [connPc EXCEPT ![c] = "open"] /\ writer' = [writer EXCEPT ![c] = "loop"]
    BY <1>0, <1>6, <2>1, <2>2
  <2>3. CASE connPc' = [connPc EXCEPT ![c] = "detaching"] /\ writer' = writer
    <3>1. /\ writer[c] \in {"loop", "done", "off", "draining", "drained"}
          /\ writer[c] \in {"draining", "drained"} => Closed(hubOf[c])
          /\ writer[c] = "drained" => connCh[c] = <<>>
      BY <1>0 DEF WritersOK
    <3> QED
      BY <1>0, <1>6, <2>1, <2>3, <3>1
  <2> QED
    BY <2>1, <2>2, <2>3
<1>9. ASSUME NEW c \in Conns, detach(c) PROVE WritersOK'
  <2>1. /\ connPc' = [connPc EXCEPT ![c] = "done"] /\ hubOf' = [hubOf EXCEPT ![c] = NoHub] /\ hubPc' = hubPc
        /\ writer' = [writer EXCEPT ![c] = "off"] /\ connCh' = [connCh EXCEPT ![c] = <<>>]
    BY <1>9 DEF detach
  <2> QED
    BY <1>0, <1>6, <2>1
<1>10. ASSUME NEW c \in Conns, \/ writeMsg(c) \/ writerSeesClosed(c) \/ writerDrained(c) \/ writerSeesCancel(c)
       PROVE WritersOK'
  <2>1. UNCHANGED <<connPc, hubOf, hubPc>> /\ writer[c] \in {"loop", "draining"}
    BY <1>10 DEF writeMsg, writerSeesClosed, writerDrained, writerSeesCancel, hubVars
  <2>2. connPc[c] \in {"open", "detaching"} /\ (writer[c] = "draining" => Closed(hubOf[c]))
    BY <1>0, <2>1 DEF WritersOK
  <2>3. \/ writer' = [writer EXCEPT ![c] = "done"] \/ writer' = writer
        \/ writer' = [writer EXCEPT ![c] = "draining"] /\ Closed(hubOf[c])
        \/ writer' = [writer EXCEPT ![c] = "drained"] /\ connCh[c] = <<>> /\ connCh' = connCh /\ writer[c] = "draining"
    BY <1>10 DEF writeMsg, writerSeesClosed, writerDrained, writerSeesCancel, chVars
  <2>4. connCh' = connCh \/ connCh' = [connCh EXCEPT ![c] = Tail(@)]
    BY <1>10 DEF writeMsg, writerSeesClosed, writerDrained, writerSeesCancel, chVars
  <2>5. \A d \in Conns : d # c => writer'[d] = writer[d] /\ connCh'[d] = connCh[d]
    BY <1>0, <2>3, <2>4
  <2>6. /\ writer'[c] \in {"draining", "drained"} => Closed(hubOf[c])
        /\ writer'[c] = "drained" => connCh'[c] = <<>>
    BY <1>0, <2>1, <2>2, <2>3
  <2> QED
    BY <1>6, <2>1, <2>2, <2>5, <2>6
<1>11. ASSUME NEW h \in Hubs, hubStops(h) \/ onClose(h) \/ disconnectAll(h)
       PROVE  UNCHANGED <<writer, connPc, hubOf, connCh>>
  BY <1>11 DEF hubStops, onClose, disconnectAll, connVars, chVars
<1>12. ASSUME NEW c \in Conns, HangUp(c) \/ readFails(c) \/ readLeaves(c)
       PROVE  UNCHANGED <<writer, connPc, hubOf, connCh>>
  BY <1>12 DEF HangUp, readFails, readLeaves, connVars, chVars
<1>13. Shutdown \/ PublishOut \/ PublishRoomClosed \/ Release \/ Exit \/ UNCHANGED vars =>
         UNCHANGED <<writer, connPc, hubOf, connCh>>
  BY DEF Shutdown, PublishOut, PublishRoomClosed, Release, Exit, vars, connVars, chVars
<1> QED
  BY <1>4, <1>5, <1>7, <1>8, <1>9, <1>10, <1>11, <1>12, <1>13, StepCases

-----------------------------------------------------------------------------
(* What is on its way.                                                      *)

\* Appending to a channel or a subscription adds one message at the end.
LEMMA AppendFacts ==
    ASSUME NEW S, NEW s \in Seq(S), NEW x \in S
    PROVE  /\ Append(s, x) \in Seq(S) /\ Len(Append(s, x)) = Len(s) + 1
           /\ \A i \in DOMAIN Append(s, x) : Append(s, x)[i] = IF i = Len(s) + 1 THEN x ELSE s[i]
           /\ ToSet(Append(s, x)) = ToSet(s) \cup {x}
<1>1. /\ Append(s, x) \in Seq(S) /\ Len(Append(s, x)) = Len(s) + 1 /\ Len(s) \in Nat
      /\ DOMAIN Append(s, x) = 1..(Len(s) + 1) /\ DOMAIN s = 1..Len(s)
      /\ \A i \in 1..(Len(s) + 1) : Append(s, x)[i] = IF i = Len(s) + 1 THEN x ELSE s[i]
  OBVIOUS
<1> DEFINE t == Append(s, x)
<1>2. t[Len(s) + 1] = x /\ \A i \in DOMAIN s : i \in DOMAIN t /\ t[i] = s[i]
  BY <1>1
<1>3. \A i \in DOMAIN t : t[i] = x \/ (i \in DOMAIN s /\ t[i] = s[i])
  BY <1>1
<1>4. Len(s) + 1 \in DOMAIN t
  BY <1>1
<1> HIDE DEF t
<1>5. ToSet(t) = ToSet(s) \cup {x}
  BY <1>2, <1>3, <1>4 DEF ToSet
<1> QED
  BY <1>1, <1>5 DEF t

\* Reading takes the first message and leaves the others in their order.
LEMMA TailFacts ==
    ASSUME NEW S, NEW s \in Seq(S), s # <<>>
    PROVE  /\ Tail(s) \in Seq(S) /\ Len(Tail(s)) = Len(s) - 1 /\ Len(s) \in Nat \ {0} /\ Head(s) \in S
           /\ \A i \in DOMAIN Tail(s) : i + 1 \in DOMAIN s /\ i \in 1..(Len(s) - 1) /\ Tail(s)[i] = s[i + 1]
           /\ ToSet(s) = ToSet(Tail(s)) \cup {Head(s)}
           /\ 1 \in DOMAIN s /\ Head(s) = s[1]
<1>1. /\ Tail(s) \in Seq(S) /\ Len(Tail(s)) = Len(s) - 1 /\ Len(s) \in Nat \ {0} /\ Head(s) = s[1] /\ Head(s) \in S
      /\ DOMAIN Tail(s) = 1..(Len(s) - 1) /\ DOMAIN s = 1..Len(s)
      /\ \A i \in 1..(Len(s) - 1) : Tail(s)[i] = s[i + 1]
  OBVIOUS
<1> DEFINE t == Tail(s)
<1>2. \A i \in DOMAIN t : i + 1 \in DOMAIN s /\ t[i] = s[i + 1]
  BY <1>1
<1>3. \A i \in DOMAIN s : i = 1 \/ (i - 1 \in DOMAIN t /\ t[i - 1] = s[i])
  BY <1>1
<1>4. 1 \in DOMAIN s /\ Head(s) = s[1]
  BY <1>1
<1>5. ToSet(t) \subseteq ToSet(s) /\ Head(s) \in ToSet(s)
  <2> HIDE DEF t
  <2> QED
    BY <1>2, <1>4 DEF ToSet
<1>6. ToSet(s) \subseteq ToSet(t) \cup {Head(s)}
  <2> HIDE DEF t
  <2> SUFFICES ASSUME NEW i \in DOMAIN s PROVE s[i] \in ToSet(t) \cup {s[1]}
    BY <1>4 DEF ToSet
  <2> QED
    BY <1>3 DEF ToSet
<1> QED
  BY <1>1, <1>2, <1>4, <1>5, <1>6

\* The room publishes nothing after room_closed.
LEMMA NextClosedLast ==
    ASSUME Inv, [Next]_vars
    PROVE  ClosedIsLast'
<1>0. /\ ClosedIsLast /\ msgs \in [Hubs -> Seq(Broadcasts \cup {RoomClosedMsg})] /\ hubPc \in [Hubs -> HubPc]
      /\ published \in 0..MaxBroadcasts
  BY DEF Inv, TypeOK
<1>1. CASE UNCHANGED <<msgs, roomClosed>>
  BY <1>0, <1>1 DEF ClosedIsLast
<1>2. ASSUME NEW h \in Hubs, NEW q \in Seq(Broadcasts \cup {RoomClosedMsg}), msgs' = [msgs EXCEPT ![h] = q],
             roomClosed' = roomClosed, \A i \in DOMAIN q : q[i] = RoomClosedMsg => i = Len(q) /\ roomClosed
      PROVE  ClosedIsLast'
  <2> SUFFICES ASSUME NEW g \in Hubs, NEW i \in DOMAIN msgs'[g], msgs'[g][i] = RoomClosedMsg
               PROVE  i = Len(msgs'[g]) /\ roomClosed'
    BY DEF ClosedIsLast
  <2>1. CASE g = h
    BY <1>0, <1>2, <2>1
  <2>2. CASE g # h
    BY <1>0, <1>2, <2>2 DEF ClosedIsLast
  <2> QED
    BY <2>1, <2>2
<1>3. ASSUME NEW h \in Hubs, hubReceives(h) \/ hubStops(h) PROVE ClosedIsLast'
  <2>1. UNCHANGED roomClosed
    BY <1>3 DEF hubReceives, hubStops, roomVars
  <2>2. CASE msgs' = [msgs EXCEPT ![h] = <<>>]
    <3>1. <<>> \in Seq(Broadcasts \cup {RoomClosedMsg}) /\ DOMAIN <<>> = {}
      OBVIOUS
    <3> QED
      BY <1>2, <2>1, <2>2, <3>1
  <2>3. CASE msgs[h] # <<>> /\ msgs' = [msgs EXCEPT ![h] = Tail(@)]
    <3>1. msgs[h] \in Seq(Broadcasts \cup {RoomClosedMsg})
      BY <1>0
    <3> DEFINE q == Tail(msgs[h])
    <3>2. /\ q \in Seq(Broadcasts \cup {RoomClosedMsg}) /\ Len(q) = Len(msgs[h]) - 1 /\ Len(msgs[h]) \in Nat \ {0}
          /\ \A i \in DOMAIN q : i + 1 \in DOMAIN msgs[h] /\ i \in 1..(Len(msgs[h]) - 1) /\ q[i] = msgs[h][i + 1]
      BY <2>3, <3>1, TailFacts
    <3>3. msgs' = [msgs EXCEPT ![h] = q]
      BY <2>3
    <3> HIDE DEF q
    <3>4. \A i \in DOMAIN q : q[i] = RoomClosedMsg => i = Len(q) /\ roomClosed
      <4> SUFFICES ASSUME NEW i \in DOMAIN q, q[i] = RoomClosedMsg PROVE i = Len(q) /\ roomClosed
        OBVIOUS
      <4>1. i + 1 = Len(msgs[h]) /\ roomClosed
        BY <1>0, <3>2 DEF ClosedIsLast
      <4> QED
        BY <3>2, <4>1
    <3> QED
      BY <1>2, <2>1, <3>2, <3>3, <3>4
  <2> QED
    BY <1>3, <2>2, <2>3 DEF hubReceives, hubStops, Returns
<1>4. ASSUME NEW m \in Broadcasts \cup {RoomClosedMsg}, Deliver(m), ~roomClosed, m = RoomClosedMsg => roomClosed'
      PROVE  ClosedIsLast'
  <2> SUFFICES ASSUME NEW g \in Hubs, NEW i \in DOMAIN msgs'[g], msgs'[g][i] = RoomClosedMsg
               PROVE  i = Len(msgs'[g]) /\ roomClosed'
    BY DEF ClosedIsLast
  <2>1. \A j \in DOMAIN msgs[g] : msgs[g][j] # RoomClosedMsg
    BY <1>0, <1>4 DEF ClosedIsLast
  <2>2. msgs'[g] = IF hubPc[g] = "loop" THEN Append(msgs[g], m) ELSE msgs[g]
    BY <1>4 DEF Deliver
  <2>3. msgs[g] \in Seq(Broadcasts \cup {RoomClosedMsg})
    BY <1>0
  <2>4. /\ Len(Append(msgs[g], m)) = Len(msgs[g]) + 1 
        /\ \A j \in DOMAIN Append(msgs[g], m) : Append(msgs[g], m)[j] = IF j = Len(msgs[g]) + 1 THEN m ELSE msgs[g][j]
        /\ DOMAIN Append(msgs[g], m) = 1..(Len(msgs[g]) + 1) /\ DOMAIN msgs[g] = 1..Len(msgs[g]) /\ Len(msgs[g]) \in Nat
    BY <2>3, AppendFacts
  <2>5. CASE hubPc[g] = "loop"
    <3>1. i \in 1..(Len(msgs[g]) + 1) /\ Append(msgs[g], m)[i] = RoomClosedMsg
      BY <2>2, <2>4, <2>5
    <3>2. i = Len(msgs[g]) + 1
      <4>1. ASSUME i # Len(msgs[g]) + 1 PROVE FALSE
        <5>1. i \in DOMAIN msgs[g] /\ msgs[g][i] = RoomClosedMsg
          BY <2>4, <3>1, <4>1
        <5> QED
          BY <2>1, <5>1
      <4> QED
        BY <4>1
    <3> QED
      BY <1>4, <2>2, <2>4, <2>5, <3>1, <3>2
  <2>6. CASE hubPc[g] # "loop"
    BY <2>1, <2>2, <2>6
  <2> QED
    BY <2>5, <2>6
<1>5. CASE PublishOut
  <2>1. published + 1 \in Broadcasts /\ published + 1 # RoomClosedMsg
    BY <1>0, <1>5, BroadcastsAssumption DEF PublishOut, Broadcasts, RoomClosedMsg
  <2>2. Deliver(published + 1) /\ ~roomClosed
    BY <1>5 DEF PublishOut
  <2> QED
    BY <1>4, <2>1, <2>2
<1>6. CASE PublishRoomClosed
  BY <1>4, <1>6 DEF PublishRoomClosed
<1>7. ASSUME NEW h \in Hubs, onClose(h) \/ disconnectAll(h) PROVE UNCHANGED <<msgs, roomClosed>>
  BY <1>7 DEF onClose, disconnectAll, roomVars
<1>8. ASSUME NEW c \in Conns, \/ ServeHTTP(c) \/ attach(c) \/ attachFails(c) \/ registerConn(c) \/ unregisterConn(c)
                              \/ detach(c) \/ HangUp(c) \/ readFails(c) \/ readLeaves(c) \/ writeMsg(c)
                              \/ writerSeesClosed(c) \/ writerDrained(c) \/ writerSeesCancel(c)
      PROVE  UNCHANGED <<msgs, roomClosed>>
  BY <1>8
  DEF ServeHTTP, attach, attachFails, registerConn, unregisterConn, detach, HangUp, readFails, readLeaves, writeMsg,
      writerSeesClosed, writerDrained, writerSeesCancel, hubVars, roomVars
<1>9. Shutdown \/ Release \/ Exit \/ UNCHANGED vars => UNCHANGED <<msgs, roomClosed>>
  BY DEF Shutdown, Release, Exit, vars, hubVars, roomVars
<1> QED
  BY <1>1, <1>3, <1>5, <1>6, <1>7, <1>8, <1>9, StepCases

\* A broadcast is owed to registered connections only, and what detach leaves is nobody's.
LEMMA NextOwedOpen ==
    ASSUME Inv, [Next]_vars
    PROVE  OwedOpen'
<1>0. /\ OwedOpen /\ ConnsHome /\ connPc \in [Conns -> ConnPc] /\ owed \in [Conns -> SUBSET Broadcasts]
      /\ conns \in [Hubs -> SUBSET Conns]
  BY DEF Inv, TypeOK
<1>1. CASE connPc' = connPc /\ \A c \in Conns : owed'[c] \subseteq owed[c]
  BY <1>0, <1>1 DEF OwedOpen
<1>2. ASSUME NEW c \in Conns, owed' = owed,
             \/ connPc[c] \notin {"open", "detaching"} /\ \E p : connPc' = [connPc EXCEPT ![c] = p]
             \/ connPc' = [connPc EXCEPT ![c] = "detaching"]
      PROVE  OwedOpen'
  BY <1>0, <1>2 DEF OwedOpen
<1>3. ASSUME NEW c \in Conns, ServeHTTP(c) \/ attach(c) \/ attachFails(c) \/ registerConn(c) \/ unregisterConn(c)
      PROVE  OwedOpen'
  <2>1. /\ owed' = owed
        /\ \/ connPc[c] \notin {"open", "detaching"} /\ \E p : connPc' = [connPc EXCEPT ![c] = p]
           \/ connPc' = [connPc EXCEPT ![c] = "detaching"]
    BY <1>3 DEF ServeHTTP, attach, attachFails, registerConn, unregisterConn, chVars
  <2> QED
    BY <1>2, <2>1
<1>4. ASSUME NEW c \in Conns, detach(c) PROVE OwedOpen'
  <2>1. connPc' = [connPc EXCEPT ![c] = "done"] /\ owed' = [owed EXCEPT ![c] = {}]
    BY <1>4 DEF detach
  <2> QED
    BY <1>0, <2>1 DEF OwedOpen
<1>5. CASE PublishOut
  <2>1. /\ connPc' = connPc
        /\ owed' = [c \in Conns |-> IF \E h \in Hubs : hubPc[h] = "loop" /\ c \in conns[h]
                                    THEN owed[c] \cup {published + 1} ELSE owed[c]]
    BY <1>5 DEF PublishOut
  <2>2. \A c \in Conns : (\E h \in Hubs : hubPc[h] = "loop" /\ c \in conns[h]) => connPc[c] = "open"
    BY <1>0 DEF ConnsHome
  <2> QED
    BY <1>0, <2>1, <2>2 DEF OwedOpen
<1>6. ASSUME NEW h \in Hubs, hubReceives(h) \/ hubStops(h) \/ onClose(h) \/ disconnectAll(h)
      PROVE  connPc' = connPc /\ \A c \in Conns : owed'[c] \subseteq owed[c]
  BY <1>6 DEF hubReceives, hubStops, onClose, disconnectAll, connVars, chVars
<1>7. ASSUME NEW c \in Conns, \/ HangUp(c) \/ readFails(c) \/ readLeaves(c) \/ writeMsg(c) \/ writerSeesClosed(c)
                              \/ writerDrained(c) \/ writerSeesCancel(c)
      PROVE  connPc' = connPc /\ \A d \in Conns : owed'[d] \subseteq owed[d]
  <2>1. connPc' = connPc /\ (owed' = owed \/ owed' = [owed EXCEPT ![c] = @ \ {Head(connCh[c])}])
    BY <1>7
    DEF HangUp, readFails, readLeaves, writeMsg, writerSeesClosed, writerDrained, writerSeesCancel, connVars, chVars
  <2> QED
    BY <1>0, <2>1
<1>8. Shutdown \/ PublishRoomClosed \/ Release \/ Exit \/ UNCHANGED vars => connPc' = connPc /\ owed' = owed
  BY DEF Shutdown, PublishRoomClosed, Release, Exit, vars, connVars, chVars
<1> QED
  BY <1>1, <1>3, <1>4, <1>5, <1>6, <1>7, <1>8, StepCases

\* What stays on its way to a connection that the step leaves alone.
LEMMA StillComing ==
    ASSUME Inv, NEW d \in Conns, owed'[d] \subseteq owed[d], writer'[d] # "done" => writer[d] # "done",
           hubOf'[d] = hubOf[d], stop \subseteq stop', ToSet(connCh[d]) \subseteq ToSet(connCh'[d]),
           writer'[d] # "done", hubOf'[d] \notin stop', NEW m \in owed'[d],
           \A h \in Hubs : hubPc[h] = "loop" /\ d \in conns[h] /\ hubOf[d] = h =>
               \/ hubPc'[h] = "loop" /\ d \in conns'[h] /\ (m \in ToSet(msgs[h]) => m \in ToSet(msgs'[h]))
               \/ h \in stop'
    PROVE  Coming(d, m)'
<1>1. OwedComing /\ ConnsHome
  BY DEF Inv
<1>2. Coming(d, m)
  BY <1>1 DEF OwedComing
<1>3. CASE m \in ToSet(connCh[d])
  BY <1>3 DEF Coming
<1>4. ASSUME NEW h \in Hubs, hubPc[h] = "loop", d \in conns[h], m \in ToSet(msgs[h])
      PROVE  Coming(d, m)'
  <2>1. hubOf[d] = h /\ h \notin stop'
    BY <1>1, <1>4 DEF ConnsHome
  <2> QED
    BY <1>4, <2>1 DEF Coming
<1> QED
  BY <1>2, <1>3, <1>4 DEF Coming

\* A broadcast leaves a subscription for every channel that has room and is owed no more
\* where it was dropped; a hub that closes has read all that came before room_closed.
LEMMA NextOwed ==
    ASSUME Inv, [Next]_vars
    PROVE  OwedComing'
<1>0. /\ TypeOK /\ HubsMade /\ HasHub /\ ConnsHome /\ WritersOK /\ ClosedIsLast /\ OwedOpen /\ OwedComing
      /\ connPc \in [Conns -> ConnPc] /\ hubOf \in [Conns -> Hubs \cup {NoHub}] /\ hubPc \in [Hubs -> HubPc]
      /\ conns \in [Hubs -> SUBSET Conns] /\ msgs \in [Hubs -> Seq(Broadcasts \cup {RoomClosedMsg})]
      /\ connCh \in [Conns -> Seq(Broadcasts)] /\ owed \in [Conns -> SUBSET Broadcasts]
      /\ writer \in [Conns -> {"off", "loop", "draining", "drained", "done"}]
  BY DEF Inv, TypeOK
<1> SUFFICES ASSUME NEW d \in Conns, writer'[d] # "done", hubOf'[d] \notin stop', NEW m \in owed'[d]
             PROVE  Coming(d, m)'
  BY DEF OwedComing
<1>1. CASE /\ owed'[d] = owed[d] /\ writer[d] # "done" /\ hubOf'[d] = hubOf[d]
           /\ stop \subseteq stop' /\ connCh'[d] = connCh[d] /\ msgs' = msgs
           /\ \A h \in Hubs : hubPc[h] = "loop" /\ d \in conns[h] => hubPc'[h] = "loop" /\ d \in conns'[h]
  BY <1>1, StillComing
<1>2. ASSUME NEW h \in Hubs, hubReceives(h) PROVE Coming(d, m)'
  <2>1. /\ UNCHANGED <<stop, conns, hubOf, writer>> /\ hubPc[h] = "loop" /\ msgs[h] # <<>>
        /\ msgs[h] \in Seq(Broadcasts \cup {RoomClosedMsg})
    BY <1>0, <1>2 DEF hubReceives
  <2>2. CASE Head(msgs[h]) # RoomClosedMsg
    <3> DEFINE x == Head(msgs[h])
    <3>1. /\ hubPc' = hubPc /\ msgs' = [msgs EXCEPT ![h] = Tail(@)]
          /\ connCh'[d] = IF d \in conns[h] /\ HasRoom(d) THEN Append(connCh[d], x) ELSE connCh[d]
          /\ owed'[d] = IF d \in conns[h] /\ ~HasRoom(d) THEN owed[d] \ {x} ELSE owed[d]
      BY <1>2, <2>2 DEF hubReceives
    <3>2. x \in Broadcasts /\ ToSet(msgs[h]) = ToSet(Tail(msgs[h])) \cup {x}
      BY <2>1, <2>2, TailFacts
    <3>3. ToSet(Append(connCh[d], x)) = ToSet(connCh[d]) \cup {x}
      BY <1>0, <3>2, AppendFacts
    <3> HIDE DEF x
    <3>4. CASE d \in conns[h] /\ m = x
      BY <3>1, <3>3, <3>4 DEF Coming
    <3>5. CASE ~(d \in conns[h] /\ m = x)
      <4>1. ToSet(connCh[d]) \subseteq ToSet(connCh'[d]) /\ owed'[d] \subseteq owed[d]
        BY <3>1, <3>3
      <4>2. ASSUME NEW g \in Hubs, d \in conns[g], m \in ToSet(msgs[g]) PROVE m \in ToSet(msgs'[g])
        <5>1. CASE g = h
          <6>1. msgs'[g] = Tail(msgs[h])
            BY <1>0, <3>1, <5>1
          <6> QED
            BY <3>2, <3>5, <4>2, <5>1, <6>1
        <5>2. CASE g # h
          BY <1>0, <3>1, <4>2, <5>2
        <5> QED
          BY <5>1, <5>2
      <4> QED
        BY <2>1, <3>1, <4>1, <4>2, StillComing
    <3> QED
      BY <3>4, <3>5
  <2>3. CASE Head(msgs[h]) = RoomClosedMsg
    <3>1. /\ hubPc' = [hubPc EXCEPT ![h] = "closed"] /\ msgs' = [msgs EXCEPT ![h] = <<>>]
          /\ owed' = owed /\ connCh' = connCh
      BY <1>2, <2>3 DEF hubReceives, Returns
    <3>2. Len(msgs[h]) = 1 /\ 1 \in DOMAIN msgs[h] /\ msgs[h][1] = RoomClosedMsg
      BY <1>0, <2>1, <2>3, TailFacts DEF ClosedIsLast
    <3>3. ToSet(msgs[h]) = {RoomClosedMsg}
      <4>1. DOMAIN msgs[h] = {1}
        BY <2>1, <3>2
      <4> QED
        BY <3>2, <4>1 DEF ToSet
    <3>4. m # RoomClosedMsg /\ m \in owed[d]
      BY <1>0, <3>1, BroadcastsAssumption DEF Broadcasts, RoomClosedMsg
    <3>5. m \in ToSet(connCh[d]) \/ \E g \in Hubs : hubPc[g] = "loop" /\ d \in conns[g] /\ m \in ToSet(msgs[g])
      BY <1>0, <2>1, <3>4 DEF OwedComing, Coming
    <3>6. ASSUME NEW g \in Hubs, hubPc[g] = "loop", d \in conns[g], m \in ToSet(msgs[g])
          PROVE  hubPc'[g] = "loop" /\ d \in conns'[g] /\ m \in ToSet(msgs'[g])
      <4>1. g # h
        BY <3>3, <3>4, <3>6
      <4> QED
        BY <1>0, <2>1, <3>1, <3>6, <4>1
    <3> QED
      BY <3>1, <3>5, <3>6 DEF Coming
  <2> QED
    BY <2>2, <2>3
<1>3. ASSUME NEW h \in Hubs, hubStops(h) PROVE Coming(d, m)'
  <2>1. /\ UNCHANGED <<stop, conns, connVars>> /\ h \in stop
        /\ hubPc' = [hubPc EXCEPT ![h] = "closed"] /\ msgs' = [msgs EXCEPT ![h] = <<>>]
    BY <1>3 DEF hubStops, Returns
  <2>2. \A g \in Hubs : g = h \/ (hubPc'[g] = hubPc[g] /\ msgs'[g] = msgs[g])
    BY <1>0, <2>1
  <2> QED
    BY <2>1, <2>2, StillComing DEF connVars, chVars
<1>4. ASSUME NEW h \in Hubs, onClose(h) \/ disconnectAll(h) PROVE Coming(d, m)'
  <2>1. /\ UNCHANGED <<stop, conns, msgs, writer, hubOf, connCh, owed>>
        /\ hubPc' = hubPc \/ (hubPc[h] = "closed" /\ hubPc' = [hubPc EXCEPT ![h] = "gone"])
    BY <1>4 DEF onClose, disconnectAll, connVars, chVars
  <2>2. \A g \in Hubs : hubPc[g] = "loop" => hubPc'[g] = "loop"
    BY <1>0, <2>1
  <2> QED
    BY <1>1, <2>1, <2>2
<1>5. ASSUME NEW c \in Conns, attach(c) PROVE Coming(d, m)'
  <2>1. connPc[c] = "checked" /\ UNCHANGED <<stop, conns, msgs, writer, connCh, owed>>
    BY <1>5 DEF attach, chVars
  <2>2. d # c
    BY <1>0, <2>1 DEF OwedOpen
  <2>3. hubOf'[d] = hubOf[d]
    <3>1. \E g : hubOf' = [hubOf EXCEPT ![c] = g]
      BY <1>5 DEF attach
    <3> QED
      BY <1>0, <2>2, <3>1
  <2>4. \A g \in Hubs : hubPc[g] = "loop" => hubPc'[g] = "loop"
    <3>1. hubPc' = hubPc \/ hubPc' = [hubPc EXCEPT ![made + 1] = "loop"]
      BY <1>5 DEF attach
    <3> QED
      BY <1>0, <3>1
  <2> QED
    BY <1>1, <2>1, <2>3, <2>4
<1>6. ASSUME NEW c \in Conns, registerConn(c) PROVE Coming(d, m)'
  <2> DEFINE g == hubOf[c]
  <2>1. /\ connPc[c] = "attached" /\ UNCHANGED <<hubPc, hubOf, stop, msgs, connCh, owed>>
        /\ writer' = [writer EXCEPT ![c] = "loop"]
        /\ conns' = conns \/ conns' = [conns EXCEPT ![g] = @ \cup {c}]
    BY <1>6 DEF registerConn, chVars
  <2>2. d # c
    BY <1>0, <2>1 DEF OwedOpen
  <2>3. writer'[d] = writer[d]
    BY <1>0, <2>1, <2>2
  <2>4. \A h \in Hubs : conns[h] \subseteq conns'[h]
    BY <1>0, <2>1
  <2> QED
    BY <1>1, <2>1, <2>3, <2>4
<1>7. ASSUME NEW c \in Conns, unregisterConn(c) PROVE Coming(d, m)'
  <2> DEFINE g == hubOf[c]
  <2>1. /\ UNCHANGED <<hubPc, hubOf, stop, msgs, writer, connCh, owed>> /\ writer[c] \in {"done", "drained"}
        /\ \/ Closed(g) /\ conns' = conns
           \/ hubPc[g] = "loop" /\ conns' = [conns EXCEPT ![g] = @ \ {c}]
    BY <1>7 DEF unregisterConn, chVars, LoopsDone
  <2>2. CASE conns' = conns
    BY <1>1, <2>1, <2>2
  <2>3. CASE hubPc[g] = "loop" /\ conns' = [conns EXCEPT ![g] = @ \ {c}]
    <3>1. d # c
      BY <1>0, <2>1, <2>3 DEF WritersOK, Closed
    <3>2. \A h \in Hubs : d \in conns[h] => d \in conns'[h]
      BY <1>0, <2>3, <3>1
    <3> QED
      BY <1>1, <2>1, <3>2
  <2> QED
    BY <2>1, <2>2, <2>3
<1>8. ASSUME NEW c \in Conns, detach(c) PROVE Coming(d, m)'
  <2>1. /\ hubOf' = [hubOf EXCEPT ![c] = NoHub] /\ writer' = [writer EXCEPT ![c] = "off"]
        /\ connCh' = [connCh EXCEPT ![c] = <<>>] /\ owed' = [owed EXCEPT ![c] = {}]
        /\ UNCHANGED <<hubPc, msgs, conns>> /\ stop \subseteq stop'
    BY <1>8 DEF detach
  <2>2. d # c
    BY <1>0, <2>1
  <2>3. hubOf'[d] = hubOf[d] /\ writer'[d] = writer[d] /\ connCh'[d] = connCh[d] /\ owed'[d] = owed[d]
    BY <1>0, <2>1, <2>2
  <2> QED
    BY <1>1, <2>1, <2>3
<1>9. ASSUME NEW c \in Conns, writeMsg(c) PROVE Coming(d, m)'
  <2>1. /\ UNCHANGED <<hubPc, hubOf, stop, msgs, conns>> /\ connCh[c] # <<>> /\ writer[c] # "done"
        /\ connCh' = [connCh EXCEPT ![c] = Tail(@)]
        /\ \/ owed' = [owed EXCEPT ![c] = @ \ {Head(connCh[c])}] /\ writer' = writer
           \/ owed' = owed /\ writer' = [writer EXCEPT ![c] = "done"]
    BY <1>9 DEF writeMsg, hubVars
  <2>2. CASE d # c
    <3>1. writer'[d] = writer[d] /\ connCh'[d] = connCh[d] /\ owed'[d] = owed[d]
      BY <1>0, <2>1, <2>2
    <3> QED
      BY <1>1, <2>1, <3>1
  <2>3. CASE d = c
    <3>1. /\ writer' = writer /\ owed'[d] = owed[d] \ {Head(connCh[d])} /\ connCh'[d] = Tail(connCh[d])
          /\ connCh[d] \in Seq(Broadcasts)
      BY <1>0, <2>1, <2>3
    <3>2. ToSet(connCh[d]) = ToSet(Tail(connCh[d])) \cup {Head(connCh[d])}
      BY <2>1, <2>3, <3>1, TailFacts
    <3>3. Coming(d, m)
      BY <1>0, <2>1, <3>1 DEF OwedComing
    <3> QED
      BY <2>1, <3>1, <3>2, <3>3 DEF Coming
  <2> QED
    BY <2>2, <2>3
<1>10. CASE PublishOut
  <2>1. /\ published + 1 \in Broadcasts \cup {RoomClosedMsg} /\ Deliver(published + 1)
        /\ UNCHANGED <<hubPc, stop, conns, hubOf, writer, connCh>>
        /\ owed'[d] = IF \E h \in Hubs : hubPc[h] = "loop" /\ d \in conns[h]
                      THEN owed[d] \cup {published + 1} ELSE owed[d]
    <3>1. published \in 0..MaxBroadcasts /\ published < MaxBroadcasts
      BY <1>0, <1>10 DEF PublishOut, TypeOK
    <3>2. published + 1 \in Broadcasts
      BY <3>1, BroadcastsAssumption DEF Broadcasts
    <3> QED
      BY <1>10, <3>2 DEF PublishOut
  <2>2. \A h \in Hubs : hubPc[h] = "loop" => ToSet(msgs'[h]) = ToSet(msgs[h]) \cup {published + 1}
    <3> SUFFICES ASSUME NEW h \in Hubs, hubPc[h] = "loop"
                 PROVE  ToSet(msgs'[h]) = ToSet(msgs[h]) \cup {published + 1}
      OBVIOUS
    <3>1. msgs'[h] = Append(msgs[h], published + 1) /\ msgs[h] \in Seq(Broadcasts \cup {RoomClosedMsg})
      BY <1>0, <2>1 DEF Deliver
    <3>2. ToSet(Append(msgs[h], published + 1)) = ToSet(msgs[h]) \cup {published + 1}
      BY <2>1, <3>1, AppendFacts
    <3> QED
      BY <3>1, <3>2
  <2>3. CASE m \in owed[d]
    <3>1. Coming(d, m)
      BY <1>0, <2>1, <2>3 DEF OwedComing
    <3> QED
      BY <2>1, <2>2, <3>1 DEF Coming
  <2>4. CASE m \notin owed[d]
    BY <2>1, <2>2, <2>4 DEF Coming
  <2> QED
    BY <2>3, <2>4
<1>11. CASE PublishRoomClosed
  <2>1. Deliver(RoomClosedMsg) /\ UNCHANGED <<hubPc, stop, conns, hubOf, writer, connCh, owed>>
    BY <1>11 DEF PublishRoomClosed, connVars, chVars
  <2>2. \A h \in Hubs : hubPc[h] = "loop" => ToSet(msgs'[h]) = ToSet(msgs[h]) \cup {RoomClosedMsg}
    <3> SUFFICES ASSUME NEW h \in Hubs, hubPc[h] = "loop"
                 PROVE  ToSet(msgs'[h]) = ToSet(msgs[h]) \cup {RoomClosedMsg}
      OBVIOUS
    <3>1. msgs'[h] = Append(msgs[h], RoomClosedMsg) /\ msgs[h] \in Seq(Broadcasts \cup {RoomClosedMsg})
      BY <1>0, <2>1 DEF Deliver
    <3>2. ToSet(Append(msgs[h], RoomClosedMsg)) = ToSet(msgs[h]) \cup {RoomClosedMsg}
      BY <2>1, <3>1, AppendFacts
    <3> QED
      BY <3>1, <3>2
  <2>3. Coming(d, m)
    BY <1>0, <2>1 DEF OwedComing
  <2> QED
    BY <2>1, <2>2, <2>3 DEF Coming
<1>12. ASSUME NEW c \in Conns, writerSeesClosed(c) \/ writerDrained(c) \/ writerSeesCancel(c)
       PROVE  Coming(d, m)'
  <2>1. /\ UNCHANGED <<hubPc, hubOf, stop, msgs, conns, connCh, owed>>
        /\ writer[c] # "done" /\ \E w : writer' = [writer EXCEPT ![c] = w]
    BY <1>12 DEF writerSeesClosed, writerDrained, writerSeesCancel, hubVars, chVars
  <2>2. writer[d] # "done"
    BY <1>0, <2>1
  <2> QED
    BY <1>1, <2>1, <2>2
<1>13. ASSUME NEW c \in Conns, ServeHTTP(c) \/ attachFails(c) \/ HangUp(c) \/ readFails(c) \/ readLeaves(c)
       PROVE  UNCHANGED <<hubPc, hubOf, stop, msgs, conns, writer, connCh, owed>>
  BY <1>13 DEF ServeHTTP, attachFails, HangUp, readFails, readLeaves, hubVars, connVars, chVars
<1>14. Shutdown \/ Release \/ Exit \/ UNCHANGED vars =>
         UNCHANGED <<hubPc, hubOf, stop, msgs, conns, writer, connCh, owed>>
  BY DEF Shutdown, Release, Exit, vars, hubVars, connVars, chVars
<1>15. CASE UNCHANGED <<hubPc, hubOf, stop, msgs, conns, writer, connCh, owed>>
  BY <1>1, <1>15
<1> QED
  BY <1>2, <1>3, <1>4, <1>5, <1>6, <1>7, <1>8, <1>9, <1>10, <1>11, <1>12, <1>13, <1>14, <1>15, StepCases

-----------------------------------------------------------------------------
(* The theorems.                                                            *)

\* No connection has been attempted, and no hub made.
LEMMA InitInv == Init => Inv
<1> SUFFICES ASSUME Init PROVE Inv
  OBVIOUS
<1>1. Cardinality(Conns) \in Nat
  BY ConnsAssumption, FS_CardinalityType
<1>2. Attached = {} /\ Cardinality(Attached) = 0
  BY FS_EmptySet DEF Init, Attached
<1>3. \A S : <<>> \in Seq(S)
  OBVIOUS
<1>4. Len(<<>>) = 0 /\ DOMAIN <<>> = {}
  OBVIOUS
<1>5. TypeOK /\ EntryType
  <2>1. entry = NoEntry /\ EntryType /\ made \in 0..Cardinality(Conns)
    BY <1>1 DEF Init, EntryType, NoEntry, NoHub
  <2>2. /\ hubPc \in [Hubs -> HubPc] /\ stop \subseteq Hubs /\ toDisconnect \subseteq Hubs
        /\ gateway \in {"up", "stopping", "exited"} /\ conns \in [Hubs -> SUBSET Conns]
    BY DEF Init, HubPc
  <2>3. msgs \in [Hubs -> Seq(Broadcasts \cup {RoomClosedMsg})] /\ connCh \in [Conns -> Seq(Broadcasts)]
    BY <1>3 DEF Init
  <2>4. /\ connPc \in [Conns -> ConnPc] /\ hubOf \in [Conns -> Hubs \cup {NoHub}]
        /\ reader \in [Conns -> {"off", "loop", "done"}]
        /\ writer \in [Conns -> {"off", "loop", "draining", "drained", "done"}]
        /\ owed \in [Conns -> SUBSET Broadcasts]
    BY DEF Init, ConnPc
  <2>5. \A c \in Conns : Len(connCh[c]) <= ConnBufferSize
    <3>1. 0 <= ConnBufferSize
      BY BufferAssumption
    <3>2. \A c \in Conns : connCh[c] = <<>>
      BY DEF Init
    <3> QED
      BY <1>4, <3>1, <3>2
  <2>6. /\ cancelled \subseteq Conns /\ hungUp \subseteq Conns /\ quit \subseteq Conns /\ reported \subseteq Conns
        /\ roomClosed \in BOOLEAN /\ owned \in BOOLEAN
    BY DEF Init
  <2>7. published \in 0..MaxBroadcasts
    BY BroadcastsAssumption DEF Init
  <2> QED
    BY <2>1, <2>2, <2>3, <2>4, <2>5, <2>6, <2>7 DEF TypeOK
<1>6. HubsMade
  BY <1>2 DEF Init, HubsMade
<1>7. HasHub /\ ConnsHome /\ WritersOK /\ OwedOpen /\ OwedComing
  BY DEF Init, HasHub, Held, ConnsHome, WritersOK, OwedOpen, OwedComing
<1>8. ClosedIsLast
  BY <1>4 DEF Init, ClosedIsLast
<1> QED
  BY <1>5, <1>6, <1>7, <1>8 DEF Inv

\* Every step of every goroutine, client and room keeps the invariant.
LEMMA NextInv == Inv /\ [Next]_vars => Inv'
BY NextType, NextMade, NextHasHub, NextHome, NextWriters, NextClosedLast, NextOwedOpen, NextOwed DEF Inv

\* The inductive invariant holds throughout.
LEMMA Invariance == Spec => []Inv
<1>1. Init => Inv
  BY InitInv
<1>2. Inv /\ [Next]_vars => Inv'
  BY NextInv
<1> QED
  BY <1>1, <1>2, PTL DEF Spec

\* Every variable keeps its type, no connection's channel grows past its capacity, and the
\* entry is always for a hub that attach made (racehub.go's attach and detach).
THEOREM RaceHubTypeCorrect == Spec => []TypeOK
<1>1. Inv => TypeOK
  BY DEF Inv
<1> QED
  BY <1>1, Invariance, PTL

\* No running hub keeps a connection that has unregistered: unregisterConn waits for run to
\* take the connection out, or gives up only on a hub that has closed (racehub.go:165-184).
THEOREM NoGhosts == Spec => []NoGhostConnections
<1>1. Inv => NoGhostConnections
  BY DEF Inv, ConnsHome, NoGhostConnections
<1> QED
  BY <1>1, Invariance, PTL

\* A writer that ends because its hub closed has written everything published while its
\* connection was registered, save what a full channel dropped (endpoint.go:322-329).
THEOREM ClosingLosesNothing == Spec => []FinalBroadcastDelivered
<1>1. ASSUME Inv PROVE FinalBroadcastDelivered
  <2> SUFFICES ASSUME NEW c \in Conns, writer[c] = "drained", hubOf[c] \notin stop, NEW m \in owed[c]
               PROVE  FALSE
    BY <1>1 DEF FinalBroadcastDelivered, Inv, TypeOK
  <2>1. Closed(hubOf[c]) /\ connCh[c] = <<>>
    BY <1>1 DEF Inv, WritersOK
  <2>2. \A h \in Hubs : hubPc[h] = "loop" => c \notin conns[h]
    BY <1>1, <2>1 DEF Inv, ConnsHome, Closed
  <2>3. ToSet(connCh[c]) = {}
    BY <2>1 DEF ToSet
  <2> QED
    BY <1>1, <2>2, <2>3 DEF Inv, OwedComing, Coming
<1> QED
  BY <1>1, Invariance, PTL

==============================================================================
