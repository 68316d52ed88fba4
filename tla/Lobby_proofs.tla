---------------------------- MODULE Lobby_proofs -----------------------------
(***************************************************************************)
(* Theorems about Lobby: what holds of races and race_participants however *)
(* the statements of any number of concurrent handlers interleave with     *)
(* each other, with the rooms, with failing calls and with crashes.        *)
(***************************************************************************)
EXTENDS Lobby, FiniteSetTheorems, TLAPS

\* A handler past its first statement knows its user and its race, and that race
\* has a row in races.
ReqOK ==
    \A q \in Requests :
        /\ req[q].pc # "idle" => req[q].user \in Users
        /\ req[q].pc \notin {"idle", "newRace"} => req[q].race \in Races /\ status[req[q].race] # NoRow

\* An id that is not in use has no participants.
FreshIdEmpty == \A r \in Races : status[r] = NoRow => rows[r] = {}

\* The user a Create is about to sign a token for has a row, unless they left.
SpawnHasRow ==
    \A q \in Requests :
        req[q].pc = "spawn" =>
            req[q].user \in rows[req[q].race] \/ <<req[q].race, req[q].user>> \in left

\* Between the UPDATE and the announcement, the text travels in a handler and then
\* in the actor's inbox; Postgres has the race started all along.
StartUnderWay(r) ==
    \/ told[r] # {} \/ mail[r] # <<>>
    \/ \E q \in Requests : req[q].pc = "markActive" /\ req[q].race = r
StartedInPostgres ==
    \A r \in Races :
        StartUnderWay(r) => promptText[r] # NoText /\ status[r] \in {"active", "finished"}

\* A pending race has a room, or a Create that will make one, or lost it with one.
PendingHasRoom ==
    \A r \in Races : status[r] = "pending" =>
        \/ room[r] \in {"lobby", "active"} \/ r \in orphaned
        \/ \E q \in Requests : req[q].race = r /\ req[q].pc \in {"addCreator", "spawn"}

Inv ==
    /\ TypeOK /\ ReqOK /\ FreshIdEmpty
    /\ OvershootBounded /\ TokenHasRow /\ SpawnHasRow /\ StartedInPostgres /\ PendingHasRoom

-----------------------------------------------------------------------------
(* Types.                                                                   *)

\* A handler that has answered.
LEMMA AnswerType ==
    ASSUME TypeOK, NEW q \in Requests, Answer(q)
    PROVE  /\ req' \in [Requests -> Request]
           /\ req'[q] = Idle
           /\ \A x \in Requests \ {q} : req'[x] = req[x]
  BY AttemptsAssumption DEF TypeOK, Answer, Idle, Request, Pc

\* A handler that goes on to its next statement keeps everything else.
LEMMA GotoType ==
    ASSUME TypeOK, NEW q \in Requests, NEW pc \in Pc, Goto(q, pc)
    PROVE  /\ req' \in [Requests -> Request]
           /\ req'[q].pc = pc /\ req'[q].user = req[q].user /\ req'[q].race = req[q].race
           /\ req'[q].pending = req[q].pending
           /\ \A x \in Requests \ {q} : req'[x] = req[x]
  BY DEF TypeOK, Goto, Request

\* A handler that takes up a request.
LEMMA ReceivesType ==
    ASSUME TypeOK, NEW q \in Requests, NEW u \in Users, NEW r \in Races \cup {NoRace},
           NEW pc \in Pc, Receives(q, u, r, pc)
    PROVE  /\ req' \in [Requests -> Request]
           /\ req'[q].pc = pc /\ req'[q].user = u /\ req'[q].race = r
           /\ \A x \in Requests \ {q} : req'[x] = req[x]
  BY AttemptsAssumption DEF TypeOK, Receives, Idle, Request, Pc

\* A Create that got a fresh id.
LEMMA CreatedType ==
    ASSUME TypeOK, NEW q \in Requests, NEW r \in Races,
           req' = [req EXCEPT ![q].pc = "addCreator", ![q].race = r]
    PROVE  /\ req' \in [Requests -> Request]
           /\ req'[q].pc = "addCreator" /\ req'[q].user = req[q].user /\ req'[q].race = r
           /\ \A x \in Requests \ {q} : req'[x] = req[x]
<1> DEFINE f == [req EXCEPT ![q].pc = "addCreator"]
<1>1. /\ f \in [Requests -> Request]
      /\ f[q].pc = "addCreator" /\ f[q].user = req[q].user
      /\ \A x \in Requests \ {q} : f[x] = req[x]
  BY DEF TypeOK, Request, Pc
<1>2. req' = [f EXCEPT ![q].race = r]
  OBVIOUS
<1> DEFINE p == [f[q] EXCEPT !.race = r]
<1>3. f[q] \in Request
  BY <1>1
<1>4. req' = [f EXCEPT ![q] = p]
  BY <1>2
<1> HIDE DEF f
<1>5. p \in Request /\ p.pc = f[q].pc /\ p.user = f[q].user /\ p.race = r
  BY <1>3 DEF Request
<1> HIDE DEF p
<1> QED
  BY <1>1, <1>4, <1>5

\* A Create that tries another id.
LEMMA RetryType ==
    ASSUME TypeOK, NEW q \in Requests, MayRetry(req[q].attempt),
           req' = [req EXCEPT ![q].attempt = @ + 1]
    PROVE  /\ req' \in [Requests -> Request]
           /\ \A x \in Requests : /\ req'[x].pc = req[x].pc /\ req'[x].user = req[x].user
                                  /\ req'[x].race = req[x].race
<1>1. req[q] \in Request /\ req[q].attempt \in 0..(MaxCreateRaceAttempts - 1)
  BY DEF TypeOK, Request
<1>2. req[q].attempt + 1 \in 0..(MaxCreateRaceAttempts - 1)
  BY <1>1, AttemptsAssumption DEF MayRetry
<1>3. req' = [req EXCEPT ![q].attempt = req[q].attempt + 1]
  OBVIOUS
<1> DEFINE p == [req[q] EXCEPT !.attempt = req[q].attempt + 1]
<1>4. req' = [req EXCEPT ![q] = p]
  BY <1>3
<1>5. p \in Request /\ p.pc = req[q].pc /\ p.user = req[q].user /\ p.race = req[q].race
  BY <1>1, <1>2 DEF Request
<1> HIDE DEF p
<1> QED
  BY <1>4, <1>5 DEF TypeOK

\* Rows of races are never deleted.
StatusKept == \A r \in Races : status[r] # NoRow => status'[r] # NoRow

\* A handler that answers leaves the others knowing what they knew.
LEMMA AnswerReqOK ==
    ASSUME TypeOK, ReqOK, NEW q \in Requests, Answer(q), StatusKept
    PROVE  ReqOK'
<1>1. req'[q].pc = "idle" /\ \A x \in Requests \ {q} : req'[x] = req[x]
  BY AnswerType DEF Idle
<1> QED
  BY <1>1 DEF ReqOK, StatusKept

\* So does one that goes on, which keeps its own user and race.
LEMMA GotoReqOK ==
    ASSUME TypeOK, ReqOK, NEW q \in Requests, NEW pc \in Pc, Goto(q, pc),
           req[q].pc \notin {"idle", "newRace"}, StatusKept
    PROVE  ReqOK'
<1>1. /\ req'[q].pc = pc /\ req'[q].user = req[q].user /\ req'[q].race = req[q].race
      /\ \A x \in Requests \ {q} : req'[x] = req[x]
  BY GotoType
<1> QED
  BY <1>1 DEF ReqOK, StatusKept

\* The statements keep every variable in its type, and every handler knows its
\* user and the race it works on.
LEMMA NextType ==
    ASSUME TypeOK, ReqOK, [Next]_vars
    PROVE  TypeOK' /\ ReqOK'
<1> USE NullAssumption
<1>1. ASSUME NEW q \in Requests, NEW u \in Users, CreateReceives(q, u)
      PROVE  TypeOK' /\ ReqOK'
  <2>1. Receives(q, u, NoRace, "newRace")
    BY <1>1 DEF CreateReceives
  <2>2. "newRace" \in Pc
    BY DEF Pc
  <2>3. /\ req' \in [Requests -> Request]
        /\ req'[q].pc = "newRace" /\ req'[q].user = u
        /\ \A x \in Requests \ {q} : req'[x] = req[x]
    BY <2>1, <2>2, ReceivesType
  <2>4. TypeOK'
    BY <1>1, <2>3 DEF CreateReceives, TypeOK, dbVars, roomVars, historyVars
  <2>5. ReqOK'
    BY <1>1, <2>3 DEF CreateReceives, ReqOK, dbVars
  <2> QED
    BY <2>4, <2>5
<1>2. ASSUME NEW q \in Requests, NEW r \in Races, CreateRace(q, r)
      PROVE  TypeOK' /\ ReqOK'
  <2>1. req[q].user \in Users
    BY <1>2 DEF CreateRace, ReqOK
  <2>2. CASE ~IdTaken(r)
    <3>1. status' \in [Races -> Status \cup {NoRow}] /\ createdBy' \in [Races -> Users \cup {NoUser}]
      BY <1>2, <2>1, <2>2 DEF CreateRace, InsertRace, TypeOK, Status
    <3>2. /\ req' \in [Requests -> Request]
          /\ req'[q].pc = "addCreator" /\ req'[q].race = r /\ req'[q].user = req[q].user
          /\ \A x \in Requests \ {q} : req'[x] = req[x]
      BY <1>2, <2>2, CreatedType DEF CreateRace
    <3>3. status' = [status EXCEPT ![r] = "pending"]
      BY <1>2, <2>2 DEF CreateRace, InsertRace
    <3>4. TypeOK'
      BY <1>2, <3>1, <3>2 DEF CreateRace, TypeOK, roomVars, historyVars
    <3>5. ReqOK'
      BY <2>1, <3>2, <3>3 DEF TypeOK, ReqOK, NoRow
    <3> QED
      BY <3>4, <3>5
  <2>3. CASE IdTaken(r)
    <3>1. req' \in [Requests -> Request]
      <4>1. CASE MayRetry(req[q].attempt)
        BY <1>2, <2>3, <4>1, RetryType DEF CreateRace
      <4>2. CASE Answer(q)
        BY <4>2, AnswerType
      <4> QED
        BY <1>2, <2>3, <4>1, <4>2 DEF CreateRace
    <3>2. \A x \in Requests : \/ req'[x] = Idle
                              \/ /\ req'[x].pc = req[x].pc /\ req'[x].user = req[x].user
                                 /\ req'[x].race = req[x].race
      <4>1. CASE MayRetry(req[q].attempt)
        BY <1>2, <2>3, <4>1, RetryType DEF CreateRace
      <4>2. CASE Answer(q)
        BY <4>2, AnswerType
      <4> QED
        BY <1>2, <2>3, <4>1, <4>2 DEF CreateRace
    <3>3. TypeOK'
      BY <1>2, <2>3, <3>1 DEF CreateRace, TypeOK, roomVars, historyVars
    <3>4. ReqOK'
      BY <1>2, <2>3, <3>2 DEF CreateRace, ReqOK, Idle
    <3> QED
      BY <3>3, <3>4
  <2> QED
    BY <2>2, <2>3
<1>3. ASSUME NEW q \in Requests, CreatorAdded(q)
      PROVE  TypeOK' /\ ReqOK'
  <2>1. req[q].user \in Users /\ req[q].race \in Races
    BY <1>3 DEF CreatorAdded, ReqOK
  <2>2. CASE Goto(q, "spawn") /\ InsertRow(req[q].race, req[q].user) /\ UNCHANGED orphaned
    <3>1. rows' \in [Races -> SUBSET Users]
      BY <2>1, <2>2 DEF InsertRow, TypeOK
    <3>2. TypeOK'
      BY <1>3, <2>2, <3>1, GotoType DEF CreatorAdded, TypeOK, Pc, roomVars
    <3>3. ReqOK'
      BY <1>3, <2>2, GotoReqOK DEF CreatorAdded, StatusKept, Pc
    <3> QED
      BY <3>2, <3>3
  <2>3. CASE Answer(q) /\ orphaned' = orphaned \cup {req[q].race} /\ UNCHANGED rows
    <3>1. TypeOK'
      BY <1>3, <2>1, <2>3, AnswerType DEF CreatorAdded, TypeOK, roomVars
    <3>2. ReqOK'
      BY <1>3, <2>3, AnswerReqOK DEF CreatorAdded, StatusKept
    <3> QED
      BY <3>1, <3>2
  <2> QED
    BY <1>3, <2>2, <2>3 DEF CreatorAdded
<1>4. ASSUME NEW q \in Requests, Spawn(q)
      PROVE  TypeOK' /\ ReqOK'
  <2>1. req[q].user \in Users /\ req[q].race \in Races
    BY <1>4 DEF Spawn, ReqOK
  <2>2. TypeOK'
    BY <1>4, <2>1, AnswerType DEF Spawn, TypeOK, dbVars
  <2>3. ReqOK'
    BY <1>4, AnswerReqOK DEF Spawn, StatusKept, dbVars
  <2> QED
    BY <2>2, <2>3
<1>5. ASSUME NEW q \in Requests, NEW u \in Users, NEW r \in Races, JoinGetRace(q, u, r)
      PROVE  TypeOK' /\ ReqOK'
  <2>1. (status[r] = "pending") \in BOOLEAN
    OBVIOUS
  <2>2. /\ req' \in [Requests -> Request]
        /\ req'[q].user = u /\ req'[q].race = r
        /\ \A x \in Requests \ {q} : req'[x] = req[x]
    BY <1>5, <2>1, AttemptsAssumption DEF JoinGetRace, TypeOK, Request, Idle, Pc
  <2>3. TypeOK'
    BY <1>5, <2>2 DEF JoinGetRace, TypeOK, dbVars, roomVars, historyVars
  <2>4. ReqOK'
    BY <1>5, <2>2 DEF JoinGetRace, ReqOK, dbVars
  <2> QED
    BY <2>3, <2>4
<1>6. ASSUME NEW q \in Requests, NEW u \in Users, NEW r \in Races, StartGetRace(q, u, r)
      PROVE  TypeOK' /\ ReqOK'
  <2>1. Receives(q, u, r, "update")
    BY <1>6 DEF StartGetRace
  <2>2. TypeOK'
    BY <1>6, <2>1, ReceivesType DEF StartGetRace, TypeOK, Pc, dbVars, roomVars, historyVars
  <2>3. ReqOK'
    BY <1>6, <2>1, ReceivesType DEF StartGetRace, ReqOK, Pc, dbVars, Idle, NoRow
  <2> QED
    BY <2>2, <2>3
<1>7. ASSUME NEW q \in Requests, IsParticipant(q)
      PROVE  TypeOK' /\ ReqOK'
  <2>1. req[q].user \in Users /\ req[q].race \in Races
    BY <1>7 DEF IsParticipant, ReqOK
  <2>2. tokens' \subseteq Races \X Users
    BY <1>7, <2>1 DEF IsParticipant, TypeOK
  <2>3. CASE Answer(q)
    <3>1. TypeOK'
      BY <1>7, <2>2, <2>3, AnswerType DEF IsParticipant, TypeOK, dbVars, roomVars
    <3>2. ReqOK'
      BY <1>7, <2>3, AnswerReqOK DEF IsParticipant, StatusKept, dbVars
    <3> QED
      BY <3>1, <3>2
  <2>4. CASE Goto(q, "count")
    <3>1. TypeOK'
      BY <1>7, <2>2, <2>4, GotoType DEF IsParticipant, TypeOK, Pc, dbVars, roomVars
    <3>2. ReqOK'
      BY <1>7, <2>4, GotoReqOK DEF IsParticipant, StatusKept, Pc, dbVars
    <3> QED
      BY <3>1, <3>2
  <2> QED
    BY <1>7, <2>3, <2>4 DEF IsParticipant
<1>8. ASSUME NEW q \in Requests, CountParticipants(q)
      PROVE  TypeOK' /\ ReqOK'
  <2>1. CASE Answer(q)
    <3>1. TypeOK'
      BY <1>8, <2>1, AnswerType DEF CountParticipants, TypeOK, dbVars, roomVars, historyVars
    <3>2. ReqOK'
      BY <1>8, <2>1, AnswerReqOK DEF CountParticipants, StatusKept, dbVars
    <3> QED
      BY <3>1, <3>2
  <2>2. CASE Goto(q, "insert")
    <3>1. TypeOK'
      BY <1>8, <2>2, GotoType DEF CountParticipants, TypeOK, Pc, dbVars, roomVars, historyVars
    <3>2. ReqOK'
      BY <1>8, <2>2, GotoReqOK DEF CountParticipants, StatusKept, Pc, dbVars
    <3> QED
      BY <3>1, <3>2
  <2> QED
    BY <1>8, <2>1, <2>2 DEF CountParticipants
<1>9. ASSUME NEW q \in Requests, AddParticipant(q)
      PROVE  TypeOK' /\ ReqOK'
  <2>1. req[q].user \in Users /\ req[q].race \in Races
    BY <1>9 DEF AddParticipant, ReqOK
  <2>2. rows' \in [Races -> SUBSET Users]
    <3>1. CASE InsertRow(req[q].race, req[q].user)
      BY <2>1, <3>1 DEF InsertRow, TypeOK
    <3>2. CASE UNCHANGED rows
      BY <3>2 DEF TypeOK
    <3> QED
      BY <1>9, <3>1, <3>2 DEF AddParticipant
  <2>5. tokens' \subseteq Races \X Users
    BY <1>9, <2>1 DEF AddParticipant, TypeOK
  <2>3. TypeOK'
    BY <1>9, <2>2, <2>5, AnswerType DEF AddParticipant, TypeOK, roomVars
  <2>4. ReqOK'
    BY <1>9, AnswerReqOK DEF AddParticipant, StatusKept
  <2> QED
    BY <2>3, <2>4
<1>10. ASSUME NEW q \in Requests, StartRace(q)
       PROVE  TypeOK' /\ ReqOK'
  <2>1. req[q].race \in Races
    BY <1>10 DEF StartRace, ReqOK
  <2>2. status' \in [Races -> Status \cup {NoRow}] /\ promptText' \in [Races -> Requests \cup {NoText}]
    BY <1>10, <2>1 DEF StartRace, UpdateActive, TypeOK, Status
  <2>3. TypeOK'
    BY <1>10, <2>2, GotoType DEF StartRace, TypeOK, Pc, roomVars, historyVars
  <2>4. StatusKept
    BY <1>10, <2>1 DEF StartRace, UpdateActive, TypeOK, StatusKept, NoRow
  <2>5. ReqOK'
    BY <1>10, <2>4, GotoReqOK DEF StartRace, Pc
  <2> QED
    BY <2>3, <2>5
<1>11. ASSUME NEW q \in Requests, MarkActive(q)
       PROVE  TypeOK' /\ ReqOK'
  <2>1. mail' \in [Races -> Seq(Requests)]
    BY <1>11 DEF MarkActive, ReqOK, TypeOK
  <2>2. TypeOK'
    BY <1>11, <2>1, AnswerType DEF MarkActive, TypeOK, dbVars, historyVars
  <2>3. ReqOK'
    BY <1>11, AnswerReqOK DEF MarkActive, StatusKept, dbVars
  <2> QED
    BY <2>2, <2>3
<1>12. ASSUME NEW q \in Requests, Fails(q)
       PROVE  TypeOK' /\ ReqOK'
  <2>1. orphaned' \subseteq Races
    BY <1>12 DEF Fails, Orphans, ReqOK, TypeOK
  <2>2. faults' \in 0..MaxFaults
    BY <1>12, FaultsAssumption DEF Fails, Fault, TypeOK
  <2>3. TypeOK'
    BY <1>12, <2>1, <2>2, AnswerType DEF Fails, TypeOK, dbVars, roomVars
  <2>4. ReqOK'
    BY <1>12, AnswerReqOK DEF Fails, StatusKept, dbVars
  <2> QED
    BY <2>3, <2>4
<1>13. ASSUME NEW q \in Requests, FailsAfterWrite(q)
       PROVE  TypeOK' /\ ReqOK'
  <2>1. faults' \in 0..MaxFaults
    BY <1>13, FaultsAssumption DEF FailsAfterWrite, Fault, TypeOK
  <2>2. req[q].user \in Users /\ (req[q].pc # "newRace" => req[q].race \in Races)
    BY <1>13 DEF FailsAfterWrite, ReqOK
  <2>3. /\ status' \in [Races -> Status \cup {NoRow}] /\ createdBy' \in [Races -> Users \cup {NoUser}]
        /\ promptText' \in [Races -> Requests \cup {NoText}] /\ rows' \in [Races -> SUBSET Users]
        /\ orphaned' \subseteq Races
    <3>1. CASE req[q].pc = "newRace"
      <4>1. PICK new \in Races : InsertRace(new, req[q].user) /\ orphaned' = orphaned \cup {new}
        BY <1>13, <3>1 DEF FailsAfterWrite
      <4> QED
        BY <1>13, <2>2, <3>1, <4>1 DEF FailsAfterWrite, InsertRace, TypeOK, Status
    <3>2. CASE req[q].pc \in {"addCreator", "insert"}
      <4>1. InsertRow(req[q].race, req[q].user) /\ Orphans(q) /\ UNCHANGED <<status, createdBy, promptText>>
        BY <1>13, <3>2 DEF FailsAfterWrite
      <4>2. rows' \in [Races -> SUBSET Users]
        BY <2>2, <3>2, <4>1 DEF InsertRow, TypeOK
      <4>3. orphaned' \subseteq Races
        BY <2>2, <3>2, <4>1 DEF Orphans, TypeOK
      <4> QED
        BY <4>1, <4>2, <4>3 DEF TypeOK
    <3>3. CASE req[q].pc = "update"
      <4>1. UpdateActive(req[q].race, q) /\ UNCHANGED <<createdBy, rows, orphaned>>
        BY <1>13, <3>3 DEF FailsAfterWrite
      <4> QED
        BY <2>2, <3>3, <4>1 DEF UpdateActive, TypeOK, Status
    <3> QED
      BY <1>13, <3>1, <3>2, <3>3 DEF FailsAfterWrite
  <2>4. StatusKept
    BY <1>13, <2>2 DEF FailsAfterWrite, InsertRace, UpdateActive, TypeOK, StatusKept, NoRow
  <2>5. Answer(q)
    BY <1>13 DEF FailsAfterWrite
  <2>6. TypeOK'
    BY <1>13, <2>1, <2>3, <2>5, AnswerType DEF FailsAfterWrite, TypeOK, roomVars
  <2>7. ReqOK'
    BY <2>4, <2>5, AnswerReqOK
  <2> QED
    BY <2>6, <2>7
<1>14. CASE Crash
  <2>1. faults' \in 0..MaxFaults
    BY <1>14, FaultsAssumption DEF Crash, Fault, TypeOK
  <2>2. mail' \in [Races -> Seq(Requests)]
    BY <1>14 DEF Crash
  <2>3. req' \in [Requests -> Request]
    BY <1>14, AttemptsAssumption DEF Crash, Idle, Request, Pc
  <2>4. orphaned' \subseteq Races
    BY <1>14 DEF Crash
  <2>5. TypeOK'
    BY <1>14, <2>1, <2>2, <2>3, <2>4 DEF Crash, TypeOK, dbVars
  <2>6. ReqOK'
    BY <1>14 DEF Crash, ReqOK, Idle
  <2> QED
    BY <2>5, <2>6
<1>15. ASSUME NEW r \in Races, NEW u \in Users, LeaveGetRace(r, u)
       PROVE  TypeOK' /\ ReqOK'
  <2>1. TypeOK'
    BY <1>15 DEF LeaveGetRace, TypeOK, dbVars, historyVars
  <2>2. ReqOK'
    BY <1>15 DEF LeaveGetRace, ReqOK, dbVars
  <2> QED
    BY <2>1, <2>2
<1>16. ASSUME NEW r \in Races, RemoveParticipant(r)
       PROVE  TypeOK' /\ ReqOK'
  <2>1. leaving[r] \in Users
    BY <1>16 DEF RemoveParticipant, TypeOK
  <2>2. TypeOK'
    BY <1>16, <2>1 DEF RemoveParticipant, TypeOK
  <2>3. ReqOK'
    BY <1>16 DEF RemoveParticipant, ReqOK
  <2> QED
    BY <2>2, <2>3
<1>17. ASSUME NEW r \in Races, CancelRace(r)
       PROVE  TypeOK' /\ ReqOK'
  <2>1. status' \in [Races -> Status \cup {NoRow}] /\ mail' \in [Races -> Seq(Requests)]
    BY <1>17 DEF CancelRace, TypeOK, Status
  <2>2. TypeOK'
    BY <1>17, <2>1 DEF CancelRace, TypeOK, historyVars
  <2>3. \A x \in Races : status[x] # NoRow => status'[x] # NoRow
    BY <1>17 DEF CancelRace, TypeOK, NoRow
  <2>4. ReqOK'
    BY <1>17, <2>3 DEF CancelRace, ReqOK
  <2> QED
    BY <2>2, <2>4
<1>18. ASSUME NEW r \in Races, Activated(r)
       PROVE  TypeOK' /\ ReqOK'
  <2>1. mail[r] \in Seq(Requests) /\ mail[r] # <<>>
    BY <1>18 DEF Activated, TypeOK
  <2>2. Head(mail[r]) \in Requests /\ Tail(mail[r]) \in Seq(Requests)
    BY <2>1
  <2>3. mail' \in [Races -> Seq(Requests)] /\ told' \in [Races -> SUBSET Requests]
    BY <1>18, <2>2 DEF Activated, TypeOK
  <2>4. TypeOK'
    BY <1>18, <2>3 DEF Activated, TypeOK, dbVars, historyVars
  <2>5. ReqOK'
    BY <1>18 DEF Activated, ReqOK, dbVars
  <2> QED
    BY <2>4, <2>5
<1>19. ASSUME NEW r \in Races, FinishRace(r)
       PROVE  TypeOK' /\ ReqOK'
  <2>1. status' \in [Races -> Status \cup {NoRow}] /\ mail' \in [Races -> Seq(Requests)]
    BY <1>19 DEF FinishRace, TypeOK, Status
  <2>2. TypeOK'
    BY <1>19, <2>1 DEF FinishRace, TypeOK, historyVars
  <2>3. \A x \in Races : status[x] # NoRow => status'[x] # NoRow
    BY <1>19 DEF FinishRace, TypeOK, NoRow
  <2>4. ReqOK'
    BY <1>19, <2>3 DEF FinishRace, ReqOK
  <2> QED
    BY <2>2, <2>4
<1>20. CASE UNCHANGED vars
  <2>1. TypeOK'
    BY <1>20 DEF vars, TypeOK, dbVars, roomVars, historyVars
  <2>2. ReqOK'
    BY <1>20 DEF vars, ReqOK, dbVars
  <2> QED
    BY <2>1, <2>2
<1> QED
  BY <1>1, <1>2, <1>3, <1>4, <1>5, <1>6, <1>7, <1>8, <1>9, <1>10, <1>11, <1>12, <1>13, <1>14,
     <1>15, <1>16, <1>17, <1>18, <1>19, <1>20 DEF Next, Handler, Room

-----------------------------------------------------------------------------
(* The overshoot.                                                           *)

\* The sets that OvershootBounded counts are finite.
LEMMA CountsType ==
    ASSUME TypeOK, NEW r \in Races
    PROVE  /\ IsFiniteSet(rows[r]) /\ Cardinality(rows[r]) \in Nat
           /\ IsFiniteSet(Inserting(r)) /\ Cardinality(Inserting(r)) \in Nat
           /\ Cardinality(Requests) \in Nat
           /\ Cardinality(Inserting(r)) <= Cardinality(Requests)
<1>1. IsFiniteSet(rows[r])
  BY FiniteAssumption, FS_Subset DEF TypeOK
<1>2. Inserting(r) \subseteq Requests
  BY DEF Inserting
<1> QED
  BY <1>1, <1>2, FiniteAssumption, FS_Subset, FS_CardinalityType

\* The bound survives a step in which neither rows nor inserting handlers are added.
LEMMA QuietOvershoot ==
    ASSUME TypeOK, OvershootBounded,
           NEW r \in Races, rows'[r] \subseteq rows[r], Inserting(r)' \subseteq Inserting(r)
    PROVE  Cardinality(rows'[r]) + Cardinality(Inserting(r)')
               < MaxParticipants + Cardinality(Requests)
<1>1. Cardinality(rows'[r]) <= Cardinality(rows[r])
  BY CountsType, FS_Subset
<1>2. Cardinality(Inserting(r)') <= Cardinality(Inserting(r))
  BY CountsType, FS_Subset
<1>3. Cardinality(rows[r]) + Cardinality(Inserting(r)) < MaxParticipants + Cardinality(Requests)
  BY DEF OvershootBounded
<1>4. /\ Cardinality(rows[r]) \in Nat /\ Cardinality(Inserting(r)) \in Nat /\ Cardinality(Requests) \in Nat
  BY CountsType
<1>5. Cardinality(rows'[r]) \in Nat
  <2>1. IsFiniteSet(rows'[r])
    BY CountsType, FS_Subset
  <2> QED
    BY <2>1, FS_CardinalityType
<1>6. Cardinality(Inserting(r)') \in Nat
  <2>1. IsFiniteSet(Inserting(r)')
    BY CountsType, FS_Subset
  <2> QED
    BY <2>1, FS_CardinalityType
<1> QED
  BY <1>1, <1>2, <1>3, <1>4, <1>5, <1>6, LimitAssumption

\* A row goes in as its handler stops inserting.
LEMMA InsertOvershoot ==
    ASSUME TypeOK, OvershootBounded,
           NEW q \in Requests, NEW r \in Races, NEW u \in Users, q \in Inserting(r),
           rows' = [rows EXCEPT ![r] = @ \cup {u}],
           \A x \in Races : Inserting(x)' \subseteq Inserting(x) \ {q}
    PROVE  OvershootBounded'
<1>1. ASSUME NEW x \in Races
      PROVE  Cardinality(rows'[x]) + Cardinality(Inserting(x)') < MaxParticipants + Cardinality(Requests)
  <2>1. /\ Cardinality(rows[x]) \in Nat /\ Cardinality(Inserting(x)) \in Nat
        /\ Cardinality(Requests) \in Nat /\ IsFiniteSet(rows[x]) /\ IsFiniteSet(Inserting(x))
    BY CountsType
  <2>2. Cardinality(rows[x]) + Cardinality(Inserting(x)) < MaxParticipants + Cardinality(Requests)
    BY DEF OvershootBounded
  <2>3. CASE x = r
    <3>1. rows'[r] = rows[r] \cup {u}
      BY DEF TypeOK
    <3>2. Cardinality(rows'[r]) \in Nat /\ Cardinality(rows'[r]) <= Cardinality(rows[r]) + 1
      <4>1. /\ IsFiniteSet(rows[r] \cup {u})
            /\ \/ Cardinality(rows[r] \cup {u}) = Cardinality(rows[r])
               \/ Cardinality(rows[r] \cup {u}) = Cardinality(rows[r]) + 1
        BY <2>1, <2>3, FS_AddElement
      <4>2. Cardinality(rows'[r]) = Cardinality(rows[r] \cup {u}) /\ Cardinality(rows[r]) \in Nat
        BY <3>1, CountsType
      <4> QED
        BY <4>1, <4>2
    <3>3. /\ IsFiniteSet(Inserting(r) \ {q})
          /\ Cardinality(Inserting(r) \ {q}) = Cardinality(Inserting(r)) - 1
      BY <2>1, <2>3, FS_RemoveElement
    <3>4. /\ Cardinality(Inserting(r)') <= Cardinality(Inserting(r) \ {q})
          /\ IsFiniteSet(Inserting(r)')
      BY <3>3, FS_Subset
    <3>5. Cardinality(Inserting(r)') \in Nat
      BY <3>4, FS_CardinalityType
    <3> QED
      BY <2>1, <2>2, <2>3, <3>2, <3>3, <3>4, <3>5, LimitAssumption
  <2>4. CASE x # r
    <3>1. rows'[x] = rows[x]
      BY <2>4 DEF TypeOK
    <3>2. IsFiniteSet(Inserting(x)') /\ Cardinality(Inserting(x)') <= Cardinality(Inserting(x))
      BY <2>1, FS_Subset
    <3>3. Cardinality(Inserting(x)') \in Nat
      BY <3>2, FS_CardinalityType
    <3> QED
      BY <2>1, <2>2, <3>1, <3>2, <3>3, LimitAssumption
  <2> QED
    BY <2>3, <2>4
<1> QED
  BY <1>1 DEF OvershootBounded

\* A handler that answers inserts no more.
LEMMA AnswerInserting ==
    ASSUME TypeOK, NEW q \in Requests, Answer(q)
    PROVE  \A x \in Races : Inserting(x)' \subseteq Inserting(x) \ {q}
<1>1. req'[q].pc = "idle" /\ \A x \in Requests \ {q} : req'[x] = req[x]
  BY AnswerType DEF Idle
<1> QED
  BY <1>1 DEF Inserting

\* However many joins are between their count and their INSERT, and whatever
\* else runs meanwhile, a step keeps the overshoot within the handlers in flight.
LEMMA NextOvershoot ==
    ASSUME TypeOK, ReqOK, FreshIdEmpty, OvershootBounded, [Next]_vars
    PROVE  OvershootBounded'
<1>1. SUFFICES ASSUME ~\A r \in Races : rows'[r] \subseteq rows[r] /\ Inserting(r)' \subseteq Inserting(r)
               PROVE  OvershootBounded'
  BY QuietOvershoot DEF OvershootBounded
<1>2. ASSUME NEW q \in Requests, NEW u \in Users, CreateReceives(q, u)
      PROVE  OvershootBounded'
  <2>1. "newRace" \in Pc
    BY DEF Pc
  <2>2. req'[q].pc = "newRace" /\ \A x \in Requests \ {q} : req'[x] = req[x]
    BY <1>2, <2>1, ReceivesType DEF CreateReceives
  <2> QED
    BY <1>1, <1>2, <2>2 DEF CreateReceives, Inserting, dbVars
<1>3. ASSUME NEW q \in Requests, NEW r \in Races, CreateRace(q, r)
      PROVE  OvershootBounded'
  <2>1. CASE ~IdTaken(r)
    <3>1. rows' = rows /\ rows[r] = {}
      BY <1>3, <2>1 DEF CreateRace, IdTaken, FreshIdEmpty
    <3>2. /\ req'[q].pc = "addCreator" /\ req'[q].race = r
          /\ \A x \in Requests \ {q} : req'[x] = req[x]
      BY <1>3, <2>1, CreatedType DEF CreateRace
    <3>3. ASSUME NEW x \in Races
          PROVE  Cardinality(rows'[x]) + Cardinality(Inserting(x)') < MaxParticipants + Cardinality(Requests)
      <4>1. CASE x = r
        <5>1. \A y \in Requests : req[y].race = r => req[y].pc \notin {"addCreator", "insert"}
          BY <2>1 DEF IdTaken, ReqOK
        <5>2. Inserting(r)' = {q}
          BY <3>2, <5>1 DEF Inserting
        <5>3. Cardinality(Inserting(r)') = 1 /\ Cardinality(rows'[r]) = 0
          BY <3>1, <5>2, FS_Singleton, FS_EmptySet
        <5>4. Cardinality(Requests) \in Nat /\ Cardinality(Requests) # 0
          BY FiniteAssumption, FS_CardinalityType, FS_EmptySet
        <5> QED
          BY <4>1, <5>3, <5>4, LimitAssumption
      <4>2. CASE x # r
        <5>1. Inserting(x)' \subseteq Inserting(x)
          BY <3>2, <4>2 DEF Inserting
        <5> QED
          BY <3>1, <5>1, QuietOvershoot
      <4> QED
        BY <4>1, <4>2
    <3> QED
      BY <3>3 DEF OvershootBounded
  <2>2. CASE IdTaken(r) /\ Answer(q)
    BY <1>1, <1>3, <2>2, AnswerInserting DEF CreateRace
  <2>3. CASE IdTaken(r) /\ MayRetry(req[q].attempt)
    <3>1. \A x \in Requests : req'[x].pc = req[x].pc /\ req'[x].race = req[x].race
      BY <1>3, <2>3, RetryType DEF CreateRace
    <3> QED
      BY <1>1, <1>3, <3>1 DEF CreateRace, Inserting
  <2> QED
    BY <1>3, <2>1, <2>2, <2>3 DEF CreateRace
<1>4. ASSUME NEW q \in Requests, CreatorAdded(q)
      PROVE  OvershootBounded'
  <2>1. /\ req[q].user \in Users /\ req[q].race \in Races
        /\ q \in Inserting(req[q].race)
    BY <1>4 DEF CreatorAdded, ReqOK, Inserting
  <2>2. CASE Goto(q, "spawn") /\ InsertRow(req[q].race, req[q].user)
    <3>1. "spawn" \in Pc
      BY DEF Pc
    <3>2. req'[q].pc = "spawn" /\ \A x \in Requests \ {q} : req'[x] = req[x]
      BY <2>2, <3>1, GotoType
    <3>3. \A x \in Races : Inserting(x)' \subseteq Inserting(x) \ {q}
      BY <3>2 DEF Inserting
    <3> QED
      BY <2>1, <2>2, <3>3, InsertOvershoot DEF InsertRow
  <2>3. CASE Answer(q) /\ UNCHANGED rows
    BY <1>1, <2>3, AnswerInserting
  <2> QED
    BY <1>4, <2>2, <2>3 DEF CreatorAdded
<1>5. ASSUME NEW q \in Requests, Answer(q), UNCHANGED rows
      PROVE  OvershootBounded'
  BY <1>1, <1>5, AnswerInserting
<1>6. ASSUME NEW q \in Requests, NEW u \in Users, NEW r \in Races, JoinGetRace(q, u, r)
      PROVE  OvershootBounded'
  <2>1. req'[q].pc = "isParticipant" /\ \A x \in Requests \ {q} : req'[x] = req[x]
    BY <1>6 DEF JoinGetRace, TypeOK, Idle
  <2> QED
    BY <1>1, <1>6, <2>1 DEF JoinGetRace, Inserting, dbVars
<1>7. ASSUME NEW q \in Requests, NEW u \in Users, NEW r \in Races, StartGetRace(q, u, r)
      PROVE  OvershootBounded'
  <2>1. "update" \in Pc
    BY DEF Pc
  <2>2. req'[q].pc = "update" /\ \A x \in Requests \ {q} : req'[x] = req[x]
    BY <1>7, <2>1, ReceivesType DEF StartGetRace
  <2> QED
    BY <1>1, <1>7, <2>2 DEF StartGetRace, Inserting, dbVars
<1>8. ASSUME NEW q \in Requests, IsParticipant(q)
      PROVE  OvershootBounded'
  <2>1. UNCHANGED rows
    BY <1>8 DEF IsParticipant, dbVars
  <2>2. CASE Goto(q, "count")
    <3>1. "count" \in Pc
      BY DEF Pc
    <3>2. req'[q].pc = "count" /\ \A x \in Requests \ {q} : req'[x] = req[x]
      BY <2>2, <3>1, GotoType
    <3> QED
      BY <1>1, <2>1, <3>2 DEF Inserting
  <2> QED
    BY <1>5, <1>8, <2>1, <2>2 DEF IsParticipant
<1>9. ASSUME NEW q \in Requests, CountParticipants(q)
      PROVE  OvershootBounded'
  <2>1. UNCHANGED rows
    BY <1>9 DEF CountParticipants, dbVars
  <2>2. CASE ~Full(req[q].race) /\ Goto(q, "insert")
    <3>1. "insert" \in Pc
      BY DEF Pc
    <3>2. /\ req'[q].pc = "insert" /\ req'[q].race = req[q].race
          /\ \A x \in Requests \ {q} : req'[x] = req[x]
      BY <2>2, <3>1, GotoType
    <3>3. ASSUME NEW x \in Races
          PROVE  Cardinality(rows'[x]) + Cardinality(Inserting(x)') < MaxParticipants + Cardinality(Requests)
      <4>1. CASE x = req[q].race
        <5>1. Cardinality(rows'[x]) < MaxParticipants /\ Cardinality(rows'[x]) \in Nat
          BY <2>1, <2>2, <4>1, CountsType, LimitAssumption DEF Full
        <5>2. Inserting(x)' \subseteq Requests
          BY DEF Inserting
        <5>3. /\ Cardinality(Inserting(x)') \in Nat /\ Cardinality(Requests) \in Nat
              /\ Cardinality(Inserting(x)') <= Cardinality(Requests)
          BY <5>2, FiniteAssumption, FS_Subset, FS_CardinalityType
        <5> QED
          BY <5>1, <5>3, LimitAssumption
      <4>2. CASE x # req[q].race
        <5>1. Inserting(x)' \subseteq Inserting(x)
          BY <3>2, <4>2 DEF Inserting
        <5> QED
          BY <2>1, <5>1, QuietOvershoot
      <4> QED
        BY <4>1, <4>2
    <3> QED
      BY <3>3 DEF OvershootBounded
  <2> QED
    BY <1>5, <1>9, <2>1, <2>2 DEF CountParticipants
<1>10. ASSUME NEW q \in Requests, AddParticipant(q)
       PROVE  OvershootBounded'
  <2>1. /\ req[q].user \in Users /\ req[q].race \in Races
        /\ q \in Inserting(req[q].race)
    BY <1>10 DEF AddParticipant, ReqOK, Inserting
  <2>2. Answer(q)
    BY <1>10 DEF AddParticipant
  <2>3. CASE InsertRow(req[q].race, req[q].user)
    BY <2>1, <2>2, <2>3, AnswerInserting, InsertOvershoot DEF InsertRow
  <2> QED
    BY <1>5, <1>10, <2>2, <2>3 DEF AddParticipant
<1>11. ASSUME NEW q \in Requests, StartRace(q)
       PROVE  OvershootBounded'
  <2>1. "markActive" \in Pc
    BY DEF Pc
  <2>2. req'[q].pc = "markActive" /\ \A x \in Requests \ {q} : req'[x] = req[x]
    BY <1>11, <2>1, GotoType DEF StartRace
  <2> QED
    BY <1>1, <1>11, <2>2 DEF StartRace, Inserting
<1>12. ASSUME NEW q \in Requests, FailsAfterWrite(q)
       PROVE  OvershootBounded'
  <2>1. Answer(q)
    BY <1>12 DEF FailsAfterWrite
  <2>2. CASE req[q].pc \in {"addCreator", "insert"}
    <3>1. /\ req[q].user \in Users /\ req[q].race \in Races
          /\ q \in Inserting(req[q].race)
      BY <2>2 DEF ReqOK, Inserting
    <3> QED
      BY <1>12, <2>1, <2>2, <3>1, AnswerInserting, InsertOvershoot DEF FailsAfterWrite, InsertRow
  <2> QED
    BY <1>5, <1>12, <2>1, <2>2 DEF FailsAfterWrite
<1>13. CASE Crash
  BY <1>1, <1>13 DEF Crash, Idle, Inserting, dbVars
<1>14. ASSUME NEW r \in Races, RemoveParticipant(r)
       PROVE  OvershootBounded'
  BY <1>1, <1>14 DEF RemoveParticipant, Inserting, TypeOK
<1>15. CASE UNCHANGED <<rows, req>>
  BY <1>1, <1>15 DEF Inserting
<1>16. ASSUME NEW q \in Requests, Handler(q)
       PROVE  OvershootBounded'
  BY <1>2, <1>3, <1>4, <1>5, <1>6, <1>7, <1>8, <1>9, <1>10, <1>11, <1>12, <1>16
  DEF Handler, Spawn, MarkActive, Fails, dbVars
<1>17. ASSUME NEW r \in Races, Room(r)
       PROVE  OvershootBounded'
  BY <1>14, <1>15, <1>17 DEF Room, LeaveGetRace, CancelRace, Activated, FinishRace, dbVars
<1> QED
  BY <1>13, <1>15, <1>16, <1>17 DEF Next, vars, dbVars

-----------------------------------------------------------------------------
(* Rows and tokens.                                                         *)

\* Statements other than an INSERT on a race that exists add no row, and what
\* the DELETE takes away is remembered.
RowsAccounted ==
    \A r \in Races : \A u \in rows[r] : u \in rows'[r] \/ <<r, u>> \in left'

\* Rows of races stay, participants are added to existing races only, and removed
\* by RemoveParticipant only.
LEMMA NextRows ==
    ASSUME TypeOK, ReqOK, FreshIdEmpty, [Next]_vars
    PROVE  StatusKept /\ FreshIdEmpty' /\ RowsAccounted /\ left \subseteq left'
<1> DEFINE P == StatusKept /\ FreshIdEmpty' /\ RowsAccounted /\ left \subseteq left'
<1>1. ASSUME NEW r \in Races, NEW u \in Users, status[r] # NoRow,
             InsertRow(r, u), UNCHANGED <<status, left>>
      PROVE  P
  BY <1>1 DEF InsertRow, TypeOK, StatusKept, FreshIdEmpty, RowsAccounted
<1>2. ASSUME UNCHANGED <<rows, left>>, StatusKept
      PROVE  P
  BY <1>2 DEF TypeOK, StatusKept, FreshIdEmpty, RowsAccounted
<1>3. ASSUME NEW r \in Races, NEW u \in Users, InsertRace(r, u)
      PROVE  StatusKept
  BY <1>3 DEF InsertRace, StatusKept, TypeOK, NoRow
<1>4. ASSUME NEW r \in Races, NEW q \in Requests, UpdateActive(r, q)
      PROVE  StatusKept
  BY <1>4 DEF UpdateActive, StatusKept, TypeOK, NoRow
<1>5. UNCHANGED status => StatusKept
  BY DEF StatusKept
<1>6. ASSUME NEW q \in Requests, NEW r \in Races, CreateRace(q, r)
      PROVE  P
  <2>1. req[q].user \in Users /\ UNCHANGED <<rows, left>>
    BY <1>6 DEF CreateRace, ReqOK, historyVars
  <2> QED
    BY <1>2, <1>3, <1>5, <1>6, <2>1 DEF CreateRace
<1>7. ASSUME NEW q \in Requests, CreatorAdded(q)
      PROVE  P
  <2>1. /\ req[q].user \in Users /\ req[q].race \in Races /\ status[req[q].race] # NoRow
        /\ UNCHANGED <<status, left>>
    BY <1>7 DEF CreatorAdded, ReqOK
  <2> QED
    BY <1>1, <1>2, <1>5, <1>7, <2>1 DEF CreatorAdded
<1>8. ASSUME NEW q \in Requests, AddParticipant(q)
      PROVE  P
  <2>1. /\ req[q].user \in Users /\ req[q].race \in Races /\ status[req[q].race] # NoRow
        /\ UNCHANGED <<status, left>>
    BY <1>8 DEF AddParticipant, ReqOK
  <2> QED
    BY <1>1, <1>2, <1>5, <1>8, <2>1 DEF AddParticipant
<1>9. ASSUME NEW q \in Requests, StartRace(q)
      PROVE  P
  <2>1. req[q].race \in Races /\ UNCHANGED <<rows, left>>
    BY <1>9 DEF StartRace, ReqOK, historyVars
  <2> QED
    BY <1>2, <1>4, <1>9, <2>1 DEF StartRace
<1>10. ASSUME NEW q \in Requests, FailsAfterWrite(q)
       PROVE  P
  <2>1. req[q].user \in Users /\ UNCHANGED left
    BY <1>10 DEF FailsAfterWrite, ReqOK
  <2>2. CASE req[q].pc = "newRace"
    <3>1. PICK new \in Races : InsertRace(new, req[q].user)
      BY <1>10, <2>2 DEF FailsAfterWrite
    <3>2. UNCHANGED rows
      BY <1>10, <2>2 DEF FailsAfterWrite
    <3> QED
      BY <1>2, <1>3, <2>1, <3>1, <3>2
  <2>3. CASE req[q].pc # "newRace"
    <3>1. req[q].race \in Races /\ status[req[q].race] # NoRow
      BY <1>10, <2>3 DEF FailsAfterWrite, ReqOK
    <3>2. CASE req[q].pc = "update"
      BY <1>2, <1>4, <1>10, <2>1, <3>1, <3>2 DEF FailsAfterWrite
    <3>3. CASE req[q].pc # "update"
      BY <1>1, <1>10, <2>1, <2>3, <3>1, <3>3 DEF FailsAfterWrite
    <3> QED
      BY <3>2, <3>3
  <2> QED
    BY <2>2, <2>3
<1>11. ASSUME NEW r \in Races, RemoveParticipant(r)
       PROVE  P
  BY <1>11 DEF RemoveParticipant, TypeOK, StatusKept, FreshIdEmpty, RowsAccounted
<1>12. ASSUME NEW r \in Races, CancelRace(r) \/ FinishRace(r)
       PROVE  P
  <2>1. StatusKept
    BY <1>12 DEF CancelRace, FinishRace, StatusKept, TypeOK, NoRow
  <2> QED
    BY <1>2, <1>12, <2>1 DEF CancelRace, FinishRace, historyVars
<1>13. UNCHANGED <<status, rows, left>> => P
  BY <1>2, <1>5
<1>14. ASSUME NEW q \in Requests, Handler(q)
       PROVE  P
  BY <1>6, <1>7, <1>8, <1>9, <1>10, <1>13, <1>14
  DEF Handler, CreateReceives, Spawn, JoinGetRace, StartGetRace, IsParticipant, CountParticipants,
      MarkActive, Fails, dbVars, historyVars
<1>15. ASSUME NEW r \in Races, Room(r)
       PROVE  P
  BY <1>11, <1>12, <1>13, <1>15 DEF Room, LeaveGetRace, Activated, dbVars, historyVars
<1> QED
  BY <1>13, <1>14, <1>15 DEF Next, Crash, vars, dbVars, historyVars

\* A token is handed out by three statements only.
LEMMA NextTokens ==
    ASSUME TypeOK, ReqOK, [Next]_vars
    PROVE  \A t \in tokens' :
               \/ t \in tokens
               \/ \E q \in Requests :
                     /\ t = <<req[q].race, req[q].user>>
                     /\ req[q].race \in Races
                     /\ \/ req[q].pc = "spawn"
                        \/ req[q].user \in rows'[req[q].race]
<1> DEFINE P == \A t \in tokens' :
                   \/ t \in tokens
                   \/ \E q \in Requests :
                         /\ t = <<req[q].race, req[q].user>>
                         /\ req[q].race \in Races
                         /\ \/ req[q].pc = "spawn"
                            \/ req[q].user \in rows'[req[q].race]
<1>1. ASSUME NEW q \in Requests, Spawn(q)
      PROVE  P
  BY <1>1 DEF Spawn, ReqOK
<1>2. ASSUME NEW q \in Requests, IsParticipant(q)
      PROVE  P
  BY <1>2 DEF IsParticipant, ReqOK, dbVars
<1>3. ASSUME NEW q \in Requests, AddParticipant(q)
      PROVE  P
  BY <1>3 DEF AddParticipant, InsertRow, ReqOK, TypeOK
<1>4. UNCHANGED tokens => P
  OBVIOUS
<1>5. ASSUME NEW q \in Requests, Handler(q)
      PROVE  P
  BY <1>1, <1>2, <1>3, <1>4, <1>5
  DEF Handler, CreateReceives, CreateRace, CreatorAdded, JoinGetRace, StartGetRace, CountParticipants,
      StartRace, MarkActive, Fails, FailsAfterWrite, historyVars
<1>6. ASSUME NEW r \in Races, Room(r)
      PROVE  P
  BY <1>4, <1>6 DEF Room, LeaveGetRace, RemoveParticipant, CancelRace, Activated, FinishRace, historyVars
<1> QED
  BY <1>4, <1>5, <1>6 DEF Next, Crash, vars, historyVars

\* Only CreatorAdded lets a handler reach its Spawn, with the row it has inserted.
LEMMA NextSpawning ==
    ASSUME TypeOK, ReqOK, [Next]_vars, NEW q \in Requests, req'[q].pc = "spawn"
    PROVE  /\ req'[q].user = req[q].user /\ req'[q].race = req[q].race
           /\ \/ req[q].pc = "spawn"
              \/ req[q].race \in Races /\ req[q].user \in rows'[req[q].race]
<1> DEFINE P == /\ req'[q].user = req[q].user /\ req'[q].race = req[q].race
                /\ \/ req[q].pc = "spawn"
                   \/ req[q].race \in Races /\ req[q].user \in rows'[req[q].race]
<1>1. ASSUME req'[q] = req[q] PROVE P
  BY <1>1
<1>2. ASSUME NEW x \in Requests, Answer(x) PROVE P
  BY <1>1, <1>2, AnswerType DEF Idle
<1>3. ASSUME NEW x \in Requests, NEW pc \in Pc \ {"spawn"}, Goto(x, pc) PROVE P
  BY <1>1, <1>3, GotoType
<1>4. ASSUME NEW x \in Requests, NEW u \in Users, NEW r \in Races \cup {NoRace},
             NEW pc \in Pc \ {"spawn"}, Receives(x, u, r, pc)
      PROVE P
  BY <1>1, <1>4, ReceivesType
<1>5. "newRace" \in Pc \ {"spawn"} /\ "update" \in Pc \ {"spawn"} /\ "count" \in Pc \ {"spawn"}
      /\ "insert" \in Pc \ {"spawn"} /\ "markActive" \in Pc \ {"spawn"} /\ "spawn" \in Pc
  BY DEF Pc
<1>6. ASSUME NEW x \in Requests, NEW r \in Races, CreateRace(x, r) PROVE P
  <2>1. CASE ~IdTaken(r)
    BY <1>1, <1>6, <2>1, CreatedType DEF CreateRace
  <2>2. CASE IdTaken(r) /\ MayRetry(req[x].attempt)
    BY <1>6, <2>2, RetryType DEF CreateRace
  <2> QED
    BY <1>2, <1>6, <2>1, <2>2 DEF CreateRace
<1>7. ASSUME NEW x \in Requests, CreatorAdded(x) PROVE P
  <2>1. CASE Goto(x, "spawn") /\ InsertRow(req[x].race, req[x].user)
    <3>1. CASE q # x
      BY <1>1, <1>5, <2>1, <3>1, GotoType
    <3>2. CASE q = x
      <4>1. req'[q].user = req[q].user /\ req'[q].race = req[q].race
        BY <1>5, <2>1, <3>2, GotoType
      <4>2. req[q].race \in Races
        BY <1>7, <3>2 DEF CreatorAdded, ReqOK
      <4>3. req[q].user \in rows'[req[q].race]
        BY <2>1, <3>2, <4>2 DEF InsertRow, TypeOK
      <4> QED
        BY <4>1, <4>2, <4>3
    <3> QED
      BY <3>1, <3>2
  <2> QED
    BY <1>2, <1>7, <2>1 DEF CreatorAdded
<1>8. ASSUME NEW x \in Requests, NEW u \in Users, NEW r \in Races, JoinGetRace(x, u, r) PROVE P
  BY <1>1, <1>8 DEF JoinGetRace, Idle, TypeOK
<1>9. CASE Crash
  BY <1>9 DEF Crash, Idle
<1>10. ASSUME NEW x \in Requests, Handler(x) PROVE P
  <2>1. CASE \E u \in Users : CreateReceives(x, u)
    BY <1>4, <1>5, <2>1 DEF CreateReceives
  <2>2. CASE \E u \in Users, r \in Races : StartGetRace(x, u, r)
    BY <1>4, <1>5, <2>2 DEF StartGetRace
  <2>3. CASE IsParticipant(x) \/ CountParticipants(x) \/ StartRace(x)
    BY <1>2, <1>3, <1>5, <2>3 DEF IsParticipant, CountParticipants, StartRace
  <2>4. CASE Spawn(x) \/ AddParticipant(x) \/ MarkActive(x) \/ Fails(x) \/ FailsAfterWrite(x)
    BY <1>2, <2>4 DEF Spawn, AddParticipant, MarkActive, Fails, FailsAfterWrite
  <2> QED
    BY <1>6, <1>7, <1>8, <1>10, <2>1, <2>2, <2>3, <2>4 DEF Handler
<1>11. ASSUME NEW r \in Races, Room(r) PROVE P
  BY <1>1, <1>11 DEF Room, LeaveGetRace, RemoveParticipant, CancelRace, Activated, FinishRace
<1> QED
  BY <1>1, <1>9, <1>10, <1>11 DEF Next, vars

\* A token in hand, or about to be signed, has its row or has left.
LEMMA NextTokenHasRow ==
    ASSUME TypeOK, ReqOK, FreshIdEmpty, TokenHasRow, SpawnHasRow, [Next]_vars
    PROVE  TokenHasRow' /\ SpawnHasRow'
<1>1. RowsAccounted /\ left \subseteq left'
  BY NextRows
<1>2. TokenHasRow'
  <2>1. ASSUME NEW t \in tokens'
        PROVE  t[2] \in rows'[t[1]] \/ t \in left'
    <3>1. CASE t \in tokens
      <4>1. t \in Races \X Users
        BY <3>1 DEF TypeOK
      <4>2. PICK r \in Races, u \in Users : t = <<r, u>>
        BY <4>1
      <4> QED
        BY <1>1, <3>1, <4>2 DEF TokenHasRow, RowsAccounted
    <3>2. CASE \E q \in Requests :
                  /\ t = <<req[q].race, req[q].user>> /\ req[q].race \in Races
                  /\ req[q].pc = "spawn" \/ req[q].user \in rows'[req[q].race]
      BY <1>1, <3>2 DEF SpawnHasRow, RowsAccounted
    <3> QED
      BY <3>1, <3>2, NextTokens
  <2> QED
    BY <2>1 DEF TokenHasRow
<1>3. SpawnHasRow'
  <2>1. ASSUME NEW q \in Requests, req'[q].pc = "spawn"
        PROVE  req'[q].user \in rows'[req'[q].race] \/ <<req'[q].race, req'[q].user>> \in left'
    <3>1. /\ req'[q].user = req[q].user /\ req'[q].race = req[q].race
          /\ \/ req[q].pc = "spawn"
             \/ req[q].race \in Races /\ req[q].user \in rows'[req[q].race]
      BY <2>1, NextSpawning
    <3>2. CASE req[q].pc = "spawn"
      <4>1. req[q].race \in Races
        BY <3>2 DEF ReqOK
      <4> QED
        BY <1>1, <3>1, <3>2, <4>1 DEF SpawnHasRow, RowsAccounted
    <3> QED
      BY <3>1, <3>2
  <2> QED
    BY <2>1 DEF SpawnHasRow
<1> QED
  BY <1>2, <1>3

-----------------------------------------------------------------------------
(* Start.                                                                   *)

\* A race Postgres has as started.
InPostgres(r) == promptText[r] # NoText /\ status[r] \in {"active", "finished"}

\* The rows of a started race change only to another started one: an id is taken
\* for good, CancelRace's UPDATE skips them, and a second Start writes a text too.
LEMMA NextInPostgres ==
    ASSUME TypeOK, ReqOK, [Next]_vars, NEW r \in Races, InPostgres(r)
    PROVE  InPostgres(r)'
<1>1. ASSUME UNCHANGED <<status, promptText>> PROVE InPostgres(r)'
  BY <1>1 DEF InPostgres
<1>2. ASSUME NEW x \in Races, NEW u \in Users, ~IdTaken(x), InsertRace(x, u), UNCHANGED promptText
      PROVE  InPostgres(r)'
  BY <1>2 DEF InPostgres, IdTaken, InsertRace, TypeOK, NoRow
<1>3. ASSUME NEW x \in Races, NEW q \in Requests, UpdateActive(x, q)
      PROVE  InPostgres(r)'
  BY <1>3, NullAssumption DEF InPostgres, UpdateActive, TypeOK
<1>4. ASSUME NEW x \in Races, CancelRace(x) \/ FinishRace(x)
      PROVE  InPostgres(r)'
  BY <1>4 DEF CancelRace, FinishRace, InPostgres, TypeOK
<1>5. ASSUME NEW q \in Requests, Handler(q) PROVE InPostgres(r)'
  <2>1. req[q].pc # "idle" => req[q].user \in Users
    BY DEF ReqOK
  <2>2. CASE \E x \in Races : CreateRace(q, x)
    BY <1>1, <1>2, <2>1, <2>2 DEF CreateRace
  <2>3. CASE StartRace(q)
    BY <1>3, <2>3 DEF StartRace, ReqOK
  <2>4. CASE FailsAfterWrite(q)
    <3>1. CASE req[q].pc = "newRace"
      BY <1>2, <2>1, <2>4, <3>1 DEF FailsAfterWrite
    <3>2. CASE req[q].pc = "update"
      BY <1>3, <2>4, <3>2 DEF FailsAfterWrite, ReqOK
    <3> QED
      BY <1>1, <2>4, <3>1, <3>2 DEF FailsAfterWrite
  <2> QED
    BY <1>1, <1>5, <2>2, <2>3, <2>4
    DEF Handler, CreateReceives, JoinGetRace, StartGetRace, CreatorAdded, Spawn, IsParticipant,
        CountParticipants, AddParticipant, MarkActive, Fails, dbVars
<1>6. ASSUME NEW x \in Races, Room(x) PROVE InPostgres(r)'
  BY <1>1, <1>4, <1>6 DEF Room, LeaveGetRace, RemoveParticipant, Activated, dbVars
<1> QED
  BY <1>1, <1>5, <1>6 DEF Next, Crash, vars, dbVars

\* What is told or about to be told was in the making before, or has just been
\* written by StartRace.
LEMMA NextUnderWay ==
    ASSUME TypeOK, ReqOK, [Next]_vars, NEW r \in Races, StartUnderWay(r)'
    PROVE  StartUnderWay(r) \/ InPostgres(r)'
<1> DEFINE P == StartUnderWay(r) \/ InPostgres(r)'
<1>1. ASSUME told' = told, mail'[r] # <<>> => mail[r] # <<>>,
             \A q \in Requests : req'[q].pc = "markActive" => req[q].pc = "markActive" /\ req'[q].race = req[q].race
      PROVE  P
  BY <1>1 DEF StartUnderWay
<1>2. ASSUME NEW q \in Requests, Answer(q), UNCHANGED <<told, mail>> PROVE P
  BY <1>1, <1>2, AnswerType DEF Idle
<1>3. ASSUME NEW q \in Requests, NEW pc \in Pc \ {"markActive"}, Goto(q, pc), UNCHANGED <<told, mail>> PROVE P
  BY <1>1, <1>3, GotoType
<1>4. ASSUME NEW q \in Requests, NEW u \in Users, NEW x \in Races \cup {NoRace},
             NEW pc \in Pc \ {"markActive"}, Receives(q, u, x, pc), UNCHANGED <<told, mail>>
      PROVE P
  BY <1>1, <1>4, ReceivesType
<1>5. "newRace" \in Pc \ {"markActive"} /\ "update" \in Pc \ {"markActive"} /\ "count" \in Pc \ {"markActive"}
      /\ "insert" \in Pc \ {"markActive"} /\ "spawn" \in Pc \ {"markActive"} /\ "markActive" \in Pc
  BY DEF Pc
<1>6. ASSUME NEW q \in Requests, NEW x \in Races, CreateRace(q, x) PROVE P
  <2>1. UNCHANGED <<told, mail>>
    BY <1>6 DEF CreateRace, roomVars
  <2>2. CASE ~IdTaken(x)
    BY <1>1, <1>6, <2>1, <2>2, CreatedType DEF CreateRace
  <2>3. CASE IdTaken(x) /\ MayRetry(req[q].attempt)
    BY <1>1, <1>6, <2>1, <2>3, RetryType DEF CreateRace
  <2> QED
    BY <1>2, <1>6, <2>1, <2>2, <2>3 DEF CreateRace
<1>7. ASSUME NEW q \in Requests, NEW u \in Users, NEW x \in Races, JoinGetRace(q, u, x) PROVE P
  <2>1. req'[q].pc = "isParticipant" /\ \A y \in Requests \ {q} : req'[y] = req[y]
    BY <1>7 DEF JoinGetRace, TypeOK, Idle
  <2> QED
    BY <1>1, <1>7, <2>1 DEF JoinGetRace, roomVars
<1>8. ASSUME NEW q \in Requests, StartRace(q) PROVE P
  <2>1. req[q].race \in Races
    BY <1>8 DEF StartRace, ReqOK
  <2>2. /\ req'[q].pc = "markActive" /\ req'[q].race = req[q].race
        /\ \A x \in Requests \ {q} : req'[x] = req[x]
    BY <1>5, <1>8, GotoType DEF StartRace
  <2>3. UNCHANGED <<told, mail>>
    BY <1>8 DEF StartRace, roomVars
  <2>4. CASE r = req[q].race
    BY <1>8, <2>1, <2>4, NullAssumption DEF StartRace, UpdateActive, InPostgres, TypeOK
  <2>5. CASE r # req[q].race
    BY <2>2, <2>3, <2>5 DEF StartUnderWay
  <2> QED
    BY <2>4, <2>5
<1>9. ASSUME NEW q \in Requests, MarkActive(q) PROVE P
  <2>1. CASE r = req[q].race
    BY <1>9, <2>1 DEF MarkActive, StartUnderWay
  <2>2. CASE r # req[q].race
    <3>1. mail'[r] = mail[r] /\ told' = told /\ Answer(q)
      BY <1>9, <2>2 DEF MarkActive, TypeOK
    <3>2. req'[q].pc = "idle" /\ \A x \in Requests \ {q} : req'[x] = req[x]
      BY <3>1, AnswerType DEF Idle
    <3> QED
      BY <1>1, <3>1, <3>2
  <2> QED
    BY <2>1, <2>2
<1>10. ASSUME NEW q \in Requests, Handler(q) PROVE P
  <2>1. CASE \E u \in Users : CreateReceives(q, u)
    BY <1>4, <1>5, <2>1 DEF CreateReceives, roomVars
  <2>2. CASE \E u \in Users, x \in Races : StartGetRace(q, u, x)
    BY <1>4, <1>5, <2>2 DEF StartGetRace, roomVars
  <2>3. CASE CreatorAdded(q) \/ IsParticipant(q) \/ CountParticipants(q)
    BY <1>2, <1>3, <1>5, <2>3 DEF CreatorAdded, IsParticipant, CountParticipants, roomVars
  <2>4. CASE Spawn(q) \/ AddParticipant(q) \/ Fails(q) \/ FailsAfterWrite(q)
    BY <1>2, <2>4 DEF Spawn, AddParticipant, Fails, FailsAfterWrite, roomVars
  <2> QED
    BY <1>6, <1>7, <1>8, <1>9, <1>10, <2>1, <2>2, <2>3, <2>4 DEF Handler
<1>11. ASSUME NEW x \in Races, Activated(x) PROVE P
  <2>1. CASE x = r
    BY <1>11, <2>1 DEF Activated, StartUnderWay
  <2>2. CASE x # r
    BY <1>11, <2>2 DEF Activated, StartUnderWay, TypeOK
  <2> QED
    BY <2>1, <2>2
<1>12. ASSUME NEW x \in Races, CancelRace(x) \/ FinishRace(x) PROVE P
  BY <1>1, <1>12 DEF CancelRace, FinishRace, TypeOK
<1>13. CASE Crash
  BY <1>1, <1>13 DEF Crash, Idle
<1>14. CASE UNCHANGED <<told, mail, req>>
  BY <1>1, <1>14
<1>15. ASSUME NEW x \in Races, Room(x) PROVE P
  BY <1>11, <1>12, <1>14, <1>15 DEF Room, LeaveGetRace, RemoveParticipant
<1> QED
  BY <1>10, <1>13, <1>14, <1>15 DEF Next, vars, roomVars

\* Postgres knows of a start before any player does.
LEMMA NextStarted ==
    ASSUME TypeOK, ReqOK, StartedInPostgres, [Next]_vars
    PROVE  StartedInPostgres'
<1>1. ASSUME NEW r \in Races, StartUnderWay(r)'
      PROVE  InPostgres(r)'
  BY <1>1, NextUnderWay, NextInPostgres DEF StartedInPostgres, InPostgres
<1> QED
  BY <1>1 DEF StartedInPostgres, InPostgres

-----------------------------------------------------------------------------
(* Open races.                                                              *)

\* Some Create is on its way to the Spawn of r.
BeingCreated(r) == \E q \in Requests : req[q].race = r /\ req[q].pc \in {"addCreator", "spawn"}
Provided(r) == room[r] \in {"lobby", "active"} \/ r \in orphaned \/ BeingCreated(r)

\* A race that becomes or stays pending keeps a room or somebody to make it.
LEMMA NextProvided ==
    ASSUME TypeOK, ReqOK, PendingHasRoom, [Next]_vars, NEW r \in Races, status'[r] = "pending"
    PROVE  Provided(r)'
<1> DEFINE P == Provided(r)'
<1>1. status[r] = "pending" => Provided(r)
  BY DEF PendingHasRoom, Provided, BeingCreated
<1>2. ASSUME status' = status, room' = room, orphaned \subseteq orphaned',
             \A q \in Requests : req[q].race = r /\ req[q].pc \in {"addCreator", "spawn"} => req'[q] = req[q]
      PROVE  P
  BY <1>1, <1>2 DEF Provided, BeingCreated
<1>3. ASSUME NEW q \in Requests, Answer(q), req[q].pc \notin {"addCreator", "spawn"},
             UNCHANGED <<status, room, orphaned>>
      PROVE  P
  BY <1>2, <1>3, AnswerType
<1>4. ASSUME NEW q \in Requests, NEW pc \in Pc, Goto(q, pc), req[q].pc \notin {"addCreator", "spawn"},
             UNCHANGED <<status, room, orphaned>>
      PROVE  P
  BY <1>2, <1>4, GotoType
<1>5. ASSUME NEW q \in Requests, NEW u \in Users, NEW x \in Races \cup {NoRace}, NEW pc \in Pc,
             Receives(q, u, x, pc), UNCHANGED <<status, room, orphaned>>
      PROVE P
  <2>1. req[q].pc = "idle"
    BY <1>5 DEF Receives, Idle
  <2>2. \A y \in Requests \ {q} : req'[y] = req[y]
    BY <1>5, ReceivesType
  <2> QED
    BY <1>2, <1>5, <2>1, <2>2
<1>6. "newRace" \in Pc /\ "update" \in Pc /\ "count" \in Pc /\ "insert" \in Pc /\ "spawn" \in Pc
      /\ "markActive" \in Pc
  BY DEF Pc
<1>7. ASSUME NEW q \in Requests, NEW x \in Races, CreateRace(q, x) PROVE P
  <2>1. UNCHANGED <<room, orphaned>> /\ req[q].pc = "newRace"
    BY <1>7 DEF CreateRace, roomVars, historyVars
  <2>2. CASE ~IdTaken(x)
    <3>1. /\ req'[q].pc = "addCreator" /\ req'[q].race = x
          /\ \A y \in Requests \ {q} : req'[y] = req[y]
      BY <1>7, <2>2, CreatedType DEF CreateRace
    <3>2. CASE x = r
      BY <3>1, <3>2 DEF Provided, BeingCreated
    <3>3. CASE x # r
      <4>1. status'[r] = status[r]
        BY <1>7, <2>2, <3>3 DEF CreateRace, InsertRace, TypeOK
      <4> QED
        BY <1>1, <2>1, <3>1, <4>1 DEF Provided, BeingCreated
    <3> QED
      BY <3>2, <3>3
  <2>3. CASE IdTaken(x) /\ MayRetry(req[q].attempt)
    <3>1. UNCHANGED status
      BY <1>7, <2>3 DEF CreateRace
    <3>2. \A y \in Requests : req'[y].pc = req[y].pc /\ req'[y].race = req[y].race
      BY <1>7, <2>3, RetryType DEF CreateRace
    <3> QED
      BY <1>1, <2>1, <3>1, <3>2 DEF Provided, BeingCreated
  <2> QED
    BY <1>3, <1>7, <2>1, <2>2, <2>3 DEF CreateRace
<1>8. ASSUME NEW q \in Requests, CreatorAdded(q) PROVE P
  <2>1. UNCHANGED <<status, room>>
    BY <1>8 DEF CreatorAdded, roomVars
  <2>2. CASE Goto(q, "spawn") /\ UNCHANGED orphaned
    <3>1. /\ req'[q].pc = "spawn" /\ req'[q].race = req[q].race
          /\ \A y \in Requests \ {q} : req'[y] = req[y]
      BY <1>6, <2>2, GotoType
    <3> QED
      BY <1>1, <2>1, <2>2, <3>1 DEF Provided, BeingCreated
  <2>3. CASE Answer(q) /\ orphaned' = orphaned \cup {req[q].race}
    <3>1. \A y \in Requests \ {q} : req'[y] = req[y]
      BY <2>3, AnswerType
    <3> QED
      BY <1>1, <2>1, <2>3, <3>1 DEF Provided, BeingCreated
  <2> QED
    BY <1>8, <2>2, <2>3 DEF CreatorAdded
<1>9. ASSUME NEW q \in Requests, Spawn(q) PROVE P
  <2>1. UNCHANGED <<status, orphaned>> /\ room' = [room EXCEPT ![req[q].race] = "lobby"]
    BY <1>9 DEF Spawn, dbVars
  <2>2. \A y \in Requests \ {q} : req'[y] = req[y]
    BY <1>9, AnswerType DEF Spawn
  <2>3. CASE req[q].race = r
    BY <2>1, <2>3 DEF Provided, TypeOK
  <2>4. CASE req[q].race # r
    BY <1>1, <2>1, <2>2, <2>4 DEF Provided, BeingCreated, TypeOK
  <2> QED
    BY <2>3, <2>4
<1>10. ASSUME NEW q \in Requests, NEW u \in Users, NEW x \in Races, JoinGetRace(q, u, x) PROVE P
  <2>1. req[q].pc = "idle" /\ \A y \in Requests \ {q} : req'[y] = req[y]
    BY <1>10 DEF JoinGetRace, TypeOK, Idle
  <2> QED
    BY <1>2, <1>10, <2>1 DEF JoinGetRace, dbVars, roomVars, historyVars
<1>11. ASSUME NEW x \in Races, NEW q \in Requests, NEW z \in Requests, req[q].pc = "update",
              UpdateActive(x, z), Goto(q, "markActive") \/ Answer(q), UNCHANGED <<room, orphaned>>
       PROVE  P
  <2>1. status'[r] = status[r]
    BY <1>11 DEF UpdateActive, TypeOK
  <2>2. \A y \in Requests \ {q} : req'[y] = req[y]
    BY <1>6, <1>11, GotoType, AnswerType
  <2> QED
    BY <1>1, <1>11, <2>1, <2>2 DEF Provided, BeingCreated
<1>12. ASSUME NEW q \in Requests, Answer(q), Orphans(q), req[q].pc # "spawn", UNCHANGED <<status, room>>
       PROVE  P
  <2>1. \A y \in Requests \ {q} : req'[y] = req[y]
    BY <1>12, AnswerType
  <2> QED
    BY <1>1, <1>12, <2>1 DEF Orphans, Provided, BeingCreated
<1>13. ASSUME NEW q \in Requests, FailsAfterWrite(q) PROVE P
  <2>1. Answer(q) /\ UNCHANGED room
    BY <1>13 DEF FailsAfterWrite, roomVars
  <2>2. CASE req[q].pc = "newRace"
    <3>1. PICK new \in Races : InsertRace(new, req[q].user) /\ orphaned' = orphaned \cup {new}
      BY <1>13, <2>2 DEF FailsAfterWrite
    <3>2. new # r => status'[r] = status[r]
      BY <3>1 DEF InsertRace, TypeOK
    <3>3. \A y \in Requests \ {q} : req'[y] = req[y]
      BY <2>1, AnswerType
    <3> QED
      BY <1>1, <2>1, <2>2, <3>1, <3>2, <3>3 DEF Provided, BeingCreated
  <2>3. CASE req[q].pc \in {"addCreator", "insert"}
    BY <1>12, <1>13, <2>1, <2>3 DEF FailsAfterWrite
  <2>4. CASE req[q].pc = "update"
    <3>1. req[q].race \in Races
      BY <2>4 DEF ReqOK
    <3> QED
      BY <1>11, <1>13, <2>1, <2>4, <3>1 DEF FailsAfterWrite
  <2> QED
    BY <1>13, <2>2, <2>3, <2>4 DEF FailsAfterWrite
<1>14. ASSUME NEW q \in Requests, StartRace(q) PROVE P
  <2>1. req[q].race \in Races
    BY <1>14 DEF StartRace, ReqOK
  <2> QED
    BY <1>11, <1>14, <2>1 DEF StartRace, roomVars, historyVars
<1>15. ASSUME NEW q \in Requests, Handler(q) PROVE P
  <2>1. CASE \E u \in Users : CreateReceives(q, u)
    BY <1>5, <1>6, <2>1 DEF CreateReceives, dbVars, roomVars, historyVars
  <2>2. CASE \E u \in Users, x \in Races : StartGetRace(q, u, x)
    BY <1>5, <1>6, <2>2 DEF StartGetRace, dbVars, roomVars, historyVars
  <2>3. CASE IsParticipant(q) \/ CountParticipants(q)
    BY <1>3, <1>4, <1>6, <2>3 DEF IsParticipant, CountParticipants, dbVars, roomVars, historyVars
  <2>4. CASE AddParticipant(q) \/ MarkActive(q)
    BY <1>3, <2>4 DEF AddParticipant, MarkActive, dbVars, roomVars, historyVars
  <2>5. CASE Fails(q)
    BY <1>12, <2>5 DEF Fails, dbVars, roomVars
  <2> QED
    BY <1>7, <1>8, <1>9, <1>10, <1>13, <1>14, <1>15, <2>1, <2>2, <2>3, <2>4, <2>5 DEF Handler
<1>16. CASE Crash
  BY <1>16 DEF Crash, Provided, NoRow, dbVars
<1>17. ASSUME NEW x \in Races, CancelRace(x) \/ FinishRace(x) \/ Activated(x) PROVE P
  <2>1. UNCHANGED <<req, orphaned>> /\ status[r] = "pending"
    BY <1>17 DEF CancelRace, FinishRace, Activated, TypeOK, historyVars, dbVars
  <2>2. room'[r] \in {"lobby", "active"} \/ room'[r] = room[r]
    BY <1>17 DEF CancelRace, FinishRace, Activated, TypeOK
  <2> QED
    BY <1>1, <2>1, <2>2 DEF Provided, BeingCreated
<1>18. CASE UNCHANGED <<status, room, orphaned, req>>
  BY <1>2, <1>18
<1>19. ASSUME NEW x \in Races, Room(x) PROVE P
  BY <1>17, <1>18, <1>19 DEF Room, LeaveGetRace, RemoveParticipant, dbVars, historyVars
<1> QED
  BY <1>15, <1>16, <1>18, <1>19 DEF Next, vars, dbVars, roomVars, historyVars

-----------------------------------------------------------------------------
(* The theorems.                                                            *)

\* The inductive invariant: it holds of an empty database,
LEMMA InitInv == Init => Inv
<1> SUFFICES ASSUME Init PROVE Inv
  OBVIOUS
<1>1. TypeOK
  BY AttemptsAssumption, FaultsAssumption DEF Init, TypeOK, Idle, Request, Pc, Status
<1>2. ReqOK /\ SpawnHasRow /\ TokenHasRow
  BY DEF Init, ReqOK, SpawnHasRow, TokenHasRow, Idle
<1>3. FreshIdEmpty
  BY DEF Init, FreshIdEmpty
<1>4. OvershootBounded
  <2>1. ASSUME NEW r \in Races
        PROVE  Cardinality(rows[r]) + Cardinality(Inserting(r)) < MaxParticipants + Cardinality(Requests)
    <3>1. rows[r] = {} /\ Inserting(r) = {}
      BY DEF Init, Inserting, Idle
    <3>2. Cardinality(Requests) \in Nat
      BY FiniteAssumption, FS_CardinalityType
    <3> QED
      BY <3>1, <3>2, FS_EmptySet, LimitAssumption
  <2> QED
    BY <2>1 DEF OvershootBounded
<1>5. StartedInPostgres
  BY DEF Init, StartedInPostgres, StartUnderWay, Idle
<1>6. PendingHasRoom
  BY DEF Init, PendingHasRoom, NoRow
<1> QED
  BY <1>1, <1>2, <1>3, <1>4, <1>5, <1>6 DEF Inv

\* every step keeps it,
LEMMA NextInv == Inv /\ [Next]_vars => Inv'
<1> SUFFICES ASSUME Inv, [Next]_vars PROVE Inv'
  OBVIOUS
<1>1. /\ TypeOK /\ ReqOK /\ FreshIdEmpty /\ OvershootBounded /\ TokenHasRow /\ SpawnHasRow
      /\ StartedInPostgres /\ PendingHasRoom
  BY DEF Inv
<1>2. TypeOK' /\ ReqOK'
  BY <1>1, NextType
<1>3. FreshIdEmpty'
  BY <1>1, NextRows
<1>4. OvershootBounded'
  BY <1>1, NextOvershoot
<1>5. TokenHasRow' /\ SpawnHasRow'
  BY <1>1, NextTokenHasRow
<1>6. StartedInPostgres'
  BY <1>1, NextStarted
<1>7. PendingHasRoom'
  BY <1>1, NextProvided DEF PendingHasRoom, Provided, BeingCreated
<1> QED
  BY <1>2, <1>3, <1>4, <1>5, <1>6, <1>7 DEF Inv

\* and so it holds for ever.
LEMMA LobbyInv == Spec => []Inv
<1> QED
  BY InitInv, NextInv, PTL DEF Spec

\* Every variable of the lobby keeps its type, and no Create tries more than
\* MaxCreateRaceAttempts ids, for any number of users, races and handlers.
THEOREM LobbyTypeCorrect == Spec => []TypeOK
<1>1. Inv => TypeOK
  BY DEF Inv
<1> QED
  BY <1>1, LobbyInv, PTL

\* A race exceeds MaxParticipants by fewer rows than there are handlers at one
\* time, however many joins come one after another and whatever fails between the
\* count and the INSERT.
THEOREM OvershootIsBounded == Spec => []OvershootBounded
<1>1. Inv => OvershootBounded
  BY DEF Inv
<1> QED
  BY <1>1, LobbyInv, PTL

\* Every session token belongs to a row of race_participants, or to one the
\* room's LeaveRace has deleted.
THEOREM TokensHaveRows == Spec => []TokenHasRow
<1>1. Inv => TokenHasRow
  BY DEF Inv
<1> QED
  BY <1>1, LobbyInv, PTL

\* By the time race_started goes out, Postgres has the race's text and its status,
\* and neither a cancelled lobby nor a second Start takes them back.
THEOREM StartReachesPostgresFirst == Spec => []StartedInPostgresFirst
<1>1. Inv => StartedInPostgresFirst
  BY DEF Inv, StartedInPostgres, StartUnderWay, StartedInPostgresFirst
<1> QED
  BY <1>1, LobbyInv, PTL

\* A race in the list of open races has a room, a Create that is about to spawn it,
\* or lost its Create to a failure or a crash.
THEOREM OpenRacesHaveRooms == Spec => []OpenRaceHasRoom
<1>1. Inv => OpenRaceHasRoom
  BY DEF Inv, PendingHasRoom, OpenRaceHasRoom, ListOpenRaces
<1> QED
  BY <1>1, LobbyInv, PTL

==============================================================================
