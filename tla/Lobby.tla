-------------------------------- MODULE Lobby --------------------------------
(***************************************************************************)
(* Races before they run: the handlers Create, Join and Start              *)
(* (backend/internal/race/handler.go and service.go), each statement they  *)
(* run on races and race_participants                                      *)
(* (internal/postgres/race_repository.go), and what the rooms do to the    *)
(* same rows meanwhile.                                                    *)
(*                                                                         *)
(* One action is one SQL statement with the Go code up to the next one.    *)
(* Statements autocommit, so other requests run between them.  The room is *)
(* reduced to the calls it makes: module RoomActor has what leads to them. *)
(* Left out: authentication, validation of names and ids (both answer      *)
(* before the first statement), the Text and Status reads, and what an     *)
(* answer says beyond the token it hands out.                              *)
(***************************************************************************)
EXTENDS Integers, Sequences, FiniteSets

CONSTANTS
    Users, Races,      \* user ids and the race ids GenerateRaceID may return
    UsedIds,           \* the ids of races long finished
    Requests,          \* the handler goroutines that run at one time
    MaxParticipants,   \* players a race takes (10 in the code)
    MaxCreateRaceAttempts, \* tries at a fresh id (5 in the code)
    MaxFaults          \* bound: failing calls, clients gone mid-request, crashes

ASSUME FiniteAssumption == IsFiniteSet(Users) /\ IsFiniteSet(Races) /\ IsFiniteSet(Requests)
ASSUME UsedIdsAssumption == UsedIds \subseteq Races
ASSUME LimitAssumption == MaxParticipants \in Nat \ {0}
ASSUME AttemptsAssumption == MaxCreateRaceAttempts \in Nat \ {0}
ASSUME FaultsAssumption == MaxFaults \in Nat

VARIABLES
    status,     \* races.status; NoRow while the id is unused
    createdBy,  \* races.created_by
    promptText, \* races.prompt_text, named after the request that generated it
    rows,       \* race_participants, the user ids of each race
    room,       \* the race's actor in the registry: none, lobby, active, gone
    leaving,    \* the user whose LeaveRace the actor is in the middle of
    mail,       \* texts of the activated events in the actor's inbox
    told,       \* texts announced with race_started
    req,        \* where each handler stands
    tokens,     \* session tokens handed out, as pairs of race and user
    left,       \* pairs of race and user whose row was deleted; not in the code
    orphaned,   \* races whose Create ended before its Spawn; not in the code
    faults

dbVars == <<status, createdBy, promptText, rows>>
roomVars == <<room, leaving, mail, told>>
historyVars == <<tokens, left, orphaned>>
vars == <<dbVars, roomVars, req, historyVars, faults>>

NoRow == "norow"
NoText == "null"
NoUser == "nobody"
NoRace == "norace"
Status == {"pending", "active", "finished", "cancelled"}

\* SQL NULL and "no such row" are not ids.
ASSUME NullAssumption == NoUser \notin Users /\ NoText \notin Requests /\ NoRace \notin Races

\* A handler between requests.
Idle == [pc |-> "idle", user |-> NoUser, race |-> NoRace, attempt |-> 0, pending |-> FALSE]

Init ==
    /\ status = [r \in Races |-> IF r \in UsedIds THEN "finished" ELSE NoRow]
    /\ createdBy = [r \in Races |-> NoUser]      \* who created the used ones matters to nobody
    /\ promptText = [r \in Races |-> NoText] /\ rows = [r \in Races |-> {}]
    /\ room = [r \in Races |-> IF r \in UsedIds THEN "gone" ELSE "none"] /\ leaving = [r \in Races |-> NoUser]
    /\ mail = [r \in Races |-> <<>>] /\ told = [r \in Races |-> {}]
    /\ req = [q \in Requests |-> Idle]
    /\ tokens = {} /\ left = {} /\ orphaned = {}
    /\ faults = 0

Goto(q, pc) == req' = [req EXCEPT ![q].pc = pc]
Answer(q) == req' = [req EXCEPT ![q] = Idle]
Receives(q, u, r, pc) ==
    req[q] = Idle /\ req' = [req EXCEPT ![q] = [Idle EXCEPT !.pc = pc, !.user = u, !.race = r]]

\* What the three writing statements do.
InsertRace(r, u) ==
    status' = [status EXCEPT ![r] = "pending"] /\ createdBy' = [createdBy EXCEPT ![r] = u]
InsertRow(r, u) == rows' = [rows EXCEPT ![r] = @ \cup {u}]
UpdateActive(r, text) ==
    status' = [status EXCEPT ![r] = "active"] /\ promptText' = [promptText EXCEPT ![r] = text]

-----------------------------------------------------------------------------
(* POST /races.                                                             *)

CreateReceives(q, u) ==
    /\ Receives(q, u, NoRace, "newRace")
    /\ UNCHANGED <<dbVars, roomVars, historyVars, faults>>

IdTaken(r) == status[r] # NoRow

\* Mutant: one attempt too many.
MayRetry_OneMore(n) == n < MaxCreateRaceAttempts
MayRetry(n) == n + 1 < MaxCreateRaceAttempts

\* One attempt: a fresh row, or the unique constraint refuses an id in use.
CreateRace(q, r) ==
    /\ req[q].pc = "newRace"
    /\ \/ /\ ~IdTaken(r)
          /\ InsertRace(r, req[q].user)
          /\ req' = [req EXCEPT ![q].pc = "addCreator", ![q].race = r]
       \/ /\ IdTaken(r)
          /\ IF MayRetry(req[q].attempt) THEN req' = [req EXCEPT ![q].attempt = @ + 1] ELSE Answer(q)
          /\ UNCHANGED <<status, createdBy>>
    /\ UNCHANGED <<promptText, rows, roomVars, historyVars, faults>>

\* The creator may have joined through the open list by now: ErrAlreadyJoined,
\* which Create answers like any other error.
CreatorAdded(q) ==
    LET r == req[q].race IN
    /\ req[q].pc = "addCreator"
    /\ \/ /\ req[q].user \notin rows[r]
          /\ InsertRow(r, req[q].user)
          /\ Goto(q, "spawn")
          /\ UNCHANGED orphaned
       \/ /\ req[q].user \in rows[r]
          /\ orphaned' = orphaned \cup {r} /\ Answer(q)
          /\ UNCHANGED rows
    /\ UNCHANGED <<status, createdBy, promptText, roomVars, tokens, left, faults>>

\* signSessionToken, Spawn and the 201 answer.
Spawn(q) ==
    LET r == req[q].race IN
    /\ req[q].pc = "spawn"
    /\ room' = [room EXCEPT ![r] = "lobby"]
    /\ tokens' = tokens \cup {<<r, req[q].user>>}
    /\ Answer(q)
    /\ UNCHANGED <<dbVars, leaving, mail, told, left, orphaned, faults>>

-----------------------------------------------------------------------------
(* POST /races/{id}/join.                                                   *)

\* GetRace; an unknown race is answered 404.
JoinGetRace(q, u, r) ==
    /\ req[q] = Idle /\ status[r] # NoRow
    /\ req' = [req EXCEPT ![q] = [Idle EXCEPT !.pc = "isParticipant", !.user = u, !.race = r,
                                              !.pending = (status[r] = "pending")]]
    /\ UNCHANGED <<dbVars, roomVars, historyVars, faults>>

\* A caller who is in gets a fresh token, whatever the status; anybody else
\* needs the race to have been pending when GetRace read it.
IsParticipant(q) ==
    LET r == req[q].race
        u == req[q].user
    IN
    /\ req[q].pc = "isParticipant"
    /\ \/ u \in rows[r] /\ tokens' = tokens \cup {<<r, u>>} /\ Answer(q)
       \/ u \notin rows[r] /\ ~req[q].pending /\ Answer(q) /\ UNCHANGED tokens
       \/ u \notin rows[r] /\ req[q].pending /\ Goto(q, "count") /\ UNCHANGED tokens
    /\ UNCHANGED <<dbVars, roomVars, left, orphaned, faults>>

\* Mutant: the limit is off by one.
Full_OffByOne(r) == Cardinality(rows[r]) > MaxParticipants
Full(r) == Cardinality(rows[r]) >= MaxParticipants

CountParticipants(q) ==
    /\ req[q].pc = "count"
    /\ IF Full(req[q].race) THEN Answer(q) ELSE Goto(q, "insert")
    /\ UNCHANGED <<dbVars, roomVars, historyVars, faults>>

\* The INSERT and the token.  The unique constraint is all it is subject to.
AddParticipant(q) ==
    LET r == req[q].race
        u == req[q].user
    IN
    /\ req[q].pc = "insert"
    /\ \/ u \notin rows[r] /\ InsertRow(r, u) /\ tokens' = tokens \cup {<<r, u>>}
       \/ u \in rows[r] /\ UNCHANGED <<rows, tokens>>
    /\ Answer(q)
    /\ UNCHANGED <<status, createdBy, promptText, roomVars, left, orphaned, faults>>

-----------------------------------------------------------------------------
(* POST /races/{id}/start.                                                  *)

StartGetRace(q, u, r) ==
    /\ status[r] = "pending" /\ createdBy[r] = u
    /\ Receives(q, u, r, "update")
    /\ UNCHANGED <<dbVars, roomVars, historyVars, faults>>

\* Mutant: the room is told before Postgres.
StartRace_TellsFirst(q) ==
    LET r == req[q].race IN
    /\ req[q].pc = "update"
    /\ mail' = [mail EXCEPT ![r] = Append(@, q)]
    /\ Goto(q, "markActive")
    /\ UNCHANGED <<dbVars, room, leaving, told, historyVars, faults>>

\* The UPDATE looks at the id only.
StartRace(q) ==
    LET r == req[q].race IN
    /\ req[q].pc = "update"
    /\ UpdateActive(r, q)
    /\ Goto(q, "markActive")
    /\ UNCHANGED <<createdBy, rows, roomVars, historyVars, faults>>

\* registry.Get, then MarkActive; without an actor the answer is a 500 and the
\* row stays as it is.
MarkActive(q) ==
    LET r == req[q].race IN
    /\ req[q].pc = "markActive"
    /\ mail' = IF room[r] \in {"lobby", "active"} THEN [mail EXCEPT ![r] = Append(@, q)] ELSE mail
    /\ Answer(q)
    /\ UNCHANGED <<dbVars, room, leaving, told, historyVars, faults>>

-----------------------------------------------------------------------------
(* Failures.                                                                *)

Fault == faults < MaxFaults /\ faults' = faults + 1

\* A Create that has made its race and ends without a room for it.
Orphans(q) == orphaned' = IF req[q].pc = "addCreator" THEN orphaned \cup {req[q].race} ELSE orphaned

\* Mutant: the token is signed although the INSERT has failed.
Fails_Signs(q) ==
    /\ Fault /\ req[q].pc = "insert"
    /\ tokens' = tokens \cup {<<req[q].race, req[q].user>>}
    /\ Orphans(q) /\ Answer(q)
    /\ UNCHANGED <<dbVars, roomVars, left>>

\* A statement fails, or its client has gone and cancelled r.Context().
Fails(q) ==
    /\ Fault
    /\ req[q].pc \in {"newRace", "addCreator", "isParticipant", "count", "insert", "update"}
    /\ Orphans(q) /\ Answer(q)
    /\ UNCHANGED <<dbVars, roomVars, tokens, left>>

\* The connection is lost after Postgres has done what it was asked.
FailsAfterWrite(q) ==
    LET r == req[q].race
        u == req[q].user
    IN
    /\ Fault /\ Answer(q)
    /\ \/ /\ req[q].pc = "newRace"
          /\ \E new \in Races : ~IdTaken(new) /\ InsertRace(new, u) /\ orphaned' = orphaned \cup {new}
          /\ UNCHANGED <<promptText, rows>>
       \/ /\ req[q].pc \in {"addCreator", "insert"} /\ InsertRow(r, u)
          /\ Orphans(q)
          /\ UNCHANGED <<status, createdBy, promptText>>
       \/ /\ req[q].pc = "update" /\ UpdateActive(r, q)
          /\ UNCHANGED <<createdBy, rows, orphaned>>
    /\ UNCHANGED <<roomVars, tokens, left>>

\* race-service dies: handlers and rooms are gone, Postgres is not.
Crash ==
    /\ Fault
    /\ room' = [r \in Races |-> "gone"]
    /\ orphaned' = {r \in Races : status[r] # NoRow}
    /\ leaving' = [r \in Races |-> NoUser] /\ mail' = [r \in Races |-> <<>>]
    /\ req' = [q \in Requests |-> Idle]
    /\ UNCHANGED <<dbVars, told, tokens, left>>

-----------------------------------------------------------------------------
(* The room's calls.                                                        *)

Free(r, state) == room[r] = state /\ leaving[r] = NoUser

\* LeaveRace is called in the lobby for a player in the room, who came with a
\* token: GetRace finds the race pending, and the DELETE follows.
LeaveGetRace(r, u) ==
    /\ Free(r, "lobby") /\ <<r, u>> \in tokens /\ status[r] = "pending"
    /\ leaving' = [leaving EXCEPT ![r] = u]
    /\ UNCHANGED <<dbVars, room, mail, told, req, historyVars, faults>>

RemoveParticipant(r) ==
    /\ leaving[r] # NoUser
    /\ rows' = [rows EXCEPT ![r] = @ \ {leaving[r]}]
    /\ left' = left \cup {<<r, leaving[r]>>}
    /\ leaving' = [leaving EXCEPT ![r] = NoUser]
    /\ UNCHANGED <<status, createdBy, promptText, room, mail, told, req, tokens, orphaned, faults>>

\* Mutant: the room closes whether or not CancelRace worked.
CancelRace_Ignored(r) ==
    /\ Free(r, "lobby")
    /\ room' = [room EXCEPT ![r] = "gone"]
    /\ mail' = [mail EXCEPT ![r] = <<>>]
    /\ UNCHANGED <<dbVars, leaving, told, req, historyVars, faults>>

\* expirePendingRoom: CancelRace, whose UPDATE is for a pending race only, and the
\* end of the room.  When the call fails nothing changes.
CancelRace(r) ==
    /\ Free(r, "lobby")
    /\ status' = [status EXCEPT ![r] = IF @ = "pending" THEN "cancelled" ELSE @]
    /\ room' = [room EXCEPT ![r] = "gone"]
    /\ mail' = [mail EXCEPT ![r] = <<>>]
    /\ UNCHANGED <<createdBy, promptText, rows, leaving, told, req, historyVars, faults>>

\* The actor applies activated: race_started goes out with the text.
Activated(r) ==
    /\ Free(r, room[r]) /\ mail[r] # <<>>
    /\ room' = [room EXCEPT ![r] = "active"]
    /\ told' = [told EXCEPT ![r] = @ \cup {Head(mail[r])}]
    /\ mail' = [mail EXCEPT ![r] = Tail(@)]
    /\ UNCHANGED <<dbVars, leaving, req, historyVars, faults>>

\* FinishRace and the end of the room.
FinishRace(r) ==
    /\ Free(r, "active")
    /\ status' = [status EXCEPT ![r] = "finished"]
    /\ room' = [room EXCEPT ![r] = "gone"]
    /\ mail' = [mail EXCEPT ![r] = <<>>]
    /\ UNCHANGED <<createdBy, promptText, rows, leaving, told, req, historyVars, faults>>

-----------------------------------------------------------------------------
Handler(q) ==
    \/ \E u \in Users : CreateReceives(q, u)
    \/ \E r \in Races : CreateRace(q, r)
    \/ \E u \in Users, r \in Races : JoinGetRace(q, u, r) \/ StartGetRace(q, u, r)
    \/ CreatorAdded(q) \/ Spawn(q)
    \/ IsParticipant(q) \/ CountParticipants(q) \/ AddParticipant(q)
    \/ StartRace(q) \/ MarkActive(q)
    \/ Fails(q) \/ FailsAfterWrite(q)

Room(r) ==
    \/ \E u \in Users : LeaveGetRace(r, u)
    \/ RemoveParticipant(r) \/ CancelRace(r) \/ Activated(r) \/ FinishRace(r)

Next == (\E q \in Requests : Handler(q)) \/ (\E r \in Races : Room(r)) \/ Crash

Spec == Init /\ [][Next]_vars

-----------------------------------------------------------------------------
(* Safety.                                                                  *)

Pc == {"idle", "newRace", "addCreator", "spawn", "isParticipant", "count", "insert",
       "update", "markActive"}
Request ==
    [pc : Pc, user : Users \cup {NoUser}, race : Races \cup {NoRace},
     attempt : 0..(MaxCreateRaceAttempts - 1), pending : BOOLEAN]

\* Every variable has its type, and no Create tries more ids than it may.
TypeOK ==
    /\ status \in [Races -> Status \cup {NoRow}] /\ createdBy \in [Races -> Users \cup {NoUser}]
    /\ promptText \in [Races -> Requests \cup {NoText}] /\ rows \in [Races -> SUBSET Users]
    /\ room \in [Races -> {"none", "lobby", "active", "gone"}]
    /\ leaving \in [Races -> Users \cup {NoUser}]
    /\ mail \in [Races -> Seq(Requests)] /\ told \in [Races -> SUBSET Requests]
    /\ req \in [Requests -> Request]
    /\ faults \in 0..MaxFaults
    /\ tokens \subseteq Races \X Users /\ left \subseteq Races \X Users /\ orphaned \subseteq Races

\* Handlers that will insert a row without another look at the number of rows.
Inserting(r) == {q \in Requests : req[q].race = r /\ req[q].pc \in {"addCreator", "insert"}}

\* Counting and inserting are separate statements, so a race may exceed
\* MaxParticipants, but only by the joins that are in flight at one time, however
\* many come one after another (service.go:84-94; the source accepts the window).
OvershootBounded ==
    \A r \in Races :
        Cardinality(rows[r]) + Cardinality(Inserting(r)) < MaxParticipants + Cardinality(Requests)

\* ListOpenRaces: pending races with a free place the caller has no row in.
ListOpenRaces(u) ==
    {r \in Races : status[r] = "pending" /\ u \notin rows[r] /\ ~Full(r)}

\* A race offered as open has a room to play it in, once its Create is through:
\* a room that closes takes its race off the list first (room.go:460-468).  Only
\* a Create that ended halfway, or a crash, leaves a race nobody can play.
OpenRaceHasRoom ==
    \A u \in Users : \A r \in ListOpenRaces(u) :
        \/ room[r] \in {"lobby", "active"} \/ r \in orphaned
        \/ \E q \in Requests : req[q].race = r /\ req[q].pc \in {"addCreator", "spawn"}

\* Whoever holds a session token has a row for the result to be written to,
\* unless they have left: a token is never handed out for an INSERT that failed.
TokenHasRow == \A t \in tokens : t[2] \in rows[t[1]] \/ t \in left

\* When race_started goes out, GET /races/{id}/text has a text and the race is
\* no longer open.
StartedInPostgresFirst ==
    \A r \in Races : told[r] # {} => promptText[r] # NoText /\ status[r] \in {"active", "finished"}

-----------------------------------------------------------------------------
(* What the repository says of Start and the code does not keep.            *)

\* The text is generated once per race: once no Start is under way, what players
\* were sent is what GET /races/{id}/text returns.
OnePromptPerRace ==
    \A r \in Races :
        mail[r] = <<>> /\ (\A q \in Requests : req[q].race = r => req[q].pc \notin {"update", "markActive"})
            => told[r] \subseteq {promptText[r]}
=============================================================================
