----------------------------- MODULE Leaderboard -----------------------------
(***************************************************************************)
(* How results reach Postgres and the leaderboard                          *)
(* (backend/internal/postgres/race_repository.go, FinishRace and           *)
(* ReconcileParticipantResults) and how they are read back                 *)
(* (internal/postgres/leaderboard_repository.go, internal/leaderboard, and *)
(* GetRaceWithParticipants).                                               *)
(*                                                                         *)
(* Rooms end on their own, so several FinishRace transactions run at once. *)
(* One action is one statement.  Postgres is external: a transaction's     *)
(* writes are private until it commits, each statement sees what is        *)
(* committed when it runs (READ COMMITTED), a line of leaderboard_alltime  *)
(* stays locked from its upsert to the end of the transaction, and of      *)
(* transactions that wait in a circle one is aborted.  Left out: distance  *)
(* and pace sums, which are added to like the counts.                      *)
(***************************************************************************)
EXTENDS Integers, FiniteSets

CONSTANTS
    Users,
    Races,       \* races that come to their end
    Results,     \* Results[r]: the records finishRace hands to FinishRace
    Rows,        \* Rows[r]: the users with a race_participants row
    PageSize,    \* 5 in the code
    MaxCalls,    \* bound: FinishRace calls
    MaxFaults,   \* bound: failing statements and lost commit replies
    MaxAged,     \* bound: races beyond the weekly window at one time
    MaxPage      \* bound: pages asked for

Result == [user : Users, rank : Nat \ {0}, time : Nat, departed : BOOLEAN]

ASSUME SetsAssumption == IsFiniteSet(Users) /\ IsFiniteSet(Races)
ASSUME ResultsAssumption ==
    \A r \in Races : Results[r] \subseteq Result /\ IsFiniteSet(Results[r]) /\ Rows[r] \subseteq Users
\* The actor's two maps have one entry per user each.
ASSUME OncePerMap ==
    \A r \in Races : \A p, q \in Results[r] : p.user = q.user /\ p.departed = q.departed => p = q
ASSUME BoundsAssumption ==
    PageSize \in Nat \ {0} /\ MaxCalls \in Nat /\ MaxFaults \in Nat /\ MaxAged \in Nat /\ MaxPage \in Nat

VARIABLES
    status,      \* races.status, as committed
    aged,        \* finished races that ended more than seven days ago
    finishRank,  \* race_participants.finish_rank, as committed; Null when unset
    board,       \* leaderboard_alltime, as committed
    tx,          \* the FinishRace transaction of each race
    lock,        \* the race whose transaction has a user's line locked
    finished,    \* races whose actor has set r.finished
    published,   \* races whose race.finished message is in Kafka
    reconciled,  \* races whose message the consumer has handled
    reader,      \* one GET /leaderboard or GET /races/{id}
    commits, lostReplies, calls, faults   \* counts, not in the code

dataVars == <<status, aged, finishRank, board, commits>>
roomVars == <<finished, published>>
countVars == <<lostReplies, calls, faults>>
vars == <<dataVars, tx, lock, roomVars, reconciled, reader, countVars>>

Null == 0        \* no finish_rank
NoTime == 0      \* no finish_time_ms
Unlocked == "unlocked"
ASSUME UnlockedAssumption == Unlocked \notin Races
EmptyLine == [races |-> 0, wins |-> 0, best |-> NoTime]

\* todo: results not yet dealt with; cur: the one whose upsert is next; ranks and
\* lines: what the transaction has written.
NoTx == [pc |-> "none", todo |-> {}, cur |-> {}, ranks |-> <<>>, lines |-> <<>>]

NoRead == [pc |-> "idle"]

Init ==
    /\ status = [r \in Races |-> "active"] /\ aged = {}
    /\ finishRank = [r \in Races |-> [u \in Rows[r] |-> Null]]
    /\ board = [u \in Users |-> EmptyLine]
    /\ tx = [r \in Races |-> NoTx] /\ lock = [u \in Users |-> Unlocked]
    /\ finished = {} /\ published = {} /\ reconciled = {}
    /\ reader = NoRead
    /\ commits = [r \in Races |-> 0] /\ lostReplies = [r \in Races |-> 0]
    /\ calls = 0 /\ faults = 0

-----------------------------------------------------------------------------
(* FinishRace.                                                              *)

\* Mutant: the room forgets that it has finished.
MayFinish_Again(r) == tx[r].pc = "none"
MayFinish(r) == tx[r].pc = "none" /\ r \notin finished

Opened(r) ==
    [NoTx EXCEPT !.pc = "race", !.todo = Results[r], !.ranks = finishRank[r]]

\* Mutant: the message goes out before the results are stored.
Begin_Publishes(r) ==
    /\ MayFinish(r) /\ calls < MaxCalls
    /\ calls' = calls + 1
    /\ tx' = [tx EXCEPT ![r] = Opened(r)]
    /\ published' = published \cup {r}
    /\ UNCHANGED <<dataVars, lock, finished, reconciled, reader, lostReplies, faults>>

\* checkRaceFinished finds the race over; after a failed call a later event may.
Begin(r) ==
    /\ MayFinish(r) /\ calls < MaxCalls
    /\ calls' = calls + 1
    /\ tx' = [tx EXCEPT ![r] = Opened(r)]
    /\ UNCHANGED <<dataVars, lock, roomVars, reconciled, reader, lostReplies, faults>>

\* Mutant: no transaction, the statement commits by itself.
UpdateRace_Autocommit(r) ==
    /\ tx[r].pc = "race"
    /\ tx' = [tx EXCEPT ![r].pc = "next"]
    /\ status' = [status EXCEPT ![r] = "finished"]
    /\ UNCHANGED <<aged, finishRank, board, commits, lock, roomVars, reconciled, reader, countVars>>

UpdateRace(r) ==
    /\ tx[r].pc = "race"
    /\ tx' = [tx EXCEPT ![r].pc = "next"]
    /\ UNCHANGED <<dataVars, lock, roomVars, reconciled, reader, countVars>>

\* The players in the room come before the departed ones; within either, Go's map
\* order is any order.
Eligible(r) == {res \in tx[r].todo : res.departed => \A other \in tx[r].todo : other.departed}

\* A player without a row is passed over: no row matches, which is no error.
UpdateParticipant(r, res) ==
    /\ tx[r].pc = "next" /\ res \in Eligible(r)
    /\ tx' = [tx EXCEPT ![r].pc = "upsert", ![r].cur = {res},
                        ![r].ranks = [u \in DOMAIN @ |-> IF u = res.user THEN res.rank ELSE @[u]]]
    /\ UNCHANGED <<dataVars, lock, roomVars, reconciled, reader, countVars>>

\* Mutants: only a player with a time wins; the upsert replaces the count.
Won_FinishersOnly(res) == IF res.rank = 1 /\ res.time # NoTime THEN 1 ELSE 0

Won(res) == IF res.rank = 1 THEN 1 ELSE 0
Upserted_Replaces(line, res) == [races |-> 1, wins |-> line.wins + Won(res), best |-> res.time]
Best(old, new) ==
    IF new = NoTime THEN old ELSE IF old = NoTime THEN new ELSE IF new < old THEN new ELSE old
Upserted(line, res) ==
    [races |-> line.races + 1, wins |-> line.wins + Won(res), best |-> Best(line.best, res.time)]

\* What the transaction sees of a line it has locked.
Line(r, u) == IF u \in DOMAIN tx[r].lines THEN tx[r].lines[u] ELSE board[u]

\* Waits while another transaction has the line.
UpsertLine(r, res) ==
    LET u == res.user IN
    /\ res \in tx[r].cur /\ lock[u] \in {Unlocked, r}
    /\ lock' = [lock EXCEPT ![u] = r]
    /\ tx' = [tx EXCEPT ![r].pc = "next", ![r].todo = @ \ {res}, ![r].cur = {},
                        ![r].lines = [v \in DOMAIN @ \cup {u} |->
                                        IF v = u THEN Upserted(Line(r, u), res) ELSE @[v]]]
    /\ UNCHANGED <<dataVars, roomVars, reconciled, reader, countVars>>

Unlock(r) == [u \in Users |-> IF lock[u] = r THEN Unlocked ELSE lock[u]]
Ended(r) == [tx EXCEPT ![r] = NoTx]

\* ended_at is the time of this transaction, whatever it was before.
CommitWrites(r) ==
    /\ status' = [status EXCEPT ![r] = "finished"] /\ aged' = aged \ {r}
    /\ finishRank' = [finishRank EXCEPT ![r] = tx[r].ranks]
    /\ board' = [u \in Users |-> Line(r, u)]
    /\ commits' = [commits EXCEPT ![r] = @ + 1]
    /\ tx' = Ended(r) /\ lock' = Unlock(r)

MayCommit(r) == tx[r].pc = "next" /\ tx[r].todo = {}

\* Commit succeeds, and finishRace goes on: r.finished, then the message.
Commit(r) ==
    /\ MayCommit(r) /\ CommitWrites(r)
    /\ finished' = finished \cup {r}
    /\ published' \in {published, published \cup {r}}
    /\ UNCHANGED <<reconciled, reader, countVars>>

\* Commit's reply is lost: FinishRace returns an error for what is done.
CommitReplyLost(r) ==
    /\ MayCommit(r) /\ CommitWrites(r)
    /\ faults < MaxFaults /\ faults' = faults + 1
    /\ lostReplies' = [lostReplies EXCEPT ![r] = @ + 1]
    /\ UNCHANGED <<roomVars, reconciled, reader, calls>>

\* Mutant: an early return without the deferred Rollback.
Rollback_Missing(r) == tx' = Ended(r) /\ UNCHANGED lock
Rollback(r) == tx' = Ended(r) /\ lock' = Unlock(r)

\* A statement fails: Rollback, the room logs the error and stays.
FinishFails(r) ==
    /\ tx[r].pc # "none" /\ faults < MaxFaults /\ faults' = faults + 1
    /\ Rollback(r)
    /\ UNCHANGED <<dataVars, roomVars, reconciled, reader, lostReplies, calls>>

\* r waits for a line that another transaction has locked.
WaitsFor(r, s) == \E res \in tx[r].cur : lock[res.user] = s /\ r # s

\* Postgres aborts one of two transactions that wait for each other.
DeadlockAborts(r) ==
    /\ \E s \in Races : WaitsFor(r, s) /\ WaitsFor(s, r)
    /\ Rollback(r)
    /\ UNCHANGED <<dataVars, roomVars, reconciled, reader, countVars>>

-----------------------------------------------------------------------------
(* The consumer.                                                            *)

\* Of a user's two results the room's own comes first; only where no rank is set
\* yet is one written.
FirstRank(r, u) ==
    LET mine == {res \in Results[r] : res.user = u}
    IN (CHOOSE res \in mine : res.departed => \A other \in mine : other.departed).rank

ReconcileParticipantResults(r) ==
    /\ r \in published \ reconciled
    /\ reconciled' = reconciled \cup {r}
    /\ finishRank' = [finishRank EXCEPT ![r] =
            [u \in Rows[r] |-> IF @[u] = Null /\ (\E res \in Results[r] : res.user = u)
                               THEN FirstRank(r, u) ELSE @[u]]]
    /\ UNCHANGED <<status, aged, board, commits, tx, lock, roomVars, reader, countVars>>

-----------------------------------------------------------------------------
(* Readers.                                                                 *)

\* The weekly window: races that ended within seven days of the statement's now().
InWeek(r) == status[r] = "finished" /\ r \notin aged
WeeklyWins(u) == Cardinality({r \in Races : InWeek(r) /\ u \in Rows[r] /\ finishRank[r][u] = 1})

\* Everybody with a row in a race of the window is listed, with a result or not.
Listed(window) ==
    IF window = "alltime" THEN {u \in Users : board[u].races > 0}
    ELSE {u \in Users : \E r \in Races : InWeek(r) /\ u \in Rows[r]}
Counted(window) == Cardinality(Listed(window))

Least(a, b) == IF a < b THEN a ELSE b
Greatest(a, b) == IF a > b THEN a ELSE b

\* Mutant: a page more than there is whenever the last one is full.
TotalPages_OneMore(total) == total \div PageSize + 1
TotalPages(total) == Greatest(1, (total + PageSize - 1) \div PageSize)

\* GetTop: the count, then the page, in separate statements.
TopCount(window, page) ==
    /\ reader = NoRead
    /\ reader' = [pc |-> "counted", window |-> window, page |-> page, total |-> Counted(window),
                  rolled |-> FALSE]
    /\ UNCHANGED <<dataVars, tx, lock, roomVars, reconciled, countVars>>

\* The average of a player whose rows in the window have no results is NULL, which
\* the order puts behind the winners and ahead of everybody else.
WithoutAverage ==
    {u \in Listed("weekly") : \A r \in Races : InWeek(r) /\ u \in Rows[r] => finishRank[r][u] = Null}
Offset == (reader.page - 1) * PageSize
NullOnPage ==
    LET winners == Cardinality({u \in Users : WeeklyWins(u) > 0})
    IN  /\ reader.window = "weekly"
        /\ \E i \in 1..Cardinality(WithoutAverage) : winners + i \in (Offset + 1)..(Offset + PageSize)

\* The answer: the page's entries, and how many pages there are of anybody at all.
TopQuery ==
    /\ reader.pc = "counted" /\ ~NullOnPage
    /\ reader' = [pc |-> "page", rolled |-> reader.rolled,
                  announced |-> (reader.total > 0 /\ reader.page <= TotalPages(reader.total)),
                  entries |-> Least(PageSize, Greatest(0, Counted(reader.window) - Offset))]
    /\ UNCHANGED <<dataVars, tx, lock, roomVars, reconciled, countVars>>

\* Scan has no float64 for a NULL: the request is answered with an error.
TopQueryFails ==
    /\ reader.pc = "counted" /\ NullOnPage
    /\ reader' = [pc |-> "failed"]
    /\ UNCHANGED <<dataVars, tx, lock, roomVars, reconciled, countVars>>

\* Seven days have passed since r ended; rolled: while a reader of the week was
\* between its two statements, which the code does not see.
WeekPasses(r) ==
    /\ InWeek(r) /\ Cardinality(aged) < MaxAged
    /\ aged' = aged \cup {r}
    /\ reader' = IF reader.pc = "counted" /\ reader.window = "weekly" THEN [reader EXCEPT !.rolled = TRUE] ELSE reader
    /\ UNCHANGED <<status, finishRank, board, commits, tx, lock, roomVars, reconciled, countVars>>

\* GetRaceWithParticipants: the race, then its participants.
StatusRace(r) ==
    /\ reader = NoRead
    /\ reader' = [pc |-> "race", race |-> r, finished |-> (status[r] = "finished")]
    /\ UNCHANGED <<dataVars, tx, lock, roomVars, reconciled, countVars>>

StatusParticipants ==
    /\ reader.pc = "race"
    /\ reader' = [pc |-> "detail", race |-> reader.race, finished |-> reader.finished,
                  ranks |-> finishRank[reader.race]]
    /\ UNCHANGED <<dataVars, tx, lock, roomVars, reconciled, countVars>>

-----------------------------------------------------------------------------
Statement(r) ==
    \/ UpdateRace(r) \/ Commit(r)
    \/ \E res \in Results[r] : UpdateParticipant(r, res) \/ UpsertLine(r, res)

Reader ==
    \/ \E window \in {"alltime", "weekly"}, page \in 1..MaxPage : TopCount(window, page)
    \/ \E r \in Races : StatusRace(r)
    \/ TopQuery \/ TopQueryFails \/ StatusParticipants

Next ==
    \/ \E r \in Races :
        \/ Begin(r) \/ Statement(r) \/ CommitReplyLost(r) \/ FinishFails(r) \/ DeadlockAborts(r)
        \/ ReconcileParticipantResults(r) \/ WeekPasses(r)
    \/ Reader

Spec == Init /\ [][Next]_vars

(* Fairness: Postgres answers, grants a lock that keeps coming free, and    *)
(* looks for deadlocks.                                                     *)
Fairness ==
    \A r \in Races : SF_vars(Statement(r)) /\ WF_vars(DeadlockAborts(r))

FairSpec == Spec /\ Fairness

-----------------------------------------------------------------------------
\* Every variable has its type; a line is locked by a transaction that is open.
TypeOK ==
    /\ status \in [Races -> {"active", "finished"}] /\ aged \subseteq Races
    /\ \A r \in Races : finishRank[r] \in [Rows[r] -> Nat]
    /\ board \in [Users -> [races : Nat, wins : Nat, best : Nat]]
    /\ \A r \in Races : tx[r].pc \in {"none", "race", "next", "upsert"} /\ tx[r].todo \subseteq Results[r]
    /\ lock \in [Users -> Races \cup {Unlocked}]
    /\ \A u \in Users : lock[u] # Unlocked => u \in DOMAIN tx[lock[u]].lines
    /\ finished \subseteq Races /\ published \subseteq Races /\ reconciled \subseteq Races
    /\ commits \in [Races -> Nat] /\ lostReplies \in [Races -> Nat]
    /\ calls \in 0..MaxCalls /\ faults \in 0..MaxFaults

\* Races are added to the all-time board one after another and each as a whole,
\* whatever interleaves, fails or deadlocks: no half race, no lost addition.
Board == INSTANCE Scoreboard WITH board <- board, commits <- commits
ImplementsScoreboard == Board!Spec

\* A race counts once, and once more only for every commit whose reply was lost
\* (the room then takes the race for unfinished, room.go:606-612).
CountedOnce == \A r \in Races : commits[r] <= 1 + lostReplies[r]

\* FinishRace has written every rank before race.finished is published, so the
\* consumer's reconciliation never finds a row to fill.
ReconcileChangesNothing ==
    [][\A r \in Races : ReconcileParticipantResults(r) => UNCHANGED finishRank]_vars

\* The two boards agree on victories: who is listed with wins in the weekly window
\* (computed from race_participants) has at least as many in the all-time one, a
\* player who wins by being last to quit included.
WeeklyWinsCounted == \A u \in Users : WeeklyWins(u) <= board[u].wins

\* A race shown as finished is shown with the rank of everybody who raced,
\* although the race and its participants are read in separate statements.
FinishedShownWithRanks ==
    reader.pc = "detail" /\ reader.finished =>
        \A res \in Results[reader.race] : res.user \in Rows[reader.race] => reader.ranks[res.user] # Null

\* No page that GetTop's answer says exists is empty, in either window, although
\* races end between the two queries (an empty board has one empty page) - unless
\* a race left the weekly window between them.
ListedPagesFilled ==
    reader.pc = "page" /\ reader.announced => reader.entries > 0 \/ reader.rolled

\* Every FinishRace call returns, however its transaction meets the locks of others.
FinishRaceReturns == \A r \in Races : tx[r].pc # "none" ~> tx[r].pc = "none"
=============================================================================
