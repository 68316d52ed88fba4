----------------------------- MODULE Scoreboard ------------------------------
(***************************************************************************)
(* What the all-time leaderboard promises: every finished race is added to *)
(* it as a whole, in one step, on top of whatever is there.                *)
(***************************************************************************)
EXTENDS Integers, FiniteSets

CONSTANTS
    Users, Races,
    Results       \* Results[r]: what race r has to say of its players

VARIABLES
    board,        \* each user's line
    commits       \* how often each race has been added

NoTime == 0       \* NULL: no finish yet
Of(r, u) == {res \in Results[r] : res.user = u}
Times(r, u) == {res.time : res \in Of(r, u)} \ {NoTime}

EmptyLine == [races |-> 0, wins |-> 0, best |-> NoTime]

\* The smallest of the times there are.
BestOf(S) == IF S = {} THEN NoTime ELSE CHOOSE t \in S : \A s \in S : t <= s

Raised(line, r, u) ==
    [races |-> line.races + Cardinality(Of(r, u)),
     wins |-> line.wins + Cardinality({res \in Of(r, u) : res.rank = 1}),
     best |-> BestOf(({line.best} \ {NoTime}) \cup Times(r, u))]

Init ==
    /\ board = [u \in Users |-> EmptyLine]
    /\ commits = [r \in Races |-> 0]

AddRace(r) ==
    /\ board' = [u \in Users |-> Raised(board[u], r, u)]
    /\ commits' = [commits EXCEPT ![r] = @ + 1]

Next == \E r \in Races : AddRace(r)

Spec == Init /\ [][Next]_<<board, commits>>
=============================================================================
