----------------------------- MODULE RaceOutcome -----------------------------
(***************************************************************************)
(* What a room promises about its race, with nothing said of timers,       *)
(* connections or queues: the race is pending, then either cancelled or    *)
(* active and later finished, and that once; the results it is finished    *)
(* with form a proper ranking.  Results may be stored while the race still *)
(* runs (an attempt to finish it whose answer was lost) and stored anew    *)
(* later: each time a proper ranking, from which nobody is missing who was *)
(* in the one before.  RoomActor implements this.                          *)
(***************************************************************************)
EXTENDS Naturals

CONSTANT Users

VARIABLES phase, results

vars == <<phase, results>>

Result == [user : Users, finisher : BOOLEAN, rank : Nat \ {0}]

\* Finishers hold different ranks, all of them ahead of the last place that
\* everybody who did not finish shares.
WellRanked(res) ==
    \A r, q \in res :
        /\ r.finisher /\ q.finisher /\ r.rank = q.rank => r = q
        /\ r.finisher /\ ~q.finisher => r.rank < q.rank
        /\ ~r.finisher /\ ~q.finisher => r.rank = q.rank

Init == phase = "pending" /\ results = {}

Start == phase = "pending" /\ phase' = "active" /\ UNCHANGED results

Cancel == phase = "pending" /\ phase' = "cancelled" /\ UNCHANGED results

Rank ==
    /\ results' \in SUBSET Result /\ WellRanked(results')
    /\ \A r \in results : \E q \in results' : q.user = r.user

Store == phase = "active" /\ UNCHANGED phase /\ Rank

Finish == phase = "active" /\ phase' = "finished" /\ Rank

Next == Start \/ Cancel \/ Store \/ Finish

Spec == Init /\ [][Next]_vars
=============================================================================
