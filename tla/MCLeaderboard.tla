---------------------------- MODULE MCLeaderboard ----------------------------
EXTENDS Leaderboard
CONSTANTS a, b, c, x, y, z

Res(u, rank, time, departed) == [user |-> u, rank |-> rank, time |-> time, departed |-> departed]

\* In x, a beats b.  In y, b quits, comes back and finishes, and a quits: the three
\* joins share the last place 3.  In z, c is alone and quits.
MCResults == [r \in {x, y, z} |->
    CASE r = x -> {Res(a, 1, 2, FALSE), Res(b, 2, 3, FALSE)}
      [] r = y -> {Res(b, 1, 1, FALSE), Res(a, 3, NoTime, TRUE), Res(b, 3, NoTime, TRUE)}
      [] r = z -> {Res(c, 1, NoTime, TRUE)}]

\* b gave up the row for y in the lobby, and c never connected to x.
MCRows == [r \in {x, y, z} |-> CASE r = x -> {a, b, c} [] r = y -> {a} [] r = z -> {c}]
=============================================================================
