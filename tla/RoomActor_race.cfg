\* Two players, two joins, up to two sequence numbers each: ranks, results and
\* the outcome of the race; stale, repeated and late telemetry.
CONSTANTS
    u1 = u1
    u2 = u2
    s1 = s1
    Users = {u1, u2}
    Starters = {s1}
    DistanceMeters = 1
    InboxCap = 1
    MaxSeq = 2
    MaxJoins = 2
    MaxDrops = 0
    MaxFailures = 1
SYMMETRY Symmetry
SPECIFICATION Spec
INVARIANTS
    TypeOK
    FinishRanksUnique
    EveryoneCounted
PROPERTIES
    RankAndSeqStable
    ImplementsRaceOutcome
