\* One player, with fairness and a Postgres that answers.
CONSTANTS
    u1 = u1
    s1 = s1
    Users = {u1}
    Starters = {s1}
    DistanceMeters = 1
    InboxCap = 1
    MaxSeq = 1
    MaxJoins = 2
    MaxDrops = 1
    MaxFailures = 0
SPECIFICATION FairSpec
PROPERTIES
    PendingResolves
    GraceResolves
    GoroutinesEnd
