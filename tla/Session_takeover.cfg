\* Two connections of one player, the second opened before the first one's loss
\* is reported.
CONSTANTS
    u1 = u1
    c1 = c1
    c2 = c2
    s1 = s1
    Users = {u1}
    Conns = {c1, c2}
    UserOf <- OneUser
    Starters = {s1}
    SubscriptionBuffer = 1
    DistanceMeters = 1
    InboxCap = 1
    MaxSeq = 1
    MaxJoins = 2
    MaxDrops = 2
    MaxFailures = 0
SPECIFICATION SessionSpec
CHECK_DEADLOCK FALSE
PROPERTY
    ConnectedNotEvicted
