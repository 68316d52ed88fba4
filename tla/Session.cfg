\* One player, two connections, each joining, losing its socket or leaving;
\* two slots on the wire and one in the inbox.  A player whose disconnect was
\* lost may keep an idle room for ever, so there may be nothing left to do.
CONSTANTS
    u1 = u1
    c1 = c1
    c2 = c2
    s1 = s1
    Users = {u1}
    Conns = {c1, c2}
    UserOf <- OneUser
    Starters = {s1}
    SubscriptionBuffer = 2
    DistanceMeters = 1
    InboxCap = 1
    MaxSeq = 1
    MaxJoins = 2
    MaxDrops = 2
    MaxFailures = 0
SYMMETRY Symmetry
SPECIFICATION SessionSpec
CHECK_DEADLOCK FALSE
INVARIANTS
    SeatHasConnection
    GraceExpiryPending
    NoAbandonedRoom
