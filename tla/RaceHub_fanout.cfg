\* Two connections, one-slot channels, two broadcasts.  The gateway may come to
\* rest: clients and the room are free to do nothing more.
CONSTANTS
    c1 = c1
    c2 = c2
    Conns = {c1, c2}
    ConnBufferSize = 1
    MaxBroadcasts = 2
SYMMETRY Symmetry
SPECIFICATION Spec
INVARIANTS
    TypeOK
    FinalBroadcastDelivered
    NoGhostConnections
CHECK_DEADLOCK FALSE
