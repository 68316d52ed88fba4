\* One race, up to three connections, a gateway that may be told to stop.
CONSTANTS
    c1 = c1
    c2 = c2
    c3 = c3
    Conns = {c1, c2, c3}
    ConnBufferSize = 1
    MaxBroadcasts = 0
SYMMETRY Symmetry
SPECIFICATION Spec
INVARIANTS
    DisconnectReported
CHECK_DEADLOCK FALSE
