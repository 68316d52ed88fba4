\* Two connections and no broadcasts, with fair goroutines.
CONSTANTS
    c1 = c1
    c2 = c2
    Conns = {c1, c2}
    ConnBufferSize = 1
    MaxBroadcasts = 0
SPECIFICATION FairSpec
PROPERTIES
    ConnectionsEnd
    ShutdownDisconnects
    RoomClosedEndsHub
CHECK_DEADLOCK FALSE
