\* A two-slot broadcast channel that two snapshots can fill, with fair
\* goroutines.  The system may come to rest once the process has exited.
CONSTANTS
    BroadcastBufferSize = 2
    MaxTicks = 2
    ClaimTTL = 3
    MaxFailures = 1
SPECIFICATION FairSpec
INVARIANTS
    TypeOK
    RoomClosedLast
    QueuedFinalPublished
    OwnedWhileRunning
PROPERTIES
    RoomTornDown
    StaleRouteHeals
CHECK_DEADLOCK FALSE
