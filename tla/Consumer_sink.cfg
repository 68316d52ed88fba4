\* Three messages of every kind, batches of two, one failing call and two crashes,
\* shutdowns or rebalances.  The loop rests when the topic is read to its end.
CONSTANTS
    Topics = {"workout.sample", "race.finished"}
    NumMessages = 3
    FlushBatchSize = 2
    MaxFaults = 1
    MaxDisruptions = 2
SPECIFICATION FairSpec
INVARIANTS
    TypeOK
    CommittedHandled
    ExactlyOnce
PROPERTIES
    MessagesHandled
CHECK_DEADLOCK FALSE
