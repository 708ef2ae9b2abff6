\* Liveness with unloading: two operations, a queue of depth one, one worker,
\* one drain, and the session is closed at any time.
SPECIFICATION FairSpec
CONSTANTS
    Ops = {o1, o2}
    Cancellable = {}
    Workers = {w1}
    MaxQueueDepth = 1
    MaxDrains = 1
PROPERTIES
    QueuedCompletes
    SessionCloses
CHECK_DEADLOCK FALSE
