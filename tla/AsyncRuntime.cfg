\* Two operations of which one may be cancelled, a queue of depth one, two interchangeable
\* workers and one drain.
SPECIFICATION Spec
CONSTANTS
    Ops = {o1, o2}
    Cancellable = {o1}
    Workers = {w1, w2}
    MaxQueueDepth = 1
    MaxDrains = 1
INVARIANTS
    QuietAfterDrain
    SessionOutlivesSend
PROPERTIES
    ImplementsOneShot
SYMMETRY WorkerSymmetry
CHECK_DEADLOCK FALSE
