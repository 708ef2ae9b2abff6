\* Three calls on a socket of either discipline; four holders of contexts and a client
\* that starts up and shuts down.
SPECIFICATION MCSpec
CONSTANTS
    NumCalls = 3
    Disciplines = {"exclusive", "shared"}
    Scarcities = {TRUE, FALSE}
    None = None
    Threads = {t1, t2, t3, t4}
INVARIANTS
    RundownHoldsSocket
    FreedOnce
    EmptyIsSignalled
PROPERTIES
    CallsReturn
CHECK_DEADLOCK FALSE
