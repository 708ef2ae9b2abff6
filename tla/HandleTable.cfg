SPECIFICATION Spec
CONSTANTS
    Handles = {h1, h2}
    Threads = {t1, t2, t3, t4}
INVARIANT UsedIsLive
PROPERTY CloseEnds
