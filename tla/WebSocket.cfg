SPECIFICATION Spec
CONSTANTS
    Senders = {s1, s2}
    Duplex = FALSE
    Messages <- MCMessages
    Callers <- MCCallers
    MaxMessage = 2
    MaxControlFrames = 1
    MaxAddresses = 2
INVARIANTS
    WireWellFormed
    MessagesWhole
    TransportOutlivesUse
PROPERTY ClosingEnds
CHECK_DEADLOCK FALSE
