SPECIFICATION Spec
CONSTANTS
    Options <- MCOptions
    Tickets <- MCTickets
    MaxSessions = 1
    HandshakeMaxRecords = 2
    MaxClock = 2
    Lifetimes = {0, 1}
    Resumptions = {"id", "psk"}
    MaxSequence = 3
    MaxData = 3
    MaxPeerRecords = 4
    MaxEmptyRecords = 1
    MaxPostHandshake = 2
INVARIANTS
    KeysInStep
    DataInOrder
    EstablishedIsAuthenticated
    ConformingServerAccepted
    FallbackOnlyOnEvidence
