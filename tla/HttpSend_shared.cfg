CONSTANTS
    r1 = r1
    r2 = r2
    r3 = r3
    Hosts <- MCHosts
    Identities <- MCIdentities
    Keys <- MCKeys
    Requests = {r1, r2, r3}
    Kinds <- SharedKinds
    Capacity = 2
    MaxConnectionsPerHost = 2
    IdleTimeout = 0
    ProxyEnabled = FALSE
    StreamLimits = {1, 2}
    Faults = {}
    MaxTime = 1
SYMMETRY Threads
SPECIFICATION Spec
INVARIANTS
    SharedConnectionSound
PROPERTIES
    DoomedConnectionDrains
