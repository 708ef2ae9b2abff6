CONSTANTS
    r1 = r1
    r2 = r2
    r3 = r3
    Requests = {r1, r2, r3}
    Hosts <- MCHosts
    Identities <- MCIdentities
    Keys <- MCKeys
    Kinds <- ExclusiveKinds
    Capacity = 2
    MaxConnectionsPerHost = 1
    IdleTimeout = 1
    ProxyEnabled = FALSE
    StreamLimits = {1}
    Faults = {"timeout"}
    MaxTime = 3
SYMMETRY Threads
SPECIFICATION Spec
INVARIANTS
    QuotaRespected
    NoSlotLeak
    ReplayAtMostOnce
PROPERTIES
    NoExpiredReuse
