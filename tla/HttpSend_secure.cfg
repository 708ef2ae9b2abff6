CONSTANTS
    r1 = r1
    r2 = r2
    r3 = r3
    Hosts <- MCHosts
    Identities <- MCIdentities
    Keys <- MCKeys
    Requests = {r1, r2}
    Kinds <- SecureKinds
    Capacity = 2
    MaxConnectionsPerHost = 2
    IdleTimeout = 1
    ProxyEnabled = TRUE
    StreamLimits = {1}
    Faults = {"timeout", "tls"}
    MaxTime = 2
SPECIFICATION Spec
INVARIANTS
    RightConnection
PROPERTIES
    RequestsFinish
