SPECIFICATION Spec
CONSTANTS
    NumRequests = 2
    Capacity = 2
    InitialWindow = 3
    MaxWindow = 4
    FirstPeerWindow = 1
    PeerWindows = {3}
    StreamLimits = {1, 2}
    Kinds = {"GET", "POST"}
    BodyLength = 2
    DataSizes <- MCDataSizes
    Blocks = {"final", "fields"}
    ContentLengths <- MCContentLengths
    MaxFrames = 3
    MaxControlSignals = 1
    MaxContinuationFrames = 1
    MaxEmptyContinuationFrames = 0
    HeaderBlockCapacity = 2
    ResponseCapacity = 2
    Faults = {"network"}
INVARIANTS FramesReachTheirStream WindowsAgree
PROPERTY SuccessIsComplete RequestsReturn
CHECK_DEADLOCK FALSE
