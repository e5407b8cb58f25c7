\* isConnected() against what its comment says of it.
SPECIFICATION Spec
CONSTANTS
    t1 = t1
    t2 = t2
    srv = srv
    acc = acc
    cli = cli
    h1 = h1
    h2 = h2
    h3 = h3
    p1 = p1
    buf = buf
    NULL = NULL
    Silent = Silent
    Malformed = Malformed
    Ephemeral = Ephemeral
    TrafficClass = TrafficClass
    Unknown = Unknown
    Threads <- OneThread
    Sockets <- ThreeSockets
    Handles <- ThreeHandles
    Ports <- OnePort
    Timeouts <- AnyTimeout
    Buffers <- OneByte
    Options <- NoOptions
    Values <- OneValue
    Backlog = 1
    MaxBytes = 1
SYMMETRY DataSymmetric
INVARIANTS IsConnectedMeansConnected
CHECK_DEADLOCK FALSE
