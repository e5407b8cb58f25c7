\* One thread, three sockets: the bytes of a connection, the arguments and the options.
SPECIFICATION Spec
CONSTANTS
    t1 = t1
    t2 = t2
    srv = srv
    acc = acc
    cli = cli
    h1 = h1
    h2 = h2
    h3 = h3
    p1 = p1
    buf = buf
    NULL = NULL
    Silent = Silent
    Malformed = Malformed
    Ephemeral = Ephemeral
    TrafficClass = TrafficClass
    Unknown = Unknown
    Threads <- OneThread
    Sockets <- ThreeSockets
    Handles <- ThreeHandles
    Ports <- OnePort
    Timeouts <- NoTimeout
    Buffers <- FewBuffers
    Options <- NoOptions
    Values <- OneValue
    Backlog = 1
    MaxBytes = 2
SYMMETRY DataSymmetric
PROPERTIES ImplementsConnection
CHECK_DEADLOCK FALSE
