\* One thread: every operation with its edge arguments, the options, the timeouts.
SPECIFICATION Spec
CONSTANTS
    t1 = t1
    t2 = t2
    srv = srv
    acc = acc
    cli = cli
    h1 = h1
    h2 = h2
    h3 = h3
    p1 = p1
    buf = buf
    NULL = NULL
    Silent = Silent
    Malformed = Malformed
    Ephemeral = Ephemeral
    TrafficClass = TrafficClass
    Unknown = Unknown
    Threads <- OneThread
    Sockets <- TwoSockets
    Handles <- ThreeHandles
    Ports <- OnePort
    Timeouts <- AnyTimeout
    Buffers <- EdgeBuffers
    Options <- AllOptions
    Values <- OneValue
    Backlog = 1
    MaxBytes = 1
SYMMETRY ArgumentSymmetric
INVARIANTS TypeOK
CHECK_DEADLOCK FALSE
