\* Two threads, a listener and a client: blocked calls return.
SPECIFICATION FairSpec
CONSTANTS
    t1 = t1
    t2 = t2
    srv = srv
    acc = acc
    cli = cli
    h1 = h1
    h2 = h2
    h3 = h3
    p1 = p1
    buf = buf
    NULL = NULL
    Silent = Silent
    Malformed = Malformed
    Ephemeral = Ephemeral
    TrafficClass = TrafficClass
    Unknown = Unknown
    Threads <- TwoThreads
    Sockets <- TwoSockets
    Handles <- ThreeHandles
    Ports <- OnePort
    Timeouts <- NoTimeout
    Buffers <- OneByte
    Options <- NoOptions
    Values <- OneValue
    Backlog = 1
    MaxBytes = 1
PROPERTIES PeerCloseUnblocks NoDataAfterEnd
CHECK_DEADLOCK FALSE
