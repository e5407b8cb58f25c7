\* One thread, one filter, every argument at the edges of the parameter types.
SPECIFICATION Spec
CONSTANTS
    t1 = t1
    t2 = t2
    t3 = t3
    f1 = f1
    f2 = f2
    s1 = s1
    Finite = Finite
    NULL = NULL
    WAIT_INFINITE = WAIT_INFINITE
    Sources <- OneSource
    Content <- TwoBytes
    Threads <- OneThread
    Filters <- OneFilter
    Millis <- NoTimedWait
    Args <- EdgeArgs
    SizeBits = 2
    MaxDepth = 1
PROPERTIES ReadReportsEndOfStream
CHECK_DEADLOCK FALSE
