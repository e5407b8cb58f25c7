\* Two threads on the monitor of one filter, with fairness and without symmetry.
SPECIFICATION FairSpec
CONSTANTS
    t1 = t1
    t2 = t2
    t3 = t3
    f1 = f1
    f2 = f2
    s1 = s1
    Finite = Finite
    NULL = NULL
    WAIT_INFINITE = WAIT_INFINITE
    Sources <- OneSource
    Content <- TwoBytes
    Threads <- TwoThreads
    Filters <- OneFilter
    Millis <- AnyWait
    Args <- MonitorArgs
    SizeBits = 2
    MaxDepth = 1
PROPERTIES TimedWaitReturns
CHECK_DEADLOCK FALSE
