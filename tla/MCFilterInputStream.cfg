\* Two threads, chains of up to two filters: forwarding, ownership, the contract.
SPECIFICATION Spec
CONSTANTS
    t1 = t1
    t2 = t2
    t3 = t3
    f1 = f1
    f2 = f2
    s1 = s1
    Finite = Finite
    NULL = NULL
    WAIT_INFINITE = WAIT_INFINITE
    Sources <- OneSource
    Content <- TwoBytes
    Threads <- TwoThreads
    Filters <- TwoFilters
    Millis <- NoTimedWait
    Args <- ChainArgs
    SizeBits = 2
    MaxDepth = 1
SYMMETRY ChainSymmetry
INVARIANTS TypeOK
PROPERTIES StreamContract OwnershipRespected
CHECK_DEADLOCK FALSE
