SPECIFICATION Spec
CONSTANTS
    t1 = t1
    t2 = t2
    t3 = t3
    h1 = h1
    h2 = h2
    h3 = h3
    h4 = h4
    Threads <- MCThreads
    Handles <- MCHandles
    NoHandle = NoHandle
    MaxHeld = 2
    MaxTakes = 2
CHECK_DEADLOCK FALSE
INVARIANTS
    TypeOK
    HandlesConserved
    PooledAreClean
    NoLostWakeup
PROPERTY
    EveryoneServed
