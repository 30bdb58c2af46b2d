CONSTANTS
    capacity_ = 2
    Producer = {p1, p2}
    Worker = w
    bufferSize_ = 2
    timeoutAsThrottle_ = FALSE
    finalizer_ = FALSE
    MaxMsg = 4
    MaxStart = 2
SPECIFICATION FairSpec
INVARIANTS
    TypeOK
    NoLostWakeup
    StaleBound
PROPERTIES
    ImplementsPipeline
    StopReturns
CHECK_DEADLOCK FALSE
