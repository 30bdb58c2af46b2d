CONSTANTS
    capacity_ = 2
    Producer = {p1}
    Worker = w
    bufferSize_ = 2
    timeoutAsThrottle_ = TRUE
    finalizer_ = TRUE
    MaxMsg = 4
    MaxStart = 2
SPECIFICATION FairSpec
INVARIANTS
    NothingLostOrReordered
    StatusHonest
PROPERTIES
    EveryPushReturns
    Delivery
CHECK_DEADLOCK FALSE
