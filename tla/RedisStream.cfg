CONSTANTS
    Action = {a1, a2}
    batchSize_ = 2
    MaxMsg = 3
    MaxRuns = 2
    MaxLost = 2
SPECIFICATION FairSpec
INVARIANTS
    NothingLost
    NoAckAtMostOnce
    PendingFirst
PROPERTIES
    UnsubscribeStreamReturns
    EntriesAreTaken
CHECK_DEADLOCK FALSE
