CONSTANTS
    Partition = {p1, p2}
    queueDepth = 2
    batchSize = 2
    MaxOffset = 2
SPECIFICATION FairSpec
INVARIANTS
    CommitCoversSettled
    CommittedNotRepeated
PROPERTIES
    CommitsAdvance
    CancelReturns
    PolledIsSettled
CHECK_DEADLOCK FALSE
