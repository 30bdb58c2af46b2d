CONSTANTS
    Channel = {c1, c2}
    QUEUE_MSG_BATCH_SIZE = 2
    MaxPublished = 3
SPECIFICATION PubSubFairSpec
INVARIANTS
    InOrder
PROPERTIES
    NothingUnwanted
    ChangeIsApplied
    EndTogether
CHECK_DEADLOCK FALSE
