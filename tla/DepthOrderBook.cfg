CONSTANTS
    OrderId = {i1, i2, i3}
    OrderType <- DepthOrders
    SIZE = 2
    MaxSpoilt = 1
    MaxAfter = 3
SYMMETRY Symmetry
SPECIFICATION DepthSpec
INVARIANTS
    AllOrNone
    NothingLeftToMatch
    DepthMatchesBook
    PublishedIsCurrent
CHECK_DEADLOCK FALSE
