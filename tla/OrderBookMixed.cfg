CONSTANTS
    OrderId = {i1, i2, i3}
    OrderType <- MixedOrders
SYMMETRY Symmetry
SPECIFICATION Spec
INVARIANTS
    RegistryMatchesBook
    EventsMatchBook
    CostWithinLimit
    NothingLeftToMatch
PROPERTIES
    PriceTimePriority
CHECK_DEADLOCK FALSE
