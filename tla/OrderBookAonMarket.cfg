CONSTANTS
    OrderId = {i1, i2, i3, i4}
    OrderType <- AonMarketOrders
SYMMETRY Symmetry
SPECIFICATION Spec
INVARIANTS
    AllOrNone
