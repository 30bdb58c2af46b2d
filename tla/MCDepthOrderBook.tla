-------------------------- MODULE MCDepthOrderBook --------------------------
(* Instances of DepthOrderBook for TLC.                                    *)
EXTENDS DepthOrderBook, TLC

Symmetry == Permutations(OrderId)

Order(buy, kinds, price, qty) ==
    [buy |-> buy, aon |-> "aon" \in kinds, ioc |-> "ioc" \in kinds, timed |-> "timed" \in kinds,
     hidden |-> "hidden" \in kinds, qty |-> qty, price |-> price]

\* Bids at three prices, for two visible levels and one more, and asks at two.
\* The IOC order may be filled in part beside a resting order of its price.
DepthOrders ==
    {Order(TRUE, {}, 2, 1), Order(TRUE, {}, 3, 1), Order(TRUE, {"timed"}, 1, 1),
     Order(TRUE, {"aon"}, 2, 3), Order(TRUE, {"ioc"}, 2, 3)}
        \union
    {Order(FALSE, {}, 2, 2), Order(FALSE, {}, 3, 1), Order(FALSE, {"hidden"}, 2, 1),
     Order(FALSE, {"aon"}, Market, 2)}
=============================================================================
