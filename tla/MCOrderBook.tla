----------------------------- MODULE MCOrderBook -----------------------------
(* Instances of OrderBook for TLC.                                         *)
EXTENDS OrderBook, TLC

Symmetry == Permutations(OrderId)

Kind(aon, ioc, timed) == [aon |-> aon, ioc |-> ioc, timed |-> timed]
Plain == Kind(FALSE, FALSE, FALSE)
Aon == Kind(TRUE, FALSE, FALSE)

\* Orders of some kinds, prices and quantities, of both sides.
Orders(kinds, prices, quantities) ==
    {[buy |-> buy, aon |-> k.aon, ioc |-> k.ioc,
      timed |-> k.timed, hidden |-> FALSE, qty |-> qty, price |-> price] :
        buy \in BOOLEAN, k \in kinds, price \in prices, qty \in quantities}

\* Limit and market orders, some of them IOC, some of them expiring.
MixedOrders ==
    Orders({Plain}, {0, 1, 2}, {1, 2})
        \union Orders({Kind(FALSE, TRUE, FALSE)}, {0, 1}, {2})
        \union Orders({Kind(FALSE, FALSE, TRUE)}, {0, 1}, {1})

\* AON orders and others, with and without a limit.
AonMarketOrders ==
    Orders({Plain}, {0, 1}, {1}) \union Orders({Aon}, {0}, {3})
=============================================================================
