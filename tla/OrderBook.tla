------------------------------ MODULE OrderBook ------------------------------
(***************************************************************************)
(* The matching engine of MatchingEngine/book: OrderBook, its OrderTracker *)
(* and ComparablePrice, and the Order objects its listener updates.        *)
(*                                                                         *)
(* Exchange::append holds a mutex over every call and the callbacks of a   *)
(* call run before it returns, so add, cancel and replace are one step     *)
(* each.  bids_ and asks_ are the multimaps as sequences of order ids, the *)
(* most liquid first; an iterator into them is an id.  The matching loops  *)
(* are recursive functions of the position in the side they scan: nothing  *)
(* is inserted while they run, and what they erase they have passed.       *)
(*                                                                         *)
(* The clock moves between calls, by the step Expire.  Stop orders are not *)
(* modelled: threshold_price is 0, so the stop maps stay empty.            *)
(***************************************************************************)
EXTENDS Integers, FiniteSets, SequencesExt

CONSTANTS
    OrderId,             \* ids of orders; the caller keeps them unique in the book
    OrderType            \* orders that may be submitted, see Terms

\* What an Order object says: the condition bits and the numbers.
Terms == [buy : BOOLEAN, aon : BOOLEAN, ioc : BOOLEAN, timed : BOOLEAN, hidden : BOOLEAN,
          qty : Nat, price : Nat]

ASSUME TypeAssumption == OrderType \subseteq Terms

Market == 0              \* MARKET_ORDER_PRICE

VARIABLES
    order,               \* order[id]: the Order object of id: of the orders in
                         \* the registry, and of those the last call ended
    orders_,             \* ids in the registry
    bids_, asks_,        \* ids in the order of the multimaps
    open_qty_,           \* open_qty_[id]: of the tracker of id, 0 without one
    marketPrice_,
    expired,             \* ids whose expiredTime has passed
    report,              \* report[id]: what the listener wrote to the object
    undefined            \* an iterator to an erased entry was dereferenced

bookVars == <<orders_, bids_, asks_, open_qty_, marketPrice_>>
vars == <<order, bookVars, expired, report, undefined>>

Unreported == [state |-> "Submitted", onMarket |-> 0, filled |-> 0, cost |-> 0]
Terminal == {"Rejected", "Filled", "Timeout", "Cancelled"}

Init ==
    /\ order = << >>
    /\ orders_ = {}
    /\ bids_ = << >>
    /\ asks_ = << >>
    /\ open_qty_ = [id \in OrderId |-> 0]
    /\ marketPrice_ = Market
    /\ expired = {}
    /\ report = << >>
    /\ undefined = FALSE

-----------------------------------------------------------------------------
(* ComparablePrice: a price that knows its side.                           *)

\* operator<: p is more liquid than q.
Before(buy, p, q) ==
    \/ p = Market /\ q # Market
    \/ p # Market /\ q # Market /\ (IF buy THEN q < p ELSE p < q)

\* A bug: a market order is taken for a price of 0.
MutMatchesPrice(buy, p, rhs) == IF buy THEN rhs =< p ELSE p =< rhs \/ rhs = Market

\* A bug: the side is forgotten.
MutForgetSide(buy, p, rhs) == p = rhs \/ rhs < p \/ p = Market

\* A resting order of side buy at price p trades with the price rhs.
MatchesPrice(buy, p, rhs) ==
    \/ p = rhs
    \/ buy /\ (rhs < p \/ p = Market)
    \/ ~buy /\ (p < rhs \/ rhs = Market)

-----------------------------------------------------------------------------
(* A call works on a book b: the registry, both sides, the trackers, the   *)
(* market price, and the callbacks it has queued.  ord is the function of  *)
(* the Order objects in the call.                                          *)

Book == [orders |-> orders_, bids |-> bids_, asks |-> asks_, open |-> open_qty_,
         price |-> marketPrice_, expired |-> expired, callbacks |-> << >>,
         undefined |-> undefined]

Rests(b, id) == id \in ToSet(b.bids) \union ToSet(b.asks)

\* Where the side has its first order that is less liquid than id.
UpperBound(side, ord, id) ==
    Min({Len(side) + 1} \union {i \in DOMAIN side :
            Before(ord[id].buy, ord[id].price, ord[side[i]].price)})

\* A bug: the new order goes ahead of those of an equal price (lower_bound).
MutInsert(b, ord, id) ==
    LET At(side) == Min({Len(side) + 1} \union {i \in DOMAIN side :
                           ~Before(ord[id].buy, ord[side[i]].price, ord[id].price)})
    IN  IF ord[id].buy THEN [b EXCEPT !.bids = InsertAt(@, At(@), id)]
        ELSE [b EXCEPT !.asks = InsertAt(@, At(@), id)]

\* multimap::insert: behind the entries of an equal price.
Insert(b, ord, id) ==
    IF ord[id].buy THEN [b EXCEPT !.bids = InsertAt(@, UpperBound(@, ord, id), id)]
    ELSE [b EXCEPT !.asks = InsertAt(@, UpperBound(@, ord, id), id)]

EraseEntry(b, id) == [b EXCEPT !.bids = RemoveFirst(@, id), !.asks = RemoveFirst(@, id)]

Queue(b, callback) == [b EXCEPT !.callbacks = Append(@, callback)]

\* A bug: the registry keeps the order.
MutTimedOut(b, id) ==
    Queue(EraseEntry(b, id), [type |-> "timeout", order |-> id, quantity |-> b.open[id]])

\* A resting order found expired: lazily, when something looks at it.
TimedOut(b, id) ==
    Queue(EraseEntry([b EXCEPT !.orders = @ \ {id}], id),
          [type |-> "timeout", order |-> id, quantity |-> b.open[id]])

\* A tracker that is filled is erased.
Settle(b, id) == IF b.open[id] = 0 THEN EraseEntry(b, id) ELSE b

\* create_trade once the price is known.
Fill(b, in, cur, quantity, price) ==
    LET done == {id \in {in, cur} : b.open[id] = quantity}
    IN  IF quantity = 0
        THEN b
        ELSE Queue([b EXCEPT !.open[in] = @ - quantity, !.open[cur] = @ - quantity,
                             !.price = price,
                             !.orders = @ \ done],
                   [type |-> "fill", order |-> in, matched |-> cur,
                    quantity |-> quantity, price |-> price, filled |-> done])

\* The price to trade at: of the resting order, of in, of the last trade.
CrossPrice(b, ord, in, cur) ==
    IF ord[cur].price # Market THEN ord[cur].price
    ELSE IF ord[in].price # Market THEN ord[in].price ELSE b.price

\* create_trade: nothing is traded while no price is known.
Trade(b, ord, in, cur, maxQuantity) ==
    LET price == CrossPrice(b, ord, in, cur)
    IN  IF price = Market THEN b
        ELSE Fill(b, in, cur, Min({maxQuantity, b.open[in], b.open[cur]}), price)

\* What in traded between the books b and c, and the trade without a limit.
Traded(b, c, in) == b.open[in] - c.open[in]
TradeAll(b, ord, in, cur) == Trade(b, ord, in, cur, b.open[in])

-----------------------------------------------------------------------------
(* Matching: m is a book and what the loop over one side has found so far. *)

Scan(b, in) ==
    [book |-> b, inbound_qty |-> b.open[in], deferred_aons |-> << >>,
     deferred_matches |-> << >>, deferred_qty |-> 0, done |-> FALSE]

\* try_create_deferred_trades: what the deferred order id would give without
\* passing maxQty; an AON order gives all or nothing.
Give(b, ord, maxQty, plan, id) ==
    LET room == maxQty - plan.found
        quantity == IF b.open[id] =< room THEN b.open[id]
                    ELSE IF ord[id].aon THEN 0 ELSE room
    IN  IF room > 0
        THEN [found |-> plan.found + quantity,
              fills |-> Append(plan.fills, [id |-> id, quantity |-> quantity])]
        ELSE plan

Fills(b, ord, matches, maxQty) ==
    LET plan[i \in 0..Len(matches)] ==
            IF i = 0 THEN [found |-> 0, fills |-> << >>]
            ELSE Give(b, ord, maxQty, plan[i - 1], matches[i])
    IN  plan[Len(matches)]

\* One of the planned trades, until found has been traded since the book b.
MakeTrade(b, ord, in, found, c, fill) ==
    IF Traded(b, c, in) >= found THEN c
    ELSE Settle(Trade(c, ord, in, fill.id, fill.quantity), fill.id)

MakeTrades(b, ord, in, plan) ==
    LET book[i \in 0..Len(plan.fills)] ==
            IF i = 0 THEN b
            ELSE MakeTrade(b, ord, in, plan.found, book[i - 1], plan.fills[i])
    IN  book[Len(plan.fills)]

\* The trades are made if the orders give enough; but a trade for which no
\* price is known gives nothing, and then fewer than minQty are traded.
TryCreateDeferredTrades(b, ord, in, matches, maxQty, minQty) ==
    LET plan == Fills(b, ord, matches, maxQty)
        dangling == \E i \in DOMAIN plan.fills : ~Rests(b, plan.fills[i].id)
    IN  IF dangling THEN [b EXCEPT !.undefined = TRUE]
        ELSE IF minQty =< plan.found /\ plan.found =< maxQty
        THEN MakeTrades(b, ord, in, plan)
        ELSE b

\* The loop goes on with the book t, which the trade of in with e made of d.
Took(m, d, t, ord, in, e) ==
    LET erased == ord[e].aon /\ Traded(d, t, in) > 0
    IN  [m EXCEPT !.book = IF erased THEN EraseEntry(t, e) ELSE Settle(t, e),
                  !.inbound_qty = @ - Traded(m.book, t, in)]

\* A bug: a resting AON order is traded like any other.
MutVisitRegular(m, ord, in, e) == Took(m, m.book, TradeAll(m.book, ord, in, e), ord, in, e)

\* One entry of match_regular_order.
VisitRegular(m, ord, in, e) ==
    IF ord[e].aon /\ m.book.open[e] > m.inbound_qty
    THEN [m EXCEPT !.deferred_aons = Append(@, e)]
    ELSE Took(m, m.book, TradeAll(m.book, ord, in, e), ord, in, e)

\* One entry of match_aon_order: put off until the entries passed and this
\* one are enough, then the orders put off trade first (up to the book d).
VisitAon(m, ord, in, e) ==
    LET current == m.book.open[e]
        need == IF m.inbound_qty > current THEN m.inbound_qty - current ELSE 0
        most == IF ord[e].aon THEN need ELSE m.inbound_qty
        Enough(d) ==
            LET got == Traded(m.book, d, in)
            IN  IF IF ord[e].aon THEN got = need ELSE m.inbound_qty =< current + got
                THEN Took(m, d, TradeAll(d, ord, in, e), ord, in, e)
                ELSE [m EXCEPT !.book = d]
    IN  IF ord[e].aon /\ current > m.inbound_qty
        THEN [m EXCEPT !.deferred_aons = Append(@, e)]
        ELSE IF m.inbound_qty > current + m.deferred_qty
        THEN [m EXCEPT !.deferred_matches = Append(@, e), !.deferred_qty = @ + current]
        ELSE Enough(TryCreateDeferredTrades(m.book, ord, in, m.deferred_matches, most, need))

\* One entry of the other side.
Visit(m, ord, in, e) ==
    IF m.done \/ m.book.undefined \/ m.book.open[in] = 0 THEN m
    ELSE IF ~MatchesPrice(ord[e].buy, ord[e].price, ord[in].price)
    THEN [m EXCEPT !.done = TRUE]
    ELSE IF e \in m.book.expired THEN [m EXCEPT !.book = TimedOut(@, e)]
    ELSE IF ord[in].aon THEN VisitAon(m, ord, in, e)
    ELSE VisitRegular(m, ord, in, e)

Opposite(b, ord, in) == IF ord[in].buy THEN b.asks ELSE b.bids

\* match_order: the other side, in order, until in is filled or the prices
\* stop matching.
Match(b, ord, in) ==
    LET side == Opposite(b, ord, in)
        m[i \in 0..Len(side)] ==
            IF i = 0 THEN Scan(b, in) ELSE Visit(m[i - 1], ord, in, side[i])
    IN  m[Len(side)]

\* A bug: the AON orders that were passed over are not looked at again.
MutCheckDeferredAons(b, ord, aons) == b

\* check_deferred_aons: with in resting, the AON orders it could not fill
\* are matched against all of its side.
Retry(b, ord, aon) == Settle(Match(b, ord, aon).book, aon)

CheckDeferredAons(b, ord, aons) ==
    LET book[i \in 0..Len(aons)] ==
            IF i = 0 THEN b ELSE Retry(book[i - 1], ord, aons[i])
    IN  book[Len(aons)]

-----------------------------------------------------------------------------
(* OrderBook::add and cancel, up to callback_now.                          *)

\* A bug: what an IOC order has left is inserted as well.
MutRest(m, ord, id) ==
    IF m.book.open[id] > 0
    THEN CheckDeferredAons(Insert(m.book, ord, id), ord, m.deferred_aons)
    ELSE m.book

\* The end of add_order: what is left rests, unless the order is IOC.
Rest(m, ord, id) ==
    IF m.book.open[id] > 0 /\ ~ord[id].ioc
    THEN CheckDeferredAons(Insert(m.book, ord, id), ord, m.deferred_aons)
    ELSE m.book

\* The end of add, with what the match has left: accept, with what the match
\* filled, goes before the fills; then the cancel of what an IOC order has
\* left, which names the whole quantity of the order.
Accept(b, ord, id, left) ==
    LET accept == [type |-> "accept", order |-> id, quantity |-> ord[id].qty - left]
        cancel == [type |-> "cancel", order |-> id, quantity |-> ord[id].qty]
    IN  IF ord[id].ioc /\ left > 0
        THEN [b EXCEPT !.callbacks = <<accept>> \o @ \o <<cancel>>,
                       !.orders = @ \ {id}, !.open[id] = 0]
        ELSE [b EXCEPT !.callbacks = <<accept>> \o @]

AddTo(b, ord, id) ==
    LET Matched(m) == Accept(Rest(m, ord, id), ord, id, m.book.open[id])
    IN  IF ord[id].qty = 0
        THEN Queue(b, [type |-> "reject", order |-> id])
        ELSE Matched(Match([b EXCEPT !.orders = @ \union {id}, !.open[id] = ord[id].qty],
                           ord, id))

\* cancel: an expired order is timed out instead.  (But see ReadFreed.)
CancelIn(b, id) ==
    IF id \in b.expired
    THEN TimedOut(b, id)
    ELSE Queue(EraseEntry([b EXCEPT !.orders = @ \ {id}], id),
               [type |-> "cancel", order |-> id, quantity |-> b.open[id]])

-----------------------------------------------------------------------------
(* The listener (Exchange) writes each event to the Order object.          *)

Accepted(r, qty) == [r EXCEPT !.state = "Accepted", !.onMarket = qty]

Filled(r, quantity, price) ==
    [state |-> IF r.onMarket = quantity THEN "Filled" ELSE "PartialFilled",
     onMarket |-> r.onMarket - quantity,
     filled |-> r.filled + quantity,
     cost |-> r.cost + quantity * price]

Ended(r, state) == [r EXCEPT !.state = state, !.onMarket = 0]

\* The listener's part of one callback.
Write(r, ord, cb) ==
    CASE cb.type = "accept"  -> [r EXCEPT ![cb.order] = Accepted(@, ord[cb.order].qty)]
      [] cb.type = "fill"    -> [r EXCEPT ![cb.order] = Filled(@, cb.quantity, cb.price),
                                          ![cb.matched] = Filled(@, cb.quantity, cb.price)]
      [] cb.type = "timeout" -> [r EXCEPT ![cb.order] = Ended(@, "Timeout")]
      [] cb.type = "cancel"  -> [r EXCEPT ![cb.order] = Ended(@, "Cancelled")]
      [] cb.type = "reject"  -> [r EXCEPT ![cb.order] = Ended(@, "Rejected")]

\* callback_now: the queued callbacks, in order.
Deliver(reports, ord, callbacks) ==
    LET r[i \in 0..Len(callbacks)] ==
            IF i = 0 THEN reports ELSE Write(r[i - 1], ord, callbacks[i])
    IN  r[Len(callbacks)]

\* The book after the call; a tracker goes with its entry.
Keep(b) ==
    /\ orders_' = b.orders
    /\ bids_' = b.bids
    /\ asks_' = b.asks
    /\ open_qty_' = [id \in OrderId |-> IF Rests(b, id) THEN b.open[id] ELSE 0]
    /\ marketPrice_' = b.price
    /\ expired' = b.expired \intersect b.orders
    /\ undefined' = b.undefined

-----------------------------------------------------------------------------
(* The calls of Exchange::append.  Override(calls) is what a class derived  *)
(* from OrderBook does in its on_... functions: calls are the callbacks of  *)
(* each callback_now, with the Order objects they are about.                *)

Call(ord, callbacks) == [order |-> ord, callbacks |-> callbacks]

\* The orders in the registry and a new one.
With(f, id, x) == [i \in orders_ \union {id} |-> IF i = id THEN x ELSE f[i]]

\* ADD, under an id that no order of the registry has.
Adding(id, terms, Override(_)) ==
    /\ ~undefined
    /\ id \notin orders_
    /\ \E ord \in {With(order, id, terms)} : \E b \in {AddTo(Book, ord, id)} :
           /\ Keep(b)
           /\ order' = ord
           /\ report' = Deliver(With(report, id, Unreported), ord, b.callbacks)
           /\ Override(<<Call(ord, b.callbacks)>>)

\* CANCEL: of an order that is not in the registry nothing happens.
Cancelling(id, Override(_)) ==
    /\ ~undefined
    /\ id \in orders_
    /\ \E ord \in {With(order, id, order[id])} : \E b \in {CancelIn(Book, id)} :
           /\ Keep(b)
           /\ order' = ord
           /\ report' = Deliver(With(report, id, report[id]), ord, b.callbacks)
           /\ Override(<<Call(ord, b.callbacks)>>)

\* MODIFY: cancel, then add as a new order of the same id.
Replacing(id, terms, Override(_)) ==
    /\ ~undefined
    /\ id \in orders_
    /\ \E c \in {CancelIn(Book, id)} : \E ord \in {With(order, id, terms)} :
       \E b \in {AddTo([c EXCEPT !.callbacks = << >>, !.expired = @ \ {id}], ord, id)} :
           /\ Keep(b)
           /\ order' = ord
           /\ report' = Deliver(With(report, id, Unreported), ord, b.callbacks)
           /\ Override(<<Call(order, c.callbacks), Call(ord, b.callbacks)>>)

\* The functions of OrderBook itself do nothing.
Ignore(calls) == TRUE

Add(id, terms) == Adding(id, terms, Ignore)
Cancel(id) == Cancelling(id, Ignore)
Replace(id, terms) == Replacing(id, terms, Ignore)

\* Cancel or Replace of an expired order: find_on_market has erased the
\* registry entry, and cancel reads the order through its iterator once more.
\* Either that still finds it, and the call goes on, or nothing more is known.
ReadFreed(id) ==
    /\ ~undefined
    /\ id \in orders_ \intersect expired
    /\ undefined' = TRUE
    /\ UNCHANGED <<order, bookVars, expired, report>>

\* The time comes after which an order has expired.
Expire(id) ==
    /\ ~undefined
    /\ id \in orders_ \ expired
    /\ order[id].timed
    /\ expired' = expired \union {id}
    /\ UNCHANGED <<order, bookVars, report, undefined>>

Next ==
    \E id \in OrderId :
        \/ \E terms \in OrderType : Add(id, terms) \/ Replace(id, terms)
        \/ Cancel(id)
        \/ ReadFreed(id)
        \/ Expire(id)

Spec == Init /\ [][Next]_vars

-----------------------------------------------------------------------------
Resting == ToSet(bids_) \union ToSet(asks_)

\* Every variable has its type; what is not resting has no tracker.
TypeOK ==
    /\ DOMAIN order \subseteq OrderId /\ \A id \in DOMAIN order : order[id] \in OrderType
    /\ orders_ \subseteq DOMAIN order
    /\ bids_ \in Seq(OrderId) /\ asks_ \in Seq(OrderId)
    /\ open_qty_ \in [OrderId -> Nat] /\ \A id \in OrderId \ Resting : open_qty_[id] = 0
    /\ marketPrice_ \in Nat
    /\ expired \subseteq orders_
    /\ DOMAIN report = DOMAIN order
    /\ undefined \in BOOLEAN

\* The registry is what the two sides hold (the tests of book/test.cpp count
\* it again and again): each registered order rests exactly once, on its own
\* side, with something open, and is no IOC order.
RegistryMatchesBook ==
    /\ orders_ = Resting
    /\ Cardinality(Resting) = Len(bids_) + Len(asks_)
    /\ \A id \in ToSet(bids_) : order[id].buy
    /\ \A id \in ToSet(asks_) : ~order[id].buy
    /\ \A id \in Resting : open_qty_[id] > 0 /\ ~order[id].ioc

\* What the listener was told adds up to the book: an order rests with what
\* the events left of it, and one that left the book had a terminal event.
EventsMatchBook ==
    \A id \in DOMAIN order :
        IF id \in orders_
        THEN /\ report[id].state \in {"Accepted", "PartialFilled"}
             /\ report[id].onMarket = open_qty_[id]
             /\ report[id].filled = order[id].qty - open_qty_[id]
        ELSE /\ report[id].state \in Terminal
             /\ report[id].onMarket = 0
             /\ report[id].state = "Filled" <=> order[id].qty > 0 /\ report[id].filled = order[id].qty

\* An all-or-none order is filled as a whole or not at all.
AllOrNone ==
    \A id \in DOMAIN order : order[id].aon => report[id].filled \in {0, order[id].qty}

\* A limit order never pays more, or gets less, than its limit.
CostWithinLimit ==
    \A id \in DOMAIN order :
        order[id].price # Market =>
            LET limit == report[id].filled * order[id].price
            IN  IF order[id].buy THEN report[id].cost =< limit ELSE report[id].cost >= limit

\* The limits of the two agree, and there is a price to trade at.
Compatible(bid, ask) ==
    LET b == order[bid].price
        a == order[ask].price
    IN  {a, b} # {Market} /\ (a = Market \/ b = Market \/ a =< b)

\* After every call all that could be matched has been: no two orders rest
\* that could trade in full with what the other one has, and an AON order
\* never rests opposite ordinary orders that together would fill it.
NothingLeftToMatch ==
    LET Bids == ToSet(bids_) \ expired
        Asks == ToSet(asks_) \ expired
        Open(ids) == MapThenSumSet(LAMBDA id : open_qty_[id], {id \in ids : ~order[id].aon})
    IN  /\ \A bid \in Bids, ask \in Asks :
               ~ /\ Compatible(bid, ask)
                 /\ order[bid].aon => open_qty_[bid] =< open_qty_[ask]
                 /\ order[ask].aon => open_qty_[ask] =< open_qty_[bid]
        /\ \A bid \in Bids :
               order[bid].aon => Open({ask \in Asks : Compatible(bid, ask)}) < open_qty_[bid]
        /\ \A ask \in Asks :
               order[ask].aon => Open({bid \in Bids : Compatible(bid, ask)}) < open_qty_[ask]

\* The call replaces the order.
Replaced(id) == id \in orders_ /\ \E terms \in OrderType : Replace(id, terms)

\* An order that trades leaves nothing of the orders of its side that were
\* before it.  (AON orders may be passed over, and a market order when there
\* is no price for it.)
TradesInOrder ==
    \A side \in {bids_, asks_} : \A i, j \in DOMAIN side :
        (/\ i < j
         /\ report'[side[j]].filled > report[side[j]].filled
         /\ ~order[side[i]].aon /\ ~order[side[j]].aon
         /\ order[side[i]].price # Market)
        => side[i] \notin orders_' \/ Replaced(side[i]) \/ Replaced(side[j])

\* A new order gets behind those of its price.
QueuesBehind ==
    \A side \in {bids_', asks_'} : \A i, j \in DOMAIN side :
        i < j /\ side[i] \notin orders_ =>
            Before(order'[side[i]].buy, order'[side[i]].price, order'[side[j]].price)

\* Price first, then time: orders trade in the order of their side, where a new
\* one is behind those of its price (operator< of ComparablePrice, and the
\* upper_bound that the multimap inserts at).
PriceTimePriority == [][TradesInOrder /\ QueuesBehind]_vars

=============================================================================
