--------------------------- MODULE DepthOrderBook ---------------------------
(***************************************************************************)
(* DepthOrderBook of MatchingEngine/book: an OrderBook that keeps a Depth, *)
(* the open quantity of its limit orders by price.  It never looks at the  *)
(* book: it sums up the callbacks.                                         *)
(*                                                                         *)
(* Of a side the SIZE best levels are visible, in slots of an array, and   *)
(* the others are in a map.  After each call Exchange::on_depth_change     *)
(* writes the visible levels out if they may have changed.  The change ids *)
(* are the one thing that is read of them: whether there is a change to    *)
(* publish.                                                                *)
(*                                                                         *)
(* A callback in which the depth throws ends there: callback_now catches   *)
(* it and goes on with the next one, but the order listener has not heard  *)
(* of it.  What was queued is the report of OrderBook, what the listener   *)
(* heard is heard.                                                         *)
(***************************************************************************)
EXTENDS OrderBook

CONSTANTS
    SIZE,                \* visible levels of a side (bookDepth)
    MaxSpoilt,           \* bound: prices at which the depth may part from the book
    MaxAfter             \* bound: calls after the one in which the depth first threw

ASSUME DepthAssumption ==
    /\ SIZE \in Nat \ {0}
    /\ MaxSpoilt \in Nat
    /\ MaxAfter \in Nat

VARIABLES
    depth_,              \* the Depth, see Fresh
    depthOutput,         \* the rows of the last on_depth_change
    heard,               \* heard[id]: what the listener wrote to the Order object
    spoilt,              \* history: the prices of a side at which the depth
                         \* could not follow the book, see Spoils
    thrown               \* history: the calls since the depth first threw

trackVars == <<depth_, depthOutput, heard, spoilt, thrown>>
depthVars == <<vars, trackVars>>

\* A DepthLevel; price 0 is INVALID_LEVEL_PRICE.  A quantity below zero stands
\* for the unsigned number it wraps to, as it does in the column of the table.
Level(price, excess) == [price |-> price, count |-> 0, qty |-> 0, excess |-> excess]
Blank(level) == level.price = 0

\* A side of the depth is [slots, more, ignore]: the array, the map of excess
\* levels, and ignore_bid_fill_qty_ or ignore_ask_fill_qty_.
Row(level) == <<level.price, level.qty, level.count>>
Visible(d) == [buy \in BOOLEAN |-> [i \in 1..SIZE |-> Row(d.side[buy].slots[i])]]

\* The Depth: its sides; changed, last_change_ is above last_published_change_;
\* torn, since the last publication a level was changed and not counted; threw,
\* the callback under way has thrown; wild, memory behind a side was written.
Fresh(slots) ==
    [side |-> [buy \in BOOLEAN |-> [slots |-> slots[buy], more |-> {}, ignore |-> 0]],
     changed |-> FALSE, torn |-> FALSE, threw |-> FALSE, wild |-> FALSE]

\* The constructor of DepthLevel leaves is_excess_ as the memory was.
DepthInit ==
    /\ Init
    /\ \E flags \in [BOOLEAN -> [1..SIZE -> BOOLEAN]] :
           depth_ = Fresh([buy \in BOOLEAN |-> [i \in 1..SIZE |-> Level(0, flags[buy][i])]])
    /\ depthOutput = Visible(depth_)
    /\ heard = << >>
    /\ spoilt = {}
    /\ thrown = 0

-----------------------------------------------------------------------------
(* Depth: d is the Depth, buy picks the side.                              *)

\* Of two prices of a side, the one that comes first.
Better(buy, p, q) == IF buy THEN p > q ELSE p < q

\* DepthLevel::operator=: a level keeps its own is_excess_.
Assign(level, from) == [from EXCEPT !.excess = level.excess]

\* insert_level_before: what is pushed out at the end goes to the map.
InsertBefore(s, i, price) ==
    [s EXCEPT !.slots = [j \in 1..SIZE |->
                            IF j < i THEN s.slots[j]
                            ELSE IF j = i THEN Level(price, FALSE)
                            ELSE Assign(s.slots[j], s.slots[j - 1])],
              !.more = IF Blank(s.slots[SIZE]) THEN @
                       ELSE @ \union {[s.slots[SIZE] EXCEPT !.excess = TRUE]}]

\* find_level with should_create: the side, with a level of this price.
WithLevel(s, buy, price) ==
    LET stops == {i \in 1..SIZE : \/ s.slots[i].price = price
                                  \/ Blank(s.slots[i])
                                  \/ Better(buy, price, s.slots[i].price)}
        i == Min(stops)
    IN  IF stops = {}
        THEN [s EXCEPT !.more = IF \E l \in @ : l.price = price THEN @
                                ELSE @ \union {Level(price, TRUE)}]
        ELSE IF s.slots[i].price = price THEN s
        ELSE IF Blank(s.slots[i]) THEN [s EXCEPT !.slots[i] = Level(price, FALSE)]
        ELSE InsertBefore(s, i, price)

\* find_level: the first level of a price, in the array before the map; {} is
\* none.
Find(s, price) ==
    LET visible == {i \in 1..SIZE : s.slots[i].price = price}
    IN  IF visible # {} THEN {s.slots[Min(visible)]} ELSE {l \in s.more : l.price = price}

\* The level of this price becomes level.
Put(s, level) ==
    IF \E i \in 1..SIZE : s.slots[i].price = level.price
    THEN [s EXCEPT !.slots = [i \in 1..SIZE |-> IF s.slots[i].price = level.price
                                                THEN level ELSE s.slots[i]]]
    ELSE [s EXCEPT !.more = {IF l.price = level.price THEN level ELSE l : l \in @}]

Throw(d) == [d EXCEPT !.threw = TRUE]

\* find_level for a price that has no level returns the end of the side, not a
\* null pointer, and the caller writes to it: nothing is known from there on.
Missing(d) == [d EXCEPT !.wild = TRUE]

\* add_order.
AddOrder(d, buy, price, qty) ==
    LET s == WithLevel(d.side[buy], buy, price)
        Added(level) == [d EXCEPT !.side[buy] = Put(s, [level EXCEPT !.count = @ + 1, !.qty = @ + qty]),
                                  !.changed = @ \/ ~level.excess]
    IN  Added(CHOOSE level \in Find(s, price) : TRUE)

\* A bug: the levels move up, but none comes out of the map.
MutEraseSlot(s, buy, i) ==
    [s EXCEPT !.slots = [j \in 1..SIZE |->
                            IF j < i THEN s.slots[j]
                            ELSE IF j < SIZE THEN Assign(s.slots[j], s.slots[j + 1])
                            ELSE Level(0, FALSE)]]

\* erase_level of a visible level: those behind it move up, and the best of
\* the map takes the last slot.
EraseSlot(s, buy, i) ==
    LET best == {l \in s.more : \A other \in s.more : ~Better(buy, other.price, l.price)}
        last == IF i < SIZE /\ Blank(s.slots[SIZE]) THEN s.slots[SIZE]
                ELSE IF best = {} THEN Level(0, FALSE)
                ELSE Assign(s.slots[SIZE], CHOOSE l \in best : TRUE)
    IN  [s EXCEPT !.slots = [j \in 1..SIZE |->
                                IF j < i THEN s.slots[j]
                                ELSE IF j < SIZE THEN Assign(s.slots[j], s.slots[j + 1])
                                ELSE last],
                  !.more = IF i < SIZE /\ Blank(s.slots[SIZE]) THEN @ ELSE @ \ best]

\* A bug: the change is not counted.
MutErase(d, buy, level) ==
    LET s == d.side[buy]
    IN  IF level.excess
        THEN [d EXCEPT !.side[buy].more = {l \in @ : l.price # level.price}]
        ELSE [d EXCEPT !.side[buy] = EraseSlot(s, buy, CHOOSE i \in 1..SIZE :
                                                           s.slots[i].price = level.price)]

\* erase_level.  A visible level that claims to be excess is looked for in
\* the map, where it is not.
Erase(d, buy, level) ==
    LET s == d.side[buy]
    IN  IF level.excess
        THEN [d EXCEPT !.side[buy].more = {l \in @ : l.price # level.price}]
        ELSE [d EXCEPT !.side[buy] = EraseSlot(s, buy, CHOOSE i \in 1..SIZE :
                                                           s.slots[i].price = level.price),
                       !.changed = TRUE]

\* close_order, of Depth and of DepthLevel: the last order takes its level
\* away.  When the quantity is too low the order is off the count already.
CloseOrder(d, buy, price, qty) ==
    LET Close(level) ==
            LET less(q) == [d EXCEPT !.side[buy] =
                               Put(@, [level EXCEPT !.count = @ - 1, !.qty = q])]
            IN  IF level.count = 0 THEN Throw(d)
                ELSE IF level.count = 1 THEN Erase(less(0), buy, level)
                ELSE IF level.qty \in 0..(qty - 1) THEN Throw([less(level.qty) EXCEPT !.torn = TRUE])
                ELSE [less(level.qty - qty) EXCEPT !.changed = TRUE]
        found == Find(d.side[buy], price)
    IN  IF found = {} THEN Missing(d) ELSE Close(CHOOSE level \in found : TRUE)

\* change_qty_order by what was filled.
ReduceOrder(d, buy, price, qty) ==
    LET Reduce(level) == [d EXCEPT !.side[buy] = Put(@, [level EXCEPT !.qty = @ - qty]),
                                   !.changed = TRUE]
        found == Find(d.side[buy], price)
    IN  IF found = {} THEN Missing(d) ELSE Reduce(CHOOSE level \in found : TRUE)

\* fill_order: the fills of an order that was filled on arrival are ignored.
FillOrder(d, buy, price, qty, filled) ==
    IF d.side[buy].ignore # 0 THEN [d EXCEPT !.side[buy].ignore = @ - qty]
    ELSE IF filled THEN CloseOrder(d, buy, price, qty)
    ELSE ReduceOrder(d, buy, price, qty)

-----------------------------------------------------------------------------
(* The callbacks that DepthOrderBook overrides; on_timeout it does not.    *)

Shown(o) == ~o.hidden /\ o.price # Market

\* on_accept: an order that was filled on arrival does not go to the depth.
OnAccept(d, o, quantity) ==
    IF ~Shown(o) THEN d
    ELSE IF quantity # o.qty THEN AddOrder(d, o.buy, o.price, o.qty)
    ELSE IF d.side[o.buy].ignore # 0 THEN Throw(d)
    ELSE [d EXCEPT !.side[o.buy].ignore = quantity]

\* on_fill for one of its two orders.
FillOne(d, ord, cb, id) ==
    IF d.threw \/ ~Shown(ord[id]) THEN d
    ELSE FillOrder(d, ord[id].buy, ord[id].price, cb.quantity, id \in cb.filled)

\* on_fill: the resting order first; if that throws, the other has no turn.
OnFill(d, ord, cb) == FillOne(FillOne(d, ord, cb, cb.matched), ord, cb, cb.order)

\* on_cancel.
OnCancel(d, o, quantity) == IF Shown(o) THEN CloseOrder(d, o.buy, o.price, quantity) ELSE d

\* The depth after one callback.
OnCallback(d, ord, cb) ==
    CASE cb.type = "accept" -> OnAccept(d, ord[cb.order], cb.quantity)
      [] cb.type = "fill"   -> OnFill(d, ord, cb)
      [] cb.type = "cancel" -> OnCancel(d, ord[cb.order], cb.quantity)
      [] OTHER              -> d

\* At this callback the depth d parts from the book at the price of o: it keeps
\* an order that timed out; and the cancel of an IOC order filled in part names
\* its whole quantity, which is right only for the last order of its level.
Spoils(d, call, cb) ==
    LET o == call.order[cb.order]
        partly == call.callbacks[1].type = "accept" /\ call.callbacks[1].quantity > 0
    IN  /\ Shown(o)
        /\ \/ cb.type = "timeout"
           \/ /\ cb.type = "cancel"
              /\ partly
              /\ \E level \in Find(d.side[o.buy], o.price) : level.count # 1

Place(o) == [buy |-> o.buy, price |-> o.price]

\* perform_callback: the depth, then the order listener, unless the depth threw.
\* t is [depth, output, heard, spoilt, thrown].
Tell(t, call, cb) ==
    LET d == OnCallback(t.depth, call.order, cb)
    IN  [depth  |-> [d EXCEPT !.threw = FALSE],
         output |-> t.output,
         heard  |-> IF d.threw THEN t.heard ELSE Write(t.heard, call.order, cb),
         spoilt |-> IF Spoils(t.depth, call, cb) THEN t.spoilt \union {Place(call.order[cb.order])}
                    ELSE t.spoilt,
         thrown |-> t.thrown \/ d.threw]

\* The Order objects of a call: the one that is accepted or rejected is new.
Created(h, call) ==
    LET first == call.callbacks[1]
    IN  [id \in DOMAIN call.order |->
            IF id = first.order /\ first.type \in {"accept", "reject"} THEN Unreported ELSE h[id]]

\* on_order_book_change and Exchange::on_depth_change, the last callback of a
\* call that queues any other than a reject.
Publish(t) ==
    IF t.depth.changed
    THEN [t EXCEPT !.output = Visible(t.depth),
                   !.depth = [@ EXCEPT !.changed = FALSE, !.torn = FALSE]]
    ELSE t

\* callback_now: the callbacks of a call, in order; and the calls of a step, of
\* which a replace has two.
TellCall(t, call) ==
    LET told[i \in 0..Len(call.callbacks)] ==
            IF i = 0 THEN [t EXCEPT !.heard = Created(@, call)]
            ELSE Tell(told[i - 1], call, call.callbacks[i])
    IN  Publish(told[Len(call.callbacks)])

TellAll(t, calls) ==
    LET told[i \in 0..Len(calls)] == IF i = 0 THEN t ELSE TellCall(told[i - 1], calls[i])
    IN  told[Len(calls)]

Tracked == [depth |-> depth_, output |-> depthOutput, heard |-> heard, spoilt |-> spoilt,
            thrown |-> thrown > 0]

TrackCalls(calls) ==
    \E t \in {TellAll(Tracked, calls)} :
        /\ depth_' = t.depth
        /\ depthOutput' = t.output
        /\ heard' = t.heard
        /\ spoilt' = t.spoilt
        /\ thrown' = IF t.thrown THEN thrown + 1 ELSE 0

\* The bound on spoilt: an order that may spoil a price comes where none is
\* spoilt yet, and only so many of them.
MaySpoil(terms) ==
    terms.timed \/ terms.ioc =>
        /\ Place(terms) \notin spoilt
        /\ Cardinality(spoilt) + Cardinality({id \in orders_ : order[id].timed}) < MaxSpoilt

DepthNext ==
    /\ ~depth_.wild
    /\ thrown =< MaxAfter
    /\ \E id \in OrderId :
           \/ \E terms \in OrderType :
                  MaySpoil(terms) /\ (Adding(id, terms, TrackCalls) \/ Replacing(id, terms, TrackCalls))
           \/ Cancelling(id, TrackCalls)
           \/ (ReadFreed(id) \/ Expire(id)) /\ UNCHANGED trackVars

DepthSpec == DepthInit /\ [][DepthNext]_depthVars

-----------------------------------------------------------------------------
\* The share that an order has in the depth.
Share(o, quantity) == [buy |-> o.buy, price |-> o.price, qty |-> quantity]

\* Of some shares, how many a side has at a price, and their quantity.
At(shares, buy, p) == {x \in DOMAIN shares : shares[x].buy = buy /\ shares[x].price = p}
CountAt(shares, buy, p) == Cardinality(At(shares, buy, p))
QtyAt(shares, buy, p) ==
    LET qty == [x \in DOMAIN shares |-> shares[x].qty]
    IN  MapThenSumSet(LAMBDA x : qty[x], At(shares, buy, p))

\* The limit orders that rest and are not hidden, with what they have open.
ShownOrders == [id \in {x \in Resting : Shown(order[x])} |-> Share(order[id], open_qty_[id])]

\* The levels of a side, and those that are visible.
Used(s) == {i \in 1..SIZE : ~Blank(s.slots[i])}
Levels(s) == {s.slots[i] : i \in Used(s)} \union s.more

\* Where the depth has not parted from the book each level is the aggregate of
\* the orders of its price, and there is one for each price that has orders.
\* (A level without orders may stay, see the flag in DepthInit.)
Aggregates(buy) ==
    LET Sound(p) == [buy |-> buy, price |-> p] \notin spoilt
        levels == Levels(depth_.side[buy])
    IN  /\ \A level \in levels :
               Sound(level.price) =>
                   Row(level) = <<level.price, QtyAt(ShownOrders, buy, level.price),
                                               CountAt(ShownOrders, buy, level.price)>>
        /\ \A id \in DOMAIN ShownOrders :
               ShownOrders[id].buy = buy /\ Sound(ShownOrders[id].price) =>
                   \E level \in levels : level.price = ShownOrders[id].price

\* The visible levels come first and are the best ones in order; the map has
\* levels only when all the slots are taken.
InOrder(buy) ==
    LET s == depth_.side[buy]
    IN  /\ \A i \in Used(s) \ {1} :
               /\ ~Blank(s.slots[i - 1])
               /\ Better(buy, s.slots[i - 1].price, s.slots[i].price)
        /\ s.more # {} => Used(s) = 1..SIZE
        /\ \A l \in s.more, i \in Used(s) : Better(buy, s.slots[i].price, l.price)

\* The depth adds up to the book although it only ever saw the callbacks.  As
\* long as no price is spoilt it never throws, so that the listener hears of
\* every event; until it throws it writes to no level that is not there, and
\* the levels of a sound price agree with the book; and their order outlives
\* all this, as long as nothing was written behind a side.
DepthMatchesBook ==
    /\ spoilt = {} => thrown = 0 /\ heard = report
    /\ thrown = 0 => ~depth_.wild /\ \A buy \in BOOLEAN : Aggregates(buy)
    /\ ~depth_.wild => \A buy \in BOOLEAN : InOrder(buy)

\* What was written to the depth table last is what is visible now, in each
\* slot that is not taken for excess: also in the middle of all that can go
\* wrong, unless a call that threw has left a level torn, or the depth wrote
\* behind a side.
PublishedIsCurrent ==
    ~depth_.torn /\ ~depth_.wild =>
        \A buy \in BOOLEAN, i \in 1..SIZE :
            ~depth_.side[buy].slots[i].excess => depthOutput[buy][i] = Visible(depth_)[buy][i]

=============================================================================
