------------------------ MODULE DepthOrderBookProofs ------------------------
(***************************************************************************)
(* Proofs about DepthOrderBook, for any order ids, any orders and any      *)
(* number of visible levels.  The depth is told what the calls of the book *)
(* do.  Each operator either leaves what is visible or counts the change   *)
(* (Counted), so do the callbacks of a call together, and the publication  *)
(* at its end then brings the rows up to date (Shows).                     *)
(***************************************************************************)
EXTENDS DepthOrderBook, OrderBookProofs

-----------------------------------------------------------------------------
(***************************************************************************)
(* The depth: a visible level that changes is counted as a change.         *)
(***************************************************************************)

\* A level whose flag is_excess_ is flag.
IsLevel(l, flag) == l = [price |-> l.price, count |-> l.count, qty |-> l.qty, excess |-> flag]

\* A visible level, which has whatever flag its memory had, or that of init.
IsSlot(l) == l.excess \in BOOLEAN /\ IsLevel(l, l.excess)

\* A side: all levels of the map are excess.
IsSide(s) ==
    /\ s = [slots |-> s.slots, more |-> s.more, ignore |-> s.ignore]
    /\ s.slots = [i \in 1..SIZE |-> s.slots[i]]
    /\ \A i \in 1..SIZE : IsSlot(s.slots[i])
    /\ \A l \in s.more : IsLevel(l, TRUE)

\* The fields of a depth, and a depth of two such sides.
Fields(d) == [side |-> d.side, changed |-> d.changed, torn |-> d.torn, threw |-> d.threw, wild |-> d.wild]

IsDepth(d) ==
    /\ {d.changed, d.torn, d.threw, d.wild} \subseteq BOOLEAN
    /\ d = Fields(d)
    /\ d.side = [buy \in BOOLEAN |-> d.side[buy]]
    /\ \A buy \in BOOLEAN : IsSide(d.side[buy])

\* Of the side s with what became of it, t: what is visible and not taken for
\* excess was so before.
Stays(s, t) == \A i \in 1..SIZE : ~t.slots[i].excess => t.slots[i] = s.slots[i]

\* What becomes of the depth d: e is counted as changed, or shows the same, or
\* was left with a torn level.
Counted(d, e) ==
    /\ IsDepth(e)
    /\ d.changed => e.changed
    /\ d.torn => e.torn
    /\ e.changed \/ e.torn \/ \A buy \in BOOLEAN : Stays(d.side[buy], e.side[buy])

\* The least element of a set of positions.
LEMMA MinOf ==
    ASSUME NEW S \in SUBSET (1..SIZE), S # {}
    PROVE  Min(S) \in S /\ \A k \in S : Min(S) =< k
PROOF
  <1>1. S \in SUBSET Nat
    BY DepthAssumption
  <1>2. \E n \in S : \A k \in S : n =< k
    BY <1>1, LeastElement
  <1> QED
    BY <1>2 DEF Min

\* The flag of a level.
LEMMA LevelFlag ==
    ASSUME NEW l, NEW flag, IsLevel(l, flag)
    PROVE  l.excess = flag
  BY DEF IsLevel

LEMMA SlotLevel ==
    ASSUME NEW l, NEW flag \in BOOLEAN, IsLevel(l, flag)
    PROVE  IsSlot(l)
  BY LevelFlag DEF IsSlot

\* The levels that the functions of Depth make of a level.
LEMMA LevelExcess ==
    ASSUME NEW l, NEW flag, IsLevel(l, flag), NEW x
    PROVE  IsLevel([l EXCEPT !.excess = x], x)
  BY DEF IsLevel

LEMMA LevelQty ==
    ASSUME NEW l, NEW flag, IsLevel(l, flag), NEW q
    PROVE  IsLevel([l EXCEPT !.qty = q], flag) /\ [l EXCEPT !.qty = q].price = l.price
  BY DEF IsLevel

LEMMA LevelCount ==
    ASSUME NEW l, NEW flag, IsLevel(l, flag), NEW c, NEW q
    PROVE  /\ IsLevel([l EXCEPT !.count = c, !.qty = q], flag)
           /\ [l EXCEPT !.count = c, !.qty = q].price = l.price
PROOF
  <1> DEFINE m == [l EXCEPT !.count = c]
  <1>1. IsLevel(m, flag) /\ m.price = l.price
    BY DEF IsLevel
  <1>2. [l EXCEPT !.count = c, !.qty = q] = [m EXCEPT !.qty = q]
    BY DEF IsLevel
  <1> HIDE DEF m
  <1> QED
    BY <1>1, <1>2, LevelQty

\* A level that is made anew.
LEMMA NewLevel ==
    ASSUME NEW p, NEW flag
    PROVE  IsLevel(Level(p, flag), flag) /\ Level(p, flag).price = p
  BY DEF IsLevel, Level

\* The fields of a side, and of a depth, that a step replaces.
LEMMA SideFields ==
    ASSUME NEW s, IsSide(s), NEW slots, NEW more, NEW x
    PROVE  /\ [s EXCEPT !.slots = slots] = [slots |-> slots, more |-> s.more, ignore |-> s.ignore]
           /\ [s EXCEPT !.more = more] = [slots |-> s.slots, more |-> more, ignore |-> s.ignore]
           /\ [s EXCEPT !.ignore = x] = [slots |-> s.slots, more |-> s.more, ignore |-> x]
           /\ [s EXCEPT !.slots = slots, !.more = more]
                  = [slots |-> slots, more |-> more, ignore |-> s.ignore]
PROOF
  <1> DEFINE t == [s EXCEPT !.slots = slots]
  <1>1. s = [slots |-> s.slots, more |-> s.more, ignore |-> s.ignore]
    BY DEF IsSide
  <1>2. t = [slots |-> slots, more |-> s.more, ignore |-> s.ignore]
    BY <1>1
  <1>3. [s EXCEPT !.slots = slots, !.more = more] = [t EXCEPT !.more = more]
    BY <1>1
  <1> HIDE DEF t
  <1>4. [t EXCEPT !.more = more] = [slots |-> slots, more |-> more, ignore |-> s.ignore]
    BY <1>2
  <1>5. /\ [s EXCEPT !.more = more] = [slots |-> s.slots, more |-> more, ignore |-> s.ignore]
        /\ [s EXCEPT !.ignore = x] = [slots |-> s.slots, more |-> s.more, ignore |-> x]
    BY <1>1
  <1> QED
    BY <1>2, <1>3, <1>4, <1>5 DEF t

\* What makes a side.
LEMMA MadeSide ==
    ASSUME NEW slots, NEW more, NEW x,
           slots = [i \in 1..SIZE |-> slots[i]], \A i \in 1..SIZE : IsSlot(slots[i]),
           \A l \in more : IsLevel(l, TRUE)
    PROVE  IsSide([slots |-> slots, more |-> more, ignore |-> x])
  BY DEF IsSide

\* A depth of which one side is replaced.
LEMMA DepthSide ==
    ASSUME NEW d, IsDepth(d), NEW buy, NEW s, IsSide(s)
    PROVE  LET e == [d EXCEPT !.side[buy] = s]
           IN  /\ IsDepth(e) /\ e.changed = d.changed /\ e.torn = d.torn
               /\ e.threw = d.threw /\ e.wild = d.wild
               /\ \A b \in BOOLEAN : e.side[b] = IF b = buy THEN s ELSE d.side[b]
PROOF
  <1> DEFINE e == [d EXCEPT !.side[buy] = s]
             side == [b \in BOOLEAN |-> IF b = buy THEN s ELSE d.side[b]]
  <1>1. /\ d = Fields(d)
        /\ d.side = [b \in BOOLEAN |-> d.side[b]] /\ {d.changed, d.torn, d.threw, d.wild} \subseteq BOOLEAN
        /\ \A b \in BOOLEAN : IsSide(d.side[b])
    BY DEF IsDepth
  <1>2. [d.side EXCEPT ![buy] = s] = side
    BY <1>1
  <1>3. e = [d EXCEPT !.side = side]
    BY <1>1, <1>2 DEF Fields
  <1>4. \A b \in BOOLEAN : side[b] = IF b = buy THEN s ELSE d.side[b]
    OBVIOUS
  <1>5. side = [b \in BOOLEAN |-> side[b]]
    OBVIOUS
  <1>6. \A b \in BOOLEAN : IsSide(side[b])
    BY <1>1, <1>4
  <1> HIDE DEF e, side
  <1>7. e = [side |-> side, changed |-> d.changed, torn |-> d.torn, threw |-> d.threw, wild |-> d.wild]
    BY <1>1, <1>3 DEF Fields
  <1>8. /\ e.side = side /\ e.changed = d.changed /\ e.torn = d.torn /\ e.threw = d.threw
        /\ e.wild = d.wild /\ e = Fields(e)
    BY <1>7 DEF Fields
  <1> QED
    BY <1>1, <1>4, <1>5, <1>6, <1>8 DEF IsDepth, e

\* A flag of a depth that is set.
LEMMA DepthFields ==
    ASSUME NEW d, d = Fields(d), NEW x
    PROVE  /\ [d EXCEPT !.changed = x]
                  = [side |-> d.side, changed |-> x, torn |-> d.torn, threw |-> d.threw, wild |-> d.wild]
           /\ [d EXCEPT !.torn = x]
                  = [side |-> d.side, changed |-> d.changed, torn |-> x, threw |-> d.threw, wild |-> d.wild]
           /\ [d EXCEPT !.threw = x]
                  = [side |-> d.side, changed |-> d.changed, torn |-> d.torn, threw |-> x, wild |-> d.wild]
           /\ [d EXCEPT !.wild = x]
                  = [side |-> d.side, changed |-> d.changed, torn |-> d.torn, threw |-> d.threw, wild |-> x]
  BY DEF Fields

\* A depth of which a flag is set: e changed, f threw, g has written behind a
\* side, h was left torn; k is one whose exception was caught.
LEMMA DepthFlags ==
    ASSUME NEW d, IsDepth(d)
    PROVE  LET e == [d EXCEPT !.changed = TRUE]
               f == Throw(d)
               g == Missing(d)
               h == [d EXCEPT !.torn = TRUE]
               k == [d EXCEPT !.threw = FALSE]
           IN  /\ IsDepth(e) /\ e.changed /\ e.torn = d.torn /\ e.side = d.side
               /\ e.threw = d.threw /\ e.wild = d.wild
               /\ IsDepth(f) /\ f.changed = d.changed /\ f.torn = d.torn /\ f.side = d.side
               /\ f.threw /\ f.wild = d.wild
               /\ IsDepth(g) /\ g.changed = d.changed /\ g.torn = d.torn /\ g.side = d.side
               /\ IsDepth(h) /\ h.changed = d.changed /\ h.torn /\ h.side = d.side
               /\ IsDepth(k) /\ k.changed = d.changed /\ k.torn = d.torn /\ k.side = d.side
               /\ ~k.threw /\ k.wild = d.wild
PROOF
  <1>1. /\ d = Fields(d) /\ {d.changed, d.torn, d.threw, d.wild} \subseteq BOOLEAN
        /\ d.side = [b \in BOOLEAN |-> d.side[b]]
        /\ \A b \in BOOLEAN : IsSide(d.side[b])
    BY DEF IsDepth
  <1> DEFINE e == [d EXCEPT !.changed = TRUE]
             f == Throw(d)
             g == Missing(d)
             h == [d EXCEPT !.torn = TRUE]
             k == [d EXCEPT !.threw = FALSE]
  <1>2. /\ e = [side |-> d.side, changed |-> TRUE, torn |-> d.torn, threw |-> d.threw, wild |-> d.wild]
        /\ f = [side |-> d.side, changed |-> d.changed, torn |-> d.torn, threw |-> TRUE, wild |-> d.wild]
        /\ g = [side |-> d.side, changed |-> d.changed, torn |-> d.torn, threw |-> d.threw, wild |-> TRUE]
        /\ h = [side |-> d.side, changed |-> d.changed, torn |-> TRUE, threw |-> d.threw, wild |-> d.wild]
        /\ k = [side |-> d.side, changed |-> d.changed, torn |-> d.torn, threw |-> FALSE, wild |-> d.wild]
    BY <1>1, DepthFields, Zenon DEF Throw, Missing
  <1> HIDE DEF e, f, g, h, k
  <1>3. /\ IsDepth(e) /\ e.side = d.side /\ e.changed = TRUE /\ e.torn = d.torn
        /\ e.threw = d.threw /\ e.wild = d.wild
    <2>1. /\ e.side = d.side /\ e.changed = TRUE /\ e.torn = d.torn /\ e.threw = d.threw
          /\ e.wild = d.wild /\ e = Fields(e)
      BY <1>2 DEF Fields
    <2>2. IsDepth(e)
      BY <1>1, <2>1 DEF IsDepth
    <2> QED
      BY <2>1, <2>2
  <1>4. /\ IsDepth(f) /\ f.side = d.side /\ f.changed = d.changed /\ f.torn = d.torn
        /\ f.threw = TRUE /\ f.wild = d.wild
    <2>1. /\ f.side = d.side /\ f.changed = d.changed /\ f.torn = d.torn /\ f.threw = TRUE
          /\ f.wild = d.wild /\ f = Fields(f)
      BY <1>2 DEF Fields
    <2>2. IsDepth(f)
      BY <1>1, <2>1 DEF IsDepth
    <2> QED
      BY <2>1, <2>2
  <1>5. /\ IsDepth(g) /\ g.side = d.side /\ g.changed = d.changed /\ g.torn = d.torn
        /\ g.threw = d.threw /\ g.wild = TRUE
    <2>1. /\ g.side = d.side /\ g.changed = d.changed /\ g.torn = d.torn /\ g.threw = d.threw
          /\ g.wild = TRUE /\ g = Fields(g)
      BY <1>2 DEF Fields
    <2>2. IsDepth(g)
      BY <1>1, <2>1 DEF IsDepth
    <2> QED
      BY <2>1, <2>2
  <1>6. /\ IsDepth(h) /\ h.side = d.side /\ h.changed = d.changed /\ h.torn = TRUE
        /\ h.threw = d.threw /\ h.wild = d.wild
    <2>1. /\ h.side = d.side /\ h.changed = d.changed /\ h.torn = TRUE /\ h.threw = d.threw
          /\ h.wild = d.wild /\ h = Fields(h)
      BY <1>2 DEF Fields
    <2>2. IsDepth(h)
      BY <1>1, <2>1 DEF IsDepth
    <2> QED
      BY <2>1, <2>2
  <1>7. /\ IsDepth(k) /\ k.side = d.side /\ k.changed = d.changed /\ k.torn = d.torn
        /\ k.threw = FALSE /\ k.wild = d.wild
    <2>1. /\ k.side = d.side /\ k.changed = d.changed /\ k.torn = d.torn /\ k.threw = FALSE
          /\ k.wild = d.wild /\ k = Fields(k)
      BY <1>2 DEF Fields
    <2>2. IsDepth(k)
      BY <1>1, <2>1 DEF IsDepth
    <2> QED
      BY <2>1, <2>2
  <1> QED
    BY <1>3, <1>4, <1>5, <1>6, <1>7 DEF e, f, g, h, k

\* The level that find_level finds is visible, or in the map and excess.
LEMMA FindFacts ==
    ASSUME NEW s, IsSide(s), NEW price, NEW l \in Find(s, price)
    PROVE  /\ l.price = price /\ IsLevel(l, l.excess) /\ l.excess \in BOOLEAN
           /\ l \in s.more \/ \E i \in 1..SIZE : l = s.slots[i] /\ s.slots[i].price = price
           /\ (\A i \in 1..SIZE : s.slots[i].price # price) => l \in s.more /\ l.excess
           /\ ~l.excess => \E i \in 1..SIZE : s.slots[i].price = price
PROOF
  <1> DEFINE visible == {i \in 1..SIZE : s.slots[i].price = price}
  <1>1. /\ \A i \in 1..SIZE : IsSlot(s.slots[i])
        /\ \A m \in s.more : IsLevel(m, TRUE)
    BY DEF IsSide
  <1>2. CASE visible # {}
    <2>1. Min(visible) \in visible
      BY <1>2, MinOf
    <2>2. l = s.slots[Min(visible)]
      BY <1>2 DEF Find
    <2>3. PICK i \in 1..SIZE : l = s.slots[i] /\ s.slots[i].price = price
      BY <2>1, <2>2
    <2> QED
      BY <1>1, <2>3 DEF IsSlot
  <1>3. CASE visible = {}
    <2>1. l \in s.more /\ l.price = price
      BY <1>3 DEF Find
    <2>2. IsLevel(l, TRUE) /\ l.excess = TRUE
      BY <1>1, <2>1, LevelFlag
    <2> QED
      BY <1>3, <2>1, <2>2
  <1> QED
    BY <1>2, <1>3

\* Writing the level back that was found touches no visible level but those
\* of its price and its flag.
LEMMA PutFacts ==
    ASSUME NEW s, IsSide(s), NEW price, NEW l \in Find(s, price),
           NEW m, IsLevel(m, l.excess), m.price = price
    PROVE  /\ IsSide(Put(s, m))
           /\ l.excess => Stays(s, Put(s, m))
PROOF
  <1>1. /\ s.slots = [i \in 1..SIZE |-> s.slots[i]]
        /\ \A i \in 1..SIZE : IsSlot(s.slots[i])
        /\ \A k \in s.more : IsLevel(k, TRUE)
    BY DEF IsSide
  <1>2. /\ l.excess \in BOOLEAN
        /\ (\A i \in 1..SIZE : s.slots[i].price # price) => l.excess
    BY FindFacts
  <1>3. CASE \A i \in 1..SIZE : s.slots[i].price # price
    <2> DEFINE more == {IF k.price = m.price THEN m ELSE k : k \in s.more}
    <2>1. Put(s, m) = [s EXCEPT !.more = more]
      <3>1. ~ \E i \in 1..SIZE : s.slots[i].price = m.price
        BY <1>3
      <3>2. Put(s, m) = [s EXCEPT !.more = {IF k.price = m.price THEN m ELSE k : k \in @}]
        BY <3>1 DEF Put
      <3> QED
        BY <3>2 DEF IsSide
    <2>2. \A k \in more : IsLevel(k, TRUE)
      BY <1>1, <1>2, <1>3
    <2> HIDE DEF more
    <2>3. Put(s, m) = [slots |-> s.slots, more |-> more, ignore |-> s.ignore]
      BY <2>1, SideFields
    <2>4. IsSide([slots |-> s.slots, more |-> more, ignore |-> s.ignore])
      BY <1>1, <2>2, MadeSide
    <2> QED
      BY <2>3, <2>4 DEF Stays
  <1>4. CASE \E i \in 1..SIZE : s.slots[i].price = price
    <2> DEFINE slots == [i \in 1..SIZE |-> IF s.slots[i].price = m.price THEN m ELSE s.slots[i]]
    <2>1. Put(s, m) = [s EXCEPT !.slots = slots]
      BY <1>4 DEF Put
    <2>2. IsSlot(m) /\ m.excess = l.excess
      BY <1>2, LevelFlag, SlotLevel
    <2>3. /\ \A i \in 1..SIZE : IsSlot(slots[i])
          /\ \A i \in 1..SIZE : slots[i] = m \/ slots[i] = s.slots[i]
          /\ slots = [i \in 1..SIZE |-> slots[i]]
      BY <1>1, <2>2
    <2> HIDE DEF slots
    <2>4. Put(s, m) = [slots |-> slots, more |-> s.more, ignore |-> s.ignore]
      BY <2>1, SideFields
    <2>5. IsSide([slots |-> slots, more |-> s.more, ignore |-> s.ignore])
      BY <1>1, <2>3, MadeSide
    <2>6. l.excess => Stays(s, Put(s, m))
      <3>1. Put(s, m).slots = slots
        BY <2>4
      <3>2. l.excess => \A i \in 1..SIZE : ~slots[i].excess => slots[i] = s.slots[i]
        BY <2>2, <2>3
      <3> QED
        BY <3>1, <3>2 DEF Stays
    <2>7. IsSide(Put(s, m))
      BY <2>4, <2>5
    <2> QED
      BY <2>6, <2>7, Zenon
  <1> QED
    BY <1>3, <1>4

\* The assignment of levels keeps the flag of the place.
LEMMA AssignFacts ==
    ASSUME NEW l, NEW from, NEW flag, IsLevel(l, flag), NEW other, IsLevel(from, other)
    PROVE  IsLevel(Assign(l, from), flag)
PROOF
  <1>1. l.excess = flag
    BY LevelFlag
  <1> QED
    BY <1>1, LevelExcess DEF Assign

LEMMA AssignSlot ==
    ASSUME NEW l, IsSlot(l), NEW from, IsSlot(from)
    PROVE  IsSlot(Assign(l, from))
  BY AssignFacts, SlotLevel DEF IsSlot

\* The side t is s with a new level in slot i, and unchanged before it.
Placed(t, s, i, price) ==
    /\ IsSide(t) /\ t.slots[i] = Level(price, FALSE)
    /\ \A j \in 1..(i - 1) : t.slots[j] = s.slots[j]

\* insert_level_before: the new level is visible.
LEMMA PlaceFacts ==
    ASSUME NEW s, IsSide(s), NEW i \in 1..SIZE, NEW price,
           NEW t, t = InsertBefore(s, i, price)
    PROVE  Placed(t, s, i, price)
PROOF
  <1> DEFINE slots == [j \in 1..SIZE |-> IF j < i THEN s.slots[j]
                                         ELSE IF j = i THEN Level(price, FALSE)
                                         ELSE Assign(s.slots[j], s.slots[j - 1])]
             pushed == [s.slots[SIZE] EXCEPT !.excess = TRUE]
             more == IF Blank(s.slots[SIZE]) THEN s.more ELSE s.more \union {pushed}
  <1>1. SIZE \in Nat \ {0} /\ SIZE \in 1..SIZE
    BY DepthAssumption
  <1>2. /\ \A j \in 1..SIZE : IsSlot(s.slots[j])
        /\ \A k \in s.more : IsLevel(k, TRUE)
    BY DEF IsSide
  <1>3. t = [s EXCEPT !.slots = slots, !.more = more]
    BY DEF InsertBefore, IsSide
  <1>4. ASSUME NEW j \in 1..SIZE PROVE IsSlot(slots[j])
    <2>1. slots[j] = IF j < i THEN s.slots[j]
                     ELSE IF j = i THEN Level(price, FALSE)
                     ELSE Assign(s.slots[j], s.slots[j - 1])
      OBVIOUS
    <2>2. IsSlot(s.slots[j]) /\ IsSlot(Level(price, FALSE))
      BY <1>2, NewLevel, SlotLevel
    <2>3. ~(j < i) /\ j # i => IsSlot(Assign(s.slots[j], s.slots[j - 1]))
      <3> SUFFICES ASSUME ~(j < i), j # i PROVE IsSlot(Assign(s.slots[j], s.slots[j - 1]))
        OBVIOUS
      <3>1. j - 1 \in 1..SIZE
        BY <1>1
      <3>2. IsSlot(s.slots[j - 1])
        BY <1>2, <3>1
      <3> QED
        BY <2>2, <3>2, AssignSlot
    <2> HIDE DEF slots
    <2> QED
      BY <2>1, <2>2, <2>3
  <1>5. IsLevel(pushed, TRUE)
    BY <1>1, <1>2, LevelExcess DEF IsSlot
  <1>6. \A k \in more : IsLevel(k, TRUE)
    BY <1>2, <1>5
  <1>7. /\ slots[i] = Level(price, FALSE) /\ slots = [j \in 1..SIZE |-> slots[j]]
        /\ \A j \in 1..(i - 1) : slots[j] = s.slots[j]
    <2>1. slots[i] = Level(price, FALSE)
      <3>1. slots[i] = IF i < i THEN s.slots[i] ELSE IF i = i THEN Level(price, FALSE)
                       ELSE Assign(s.slots[i], s.slots[i - 1])
        OBVIOUS
      <3>2. ~(i < i)
        BY <1>1
      <3> HIDE DEF slots
      <3> QED
        BY <3>1, <3>2
    <2>2. slots = [j \in 1..SIZE |-> slots[j]]
      OBVIOUS
    <2>3. \A j \in 1..(i - 1) : slots[j] = s.slots[j]
      <3> SUFFICES ASSUME NEW j \in 1..(i - 1) PROVE slots[j] = s.slots[j]
        OBVIOUS
      <3>1. j \in 1..SIZE /\ j < i
        BY <1>1
      <3> QED
        BY <3>1
    <2> HIDE DEF slots
    <2> QED
      BY <2>1, <2>2, <2>3
  <1> HIDE DEF slots, more
  <1>8. t = [slots |-> slots, more |-> more, ignore |-> s.ignore]
    BY <1>3, SideFields
  <1>9. IsSide([slots |-> slots, more |-> more, ignore |-> s.ignore])
    BY <1>4, <1>6, <1>7, MadeSide
  <1> QED
    BY <1>7, <1>8, <1>9 DEF Placed

\* find_level with should_create: there is a level then, and if it is taken for
\* excess then nothing that is visible has changed.
LEMMA WithLevelFacts ==
    ASSUME NEW s, IsSide(s), NEW buy, NEW price
    PROVE  LET t == WithLevel(s, buy, price)
           IN  /\ IsSide(t)
               /\ Find(t, price) # {}
               /\ t.slots = s.slots \/ \A l \in Find(t, price) : ~l.excess
PROOF
  <1> DEFINE t == WithLevel(s, buy, price)
             stops == {i \in 1..SIZE : \/ s.slots[i].price = price
                                       \/ Blank(s.slots[i])
                                       \/ Better(buy, price, s.slots[i].price)}
             i == Min(stops)
  <1>1. /\ s.slots = [j \in 1..SIZE |-> s.slots[j]]
        /\ \A j \in 1..SIZE : IsSlot(s.slots[j])
        /\ \A k \in s.more : IsLevel(k, TRUE)
    BY DEF IsSide
  <1>2. CASE stops = {}
    <2> DEFINE new == Level(price, TRUE)
               more == IF \E l \in s.more : l.price = price THEN s.more ELSE s.more \union {new}
    <2>1. t = [s EXCEPT !.more = more]
      <3>1. t = [s EXCEPT !.more = IF \E l \in @ : l.price = price THEN @
                                   ELSE @ \union {Level(price, TRUE)}]
        BY <1>2 DEF WithLevel
      <3> QED
        BY <3>1 DEF IsSide
    <2>2. IsLevel(new, TRUE) /\ new.price = price
      BY NewLevel
    <2>3. /\ \A k \in more : IsLevel(k, TRUE)
          /\ \E l \in more : l.price = price
      BY <1>1, <2>2
    <2> HIDE DEF more
    <2>4. t = [slots |-> s.slots, more |-> more, ignore |-> s.ignore]
      BY <2>1, SideFields
    <2>5. IsSide([slots |-> s.slots, more |-> more, ignore |-> s.ignore])
      BY <1>1, <2>3, MadeSide
    <2> HIDE DEF t
    <2>6. Find(t, price) # {}
      BY <2>3, <2>4 DEF Find
    <2> QED
      BY <2>4, <2>5, <2>6 DEF t
  <1>3. CASE stops # {}
    <2>1. i \in 1..SIZE /\ \A j \in 1..(i - 1) : s.slots[j].price # price
      <3>1. stops \in SUBSET (1..SIZE)
        OBVIOUS
      <3>2. i \in stops /\ \A k \in stops : i =< k
        BY <1>3, <3>1, MinOf
      <3>3. ASSUME NEW j \in 1..(i - 1) PROVE s.slots[j].price # price
        <4>1. j \in 1..SIZE /\ ~(i =< j)
          BY <3>1, <3>2, DepthAssumption
        <4>2. j \notin stops
          BY <3>2, <4>1
        <4> QED
          BY <4>1, <4>2
      <3> QED
        BY <3>1, <3>2, <3>3
    <2>2. t = IF s.slots[i].price = price THEN s
              ELSE IF Blank(s.slots[i]) THEN [s EXCEPT !.slots[i] = Level(price, FALSE)]
              ELSE InsertBefore(s, i, price)
      BY <1>3 DEF WithLevel
    <2> HIDE DEF i, t
    <2>3. CASE s.slots[i].price = price
      <3>1. t = s
        BY <2>2, <2>3
      <3>2. {j \in 1..SIZE : s.slots[j].price = price} # {}
        BY <2>1, <2>3
      <3>3. Find(s, price) # {}
        BY <3>2 DEF Find
      <3> QED
        BY <3>1, <3>3 DEF t
    <2>4. CASE s.slots[i].price # price
      <3>1. /\ IsSide(t) /\ t.slots[i] = Level(price, FALSE)
            /\ \A j \in 1..(i - 1) : t.slots[j] = s.slots[j]
        <4>1. CASE Blank(s.slots[i])
          <5> DEFINE new == Level(price, FALSE)
                     slots == [s.slots EXCEPT ![i] = new]
          <5>1. t = [s EXCEPT !.slots = slots]
            <6>1. t = [s EXCEPT !.slots[i] = new]
              BY <2>2, <2>4, <4>1
            <6> QED
              BY <6>1 DEF IsSide
          <5>2. IsSlot(new)
            BY NewLevel, SlotLevel
          <5> HIDE DEF new
          <5>3. /\ \A j \in 1..SIZE : IsSlot(slots[j])
                /\ slots = [j \in 1..SIZE |-> slots[j]]
                /\ slots[i] = new
                /\ \A j \in 1..SIZE : j # i => slots[j] = s.slots[j]
            <6>1. slots = [j \in 1..SIZE |-> IF j = i THEN new ELSE s.slots[j]]
              BY <1>1
            <6> HIDE DEF slots
            <6>2. \A j \in 1..SIZE : slots[j] = IF j = i THEN new ELSE s.slots[j]
              BY <6>1
            <6> QED
              BY <1>1, <2>1, <5>2, <6>1, <6>2
          <5> HIDE DEF slots
          <5>4. t = [slots |-> slots, more |-> s.more, ignore |-> s.ignore]
            BY <5>1, SideFields
          <5>5. IsSide([slots |-> slots, more |-> s.more, ignore |-> s.ignore])
            BY <1>1, <5>3, MadeSide
          <5>6. \A j \in 1..(i - 1) : j \in 1..SIZE /\ j # i
            BY <2>1, DepthAssumption
          <5> QED
            BY <5>3, <5>4, <5>5, <5>6 DEF new
        <4>2. CASE ~Blank(s.slots[i])
          <5>1. t = InsertBefore(s, i, price)
            BY <2>2, <2>4, <4>2
          <5>2. i \in 1..SIZE
            BY <2>1
          <5>3. Placed(t, s, i, price)
            BY <1>1, <5>1, <5>2, PlaceFacts
          <5> QED
            BY <5>3 DEF Placed
        <4> QED
          BY <4>1, <4>2, Zenon
      <3> DEFINE visible == {j \in 1..SIZE : t.slots[j].price = price}
      <3>2. i \in visible /\ \A j \in 1..(i - 1) : j \notin visible
        BY <2>1, <3>1, NewLevel
      <3>3. Min(visible) \in visible /\ \A k \in visible : Min(visible) =< k
        BY <3>2, MinOf
      <3>4. Min(visible) = i
        <4>1. Min(visible) =< i /\ Min(visible) \in 1..SIZE
          BY <3>2, <3>3
        <4>2. Min(visible) \notin 1..(i - 1)
          BY <3>2, <3>3
        <4> HIDE DEF visible
        <4> QED
          BY <2>1, <4>1, <4>2, DepthAssumption
      <3>5. Find(t, price) = {t.slots[i]}
        BY <3>2, <3>4 DEF Find
      <3>6. ~t.slots[i].excess
        BY <3>1 DEF Level
      <3> QED
        BY <3>1, <3>5, <3>6 DEF t
    <2> QED
      BY <2>3, <2>4
  <1> QED
    BY <1>2, <1>3

\* No change at all is counted.
LEMMA CountedSame ==
    ASSUME NEW d, IsDepth(d)
    PROVE  Counted(d, d)
  BY DEF Counted, Stays

\* Two changes are counted as one.
LEMMA CountedTwice ==
    ASSUME NEW d, NEW e, NEW f, Counted(d, e), Counted(e, f)
    PROVE  Counted(d, f)
PROOF
  <1>1. ASSUME \A buy \in BOOLEAN : Stays(d.side[buy], e.side[buy]),
               \A buy \in BOOLEAN : Stays(e.side[buy], f.side[buy])
        PROVE  \A buy \in BOOLEAN : Stays(d.side[buy], f.side[buy])
    BY <1>1 DEF Stays
  <1> QED
    BY <1>1 DEF Counted

\* Replacing a side is counted if what is visible is kept.
LEMMA CountedSide ==
    ASSUME NEW d, IsDepth(d), NEW buy \in BOOLEAN, NEW s, IsSide(s),
           Stays(d.side[buy], s)
    PROVE  Counted(d, [d EXCEPT !.side[buy] = s])
PROOF
  <1> DEFINE e == [d EXCEPT !.side[buy] = s]
  <1>1. /\ IsDepth(e) /\ e.changed = d.changed /\ e.torn = d.torn
        /\ \A b \in BOOLEAN : e.side[b] = IF b = buy THEN s ELSE d.side[b]
    BY DepthSide
  <1> HIDE DEF e
  <1>2. \A b \in BOOLEAN : Stays(d.side[b], e.side[b])
    BY <1>1 DEF Stays
  <1>3. Counted(d, e)
    BY <1>1, <1>2 DEF Counted
  <1> QED
    BY <1>3 DEF e

\* Replacing a side is counted if changed is set, or if it is left torn.
LEMMA CountedChange ==
    ASSUME NEW d, IsDepth(d), NEW buy \in BOOLEAN, NEW s, IsSide(s)
    PROVE  /\ Counted(d, [d EXCEPT !.side[buy] = s, !.changed = TRUE])
           /\ [d EXCEPT !.side[buy] = s, !.changed = TRUE].changed
           /\ Counted(d, Throw([d EXCEPT !.side[buy] = s, !.torn = TRUE]))
PROOF
  <1> DEFINE e == [d EXCEPT !.side[buy] = s]
             f == [e EXCEPT !.changed = TRUE]
             g == [e EXCEPT !.torn = TRUE]
             h == Throw(g)
  <1>1. /\ IsDepth(e) /\ e.changed = d.changed /\ e.torn = d.torn
        /\ e.threw = d.threw /\ e.wild = d.wild
        /\ \A b \in BOOLEAN : e.side[b] = IF b = buy THEN s ELSE d.side[b]
    BY DepthSide
  <1>0. d = Fields(d) /\ d.side = [b \in BOOLEAN |-> d.side[b]]
    BY DEF IsDepth
  <1>2. /\ [d EXCEPT !.side[buy] = s, !.changed = TRUE] = f
        /\ [d EXCEPT !.side[buy] = s, !.torn = TRUE] = g
    BY <1>0 DEF Fields
  <1> HIDE DEF e
  <1>3. IsDepth(f) /\ f.changed /\ f.torn = e.torn
    BY <1>1, DepthFlags
  <1>4. IsDepth(g) /\ g.changed = e.changed /\ g.torn
    BY <1>1, DepthFlags
  <1> HIDE DEF f, g
  <1>5. IsDepth(h) /\ h.changed = g.changed /\ h.torn = g.torn
    BY <1>4, DepthFlags
  <1> HIDE DEF h
  <1>6. Counted(d, f) /\ Counted(d, h)
    BY <1>1, <1>3, <1>4, <1>5 DEF Counted
  <1> QED
    BY <1>2, <1>3, <1>6 DEF h

\* A side that there is not cannot be replaced.
LEMMA NoSide ==
    ASSUME NEW d, IsDepth(d), NEW buy, buy \notin BOOLEAN, NEW s
    PROVE  [d EXCEPT !.side[buy] = s] = d
PROOF
  <1>1. /\ d = Fields(d)
        /\ d.side = [b \in BOOLEAN |-> d.side[b]]
    BY DEF IsDepth
  <1>2. [d.side EXCEPT ![buy] = s] = d.side
    BY <1>1
  <1> QED
    BY <1>1, <1>2 DEF Fields

LEMMA CountedNoSide ==
    ASSUME NEW d, IsDepth(d), NEW buy, buy \notin BOOLEAN, NEW s
    PROVE  /\ Counted(d, [d EXCEPT !.side[buy] = s])
           /\ Counted(d, [d EXCEPT !.side[buy] = s, !.changed = TRUE])
           /\ Counted(d, Throw([d EXCEPT !.side[buy] = s, !.torn = TRUE]))
PROOF
  <1> DEFINE e == [d EXCEPT !.side[buy] = s]
             f == [d EXCEPT !.changed = TRUE]
             g == [d EXCEPT !.torn = TRUE]
             h == Throw(g)
  <1>1. e = d
    BY NoSide
  <1>2. /\ [d EXCEPT !.side[buy] = s, !.changed = TRUE] = [e EXCEPT !.changed = TRUE]
        /\ [d EXCEPT !.side[buy] = s, !.torn = TRUE] = [e EXCEPT !.torn = TRUE]
    BY DEF IsDepth, Fields
  <1> HIDE DEF e
  <1>3. IsDepth(f) /\ f.changed /\ f.torn = d.torn
    BY DepthFlags
  <1>4. IsDepth(g) /\ g.changed = d.changed /\ g.torn
    BY DepthFlags
  <1>5. /\ [d EXCEPT !.side[buy] = s, !.changed = TRUE] = f
        /\ [d EXCEPT !.side[buy] = s, !.torn = TRUE] = g
    BY <1>1, <1>2
  <1> HIDE DEF f, g
  <1>6. IsDepth(h) /\ h.changed = g.changed /\ h.torn = g.torn
    BY <1>4, DepthFlags
  <1> HIDE DEF h
  <1>7. Counted(d, f) /\ Counted(d, h)
    BY <1>3, <1>4, <1>6 DEF Counted
  <1>8. Counted(d, e)
    BY <1>1, CountedSame
  <1> QED
    BY <1>5, <1>7, <1>8 DEF e, h

\* An exception changes no level, nor does catching it; what is behind a side
\* is no level.
LEMMA CountedThrow ==
    ASSUME NEW d, IsDepth(d)
    PROVE  Counted(d, Throw(d)) /\ Counted(d, Missing(d)) /\ Counted(d, [d EXCEPT !.threw = FALSE])
PROOF
  <1>1. ASSUME NEW f, IsDepth(f), f.changed = d.changed, f.torn = d.torn, f.side = d.side
        PROVE  Counted(d, f)
    BY <1>1 DEF Counted, Stays
  <1> QED
    BY <1>1, DepthFlags, Zenon

\* Depth::add_order.
LEMMA AddOrderCounted ==
    ASSUME NEW d, IsDepth(d), NEW buy, NEW price, NEW qty
    PROVE  Counted(d, AddOrder(d, buy, price, qty))
PROOF
  <1> DEFINE s == WithLevel(d.side[buy], buy, price)
             l == CHOOSE level \in Find(s, price) : TRUE
             m == [l EXCEPT !.count = @ + 1, !.qty = @ + qty]
             x == d.changed \/ ~l.excess
             t == Put(s, m)
             e == [d EXCEPT !.side[buy] = t]
             f == [d EXCEPT !.side[buy] = t, !.changed = TRUE]
  <1>1. AddOrder(d, buy, price, qty) = IF x THEN f ELSE e
    <2>1. AddOrder(d, buy, price, qty)
          = [d EXCEPT !.side[buy] = Put(s, [l EXCEPT !.count = @ + 1, !.qty = @ + qty]),
                      !.changed = @ \/ ~l.excess]
      BY DEF AddOrder
    <2> HIDE DEF l, s
    <2>2. d = Fields(d) /\ d.changed \in BOOLEAN
      BY DEF IsDepth
    <2> QED
      BY <2>1, <2>2 DEF Fields
  <1>3. CASE buy \notin BOOLEAN
    <2> HIDE DEF t, x
    <2>1. Counted(d, e) /\ Counted(d, f)
      BY <1>3, CountedNoSide
    <2> QED
      BY <1>1, <2>1
  <1>4. CASE buy \in BOOLEAN
    <2>1. IsSide(d.side[buy])
      BY <1>4 DEF IsDepth
    <2>2. /\ IsSide(s) /\ Find(s, price) # {}
          /\ s.slots = d.side[buy].slots \/ \A level \in Find(s, price) : ~level.excess
      BY <2>1, WithLevelFacts
    <2> HIDE DEF s
    <2>3. l \in Find(s, price)
      BY <2>2
    <2> HIDE DEF l
    <2>4. /\ l.price = price /\ IsLevel(l, l.excess) /\ l.excess \in BOOLEAN
          /\ l.excess => s.slots = d.side[buy].slots
      BY <2>2, <2>3, FindFacts
    <2>5. IsLevel(m, l.excess) /\ m.price = price
      <3> DEFINE c == l.count + 1
                 q == l.qty + qty
      <3>1. m = [l EXCEPT !.count = c, !.qty = q]
        BY <2>4 DEF IsLevel
      <3> HIDE DEF c, q, m
      <3> QED
        BY <2>4, <3>1, LevelCount
    <2> HIDE DEF m
    <2>6. IsSide(t) /\ (l.excess => Stays(s, t))
      BY <2>2, <2>3, <2>5, PutFacts
    <2> HIDE DEF t
    <2>7. CASE x
      <3>1. Counted(d, f)
        BY <1>4, <2>6, CountedChange
      <3> QED
        BY <1>1, <2>7, <3>1
    <2>8. CASE ~x
      <3>1. Stays(d.side[buy], t)
        BY <2>4, <2>6, <2>8 DEF Stays
      <3>2. Counted(d, e)
        BY <1>4, <2>6, <3>1, CountedSide
      <3> QED
        BY <1>1, <2>8, <3>2
    <2> QED
      BY <2>7, <2>8
  <1> QED
    BY <1>3, <1>4

\* Depth::change_qty_order is always counted.
LEMMA ReduceCounted ==
    ASSUME NEW d, IsDepth(d), NEW buy, NEW price, NEW qty
    PROVE  Counted(d, ReduceOrder(d, buy, price, qty))
PROOF
  <1> DEFINE s == d.side[buy]
             l == CHOOSE level \in Find(s, price) : TRUE
             m == [l EXCEPT !.qty = @ - qty]
             t == Put(s, m)
  <1>1. CASE Find(s, price) = {}
    BY <1>1, CountedThrow DEF ReduceOrder
  <1>2. CASE Find(s, price) # {}
    <2>1. ReduceOrder(d, buy, price, qty)
          = [d EXCEPT !.side[buy] = Put(@, [l EXCEPT !.qty = @ - qty]), !.changed = TRUE]
      BY <1>2 DEF ReduceOrder
    <2>2. l \in Find(s, price)
      BY <1>2
    <2> HIDE DEF l
    <2> DEFINE u == Put(d.side[buy], m)
               f == [d EXCEPT !.side[buy] = u, !.changed = TRUE]
    <2>3. CASE buy \notin BOOLEAN
      <3>1. d = Fields(d) /\ d.side = [b \in BOOLEAN |-> d.side[b]]
        BY DEF IsDepth
      <3>2. ReduceOrder(d, buy, price, qty) = f
        BY <2>1, <2>3, <3>1 DEF Fields
      <3> HIDE DEF u
      <3>3. Counted(d, f)
        BY <2>3, CountedNoSide
      <3> QED
        BY <3>2, <3>3
    <2>4. CASE buy \in BOOLEAN
      <3>1. IsSide(s)
        BY <2>4 DEF IsDepth
      <3>2. IsLevel(l, l.excess) /\ l.price = price
        BY <2>2, <3>1, FindFacts
      <3>3. IsLevel(m, l.excess) /\ m.price = price
        <4> DEFINE q == l.qty - qty
        <4>1. m = [l EXCEPT !.qty = q]
          OBVIOUS
        <4> HIDE DEF q, m
        <4> QED
          BY <3>2, <4>1, LevelQty
      <3>4. ReduceOrder(d, buy, price, qty) = f
        <4>1. d = Fields(d) /\ d.side = [b \in BOOLEAN |-> d.side[b]]
          BY DEF IsDepth
        <4> QED
          BY <2>1, <2>4, <4>1 DEF Fields
      <3> HIDE DEF m
      <3>5. IsSide(u)
        BY <2>2, <3>1, <3>3, PutFacts
      <3> HIDE DEF u
      <3>6. Counted(d, f)
        BY <2>4, <3>5, CountedChange
      <3> QED
        BY <3>4, <3>6
    <2> QED
      BY <2>3, <2>4
  <1> QED
    BY <1>1, <1>2

\* erase_level of a visible level: what moves to a slot becomes visible.
LEMMA EraseSlotFacts ==
    ASSUME NEW s, IsSide(s), NEW buy, NEW i \in 1..SIZE
    PROVE  IsSide(EraseSlot(s, buy, i))
PROOF
  <1> DEFINE best == {l \in s.more : \A other \in s.more : ~Better(buy, other.price, l.price)}
             c == CHOOSE l \in best : TRUE
             blank == i < SIZE /\ Blank(s.slots[SIZE])
             last == IF blank THEN s.slots[SIZE]
                     ELSE IF best = {} THEN Level(0, FALSE) ELSE Assign(s.slots[SIZE], c)
             slots == [j \in 1..SIZE |-> IF j < i THEN s.slots[j]
                                         ELSE IF j < SIZE THEN Assign(s.slots[j], s.slots[j + 1])
                                         ELSE last]
             more == IF blank THEN s.more ELSE s.more \ best
  <1>1. SIZE \in Nat \ {0} /\ SIZE \in 1..SIZE
    BY DepthAssumption
  <1>2. /\ \A j \in 1..SIZE : IsSlot(s.slots[j])
        /\ \A k \in s.more : IsLevel(k, TRUE)
        /\ IsSlot(s.slots[SIZE])
    BY <1>1 DEF IsSide
  <1>3. EraseSlot(s, buy, i) = [s EXCEPT !.slots = slots, !.more = more]
    BY DEF EraseSlot, IsSide
  <1>4. IsSlot(last)
    <2>1. IsSlot(Level(0, FALSE))
      BY NewLevel, SlotLevel
    <2>2. ASSUME best # {} PROVE IsSlot(Assign(s.slots[SIZE], c))
      <3>1. c \in best
        BY <2>2
      <3>2. c \in s.more
        BY <3>1
      <3> HIDE DEF c, best
      <3> QED
        BY <1>2, <3>2, SlotLevel, AssignSlot
    <2> HIDE DEF c, best, blank
    <2> QED
      BY <1>2, <2>1, <2>2
  <1> HIDE DEF last
  <1>5. ASSUME NEW j \in 1..SIZE PROVE IsSlot(slots[j])
    <2>1. slots[j] = IF j < i THEN s.slots[j]
                     ELSE IF j < SIZE THEN Assign(s.slots[j], s.slots[j + 1]) ELSE last
      OBVIOUS
    <2>2. ASSUME j < SIZE PROVE IsSlot(Assign(s.slots[j], s.slots[j + 1]))
      <3>1. j + 1 \in 1..SIZE
        BY <1>1, <2>2
      <3>2. IsSlot(s.slots[j]) /\ IsSlot(s.slots[j + 1])
        BY <1>2, <3>1
      <3> QED
        BY <3>2, AssignSlot
    <2> HIDE DEF slots
    <2> QED
      BY <1>2, <1>4, <2>1, <2>2
  <1>6. \A k \in more : IsLevel(k, TRUE)
    BY <1>2
  <1>7. slots = [j \in 1..SIZE |-> slots[j]]
    OBVIOUS
  <1> HIDE DEF slots, more
  <1>8. [s EXCEPT !.slots = slots, !.more = more]
            = [slots |-> slots, more |-> more, ignore |-> s.ignore]
    BY SideFields
  <1>9. IsSide([slots |-> slots, more |-> more, ignore |-> s.ignore])
    BY <1>5, <1>6, <1>7, MadeSide
  <1> QED
    BY <1>3, <1>8, <1>9

\* Depth::erase_level.
LEMMA EraseCounted ==
    ASSUME NEW d, IsDepth(d), NEW buy, NEW level,
           buy \in BOOLEAN => \/ level.excess = TRUE
                              \/ /\ level.excess = FALSE
                                 /\ \E i \in 1..SIZE : d.side[buy].slots[i].price = level.price
    PROVE  /\ Counted(d, Erase(d, buy, level))
           /\ buy \in BOOLEAN /\ level.excess = FALSE => Erase(d, buy, level).changed
PROOF
  <1> DEFINE s == d.side[buy]
             more == {l \in s.more : l.price # level.price}
             t == [s EXCEPT !.more = more]
             i == CHOOSE n \in 1..SIZE : s.slots[n].price = level.price
             u == EraseSlot(s, buy, i)
             e == [d EXCEPT !.side[buy] = t]
             f == [d EXCEPT !.side[buy] = u, !.changed = TRUE]
  <1>1. /\ d = Fields(d)
        /\ d.side = [b \in BOOLEAN |-> d.side[b]]
        /\ \A b \in BOOLEAN : IsSide(d.side[b])
    BY DEF IsDepth
  <1>2. [d EXCEPT !.side[buy].more = {l \in @ : l.price # level.price}] = e
    <2>1. [d.side EXCEPT ![buy].more = {l \in @ : l.price # level.price}] = [d.side EXCEPT ![buy] = t]
      <3>1. CASE buy \in BOOLEAN
        <4>1. s = [slots |-> s.slots, more |-> s.more, ignore |-> s.ignore]
          BY <1>1, <3>1 DEF IsSide
        <4>2. [s EXCEPT !.more = {l \in @ : l.price # level.price}] = t
          BY <4>1
        <4> HIDE DEF t
        <4> QED
          BY <1>1, <3>1, <4>2
      <3>2. CASE buy \notin BOOLEAN
        BY <1>1, <3>2
      <3> QED
        BY <3>1, <3>2
    <2> HIDE DEF t
    <2> QED
      BY <1>1, <2>1 DEF Fields
  <1>3. Erase(d, buy, level) = IF level.excess THEN e ELSE f
    BY <1>2, Zenon DEF Erase
  <1>4. CASE buy \notin BOOLEAN
    <2> HIDE DEF t, u
    <2>1. Counted(d, e) /\ Counted(d, f)
      BY <1>4, CountedNoSide
    <2> HIDE DEF e, f
    <2> QED
      BY <1>3, <1>4, <2>1
  <1>5. CASE buy \in BOOLEAN
    <2>1. IsSide(s)
      BY <1>1, <1>5
    <2>2. CASE level.excess = TRUE
      <3>1. \A l \in more : IsLevel(l, TRUE)
        BY <2>1 DEF IsSide
      <3>2. /\ s.slots = [j \in 1..SIZE |-> s.slots[j]]
            /\ \A j \in 1..SIZE : IsSlot(s.slots[j])
        BY <2>1 DEF IsSide
      <3> HIDE DEF more
      <3>3. t = [slots |-> s.slots, more |-> more, ignore |-> s.ignore]
        BY <2>1, SideFields
      <3>4. IsSide([slots |-> s.slots, more |-> more, ignore |-> s.ignore])
        BY <3>1, <3>2, MadeSide
      <3> HIDE DEF t
      <3>5. Stays(s, t)
        BY <3>3 DEF Stays
      <3>6. IsSide(t)
        BY <3>3, <3>4
      <3>7. Counted(d, e)
        BY <1>5, <3>5, <3>6, CountedSide
      <3> HIDE DEF e, f
      <3> QED
        BY <1>3, <2>2, <3>7
    <2>3. CASE level.excess = FALSE
      <3>1. i \in 1..SIZE
        BY <1>5, <2>3
      <3> HIDE DEF i, s
      <3>2. IsSide(u)
        BY <2>1, <3>1, EraseSlotFacts
      <3> HIDE DEF u
      <3>3. Counted(d, f) /\ f.changed
        BY <1>5, <3>2, CountedChange
      <3> HIDE DEF e, f
      <3> QED
        BY <1>3, <2>3, <3>3
    <2> QED
      BY <1>5, <2>2, <2>3
  <1> QED
    BY <1>4, <1>5

\* The quantity to ignore is not visible.
LEMMA IgnoreSet ==
    ASSUME NEW d, IsDepth(d), NEW buy, NEW x
    PROVE  Counted(d, [d EXCEPT !.side[buy].ignore = x])
PROOF
  <1> DEFINE s == d.side[buy]
             t == [s EXCEPT !.ignore = x]
             e == [d EXCEPT !.side[buy] = t]
  <1>1. /\ d = Fields(d)
        /\ d.side = [b \in BOOLEAN |-> d.side[b]]
        /\ \A b \in BOOLEAN : IsSide(d.side[b])
    BY DEF IsDepth
  <1>2. [d EXCEPT !.side[buy].ignore = x] = e
    BY <1>1 DEF Fields
  <1>3. CASE buy \notin BOOLEAN
    <2> HIDE DEF t
    <2>1. Counted(d, e)
      BY <1>3, CountedNoSide
    <2> QED
      BY <1>2, <2>1
  <1>4. CASE buy \in BOOLEAN
    <2>1. IsSide(s)
      BY <1>1, <1>4
    <2>2. t = [slots |-> s.slots, more |-> s.more, ignore |-> x]
      BY <2>1, SideFields
    <2>3. IsSide([slots |-> s.slots, more |-> s.more, ignore |-> x])
      BY <2>1, MadeSide DEF IsSide
    <2> HIDE DEF t
    <2>4. IsSide(t) /\ Stays(s, t)
      BY <2>2, <2>3 DEF Stays
    <2>5. Counted(d, e)
      BY <1>4, <2>4, CountedSide
    <2> QED
      BY <1>2, <2>5
  <1> QED
    BY <1>3, <1>4

LEMMA IgnoreCounted ==
    ASSUME NEW d, IsDepth(d), NEW buy, NEW qty
    PROVE  Counted(d, [d EXCEPT !.side[buy].ignore = @ - qty])
PROOF
  <1> DEFINE x == d.side[buy].ignore - qty
  <1>1. [d EXCEPT !.side[buy].ignore = @ - qty] = [d EXCEPT !.side[buy].ignore = x]
    OBVIOUS
  <1> HIDE DEF x
  <1>2. Counted(d, [d EXCEPT !.side[buy].ignore = x])
    BY IgnoreSet
  <1> QED
    BY <1>1, <1>2

\* Writing a level back puts it where its price was.
LEMMA PutPlace ==
    ASSUME NEW s, IsSide(s), NEW m, NEW i \in 1..SIZE, s.slots[i].price = m.price
    PROVE  Put(s, m).slots[i] = m
PROOF
  <1> DEFINE slots == [j \in 1..SIZE |-> IF s.slots[j].price = m.price THEN m ELSE s.slots[j]]
  <1>1. Put(s, m) = [s EXCEPT !.slots = slots]
    BY DEF Put
  <1>2. slots[i] = m
    OBVIOUS
  <1> HIDE DEF slots
  <1>3. Put(s, m) = [slots |-> slots, more |-> s.more, ignore |-> s.ignore]
    BY <1>1, SideFields
  <1> QED
    BY <1>2, <1>3

\* The side of a depth that a level is written back to.
LEMMA PutSide ==
    ASSUME NEW d, IsDepth(d), NEW buy, NEW m
    PROVE  LET e == [d EXCEPT !.side[buy] = Put(d.side[buy], m)]
               f == [d EXCEPT !.side[buy] = Put(d.side[buy], m), !.changed = TRUE]
               g == [d EXCEPT !.side[buy] = Put(d.side[buy], m), !.torn = TRUE]
           IN  /\ [d EXCEPT !.side[buy] = Put(@, m)] = e
               /\ [[d EXCEPT !.side[buy] = Put(@, m)] EXCEPT !.changed = TRUE] = f
               /\ [[d EXCEPT !.side[buy] = Put(@, m)] EXCEPT !.torn = TRUE] = g
PROOF
  <1> DEFINE u == Put(d.side[buy], m)
             e == [d EXCEPT !.side[buy] = u]
             f == [d EXCEPT !.side[buy] = u, !.changed = TRUE]
             g == [d EXCEPT !.side[buy] = u, !.torn = TRUE]
  <1>1. /\ d = Fields(d)
        /\ d.side = [b \in BOOLEAN |-> d.side[b]]
    BY DEF IsDepth
  <1>2. [d EXCEPT !.side[buy] = Put(@, m)] = e
    BY <1>1 DEF Fields
  <1>3. [e EXCEPT !.changed = TRUE] = f /\ [e EXCEPT !.torn = TRUE] = g
    BY <1>1 DEF Fields
  <1> HIDE DEF e, f, g
  <1> QED
    BY <1>2, <1>3 DEF e, f, g

\* Depth::close_order.
LEMMA CloseCounted ==
    ASSUME NEW d, IsDepth(d), NEW buy, NEW price, NEW qty
    PROVE  Counted(d, CloseOrder(d, buy, price, qty))
PROOF
  <1> DEFINE s == d.side[buy]
             l == CHOOSE level \in Find(s, price) : TRUE
             m(q) == [l EXCEPT !.count = @ - 1, !.qty = q]
             less(q) == [d EXCEPT !.side[buy] = Put(@, m(q))]
             u(q) == Put(s, m(q))
             e(q) == [d EXCEPT !.side[buy] = u(q)]
             f(q) == [d EXCEPT !.side[buy] = u(q), !.changed = TRUE]
             g(q) == [d EXCEPT !.side[buy] = u(q), !.torn = TRUE]
  <1>1. CASE Find(s, price) = {}
    BY <1>1, CountedThrow DEF CloseOrder
  <1>2. CASE Find(s, price) # {}
    <2>1. CloseOrder(d, buy, price, qty)
          = IF l.count = 0 THEN Throw(d)
            ELSE IF l.count = 1 THEN Erase(less(0), buy, l)
            ELSE IF l.qty \in 0..(qty - 1) THEN Throw([less(l.qty) EXCEPT !.torn = TRUE])
            ELSE [less(l.qty - qty) EXCEPT !.changed = TRUE]
      BY <1>2, Zenon DEF CloseOrder
    <2>2. l \in Find(s, price)
      BY <1>2
    <2> HIDE DEF l
    <2>3. /\ less(0) = e(0) /\ [less(l.qty - qty) EXCEPT !.changed = TRUE] = f(l.qty - qty)
          /\ [less(l.qty) EXCEPT !.torn = TRUE] = g(l.qty)
      BY PutSide
    <2>4. Counted(d, Throw(d))
      BY CountedThrow
    <2>5. ASSUME buy \notin BOOLEAN
          PROVE  /\ Counted(d, Erase(e(0), buy, l)) /\ Counted(d, f(l.qty - qty))
                 /\ Counted(d, Throw(g(l.qty)))
      <3> HIDE DEF u
      <3>1. Counted(d, e(0)) /\ Counted(d, f(l.qty - qty)) /\ Counted(d, Throw(g(l.qty)))
        BY <2>5, CountedNoSide
      <3> HIDE DEF e, f, g
      <3>2. IsDepth(e(0))
        BY <3>1 DEF Counted
      <3>3. Counted(e(0), Erase(e(0), buy, l))
        BY <2>5, <3>2, EraseCounted
      <3> QED
        BY <3>1, <3>3, CountedTwice
    <2>6. ASSUME buy \in BOOLEAN
          PROVE  /\ Counted(d, Erase(e(0), buy, l)) /\ Counted(d, f(l.qty - qty))
                 /\ Counted(d, Throw(g(l.qty)))
      <3>1. IsSide(s)
        BY <2>6 DEF IsDepth
      <3>2. /\ l.price = price /\ IsLevel(l, l.excess) /\ l.excess \in BOOLEAN
            /\ ~l.excess => \E i \in 1..SIZE : s.slots[i].price = price
        BY <2>2, <3>1, FindFacts
      <3>2a. IsLevel(l, l.excess)
        BY <3>2
      <3>2b. l.price = price
        BY <3>2
      <3>3. ASSUME NEW x PROVE IsLevel(m(x), l.excess) /\ m(x).price = price
        <4> DEFINE c == l.count - 1
                   n == [l EXCEPT !.count = c, !.qty = x]
        <4>1. m(x) = n
          OBVIOUS
        <4> HIDE DEF c, m
        <4>2. IsLevel(n, l.excess) /\ n.price = l.price
          BY <3>2a, LevelCount
        <4> QED
          BY <3>2b, <4>1, <4>2
      <3> HIDE DEF m
      <3>4. ASSUME NEW q PROVE IsSide(u(q)) /\ (l.excess => Stays(s, u(q)))
        BY <2>2, <3>1, <3>3, PutFacts
      <3>5. ~l.excess => \E i \in 1..SIZE : u(0).slots[i].price = price
        <4> SUFFICES ASSUME ~l.excess PROVE \E i \in 1..SIZE : u(0).slots[i].price = price
          OBVIOUS
        <4>1. PICK i \in 1..SIZE : s.slots[i].price = price
          BY <3>2
        <4>2. u(0).slots[i] = m(0)
          BY <3>1, <3>3, <4>1, PutPlace
        <4> QED
          BY <3>3, <4>2
      <3> HIDE DEF u
      <3>6. Counted(d, f(l.qty - qty)) /\ Counted(d, Throw(g(l.qty)))
        BY <2>6, <3>4, CountedChange
      <3>7. /\ IsDepth(e(0)) /\ e(0).side[buy] = u(0)
            /\ e(0).changed = d.changed /\ e(0).torn = d.torn
        BY <2>6, <3>4, DepthSide
      <3>8. l.excess => Counted(d, e(0))
        BY <2>6, <3>4, CountedSide
      <3> HIDE DEF e, f, g, s
      <3>9. /\ Counted(e(0), Erase(e(0), buy, l))
            /\ l.excess = FALSE => Erase(e(0), buy, l).changed
        BY <2>6, <3>2, <3>5, <3>7, EraseCounted
      <3>10. Counted(d, Erase(e(0), buy, l))
        <4>1. CASE l.excess
          BY <3>8, <3>9, <4>1, CountedTwice
        <4>2. CASE ~l.excess
          BY <3>2, <3>7, <3>9, <4>2 DEF Counted
        <4> QED
          BY <4>1, <4>2
      <3> QED
        BY <3>6, <3>10
    <2> HIDE DEF e, f, g, less
    <2> QED
      BY <2>1, <2>3, <2>4, <2>5, <2>6
  <1> QED
    BY <1>1, <1>2

\* Depth::fill_order.
LEMMA FillOrderCounted ==
    ASSUME NEW d, IsDepth(d), NEW buy, NEW price, NEW qty, NEW filled
    PROVE  Counted(d, FillOrder(d, buy, price, qty, filled))
PROOF
  <1>1. Counted(d, CloseOrder(d, buy, price, qty)) /\ Counted(d, ReduceOrder(d, buy, price, qty))
    BY CloseCounted, ReduceCounted
  <1>2. Counted(d, [d EXCEPT !.side[buy].ignore = @ - qty])
    BY IgnoreCounted
  <1> QED
    BY <1>1, <1>2 DEF FillOrder

\* The callbacks that DepthOrderBook overrides.
LEMMA OnAcceptCounted ==
    ASSUME NEW d, IsDepth(d), NEW o, NEW quantity
    PROVE  Counted(d, OnAccept(d, o, quantity))
PROOF
  <1>1. /\ Counted(d, d) /\ Counted(d, Throw(d))
        /\ Counted(d, AddOrder(d, o.buy, o.price, o.qty))
        /\ Counted(d, [d EXCEPT !.side[o.buy].ignore = quantity])
    BY CountedSame, CountedThrow, AddOrderCounted, IgnoreSet
  <1> QED
    BY <1>1, Zenon DEF OnAccept

LEMMA FillOneCounted ==
    ASSUME NEW d, IsDepth(d), NEW ord, NEW cb, NEW id
    PROVE  Counted(d, FillOne(d, ord, cb, id))
PROOF
  <1>1. Counted(d, FillOrder(d, ord[id].buy, ord[id].price, cb.quantity, id \in cb.filled))
    BY FillOrderCounted
  <1> QED
    BY <1>1, CountedSame, Zenon DEF FillOne

LEMMA OnFillCounted ==
    ASSUME NEW d, IsDepth(d), NEW ord, NEW cb
    PROVE  Counted(d, OnFill(d, ord, cb))
PROOF
  <1> DEFINE e == FillOne(d, ord, cb, cb.matched)
             f == FillOne(e, ord, cb, cb.order)
  <1>1. Counted(d, e)
    BY FillOneCounted
  <1> HIDE DEF e
  <1>2. Counted(e, f)
    BY <1>1, FillOneCounted DEF Counted
  <1> HIDE DEF f
  <1>3. Counted(d, f)
    BY <1>1, <1>2, CountedTwice
  <1> QED
    BY <1>3 DEF OnFill, e, f

LEMMA OnCallbackCounted ==
    ASSUME NEW d, IsDepth(d), NEW ord, NEW cb
    PROVE  Counted(d, OnCallback(d, ord, cb))
PROOF
  <1>1. Counted(d, d) /\ Counted(d, OnFill(d, ord, cb))
    BY CountedSame, OnFillCounted
  <1>2. Counted(d, OnAccept(d, ord[cb.order], cb.quantity))
    BY OnAcceptCounted
  <1>3. Counted(d, OnCancel(d, ord[cb.order], cb.quantity))
    BY CountedSame, CloseCounted, Zenon DEF OnCancel
  <1> DEFINE e == OnCallback(d, ord, cb)
  <1>4. e \in {d, OnAccept(d, ord[cb.order], cb.quantity), OnFill(d, ord, cb),
                OnCancel(d, ord[cb.order], cb.quantity)}
    BY DEF OnCallback
  <1> HIDE DEF e
  <1>5. Counted(d, e)
    BY <1>1, <1>2, <1>3, <1>4
  <1> QED
    BY <1>5 DEF e


\* What Tell does to the depth is counted.
LEMMA TellCounted ==
    ASSUME NEW t, IsDepth(t.depth), NEW call, NEW cb
    PROVE  Counted(t.depth, Tell(t, call, cb).depth)
PROOF
  <1> DEFINE d == OnCallback(t.depth, call.order, cb)
             e == [d EXCEPT !.threw = FALSE]
  <1>1. Tell(t, call, cb).depth = e
    BY DEF Tell
  <1>2. Counted(t.depth, d)
    BY OnCallbackCounted
  <1> HIDE DEF d
  <1>3. Counted(d, e)
    BY <1>2, CountedThrow DEF Counted
  <1> HIDE DEF e
  <1> QED
    BY <1>1, <1>2, <1>3, CountedTwice

\* What is told in a call, callback by callback.
LEMMA TellRun ==
    ASSUME NEW t, NEW call, Len(call.callbacks) \in Nat
    PROVE  \E r : /\ r[0] = [t EXCEPT !.heard = Created(@, call)]
                  /\ TellCall(t, call) = Publish(r[Len(call.callbacks)])
                  /\ \A i \in 1..Len(call.callbacks) : r[i] = Tell(r[i - 1], call, call.callbacks[i])
PROOF
  <1> DEFINE Step(e, i) == Tell(e, call, call.callbacks[i])
             d == [t EXCEPT !.heard = Created(@, call)]
             N == Len(call.callbacks)
             Run(k, g) == g = [i \in 0..k |-> IF i = 0 THEN d ELSE Step(g[i - 1], i)]
             K == {k \in Nat : \E g : Run(k, g)}
  <1>1. 0 \in K
    <2>1. Run(0, [i \in 0..0 |-> d])
      OBVIOUS
    <2> QED
      BY <2>1
  <1>2. ASSUME NEW k \in Nat, k \in K PROVE k + 1 \in K
    <2>1. PICK g : Run(k, g)
      BY <1>2
    <2> DEFINE h == [i \in 0..(k + 1) |-> IF i =< k THEN g[i] ELSE Step(g[k], k + 1)]
    <2> HIDE DEF Step, d
    <2>2. ASSUME NEW i \in 0..(k + 1)
          PROVE  h[i] = IF i = 0 THEN d ELSE Step(h[i - 1], i)
      <3>1. CASE i =< k
        <4>1. h[i] = g[i] /\ (i # 0 => h[i - 1] = g[i - 1])
          BY <3>1
        <4>2. g[i] = IF i = 0 THEN d ELSE Step(g[i - 1], i)
          BY <2>1, <3>1
        <4> QED
          BY <4>1, <4>2
      <3>2. CASE i = k + 1
        BY <3>2
      <3> QED
        BY <3>1, <3>2
    <2>3. Run(k + 1, h)
      BY <2>2
    <2> HIDE DEF h, Run
    <2>4. \E f : Run(k + 1, f)
      BY <2>3
    <2> QED
      BY <2>4
  <1>3. Nat \subseteq K
    <2> HIDE DEF K
    <2> QED
      BY <1>1, <1>2, SetInduction
  <1> DEFINE r == CHOOSE f : f = [i \in 0..N |-> IF i = 0 THEN d ELSE Step(f[i - 1], i)]
  <1>4. TellCall(t, call) = Publish(r[N])
    BY DEF TellCall
  <1> HIDE DEF Step, d
  <1>5. N \in Nat
    OBVIOUS
  <1> HIDE DEF N
  <1>6. r = [i \in 0..N |-> IF i = 0 THEN d ELSE Step(r[i - 1], i)]
    <2>1. PICK g : Run(N, g)
      BY <1>3, <1>5
    <2> QED
      BY <2>1
  <1> HIDE DEF r
  <1>7. r[0] = d /\ \A i \in 1..N : r[i] = Step(r[i - 1], i)
    BY <1>5, <1>6
  <1> QED
    BY <1>4, <1>7 DEF Step, N, d

\* A step has one call or two.
LEMMA TellAllOne ==
    ASSUME NEW t, NEW call
    PROVE  TellAll(t, <<call>>) = TellCall(t, call)
PROOF
  <1> DEFINE calls == <<call>>
             Run(f) == f = [i \in 0..1 |-> IF i = 0 THEN t ELSE TellCall(f[i - 1], calls[i])]
             r == CHOOSE f : Run(f)
             g == [i \in 0..1 |-> IF i = 0 THEN t ELSE TellCall(t, call)]
  <1>1. TellAll(t, calls) = r[1]
    BY DEF TellAll
  <1>2. calls[1] = call
    OBVIOUS
  <1> HIDE DEF calls
  <1>3. Run(g)
    BY <1>2
  <1>4. Run(r)
    BY <1>3
  <1> HIDE DEF r
  <1>5. r[0] = t /\ r[1] = TellCall(r[0], calls[1])
    BY <1>4
  <1> QED
    BY <1>1, <1>2, <1>5 DEF calls

LEMMA TellAllTwo ==
    ASSUME NEW t, NEW c1, NEW c2
    PROVE  TellAll(t, <<c1, c2>>) = TellCall(TellCall(t, c1), c2)
PROOF
  <1> DEFINE calls == <<c1, c2>>
             Run(f) == f = [i \in 0..2 |-> IF i = 0 THEN t ELSE TellCall(f[i - 1], calls[i])]
             r == CHOOSE f : Run(f)
             g == [i \in 0..2 |-> IF i = 0 THEN t
                                  ELSE IF i = 1 THEN TellCall(t, c1)
                                  ELSE TellCall(TellCall(t, c1), c2)]
  <1>1. TellAll(t, calls) = r[2]
    BY DEF TellAll
  <1>2. calls[1] = c1 /\ calls[2] = c2
    OBVIOUS
  <1> HIDE DEF calls
  <1>3. Run(g)
    BY <1>2
  <1>4. Run(r)
    BY <1>3
  <1> HIDE DEF r
  <1>5. r[0] = t /\ r[1] = TellCall(r[0], calls[1]) /\ r[2] = TellCall(r[1], calls[2])
    BY <1>4
  <1> QED
    BY <1>1, <1>2, <1>5 DEF calls

\* What a call tells, as a record.
Teller(t) ==
    t = [depth |-> t.depth, output |-> t.output, heard |-> t.heard, spoilt |-> t.spoilt,
         thrown |-> t.thrown]

\* The rows that were published are those of the depth.
Current(d, output) ==
    ~d.torn =>
        \A buy \in BOOLEAN, i \in 1..SIZE :
            ~d.side[buy].slots[i].excess => output[buy][i] = Visible(d)[buy][i]

Shows(t) == Teller(t) /\ IsDepth(t.depth) /\ Current(t.depth, t.output)

\* The end of a call publishes what changed.
LEMMA PublishShows ==
    ASSUME NEW t, Shows(t), NEW u, Teller(u), u.output = t.output, Counted(t.depth, u.depth)
    PROVE  Shows(Publish(u))
PROOF
  <1> DEFINE d == u.depth
             e == [d EXCEPT !.changed = FALSE, !.torn = FALSE]
  <1>1. /\ d = Fields(d) /\ IsDepth(d) /\ {d.changed, d.torn, d.threw, d.wild} \subseteq BOOLEAN
        /\ d.side = [buy \in BOOLEAN |-> d.side[buy]]
        /\ \A buy \in BOOLEAN : IsSide(d.side[buy])
    BY DEF Counted, IsDepth
  <1>2. CASE ~d.changed
    <2>1. Publish(u) = u
      BY <1>2 DEF Publish
    <2>2. ASSUME ~d.torn, NEW buy \in BOOLEAN, NEW i \in 1..SIZE, ~d.side[buy].slots[i].excess
          PROVE  u.output[buy][i] = Visible(d)[buy][i]
      <3>1. ~t.depth.torn /\ Stays(t.depth.side[buy], d.side[buy])
        BY <1>2, <2>2 DEF Counted
      <3>2. d.side[buy].slots[i] = t.depth.side[buy].slots[i]
        BY <2>2, <3>1 DEF Stays
      <3>3. t.output[buy][i] = Visible(t.depth)[buy][i]
        BY <2>2, <3>1, <3>2 DEF Shows, Current
      <3>4. Visible(d)[buy][i] = Visible(t.depth)[buy][i]
        BY <3>2 DEF Visible
      <3> QED
        BY <3>3, <3>4
    <2>3. Current(d, u.output)
      BY <2>2 DEF Current
    <2> HIDE DEF d
    <2> QED
      BY <1>1, <2>1, <2>3 DEF Shows, d
  <1>3. CASE d.changed
    <2> DEFINE rows == Visible(d)
               v == [depth |-> e, output |-> rows, heard |-> u.heard, spoilt |-> u.spoilt,
                     thrown |-> u.thrown]
    <2>1. e = [side |-> d.side, changed |-> FALSE, torn |-> FALSE, threw |-> d.threw, wild |-> d.wild]
      <3> DEFINE f == [d EXCEPT !.changed = FALSE]
      <3>1. e = [f EXCEPT !.torn = FALSE]
        OBVIOUS
      <3> HIDE DEF d, e
      <3>2. f = [side |-> d.side, changed |-> FALSE, torn |-> d.torn, threw |-> d.threw, wild |-> d.wild]
        BY <1>1, DepthFields, Zenon
      <3> HIDE DEF f
      <3>3. f = Fields(f)
        BY <3>2 DEF Fields
      <3>4. [f EXCEPT !.torn = FALSE]
                = [side |-> f.side, changed |-> f.changed, torn |-> FALSE, threw |-> f.threw, wild |-> f.wild]
        BY <3>3, DepthFields, Zenon
      <3>5. f.side = d.side /\ f.changed = FALSE /\ f.threw = d.threw /\ f.wild = d.wild
        BY <3>2
      <3> QED
        BY <3>1, <3>4, <3>5
    <2>2. Publish(u) = v
      <3>1. Publish(u) = [u EXCEPT !.output = rows, !.depth = e]
        BY <1>3 DEF Publish, Teller
      <3> HIDE DEF rows, e
      <3> QED
        BY <3>1 DEF Teller
    <2> HIDE DEF e
    <2>3. e.side = d.side /\ e.torn = FALSE /\ e = Fields(e)
          /\ {e.changed, e.torn, e.threw, e.wild} \subseteq BOOLEAN
      BY <1>1, <2>1 DEF Fields
    <2>4. IsDepth(e)
      BY <1>1, <2>3 DEF IsDepth
    <2>5. rows = Visible(e)
      BY <2>3 DEF Visible
    <2> HIDE DEF rows
    <2>6. Current(e, rows)
      BY <2>5 DEF Current
    <2>7. Teller(v) /\ v.depth = e /\ v.output = rows
      BY DEF Teller
    <2> HIDE DEF v
    <2> QED
      BY <2>2, <2>4, <2>6, <2>7 DEF Shows
  <1> QED
    BY <1>2, <1>3

\* The callbacks of a call, and the publication at its end.
LEMMA TellCallShows ==
    ASSUME NEW t, Shows(t), NEW call, Len(call.callbacks) \in Nat
    PROVE  Shows(TellCall(t, call))
PROOF
  <1> DEFINE N == Len(call.callbacks)
             d == t.depth
             out == t.output
  <1>1. PICK r : /\ r[0] = [t EXCEPT !.heard = Created(@, call)] /\ TellCall(t, call) = Publish(r[N])
                 /\ \A i \in 1..N : r[i] = Tell(r[i - 1], call, call.callbacks[i])
    BY TellRun
  <1>2. N \in Nat /\ IsDepth(d) /\ Teller(t)
    BY DEF Shows
  <1>2a. r[0].depth = d /\ r[0].output = out /\ Teller(r[0])
    BY <1>1, <1>2 DEF Teller
  <1>2b. ASSUME NEW x, NEW cb
         PROVE  Teller(Tell(x, call, cb)) /\ Tell(x, call, cb).output = x.output
    BY DEF Tell, Teller
  <1> HIDE DEF N, d, out
  <1> DEFINE M == {k \in Nat : k =< N => /\ Counted(d, r[k].depth)
                                         /\ Teller(r[k]) /\ r[k].output = out}
  <1>3. 0 \in M
    BY <1>2, <1>2a, CountedSame
  <1>4. ASSUME NEW k \in Nat, k \in M PROVE k + 1 \in M
    <2> SUFFICES ASSUME k + 1 =< N
                 PROVE  Counted(d, r[k + 1].depth) /\ Teller(r[k + 1]) /\ r[k + 1].output = out
      OBVIOUS
    <2>1. Counted(d, r[k].depth) /\ r[k].output = out /\ k + 1 \in 1..N /\ (k + 1) - 1 = k
      BY <1>2, <1>4
    <2>2. r[k + 1] = Tell(r[k], call, call.callbacks[k + 1])
      BY <1>1, <2>1
    <2>3. IsDepth(r[k].depth)
      BY <2>1 DEF Counted
    <2>4. Counted(r[k].depth, r[k + 1].depth)
      BY <2>2, <2>3, TellCounted
    <2>5. Teller(r[k + 1]) /\ r[k + 1].output = r[k].output
      BY <1>2b, <2>2
    <2> QED
      BY <2>1, <2>4, <2>5, CountedTwice
  <1>5. Nat \subseteq M
    <2> HIDE DEF M
    <2> QED
      BY <1>3, <1>4, SetInduction
  <1>6. Counted(d, r[N].depth) /\ Teller(r[N]) /\ r[N].output = out
    BY <1>2, <1>5
  <1>7. Shows(Publish(r[N]))
    BY <1>6, PublishShows DEF d, out
  <1> QED
    BY <1>1, <1>7

-----------------------------------------------------------------------------
(***************************************************************************)
(* What is published.                                                      *)
(***************************************************************************)

\* The depth looks on: each step of the depth book is one of the order book.
LEMMA DepthStep == [DepthNext]_depthVars => [Next]_vars
PROOF
  <1> SUFFICES ASSUME [DepthNext]_depthVars PROVE [Next]_vars
    OBVIOUS
  <1>1. ASSUME NEW id \in OrderId, NEW terms \in OrderType, Adding(id, terms, TrackCalls)
        PROVE  Add(id, terms)
    BY <1>1 DEF Add, Adding, Ignore
  <1>2. ASSUME NEW id \in OrderId, NEW terms \in OrderType, Replacing(id, terms, TrackCalls)
        PROVE  Replace(id, terms)
    BY <1>2 DEF Replace, Replacing, Ignore
  <1>3. ASSUME NEW id \in OrderId, Cancelling(id, TrackCalls) PROVE Cancel(id)
    BY <1>3 DEF Cancel, Cancelling, Ignore
  <1>4. CASE UNCHANGED depthVars
    BY <1>4 DEF depthVars
  <1>5. CASE DepthNext
    BY <1>1, <1>2, <1>3, <1>5, Zenon DEF DepthNext, Next
  <1> QED
    BY <1>4, <1>5

\* So the invariant of the order book is one of the depth book.
LEMMA DepthBook == DepthSpec => []IInv
PROOF
  <1>1. DepthInit => Init
    BY DEF DepthInit
  <1>2. DepthSpec => Spec
    BY <1>1, DepthStep, PTL DEF DepthSpec, Spec
  <1> QED
    BY <1>2, Invariance, PTL

\* What was published is what is visible.
Published == IsDepth(depth_) /\ Current(depth_, depthOutput)

\* The depth at first, whatever the flags of the fresh memory.
LEMMA PublishedInit ==
    ASSUME DepthInit
    PROVE  Published
PROOF
  <1> DEFINE empty(flag) == [i \in 1..SIZE |-> Level(0, flag[i])]
             side(flag) == [slots |-> empty(flag), more |-> {}, ignore |-> 0]
  <1>1. PICK flags \in [BOOLEAN -> [1..SIZE -> BOOLEAN]] :
            depth_ = Fresh([buy \in BOOLEAN |-> empty(flags[buy])])
    BY DEF DepthInit
  <1> DEFINE sides == [buy \in BOOLEAN |-> side(flags[buy])]
  <1>2. depth_ = [side |-> sides, changed |-> FALSE, torn |-> FALSE, threw |-> FALSE, wild |-> FALSE]
    BY <1>1 DEF Fresh
  <1>3. ASSUME NEW buy \in BOOLEAN PROVE IsSide(side(flags[buy]))
    <2> DEFINE slots == empty(flags[buy])
    <2>1. ASSUME NEW i \in 1..SIZE PROVE IsSlot(slots[i])
      <3> DEFINE flag == flags[buy][i]
      <3>1. slots[i] = Level(0, flag) /\ flag \in BOOLEAN
        OBVIOUS
      <3> HIDE DEF flag, slots
      <3>2. IsLevel(Level(0, flag), flag)
        BY NewLevel
      <3> QED
        BY <3>1, <3>2, SlotLevel
    <2>2. slots = [i \in 1..SIZE |-> slots[i]]
      OBVIOUS
    <2> HIDE DEF slots
    <2>3. IsSide([slots |-> slots, more |-> {}, ignore |-> 0])
      BY <2>1, <2>2, MadeSide
    <2> QED
      BY <2>3 DEF slots
  <1> HIDE DEF side
  <1>4. \A buy \in BOOLEAN : IsSide(sides[buy])
    BY <1>3
  <1>5. sides = [buy \in BOOLEAN |-> sides[buy]]
    OBVIOUS
  <1> HIDE DEF sides
  <1>6. IsDepth(depth_)
    BY <1>2, <1>4, <1>5 DEF IsDepth, Fields
  <1>7. Current(depth_, depthOutput)
    BY DEF DepthInit, Current
  <1> QED
    BY <1>6, <1>7 DEF Published

\* Tracking the calls of a step.
LEMMA TrackShows ==
    ASSUME NEW calls, Shows(TellAll(Tracked, calls)), TrackCalls(calls)
    PROVE  Published'
PROOF
  <1> DEFINE t == TellAll(Tracked, calls)
  <1>1. depth_' = t.depth /\ depthOutput' = t.output
    BY DEF TrackCalls
  <1>2. IsDepth(t.depth) /\ Current(t.depth, t.output)
    BY DEF Shows
  <1> HIDE DEF t
  <1> QED
    BY <1>1, <1>2 DEF Published, Current, Visible

LEMMA TrackStart ==
    ASSUME Published
    PROVE  Shows(Tracked)
PROOF
  <1>1. Teller(Tracked) /\ Tracked.depth = depth_ /\ Tracked.output = depthOutput
    BY DEF Tracked, Teller
  <1> QED
    BY <1>1 DEF Published, Shows

LEMMA TrackOne ==
    ASSUME Published, NEW ord, NEW cbs, Len(cbs) \in Nat, TrackCalls(<<Call(ord, cbs)>>)
    PROVE  Published'
PROOF
  <1> DEFINE call == Call(ord, cbs)
             t == Tracked
  <1>1. call.callbacks = cbs
    BY DEF Call
  <1>2. Shows(t)
    BY TrackStart
  <1>3. TrackCalls(<<call>>)
    OBVIOUS
  <1> HIDE DEF call, t
  <1>4. Shows(TellCall(t, call))
    BY <1>1, <1>2, TellCallShows
  <1>5. Shows(TellAll(t, <<call>>))
    BY <1>4, TellAllOne
  <1> QED
    BY <1>3, <1>5, TrackShows DEF t

LEMMA TrackTwo ==
    ASSUME Published, NEW ord1, NEW cbs1, Len(cbs1) \in Nat, NEW ord2, NEW cbs2, Len(cbs2) \in Nat,
           TrackCalls(<<Call(ord1, cbs1), Call(ord2, cbs2)>>)
    PROVE  Published'
PROOF
  <1> DEFINE c1 == Call(ord1, cbs1)
             c2 == Call(ord2, cbs2)
             t == Tracked
             u == TellCall(t, c1)
  <1>1. c1.callbacks = cbs1 /\ c2.callbacks = cbs2
    BY DEF Call
  <1>2. Shows(t)
    BY TrackStart
  <1>3. TrackCalls(<<c1, c2>>)
    OBVIOUS
  <1> HIDE DEF c1, c2, t
  <1>4. Shows(u)
    BY <1>1, <1>2, TellCallShows
  <1> HIDE DEF u
  <1>5. Shows(TellCall(u, c2))
    BY <1>1, <1>4, TellCallShows
  <1>6. Shows(TellAll(t, <<c1, c2>>))
    BY <1>5, TellAllTwo DEF u
  <1> QED
    BY <1>3, <1>6, TrackShows DEF t

\* The callbacks of a good book are a sequence.
LEMMA CallbackCount ==
    ASSUME NEW b, NEW r, NEW ord, StateGood(b, r, ord)
    PROVE  Len(b.callbacks) \in Nat
PROOF
  <1>1. b \in BookType
    BY DEF StateGood, SoundAll
  <1>2. b.callbacks \in Seq(Callback)
    BY <1>1 DEF BookType
  <1> QED
    BY <1>2

\* Every step of the depth book keeps it.
LEMMA PublishedStep == IInv /\ Published /\ [DepthNext]_depthVars => Published'
PROOF
  <1> SUFFICES ASSUME IInv, Published, [DepthNext]_depthVars PROVE Published'
    OBVIOUS
  <1>1. ASSUME NEW id \in OrderId, NEW terms \in OrderType, Adding(id, terms, TrackCalls)
        PROVE  Published'
    <2> DEFINE ord == With(order, id, terms)
               b == AddTo(Book, ord, id)
    <2>1. Add(id, terms) /\ ~undefined /\ id \notin orders_ /\ TrackCalls(<<Call(ord, b.callbacks)>>)
      BY <1>1 DEF Add, Adding, Ignore
    <2>2. StateGood(b, Deliver(With(report, id, Unreported), ord, b.callbacks), ord)
      BY <2>1, NewBook, NewOrder DEF NewGood, Rep
    <2>3. Len(b.callbacks) \in Nat
      BY <2>2, CallbackCount
    <2> HIDE DEF b, ord
    <2> QED
      BY <2>1, <2>3, TrackOne
  <1>2. ASSUME NEW id \in OrderId, Cancelling(id, TrackCalls) PROVE Published'
    <2> DEFINE ord == With(order, id, order[id])
               b == CancelIn(Book, id)
    <2>1. ~undefined /\ id \in orders_ /\ TrackCalls(<<Call(ord, b.callbacks)>>)
      BY <1>2 DEF Cancelling
    <2>2. StateGood(b, Deliver(With(report, id, report[id]), ord, b.callbacks), ord)
      BY <2>1, CancelFacts
    <2>3. Len(b.callbacks) \in Nat
      BY <2>2, CallbackCount
    <2> HIDE DEF b, ord
    <2> QED
      BY <2>1, <2>3, TrackOne
  <1>3. ASSUME NEW id \in OrderId, NEW terms \in OrderType, Replacing(id, terms, TrackCalls)
        PROVE  Published'
    <2> DEFINE ord == With(order, id, terms)
               c == CancelIn(Book, id)
               d == [c EXCEPT !.callbacks = << >>, !.expired = @ \ {id}]
               b == AddTo(d, ord, id)
    <2>1. ~undefined /\ id \in orders_ /\ TrackCalls(<<Call(order, c.callbacks), Call(ord, b.callbacks)>>)
      BY <1>3 DEF Replacing
    <2>2. /\ StateGood(c, Deliver(With(report, id, report[id]), With(order, id, order[id]),
                                  c.callbacks), With(order, id, order[id]))
          /\ Without(d, id)
      BY <2>1, CancelFacts
    <2>3. Len(c.callbacks) \in Nat
      BY <2>2, CallbackCount
    <2> HIDE DEF d
    <2>4. StateGood(b, Deliver(With(report, id, Unreported), ord, b.callbacks), ord)
      BY <2>2, NewOrder DEF NewGood, Rep
    <2>5. Len(b.callbacks) \in Nat
      BY <2>4, CallbackCount
    <2> HIDE DEF b, c, ord
    <2> QED
      BY <2>1, <2>3, <2>5, TrackTwo
  <1>4. CASE UNCHANGED trackVars
    BY <1>4 DEF Published, Current, Visible, trackVars
  <1>5. CASE UNCHANGED depthVars
    BY <1>4, <1>5 DEF depthVars
  <1>6. CASE DepthNext
    <2>1. PICK id \in OrderId :
              \/ \E terms \in OrderType :
                     \/ Adding(id, terms, TrackCalls) \/ Replacing(id, terms, TrackCalls)
              \/ Cancelling(id, TrackCalls)
              \/ UNCHANGED trackVars
      BY <1>6 DEF DepthNext
    <2> QED
      BY <1>1, <1>2, <1>3, <1>4, <2>1, Zenon
  <1> QED
    BY <1>5, <1>6

\* Whatever is submitted, the depth table shows the visible levels: no change
\* of one of them is left uncounted, whether an order is added, filled,
\* cancelled or replaced, whether a level is opened, closed, pushed out to
\* the map or taken back from it, also where the depth has parted from the
\* book and throws.  What is left out is what the code does not count: a slot
\* whose fresh memory says excess, and a level that a throw of close_order
\* left with one order less.
THEOREM PublishedCorrect == DepthSpec => []PublishedIsCurrent
PROOF
  <1>1. DepthInit => Published
    BY PublishedInit
  <1>2. Published => PublishedIsCurrent
    BY DEF Published, Current, PublishedIsCurrent
  <1>3. DepthSpec => []Published
    BY <1>1, DepthBook, PublishedStep, PTL DEF DepthSpec
  <1> QED
    BY <1>2, <1>3, PTL

=============================================================================
