--------------------------- MODULE OrderBookProofs ---------------------------
(***************************************************************************)
(* Proofs about OrderBook, for any order ids and any orders.               *)
(*                                                                         *)
(* A call is one step of the specification but a long computation: the     *)
(* proof has an invariant for the inside of a call (SoundBook, Exact and   *)
(* Kept for the trades, ScanGood and ScanExact for the matching loop),     *)
(* shown for each operator of OrderBook in the order in which the calls    *)
(* are put together, and one for the state between the calls (IInv).       *)
(* Loops are recursive functions, and induction over their index is        *)
(* SetInduction with the set of the indices up to which the claim holds.   *)
(*                                                                         *)
(* Priority is a relation between a book and a later one of the same call: *)
(* what is ahead on a side is served first (ServedOn for one match, Served *)
(* and Fair for a call), and between the calls the sides are sorted.       *)
(*                                                                         *)
(* That nothing is left to match needs sums of open quantities (Total) and *)
(* a claim about the matching loop: it ends when nothing of the order is   *)
(* left, or when it has seen all it could trade with (Reached, Finished).  *)
(* What that leaves for the order is Unserved, and Unmatched, the part of  *)
(* IInv that it maintains, is about the whole book.                        *)
(***************************************************************************)
EXTENDS OrderBook, SequenceTheorems, FiniteSetTheorems, WellFoundedInduction, TLAPS

-----------------------------------------------------------------------------
(***************************************************************************)
(* Induction over the natural numbers, for a set: the recursive functions  *)
(* of OrderBook are handled with it.                                       *)
(***************************************************************************)

\* A nonempty set of natural numbers has a least element.
LEMMA LeastElement ==
    ASSUME NEW S \in SUBSET Nat, S # {}
    PROVE  \E n \in S : \A k \in S : n =< k
PROOF
  <1>1. \E n \in S : \A k \in S : ~ (<<k, n>> \in OpToRel(<, Nat))
    BY NatLessThanWellFounded, WFMin
  <1>2. PICK n \in S : \A k \in S : ~ (k < n)
    BY <1>1 DEF OpToRel
  <1> QED
    BY <1>2

\* What holds of 0, and of n + 1 if it holds of n, holds of every n.
LEMMA SetInduction ==
    ASSUME NEW S, 0 \in S, \A n \in Nat : n \in S => n + 1 \in S
    PROVE  Nat \subseteq S
PROOF
  <1> SUFFICES ASSUME Nat \ S # {} PROVE FALSE
    OBVIOUS
  <1>1. PICK n \in Nat \ S : \A k \in Nat \ S : n =< k
    BY LeastElement
  <1>2. n # 0 /\ n - 1 \in Nat /\ n - 1 \notin Nat \ S
    BY <1>1
  <1> QED
    BY <1>2

-----------------------------------------------------------------------------
(***************************************************************************)
(* The sides of the book are sequences without repetition.                 *)
(***************************************************************************)

\* No entry is in the sequence twice.
Distinct(s) == \A i, j \in 1..Len(s) : s[i] = s[j] => i = j

\* The sequence has x somewhere ahead of y.
Ahead(s, x, y) == \E i, j \in 1..Len(s) : i < j /\ s[i] = x /\ s[j] = y

\* Removing an entry keeps the others, once each and in their order.
LEMMA RemoveFirstFacts ==
    ASSUME NEW E, NEW s \in Seq(E), Distinct(s), NEW e
    PROVE  /\ RemoveFirst(s, e) \in Seq(E)
           /\ Distinct(RemoveFirst(s, e))
           /\ ToSet(RemoveFirst(s, e)) = ToSet(s) \ {e}
           /\ e \notin ToSet(s) => RemoveFirst(s, e) = s
           /\ \A x, y : Ahead(RemoveFirst(s, e), x, y) => Ahead(s, x, y)
PROOF
  <1>1. CASE e \notin ToSet(s)
    <2>1. ~ \E i \in 1..Len(s) : s[i] = e
      BY <1>1 DEF ToSet
    <2>2. RemoveFirst(s, e) = s
      BY <2>1 DEF RemoveFirst
    <2>3. ToSet(s) = ToSet(s) \ {e}
      BY <1>1
    <2> QED
      BY <2>2, <2>3
  <1>2. CASE e \in ToSet(s)
    <2>1. PICK k \in 1..Len(s) : s[k] = e
      BY <1>2 DEF ToSet
    <2>2. {i \in 1..Len(s) : s[i] = e} = {k}
      BY <2>1 DEF Distinct
    <2>3. Min({k}) = k
      BY DEF Min
    <2>4. RemoveFirst(s, e) = RemoveAt(s, k)
      BY <2>1, <2>2, <2>3 DEF RemoveFirst, SelectInSeq
    <2> DEFINE t == RemoveAt(s, k)
    <2>5. /\ t \in Seq(E)
          /\ Len(t) = Len(s) - 1
          /\ \A i \in 1..Len(t) : t[i] = IF i < k THEN s[i] ELSE s[i + 1]
      <3> DEFINE a == SubSeq(s, 1, k - 1)
                 c == SubSeq(s, k + 1, Len(s))
      <3>1. /\ a \in Seq(E) /\ Len(a) = k - 1
            /\ \A i \in 1..(k - 1) : a[i] = s[i]
        OBVIOUS
      <3>2. /\ c \in Seq(E) /\ Len(c) = Len(s) - k
            /\ \A i \in 1..Len(c) : c[i] = s[k + i]
        OBVIOUS
      <3>3. t = a \o c
        BY DEF RemoveAt
      <3> HIDE DEF a, c, t
      <3>4. /\ t \in Seq(E) /\ Len(t) = (k - 1) + (Len(s) - k)
            /\ \A i \in 1..((k - 1) + (Len(s) - k)) :
                   t[i] = IF i =< k - 1 THEN a[i] ELSE c[i - (k - 1)]
        <4>1. /\ a \o c \in Seq(E) /\ Len(a \o c) = Len(a) + Len(c)
              /\ \A i \in 1..(Len(a) + Len(c)) :
                     (a \o c)[i] = IF i =< Len(a) THEN a[i] ELSE c[i - Len(a)]
          BY <3>1, <3>2, ConcatProperties
        <4> QED
          BY <3>1, <3>2, <3>3, <4>1
      <3>5. ASSUME NEW i \in 1..Len(t)
            PROVE  t[i] = IF i < k THEN s[i] ELSE s[i + 1]
        <4>1. CASE i < k
          BY <3>1, <3>4, <4>1
        <4>2. CASE i >= k
          <5>1. t[i] = c[i - (k - 1)] /\ i - (k - 1) \in 1..Len(c)
            BY <3>2, <3>4, <4>2
          <5>2. k + (i - (k - 1)) = i + 1
            OBVIOUS
          <5> QED
            BY <3>2, <4>2, <5>1, <5>2
        <4> QED
          BY <3>4, <4>1, <4>2
      <3> QED
        BY <3>4, <3>5
    <2> HIDE DEF t
    <2>6. Distinct(t)
      BY <2>1, <2>5 DEF Distinct
    <2>7. ASSUME NEW x \in ToSet(s) \ {e} PROVE x \in ToSet(t)
      <3>1. PICK i \in 1..Len(s) : s[i] = x /\ i # k
        BY <2>1, <2>7 DEF ToSet
      <3>2. CASE i < k
        BY <2>1, <2>5, <3>1, <3>2 DEF ToSet
      <3>3. CASE i > k
        <4>1. i - 1 \in 1..Len(t) /\ t[i - 1] = x
          BY <2>1, <2>5, <3>1, <3>3
        <4> QED
          BY <2>5, <4>1 DEF ToSet
      <3> QED
        BY <2>1, <3>1, <3>2, <3>3
    <2>8. ASSUME NEW x \in ToSet(t) PROVE x \in ToSet(s) \ {e}
      <3>1. PICK i \in 1..Len(t) : t[i] = x
        BY <2>5 DEF ToSet
      <3>2. PICK j \in 1..Len(s) : j # k /\ s[j] = x
        BY <2>1, <2>5, <3>1
      <3> QED
        BY <2>1, <3>2 DEF ToSet, Distinct
    <2>9. ASSUME NEW x, NEW y, Ahead(t, x, y) PROVE Ahead(s, x, y)
      <3>1. PICK i \in 1..Len(t), j \in 1..Len(t) : i < j /\ t[i] = x /\ t[j] = y
        BY <2>9 DEF Ahead
      <3> DEFINE From(n) == IF n < k THEN n ELSE n + 1
      <3>2. Len(s) \in Nat /\ Len(t) = Len(s) - 1
        BY <2>5
      <3>3. /\ From(i) \in 1..Len(s) /\ From(j) \in 1..Len(s) /\ From(i) < From(j)
            /\ s[From(i)] = x /\ s[From(j)] = y
        BY <2>1, <2>5, <3>1, <3>2
      <3> QED
        BY <3>3 DEF Ahead
    <2> QED
      BY <1>2, <2>4, <2>5, <2>6, <2>7, <2>8, <2>9 DEF t
  <1> QED
    BY <1>1, <1>2

\* Inserting a new entry adds it once, wherever it goes, and keeps the others
\* in their order.
LEMMA InsertAtFacts ==
    ASSUME NEW E, NEW s \in Seq(E), Distinct(s), NEW e \in E, e \notin ToSet(s),
           NEW k \in 1..(Len(s) + 1)
    PROVE  /\ InsertAt(s, k, e) \in Seq(E)
           /\ Distinct(InsertAt(s, k, e))
           /\ ToSet(InsertAt(s, k, e)) = ToSet(s) \union {e}
           /\ \A x, y : Ahead(InsertAt(s, k, e), x, y) /\ x # e /\ y # e => Ahead(s, x, y)
           /\ \A y : Ahead(InsertAt(s, k, e), e, y) => \E j \in k..Len(s) : y = s[j]
           /\ \A x : Ahead(InsertAt(s, k, e), x, e) => \E j \in 1..(k - 1) : x = s[j]
PROOF
  <1> DEFINE t == InsertAt(s, k, e)
  <1>1. /\ t \in Seq(E)
        /\ Len(t) = Len(s) + 1
        /\ \A i \in 1..Len(t) : t[i] = IF i < k THEN s[i] ELSE IF i = k THEN e ELSE s[i - 1]
    <2> DEFINE a == SubSeq(s, 1, k - 1)
               c == SubSeq(s, k, Len(s))
    <2>1. /\ a \in Seq(E) /\ Len(a) = k - 1
          /\ \A i \in 1..(k - 1) : a[i] = s[i]
      OBVIOUS
    <2>2. /\ c \in Seq(E) /\ Len(c) = Len(s) - k + 1
          /\ \A i \in 1..Len(c) : c[i] = s[k + i - 1]
      OBVIOUS
    <2>3. t = (a \o <<e>>) \o c
      BY DEF InsertAt
    <2> HIDE DEF a, c, t
    <2>4. /\ a \o <<e>> \in Seq(E) /\ Len(a \o <<e>>) = k
          /\ \A i \in 1..k : (a \o <<e>>)[i] = IF i < k THEN s[i] ELSE e
      BY <2>1
    <2>5. /\ t \in Seq(E) /\ Len(t) = k + (Len(s) - k + 1)
          /\ \A i \in 1..(k + (Len(s) - k + 1)) :
                 t[i] = IF i =< k THEN (a \o <<e>>)[i] ELSE c[i - k]
      BY <2>2, <2>3, <2>4, ConcatProperties
    <2>6. ASSUME NEW i \in 1..Len(t)
          PROVE  t[i] = IF i < k THEN s[i] ELSE IF i = k THEN e ELSE s[i - 1]
      <3>1. CASE i =< k
        BY <2>4, <2>5, <3>1
      <3>2. CASE i > k
        <4>1. t[i] = c[i - k] /\ i - k \in 1..Len(c)
          BY <2>2, <2>5, <3>2
        <4>2. k + (i - k) - 1 = i - 1
          OBVIOUS
        <4> QED
          BY <2>2, <3>2, <4>1, <4>2
      <3> QED
        BY <2>5, <3>1, <3>2
    <2> QED
      BY <2>5, <2>6
  <1> HIDE DEF t
  <1>2. \A i \in 1..Len(s) : s[i] # e
    BY DEF ToSet
  <1>3. Distinct(t)
    <2> SUFFICES ASSUME NEW i \in 1..Len(t), NEW j \in 1..Len(t), t[i] = t[j], i < j PROVE FALSE
      BY <1>1 DEF Distinct
    <2>1. CASE i < k /\ j < k
      BY <1>1, <2>1 DEF Distinct
    <2>2. CASE i < k /\ j = k
      BY <1>1, <1>2, <2>2
    <2>3. CASE i < k /\ j > k
      <3>1. t[i] = s[i] /\ t[j] = s[j - 1]
        BY <1>1, <2>3
      <3>2. i \in 1..Len(s) /\ j - 1 \in 1..Len(s)
        BY <1>1, <2>3
      <3>3. i = j - 1
        BY <3>1, <3>2 DEF Distinct
      <3> QED
        BY <2>3, <3>3
    <2>4. CASE i = k
      <3>1. t[i] = e /\ t[j] = s[j - 1] /\ j - 1 \in 1..Len(s)
        BY <1>1, <2>4
      <3> QED
        BY <1>2, <3>1
    <2>5. CASE i > k
      <3>1. t[i] = s[i - 1] /\ t[j] = s[j - 1]
        BY <1>1, <2>5
      <3>2. i - 1 \in 1..Len(s) /\ j - 1 \in 1..Len(s)
        BY <1>1, <2>5
      <3>3. i - 1 = j - 1
        BY <3>1, <3>2 DEF Distinct
      <3> QED
        BY <3>3
    <2> QED
      BY <1>1, <2>1, <2>2, <2>3, <2>4, <2>5
  <1>4. ASSUME NEW x \in ToSet(s) \union {e} PROVE x \in ToSet(t)
    <2>1. CASE x = e
      BY <1>1, <2>1 DEF ToSet
    <2>2. CASE x # e
      <3>1. PICK i \in 1..Len(s) : s[i] = x
        BY <1>4, <2>2 DEF ToSet
      <3>2. CASE i < k
        BY <1>1, <3>1, <3>2 DEF ToSet
      <3>3. CASE i >= k
        <4>1. i + 1 \in 1..Len(t) /\ t[i + 1] = x
          BY <1>1, <3>1, <3>3
        <4> QED
          BY <1>1, <4>1 DEF ToSet
      <3> QED
        BY <3>1, <3>2, <3>3
    <2> QED
      BY <2>1, <2>2
  <1>5. ASSUME NEW x \in ToSet(t) PROVE x \in ToSet(s) \union {e}
    <2>1. PICK i \in 1..Len(t) : t[i] = x
      BY <1>1, <1>5 DEF ToSet
    <2>2. x = e \/ \E j \in 1..Len(s) : x = s[j]
      BY <1>1, <2>1
    <2> QED
      BY <2>2 DEF ToSet
  <1>6. ASSUME NEW x, NEW y, Ahead(t, x, y), x # e, y # e PROVE Ahead(s, x, y)
    <2>1. PICK i \in 1..Len(t), j \in 1..Len(t) : i < j /\ t[i] = x /\ t[j] = y
      BY <1>6 DEF Ahead
    <2> DEFINE From(n) == IF n < k THEN n ELSE n - 1
    <2>2. i # k /\ j # k
      BY <1>1, <1>6, <2>1
    <2>3. /\ From(i) \in 1..Len(s) /\ From(j) \in 1..Len(s) /\ From(i) < From(j)
          /\ s[From(i)] = x /\ s[From(j)] = y
      BY <1>1, <2>1, <2>2
    <2> QED
      BY <2>3 DEF Ahead
  <1>7. ASSUME NEW x, NEW y, Ahead(t, x, y)
        PROVE  /\ x = e => \E j \in k..Len(s) : y = s[j]
               /\ y = e => \E j \in 1..(k - 1) : x = s[j]
    <2>1. PICK i \in 1..Len(t), j \in 1..Len(t) : i < j /\ t[i] = x /\ t[j] = y
      BY <1>7 DEF Ahead
    <2>2. \A n \in 1..Len(t) : t[n] = e => n = k
      <3>1. ASSUME NEW n \in 1..Len(t), t[n] = e PROVE n = k
        <4>1. n < k => n \in 1..Len(s) /\ t[n] = s[n]
          BY <1>1
        <4>2. n > k => n - 1 \in 1..Len(s) /\ t[n] = s[n - 1]
          BY <1>1
        <4> QED
          BY <1>2, <3>1, <4>1, <4>2
      <3> QED
        BY <3>1
    <2>3. ASSUME x = e PROVE \E n \in k..Len(s) : y = s[n]
      <3>1. i = k
        BY <2>1, <2>2, <2>3
      <3>2. j - 1 \in k..Len(s) /\ y = s[j - 1]
        BY <1>1, <2>1, <3>1
      <3> QED
        BY <3>2
    <2>4. ASSUME y = e PROVE \E n \in 1..(k - 1) : x = s[n]
      <3>1. j = k
        BY <2>1, <2>2, <2>4
      <3>2. i \in 1..(k - 1) /\ x = s[i]
        BY <1>1, <2>1, <3>1
      <3> QED
        BY <3>2
    <2> QED
      BY <2>3, <2>4
  <1> QED
    BY <1>1, <1>3, <1>4, <1>5, <1>6, <1>7 DEF t

\* Two sequences without repetition and without a common entry.
LEMMA DistinctCardinality ==
    ASSUME NEW E, NEW s \in Seq(E), NEW t \in Seq(E), Distinct(s), Distinct(t),
           ToSet(s) \intersect ToSet(t) = {}
    PROVE  Cardinality(ToSet(s) \union ToSet(t)) = Len(s) + Len(t)
PROOF
  <1>1. ASSUME NEW u \in Seq(E), Distinct(u)
        PROVE  IsFiniteSet(ToSet(u)) /\ Cardinality(ToSet(u)) = Len(u)
    <2> DEFINE f == [i \in 1..Len(u) |-> u[i]]
    <2>1. f \in Bijection(1..Len(u), ToSet(u))
      <3>1. f \in [1..Len(u) -> ToSet(u)]
        BY DEF ToSet
      <3>2. \A i, j \in 1..Len(u) : f[i] = f[j] => i = j
        BY <1>1 DEF Distinct
      <3>3. \A x \in ToSet(u) : \E i \in 1..Len(u) : f[i] = x
        BY DEF ToSet
      <3> QED
        BY <3>1, <3>2, <3>3 DEF Bijection, Injection, IsInjective, Surjection
    <2>2. Len(u) \in Nat
      OBVIOUS
    <2>3. ExistsBijection(1..Len(u), ToSet(u))
      BY <2>1 DEF ExistsBijection
    <2> QED
      BY <2>2, <2>3, FS_NatBijection, FS_CountingElements, FS_CardinalityType
  <1>2. /\ IsFiniteSet(ToSet(s)) /\ Cardinality(ToSet(s)) = Len(s)
        /\ IsFiniteSet(ToSet(t)) /\ Cardinality(ToSet(t)) = Len(t)
    BY <1>1
  <1>3. Cardinality({}) = 0
    BY FS_EmptySet
  <1>4. Len(s) \in Nat /\ Len(t) \in Nat
    OBVIOUS
  <1>5. Cardinality(ToSet(s) \union ToSet(t))
        = Cardinality(ToSet(s)) + Cardinality(ToSet(t)) - Cardinality(ToSet(s) \intersect ToSet(t))
    BY <1>2, FS_Union
  <1>6. Cardinality(ToSet(s) \intersect ToSet(t)) = 0
    BY <1>3
  <1> QED
    BY <1>2, <1>4, <1>5, <1>6

-----------------------------------------------------------------------------
(***************************************************************************)
(* The data: books, callbacks, Order objects and what is reported of them. *)
(***************************************************************************)

\* What the listener has written to an Order object.
Report == [state : {"Submitted", "Accepted", "PartialFilled"} \union Terminal,
           onMarket : Int, filled : Nat, cost : Nat]

\* The callbacks that a call queues for the listener.
Callback ==
    [type : {"accept", "cancel", "timeout"}, order : OrderId, quantity : Int]
    \union [type : {"reject"}, order : OrderId]
    \union [type : {"fill"}, order : OrderId, matched : OrderId, quantity : Nat,
            price : Nat, filled : SUBSET OrderId]

\* The book that a call works on.
BookType ==
    [orders : SUBSET OrderId, bids : Seq(OrderId), asks : Seq(OrderId),
     open : [OrderId -> Nat], price : Nat, expired : SUBSET OrderId,
     callbacks : Seq(Callback), undefined : BOOLEAN]

\* The Order objects of a call.
Objects(ord) == DOMAIN ord \subseteq OrderId /\ ord \in [DOMAIN ord -> OrderType]

\* A report for each Order object.
Reports(ord) == [DOMAIN ord -> Report]

\* What an Order object of the call says has its type.
LEMMA ObjectTerms ==
    ASSUME NEW ord, Objects(ord), NEW x \in DOMAIN ord
    PROVE  /\ x \in OrderId /\ ord[x] \in OrderType
           /\ ord[x].buy \in BOOLEAN /\ ord[x].aon \in BOOLEAN /\ ord[x].ioc \in BOOLEAN
           /\ ord[x].qty \in Nat /\ ord[x].price \in Nat
  BY TypeAssumption DEF Objects, Terms

\* What the sides of c hold they hold in the order of b.
SameOrder(b, c) ==
    \A x, y : /\ Ahead(c.bids, x, y) => Ahead(b.bids, x, y)
              /\ Ahead(c.asks, x, y) => Ahead(b.asks, x, y)

\* Erasing an entry touches the two sides only.
LEMMA EraseFacts ==
    ASSUME NEW b \in BookType, Distinct(b.bids), Distinct(b.asks), NEW x
    PROVE  LET c == EraseEntry(b, x)
           IN  /\ c \in BookType
               /\ Distinct(c.bids) /\ Distinct(c.asks)
               /\ ToSet(c.bids) = ToSet(b.bids) \ {x}
               /\ ToSet(c.asks) = ToSet(b.asks) \ {x}
               /\ x \notin ToSet(b.bids) => c.bids = b.bids
               /\ x \notin ToSet(b.asks) => c.asks = b.asks
               /\ c.orders = b.orders /\ c.open = b.open /\ c.expired = b.expired
               /\ c.callbacks = b.callbacks /\ c.undefined = b.undefined
               /\ SameOrder(b, c)
PROOF
  <1>1. b.bids \in Seq(OrderId) /\ b.asks \in Seq(OrderId)
    BY DEF BookType
  <1>2. /\ RemoveFirst(b.bids, x) \in Seq(OrderId)
        /\ Distinct(RemoveFirst(b.bids, x))
        /\ ToSet(RemoveFirst(b.bids, x)) = ToSet(b.bids) \ {x}
        /\ x \notin ToSet(b.bids) => RemoveFirst(b.bids, x) = b.bids
        /\ \A y, z : Ahead(RemoveFirst(b.bids, x), y, z) => Ahead(b.bids, y, z)
    BY <1>1, RemoveFirstFacts
  <1>3. /\ RemoveFirst(b.asks, x) \in Seq(OrderId)
        /\ Distinct(RemoveFirst(b.asks, x))
        /\ ToSet(RemoveFirst(b.asks, x)) = ToSet(b.asks) \ {x}
        /\ x \notin ToSet(b.asks) => RemoveFirst(b.asks, x) = b.asks
        /\ \A y, z : Ahead(RemoveFirst(b.asks, x), y, z) => Ahead(b.asks, y, z)
    BY <1>1, RemoveFirstFacts
  <1> DEFINE c == EraseEntry(b, x)
  <1>4. /\ c \in BookType
        /\ c.bids = RemoveFirst(b.bids, x) /\ c.asks = RemoveFirst(b.asks, x)
        /\ c.orders = b.orders /\ c.open = b.open /\ c.expired = b.expired
        /\ c.callbacks = b.callbacks /\ c.undefined = b.undefined
    BY <1>2, <1>3 DEF EraseEntry, BookType
  <1> HIDE DEF c
  <1>5. SameOrder(b, c)
    BY <1>2, <1>3, <1>4 DEF SameOrder
  <1> QED
    BY <1>2, <1>3, <1>4, <1>5 DEF c

\* The upper bound is the first place that x would be before, or the one
\* behind the side.
LEMMA UpperBoundFacts ==
    ASSUME NEW side \in Seq(OrderId), NEW ord, NEW x
    PROVE  LET p == UpperBound(side, ord, x)
           IN  /\ p \in 1..(Len(side) + 1)
               /\ p =< Len(side) => Before(ord[x].buy, ord[x].price, ord[side[p]].price)
               /\ \A i \in 1..(p - 1) : ~Before(ord[x].buy, ord[x].price, ord[side[i]].price)
PROOF
  <1> DEFINE S == {Len(side) + 1} \union {i \in DOMAIN side :
                      Before(ord[x].buy, ord[x].price, ord[side[i]].price)}
  <1>1. S \subseteq 1..(Len(side) + 1) /\ S # {} /\ S \in SUBSET Nat
    OBVIOUS
  <1>2. UpperBound(side, ord, x) = Min(S)
    BY DEF UpperBound
  <1> HIDE DEF S
  <1>3. \E n \in S : \A k \in S : n =< k
    BY <1>1, LeastElement
  <1>4. Min(S) \in S /\ \A k \in S : Min(S) =< k
    BY <1>3 DEF Min
  <1> DEFINE p == UpperBound(side, ord, x)
  <1>5. p \in S /\ p \in 1..(Len(side) + 1) /\ \A k \in S : p =< k
    BY <1>1, <1>2, <1>4
  <1> HIDE DEF p
  <1>6. p =< Len(side) => Before(ord[x].buy, ord[x].price, ord[side[p]].price)
    BY <1>5 DEF S
  <1>7. ASSUME NEW i \in 1..(p - 1) PROVE ~Before(ord[x].buy, ord[x].price, ord[side[i]].price)
    <2>1. i \in DOMAIN side /\ ~(p =< i)
      BY <1>5
    <2> QED
      BY <1>5, <2>1 DEF S
  <1> QED
    BY <1>5, <1>6, <1>7 DEF p

\* No side of c has two orders other than x in an order that b does not have.
OthersInOrder(b, c, x) ==
    \A y, z : y # x /\ z # x =>
        /\ Ahead(c.bids, y, z) => Ahead(b.bids, y, z)
        /\ Ahead(c.asks, y, z) => Ahead(b.asks, y, z)

\* c is b with the entry of x on its side.
Inserted(b, c, ord, x) ==
    /\ c \in BookType
    /\ Distinct(c.bids) /\ Distinct(c.asks)
    /\ ToSet(c.bids) = IF ord[x].buy THEN ToSet(b.bids) \union {x} ELSE ToSet(b.bids)
    /\ ToSet(c.asks) = IF ord[x].buy THEN ToSet(b.asks) ELSE ToSet(b.asks) \union {x}
    /\ ord[x].buy => c.asks = b.asks
    /\ ~ord[x].buy => c.bids = b.bids
    /\ OthersInOrder(b, c, x)
    /\ c.orders = b.orders /\ c.open = b.open /\ c.expired = b.expired
    /\ c.callbacks = b.callbacks /\ c.undefined = b.undefined

\* Inserting an entry adds it to its side and touches nothing else.
LEMMA InsertFacts ==
    ASSUME NEW b \in BookType, Distinct(b.bids), Distinct(b.asks),
           NEW ord, NEW x \in OrderId, ~Rests(b, x)
    PROVE  Inserted(b, Insert(b, ord, x), ord, x)
PROOF
  <1>1. b.bids \in Seq(OrderId) /\ b.asks \in Seq(OrderId)
    BY DEF BookType
  <1>2. x \notin ToSet(b.bids) /\ x \notin ToSet(b.asks)
    BY DEF Rests
  <1> DEFINE p == UpperBound(b.bids, ord, x)
             q == UpperBound(b.asks, ord, x)
             s == InsertAt(b.bids, p, x)
             t == InsertAt(b.asks, q, x)
             c == Insert(b, ord, x)
  <1>3. p \in 1..(Len(b.bids) + 1) /\ q \in 1..(Len(b.asks) + 1)
    BY <1>1, UpperBoundFacts
  <1> HIDE DEF p, q
  <1>4. /\ s \in Seq(OrderId) /\ Distinct(s) /\ ToSet(s) = ToSet(b.bids) \union {x}
        /\ \A y, z : Ahead(s, y, z) /\ y # x /\ z # x => Ahead(b.bids, y, z)
    BY <1>1, <1>2, <1>3, InsertAtFacts
  <1>5. /\ t \in Seq(OrderId) /\ Distinct(t) /\ ToSet(t) = ToSet(b.asks) \union {x}
        /\ \A y, z : Ahead(t, y, z) /\ y # x /\ z # x => Ahead(b.asks, y, z)
    BY <1>1, <1>2, <1>3, InsertAtFacts
  <1> HIDE DEF s, t
  <1>6. CASE ord[x].buy
    <2>1. c = [b EXCEPT !.bids = s]
      BY <1>6 DEF Insert, s, p
    <2>2. /\ c \in BookType /\ c.bids = s /\ c.asks = b.asks
          /\ c.orders = b.orders /\ c.open = b.open /\ c.expired = b.expired
          /\ c.callbacks = b.callbacks /\ c.undefined = b.undefined
      BY <2>1, <1>4 DEF BookType
    <2> HIDE DEF c
    <2> QED
      BY <1>4, <1>6, <2>2 DEF c, Inserted, OthersInOrder
  <1>7. CASE ~ord[x].buy
    <2>1. c = [b EXCEPT !.asks = t]
      BY <1>7 DEF Insert, t, q
    <2>2. /\ c \in BookType /\ c.asks = t /\ c.bids = b.bids
          /\ c.orders = b.orders /\ c.open = b.open /\ c.expired = b.expired
          /\ c.callbacks = b.callbacks /\ c.undefined = b.undefined
      BY <2>1, <1>5 DEF BookType
    <2> HIDE DEF c
    <2> QED
      BY <1>5, <1>7, <2>2 DEF c, Inserted, OthersInOrder
  <1> QED
    BY <1>6, <1>7

-----------------------------------------------------------------------------
(***************************************************************************)
(* What the listener writes for the callbacks of a call.                   *)
(***************************************************************************)

\* callback_now writes the callbacks one after the other.
LEMMA DeliverRun ==
    ASSUME NEW R, NEW ord, NEW cbs \in Seq(Callback)
    PROVE  \E r : /\ r[0] = R
                  /\ \A i \in 1..Len(cbs) : r[i] = Write(r[i - 1], ord, cbs[i])
                  /\ Deliver(R, ord, cbs) = r[Len(cbs)]
PROOF
  <1> DEFINE Run(k, g) == g = [i \in 0..k |-> IF i = 0 THEN R ELSE Write(g[i - 1], ord, cbs[i])]
             K == {k \in Nat : \E g : Run(k, g)}
  <1>1. 0 \in K
    <2>1. Run(0, [i \in 0..0 |-> R])
      OBVIOUS
    <2> QED
      BY <2>1
  <1>2. ASSUME NEW k \in Nat, k \in K PROVE k + 1 \in K
    <2>1. PICK g : Run(k, g)
      BY <1>2
    <2> DEFINE h == [i \in 0..(k + 1) |-> IF i =< k THEN g[i] ELSE Write(g[k], ord, cbs[k + 1])]
    <2>2. ASSUME NEW i \in 0..(k + 1)
          PROVE  h[i] = IF i = 0 THEN R ELSE Write(h[i - 1], ord, cbs[i])
      <3>1. CASE i =< k
        <4>1. h[i] = g[i] /\ (i # 0 => h[i - 1] = g[i - 1])
          BY <3>1
        <4>2. g[i] = IF i = 0 THEN R ELSE Write(g[i - 1], ord, cbs[i])
          BY <2>1, <3>1
        <4> QED
          BY <4>1, <4>2
      <3>2. CASE i = k + 1
        BY <3>2
      <3> QED
        BY <3>1, <3>2
    <2>3. Run(k + 1, h)
      BY <2>2
    <2> HIDE DEF h, Run
    <2>4. \E f : Run(k + 1, f)
      BY <2>3
    <2> QED
      BY <2>4
  <1>3. Nat \subseteq K
    <2> HIDE DEF K
    <2> QED
      BY <1>1, <1>2, SetInduction
  <1>4. PICK g : Run(Len(cbs), g)
    <2>1. Len(cbs) \in Nat
      OBVIOUS
    <2> QED
      BY <1>3, <2>1
  <1> DEFINE r == CHOOSE f : f = [i \in 0..Len(cbs) |-> IF i = 0 THEN R ELSE Write(f[i - 1], ord, cbs[i])]
  <1>5. r = [i \in 0..Len(cbs) |-> IF i = 0 THEN R ELSE Write(r[i - 1], ord, cbs[i])]
    BY <1>4
  <1>6. Deliver(R, ord, cbs) = r[Len(cbs)]
    BY DEF Deliver
  <1> HIDE DEF r
  <1>7. Len(cbs) \in Nat
    OBVIOUS
  <1>8. r[0] = R /\ \A i \in 1..Len(cbs) : r[i] = Write(r[i - 1], ord, cbs[i])
    BY <1>5, <1>7
  <1> QED
    BY <1>6, <1>8

\* One more callback is one more write.
LEMMA DeliverAppend ==
    ASSUME NEW R, NEW ord, NEW cbs \in Seq(Callback), NEW cb \in Callback
    PROVE  Deliver(R, ord, Append(cbs, cb)) = Write(Deliver(R, ord, cbs), ord, cb)
PROOF
  <1> DEFINE n == Len(cbs)
             s == Append(cbs, cb)
  <1>1. n \in Nat /\ s \in Seq(Callback) /\ Len(s) = n + 1 /\ s[n + 1] = cb
        /\ \A i \in 1..n : s[i] = cbs[i]
    OBVIOUS
  <1> HIDE DEF s
  <1>2. PICK p : /\ p[0] = R
                 /\ \A i \in 1..n : p[i] = Write(p[i - 1], ord, cbs[i])
                 /\ Deliver(R, ord, cbs) = p[n]
    BY DeliverRun
  <1>3. PICK q : /\ q[0] = R
                 /\ \A i \in 1..Len(s) : q[i] = Write(q[i - 1], ord, s[i])
                 /\ Deliver(R, ord, s) = q[Len(s)]
    <2>1. s \in Seq(Callback)
      BY <1>1
    <2> QED
      BY <2>1, DeliverRun
  <1> HIDE DEF n
  <1> DEFINE K == {k \in Nat : k =< n => p[k] = q[k]}
  <1>4. 0 \in K
    BY <1>1, <1>2, <1>3
  <1>5. ASSUME NEW k \in Nat, k \in K PROVE k + 1 \in K
    <2> SUFFICES ASSUME k + 1 =< n PROVE p[k + 1] = q[k + 1]
      OBVIOUS
    <2>1. p[k] = q[k] /\ cbs[k + 1] = s[k + 1]
      BY <1>1, <1>5
    <2>2. p[k + 1] = Write(p[k], ord, cbs[k + 1])
      BY <1>1, <1>2
    <2>3. q[k + 1] = Write(q[k], ord, s[k + 1])
      BY <1>1, <1>3
    <2> QED
      BY <2>1, <2>2, <2>3
  <1>6. Nat \subseteq K
    <2> HIDE DEF K
    <2> QED
      BY <1>4, <1>5, SetInduction
  <1>7. p[n] = q[n]
    BY <1>1, <1>6
  <1>8. q[n + 1] = Write(q[n], ord, s[n + 1])
    BY <1>1, <1>3
  <1> QED
    BY <1>1, <1>2, <1>3, <1>7, <1>8 DEF s

\* A callback put in front is written first.
LEMMA DeliverPrepend ==
    ASSUME NEW R, NEW ord, NEW cbs \in Seq(Callback), NEW cb \in Callback
    PROVE  Deliver(R, ord, <<cb>> \o cbs) = Deliver(Write(R, ord, cb), ord, cbs)
PROOF
  <1> DEFINE n == Len(cbs)
             s == <<cb>> \o cbs
             R1 == Write(R, ord, cb)
  <1>1. n \in Nat /\ s \in Seq(Callback) /\ Len(s) = n + 1 /\ s[1] = cb
        /\ \A i \in 1..n : s[i + 1] = cbs[i]
    OBVIOUS
  <1> HIDE DEF s, R1
  <1>2. PICK p : /\ p[0] = R1
                 /\ \A i \in 1..n : p[i] = Write(p[i - 1], ord, cbs[i])
                 /\ Deliver(R1, ord, cbs) = p[n]
    BY DeliverRun
  <1>3. PICK q : /\ q[0] = R
                 /\ \A i \in 1..Len(s) : q[i] = Write(q[i - 1], ord, s[i])
                 /\ Deliver(R, ord, s) = q[Len(s)]
    <2>1. s \in Seq(Callback)
      BY <1>1
    <2> QED
      BY <2>1, DeliverRun
  <1> HIDE DEF n
  <1> DEFINE K == {k \in Nat : k =< n => p[k] = q[k + 1]}
  <1>4. 0 \in K
    <2>1. q[0] = R /\ q[1] = Write(q[0], ord, s[1])
      BY <1>1, <1>3
    <2>2. p[0] = R1
      BY <1>1, <1>2
    <2> QED
      BY <1>1, <2>1, <2>2 DEF R1
  <1>5. ASSUME NEW k \in Nat, k \in K PROVE k + 1 \in K
    <2> SUFFICES ASSUME k + 1 =< n PROVE p[k + 1] = q[k + 2]
      OBVIOUS
    <2>1. p[k] = q[k + 1] /\ cbs[k + 1] = s[k + 2]
      BY <1>1, <1>5
    <2>2. p[k + 1] = Write(p[k], ord, cbs[k + 1])
      BY <1>1, <1>2
    <2>3. q[k + 2] = Write(q[k + 1], ord, s[k + 2])
      BY <1>1, <1>3
    <2> QED
      BY <2>1, <2>2, <2>3
  <1>6. Nat \subseteq K
    <2> HIDE DEF K
    <2> QED
      BY <1>4, <1>5, SetInduction
  <1>7. p[n] = q[n + 1]
    BY <1>1, <1>6
  <1> QED
    BY <1>1, <1>2, <1>3, <1>7 DEF s, R1

\* Nothing is written for no callbacks.
LEMMA DeliverNothing ==
    ASSUME NEW R, NEW ord
    PROVE  Deliver(R, ord, << >>) = R
PROOF
  <1> DEFINE s == << >>
  <1>1. s \in Seq(Callback) /\ Len(s) = 0
    OBVIOUS
  <1> HIDE DEF s
  <1>2. PICK r : /\ r[0] = R
                 /\ \A i \in 1..Len(s) : r[i] = Write(r[i - 1], ord, s[i])
                 /\ Deliver(R, ord, s) = r[Len(s)]
    <2>1. s \in Seq(Callback)
      BY <1>1
    <2> QED
      BY <2>1, DeliverRun
  <1> QED
    BY <1>1, <1>2 DEF s

-----------------------------------------------------------------------------
(***************************************************************************)
(* The inductive invariant, inside a call: the order `in' is being         *)
(* matched, R is what was reported before the call, accept included.       *)
(***************************************************************************)

\* What is reported once the callbacks queued in b are delivered, from R on.
Rep(R, ord, b) == Deliver(R, ord, b.callbacks)

\* The side of in.
Own(b, ord, in) == IF ord[in].buy THEN b.bids ELSE b.asks

\* What was paid for what was filled, against the limit.
WithinLimit(terms, r) ==
    terms.price # Market =>
        IF terms.buy THEN r.cost =< r.filled * terms.price ELSE r.cost >= r.filled * terms.price

\* A book in the middle of a match of the order in: of the others, what rests
\* is registered and open.  (in itself rests only in a retry.)
SoundBook(b, ord, in) ==
    /\ b \in BookType
    /\ b.orders \subseteq DOMAIN ord
    /\ Distinct(b.bids) /\ Distinct(b.asks)
    /\ \A x \in ToSet(b.bids) : x \in DOMAIN ord /\ ord[x].buy
    /\ \A x \in ToSet(b.asks) : x \in DOMAIN ord /\ ~ord[x].buy
    /\ \A x \in OrderId \ {in} : Rests(b, x) => x \in b.orders /\ b.open[x] > 0
    /\ b.open[in] > 0 => in \in b.orders

\* The reports have their type and no cost is beyond its limit.
SoundReports(r, ord) ==
    /\ r \in Reports(ord)
    /\ \A x \in DOMAIN ord : WithinLimit(ord[x], r[x])

\* An order that is open, and what was reported of it.
Live(b, r, ord, x) ==
    /\ x \in b.orders /\ b.open[x] > 0
    /\ r[x].state \in {"Accepted", "PartialFilled"}
    /\ r[x].onMarket = b.open[x]
    /\ r[x].filled = ord[x].qty - b.open[x]

\* An order that is not, and what was reported of it.
Gone(b, r, ord, x) ==
    /\ x \notin b.orders
    /\ r[x].state \in Terminal
    /\ r[x].onMarket = 0
    /\ r[x].state = "Filled" <=> ord[x].qty > 0 /\ r[x].filled = ord[x].qty
    /\ ord[x].aon => r[x].filled \in {0, ord[x].qty}

\* The report of x says what the book does; and no order rests that is IOC, or
\* an AON order with a part of it traded.
Agree(b, r, ord, x) ==
    IF Rests(b, x)
    THEN /\ Live(b, r, ord, x)
         /\ ~ord[x].ioc
         /\ ord[x].aon => b.open[x] = ord[x].qty
    ELSE Gone(b, r, ord, x)

\* In the middle of a match of in: every other order agrees, and in is live as
\* long as something of it is open.
Exact(b, r, ord, in) ==
    /\ ~b.undefined
    /\ \A x \in DOMAIN ord \ {in} : Agree(b, r, ord, x)
    /\ IF b.open[in] > 0 THEN Live(b, r, ord, in) ELSE Gone(b, r, ord, in)

\* What a lemma assumes of the order in and of the order e it may trade with.
Partners(ord, in, e) ==
    /\ Objects(ord)
    /\ in \in DOMAIN ord /\ e \in DOMAIN ord /\ in # e
    /\ ord[e].buy # ord[in].buy
    /\ MatchesPrice(ord[e].buy, ord[e].price, ord[in].price)

\* The least of three natural numbers is one of them, and below each.
LEMMA SmallestOfThree ==
    ASSUME NEW i \in Nat, NEW j \in Nat, NEW k \in Nat
    PROVE  LET m == Min({i, j, k})
           IN  m \in {i, j, k} /\ m =< i /\ m =< j /\ m =< k
PROOF
  <1> DEFINE S == {i, j, k}
  <1>1. S \in SUBSET Nat /\ S # {}
    OBVIOUS
  <1>2. \A x : x \in S <=> x \in {i, j, k}
    OBVIOUS
  <1> HIDE DEF S
  <1>3. \E n \in S : \A x \in S : n =< x
    BY <1>1, LeastElement
  <1>4. Min(S) \in S /\ \A x \in S : Min(S) =< x
    BY <1>3 DEF Min
  <1>5. i \in S /\ j \in S /\ k \in S
    BY <1>2
  <1>6. Min(S) \in {i, j, k} /\ Min(S) =< i /\ Min(S) =< j /\ Min(S) =< k
    BY <1>2, <1>4, <1>5
  <1> QED
    BY <1>6 DEF S

\* c is b after create_trade: q is the quantity, out of both trackers, and
\* the fill is queued.
TradeResult(b, c, ord, in, cur, max, q) ==
    LET p == CrossPrice(b, ord, in, cur)
        cb == [type |-> "fill", order |-> in, matched |-> cur, quantity |-> q, price |-> p,
               filled |-> {x \in {in, cur} : b.open[x] = q}]
    IN  /\ q =< max /\ q =< b.open[in] /\ q =< b.open[cur]
        /\ p # Market => q \in {max, b.open[in], b.open[cur]}
        /\ p \in Nat /\ (q > 0 => p # Market)
        /\ c \in BookType
        /\ c.bids = b.bids /\ c.asks = b.asks
        /\ c.expired = b.expired /\ c.undefined = b.undefined
        /\ c.open = [b.open EXCEPT ![in] = @ - q, ![cur] = @ - q]
        /\ c.orders = b.orders \ {x \in {in, cur} : q > 0 /\ b.open[x] = q}
        /\ q = 0 => c = b
        /\ q > 0 => cb \in Callback /\ c.callbacks = Append(b.callbacks, cb)

\* create_trade moves one quantity out of both trackers, or does nothing.
LEMMA TradeFacts ==
    ASSUME NEW b \in BookType, NEW ord, Objects(ord), NEW in \in DOMAIN ord, NEW cur \in DOMAIN ord,
           in # cur, NEW max \in Nat
    PROVE  \E q \in Nat : TradeResult(b, Trade(b, ord, in, cur, max), ord, in, cur, max, q)
PROOF
  <1> DEFINE c == Trade(b, ord, in, cur, max)
             p == CrossPrice(b, ord, in, cur)
             Result(q) == TradeResult(b, c, ord, in, cur, max, q)
  <1>1. /\ b.open \in [OrderId -> Nat] /\ in \in OrderId /\ cur \in OrderId
        /\ ord[in].price \in Nat /\ ord[cur].price \in Nat
        /\ b.price \in Nat /\ b.orders \in SUBSET OrderId /\ b.callbacks \in Seq(Callback)
    BY ObjectTerms DEF BookType, Objects
  <1>2. p \in Nat
    BY <1>1 DEF CrossPrice
  <1>3. b.open[in] \in Nat /\ b.open[cur] \in Nat
    BY <1>1
  <1>4. [b.open EXCEPT ![in] = @ - 0, ![cur] = @ - 0] = b.open
    BY <1>1, <1>3
  <1> HIDE DEF p
  <1>5. CASE p = Market
    <2>1. c = b
      BY <1>5 DEF Trade, p
    <2> HIDE DEF c
    <2>2. Result(0)
      BY <1>1, <1>2, <1>3, <1>4, <1>5, <2>1 DEF TradeResult, p
    <2> QED
      BY <2>2 DEF c
  <1>6. CASE p # Market
    <2> DEFINE q == Min({max, b.open[in], b.open[cur]})
    <2>1. q \in Nat /\ q =< max /\ q =< b.open[in] /\ q =< b.open[cur]
          /\ q \in {max, b.open[in], b.open[cur]}
      BY <1>3, SmallestOfThree
    <2>2. c = Fill(b, in, cur, q, p)
      BY <1>6 DEF Trade, p
    <2> HIDE DEF q, c
    <2>3. CASE q = 0
      <3>1. c = b
        BY <2>2, <2>3 DEF Fill
      <3>2. Result(0)
        BY <1>1, <1>2, <1>3, <1>4, <2>1, <2>3, <3>1 DEF TradeResult, p
      <3> QED
        BY <3>2 DEF c
    <2>4. CASE q # 0
      <3> DEFINE done == {x \in {in, cur} : b.open[x] = q}
                 open == [b.open EXCEPT ![in] = @ - q, ![cur] = @ - q]
                 cb == [type |-> "fill", order |-> in, matched |-> cur, quantity |-> q,
                        price |-> p, filled |-> done]
      <3>1. c = [b EXCEPT !.open = open, !.price = p, !.orders = @ \ done,
                          !.callbacks = Append(@, cb)]
        BY <2>2, <2>4 DEF Fill, Queue
      <3>2. done \in SUBSET OrderId
        BY <1>1
      <3>3. cb \in Callback
        BY <1>1, <1>2, <2>1, <3>2 DEF Callback
      <3>4. open \in [OrderId -> Nat]
        <4> DEFINE i == b.open[in] - q
                   j == b.open[cur] - q
        <4>1. i \in Nat /\ j \in Nat
          BY <1>3, <2>1
        <4>2. open = [b.open EXCEPT ![in] = i, ![cur] = j]
          BY <1>1
        <4> HIDE DEF i, j, open
        <4> QED
          BY <1>1, <4>1, <4>2
      <3>5. Append(b.callbacks, cb) \in Seq(Callback)
        BY <1>1, <3>3
      <3>6. done = {x \in {in, cur} : q > 0 /\ b.open[x] = q}
        BY <2>1, <2>4
      <3> HIDE DEF done, cb, open
      <3>7. /\ c \in BookType /\ c.bids = b.bids /\ c.asks = b.asks
            /\ c.expired = b.expired /\ c.undefined = b.undefined
            /\ c.open = open /\ c.orders = b.orders \ done
            /\ c.callbacks = Append(b.callbacks, cb)
        BY <1>1, <1>2, <3>1, <3>2, <3>4, <3>5 DEF BookType
      <3>8. Result(q)
        BY <1>2, <1>6, <2>1, <2>4, <3>3, <3>6, <3>7 DEF TradeResult, p, cb, open, done
      <3> QED
        BY <2>1, <3>8 DEF c
    <2> QED
      BY <2>3, <2>4
  <1> QED
    BY <1>5, <1>6

-----------------------------------------------------------------------------
(***************************************************************************)
(* One trade, with the entry of the resting order erased when it is done.  *)
(***************************************************************************)

\* u is the book after a trade of in with e, which made the book t.
Trading(b, t, u, ord, in, e, max) ==
    /\ t = Trade(b, ord, in, e, max)
    /\ \/ u = Settle(t, e)
       \/ ord[e].aon /\ Traded(b, t, in) > 0 /\ u = EraseEntry(t, e)

\* What such a step may touch; q is the quantity.
Moved(b, u, ord, in, e, q) ==
    /\ Own(u, ord, in) = Own(b, ord, in)
    /\ ToSet(Opposite(u, ord, in)) \subseteq ToSet(Opposite(b, ord, in))
    /\ ToSet(Opposite(b, ord, in)) \ {e} \subseteq ToSet(Opposite(u, ord, in))
    /\ u.expired = b.expired /\ u.undefined = b.undefined
    /\ u.open = [b.open EXCEPT ![in] = @ - q, ![e] = @ - q]
    /\ SameOrder(b, u)

\* The quantity, and the fill that is queued.
Filling(b, u, ord, in, e, max, q) ==
    LET p == CrossPrice(b, ord, in, e)
        cb == [type |-> "fill", order |-> in, matched |-> e, quantity |-> q, price |-> p,
               filled |-> {x \in {in, e} : b.open[x] = q}]
    IN  /\ q =< max /\ q =< b.open[in] /\ q =< b.open[e]
        /\ p \in Nat
        /\ p # Market => q \in {max, b.open[in], b.open[e]}
        /\ u.orders = b.orders \ {x \in {in, e} : q > 0 /\ b.open[x] = q}
        /\ q = 0 => u.callbacks = b.callbacks
        /\ q > 0 => p # Market /\ cb \in Callback /\ u.callbacks = Append(b.callbacks, cb)

\* A partner of in is no entry of in's own side.
LEMMA SideFacts ==
    ASSUME NEW b, NEW ord, NEW in \in OrderId, SoundBook(b, ord, in), NEW e \in DOMAIN ord,
           ord[e].buy # ord[in].buy, ord[e].buy \in BOOLEAN, ord[in].buy \in BOOLEAN
    PROVE  /\ e \notin ToSet(Own(b, ord, in))
           /\ Rests(b, e) <=> e \in ToSet(Opposite(b, ord, in))
  BY DEF SoundBook, Own, Opposite, Rests

\* One trade keeps the book sound and moves one quantity from e to in; e goes
\* on resting exactly when something of it is left.
LEMMA TradingBook ==
    ASSUME NEW ord, NEW in, NEW e, Partners(ord, in, e),
           NEW b, SoundBook(b, ord, in), NEW max \in Nat,
           NEW t, NEW u, Trading(b, t, u, ord, in, e, max)
    PROVE  \E q \in Nat :
               /\ SoundBook(u, ord, in)
               /\ Moved(b, u, ord, in, e, q)
               /\ Filling(b, u, ord, in, e, max, q)
               /\ q = Traded(b, t, in) /\ q = Traded(b, u, in) /\ t.open[in] = u.open[in]
               /\ Rests(b, e) /\ (ord[e].aon => q \in {0, b.open[e]})
                      => (Rests(u, e) <=> b.open[e] # q)
PROOF
  <1>1. /\ Objects(ord) /\ in \in DOMAIN ord /\ e \in DOMAIN ord /\ in # e
        /\ ord[e].buy # ord[in].buy
        /\ in \in OrderId /\ e \in OrderId
        /\ ord[e].buy \in BOOLEAN /\ ord[in].buy \in BOOLEAN
    BY ObjectTerms DEF Partners
  <1>2. /\ b \in BookType /\ Distinct(b.bids) /\ Distinct(b.asks)
        /\ b.open \in [OrderId -> Nat]
    BY DEF SoundBook, BookType
  <1> DEFINE p == CrossPrice(b, ord, in, e)
  <1>3. PICK q \in Nat : TradeResult(b, t, ord, in, e, max, q)
    BY <1>1, <1>2, TradeFacts DEF Trading
  <1>4. /\ q =< max /\ q =< b.open[in] /\ q =< b.open[e]
        /\ p # Market => q \in {max, b.open[in], b.open[e]}
        /\ p \in Nat /\ (q > 0 => p # Market)
        /\ t \in BookType
        /\ t.bids = b.bids /\ t.asks = b.asks
        /\ t.expired = b.expired /\ t.undefined = b.undefined
        /\ t.open = [b.open EXCEPT ![in] = @ - q, ![e] = @ - q]
        /\ t.orders = b.orders \ {x \in {in, e} : q > 0 /\ b.open[x] = q}
        /\ q = 0 => t = b
        /\ q > 0 => LET cb == [type |-> "fill", order |-> in, matched |-> e, quantity |-> q,
                               price |-> p, filled |-> {x \in {in, e} : b.open[x] = q}]
                    IN  cb \in Callback /\ t.callbacks = Append(b.callbacks, cb)
    BY <1>3 DEF TradeResult
  <1> HIDE DEF p
  <1>5. /\ u \in BookType /\ Distinct(u.bids) /\ Distinct(u.asks)
        /\ \/ u = t
           \/ ToSet(u.bids) = ToSet(b.bids) \ {e} /\ ToSet(u.asks) = ToSet(b.asks) \ {e}
        /\ e \notin ToSet(b.bids) => u.bids = b.bids
        /\ e \notin ToSet(b.asks) => u.asks = b.asks
        /\ u.orders = t.orders /\ u.open = t.open /\ u.expired = t.expired
        /\ u.callbacks = t.callbacks /\ u.undefined = t.undefined
        /\ u = t => t.open[e] # 0 \/ ~Rests(b, e)
        /\ u # t => t.open[e] = 0 \/ (ord[e].aon /\ Traded(b, t, in) > 0)
        /\ SameOrder(b, u)
    <2>1. Distinct(t.bids) /\ Distinct(t.asks)
      BY <1>2, <1>4
    <2>2. CASE u = t /\ t.open[e] # 0
      <3>1. SameOrder(b, u)
        BY <1>4, <2>2 DEF SameOrder
      <3> QED
        BY <1>4, <2>1, <2>2, <3>1
    <2>3. CASE /\ u = EraseEntry(t, e)
               /\ t.open[e] = 0 \/ (ord[e].aon /\ Traded(b, t, in) > 0)
      <3>1. /\ u \in BookType
            /\ Distinct(u.bids) /\ Distinct(u.asks)
            /\ ToSet(u.bids) = ToSet(t.bids) \ {e}
            /\ ToSet(u.asks) = ToSet(t.asks) \ {e}
            /\ e \notin ToSet(t.bids) => u.bids = t.bids
            /\ e \notin ToSet(t.asks) => u.asks = t.asks
            /\ u.orders = t.orders /\ u.open = t.open /\ u.expired = t.expired
            /\ u.callbacks = t.callbacks /\ u.undefined = t.undefined
            /\ SameOrder(t, u)
        BY <1>4, <2>1, <2>3, EraseFacts
      <3>2. u = t => ~Rests(b, e)
        BY <1>4, <3>1 DEF Rests
      <3>3. SameOrder(b, u)
        BY <1>4, <3>1 DEF SameOrder
      <3> QED
        BY <1>4, <2>3, <3>1, <3>2, <3>3
    <2> QED
      BY <2>2, <2>3 DEF Trading, Settle
  <1>6. /\ b.open[in] \in Nat /\ b.open[e] \in Nat
        /\ u.open[in] = b.open[in] - q /\ u.open[e] = b.open[e] - q
        /\ t.open[in] = b.open[in] - q /\ t.open[e] = b.open[e] - q
        /\ \A x \in OrderId \ {in, e} : u.open[x] = b.open[x]
    BY <1>1, <1>2, <1>4, <1>5
  <1>7. q = Traded(b, t, in) /\ q = Traded(b, u, in)
    BY <1>6 DEF Traded
  <1>8. SoundBook(u, ord, in)
    <2>1. u.orders \subseteq DOMAIN ord
      BY <1>4, <1>5 DEF SoundBook
    <2>2. /\ \A x \in ToSet(u.bids) : x \in DOMAIN ord /\ ord[x].buy
          /\ \A x \in ToSet(u.asks) : x \in DOMAIN ord /\ ~ord[x].buy
      BY <1>4, <1>5 DEF SoundBook
    <2>3. ASSUME NEW x \in OrderId \ {in}, Rests(u, x) PROVE x \in u.orders /\ u.open[x] > 0
      <3>1. Rests(b, x)
        BY <1>4, <1>5, <2>3 DEF Rests
      <3>2. x \in b.orders /\ b.open[x] > 0
        BY <2>3, <3>1 DEF SoundBook
      <3>3. CASE x = e
        <4>1. u = t
          BY <1>5, <2>3, <3>3 DEF Rests
        <4>2. b.open[e] # q
          BY <1>5, <1>6, <3>1, <3>3, <4>1
        <4> QED
          BY <1>4, <1>5, <1>6, <3>2, <3>3, <4>2
      <3>4. CASE x # e
        BY <1>4, <1>5, <1>6, <2>3, <3>2, <3>4
      <3> QED
        BY <3>3, <3>4
    <2>4. u.open[in] > 0 => in \in u.orders
      BY <1>4, <1>5, <1>6 DEF SoundBook
    <2> QED
      BY <1>5, <2>1, <2>2, <2>3, <2>4 DEF SoundBook
  <1>9. Moved(b, u, ord, in, e, q)
    <2>1. e \notin ToSet(Own(b, ord, in))
      BY <1>1, SideFacts
    <2>2. Own(u, ord, in) = Own(b, ord, in)
      BY <1>4, <1>5, <2>1 DEF Own
    <2>3. /\ ToSet(Opposite(u, ord, in)) \subseteq ToSet(Opposite(b, ord, in))
          /\ ToSet(Opposite(b, ord, in)) \ {e} \subseteq ToSet(Opposite(u, ord, in))
      BY <1>4, <1>5 DEF Opposite
    <2> QED
      BY <1>4, <1>5, <2>2, <2>3 DEF Moved
  <1>10. Filling(b, u, ord, in, e, max, q)
    BY <1>4, <1>5 DEF Filling, p
  <1>11. ASSUME Rests(b, e), ord[e].aon => q \in {0, b.open[e]}
         PROVE  Rests(u, e) <=> b.open[e] # q
    <2>1. b.open[e] > 0
      BY <1>1, <1>11 DEF SoundBook
    <2>2. CASE u = t
      BY <1>4, <1>5, <1>6, <1>11, <2>2 DEF Rests
    <2>3. CASE u # t
      <3>1. b.open[e] = q
        BY <1>5, <1>6, <1>7, <1>11, <2>1, <2>3
      <3>2. ~Rests(u, e)
        BY <1>5, <2>3 DEF Rests
      <3> QED
        BY <3>1, <3>2
    <2> QED
      BY <2>2, <2>3
  <1> QED
    BY <1>6, <1>7, <1>8, <1>9, <1>10, <1>11

\* A fill at a price within the limit keeps the cost within the limit.
LEMMA FilledFacts ==
    ASSUME NEW terms \in Terms, NEW r \in Report, WithinLimit(terms, r),
           NEW q \in Nat, NEW p \in Nat,
           terms.price # Market => IF terms.buy THEN p =< terms.price ELSE terms.price =< p
    PROVE  Filled(r, q, p) \in Report /\ WithinLimit(terms, Filled(r, q, p))
PROOF
  <1> DEFINE f == r.filled
             c == r.cost
             l == terms.price
             s == Filled(r, q, p)
  <1>1. f \in Nat /\ c \in Nat /\ l \in Nat /\ r.onMarket \in Int
    BY DEF Report, Terms
  <1>2. s.filled = f + q /\ s.cost = c + q * p
    BY DEF Filled
  <1>3. q * p \in Nat /\ q * l \in Nat /\ f * l \in Nat /\ (f + q) * l = f * l + q * l
    BY <1>1
  <1>4. /\ p =< l => q * p =< q * l
        /\ l =< p => q * l =< q * p
    <2>1. ASSUME NEW x \in Nat, NEW y \in Nat, x =< y PROVE q * x =< q * y
      <3>1. y - x \in Nat /\ q * (y - x) \in Nat /\ q * (y - x) = q * y - q * x
        BY <2>1
      <3>2. q * x \in Nat /\ q * y \in Nat
        OBVIOUS
      <3> QED
        BY <3>1, <3>2
    <2> QED
      BY <1>1, <2>1
  <1>5. Filled(r, q, p) \in Report
    BY <1>1, <1>3 DEF Filled, Report, Terminal
  <1>6. WithinLimit(terms, s)
    <2> SUFFICES ASSUME l # Market
                 PROVE  IF terms.buy THEN c + q * p =< (f + q) * l ELSE c + q * p >= (f + q) * l
      BY <1>2 DEF WithinLimit
    <2>1. CASE terms.buy
      <3>1. c =< f * l /\ q * p =< q * l
        BY <1>4, <2>1 DEF WithinLimit
      <3> HIDE DEF f, c, l
      <3> QED
        BY <1>1, <1>3, <2>1, <3>1
    <2>2. CASE ~terms.buy
      <3>1. c >= f * l /\ q * l =< q * p
        BY <1>4, <2>2 DEF WithinLimit
      <3> HIDE DEF f, c, l
      <3> QED
        BY <1>1, <1>3, <2>2, <3>1
    <2> QED
      BY <2>1, <2>2
  <1> QED
    BY <1>5, <1>6

\* Both partners trade within their limits, when there is a price at all.
LEMMA CrossPriceFacts ==
    ASSUME NEW ord, NEW in, NEW e, Partners(ord, in, e), NEW b, CrossPrice(b, ord, in, e) # Market
    PROVE  LET p == CrossPrice(b, ord, in, e)
           IN  \A x \in {in, e} : ord[x].price # Market =>
                   IF ord[x].buy THEN p =< ord[x].price ELSE ord[x].price =< p
PROOF
  <1>1. /\ in \in DOMAIN ord /\ e \in DOMAIN ord
        /\ ord[e].buy # ord[in].buy
        /\ MatchesPrice(ord[e].buy, ord[e].price, ord[in].price)
        /\ ord[in].price \in Nat /\ ord[e].price \in Nat
        /\ ord[e].buy \in BOOLEAN /\ ord[in].buy \in BOOLEAN
    BY ObjectTerms DEF Partners
  <1> QED
    BY <1>1 DEF CrossPrice, MatchesPrice, Market

\* What the listener makes of the step.
LEMMA TradingReports ==
    ASSUME NEW ord, NEW in, NEW e, Partners(ord, in, e), NEW b, NEW u, NEW max, NEW q \in Nat,
           SoundBook(b, ord, in), Filling(b, u, ord, in, e, max, q),
           NEW R, SoundReports(Rep(R, ord, b), ord)
    PROVE  LET r == Rep(R, ord, b)
               s == Rep(R, ord, u)
               p == CrossPrice(b, ord, in, e)
           IN  /\ SoundReports(s, ord)
               /\ q = 0 => s = r
               /\ q > 0 => /\ s[in] = Filled(r[in], q, p)
                           /\ s[e] = Filled(r[e], q, p)
                           /\ \A x \in DOMAIN ord \ {in, e} : s[x] = r[x]
PROOF
  <1> DEFINE r == Rep(R, ord, b)
             s == Rep(R, ord, u)
             p == CrossPrice(b, ord, in, e)
             cb == [type |-> "fill", order |-> in, matched |-> e, quantity |-> q, price |-> p,
                    filled |-> {x \in {in, e} : b.open[x] = q}]
  <1>1. in \in DOMAIN ord /\ e \in DOMAIN ord /\ in # e /\ Objects(ord)
    BY DEF Partners
  <1>2. r \in Reports(ord) /\ \A x \in DOMAIN ord : WithinLimit(ord[x], r[x])
    BY DEF SoundReports
  <1>3. b.callbacks \in Seq(Callback) /\ p \in Nat
    BY DEF SoundBook, BookType, Filling
  <1>4. CASE q = 0
    BY <1>4 DEF Filling, Rep
  <1>5. CASE q > 0
    <2>1. cb \in Callback /\ u.callbacks = Append(b.callbacks, cb) /\ p # Market
      BY <1>5 DEF Filling
    <2>2. s = Write(r, ord, cb)
      BY <1>3, <2>1, DeliverAppend DEF Rep
    <2> HIDE DEF r, s, p
    <2>3. s = [r EXCEPT ![in] = Filled(@, q, p), ![e] = Filled(@, q, p)]
      BY <2>2 DEF Write
    <2>4. r \in [DOMAIN ord -> Report]
      BY <1>2 DEF Reports
    <2>5. /\ DOMAIN s = DOMAIN ord /\ s = [x \in DOMAIN ord |-> s[x]]
          /\ s[in] = Filled(r[in], q, p) /\ s[e] = Filled(r[e], q, p)
          /\ \A x \in DOMAIN ord \ {in, e} : s[x] = r[x]
      BY <1>1, <2>3, <2>4
    <2>6. ASSUME NEW x \in {in, e}
          PROVE  Filled(r[x], q, p) \in Report /\ WithinLimit(ord[x], Filled(r[x], q, p))
      <3>1. ord[x] \in Terms /\ r[x] \in Report /\ WithinLimit(ord[x], r[x])
        BY <1>1, <1>2, <2>4, ObjectTerms, TypeAssumption
      <3>2. ord[x].price # Market => IF ord[x].buy THEN p =< ord[x].price ELSE ord[x].price =< p
        BY <2>1, CrossPriceFacts DEF p
      <3> QED
        BY <1>3, <3>1, <3>2, FilledFacts
    <2>7. ASSUME NEW x \in DOMAIN ord PROVE s[x] \in Report /\ WithinLimit(ord[x], s[x])
      BY <1>2, <2>4, <2>5, <2>6
    <2>8. SoundReports(s, ord)
      BY <2>5, <2>7 DEF SoundReports, Reports
    <2> QED
      BY <1>5, <2>5, <2>8 DEF r, s, p
  <1> QED
    BY <1>4, <1>5

\* The reports stay exact, an AON order trading all or nothing.
LEMMA TradingExact ==
    ASSUME NEW ord, NEW in, NEW e, Partners(ord, in, e),
           NEW b, SoundBook(b, ord, in), NEW max \in Nat,
           NEW t, NEW u, Trading(b, t, u, ord, in, e, max), NEW q \in Nat,
           SoundBook(u, ord, in), Moved(b, u, ord, in, e, q), Filling(b, u, ord, in, e, max, q),
           Rests(u, e) <=> b.open[e] # q, Rests(b, e),
           ord[e].aon => q \in {0, b.open[e]},
           NEW R, SoundReports(Rep(R, ord, b), ord), Exact(b, Rep(R, ord, b), ord, in)
    PROVE  Exact(u, Rep(R, ord, u), ord, in)
PROOF
  <1> DEFINE r == Rep(R, ord, b)
             s == Rep(R, ord, u)
             p == CrossPrice(b, ord, in, e)
  <1>1. /\ in \in DOMAIN ord /\ e \in DOMAIN ord /\ in # e /\ Objects(ord)
        /\ in \in OrderId /\ e \in OrderId
        /\ ord[in].qty \in Nat /\ ord[e].qty \in Nat
        /\ ord[e].buy # ord[in].buy /\ ord[e].buy \in BOOLEAN /\ ord[in].buy \in BOOLEAN
        /\ DOMAIN ord \subseteq OrderId
    BY ObjectTerms DEF Partners, Objects
  <1>2. /\ r \in Reports(ord)
        /\ q = 0 => s = r
        /\ q > 0 => /\ s[in] = Filled(r[in], q, p)
                    /\ s[e] = Filled(r[e], q, p)
                    /\ \A x \in DOMAIN ord \ {in, e} : s[x] = r[x]
    BY TradingReports DEF SoundReports
  <1> HIDE DEF r, s, p
  <1>3. /\ b.open \in [OrderId -> Nat]
        /\ u.open[in] = b.open[in] - q /\ u.open[e] = b.open[e] - q
        /\ \A x \in OrderId \ {in, e} : u.open[x] = b.open[x]
    BY <1>1 DEF SoundBook, BookType, Moved
  <1>4. /\ u.orders = b.orders \ {x \in {in, e} : q > 0 /\ b.open[x] = q}
        /\ q =< b.open[in] /\ q =< b.open[e]
    BY DEF Filling
  <1>5. ASSUME NEW x \in DOMAIN ord \ {in, e} PROVE Rests(u, x) <=> Rests(b, x)
    BY <1>1, <1>5 DEF Moved, Rests, Own, Opposite
  <1>6. Exact(b, r, ord, in)
    BY DEF r
  <1>7. ASSUME NEW x \in DOMAIN ord \ {in, e} PROVE Agree(u, s, ord, x)
    <2>1. Agree(b, r, ord, x) /\ x \in OrderId
      BY <1>1, <1>6 DEF Exact
    <2>2. s[x] = r[x] /\ (x \in u.orders <=> x \in b.orders) /\ u.open[x] = b.open[x]
      BY <1>2, <1>3, <1>4, <2>1
    <2> QED
      BY <1>5, <2>1, <2>2 DEF Agree, Live, Gone
  <1>8. /\ r[e].filled \in Nat /\ r[in].filled \in Nat
        /\ r[e].onMarket \in Int /\ r[in].onMarket \in Int
    BY <1>1, <1>2 DEF Reports, Report
  <1>9. Agree(u, s, ord, e)
    <2>1. /\ Live(b, r, ord, e) /\ ~ord[e].ioc /\ (ord[e].aon => b.open[e] = ord[e].qty)
      BY <1>1, <1>6 DEF Exact, Agree
    <2>2. CASE q = 0
      BY <1>1, <1>2, <1>3, <1>4, <2>1, <2>2 DEF Agree, Live
    <2>3. CASE q > 0 /\ b.open[e] # q
      <3>1. s[e].filled = ord[e].qty - u.open[e] /\ s[e].onMarket = u.open[e]
            /\ s[e].state = "PartialFilled"
        BY <1>1, <1>2, <1>3, <1>8, <2>1, <2>3 DEF Filled, Live
      <3> QED
        BY <1>1, <1>3, <1>4, <2>1, <2>3, <3>1 DEF Agree, Live
    <2>4. CASE q > 0 /\ b.open[e] = q
      <3>1. s[e].filled = ord[e].qty /\ s[e].onMarket = 0 /\ s[e].state = "Filled"
        BY <1>1, <1>2, <1>3, <1>8, <2>1, <2>4 DEF Filled, Live
      <3>2. ord[e].qty > 0
        BY <1>1, <1>3, <1>8, <2>1, <2>4 DEF Live
      <3>3. e \notin u.orders /\ ~Rests(u, e)
        BY <1>4, <2>4
      <3> QED
        BY <3>1, <3>2, <3>3 DEF Agree, Gone, Terminal
    <2> QED
      BY <2>2, <2>3, <2>4
  <1>10. IF u.open[in] > 0 THEN Live(u, s, ord, in) ELSE Gone(u, s, ord, in)
    <2>1. CASE q = 0
      <3>1. u.open[in] = b.open[in] /\ u.orders = b.orders /\ s = r
        BY <1>1, <1>2, <1>3, <1>4, <2>1
      <3> QED
        BY <1>6, <3>1 DEF Exact, Live, Gone
    <2>2. CASE q > 0
      <3>1. b.open[in] > 0 /\ Live(b, r, ord, in)
        BY <1>1, <1>3, <1>4, <1>6, <2>2 DEF Exact
      <3>2. CASE b.open[in] # q
        <4>1. s[in].filled = ord[in].qty - u.open[in] /\ s[in].onMarket = u.open[in]
              /\ s[in].state = "PartialFilled"
          BY <1>1, <1>2, <1>3, <1>8, <2>2, <3>1, <3>2 DEF Filled, Live
        <4>2. u.open[in] > 0 /\ in \in u.orders
          BY <1>1, <1>3, <1>4, <3>1, <3>2 DEF Live
        <4> QED
          BY <4>1, <4>2 DEF Live
      <3>3. CASE b.open[in] = q
        <4>1. s[in].filled = ord[in].qty /\ s[in].onMarket = 0 /\ s[in].state = "Filled"
          BY <1>1, <1>2, <1>3, <1>8, <2>2, <3>1, <3>3 DEF Filled, Live
        <4>2. u.open[in] = 0 /\ in \notin u.orders /\ ord[in].qty > 0
          BY <1>1, <1>3, <1>4, <1>8, <2>2, <3>1, <3>3 DEF Live
        <4> QED
          BY <4>1, <4>2 DEF Gone, Terminal
      <3> QED
        BY <3>2, <3>3
    <2> QED
      BY <2>1, <2>2
  <1>11. ~u.undefined
    BY <1>6 DEF Exact, Moved
  <1> QED
    BY <1>1, <1>7, <1>9, <1>10, <1>11 DEF Exact, s

-----------------------------------------------------------------------------
(***************************************************************************)
(* What a listener can rely on: each callback is about orders that it was  *)
(* told are on the market, and says of them what they have there.          *)
(***************************************************************************)

\* The orders that are on the market, as far as was reported.
Outstanding(r, ord) == {x \in DOMAIN ord : r[x].state \in {"Accepted", "PartialFilled"}}

\* What a fill or a time-out may say after the reports r.
Legal(r, ord, cb) ==
    \/ /\ cb.type = "timeout"
       /\ cb.order \in Outstanding(r, ord)
       /\ cb.quantity = r[cb.order].onMarket
    \/ /\ cb.type = "fill"
       /\ cb.order \in Outstanding(r, ord) /\ cb.matched \in Outstanding(r, ord)
       /\ ord[cb.order].buy # ord[cb.matched].buy
       /\ cb.quantity > 0
       /\ cb.quantity =< r[cb.order].onMarket /\ cb.quantity =< r[cb.matched].onMarket
       /\ cb.filled = {x \in {cb.order, cb.matched} : r[x].onMarket = cb.quantity}

\* h is what is reported after 0, 1, 2, ... of the callbacks, all of them legal.
History(h, cbs, ord, R) ==
    /\ h[0] = R
    /\ \A i \in 1..Len(cbs) : Legal(h[i - 1], ord, cbs[i]) /\ h[i] = Write(h[i - 1], ord, cbs[i])

\* The callbacks of b are legal, and what they say of the orders is what the
\* registry and the trackers say.
Told(b, ord, R) ==
    LET r == Rep(R, ord, b)
    IN  /\ \E h : History(h, b.callbacks, ord, R) /\ h[Len(b.callbacks)] = r
        /\ \A x \in DOMAIN ord : x \in b.orders <=> x \in Outstanding(r, ord)
        /\ \A x \in b.orders : b.open[x] > 0 /\ r[x].onMarket = b.open[x]

\* What is in a sequence with an element appended.
LEMMA AppendMembers ==
    ASSUME NEW S, NEW s \in Seq(S), NEW x \in S
    PROVE  \A y \in ToSet(Append(s, x)) : y \in ToSet(s) \/ y = x
  BY DEF ToSet

\* One more legal callback.
LEMMA HistoryAppend ==
    ASSUME NEW ord, NEW R, NEW cbs \in Seq(Callback), NEW h, History(h, cbs, ord, R),
           NEW cb \in Callback, Legal(h[Len(cbs)], ord, cb)
    PROVE  \E g : /\ History(g, Append(cbs, cb), ord, R)
                  /\ g[Len(cbs) + 1] = Write(h[Len(cbs)], ord, cb)
PROOF
  <1> DEFINE n == Len(cbs)
             s == Append(cbs, cb)
             g == [i \in 0..(n + 1) |-> IF i =< n THEN h[i] ELSE Write(h[n], ord, cb)]
  <1>1. n \in Nat /\ Len(s) = n + 1 /\ s[n + 1] = cb /\ \A i \in 1..n : s[i] = cbs[i]
    OBVIOUS
  <1> HIDE DEF s, n
  <1>2. g[0] = R
    BY <1>1 DEF History
  <1>3. ASSUME NEW i \in 1..(n + 1)
        PROVE  Legal(g[i - 1], ord, s[i]) /\ g[i] = Write(g[i - 1], ord, s[i])
    <2>1. CASE i =< n
      <3>1. g[i] = h[i] /\ g[i - 1] = h[i - 1] /\ s[i] = cbs[i] /\ i \in 1..n
        BY <1>1, <2>1
      <3>2. Legal(h[i - 1], ord, cbs[i]) /\ h[i] = Write(h[i - 1], ord, cbs[i])
        BY <3>1 DEF History, n
      <3> QED
        BY <3>1, <3>2
    <2>2. CASE i = n + 1
      <3>1. g[i] = Write(h[n], ord, cb) /\ g[i - 1] = h[n] /\ s[i] = cb
        BY <1>1, <2>2
      <3> QED
        BY <3>1 DEF n
    <2> QED
      BY <1>1, <2>1, <2>2
  <1>4. g[n + 1] = Write(h[n], ord, cb)
    BY <1>1
  <1> HIDE DEF g
  <1>5. History(g, s, ord, R)
    BY <1>1, <1>2, <1>3 DEF History
  <1> QED
    BY <1>4, <1>5 DEF n, s

\* A legal fill of in and e, q of it, leaves the book and the reports in accord.
LEMMA ToldFill ==
    ASSUME NEW ord, NEW in, NEW e, Partners(ord, in, e), NEW b, NEW u, NEW max, NEW q \in Nat,
           SoundBook(b, ord, in), Moved(b, u, ord, in, e, q), Filling(b, u, ord, in, e, max, q),
           Rests(b, e), NEW R, SoundReports(Rep(R, ord, b), ord), Told(b, ord, R)
    PROVE  Told(u, ord, R)
PROOF
  <1> DEFINE r == Rep(R, ord, b)
             s == Rep(R, ord, u)
             p == CrossPrice(b, ord, in, e)
             cb == [type |-> "fill", order |-> in, matched |-> e, quantity |-> q, price |-> p,
                    filled |-> {x \in {in, e} : b.open[x] = q}]
  <1>1. /\ in \in DOMAIN ord /\ e \in DOMAIN ord /\ in # e /\ Objects(ord)
        /\ in \in OrderId /\ e \in OrderId /\ ord[e].buy # ord[in].buy
    BY ObjectTerms DEF Partners
  <1>2. /\ b.open \in [OrderId -> Nat] /\ b.callbacks \in Seq(Callback)
        /\ b.orders \subseteq DOMAIN ord /\ DOMAIN ord \subseteq OrderId
        /\ q =< b.open[in] /\ q =< b.open[e]
        /\ u.orders = b.orders \ {x \in {in, e} : q > 0 /\ b.open[x] = q}
        /\ u.open = [b.open EXCEPT ![in] = @ - q, ![e] = @ - q]
    BY <1>1 DEF SoundBook, BookType, Filling, Moved, Objects
  <1>3. /\ \A x \in DOMAIN ord : x \in b.orders <=> x \in Outstanding(r, ord)
        /\ \A x \in b.orders : b.open[x] > 0 /\ r[x].onMarket = b.open[x]
    BY DEF Told
  <1>4. CASE q = 0
    <2>1. /\ u.orders = b.orders /\ u.callbacks = b.callbacks
          /\ \A x \in OrderId : u.open[x] = b.open[x]
      BY <1>1, <1>2, <1>4 DEF Filling
    <2> QED
      BY <1>2, <2>1 DEF Told, Rep
  <1>5. CASE q > 0
    <2>1. in \in b.orders /\ e \in b.orders
      BY <1>1, <1>2, <1>5 DEF SoundBook
    <2>2. cb \in Callback /\ u.callbacks = Append(b.callbacks, cb)
      BY <1>5 DEF Filling
    <2>3. /\ r[in].onMarket = b.open[in] /\ r[e].onMarket = b.open[e]
          /\ in \in Outstanding(r, ord) /\ e \in Outstanding(r, ord)
      BY <1>1, <1>3, <2>1
    <2>4. /\ s \in Reports(ord)
          /\ s[in] = Filled(r[in], q, p) /\ s[e] = Filled(r[e], q, p)
          /\ \A x \in DOMAIN ord \ {in, e} : s[x] = r[x]
      BY <1>5, TradingReports DEF SoundReports
    <2>5. s = Write(r, ord, cb)
      BY <1>2, <2>2, DeliverAppend DEF Rep
    <2>6. PICK h : History(h, b.callbacks, ord, R) /\ h[Len(b.callbacks)] = r
      BY DEF Told
    <2> HIDE DEF r, s, p
    <2>7. Legal(r, ord, cb)
      <3>1. /\ cb.type = "fill" /\ cb.order = in /\ cb.matched = e /\ cb.quantity = q
            /\ cb.filled = {x \in {in, e} : b.open[x] = q}
        OBVIOUS
      <3>2. {x \in {in, e} : b.open[x] = q} = {x \in {in, e} : r[x].onMarket = q}
        BY <2>3
      <3> HIDE DEF cb
      <3>3. cb.filled = {x \in {cb.order, cb.matched} : r[x].onMarket = cb.quantity}
        BY <3>1, <3>2
      <3>4. q > 0 /\ q =< r[in].onMarket /\ q =< r[e].onMarket
        BY <1>2, <1>5, <2>3
      <3>5. ord[cb.order].buy # ord[cb.matched].buy
        BY <1>1, <3>1
      <3> QED
        BY <2>3, <3>1, <3>3, <3>4, <3>5 DEF Legal
    <2>8. \E g : History(g, u.callbacks, ord, R) /\ g[Len(u.callbacks)] = s
      <3>0. b.callbacks \in Seq(Callback) /\ cb \in Callback
        BY <1>2, <2>2
      <3> DEFINE cbs == b.callbacks
      <3>0a. History(h, cbs, ord, R) /\ h[Len(cbs)] = r
        BY <2>6
      <3> HIDE DEF cb, cbs
      <3>0b. \E g : /\ History(g, Append(cbs, cb), ord, R)
                    /\ g[Len(cbs) + 1] = Write(h[Len(cbs)], ord, cb)
        BY <2>7, <3>0, <3>0a, HistoryAppend DEF cbs
      <3>1. PICK g : /\ History(g, Append(b.callbacks, cb), ord, R)
                     /\ g[Len(b.callbacks) + 1] = Write(r, ord, cb)
        BY <3>0a, <3>0b DEF cbs
      <3>2. Len(u.callbacks) = Len(b.callbacks) + 1
        BY <1>2, <2>2
      <3> QED
        BY <2>2, <2>5, <3>1, <3>2
    <2>9. ASSUME NEW x \in DOMAIN ord
          PROVE  /\ x \in u.orders <=> s[x].state \in {"Accepted", "PartialFilled"}
                 /\ x \in u.orders => u.open[x] > 0 /\ s[x].onMarket = u.open[x]
      <3>1. CASE x \in {in, e}
        <4>1. /\ s[x].state = IF b.open[x] = q THEN "Filled" ELSE "PartialFilled"
              /\ s[x].onMarket = b.open[x] - q
              /\ u.open[x] = b.open[x] - q
              /\ b.open[x] \in Nat /\ q =< b.open[x]
          BY <1>1, <1>2, <2>3, <2>4, <3>1 DEF Filled
        <4>2. x \in u.orders <=> b.open[x] # q
          BY <1>2, <1>5, <2>1, <3>1
        <4> QED
          BY <4>1, <4>2
      <3>2. CASE x \notin {in, e}
        <4>1. s[x] = r[x] /\ u.open[x] = b.open[x] /\ (x \in u.orders <=> x \in b.orders)
          BY <1>1, <1>2, <2>4, <3>2
        <4> QED
          BY <1>3, <4>1 DEF Outstanding
      <3> QED
        BY <3>1, <3>2
    <2>10. u.orders \subseteq DOMAIN ord
      BY <1>2
    <2> QED
      BY <2>8, <2>9, <2>10 DEF Told, Outstanding, s
  <1> QED
    BY <1>4, <1>5

\* The terminal events leave what was filled and paid as it was.
LEMMA EndedFacts ==
    ASSUME NEW r \in Report, NEW state \in Terminal
    PROVE  /\ Ended(r, state) \in Report
           /\ Ended(r, state).state = state /\ Ended(r, state).onMarket = 0
           /\ Ended(r, state).filled = r.filled /\ Ended(r, state).cost = r.cost
PROOF
  <1> DEFINE a == [r EXCEPT !.state = state]
  <1>1. a \in Report /\ Ended(r, state) = [a EXCEPT !.onMarket = 0]
    BY DEF Ended, Report
  <1>2. Ended(r, state) \in Report
    <2> HIDE DEF a
    <2>1. [a EXCEPT !.onMarket = 0] \in Report
      BY <1>1 DEF Report
    <2> QED
      BY <1>1, <2>1
  <1> QED
    BY <1>2 DEF Ended, Report

\* So does a time-out of the registered order e.
LEMMA ToldLeft ==
    ASSUME NEW ord, Objects(ord), NEW b \in BookType, b.orders \subseteq DOMAIN ord,
           NEW e \in b.orders, NEW u, NEW cb \in Callback,
           cb = [type |-> "timeout", order |-> e, quantity |-> b.open[e]],
           u.callbacks = Append(b.callbacks, cb), u.open = b.open, u.orders = b.orders \ {e},
           NEW R, Rep(R, ord, b) \in Reports(ord), Told(b, ord, R)
    PROVE  Told(u, ord, R)
PROOF
  <1> DEFINE r == Rep(R, ord, b)
             s == Rep(R, ord, u)
  <1>1. /\ e \in DOMAIN ord /\ b.callbacks \in Seq(Callback)
        /\ r \in [DOMAIN ord -> Report]
    BY DEF BookType, Reports
  <1>2. /\ \A x \in DOMAIN ord : x \in b.orders <=> x \in Outstanding(r, ord)
        /\ \A x \in b.orders : b.open[x] > 0 /\ r[x].onMarket = b.open[x]
    BY DEF Told
  <1>3. PICK h : History(h, b.callbacks, ord, R) /\ h[Len(b.callbacks)] = r
    BY DEF Told
  <1>4. s = Write(r, ord, cb)
    BY <1>1, DeliverAppend DEF Rep
  <1>5. cb.type = "timeout" /\ cb.order = e /\ cb.quantity = b.open[e]
    OBVIOUS
  <1> HIDE DEF r, s
  <1>6. s = [r EXCEPT ![e] = Ended(@, "Timeout")]
    BY <1>4, <1>5 DEF Write
  <1>7. Legal(r, ord, cb)
    BY <1>1, <1>2, <1>5 DEF Legal
  <1>8. \E g : History(g, u.callbacks, ord, R) /\ g[Len(u.callbacks)] = s
    <2>1. PICK g : /\ History(g, Append(b.callbacks, cb), ord, R)
                   /\ g[Len(b.callbacks) + 1] = Write(r, ord, cb)
      BY <1>1, <1>3, <1>7, HistoryAppend
    <2>2. Len(u.callbacks) = Len(b.callbacks) + 1
      BY <1>1
    <2> QED
      BY <1>4, <2>1, <2>2
  <1>9. s[e].state = "Timeout" /\ \A x \in DOMAIN ord \ {e} : s[x] = r[x]
    <2>1. r[e] \in Report /\ "Timeout" \in Terminal
      BY <1>1 DEF Terminal
    <2>2. s[e] = Ended(r[e], "Timeout") /\ \A x \in DOMAIN ord \ {e} : s[x] = r[x]
      BY <1>1, <1>6
    <2> QED
      BY <2>1, <2>2, EndedFacts
  <1>10. \A x \in DOMAIN ord : x \in u.orders <=> x \in Outstanding(s, ord)
    BY <1>1, <1>2, <1>9 DEF Outstanding
  <1>11. \A x \in u.orders : u.open[x] > 0 /\ s[x].onMarket = u.open[x]
    BY <1>2, <1>9
  <1> QED
    BY <1>8, <1>10, <1>11 DEF Told, s

-----------------------------------------------------------------------------
(***************************************************************************)
(* A part of a match: it leaves the own side of in alone, and of the other *)
(* side everything outside S.                                              *)
(***************************************************************************)

\* c is a later book of the same call: no order is registered anew, what still
\* rests keeps its place, an order that trades nothing is told of no fill, and
\* legal callbacks stay legal.
Later(b, c, ord, R) ==
    /\ c.orders \subseteq b.orders
    /\ SameOrder(b, c)
    /\ \A x \in DOMAIN ord :
           /\ b.open[x] \in Nat /\ c.open[x] \in Nat /\ c.open[x] =< b.open[x]
           /\ c.open[x] = b.open[x] => Rep(R, ord, c)[x].filled = Rep(R, ord, b)[x].filled
    /\ Told(b, ord, R) => Told(c, ord, R)

\* One after the other.
LEMMA LaterTransitive ==
    ASSUME NEW b, NEW c, NEW d, NEW ord, NEW R, Later(b, c, ord, R), Later(c, d, ord, R)
    PROVE  Later(b, d, ord, R)
PROOF
  <1>1. SameOrder(b, d)
    BY DEF Later, SameOrder
  <1>2. ASSUME NEW x \in DOMAIN ord
        PROVE  /\ b.open[x] \in Nat /\ d.open[x] \in Nat /\ d.open[x] =< b.open[x]
               /\ d.open[x] = b.open[x] => Rep(R, ord, d)[x].filled = Rep(R, ord, b)[x].filled
    <2>1. /\ b.open[x] \in Nat /\ c.open[x] \in Nat /\ c.open[x] =< b.open[x]
          /\ c.open[x] = b.open[x] => Rep(R, ord, c)[x].filled = Rep(R, ord, b)[x].filled
          /\ d.open[x] \in Nat /\ d.open[x] =< c.open[x]
          /\ d.open[x] = c.open[x] => Rep(R, ord, d)[x].filled = Rep(R, ord, c)[x].filled
      BY DEF Later
    <2>2. d.open[x] = b.open[x] => c.open[x] = b.open[x] /\ d.open[x] = c.open[x]
      BY <2>1
    <2> QED
      BY <2>1, <2>2
  <1>3. d.orders \subseteq b.orders /\ (Told(b, ord, R) => Told(d, ord, R))
    BY DEF Later
  <1> QED
    BY <1>1, <1>2, <1>3 DEF Later

\* The same book, or one that differs in what is not looked at here.
LEMMA LaterSame ==
    ASSUME NEW ord, Objects(ord), NEW b \in BookType, NEW c, NEW R,
           c.orders = b.orders, c.bids = b.bids, c.asks = b.asks, c.open = b.open,
           c.callbacks = b.callbacks
    PROVE  Later(b, c, ord, R)
PROOF
  <1>1. Rep(R, ord, c) = Rep(R, ord, b) /\ (Told(b, ord, R) => Told(c, ord, R))
    BY DEF Rep, Told
  <1> QED
    BY <1>1 DEF Later, SameOrder, Objects, BookType

\* From b to c, S is the part of the other side that in may trade with; what
\* is filled is filled for in.
Kept(b, c, ord, in, S, R) ==
    /\ Own(c, ord, in) = Own(b, ord, in)
    /\ ToSet(Opposite(c, ord, in)) \subseteq ToSet(Opposite(b, ord, in))
    /\ ToSet(Opposite(b, ord, in)) \ S \subseteq ToSet(Opposite(c, ord, in))
    /\ \A x \in OrderId \ (S \union {in}) : c.open[x] = b.open[x]
    /\ c.open[in] =< b.open[in]
    /\ \A cb \in ToSet(c.callbacks) :
           cb \in ToSet(b.callbacks) \/ (cb.type = "timeout" <=> cb.order # in)
    /\ Later(b, c, ord, R)

\* What two steps keep, the two together keep.
LEMMA KeptTransitive ==
    ASSUME NEW b, NEW c, NEW d, NEW ord, NEW in, NEW S, NEW T, NEW U, NEW R,
           b.open[in] \in Nat, c.open[in] \in Nat, d.open[in] \in Nat,
           Kept(b, c, ord, in, S, R), Kept(c, d, ord, in, T, R), S \union T \subseteq U
    PROVE  Kept(b, d, ord, in, U, R)
PROOF
  <1>1. Later(b, d, ord, R)
    BY LaterTransitive DEF Kept
  <1> QED
    BY <1>1 DEF Kept

\* No step keeps everything.
LEMMA KeptSame ==
    ASSUME NEW ord, Objects(ord), NEW in \in OrderId, NEW b \in BookType, NEW S, NEW R
    PROVE  Kept(b, b, ord, in, S, R)
PROOF
  <1>1. Later(b, b, ord, R)
    BY LaterSame
  <1>2. b.open[in] \in Nat
    BY DEF BookType
  <1> QED
    BY <1>1, <1>2 DEF Kept

\* The types of a sound book's fields.
LEMMA SoundOpen ==
    ASSUME NEW b, NEW ord, NEW in \in OrderId, SoundBook(b, ord, in)
    PROVE  /\ b \in BookType
           /\ b.open \in [OrderId -> Nat] /\ b.open[in] \in Nat
           /\ b.bids \in Seq(OrderId) /\ b.asks \in Seq(OrderId)
  BY DEF SoundBook, BookType

\* What it takes to be a partner: to rest on the other side at a price that
\* matches.
LEMMA OppositeFacts ==
    ASSUME NEW ord, Objects(ord), NEW in \in DOMAIN ord, NEW b, SoundBook(b, ord, in),
           NEW e \in ToSet(Opposite(b, ord, in))
    PROVE  /\ e \in DOMAIN ord /\ e \in OrderId /\ e # in
           /\ ord[e].buy # ord[in].buy
           /\ Rests(b, e) /\ b.open[e] > 0 /\ e \in b.orders
           /\ MatchesPrice(ord[e].buy, ord[e].price, ord[in].price) => Partners(ord, in, e)
PROOF
  <1>1. ord[in].buy \in BOOLEAN
    BY ObjectTerms
  <1>2. e \in DOMAIN ord /\ ord[e].buy # ord[in].buy /\ Rests(b, e)
    BY <1>1 DEF SoundBook, Opposite, Rests
  <1>3. e # in /\ e \in OrderId
    BY <1>2 DEF Objects
  <1>4. b.open[e] > 0 /\ e \in b.orders
    BY <1>2, <1>3 DEF SoundBook
  <1> QED
    BY <1>2, <1>3, <1>4 DEF Partners

\* An order leaves the book: it is erased from the registry and from its
\* side, and an event of this kind is queued.
Leaves(b, u, e, kind) ==
    u = Queue(EraseEntry([b EXCEPT !.orders = @ \ {e}], e),
              [type |-> kind, order |-> e, quantity |-> b.open[e]])

\* Queueing a callback touches the callbacks only.
LEMMA QueueFacts ==
    ASSUME NEW b \in BookType, NEW cb \in Callback
    PROVE  LET u == Queue(b, cb)
           IN  /\ u \in BookType
               /\ u.orders = b.orders /\ u.bids = b.bids /\ u.asks = b.asks /\ u.open = b.open
               /\ u.expired = b.expired /\ u.undefined = b.undefined
               /\ u.callbacks = Append(b.callbacks, cb)
PROOF
  <1>1. Append(b.callbacks, cb) \in Seq(Callback)
    BY DEF BookType
  <1> QED
    BY <1>1 DEF Queue, BookType

\* The event a callback of this kind makes of an order.
EventOf == [timeout |-> "Timeout", cancel |-> "Cancelled"]

\* What that does, r and s being what is reported with b and with u.
Left(b, u, ord, e, kind, r, s) ==
    /\ u \in BookType /\ Distinct(u.bids) /\ Distinct(u.asks)
    /\ ToSet(u.bids) = ToSet(b.bids) \ {e}
    /\ ToSet(u.asks) = ToSet(b.asks) \ {e}
    /\ e \notin ToSet(b.bids) => u.bids = b.bids
    /\ e \notin ToSet(b.asks) => u.asks = b.asks
    /\ SameOrder(b, u)
    /\ u.open = b.open /\ u.orders = b.orders \ {e}
    /\ u.expired = b.expired /\ u.undefined = b.undefined
    /\ SoundReports(s, ord)
    /\ s[e].state = EventOf[kind] /\ s[e].onMarket = 0 /\ s[e].filled = r[e].filled
    /\ \A x \in DOMAIN ord \ {e} : s[x] = r[x]

\* An order that leaves the book by a time-out or a cancel is gone from both
\* sides and from the registry, and its report says so.
LEMMA LeavesFacts ==
    ASSUME NEW ord, Objects(ord), NEW b \in BookType, Distinct(b.bids), Distinct(b.asks),
           NEW e \in DOMAIN ord, NEW kind \in {"timeout", "cancel"}, NEW u, Leaves(b, u, e, kind),
           NEW R, SoundReports(Rep(R, ord, b), ord)
    PROVE  Left(b, u, ord, e, kind, Rep(R, ord, b), Rep(R, ord, u))
PROOF
  <1> DEFINE r == Rep(R, ord, b)
             s == Rep(R, ord, u)
             c == [b EXCEPT !.orders = @ \ {e}]
             d == EraseEntry(c, e)
             cb == [type |-> kind, order |-> e, quantity |-> b.open[e]]
  <1>1. e \in OrderId /\ EventOf[kind] \in Terminal
    BY DEF Objects, EventOf, Terminal
  <1>2. /\ c \in BookType /\ c.bids = b.bids /\ c.asks = b.asks /\ c.open = b.open
        /\ c.orders = b.orders \ {e} /\ c.callbacks = b.callbacks
        /\ c.expired = b.expired /\ c.undefined = b.undefined
        /\ b.callbacks \in Seq(Callback) /\ b.open \in [OrderId -> Nat]
    BY DEF BookType
  <1> HIDE DEF c
  <1>3. /\ d \in BookType
        /\ Distinct(d.bids) /\ Distinct(d.asks)
        /\ ToSet(d.bids) = ToSet(b.bids) \ {e}
        /\ ToSet(d.asks) = ToSet(b.asks) \ {e}
        /\ e \notin ToSet(b.bids) => d.bids = b.bids
        /\ e \notin ToSet(b.asks) => d.asks = b.asks
        /\ d.orders = c.orders /\ d.open = c.open /\ d.expired = c.expired
        /\ d.callbacks = c.callbacks /\ d.undefined = c.undefined
        /\ SameOrder(b, d)
    <2>1. /\ d \in BookType
          /\ Distinct(d.bids) /\ Distinct(d.asks)
          /\ ToSet(d.bids) = ToSet(c.bids) \ {e}
          /\ ToSet(d.asks) = ToSet(c.asks) \ {e}
          /\ e \notin ToSet(c.bids) => d.bids = c.bids
          /\ e \notin ToSet(c.asks) => d.asks = c.asks
          /\ d.orders = c.orders /\ d.open = c.open /\ d.expired = c.expired
          /\ d.callbacks = c.callbacks /\ d.undefined = c.undefined
          /\ SameOrder(c, d)
      <3>1. c \in BookType /\ Distinct(c.bids) /\ Distinct(c.asks)
        BY <1>2
      <3> QED
        BY <3>1, EraseFacts
    <2> HIDE DEF d
    <2>2. SameOrder(b, d)
      BY <1>2, <2>1 DEF SameOrder
    <2> QED
      BY <1>2, <2>1, <2>2
  <1>4. cb \in Callback
    BY <1>1, <1>2 DEF Callback
  <1>5. u = Queue(d, cb)
    BY DEF Leaves, c
  <1> HIDE DEF d, cb
  <1>6. /\ u \in BookType /\ u.bids = d.bids /\ u.asks = d.asks /\ u.open = d.open
        /\ u.orders = d.orders /\ u.callbacks = Append(d.callbacks, cb)
        /\ u.expired = d.expired /\ u.undefined = d.undefined
    BY <1>3, <1>4, <1>5, QueueFacts
  <1>7. s = Write(r, ord, cb)
    BY <1>2, <1>3, <1>4, <1>6, DeliverAppend DEF Rep
  <1>8. r \in [DOMAIN ord -> Report] /\ \A x \in DOMAIN ord : WithinLimit(ord[x], r[x])
    BY DEF SoundReports, Reports
  <1> HIDE DEF r, s
  <1>9. /\ s[e] = Ended(r[e], EventOf[kind]) /\ \A x \in DOMAIN ord \ {e} : s[x] = r[x]
        /\ s \in [DOMAIN ord -> Report]
    <2>1. s = [r EXCEPT ![e] = Ended(@, EventOf[kind])]
      <3>1. CASE kind = "timeout"
        BY <1>7, <3>1 DEF Write, cb, EventOf
      <3>2. CASE kind = "cancel"
        BY <1>7, <3>2 DEF Write, cb, EventOf
      <3> QED
        BY <3>1, <3>2
    <2>2. Ended(r[e], EventOf[kind]) \in Report
      BY <1>1, <1>8, EndedFacts
    <2> QED
      BY <1>8, <2>1, <2>2
  <1>10. /\ s[e].state = EventOf[kind] /\ s[e].onMarket = 0
         /\ s[e].filled = r[e].filled /\ s[e].cost = r[e].cost
    BY <1>1, <1>8, <1>9, EndedFacts
  <1>11. SoundReports(s, ord)
    <2>1. \A x \in DOMAIN ord : WithinLimit(ord[x], s[x])
      BY <1>8, <1>9, <1>10 DEF WithinLimit
    <2> QED
      BY <1>9, <2>1 DEF SoundReports, Reports
  <1>12. SameOrder(b, u)
    BY <1>3, <1>6 DEF SameOrder
  <1> QED
    BY <1>2, <1>3, <1>6, <1>9, <1>10, <1>11, <1>12 DEF Left, r, s

\* A resting order is timed out.
LEMMA TimedOutFacts ==
    ASSUME NEW ord, Objects(ord), NEW in \in DOMAIN ord, NEW b, SoundBook(b, ord, in),
           NEW e \in ToSet(Opposite(b, ord, in)),
           NEW R, SoundReports(Rep(R, ord, b), ord)
    PROVE  LET u == TimedOut(b, e)
           IN  /\ SoundBook(u, ord, in)
               /\ SoundReports(Rep(R, ord, u), ord)
               /\ Kept(b, u, ord, in, {e}, R)
               /\ u.open = b.open /\ e \notin u.orders
               /\ Exact(b, Rep(R, ord, b), ord, in) => Exact(u, Rep(R, ord, u), ord, in)
PROOF
  <1> DEFINE u == TimedOut(b, e)
             r == Rep(R, ord, b)
             s == Rep(R, ord, u)
  <1>1. /\ e \in DOMAIN ord /\ e \in OrderId /\ e # in
        /\ ord[e].buy # ord[in].buy
        /\ Rests(b, e) /\ b.open[e] > 0 /\ e \in b.orders
        /\ in \in OrderId
        /\ ord[e].buy \in BOOLEAN /\ ord[in].buy \in BOOLEAN
        /\ ord[e].qty \in Nat
        /\ DOMAIN ord \subseteq OrderId
    BY OppositeFacts, ObjectTerms DEF Objects
  <1>2. /\ b \in BookType /\ Distinct(b.bids) /\ Distinct(b.asks)
        /\ b.open \in [OrderId -> Nat]
    BY DEF SoundBook, BookType
  <1> DEFINE kind == "timeout"
  <1>3. Leaves(b, u, e, kind)
    BY DEF TimedOut, Leaves
  <1>4. /\ u \in BookType /\ Distinct(u.bids) /\ Distinct(u.asks)
        /\ ToSet(u.bids) = ToSet(b.bids) \ {e}
        /\ ToSet(u.asks) = ToSet(b.asks) \ {e}
        /\ e \notin ToSet(b.bids) => u.bids = b.bids
        /\ e \notin ToSet(b.asks) => u.asks = b.asks
        /\ u.open = b.open /\ u.orders = b.orders \ {e} /\ u.undefined = b.undefined
        /\ SoundReports(s, ord)
        /\ s[e].state = EventOf[kind] /\ s[e].onMarket = 0 /\ s[e].filled = r[e].filled
        /\ \A x \in DOMAIN ord \ {e} : s[x] = r[x]
        /\ SameOrder(b, u)
    <2>1. kind \in {"timeout", "cancel"}
      OBVIOUS
    <2> HIDE DEF u, kind
    <2>2. Left(b, u, ord, e, kind, r, s)
      BY <1>1, <1>2, <1>3, <2>1, LeavesFacts
    <2> QED
      BY <2>2 DEF Left
  <1> DEFINE cb == [type |-> kind, order |-> e, quantity |-> b.open[e]]
  <1>5. /\ cb \in Callback /\ b.callbacks \in Seq(Callback)
        /\ u.callbacks = Append(b.callbacks, cb)
        /\ \A c \in ToSet(u.callbacks) : c \in ToSet(b.callbacks) \/ (c.type = "timeout" /\ c.order = e)
    <2>1. cb \in Callback /\ b.callbacks \in Seq(Callback)
      BY <1>1, <1>2 DEF Callback, BookType
    <2>2. u.callbacks = Append(b.callbacks, cb)
      BY <1>2 DEF TimedOut, Queue, EraseEntry, BookType
    <2>3. cb.type = "timeout" /\ cb.order = e
      OBVIOUS
    <2> HIDE DEF u, cb
    <2> QED
      BY <2>1, <2>2, <2>3, AppendMembers
  <1>6. Told(b, ord, R) => Told(u, ord, R)
    <2>1. b.orders \subseteq DOMAIN ord /\ r \in Reports(ord)
      BY DEF SoundBook, SoundReports
    <2>2. cb = [type |-> "timeout", order |-> e, quantity |-> b.open[e]]
      OBVIOUS
    <2> SUFFICES ASSUME Told(b, ord, R) PROVE Told(u, ord, R)
      OBVIOUS
    <2>3. u.orders = b.orders \ {e} /\ u.open = b.open /\ u.callbacks = Append(b.callbacks, cb)
      BY <1>4, <1>5
    <2>4. Rep(R, ord, b) \in Reports(ord) /\ e \in b.orders /\ b \in BookType /\ cb \in Callback
      BY <1>1, <1>2, <1>5, <2>1
    <2> HIDE DEF u, cb, kind, r
    <2> QED
      BY <2>1, <2>2, <2>3, <2>4, ToldLeft
  <1> HIDE DEF r, s, u, cb
  <1>7. SoundBook(u, ord, in)
    <2>1. \A x \in OrderId \ {in} : Rests(u, x) => x # e /\ Rests(b, x)
      BY <1>4 DEF Rests
    <2> QED
      BY <1>1, <1>4, <2>1 DEF SoundBook
  <1>8. Kept(b, u, ord, in, {e}, R)
    <2>1. e \notin ToSet(Own(b, ord, in))
      BY <1>1, SideFacts
    <2>2. \A x \in DOMAIN ord : s[x].filled = r[x].filled /\ b.open[x] \in Nat
      BY <1>1, <1>2, <1>4
    <2>3. Later(b, u, ord, R)
      BY <1>4, <1>6, <2>2 DEF Later, r, s
    <2> QED
      BY <1>1, <1>2, <1>4, <1>5, <2>1, <2>3 DEF Kept, Own, Opposite
  <1>9. ASSUME Exact(b, r, ord, in) PROVE Exact(u, s, ord, in)
    <2>1. ASSUME NEW x \in DOMAIN ord \ {in, e} PROVE Agree(u, s, ord, x)
      <3>1. Agree(b, r, ord, x) /\ x \in OrderId
        BY <1>1, <1>9 DEF Exact
      <3>2. Rests(u, x) <=> Rests(b, x)
        BY <1>4 DEF Rests
      <3> QED
        BY <1>4, <3>1, <3>2 DEF Agree, Live, Gone
    <2>2. Agree(u, s, ord, e)
      <3>1. Live(b, r, ord, e) /\ (ord[e].aon => b.open[e] = ord[e].qty)
        BY <1>1, <1>9 DEF Exact, Agree
      <3>2. ~Rests(u, e)
        BY <1>4 DEF Rests
      <3>3. r[e].filled = ord[e].qty - b.open[e] /\ b.open[e] \in Nat
        BY <1>1, <1>2, <3>1 DEF Live
      <3> QED
        BY <1>1, <1>4, <3>1, <3>2, <3>3 DEF Agree, Gone, Terminal, EventOf
    <2>3. IF u.open[in] > 0 THEN Live(u, s, ord, in) ELSE Gone(u, s, ord, in)
      BY <1>1, <1>4, <1>9 DEF Exact, Live, Gone
    <2>4. ~u.undefined
      BY <1>4, <1>9 DEF Exact
    <2> QED
      BY <2>1, <2>2, <2>3, <2>4 DEF Exact
  <1> QED
    BY <1>4, <1>7, <1>8, <1>9 DEF u, r, s

-----------------------------------------------------------------------------
(***************************************************************************)
(* try_create_deferred_trades.                                             *)
(***************************************************************************)

\* An entry of the plan: how much a deferred order gives.
PlannedFill == [id : OrderId, quantity : Nat]

\* The plan grows entry by entry.
LEMMA FillsRun ==
    ASSUME NEW b, NEW ord, NEW matches \in Seq(OrderId), NEW maxQty
    PROVE  \E r : /\ r[0] = [found |-> 0, fills |-> << >>]
                  /\ \A i \in 1..Len(matches) : r[i] = Give(b, ord, maxQty, r[i - 1], matches[i])
                  /\ Fills(b, ord, matches, maxQty) = r[Len(matches)]
PROOF
  <1> DEFINE Run(k, g) == g = [i \in 0..k |-> IF i = 0 THEN [found |-> 0, fills |-> << >>] ELSE Give(b, ord, maxQty, g[i - 1], matches[i])]
             K == {k \in Nat : \E g : Run(k, g)}
  <1>1. 0 \in K
    <2>1. Run(0, [i \in 0..0 |-> [found |-> 0, fills |-> << >>]])
      OBVIOUS
    <2> QED
      BY <2>1
  <1>2. ASSUME NEW k \in Nat, k \in K PROVE k + 1 \in K
    <2>1. PICK g : Run(k, g)
      BY <1>2
    <2> DEFINE h == [i \in 0..(k + 1) |-> IF i =< k THEN g[i] ELSE Give(b, ord, maxQty, g[k], matches[k + 1])]
    <2>2. ASSUME NEW i \in 0..(k + 1)
          PROVE  h[i] = IF i = 0 THEN [found |-> 0, fills |-> << >>] ELSE Give(b, ord, maxQty, h[i - 1], matches[i])
      <3>1. CASE i =< k
        <4>1. h[i] = g[i] /\ (i # 0 => h[i - 1] = g[i - 1])
          BY <3>1
        <4>2. g[i] = IF i = 0 THEN [found |-> 0, fills |-> << >>] ELSE Give(b, ord, maxQty, g[i - 1], matches[i])
          BY <2>1, <3>1
        <4> QED
          BY <4>1, <4>2
      <3>2. CASE i = k + 1
        BY <3>2
      <3> QED
        BY <3>1, <3>2
    <2>3. Run(k + 1, h)
      BY <2>2
    <2> HIDE DEF h, Run
    <2>4. \E f : Run(k + 1, f)
      BY <2>3
    <2> QED
      BY <2>4
  <1>3. Nat \subseteq K
    <2> HIDE DEF K
    <2> QED
      BY <1>1, <1>2, SetInduction
  <1>4. PICK g : Run(Len(matches), g)
    <2>1. Len(matches) \in Nat
      OBVIOUS
    <2> QED
      BY <1>3, <2>1
  <1> DEFINE r == CHOOSE f : f = [i \in 0..Len(matches) |-> IF i = 0 THEN [found |-> 0, fills |-> << >>] ELSE Give(b, ord, maxQty, f[i - 1], matches[i])]
  <1>5. r = [i \in 0..Len(matches) |-> IF i = 0 THEN [found |-> 0, fills |-> << >>] ELSE Give(b, ord, maxQty, r[i - 1], matches[i])]
    BY <1>4
  <1>6. Fills(b, ord, matches, maxQty) = r[Len(matches)]
    BY DEF Fills
  <1> HIDE DEF r
  <1>7. Len(matches) \in Nat
    OBVIOUS
  <1>8. r[0] = [found |-> 0, fills |-> << >>] /\ \A i \in 1..Len(matches) : r[i] = Give(b, ord, maxQty, r[i - 1], matches[i])
    BY <1>5, <1>7
  <1> QED
    BY <1>6, <1>8

\* The planned trades are made one after the other.
LEMMA MakeTradesRun ==
    ASSUME NEW b, NEW ord, NEW in, NEW plan, plan.fills \in Seq(PlannedFill)
    PROVE  \E r : /\ r[0] = b
                  /\ \A i \in 1..Len(plan.fills) : r[i] = MakeTrade(b, ord, in, plan.found, r[i - 1], plan.fills[i])
                  /\ MakeTrades(b, ord, in, plan) = r[Len(plan.fills)]
PROOF
  <1> DEFINE Run(k, g) == g = [i \in 0..k |-> IF i = 0 THEN b ELSE MakeTrade(b, ord, in, plan.found, g[i - 1], plan.fills[i])]
             K == {k \in Nat : \E g : Run(k, g)}
  <1>1. 0 \in K
    <2>1. Run(0, [i \in 0..0 |-> b])
      OBVIOUS
    <2> QED
      BY <2>1
  <1>2. ASSUME NEW k \in Nat, k \in K PROVE k + 1 \in K
    <2>1. PICK g : Run(k, g)
      BY <1>2
    <2> DEFINE h == [i \in 0..(k + 1) |-> IF i =< k THEN g[i] ELSE MakeTrade(b, ord, in, plan.found, g[k], plan.fills[k + 1])]
    <2>2. ASSUME NEW i \in 0..(k + 1)
          PROVE  h[i] = IF i = 0 THEN b ELSE MakeTrade(b, ord, in, plan.found, h[i - 1], plan.fills[i])
      <3>1. CASE i =< k
        <4>1. h[i] = g[i] /\ (i # 0 => h[i - 1] = g[i - 1])
          BY <3>1
        <4>2. g[i] = IF i = 0 THEN b ELSE MakeTrade(b, ord, in, plan.found, g[i - 1], plan.fills[i])
          BY <2>1, <3>1
        <4> QED
          BY <4>1, <4>2
      <3>2. CASE i = k + 1
        BY <3>2
      <3> QED
        BY <3>1, <3>2
    <2>3. Run(k + 1, h)
      BY <2>2
    <2> HIDE DEF h, Run
    <2>4. \E f : Run(k + 1, f)
      BY <2>3
    <2> QED
      BY <2>4
  <1>3. Nat \subseteq K
    <2> HIDE DEF K
    <2> QED
      BY <1>1, <1>2, SetInduction
  <1>4. PICK g : Run(Len(plan.fills), g)
    <2>1. Len(plan.fills) \in Nat
      OBVIOUS
    <2> QED
      BY <1>3, <2>1
  <1> DEFINE r == CHOOSE f : f = [i \in 0..Len(plan.fills) |-> IF i = 0 THEN b ELSE MakeTrade(b, ord, in, plan.found, f[i - 1], plan.fills[i])]
  <1>5. r = [i \in 0..Len(plan.fills) |-> IF i = 0 THEN b ELSE MakeTrade(b, ord, in, plan.found, r[i - 1], plan.fills[i])]
    BY <1>4
  <1>6. MakeTrades(b, ord, in, plan) = r[Len(plan.fills)]
    BY DEF MakeTrades
  <1> HIDE DEF r
  <1>7. Len(plan.fills) \in Nat
    OBVIOUS
  <1>8. r[0] = b /\ \A i \in 1..Len(plan.fills) : r[i] = MakeTrade(b, ord, in, plan.found, r[i - 1], plan.fills[i])
    BY <1>5, <1>7
  <1> QED
    BY <1>6, <1>8

\* P[j] is what the first j planned fills add up to.
Sums(P, fills, found) ==
    /\ P \in [0..Len(fills) -> Nat]
    /\ P[0] = 0 /\ P[Len(fills)] = found
    /\ \A j \in 1..Len(fills) : P[j] = P[j - 1] + fills[j].quantity
    /\ \A j \in 0..Len(fills) : P[j] =< found

\* A plan takes of each order what it has, of an AON order all or nothing.
Planned(b, ord, matches, plan) ==
    /\ plan.found \in Nat
    /\ plan.fills \in Seq(PlannedFill)
    /\ Len(plan.fills) =< Len(matches)
    /\ \A j \in 1..Len(plan.fills) :
           LET fill == plan.fills[j]
           IN  /\ fill.id = matches[j]
               /\ fill.quantity =< b.open[fill.id]
               /\ ord[fill.id].aon => fill.quantity \in {0, b.open[fill.id]}
    /\ \E P : Sums(P, plan.fills, plan.found)

\* The plan after k of the orders.
PlannedTo(b, ord, matches, maxQty, plan, k) ==
    /\ Planned(b, ord, matches, plan)
    /\ Len(plan.fills) =< k
    /\ Len(plan.fills) < k => maxQty =< plan.found

\* The partial sums of a longer plan.
LEMMA SumsAppend ==
    ASSUME NEW fills \in Seq(PlannedFill), NEW found \in Nat,
           NEW P, Sums(P, fills, found), NEW fill \in PlannedFill
    PROVE  \E Q : Sums(Q, Append(fills, fill), found + fill.quantity)
PROOF
  <1> DEFINE n == Len(fills)
             s == Append(fills, fill)
             Q == [j \in 0..(n + 1) |-> IF j = n + 1 THEN found + fill.quantity ELSE P[j]]
  <1>1. n \in Nat /\ Len(s) = n + 1 /\ s[n + 1] = fill /\ \A j \in 1..n : s[j] = fills[j]
    OBVIOUS
  <1>2. fill.quantity \in Nat
    BY DEF PlannedFill
  <1>3. /\ P \in [0..n -> Nat] /\ P[0] = 0 /\ P[n] = found
        /\ \A j \in 1..n : P[j] = P[j - 1] + fills[j].quantity
        /\ \A j \in 0..n : P[j] =< found
    BY DEF Sums
  <1> HIDE DEF n, s
  <1>4. Q \in [0..(n + 1) -> Nat] /\ Q[0] = 0 /\ Q[n + 1] = found + fill.quantity
    BY <1>1, <1>2, <1>3
  <1>5. ASSUME NEW j \in 1..(n + 1) PROVE Q[j] = Q[j - 1] + s[j].quantity
    <2>1. CASE j = n + 1
      BY <1>1, <1>2, <1>3, <2>1
    <2>2. CASE j # n + 1
      <3>1. j \in 1..n /\ j - 1 \in 0..n /\ j - 1 # n + 1
        BY <1>1, <2>2
      <3>2. Q[j] = P[j] /\ Q[j - 1] = P[j - 1] /\ s[j] = fills[j]
        BY <1>1, <2>2, <3>1
      <3> HIDE DEF Q
      <3> QED
        BY <1>3, <3>1, <3>2
    <2> QED
      BY <2>1, <2>2
  <1>6. ASSUME NEW j \in 0..(n + 1) PROVE Q[j] =< found + fill.quantity
    <2>1. CASE j = n + 1
      BY <1>1, <1>2, <2>1
    <2>2. CASE j # n + 1
      <3>1. j \in 0..n
        BY <1>1, <2>2
      <3>2. Q[j] = P[j] /\ P[j] \in Nat /\ P[j] =< found
        BY <1>3, <2>2, <3>1
      <3> HIDE DEF Q
      <3> QED
        BY <1>2, <3>2
    <2> QED
      BY <2>1, <2>2
  <1> HIDE DEF Q
  <1>7. Sums(Q, s, found + fill.quantity)
    BY <1>1, <1>4, <1>5, <1>6 DEF Sums
  <1> QED
    BY <1>7 DEF s

\* The plan for the deferred orders: no order gives more than it has open, an
\* all-or-none order gives all or nothing, and found is their sum.
LEMMA FillsFacts ==
    ASSUME NEW b \in BookType, NEW ord, Objects(ord), NEW matches \in Seq(DOMAIN ord), NEW maxQty \in Int
    PROVE  Planned(b, ord, matches, Fills(b, ord, matches, maxQty))
PROOF
  <1> DEFINE n == Len(matches)
             base == [found |-> 0, fills |-> << >>]
  <1>1. matches \in Seq(OrderId) /\ n \in Nat /\ \A i \in 1..n : matches[i] \in DOMAIN ord
    BY DEF Objects
  <1>2. PICK p : /\ p[0] = base
                 /\ \A i \in 1..n : p[i] = Give(b, ord, maxQty, p[i - 1], matches[i])
                 /\ Fills(b, ord, matches, maxQty) = p[n]
    BY <1>1, FillsRun
  <1> HIDE DEF n
  <1> DEFINE K == {k \in Nat : k =< n => PlannedTo(b, ord, matches, maxQty, p[k], k)}
  <1>3. 0 \in K
    <2>1. base.found = 0 /\ base.fills = << >> /\ Len(base.fills) = 0
      OBVIOUS
    <2>2. \E P : Sums(P, << >>, 0)
      <3>1. Sums([j \in 0..0 |-> 0], << >>, 0)
        BY DEF Sums
      <3> QED
        BY <3>1
    <2>3. << >> \in Seq(PlannedFill)
      OBVIOUS
    <2> HIDE DEF base
    <2>4. Planned(b, ord, matches, base)
      BY <1>1, <2>1, <2>2, <2>3 DEF Planned, n
    <2> QED
      BY <1>2, <2>1, <2>4 DEF PlannedTo
  <1>4. ASSUME NEW k \in Nat, k \in K PROVE k + 1 \in K
    <2> SUFFICES ASSUME k + 1 =< n PROVE PlannedTo(b, ord, matches, maxQty, p[k + 1], k + 1)
      OBVIOUS
    <2> DEFINE plan == p[k]
               e == matches[k + 1]
               room == maxQty - plan.found
               q == IF b.open[e] =< room THEN b.open[e] ELSE IF ord[e].aon THEN 0 ELSE room
               fill == [id |-> e, quantity |-> q]
    <2>1. k =< n /\ k + 1 \in 1..n /\ (k + 1) - 1 = k
      BY <1>1
    <2>2. PlannedTo(b, ord, matches, maxQty, plan, k)
      BY <1>4, <2>1
    <2>3. p[k + 1] = Give(b, ord, maxQty, plan, e)
      BY <1>2, <2>1
    <2>4. e \in DOMAIN ord /\ e \in OrderId /\ b.open[e] \in Nat /\ ord[e].aon \in BOOLEAN
      <3>1. e \in DOMAIN ord
        BY <1>1, <2>1
      <3>2. e \in OrderId /\ ord[e].aon \in BOOLEAN
        BY <3>1, ObjectTerms
      <3> QED
        BY <3>1, <3>2 DEF BookType
    <2>5. plan.found \in Nat /\ plan.fills \in Seq(PlannedFill) /\ Len(plan.fills) \in Nat
          /\ Len(plan.fills) =< k /\ (Len(plan.fills) < k => maxQty =< plan.found)
      BY <2>2 DEF PlannedTo, Planned
    <2> HIDE DEF plan, e
    <2>6. CASE ~(room > 0)
      <3>1. p[k + 1] = plan
        BY <2>3, <2>6 DEF Give
      <3>2. maxQty =< plan.found /\ Len(plan.fills) =< k + 1
        BY <2>5, <2>6
      <3> QED
        BY <2>2, <3>1, <3>2 DEF PlannedTo
    <2>7. CASE room > 0
      <3>1. p[k + 1] = [found |-> plan.found + q, fills |-> Append(plan.fills, fill)]
        BY <2>3, <2>7 DEF Give
      <3>2. q \in Nat /\ q =< b.open[e] /\ (ord[e].aon => q \in {0, b.open[e]})
        BY <2>4, <2>5, <2>7
      <3> HIDE DEF q
      <3>3. Len(plan.fills) = k
        BY <2>5, <2>7
      <3>4. fill \in PlannedFill /\ fill.id = e /\ fill.quantity = q
        BY <2>4, <3>2 DEF PlannedFill
      <3> HIDE DEF fill
      <3> DEFINE s == Append(plan.fills, fill)
      <3>5. s \in Seq(PlannedFill) /\ Len(s) = k + 1 /\ s[k + 1] = fill /\ \A j \in 1..k : s[j] = plan.fills[j]
        BY <2>5, <3>3, <3>4
      <3>6. PICK P : Sums(P, plan.fills, plan.found)
        BY <2>2 DEF PlannedTo, Planned
      <3>7. \E Q : Sums(Q, s, plan.found + q)
        BY <2>5, <3>4, <3>6, SumsAppend
      <3> HIDE DEF s
      <3>8. ASSUME NEW j \in 1..Len(s)
            PROVE  /\ s[j].id = matches[j]
                   /\ s[j].quantity =< b.open[s[j].id]
                   /\ ord[s[j].id].aon => s[j].quantity \in {0, b.open[s[j].id]}
        <4>1. CASE j = k + 1
          BY <3>2, <3>4, <3>5, <4>1 DEF e
        <4>2. CASE j # k + 1
          <5>1. j \in 1..k /\ s[j] = plan.fills[j]
            BY <3>5, <4>2
          <5> QED
            BY <2>2, <3>3, <5>1 DEF PlannedTo, Planned
        <4> QED
          BY <4>1, <4>2
      <3>9. p[k + 1].found = plan.found + q /\ p[k + 1].fills = s
        BY <3>1 DEF s
      <3>10. plan.found + q \in Nat /\ Len(s) =< Len(matches)
        BY <1>1, <2>1, <2>5, <3>2, <3>5 DEF n
      <3>11. Planned(b, ord, matches, p[k + 1])
        BY <3>5, <3>7, <3>8, <3>9, <3>10 DEF Planned
      <3> QED
        BY <3>5, <3>9, <3>11 DEF PlannedTo
    <2> QED
      BY <2>6, <2>7
  <1>5. Nat \subseteq K
    <2> HIDE DEF K
    <2> QED
      BY <1>3, <1>4, SetInduction
  <1>6. PlannedTo(b, ord, matches, maxQty, p[n], n)
    BY <1>1, <1>5
  <1> QED
    BY <1>2, <1>6 DEF PlannedTo

\* What is planned goes to the first orders first: one that is not
\* all-or-none gives all it has before a later one gives anything.
Greedy(b, ord, maxQty, plan) ==
    /\ plan.found \in Int /\ plan.fills \in Seq(PlannedFill)
    /\ plan.found < maxQty =>
           \A i \in 1..Len(plan.fills) :
               ~ord[plan.fills[i].id].aon => plan.fills[i].quantity = b.open[plan.fills[i].id]
    /\ \A i, j \in 1..Len(plan.fills) :
           i < j /\ ~ord[plan.fills[i].id].aon /\ plan.fills[j].quantity > 0 =>
               plan.fills[i].quantity = b.open[plan.fills[i].id]

LEMMA GiveGreedy ==
    ASSUME NEW b \in BookType, NEW ord, Objects(ord), NEW e \in DOMAIN ord, NEW maxQty \in Int,
           NEW plan, Greedy(b, ord, maxQty, plan)
    PROVE  Greedy(b, ord, maxQty, Give(b, ord, maxQty, plan, e))
PROOF
  <1> DEFINE room == maxQty - plan.found
             q == IF b.open[e] =< room THEN b.open[e] ELSE IF ord[e].aon THEN 0 ELSE room
             fill == [id |-> e, quantity |-> q]
             s == Append(plan.fills, fill)
             n == Len(plan.fills)
  <1>1. plan.found \in Int /\ plan.fills \in Seq(PlannedFill) /\ n \in Nat
    BY DEF Greedy
  <1>2. e \in OrderId /\ b.open[e] \in Nat /\ ord[e].aon \in BOOLEAN
    BY ObjectTerms DEF BookType
  <1>3. CASE ~(room > 0)
    <2>1. Give(b, ord, maxQty, plan, e) = plan
      BY <1>3 DEF Give
    <2> QED
      BY <2>1
  <1>4. CASE room > 0
    <2>1. Give(b, ord, maxQty, plan, e) = [found |-> plan.found + q, fills |-> s]
      BY <1>4 DEF Give
    <2>2. q \in Nat /\ plan.found + q \in Int /\ plan.found < maxQty
      BY <1>1, <1>2, <1>4
    <2>3. fill \in PlannedFill /\ fill.id = e /\ fill.quantity = q
      BY <1>2, <2>2 DEF PlannedFill
    <2>4. ASSUME plan.found + q < maxQty, ~ord[e].aon PROVE q = b.open[e]
      BY <1>1, <1>2, <2>4
    <2> HIDE DEF fill, q
    <2>5. /\ s \in Seq(PlannedFill) /\ Len(s) = n + 1 /\ s[n + 1] = fill
          /\ \A i \in 1..n : s[i] = plan.fills[i]
      BY <1>1, <2>3
    <2> HIDE DEF s
    <2>6. ASSUME NEW i \in 1..n, ~ord[s[i].id].aon PROVE s[i].quantity = b.open[s[i].id]
      <3>1. s[i] = plan.fills[i]
        BY <2>5
      <3> QED
        BY <2>2, <2>6, <3>1 DEF Greedy
    <2>7. ASSUME plan.found + q < maxQty, NEW i \in 1..(n + 1), ~ord[s[i].id].aon
          PROVE  s[i].quantity = b.open[s[i].id]
      <3>1. CASE i = n + 1
        BY <2>3, <2>4, <2>5, <2>7, <3>1
      <3>2. CASE i # n + 1
        BY <1>1, <2>6, <2>7, <3>2
      <3> QED
        BY <3>1, <3>2
    <2>8. ASSUME NEW i \in 1..(n + 1), NEW j \in 1..(n + 1), i < j, ~ord[s[i].id].aon
          PROVE  s[i].quantity = b.open[s[i].id]
      <3>1. i \in 1..n
        BY <1>1, <2>8
      <3> QED
        BY <2>6, <2>8, <3>1
    <2> QED
      BY <2>1, <2>2, <2>5, <2>7, <2>8 DEF Greedy
  <1> QED
    BY <1>3, <1>4

LEMMA FillsGreedy ==
    ASSUME NEW b \in BookType, NEW ord, Objects(ord), NEW matches \in Seq(DOMAIN ord), NEW maxQty \in Int
    PROVE  Greedy(b, ord, maxQty, Fills(b, ord, matches, maxQty))
PROOF
  <1> DEFINE n == Len(matches)
  <1>1. matches \in Seq(OrderId) /\ n \in Nat /\ \A i \in 1..n : matches[i] \in DOMAIN ord
    BY DEF Objects
  <1>2. PICK p : /\ p[0] = [found |-> 0, fills |-> << >>]
                 /\ \A i \in 1..n : p[i] = Give(b, ord, maxQty, p[i - 1], matches[i])
                 /\ Fills(b, ord, matches, maxQty) = p[n]
    BY <1>1, FillsRun
  <1> HIDE DEF n
  <1> DEFINE K == {k \in Nat : k =< n => Greedy(b, ord, maxQty, p[k])}
  <1>3. 0 \in K
    <2>1. p[0].found = 0 /\ p[0].fills = << >>
      BY <1>2
    <2>2. << >> \in Seq(PlannedFill) /\ 1..Len(<< >>) = {}
      OBVIOUS
    <2>3. Greedy(b, ord, maxQty, p[0])
      BY <2>1, <2>2 DEF Greedy
    <2> QED
      BY <2>3
  <1>4. ASSUME NEW k \in Nat, k \in K PROVE k + 1 \in K
    <2> SUFFICES ASSUME k + 1 =< n PROVE Greedy(b, ord, maxQty, p[k + 1])
      OBVIOUS
    <2>1. k + 1 \in 1..n /\ (k + 1) - 1 = k /\ Greedy(b, ord, maxQty, p[k])
      BY <1>1, <1>4
    <2>2. p[k + 1] = Give(b, ord, maxQty, p[k], matches[k + 1])
      BY <1>2, <2>1
    <2> QED
      BY <1>1, <2>1, <2>2, GiveGreedy
  <1>5. Nat \subseteq K
    <2> HIDE DEF K
    <2> QED
      BY <1>3, <1>4, SetInduction
  <1> QED
    BY <1>1, <1>2, <1>5

\* W[k] is what the first k orders of s have open.
Weighs(W, open, s) ==
    /\ W \in [0..Len(s) -> Nat] /\ W[0] = 0
    /\ \A j \in 1..Len(s) : W[j] = W[j - 1] + open[s[j]]
    /\ \A j \in 0..Len(s) : W[j] =< W[Len(s)]

\* The first k orders give all they have.
WholeTo(b, matches, W, plan, k) ==
    /\ plan.found = W[k]
    /\ plan.fills \in Seq(PlannedFill) /\ Len(plan.fills) = k
    /\ \A j \in 1..k : /\ plan.fills[j].id = matches[j]
                       /\ plan.fills[j].quantity = b.open[matches[j]]

\* If no more than maxQty is open in all, everything is planned.
LEMMA FillsWhole ==
    ASSUME NEW b \in BookType, NEW ord, Objects(ord), NEW matches \in Seq(DOMAIN ord), NEW maxQty \in Int,
           \A x \in ToSet(matches) : b.open[x] > 0,
           NEW W, Weighs(W, b.open, matches), W[Len(matches)] =< maxQty
    PROVE  WholeTo(b, matches, W, Fills(b, ord, matches, maxQty), Len(matches))
PROOF
  <1> DEFINE n == Len(matches)
  <1>1. /\ matches \in Seq(OrderId) /\ n \in Nat
        /\ \A i \in 1..n : /\ matches[i] \in DOMAIN ord /\ matches[i] \in OrderId
                           /\ b.open[matches[i]] \in Nat /\ b.open[matches[i]] > 0
    <2>1. matches \in Seq(OrderId) /\ n \in Nat
      BY DEF Objects
    <2>2. ASSUME NEW i \in 1..n
          PROVE  /\ matches[i] \in DOMAIN ord /\ matches[i] \in OrderId
                 /\ b.open[matches[i]] \in Nat /\ b.open[matches[i]] > 0
      <3>1. matches[i] \in DOMAIN ord /\ matches[i] \in OrderId /\ matches[i] \in ToSet(matches)
        BY <2>1 DEF Objects, ToSet
      <3> QED
        BY <3>1 DEF BookType
    <2> QED
      BY <2>1, <2>2
  <1>2. PICK p : /\ p[0] = [found |-> 0, fills |-> << >>]
                 /\ \A i \in 1..n : p[i] = Give(b, ord, maxQty, p[i - 1], matches[i])
                 /\ Fills(b, ord, matches, maxQty) = p[n]
    <2>1. matches \in Seq(OrderId)
      BY <1>1
    <2> QED
      BY <2>1, FillsRun
  <1>3. /\ W \in [0..n -> Nat] /\ W[0] = 0 /\ W[n] =< maxQty
        /\ \A j \in 1..n : W[j] = W[j - 1] + b.open[matches[j]]
        /\ \A j \in 0..n : W[j] =< W[n]
    BY DEF Weighs
  <1> HIDE DEF n
  <1> DEFINE K == {k \in Nat : k =< n => WholeTo(b, matches, W, p[k], k)}
  <1>4. 0 \in K
    <2>1. p[0].found = 0 /\ p[0].fills = << >>
      BY <1>2
    <2>2. << >> \in Seq(PlannedFill) /\ Len(<< >>) = 0
      OBVIOUS
    <2>3. WholeTo(b, matches, W, p[0], 0)
      BY <1>3, <2>1, <2>2 DEF WholeTo
    <2> QED
      BY <2>3
  <1>5. ASSUME NEW k \in Nat, k \in K PROVE k + 1 \in K
    <2> SUFFICES ASSUME k + 1 =< n PROVE WholeTo(b, matches, W, p[k + 1], k + 1)
      OBVIOUS
    <2> DEFINE plan == p[k]
               e == matches[k + 1]
               fill == [id |-> e, quantity |-> b.open[e]]
               s == Append(plan.fills, fill)
    <2>1. k + 1 \in 1..n /\ k \in 0..n /\ k + 1 \in 0..n /\ n \in 0..n /\ (k + 1) - 1 = k
          /\ WholeTo(b, matches, W, plan, k)
      BY <1>1, <1>5
    <2>2. p[k + 1] = Give(b, ord, maxQty, plan, e)
      BY <1>2, <2>1
    <2>3. e \in DOMAIN ord /\ e \in OrderId /\ b.open[e] \in Nat /\ b.open[e] > 0
      BY <1>1, <2>1
    <2>4. W[k + 1] = W[k] + b.open[e] /\ W[k + 1] =< maxQty /\ W[k] \in Nat /\ W[k + 1] \in Nat
      <3>1. W[k + 1] = W[k] + b.open[e] /\ W[k + 1] =< W[n] /\ W[n] =< maxQty
        BY <1>3, <2>1
      <3>2. W[k] \in Nat /\ W[k + 1] \in Nat /\ W[n] \in Nat
        BY <1>3, <2>1
      <3> QED
        BY <3>1, <3>2
    <2> HIDE DEF plan, e
    <2>5. plan.found = W[k] /\ plan.fills \in Seq(PlannedFill) /\ Len(plan.fills) = k
      BY <2>1 DEF WholeTo
    <2>6. maxQty - plan.found > 0 /\ b.open[e] =< maxQty - plan.found
      BY <2>3, <2>4, <2>5
    <2>7. p[k + 1] = [found |-> plan.found + b.open[e], fills |-> s]
      BY <2>2, <2>6 DEF Give
    <2>8. fill \in PlannedFill /\ fill.id = e /\ fill.quantity = b.open[e]
      BY <2>3 DEF PlannedFill
    <2> HIDE DEF fill
    <2>9. /\ s \in Seq(PlannedFill) /\ Len(s) = k + 1 /\ s[k + 1] = fill
          /\ \A i \in 1..k : s[i] = plan.fills[i]
      BY <2>5, <2>8
    <2> HIDE DEF s
    <2>10. ASSUME NEW j \in 1..(k + 1)
           PROVE  s[j].id = matches[j] /\ s[j].quantity = b.open[matches[j]]
      <3>1. CASE j = k + 1
        BY <2>8, <2>9, <3>1 DEF e
      <3>2. CASE j # k + 1
        <4>1. j \in 1..k /\ s[j] = plan.fills[j]
          BY <2>9, <3>2
        <4> QED
          BY <2>1, <4>1 DEF WholeTo
      <3> QED
        BY <3>1, <3>2
    <2> QED
      BY <2>4, <2>5, <2>7, <2>9, <2>10 DEF WholeTo
  <1>6. Nat \subseteq K
    <2> HIDE DEF K
    <2> QED
      BY <1>4, <1>5, SetInduction
  <1> QED
    BY <1>1, <1>2, <1>6 DEF n

\* What was kept outside of a set was kept outside of a larger one.
LEMMA KeptMore ==
    ASSUME NEW b, NEW c, NEW ord, NEW in, NEW S, NEW U, NEW R, Kept(b, c, ord, in, S, R), S \subseteq U
    PROVE  Kept(b, c, ord, in, U, R)
  BY DEF Kept

\* A trade with e changes the tracker of no other resting order.
LEMMA MovedKept ==
    ASSUME NEW ord, NEW in, NEW e, Partners(ord, in, e), NEW b, NEW u, NEW max, NEW q \in Nat,
           SoundBook(b, ord, in), Rests(b, e), Moved(b, u, ord, in, e, q), Filling(b, u, ord, in, e, max, q),
           NEW R, SoundReports(Rep(R, ord, b), ord)
    PROVE  Kept(b, u, ord, in, {e}, R)
PROOF
  <1> DEFINE r == Rep(R, ord, b)
             s == Rep(R, ord, u)
  <1>1. in \in OrderId /\ e \in OrderId /\ in # e /\ DOMAIN ord \subseteq OrderId
    BY ObjectTerms DEF Partners, Objects
  <1>2. b.open \in [OrderId -> Nat] /\ q =< b.open[in] /\ q =< b.open[e]
    BY DEF SoundBook, BookType, Filling
  <1>3. /\ q = 0 => s = r
        /\ q > 0 => \A x \in DOMAIN ord \ {in, e} : s[x] = r[x]
    BY TradingReports
  <1> HIDE DEF r, s
  <1>4. /\ u.open[in] = b.open[in] - q /\ u.open[e] = b.open[e] - q
        /\ \A x \in OrderId \ {in, e} : u.open[x] = b.open[x]
        /\ SameOrder(b, u)
    BY <1>1, <1>2 DEF Moved
  <1>5. ASSUME NEW x \in DOMAIN ord
        PROVE  /\ b.open[x] \in Nat /\ u.open[x] \in Nat /\ u.open[x] =< b.open[x]
               /\ u.open[x] = b.open[x] => s[x].filled = r[x].filled
    <2>1. CASE x \in {in, e}
      BY <1>1, <1>2, <1>3, <1>4, <2>1
    <2>2. CASE x \notin {in, e}
      BY <1>1, <1>2, <1>3, <1>4, <2>2
    <2> QED
      BY <2>1, <2>2
  <1>6. u.orders \subseteq b.orders
    BY DEF Filling
  <1>7. Later(b, u, ord, R)
    BY <1>4, <1>5, <1>6, ToldFill DEF Later, r, s
  <1>8. \A cb \in ToSet(u.callbacks) :
            cb \in ToSet(b.callbacks) \/ (cb.type = "fill" /\ cb.order = in)
    <2>1. CASE q = 0
      BY <2>1 DEF Filling
    <2>2. CASE q # 0
      <3>1. PICK cb \in Callback : /\ cb.type = "fill" /\ cb.order = in
                                  /\ u.callbacks = Append(b.callbacks, cb)
        BY <2>2 DEF Filling
      <3>2. b.callbacks \in Seq(Callback)
        BY DEF SoundBook, BookType
      <3> QED
        BY <3>1, <3>2, AppendMembers
    <2> QED
      BY <2>1, <2>2
  <1> QED
    BY <1>1, <1>2, <1>4, <1>7, <1>8 DEF Moved, Kept

\* What one trade means for the match.
TradingGood(b, t, u, ord, in, e, max, R) ==
    /\ SoundBook(u, ord, in)
    /\ SoundReports(Rep(R, ord, u), ord)
    /\ Kept(b, u, ord, in, {e}, R)
    /\ Traded(b, t, in) = Traded(b, u, in) /\ t.open[in] = u.open[in]
    /\ Traded(b, u, in) \in Nat /\ u.open[e] = b.open[e] - Traded(b, u, in)
    /\ CrossPrice(b, ord, in, e) # Market =>
           /\ Traded(b, u, in) \in {max, b.open[in], b.open[e]}
           /\ Traded(b, u, in) =< max
           /\ Traded(b, u, in) =< b.open[in]
           /\ Traded(b, u, in) =< b.open[e]
    /\ /\ Exact(b, Rep(R, ord, b), ord, in)
       /\ Rests(b, e)
       /\ ord[e].aon => Traded(b, u, in) \in {0, b.open[e]}
       => Exact(u, Rep(R, ord, u), ord, in)

\* All of the above together.
LEMMA TradingFacts ==
    ASSUME NEW ord, NEW in, NEW e, Partners(ord, in, e),
           NEW b, SoundBook(b, ord, in), Rests(b, e), NEW max \in Nat,
           NEW t, NEW u, Trading(b, t, u, ord, in, e, max),
           NEW R, SoundReports(Rep(R, ord, b), ord)
    PROVE  TradingGood(b, t, u, ord, in, e, max, R)
PROOF
  <1>1. PICK q \in Nat :
               /\ SoundBook(u, ord, in)
               /\ Moved(b, u, ord, in, e, q)
               /\ Filling(b, u, ord, in, e, max, q)
               /\ q = Traded(b, t, in) /\ q = Traded(b, u, in) /\ t.open[in] = u.open[in]
               /\ Rests(b, e) /\ (ord[e].aon => q \in {0, b.open[e]})
                      => (Rests(u, e) <=> b.open[e] # q)
    BY TradingBook
  <1>2. SoundReports(Rep(R, ord, u), ord)
    BY <1>1, TradingReports
  <1>3. Kept(b, u, ord, in, {e}, R)
    BY <1>1, MovedKept
  <1>4. CrossPrice(b, ord, in, e) # Market =>
            /\ q \in {max, b.open[in], b.open[e]}
            /\ q =< max /\ q =< b.open[in] /\ q =< b.open[e]
    BY <1>1 DEF Filling
  <1>5. ASSUME Exact(b, Rep(R, ord, b), ord, in), Rests(b, e), ord[e].aon => q \in {0, b.open[e]}
        PROVE  Exact(u, Rep(R, ord, u), ord, in)
    BY <1>1, <1>5, TradingExact
  <1>6. u.open[e] = b.open[e] - q
    <2>1. in \in OrderId /\ e \in OrderId /\ in # e /\ b.open \in [OrderId -> Nat]
      BY ObjectTerms DEF Partners, SoundBook, BookType
    <2> QED
      BY <1>1, <2>1 DEF Moved
  <1> QED
    BY <1>1, <1>2, <1>3, <1>4, <1>5, <1>6 DEF TradingGood

\* The first k entries of a sequence.
First(s, k) == {s[j] : j \in 1..k}

\* What it takes for the trades of a plan to be exact.
ExactPlan(b, ord, in, matches, found, r) ==
    /\ Exact(b, r, ord, in)
    /\ Distinct(matches) /\ ToSet(matches) \subseteq ToSet(Opposite(b, ord, in))
    /\ \A x \in ToSet(matches) : ord[x].price # Market \/ ord[in].price # Market
    /\ found =< b.open[in]

\* In c, the orders of the plan have given what was planned.
Given(b, c, in, fills) ==
    /\ \A j \in 1..Len(fills) : c.open[fills[j].id] = b.open[fills[j].id] - fills[j].quantity
    /\ \A x \in OrderId \ {in} :
           c.open[x] # b.open[x] => \E j \in 1..Len(fills) : fills[j].id = x

\* Making the planned trades keeps the book sound, and where every trade has a
\* price exactly what was found is traded.
LEMMA MakeTradesFacts ==
    ASSUME NEW ord, Objects(ord), NEW in \in DOMAIN ord, NEW b, SoundBook(b, ord, in),
           NEW matches \in Seq(DOMAIN ord), \A x \in ToSet(matches) : Partners(ord, in, x),
           Distinct(matches), NEW plan, Planned(b, ord, matches, plan),
           \A j \in 1..Len(plan.fills) : Rests(b, plan.fills[j].id),
           NEW R, SoundReports(Rep(R, ord, b), ord)
    PROVE  LET c == MakeTrades(b, ord, in, plan)
           IN  /\ SoundBook(c, ord, in)
               /\ SoundReports(Rep(R, ord, c), ord)
               /\ Kept(b, c, ord, in, ToSet(matches), R)
               /\ ExactPlan(b, ord, in, matches, plan.found, Rep(R, ord, b)) =>
                      /\ Exact(c, Rep(R, ord, c), ord, in)
                      /\ Traded(b, c, in) = plan.found
                      /\ Given(b, c, in, plan.fills)
PROOF
  <1> DEFINE fills == plan.fills
             found == plan.found
             n == Len(fills)
  <1>1. /\ found \in Nat /\ fills \in Seq(PlannedFill)
        /\ n \in Nat /\ n =< Len(matches)
        /\ \A j \in 1..n : /\ fills[j].id = matches[j] /\ fills[j].quantity \in Nat
                           /\ fills[j].quantity =< b.open[matches[j]]
                           /\ ord[matches[j]].aon => fills[j].quantity \in {0, b.open[matches[j]]}
    <2>1. found \in Nat /\ fills \in Seq(PlannedFill) /\ n =< Len(matches)
      BY DEF Planned
    <2>2. n \in Nat
      BY <2>1
    <2>3. ASSUME NEW j \in 1..n
          PROVE  /\ fills[j].id = matches[j] /\ fills[j].quantity \in Nat
                 /\ fills[j].quantity =< b.open[matches[j]]
                 /\ ord[matches[j]].aon => fills[j].quantity \in {0, b.open[matches[j]]}
      <3>1. fills[j] \in PlannedFill
        BY <2>1
      <3> QED
        BY <3>1 DEF Planned, PlannedFill
    <2> QED
      BY <2>1, <2>2, <2>3
  <1>2. PICK P : Sums(P, fills, found)
    BY DEF Planned
  <1>3. PICK book : /\ book[0] = b
                    /\ \A i \in 1..n : book[i] = MakeTrade(b, ord, in, found, book[i - 1], fills[i])
                    /\ MakeTrades(b, ord, in, plan) = book[n]
    <2>1. fills \in Seq(PlannedFill)
      BY <1>1
    <2> QED
      BY <2>1, MakeTradesRun
  <1>4. /\ in \in OrderId /\ b.open[in] \in Nat /\ Len(matches) \in Nat
        /\ b.open \in [OrderId -> Nat]
    BY ObjectTerms, SoundOpen
  <1>5. /\ P \in [0..n -> Nat] /\ P[0] = 0 /\ P[n] = found
        /\ \A j \in 1..n : P[j] = P[j - 1] + fills[j].quantity
        /\ \A j \in 0..n : P[j] =< found
    BY <1>2 DEF Sums
  <1> DEFINE Start == ExactPlan(b, ord, in, matches, found, Rep(R, ord, b))
             Good(c, k) ==
               /\ SoundBook(c, ord, in)
               /\ SoundReports(Rep(R, ord, c), ord)
               /\ Kept(b, c, ord, in, First(matches, k), R)
               /\ Start =>
                      /\ Exact(c, Rep(R, ord, c), ord, in) /\ Traded(b, c, in) = P[k]
                      /\ \A j \in 1..k : c.open[matches[j]] = b.open[matches[j]] - fills[j].quantity
             K == {k \in Nat : k =< n => Good(book[k], k)}
  <1> HIDE DEF fills, found, n
  <1>6. 0 \in K
    <2>1. Kept(b, b, ord, in, First(matches, 0), R)
      BY <1>4, KeptSame DEF SoundBook
    <2>2. Traded(b, b, in) = 0
      BY <1>4 DEF Traded
    <2> QED
      BY <1>3, <1>5, <2>1, <2>2 DEF ExactPlan
  <1>7. ASSUME NEW k \in Nat, k \in K PROVE k + 1 \in K
    <2> SUFFICES ASSUME k + 1 =< n PROVE Good(book[k + 1], k + 1)
      OBVIOUS
    <2> DEFINE c == book[k]
               fill == fills[k + 1]
               e == matches[k + 1]
               t == Trade(c, ord, in, e, fill.quantity)
               u == Settle(t, e)
    <2>1. /\ k =< n /\ k + 1 \in 1..n /\ (k + 1) - 1 = k /\ k \in 0..n /\ k + 1 \in 0..n
          /\ k + 1 \in 1..Len(matches)
      BY <1>1, <1>4
    <2>2. Good(c, k)
      BY <1>7, <2>1
    <2>3. book[k + 1] = MakeTrade(b, ord, in, found, c, fill)
      BY <1>3, <2>1
    <2>4. /\ fill.id = e /\ fill.quantity \in Nat /\ fill.quantity =< b.open[e]
          /\ ord[e].aon => fill.quantity \in {0, b.open[e]}
      BY <1>1, <2>1
    <2>5. e \in ToSet(matches) /\ e \in DOMAIN ord /\ e \in OrderId /\ Partners(ord, in, e)
      <3>1. e \in ToSet(matches) /\ e \in DOMAIN ord
        BY <2>1 DEF ToSet
      <3> QED
        BY <3>1 DEF Objects
    <2>6. /\ P[k + 1] = P[k] + fill.quantity /\ P[k] \in Nat /\ P[k + 1] \in Nat
          /\ P[k] =< found /\ P[k + 1] =< found
      BY <1>5, <2>1
    <2>7. First(matches, k) \subseteq First(matches, k + 1) /\ e \in First(matches, k + 1)
      BY <2>1 DEF First
    <2>8. c.open[in] \in Nat /\ c.open \in [OrderId -> Nat]
      BY <1>4, <2>2, SoundOpen
    <2>8a. e \notin First(matches, k) /\ Rests(b, e)
      <3>1. Rests(b, fills[k + 1].id)
        BY <2>1 DEF fills, n
      <3>2. fills[k + 1].id = e
        BY <1>1, <2>1
      <3> QED
        BY <1>4, <2>1, <3>1, <3>2 DEF First, Distinct
    <2>8b. Rests(c, e)
      <3>1. ord[e].buy # ord[in].buy /\ ord[e].buy \in BOOLEAN /\ ord[in].buy \in BOOLEAN
        BY <2>5, ObjectTerms DEF Partners
      <3>2. e \notin ToSet(Own(b, ord, in))
        BY <1>4, <2>5, <3>1, SideFacts
      <3>3. e \in ToSet(Opposite(b, ord, in))
        BY <2>8a, <3>2 DEF Rests, Own, Opposite
      <3>4. e \in ToSet(Opposite(c, ord, in))
        BY <2>2, <2>8a, <3>3 DEF Kept
      <3> QED
        BY <3>4 DEF Rests, Opposite
    <2> HIDE DEF c, fill, e
    <2>9. CASE Traded(b, c, in) >= found
      <3>1. book[k + 1] = c
        BY <2>3, <2>9 DEF MakeTrade
      <3>2. Kept(b, c, ord, in, First(matches, k + 1), R)
        BY <2>2, <2>7, KeptMore
      <3>3. ASSUME Start PROVE P[k + 1] = P[k] /\ fill.quantity = 0
        BY <1>1, <2>2, <2>4, <2>6, <2>9, <3>3
      <3>4. ASSUME Start, NEW j \in 1..(k + 1)
            PROVE  c.open[matches[j]] = b.open[matches[j]] - fills[j].quantity
        <4>1. CASE j = k + 1
          <5>1. Distinct(matches)
            BY <3>4 DEF ExactPlan
          <5>2. e \notin First(matches, k) /\ e # in
            <6>1. e \notin First(matches, k)
              BY <1>4, <2>1, <5>1 DEF First, Distinct, e
            <6> QED
              BY <2>5, <6>1 DEF Partners
          <5>3. c.open[e] = b.open[e] /\ b.open[e] \in Nat
            BY <1>4, <2>2, <2>5, <5>2 DEF Kept
          <5>4. b.open[e] - 0 = b.open[e] /\ fill.quantity = 0
            BY <3>3, <3>4, <5>3
          <5> QED
            BY <4>1, <5>3, <5>4 DEF e, fill
        <4>2. CASE j # k + 1
          <5>1. j \in 1..k
            BY <2>1, <4>2
          <5> QED
            BY <2>2, <3>4, <5>1
        <4> QED
          BY <4>1, <4>2
      <3> HIDE DEF Start
      <3> QED
        BY <2>2, <3>1, <3>2, <3>3, <3>4
    <2>10. CASE ~(Traded(b, c, in) >= found)
      <3>1. book[k + 1] = u
        BY <2>3, <2>4, <2>10 DEF MakeTrade
      <3>2. Trading(c, t, u, ord, in, e, fill.quantity)
        BY DEF Trading
      <3> HIDE DEF t, u
      <3>3. /\ SoundBook(u, ord, in)
            /\ SoundReports(Rep(R, ord, u), ord)
            /\ Kept(c, u, ord, in, {e}, R)
            /\ Traded(c, u, in) \in Nat /\ u.open[e] = c.open[e] - Traded(c, u, in)
            /\ CrossPrice(c, ord, in, e) # Market =>
                  /\ Traded(c, u, in) \in {fill.quantity, c.open[in], c.open[e]}
                  /\ Traded(c, u, in) =< fill.quantity
                  /\ Traded(c, u, in) =< c.open[in]
                  /\ Traded(c, u, in) =< c.open[e]
            /\ /\ Exact(c, Rep(R, ord, c), ord, in)
               /\ Rests(c, e)
               /\ ord[e].aon => Traded(c, u, in) \in {0, c.open[e]}
               => Exact(u, Rep(R, ord, u), ord, in)
        <4>1. TradingGood(c, t, u, ord, in, e, fill.quantity, R)
          BY <2>2, <2>4, <2>5, <2>8b, <3>2, TradingFacts
        <4> QED
          BY <4>1 DEF TradingGood
      <3>4. u.open[in] \in Nat
        BY <1>4, <3>3, SoundOpen
      <3>5. Kept(b, u, ord, in, First(matches, k + 1), R)
        <4>1. First(matches, k) \union {e} \subseteq First(matches, k + 1)
          BY <2>7
        <4> QED
          BY <1>4, <2>2, <2>8, <3>3, <3>4, <4>1, KeptTransitive
      <3>6. ASSUME Start
            PROVE  /\ Exact(u, Rep(R, ord, u), ord, in) /\ Traded(b, u, in) = P[k + 1]
                   /\ \A j \in 1..(k + 1) :
                          u.open[matches[j]] = b.open[matches[j]] - fills[j].quantity
        <4>1. /\ Distinct(matches) /\ ToSet(matches) \subseteq ToSet(Opposite(b, ord, in))
              /\ ord[e].price # Market \/ ord[in].price # Market
              /\ found =< b.open[in]
          BY <2>5, <3>6 DEF ExactPlan
        <4>2. e \notin First(matches, k) /\ e # in
          BY <2>1, <2>5, <4>1 DEF First, Distinct, Partners, e
        <4>3. e \in ToSet(Opposite(c, ord, in)) /\ c.open[e] = b.open[e]
          BY <2>2, <2>5, <4>1, <4>2 DEF Kept
        <4>4. Rests(c, e)
          BY <2>8b
        <4>5. CrossPrice(c, ord, in, e) # Market
          BY <4>1 DEF CrossPrice
        <4>6. Traded(b, c, in) = P[k] /\ c.open[in] = b.open[in] - P[k]
          BY <1>4, <2>2, <2>6, <2>8, <3>6 DEF Traded
        <4>7. c.open[in] >= fill.quantity
          BY <1>1, <1>4, <2>4, <2>6, <4>1, <4>6
        <4>8. c.open[e] >= fill.quantity /\ c.open[e] \in Nat
          BY <2>4, <2>5, <2>8, <4>3
        <4>9. Traded(c, u, in) = fill.quantity
          BY <2>4, <2>8, <3>3, <4>5, <4>7, <4>8
        <4>10. Exact(u, Rep(R, ord, u), ord, in)
          BY <2>2, <2>4, <3>3, <3>6, <4>3, <4>4, <4>9
        <4>11. Traded(b, u, in) = P[k] + fill.quantity
          BY <1>4, <2>6, <2>8, <3>4, <4>6, <4>9 DEF Traded
        <4>12. ASSUME NEW j \in 1..(k + 1)
               PROVE  u.open[matches[j]] = b.open[matches[j]] - fills[j].quantity
          <5>1. CASE j = k + 1
            BY <3>3, <4>3, <4>9, <5>1 DEF e, fill
          <5>2. CASE j # k + 1
            <6>1. j \in 1..k /\ j \in 1..Len(matches) /\ matches[j] \in ToSet(matches)
              BY <1>4, <2>1, <5>2 DEF ToSet
            <6>2. matches[j] # e /\ matches[j] \in OrderId /\ matches[j] # in
              BY <2>1, <4>1, <6>1 DEF Distinct, Partners, Objects, e
            <6>3. u.open[matches[j]] = c.open[matches[j]]
              BY <3>3, <6>2 DEF Kept
            <6> QED
              BY <2>2, <3>6, <6>1, <6>3
          <5> QED
            BY <5>1, <5>2
        <4> QED
          BY <2>6, <4>10, <4>11, <4>12
      <3> HIDE DEF Start
      <3> QED
        BY <3>1, <3>3, <3>5, <3>6
    <2> QED
      BY <2>9, <2>10
  <1>8. Nat \subseteq K
    <2> HIDE DEF K
    <2> QED
      BY <1>6, <1>7, SetInduction
  <1>9. Good(book[n], n) /\ n \in Nat /\ n =< Len(matches)
    BY <1>1, <1>8 DEF n, fills
  <1>10. First(matches, n) \subseteq ToSet(matches)
    BY <1>4, <1>9 DEF First, ToSet
  <1>11. Kept(b, book[n], ord, in, ToSet(matches), R)
    BY <1>9, <1>10, KeptMore
  <1>12. ASSUME Start PROVE Given(b, book[n], in, fills)
    <2>1. ASSUME NEW j \in 1..n
          PROVE  book[n].open[fills[j].id] = b.open[fills[j].id] - fills[j].quantity
      BY <1>1, <1>9, <1>12, <2>1
    <2>2. ASSUME NEW x \in OrderId \ {in}, book[n].open[x] # b.open[x]
          PROVE  \E j \in 1..n : fills[j].id = x
      <3>1. x \in First(matches, n)
        BY <1>9, <2>2 DEF Kept
      <3> QED
        BY <1>1, <3>1 DEF First
    <2> QED
      BY <2>1, <2>2 DEF Given, n
  <1> QED
    BY <1>3, <1>5, <1>9, <1>11, <1>12 DEF found, fills

\* An order tried that is not all-or-none has nothing left in d once a later
\* one has given something.
Tried(b, d, ord, matches) ==
    \A i, j \in 1..Len(matches) :
        i < j /\ ~ord[matches[i]].aon /\ d.open[matches[j]] # b.open[matches[j]] =>
            d.open[matches[i]] = 0

\* If all the orders tried are needed and fit, all are filled.
Emptied(b, d, in, matches, maxQty, minQty) ==
    \A W : /\ Weighs(W, b.open, matches)
           /\ minQty =< W[Len(matches)] /\ W[Len(matches)] =< maxQty
           => /\ Traded(b, d, in) = W[Len(matches)]
              /\ \A x \in ToSet(matches) : d.open[x] = 0

\* d is b after the deferred trades were tried.
TryGood(b, d, ord, in, matches, maxQty, minQty, R) ==
    /\ SoundBook(d, ord, in)
    /\ SoundReports(Rep(R, ord, d), ord)
    /\ Kept(b, d, ord, in, ToSet(matches), R)
    /\ ExactPlan(b, ord, in, matches, maxQty, Rep(R, ord, b)) =>
           /\ Exact(d, Rep(R, ord, d), ord, in)
           /\ d = b \/ (minQty =< Traded(b, d, in) /\ Traded(b, d, in) =< maxQty)
           /\ Tried(b, d, ord, matches)
           /\ Emptied(b, d, in, matches, maxQty, minQty)

\* try_create_deferred_trades keeps the book sound, and where every trade has a
\* price it trades nothing or a quantity within its bounds.
LEMMA TryFacts ==
    ASSUME NEW ord, Objects(ord), NEW in \in DOMAIN ord, NEW b, SoundBook(b, ord, in),
           NEW matches \in Seq(DOMAIN ord), \A x \in ToSet(matches) : Partners(ord, in, x),
           Distinct(matches), NEW maxQty \in Int, NEW minQty \in Int,
           NEW R, SoundReports(Rep(R, ord, b), ord)
    PROVE  TryGood(b, TryCreateDeferredTrades(b, ord, in, matches, maxQty, minQty),
                   ord, in, matches, maxQty, minQty, R)
PROOF
  <1> DEFINE plan == Fills(b, ord, matches, maxQty)
             dangling == \E i \in DOMAIN plan.fills : ~Rests(b, plan.fills[i].id)
             d == TryCreateDeferredTrades(b, ord, in, matches, maxQty, minQty)
             c == MakeTrades(b, ord, in, plan)
  <1> SUFFICES TryGood(b, d, ord, in, matches, maxQty, minQty, R)
    OBVIOUS
  <1>1. Planned(b, ord, matches, plan)
    BY FillsFacts, SoundOpen, ObjectTerms
  <1>2. plan.found \in Nat /\ b.open[in] \in Nat /\ in \in OrderId
    BY <1>1, SoundOpen, ObjectTerms DEF Planned
  <1>3. d = IF dangling THEN [b EXCEPT !.undefined = TRUE]
            ELSE IF minQty =< plan.found /\ plan.found =< maxQty THEN c ELSE b
    BY DEF TryCreateDeferredTrades
  <1>4. Greedy(b, ord, maxQty, plan)
    BY FillsGreedy, SoundOpen, ObjectTerms
  <1>5. ASSUME ExactPlan(b, ord, in, matches, maxQty, Rep(R, ord, b)),
               NEW W, Weighs(W, b.open, matches), W[Len(matches)] =< maxQty
        PROVE  WholeTo(b, matches, W, plan, Len(matches))
    <2>1. \A x \in ToSet(matches) : b.open[x] > 0
      <3>1. ToSet(matches) \subseteq ToSet(Opposite(b, ord, in))
        BY <1>5 DEF ExactPlan
      <3> QED
        BY <3>1, OppositeFacts
    <2>2. b \in BookType
      BY DEF SoundBook
    <2> QED
      BY <1>5, <2>1, <2>2, FillsWhole
  <1>6. \A x \in ToSet(matches) : x \in OrderId /\ x # in /\ b.open[x] \in Nat
    <2>1. b \in BookType
      BY DEF SoundBook
    <2>2. ToSet(matches) \subseteq OrderId
      BY DEF ToSet, Objects
    <2> QED
      BY <2>1, <2>2 DEF Partners, BookType
  <1>7. Len(matches) \in Nat /\ \A i \in 1..Len(matches) : matches[i] \in ToSet(matches)
    BY DEF ToSet
  <1> HIDE DEF plan, d
  <1>8. CASE dangling
    <2>1. d = [b EXCEPT !.undefined = TRUE] /\ b \in BookType
      BY <1>3, <1>8 DEF SoundBook
    <2>2. /\ d \in BookType /\ d.orders = b.orders /\ d.bids = b.bids /\ d.asks = b.asks
          /\ d.open = b.open /\ d.callbacks = b.callbacks
      BY <2>1 DEF BookType
    <2>3. SoundBook(d, ord, in)
      BY <2>2 DEF SoundBook, Rests
    <2>4. Rep(R, ord, d) = Rep(R, ord, b)
      BY <2>2 DEF Rep
    <2>5. Kept(b, d, ord, in, ToSet(matches), R)
      <3>1. Later(b, d, ord, R)
        BY <2>1, <2>2, LaterSame
      <3> QED
        BY <1>2, <2>2, <3>1 DEF Kept, Own, Opposite
    <2>6. ~ExactPlan(b, ord, in, matches, maxQty, Rep(R, ord, b))
      <3>1. PICK i \in DOMAIN plan.fills : ~Rests(b, plan.fills[i].id)
        BY <1>8
      <3>2. DOMAIN plan.fills = 1..Len(plan.fills) /\ Len(plan.fills) =< Len(matches)
        BY <1>1 DEF Planned
      <3>3. plan.fills[i].id = matches[i] /\ i \in 1..Len(matches)
        <4>1. Len(matches) \in Nat /\ Len(plan.fills) \in Nat
          BY <1>1 DEF Planned
        <4> QED
          BY <1>1, <3>2, <4>1 DEF Planned
      <3>4. matches[i] \in ToSet(matches)
        BY <3>3 DEF ToSet
      <3> QED
        BY <3>1, <3>3, <3>4 DEF ExactPlan, Rests, Opposite
    <2> QED
      BY <2>3, <2>4, <2>5, <2>6 DEF TryGood
  <1>9. CASE ~dangling /\ minQty =< plan.found /\ plan.found =< maxQty
    <2>1. d = c
      BY <1>3, <1>9
    <2>2. /\ SoundBook(c, ord, in)
          /\ SoundReports(Rep(R, ord, c), ord)
          /\ Kept(b, c, ord, in, ToSet(matches), R)
          /\ ExactPlan(b, ord, in, matches, plan.found, Rep(R, ord, b)) =>
                 /\ Exact(c, Rep(R, ord, c), ord, in) /\ Traded(b, c, in) = plan.found
                 /\ Given(b, c, in, plan.fills)
      <3>1. \A j \in 1..Len(plan.fills) : Rests(b, plan.fills[j].id)
        <4>1. plan.fills \in Seq(PlannedFill)
          BY <1>1 DEF Planned
        <4>2. DOMAIN plan.fills = 1..Len(plan.fills)
          BY <4>1
        <4> QED
          BY <1>9, <4>2
      <3> QED
        BY <1>1, <3>1, MakeTradesFacts
    <2>3. ExactPlan(b, ord, in, matches, maxQty, Rep(R, ord, b))
          => ExactPlan(b, ord, in, matches, plan.found, Rep(R, ord, b))
      BY <1>2, <1>9 DEF ExactPlan
    <2> HIDE DEF c
    <2>4. ASSUME ExactPlan(b, ord, in, matches, maxQty, Rep(R, ord, b)) PROVE Tried(b, c, ord, matches)
      <3> SUFFICES ASSUME NEW i \in 1..Len(matches), NEW j \in 1..Len(matches), i < j,
                          ~ord[matches[i]].aon, c.open[matches[j]] # b.open[matches[j]]
                   PROVE  c.open[matches[i]] = 0
        BY DEF Tried
      <3> DEFINE fills == plan.fills
      <3>1. /\ fills \in Seq(PlannedFill) /\ Len(fills) \in Nat /\ Len(fills) =< Len(matches)
            /\ \A n \in 1..Len(fills) : fills[n].id = matches[n]
        BY <1>1 DEF Planned
      <3>2. Given(b, c, in, fills) /\ Distinct(matches)
        BY <2>2, <2>3, <2>4 DEF ExactPlan
      <3> HIDE DEF fills
      <3>3. PICK n \in 1..Len(fills) : fills[n].id = matches[j]
        BY <1>6, <1>7, <3>2 DEF Given
      <3>4. n = j
        BY <1>7, <3>1, <3>2, <3>3 DEF Distinct
      <3>5. i \in 1..Len(fills) /\ j \in 1..Len(fills)
        BY <3>1, <3>3, <3>4
      <3>6. fills[j] \in PlannedFill
        BY <3>1, <3>5
      <3>7. fills[j].quantity > 0
        <4>1. c.open[matches[j]] = b.open[matches[j]] - fills[j].quantity
          BY <3>1, <3>2, <3>5 DEF Given
        <4>2. b.open[matches[j]] \in Nat /\ fills[j].quantity \in Nat
          BY <1>6, <1>7, <3>6 DEF PlannedFill
        <4> QED
          BY <4>1, <4>2
      <3>8. fills[i].quantity = b.open[fills[i].id]
        BY <1>4, <3>1, <3>5, <3>7 DEF Greedy, fills
      <3>9. c.open[fills[i].id] = b.open[fills[i].id] - fills[i].quantity /\ fills[i].id = matches[i]
        BY <3>1, <3>2, <3>5 DEF Given
      <3>10. b.open[matches[i]] \in Nat
        BY <1>6, <1>7
      <3> QED
        BY <3>8, <3>9, <3>10
    <2>5. ASSUME ExactPlan(b, ord, in, matches, maxQty, Rep(R, ord, b))
          PROVE  Emptied(b, c, in, matches, maxQty, minQty)
      <3> SUFFICES ASSUME NEW W, Weighs(W, b.open, matches),
                          minQty =< W[Len(matches)], W[Len(matches)] =< maxQty
                   PROVE  /\ Traded(b, c, in) = W[Len(matches)]
                          /\ \A x \in ToSet(matches) : c.open[x] = 0
        BY DEF Emptied
      <3>1. WholeTo(b, matches, W, plan, Len(matches))
        BY <1>5, <2>5
      <3>2. Traded(b, c, in) = plan.found /\ Given(b, c, in, plan.fills)
        BY <2>2, <2>3, <2>5
      <3>3. ASSUME NEW x \in ToSet(matches) PROVE c.open[x] = 0
        <4>1. PICK j \in 1..Len(matches) : x = matches[j]
          BY <1>7 DEF ToSet
        <4>2. plan.fills[j].id = x /\ plan.fills[j].quantity = b.open[x] /\ j \in 1..Len(plan.fills)
          BY <3>1, <4>1 DEF WholeTo
        <4>3. c.open[x] = b.open[x] - b.open[x]
          BY <3>2, <4>2 DEF Given
        <4>4. b.open[x] \in Nat
          BY <1>6
        <4> QED
          BY <4>3, <4>4
      <3> QED
        BY <3>1, <3>2, <3>3 DEF WholeTo
    <2> QED
      BY <1>9, <2>1, <2>2, <2>3, <2>4, <2>5 DEF TryGood
  <1>10. CASE ~dangling /\ ~(minQty =< plan.found /\ plan.found =< maxQty)
    <2>1. d = b
      BY <1>3, <1>10
    <2>2. Kept(b, b, ord, in, ToSet(matches), R)
      BY <1>2, KeptSame DEF SoundBook
    <2>3. Tried(b, b, ord, matches)
      BY DEF Tried
    <2>4. ASSUME ExactPlan(b, ord, in, matches, maxQty, Rep(R, ord, b))
          PROVE  Emptied(b, b, in, matches, maxQty, minQty)
      <3> SUFFICES ASSUME NEW W, Weighs(W, b.open, matches),
                          minQty =< W[Len(matches)], W[Len(matches)] =< maxQty
                   PROVE  FALSE
        BY DEF Emptied
      <3>1. WholeTo(b, matches, W, plan, Len(matches))
        BY <1>5, <2>4
      <3> QED
        BY <1>10, <3>1 DEF WholeTo
    <2> QED
      BY <1>2, <2>1, <2>2, <2>3, <2>4 DEF TryGood, ExactPlan
  <1> QED
    BY <1>8, <1>9, <1>10

-----------------------------------------------------------------------------
(***************************************************************************)
(* match_order: one entry of the other side, and all of them.              *)
(***************************************************************************)

\* An element at the end of a sequence that does not hold it.
LEMMA AppendFacts ==
    ASSUME NEW S, NEW s \in Seq(S), NEW e \in S
    PROVE  /\ Append(s, e) \in Seq(S)
           /\ ToSet(Append(s, e)) = ToSet(s) \union {e}
           /\ Distinct(s) /\ e \notin ToSet(s) => Distinct(Append(s, e))
PROOF
  <1> DEFINE n == Len(s)
             t == Append(s, e)
  <1>1. /\ n \in Nat /\ t \in Seq(S) /\ Len(t) = n + 1 /\ t[n + 1] = e
        /\ DOMAIN s = 1..n /\ DOMAIN t = 1..(n + 1)
        /\ \A i \in 1..n : t[i] = s[i]
    OBVIOUS
  <1> HIDE DEF n, t
  <1>2. ToSet(t) = ToSet(s) \union {e}
    <2>1. ASSUME NEW x \in ToSet(t) PROVE x \in ToSet(s) \union {e}
      <3>1. PICK i \in 1..(n + 1) : x = t[i]
        BY <1>1 DEF ToSet
      <3>2. i = n + 1 \/ i \in 1..n
        BY <1>1
      <3> QED
        BY <1>1, <3>1, <3>2 DEF ToSet
    <2>2. ASSUME NEW x \in ToSet(s) PROVE x \in ToSet(t)
      <3>1. PICK i \in 1..n : x = s[i]
        BY <1>1 DEF ToSet
      <3>2. i \in 1..(n + 1) /\ x = t[i]
        BY <1>1, <3>1
      <3> QED
        BY <1>1, <3>2 DEF ToSet
    <2>3. e \in ToSet(t)
      BY <1>1 DEF ToSet
    <2> QED
      BY <2>1, <2>2, <2>3
  <1>3. ASSUME Distinct(s), e \notin ToSet(s) PROVE Distinct(t)
    <2>1. \A i \in 1..n : s[i] # e
      BY <1>1, <1>3 DEF ToSet
    <2>2. ASSUME NEW i \in 1..(n + 1), NEW j \in 1..(n + 1), t[i] = t[j] PROVE i = j
      <3>1. (i = n + 1 \/ i \in 1..n) /\ (j = n + 1 \/ j \in 1..n)
        BY <1>1
      <3>2. \A x, y \in 1..n : s[x] = s[y] => x = y
        BY <1>3 DEF Distinct, n
      <3> QED
        BY <1>1, <2>1, <2>2, <3>1, <3>2
    <2> QED
      BY <1>1, <2>2 DEF Distinct
  <1> QED
    BY <1>1, <1>2, <1>3 DEF t

\* A sequence is one over what it holds.
LEMMA SeqOver ==
    ASSUME NEW S, NEW s \in Seq(S), NEW T, ToSet(s) \subseteq T
    PROVE  s \in Seq(T)
PROOF
  <1>1. \A i \in 1..Len(s) : s[i] \in T
    BY DEF ToSet
  <1> QED
    BY <1>1

\* match_order visits the entries of the other side one after the other.
LEMMA MatchRun ==
    ASSUME NEW b, NEW ord, NEW in, NEW side \in Seq(OrderId),
           side = Opposite(b, ord, in)
    PROVE  \E m : /\ m[0] = Scan(b, in)
                  /\ \A i \in 1..Len(side) : m[i] = Visit(m[i - 1], ord, in, side[i])
                  /\ Match(b, ord, in) = m[Len(side)]
PROOF
  <1> DEFINE Run(k, g) == g = [i \in 0..k |-> IF i = 0 THEN Scan(b, in) ELSE Visit(g[i - 1], ord, in, side[i])]
             K == {k \in Nat : \E g : Run(k, g)}
  <1>1. 0 \in K
    <2>1. Run(0, [i \in 0..0 |-> Scan(b, in)])
      OBVIOUS
    <2> QED
      BY <2>1
  <1>2. ASSUME NEW k \in Nat, k \in K PROVE k + 1 \in K
    <2>1. PICK g : Run(k, g)
      BY <1>2
    <2> DEFINE h == [i \in 0..(k + 1) |-> IF i =< k THEN g[i] ELSE Visit(g[k], ord, in, side[k + 1])]
    <2>2. ASSUME NEW i \in 0..(k + 1)
          PROVE  h[i] = IF i = 0 THEN Scan(b, in) ELSE Visit(h[i - 1], ord, in, side[i])
      <3>1. CASE i =< k
        <4>1. h[i] = g[i] /\ (i # 0 => h[i - 1] = g[i - 1])
          BY <3>1
        <4>2. g[i] = IF i = 0 THEN Scan(b, in) ELSE Visit(g[i - 1], ord, in, side[i])
          BY <2>1, <3>1
        <4> QED
          BY <4>1, <4>2
      <3>2. CASE i = k + 1
        BY <3>2
      <3> QED
        BY <3>1, <3>2
    <2>3. Run(k + 1, h)
      BY <2>2
    <2> HIDE DEF h, Run
    <2>4. \E f : Run(k + 1, f)
      BY <2>3
    <2> QED
      BY <2>4
  <1>3. Nat \subseteq K
    <2> HIDE DEF K
    <2> QED
      BY <1>1, <1>2, SetInduction
  <1>4. PICK g : Run(Len(side), g)
    <2>1. Len(side) \in Nat
      OBVIOUS
    <2> QED
      BY <1>3, <2>1
  <1> DEFINE m == CHOOSE f : f = [i \in 0..Len(side) |-> IF i = 0 THEN Scan(b, in) ELSE Visit(f[i - 1], ord, in, side[i])]
  <1>5. m = [i \in 0..Len(side) |-> IF i = 0 THEN Scan(b, in) ELSE Visit(m[i - 1], ord, in, side[i])]
    BY <1>4
  <1>6. Match(b, ord, in) = m[Len(side)]
    BY DEF Match
  <1> HIDE DEF m
  <1>7. Len(side) \in Nat
    OBVIOUS
  <1>8. m[0] = Scan(b, in) /\ \A i \in 1..Len(side) : m[i] = Visit(m[i - 1], ord, in, side[i])
    BY <1>5, <1>7
  <1> QED
    BY <1>6, <1>8

\* The state of the matching loop.
ScanType ==
    [book : BookType, inbound_qty : Int, deferred_aons : Seq(OrderId),
     deferred_matches : Seq(OrderId), deferred_qty : Int, done : BOOLEAN]

\* What the loop has found of the first k entries: it touched nothing else,
\* and the orders put off still rest.
ScanGood(m, b, ord, in, k, R) ==
    /\ m \in ScanType
    /\ SoundBook(m.book, ord, in)
    /\ SoundReports(Rep(R, ord, m.book), ord)
    /\ Kept(b, m.book, ord, in, First(Opposite(b, ord, in), k), R)
    /\ ToSet(m.deferred_matches) \subseteq First(Opposite(b, ord, in), k)
    /\ \A x \in ToSet(m.deferred_matches) : Partners(ord, in, x)
    /\ ToSet(m.deferred_aons) \subseteq First(Opposite(b, ord, in), k)
    /\ \A x \in ToSet(m.deferred_aons) :
           x \in ToSet(Opposite(m.book, ord, in)) \ ToSet(m.deferred_matches) /\ ord[x].aon
    /\ Distinct(m.deferred_aons) /\ Distinct(m.deferred_matches)

\* Every order agrees with its reports, and inbound_qty with the tracker.
ScanExact(m, b, ord, in, R) ==
    /\ Exact(m.book, Rep(R, ord, m.book), ord, in)
    /\ ord[in].aon => m.book.open[in] \in {0, b.open[in]}
    /\ m.book.open[in] > 0 =>
           /\ m.inbound_qty = m.book.open[in]
           /\ Distinct(m.deferred_matches)
           /\ ToSet(m.deferred_matches) \subseteq ToSet(Opposite(m.book, ord, in))

\* An all-or-none order and one of the other side never are both market
\* orders: one of the two names a price to trade at.
AonPriced ==
    \A s, t \in OrderType : s.aon /\ s.buy # t.buy => s.price # Market \/ t.price # Market

\* Under AonPriced there is a price for every trade with an all-or-none order.
LEMMA PricedPartners ==
    ASSUME AonPriced, NEW ord, NEW in, NEW e, Partners(ord, in, e), ord[in].aon \/ ord[e].aon
    PROVE  ord[e].price # Market \/ ord[in].price # Market
PROOF
  <1>1. ord[in] \in OrderType /\ ord[e].buy # ord[in].buy /\ ord[e] \in OrderType
    BY DEF Partners, Objects
  <1> QED
    BY <1>1 DEF AonPriced

\* The entry e is the next one to be visited.
NextEntry(m, b, ord, in, k, e) ==
    LET side == Opposite(b, ord, in)
    IN  /\ k \in Nat /\ k + 1 =< Len(side) /\ e = side[k + 1]
        /\ Objects(ord) /\ in \in DOMAIN ord /\ SoundBook(b, ord, in)

\* The next entry rests still, and the loop has not put it off.
LEMMA EntryFacts ==
    ASSUME NEW m, NEW b, NEW ord, NEW in, NEW k, NEW e, NEW R,
           NextEntry(m, b, ord, in, k, e), ScanGood(m, b, ord, in, k, R)
    PROVE  LET side == Opposite(b, ord, in)
           IN  /\ e \in DOMAIN ord /\ e \in OrderId /\ e # in /\ in \in OrderId
               /\ e \in ToSet(Opposite(m.book, ord, in))
               /\ e \notin First(side, k) /\ e \in First(side, k + 1)
               /\ First(side, k) \subseteq First(side, k + 1)
               /\ Rests(m.book, e) /\ m.book.open[e] > 0
               /\ MatchesPrice(ord[e].buy, ord[e].price, ord[in].price) => Partners(ord, in, e)
PROOF
  <1> DEFINE side == Opposite(b, ord, in)
  <1>1. /\ k \in Nat /\ k + 1 =< Len(side) /\ e = side[k + 1]
        /\ Objects(ord) /\ in \in DOMAIN ord /\ SoundBook(b, ord, in)
        /\ in \in OrderId
    BY DEF NextEntry, Objects
  <1>2. side \in Seq(OrderId) /\ Distinct(side) /\ Len(side) \in Nat
    <2>1. b.bids \in Seq(OrderId) /\ b.asks \in Seq(OrderId)
      BY <1>1, SoundOpen
    <2>2. Distinct(b.bids) /\ Distinct(b.asks)
      BY <1>1 DEF SoundBook
    <2>3. side \in Seq(OrderId) /\ Distinct(side)
      BY <2>1, <2>2 DEF Opposite
    <2> HIDE DEF side
    <2> QED
      BY <2>3
  <1> HIDE DEF side
  <1>3. e \notin First(side, k) /\ e \in First(side, k + 1)
        /\ First(side, k) \subseteq First(side, k + 1) /\ e \in ToSet(side)
    BY <1>1, <1>2 DEF First, Distinct, ToSet
  <1>4. e \in ToSet(Opposite(m.book, ord, in)) /\ SoundBook(m.book, ord, in)
    BY <1>3 DEF ScanGood, Kept, side
  <1>5. /\ e \in DOMAIN ord /\ e \in OrderId /\ e # in
        /\ Rests(m.book, e) /\ m.book.open[e] > 0
        /\ MatchesPrice(ord[e].buy, ord[e].price, ord[in].price) => Partners(ord, in, e)
    BY <1>1, <1>4, OppositeFacts
  <1> QED
    BY <1>1, <1>3, <1>4, <1>5 DEF side

\* The step changed the book, at most at e and at the deferred matches.
LEMMA BookChange ==
    ASSUME NEW m, NEW b, NEW ord, NEW in, NEW k, NEW e, NEW R,
           NextEntry(m, b, ord, in, k, e), ScanGood(m, b, ord, in, k, R),
           NEW u, SoundBook(u, ord, in), SoundReports(Rep(R, ord, u), ord),
           NEW S, Kept(m.book, u, ord, in, S, R), S \subseteq {e} \union ToSet(m.deferred_matches),
           NEW n \in ScanType, n.book = u, n.deferred_aons = m.deferred_aons,
           n.deferred_matches = m.deferred_matches
    PROVE  ScanGood(n, b, ord, in, k + 1, R)
PROOF
  <1> DEFINE side == Opposite(b, ord, in)
             A == First(side, k)
             B == First(side, k + 1)
  <1>1. /\ in \in OrderId /\ e \in ToSet(Opposite(m.book, ord, in))
        /\ e \notin A /\ e \in B /\ A \subseteq B
    BY EntryFacts
  <1>2. /\ SoundBook(b, ord, in) /\ SoundBook(m.book, ord, in)
        /\ Kept(b, m.book, ord, in, A, R)
        /\ ToSet(m.deferred_matches) \subseteq A
        /\ \A x \in ToSet(m.deferred_matches) : Partners(ord, in, x)
        /\ ToSet(m.deferred_aons) \subseteq A
        /\ \A x \in ToSet(m.deferred_aons) :
               x \in ToSet(Opposite(m.book, ord, in)) \ ToSet(m.deferred_matches) /\ ord[x].aon
        /\ Distinct(m.deferred_aons) /\ Distinct(m.deferred_matches)
    BY DEF ScanGood, NextEntry
  <1> HIDE DEF A, B
  <1>3. b.open[in] \in Nat /\ m.book.open[in] \in Nat /\ u.open[in] \in Nat
    BY <1>1, <1>2, SoundOpen
  <1>4. A \union S \subseteq B
    BY <1>1, <1>2
  <1>5. Kept(b, u, ord, in, B, R)
    BY <1>2, <1>3, <1>4, KeptTransitive
  <1>6. ASSUME NEW x \in ToSet(m.deferred_aons) PROVE x \in ToSet(Opposite(u, ord, in))
    <2>1. x \notin S
      BY <1>1, <1>2
    <2> QED
      BY <1>2, <2>1 DEF Kept
  <1> QED
    BY <1>1, <1>2, <1>5, <1>6 DEF ScanGood, A, B

\* The step put e off, as an all-or-none order or as a match.
LEMMA Deferral ==
    ASSUME NEW m, NEW b, NEW ord, NEW in, NEW k, NEW e, NEW R,
           NextEntry(m, b, ord, in, k, e), ScanGood(m, b, ord, in, k, R),
           NEW n \in ScanType, n.book = m.book,
           \/ /\ n.deferred_aons = Append(m.deferred_aons, e) /\ ord[e].aon
              /\ n.deferred_matches = m.deferred_matches
           \/ /\ n.deferred_aons = m.deferred_aons
              /\ n.deferred_matches = Append(m.deferred_matches, e)
              /\ Partners(ord, in, e)
    PROVE  ScanGood(n, b, ord, in, k + 1, R)
PROOF
  <1> DEFINE side == Opposite(b, ord, in)
             A == First(side, k)
             B == First(side, k + 1)
  <1>1. /\ in \in OrderId /\ e \in OrderId /\ e \in ToSet(Opposite(m.book, ord, in))
        /\ e \notin A /\ e \in B /\ A \subseteq B
    BY EntryFacts
  <1>2. /\ m \in ScanType
        /\ SoundBook(m.book, ord, in) /\ SoundReports(Rep(R, ord, m.book), ord)
        /\ Kept(b, m.book, ord, in, A, R)
        /\ ToSet(m.deferred_matches) \subseteq A
        /\ \A x \in ToSet(m.deferred_matches) : Partners(ord, in, x)
        /\ ToSet(m.deferred_aons) \subseteq A
        /\ \A x \in ToSet(m.deferred_aons) :
               x \in ToSet(Opposite(m.book, ord, in)) \ ToSet(m.deferred_matches) /\ ord[x].aon
        /\ Distinct(m.deferred_aons) /\ Distinct(m.deferred_matches)
    BY DEF ScanGood
  <1> HIDE DEF A, B
  <1>3. m.deferred_aons \in Seq(OrderId) /\ m.deferred_matches \in Seq(OrderId)
    BY <1>2 DEF ScanType
  <1>4. Kept(b, m.book, ord, in, B, R)
    BY <1>1, <1>2, KeptMore
  <1>5. CASE n.deferred_aons = Append(m.deferred_aons, e)
    <2>1. /\ ToSet(n.deferred_aons) = ToSet(m.deferred_aons) \union {e}
          /\ Distinct(n.deferred_aons)
      BY <1>1, <1>2, <1>3, <1>5, AppendFacts
    <2>2. n.deferred_matches = m.deferred_matches /\ ord[e].aon
      <3>1. Append(m.deferred_aons, e) # m.deferred_aons
        BY <1>1, <1>3
      <3> QED
        BY <1>5, <3>1
    <2> QED
      BY <1>1, <1>2, <1>4, <2>1, <2>2 DEF ScanGood, A, B
  <1>6. CASE n.deferred_aons # Append(m.deferred_aons, e)
    <2>1. /\ n.deferred_aons = m.deferred_aons
          /\ n.deferred_matches = Append(m.deferred_matches, e)
          /\ Partners(ord, in, e)
      BY <1>6
    <2>2. /\ ToSet(n.deferred_matches) = ToSet(m.deferred_matches) \union {e}
          /\ Distinct(n.deferred_matches)
      BY <1>1, <1>2, <1>3, <2>1, AppendFacts
    <2> QED
      BY <1>1, <1>2, <1>4, <2>1, <2>2 DEF ScanGood, A, B
  <1> QED
    BY <1>5, <1>6

\* The fields of a scan that a step replaces.
WithBook(m, u, i) == [m EXCEPT !.book = u, !.inbound_qty = i]

\* The fields of a scan after a step has replaced its book.
LEMMA ScanFields ==
    ASSUME NEW m \in ScanType, NEW u \in BookType, NEW i \in Int
    PROVE  LET n == WithBook(m, u, i)
           IN  /\ n \in ScanType /\ n.book = u /\ n.inbound_qty = i
               /\ n.deferred_aons = m.deferred_aons
               /\ n.deferred_matches = m.deferred_matches
PROOF
  <1> DEFINE n == [m EXCEPT !.book = u]
             o == [n EXCEPT !.inbound_qty = i]
  <1>1. /\ n \in ScanType /\ n.book = u
        /\ n.deferred_aons = m.deferred_aons /\ n.deferred_matches = m.deferred_matches
    BY DEF ScanType
  <1>2. WithBook(m, u, i) = o
    BY DEF WithBook
  <1> HIDE DEF n
  <1>3. /\ o \in ScanType /\ o.book = u /\ o.inbound_qty = i
        /\ o.deferred_aons = m.deferred_aons /\ o.deferred_matches = m.deferred_matches
    BY <1>1 DEF ScanType
  <1> HIDE DEF o
  <1> QED
    BY <1>2, <1>3

\* Took goes on with the book u that the trade t of d leaves.
TookBook(t, d, ord, in, e) ==
    IF ord[e].aon /\ Traded(d, t, in) > 0 THEN EraseEntry(t, e) ELSE Settle(t, e)

\* What a trade of the loop comes to, d being the book after the orders put
\* off were tried.
TookGood(m, d, n, b, ord, in, e, k, R) ==
    /\ ScanGood(n, b, ord, in, k + 1, R)
    /\ n.book.open[in] \in Nat /\ n.book.open[in] =< d.open[in]
    /\ Kept(d, n.book, ord, in, {e}, R)
    /\ n.deferred_matches = m.deferred_matches /\ n.deferred_aons = m.deferred_aons
    /\ n.inbound_qty = m.inbound_qty - (m.book.open[in] - n.book.open[in])
    /\ n.book.open[e] = d.open[e] - (d.open[in] - n.book.open[in])
    /\ ord[e].price # Market \/ ord[in].price # Market =>
           /\ d.open[in] - n.book.open[in] =< d.open[e]
           /\ n.book.open[in] = 0 \/ d.open[in] - n.book.open[in] = d.open[e]
    /\ /\ Exact(d, Rep(R, ord, d), ord, in)
       /\ ord[e].aon => d.open[in] - n.book.open[in] \in {0, d.open[e]}
       => Exact(n.book, Rep(R, ord, n.book), ord, in)

\* The entry e trades with what in has left.
LEMMA TookFacts ==
    ASSUME NEW m, NEW b, NEW ord, NEW in, NEW k, NEW e, NEW R,
           NextEntry(m, b, ord, in, k, e), ScanGood(m, b, ord, in, k, R),
           Partners(ord, in, e),
           NEW d, SoundBook(d, ord, in), SoundReports(Rep(R, ord, d), ord),
           Kept(m.book, d, ord, in, ToSet(m.deferred_matches), R)
    PROVE  TookGood(m, d, Took(m, d, TradeAll(d, ord, in, e), ord, in, e), b, ord, in, e, k, R)
PROOF
  <1> DEFINE max == d.open[in]
             t == Trade(d, ord, in, e, max)
             u == TookBook(t, d, ord, in, e)
             i == m.inbound_qty - Traded(m.book, t, in)
             n == Took(m, d, TradeAll(d, ord, in, e), ord, in, e)
  <1> SUFFICES TookGood(m, d, n, b, ord, in, e, k, R)
    OBVIOUS
  <1>1. /\ in \in OrderId /\ e \in OrderId /\ e \in ToSet(Opposite(m.book, ord, in))
        /\ e \notin First(Opposite(b, ord, in), k)
        /\ Objects(ord) /\ in \in DOMAIN ord
    BY EntryFacts DEF NextEntry
  <1>2. /\ m \in ScanType /\ SoundBook(m.book, ord, in)
        /\ ToSet(m.deferred_matches) \subseteq First(Opposite(b, ord, in), k)
    BY DEF ScanGood
  <1>3. /\ max \in Nat /\ m.book.open[in] \in Nat /\ d.open[e] \in Nat
        /\ m.book.open \in [OrderId -> Nat] /\ d.open \in [OrderId -> Nat]
    BY <1>1, <1>2, SoundOpen
  <1>4. n = WithBook(m, u, i)
    <2>1. m.inbound_qty \in Int /\ n = [m EXCEPT !.book = u, !.inbound_qty = @ - Traded(m.book, t, in)]
      BY <1>2 DEF Took, TookBook, TradeAll, ScanType
    <2> HIDE DEF n, u, t
    <2> QED
      BY <2>1, <1>2 DEF ScanType, WithBook
  <1>5. Trading(d, t, u, ord, in, e, max)
    BY DEF Trading, TookBook
  <1> HIDE DEF max, t, u, n
  <1>12. e \in ToSet(Opposite(d, ord, in)) /\ Rests(d, e)
    <2>1. e \in ToSet(Opposite(d, ord, in))
      BY <1>1, <1>2 DEF Kept
    <2> QED
      BY <1>1, <2>1, OppositeFacts
  <1>6. TradingGood(d, t, u, ord, in, e, max, R)
    BY <1>3, <1>5, <1>12, TradingFacts
  <1>7. /\ SoundBook(u, ord, in)
        /\ SoundReports(Rep(R, ord, u), ord)
        /\ Kept(d, u, ord, in, {e}, R)
        /\ t.open[in] = u.open[in]
        /\ Traded(d, u, in) \in Nat /\ u.open[e] = d.open[e] - Traded(d, u, in)
        /\ CrossPrice(d, ord, in, e) # Market =>
              /\ Traded(d, u, in) \in {max, d.open[in], d.open[e]}
              /\ Traded(d, u, in) =< max
              /\ Traded(d, u, in) =< d.open[in]
              /\ Traded(d, u, in) =< d.open[e]
        /\ /\ Exact(d, Rep(R, ord, d), ord, in)
           /\ Rests(d, e)
           /\ ord[e].aon => Traded(d, u, in) \in {0, d.open[e]}
           => Exact(u, Rep(R, ord, u), ord, in)
    BY <1>6 DEF TradingGood
  <1>8. u \in BookType /\ u.open[in] \in Nat
    BY <1>1, <1>7, SoundOpen
  <1>9. i \in Int /\ i = m.inbound_qty - (m.book.open[in] - u.open[in])
    <2>1. m.inbound_qty \in Int
      BY <1>2 DEF ScanType
    <2> QED
      BY <1>3, <1>7, <1>8, <2>1 DEF Traded
  <1> HIDE DEF i
  <1>10. /\ n \in ScanType /\ n.book = u /\ n.inbound_qty = i
         /\ n.deferred_aons = m.deferred_aons
         /\ n.deferred_matches = m.deferred_matches
    <2>1. m \in ScanType /\ u \in BookType /\ i \in Int
      BY <1>2, <1>8, <1>9
    <2> QED
      BY <1>4, <2>1, ScanFields
  <1>11. ScanGood(n, b, ord, in, k + 1, R)
    <2> DEFINE S == ToSet(m.deferred_matches) \union {e}
    <2>1. Kept(m.book, u, ord, in, S, R)
      BY <1>3, <1>7, <1>8, KeptTransitive DEF max
    <2>2. S \subseteq {e} \union ToSet(m.deferred_matches)
      OBVIOUS
    <2> HIDE DEF S
    <2> QED
      BY <1>7, <1>10, <2>1, <2>2, BookChange
  <1>13. Traded(d, u, in) = d.open[in] - u.open[in]
    BY DEF Traded
  <1>14. ASSUME ord[e].price # Market \/ ord[in].price # Market
         PROVE  /\ d.open[in] - u.open[in] =< d.open[e]
                /\ u.open[in] = 0 \/ d.open[in] - u.open[in] = d.open[e]
    <2>1. CrossPrice(d, ord, in, e) # Market
      BY <1>14 DEF CrossPrice
    <2> QED
      BY <1>3, <1>7, <1>8, <1>13, <2>1 DEF max
  <1>15. ASSUME Exact(d, Rep(R, ord, d), ord, in), ord[e].aon => d.open[in] - u.open[in] \in {0, d.open[e]}
         PROVE  Exact(u, Rep(R, ord, u), ord, in)
    BY <1>7, <1>12, <1>13, <1>15
  <1>16. u.open[in] =< d.open[in]
    <2>1. d.open[in] - u.open[in] \in Nat /\ d.open[in] \in Nat /\ u.open[in] \in Nat
      BY <1>3, <1>7, <1>8, <1>13 DEF max
    <2> QED
      BY <2>1
  <1> QED
    BY <1>7, <1>8, <1>9, <1>10, <1>11, <1>13, <1>14, <1>15, <1>16 DEF TookGood

\* The step from m to n keeps what the loop has found true.
VisitGood(m, n, b, ord, in, k, R) ==
    /\ ScanGood(n, b, ord, in, k + 1, R)
    /\ AonPriced /\ ScanExact(m, b, ord, in, R) => ScanExact(n, b, ord, in, R)

\* The entry and what the loop has found, together.
LEMMA ScanEntry ==
    ASSUME NEW m, NEW b, NEW ord, NEW in, NEW k, NEW e, NEW R,
           NextEntry(m, b, ord, in, k, e), ScanGood(m, b, ord, in, k, R)
    PROVE  /\ m \in ScanType /\ m.inbound_qty \in Int /\ m.deferred_qty \in Int
           /\ m.deferred_matches \in Seq(OrderId)
           /\ in \in OrderId /\ e \in OrderId /\ e \in DOMAIN ord /\ e # in
           /\ e \in ToSet(Opposite(m.book, ord, in))
           /\ e \notin First(Opposite(b, ord, in), k)
           /\ ToSet(m.deferred_matches) \subseteq First(Opposite(b, ord, in), k)
           /\ \A x \in ToSet(m.deferred_matches) : Partners(ord, in, x)
           /\ Distinct(m.deferred_matches)
           /\ in \in DOMAIN ord /\ Objects(ord)
           /\ SoundBook(m.book, ord, in) /\ SoundReports(Rep(R, ord, m.book), ord)
           /\ m.book.open \in [OrderId -> Nat]
           /\ m.book.open[in] \in Nat /\ m.book.open[e] \in Nat /\ m.book.open[e] > 0
PROOF
  <1>1. /\ e \in DOMAIN ord /\ e \in OrderId /\ e # in /\ in \in OrderId
        /\ e \in ToSet(Opposite(m.book, ord, in))
        /\ e \notin First(Opposite(b, ord, in), k)
        /\ m.book.open[e] > 0
    BY EntryFacts
  <1>2. in \in DOMAIN ord /\ Objects(ord)
    BY DEF NextEntry
  <1>3. /\ m \in ScanType
        /\ ToSet(m.deferred_matches) \subseteq First(Opposite(b, ord, in), k)
        /\ \A x \in ToSet(m.deferred_matches) : Partners(ord, in, x)
        /\ Distinct(m.deferred_matches)
        /\ SoundBook(m.book, ord, in) /\ SoundReports(Rep(R, ord, m.book), ord)
    BY DEF ScanGood
  <1>4. /\ m.inbound_qty \in Int /\ m.deferred_qty \in Int
        /\ m.deferred_matches \in Seq(OrderId)
    BY <1>3 DEF ScanType
  <1>5. m.book.open \in [OrderId -> Nat]
    BY <1>1, <1>3, SoundOpen
  <1>6. m.book.open[in] \in Nat /\ m.book.open[e] \in Nat
    BY <1>1, <1>5
  <1> QED
    BY <1>1, <1>2, <1>3, <1>4, <1>5, <1>6

\* A step that leaves the book and the orders put off alone.
LEMMA NothingFound ==
    ASSUME NEW m, NEW b, NEW ord, NEW in, NEW k, NEW e, NEW R,
           NextEntry(m, b, ord, in, k, e), ScanGood(m, b, ord, in, k, R),
           NEW n \in ScanType, n.book = m.book, n.deferred_aons = m.deferred_aons,
           n.deferred_matches = m.deferred_matches, n.inbound_qty = m.inbound_qty
    PROVE  VisitGood(m, n, b, ord, in, k, R)
PROOF
  <1>1. /\ SoundBook(m.book, ord, in) /\ SoundReports(Rep(R, ord, m.book), ord)
        /\ in \in OrderId /\ Objects(ord) /\ m.book \in BookType
    BY ScanEntry DEF SoundBook
  <1>2. Kept(m.book, m.book, ord, in, {}, R)
    BY <1>1, KeptSame
  <1>3. ScanGood(n, b, ord, in, k + 1, R)
    <2> DEFINE S == {}
    <2>1. S \subseteq {e} \union ToSet(m.deferred_matches) /\ Kept(m.book, m.book, ord, in, S, R)
      BY <1>2
    <2> HIDE DEF S
    <2> QED
      BY <1>1, <2>1, BookChange
  <1> QED
    BY <1>3 DEF VisitGood, ScanExact

\* An all-or-none order is put off to the end.
LEMMA AonDeferred ==
    ASSUME NEW m, NEW b, NEW ord, NEW in, NEW k, NEW e, NEW R,
           NextEntry(m, b, ord, in, k, e), ScanGood(m, b, ord, in, k, R), ord[e].aon
    PROVE  VisitGood(m, [m EXCEPT !.deferred_aons = Append(@, e)], b, ord, in, k, R)
PROOF
  <1> DEFINE n == [m EXCEPT !.deferred_aons = Append(@, e)]
  <1>1. m \in ScanType /\ e \in OrderId
    BY EntryFacts DEF ScanGood
  <1>2. Append(m.deferred_aons, e) \in Seq(OrderId)
    BY <1>1 DEF ScanType
  <1>3. /\ n \in ScanType /\ n.book = m.book /\ n.inbound_qty = m.inbound_qty
        /\ n.deferred_aons = Append(m.deferred_aons, e)
        /\ n.deferred_matches = m.deferred_matches
    BY <1>1, <1>2 DEF ScanType
  <1> HIDE DEF n
  <1>4. ScanGood(n, b, ord, in, k + 1, R)
    BY <1>3, Deferral
  <1> SUFFICES VisitGood(m, n, b, ord, in, k, R)
    BY DEF n
  <1> QED
    BY <1>3, <1>4 DEF VisitGood, ScanExact

\* match_regular_order, one entry.
LEMMA VisitRegularFacts ==
    ASSUME NEW m, NEW b, NEW ord, NEW in, NEW k, NEW e, NEW R,
           NextEntry(m, b, ord, in, k, e), ScanGood(m, b, ord, in, k, R),
           Partners(ord, in, e), ~ord[in].aon, m.book.open[in] # 0
    PROVE  VisitGood(m, VisitRegular(m, ord, in, e), b, ord, in, k, R)
PROOF
  <1> DEFINE c == m.book
             n == Took(m, c, TradeAll(c, ord, in, e), ord, in, e)
  <1>1. CASE ord[e].aon /\ m.book.open[e] > m.inbound_qty
    BY <1>1, AonDeferred DEF VisitRegular
  <1>2. CASE ~(ord[e].aon /\ m.book.open[e] > m.inbound_qty)
    <2> SUFFICES VisitGood(m, n, b, ord, in, k, R)
      BY <1>2 DEF VisitRegular
    <2>1. /\ SoundBook(c, ord, in) /\ SoundReports(Rep(R, ord, c), ord)
          /\ in \in OrderId /\ e \in OrderId /\ e \in DOMAIN ord
          /\ e \notin First(Opposite(b, ord, in), k)
          /\ ToSet(m.deferred_matches) \subseteq First(Opposite(b, ord, in), k)
          /\ Objects(ord)
          /\ c.open[in] \in Nat /\ c.open[e] \in Nat
      BY ScanEntry
    <2>2. c.open[in] \in Nat /\ c.open[e] \in Nat
      BY <2>1
    <2>3. Kept(c, c, ord, in, ToSet(m.deferred_matches), R)
      BY <2>1, KeptSame DEF SoundBook
    <2>4. TookGood(m, c, n, b, ord, in, e, k, R)
      BY <2>1, <2>3, TookFacts
    <2> HIDE DEF n
    <2>5. /\ ScanGood(n, b, ord, in, k + 1, R)
          /\ n.book.open[in] \in Nat /\ n.book.open[in] =< c.open[in]
          /\ Kept(c, n.book, ord, in, {e}, R)
          /\ n.deferred_matches = m.deferred_matches
          /\ n.inbound_qty = m.inbound_qty - (m.book.open[in] - n.book.open[in])
          /\ ord[e].price # Market \/ ord[in].price # Market =>
                 /\ c.open[in] - n.book.open[in] =< c.open[e]
                 /\ n.book.open[in] = 0 \/ c.open[in] - n.book.open[in] = c.open[e]
          /\ /\ Exact(c, Rep(R, ord, c), ord, in)
             /\ ord[e].aon => c.open[in] - n.book.open[in] \in {0, c.open[e]}
             => Exact(n.book, Rep(R, ord, n.book), ord, in)
      BY <2>4 DEF TookGood
    <2>6. ASSUME AonPriced, ScanExact(m, b, ord, in, R) PROVE ScanExact(n, b, ord, in, R)
      <3>1. /\ Exact(c, Rep(R, ord, c), ord, in)
            /\ m.inbound_qty = c.open[in] /\ Distinct(m.deferred_matches)
            /\ ToSet(m.deferred_matches) \subseteq ToSet(Opposite(c, ord, in))
        BY <2>2, <2>6 DEF ScanExact
      <3>2. ASSUME ord[e].aon PROVE c.open[in] - n.book.open[in] \in {0, c.open[e]}
        <4>2. ord[e].price # Market \/ ord[in].price # Market
          BY <2>6, <3>2, PricedPartners
        <4>3. c.open[e] =< c.open[in]
          BY <1>2, <2>2, <3>1, <3>2
        <4>4. ord[e].aon
          BY <3>2
        <4>5. c.open[in] - n.book.open[in] = c.open[e]
          BY <2>2, <2>5, <4>2, <4>3
        <4> QED
          BY <4>5
      <3>3. Exact(n.book, Rep(R, ord, n.book), ord, in)
        BY <2>5, <3>1, <3>2
      <3>4. n.inbound_qty = n.book.open[in]
        BY <2>2, <2>5, <3>1
      <3>5. ToSet(m.deferred_matches) \subseteq ToSet(Opposite(n.book, ord, in))
        BY <2>1, <2>5, <3>1 DEF Kept
      <3> QED
        BY <2>5, <3>1, <3>3, <3>4, <3>5 DEF ScanExact
    <2> QED
      BY <2>5, <2>6 DEF VisitGood
  <1> QED
    BY <1>1, <1>2

\* What match_aon_order wants of the orders put off, before it comes to e.
Wanted(m, ord, e, need, most) ==
    /\ need = IF m.inbound_qty > m.book.open[e] THEN m.inbound_qty - m.book.open[e] ELSE 0
    /\ most = IF ord[e].aon THEN need ELSE m.inbound_qty
    /\ ord[e].aon => m.book.open[e] =< m.inbound_qty

\* d is the book after they were tried, e still to come.
EnoughGood(m, d, ord, in, e, need, most, R) ==
    /\ Exact(d, Rep(R, ord, d), ord, in)
    /\ m.book.open[e] = d.open[e] /\ d.open[e] \in Nat /\ d.open[e] > 0
    /\ d.open[in] \in Nat /\ m.book.open[in] \in Nat /\ m.inbound_qty = m.book.open[in]
    /\ (d = m.book /\ Traded(m.book, d, in) = 0)
       \/ (need =< Traded(m.book, d, in) /\ Traded(m.book, d, in) =< most)
    /\ Tried(m.book, d, ord, m.deferred_matches)
    /\ Emptied(m.book, d, in, m.deferred_matches, most, need)

\* match_aon_order, once the orders put off have been tried.
LEMMA EnoughFacts ==
    ASSUME NEW m, NEW b, NEW ord, NEW in, NEW k, NEW e, NEW R,
           NextEntry(m, b, ord, in, k, e), ScanGood(m, b, ord, in, k, R),
           Partners(ord, in, e), ord[in].aon,
           AonPriced, ScanExact(m, b, ord, in, R), m.book.open[in] # 0,
           NEW d, NEW need \in Nat, NEW most \in Int,
           TryGood(m.book, d, ord, in, m.deferred_matches, most, need, R),
           Wanted(m, ord, e, need, most)
    PROVE  EnoughGood(m, d, ord, in, e, need, most, R)
PROOF
  <1>1. /\ in \in OrderId /\ e \in OrderId /\ e # in
        /\ e \notin First(Opposite(b, ord, in), k)
        /\ ToSet(m.deferred_matches) \subseteq First(Opposite(b, ord, in), k)
        /\ in \in DOMAIN ord /\ Objects(ord)
        /\ SoundBook(m.book, ord, in)
        /\ m.book.open[e] > 0
    BY ScanEntry
  <1>2. SoundBook(d, ord, in)
    BY DEF TryGood
  <1>3. /\ m.book.open[in] \in Nat /\ d.open[in] \in Nat
        /\ m.book.open \in [OrderId -> Nat] /\ d.open \in [OrderId -> Nat]
    BY <1>1, <1>2, SoundOpen
  <1>4. /\ Exact(m.book, Rep(R, ord, m.book), ord, in)
        /\ m.inbound_qty = m.book.open[in] /\ Distinct(m.deferred_matches)
        /\ ToSet(m.deferred_matches) \subseteq ToSet(Opposite(m.book, ord, in))
    BY <1>3 DEF ScanExact
  <1>5. \A x \in ToSet(m.deferred_matches) : ord[x].price # Market \/ ord[in].price # Market
    <2>1. \A x \in ToSet(m.deferred_matches) : Partners(ord, in, x)
      BY ScanEntry
    <2> QED
      BY <2>1, PricedPartners
  <1>6. m.book.open[e] = d.open[e] /\ d.open[e] \in Nat
    <2>1. Kept(m.book, d, ord, in, ToSet(m.deferred_matches), R)
      BY DEF TryGood
    <2> QED
      BY <1>1, <1>3, <2>1 DEF Kept
  <1>7. most =< m.book.open[in]
    BY <1>3, <1>4, <1>6 DEF Wanted
  <1>8. ExactPlan(m.book, ord, in, m.deferred_matches, most, Rep(R, ord, m.book))
    BY <1>4, <1>5, <1>7 DEF ExactPlan
  <1>9. /\ Exact(d, Rep(R, ord, d), ord, in)
        /\ d = m.book \/ (need =< Traded(m.book, d, in) /\ Traded(m.book, d, in) =< most)
        /\ Tried(m.book, d, ord, m.deferred_matches)
        /\ Emptied(m.book, d, in, m.deferred_matches, most, need)
    BY <1>8 DEF TryGood
  <1>10. d = m.book => Traded(m.book, d, in) = 0
    BY <1>3 DEF Traded
  <1> QED
    BY <1>1, <1>3, <1>4, <1>6, <1>9, <1>10 DEF EnoughGood

\* match_aon_order, one entry.
LEMMA VisitAonFacts ==
    ASSUME NEW m, NEW b, NEW ord, NEW in, NEW k, NEW e, NEW R,
           NextEntry(m, b, ord, in, k, e), ScanGood(m, b, ord, in, k, R),
           Partners(ord, in, e), ord[in].aon, m.book.open[in] # 0
    PROVE  VisitGood(m, VisitAon(m, ord, in, e), b, ord, in, k, R)
PROOF
  <1> DEFINE c == m.book
             current == c.open[e]
             need == IF m.inbound_qty > current THEN m.inbound_qty - current ELSE 0
             most == IF ord[e].aon THEN need ELSE m.inbound_qty
             d == TryCreateDeferredTrades(c, ord, in, m.deferred_matches, most, need)
             got == Traded(c, d, in)
             enough == IF ord[e].aon THEN got = need ELSE m.inbound_qty =< current + got
             off == [m EXCEPT !.deferred_matches = Append(@, e), !.deferred_qty = @ + current]
             took == Took(m, d, TradeAll(d, ord, in, e), ord, in, e)
             rest == [m EXCEPT !.book = d]
  <1>0. VisitAon(m, ord, in, e) =
          IF ord[e].aon /\ current > m.inbound_qty
          THEN [m EXCEPT !.deferred_aons = Append(@, e)]
          ELSE IF m.inbound_qty > current + m.deferred_qty THEN off
          ELSE IF enough THEN took ELSE rest
    BY DEF VisitAon
  <1>1. /\ m \in ScanType /\ m.inbound_qty \in Int /\ m.deferred_qty \in Int
        /\ m.deferred_matches \in Seq(OrderId)
        /\ in \in OrderId /\ e \in OrderId /\ e \in DOMAIN ord
        /\ e \in ToSet(Opposite(c, ord, in))
        /\ e \notin First(Opposite(b, ord, in), k)
        /\ ToSet(m.deferred_matches) \subseteq First(Opposite(b, ord, in), k)
        /\ \A x \in ToSet(m.deferred_matches) : Partners(ord, in, x)
        /\ Distinct(m.deferred_matches)
        /\ in \in DOMAIN ord /\ Objects(ord)
        /\ SoundBook(c, ord, in) /\ SoundReports(Rep(R, ord, c), ord)
        /\ c.open[in] \in Nat /\ current \in Nat
    BY ScanEntry
  <1>2. c.open[in] \in Nat /\ current \in Nat
    BY <1>1
  <1>3. CASE ord[e].aon /\ current > m.inbound_qty
    <2>1. VisitGood(m, [m EXCEPT !.deferred_aons = Append(@, e)], b, ord, in, k, R)
      BY <1>3, AonDeferred
    <2>2. VisitAon(m, ord, in, e) = [m EXCEPT !.deferred_aons = Append(@, e)]
      BY <1>0, <1>3
    <2> QED
      BY <2>1, <2>2
  <1>4. CASE ~(ord[e].aon /\ current > m.inbound_qty) /\ m.inbound_qty > current + m.deferred_qty
    <2> SUFFICES VisitGood(m, off, b, ord, in, k, R)
      BY <1>0, <1>4
    <2>1. /\ off \in ScanType /\ off.book = m.book /\ off.inbound_qty = m.inbound_qty
          /\ off.deferred_aons = m.deferred_aons
          /\ off.deferred_matches = Append(m.deferred_matches, e)
      <3> DEFINE s == Append(m.deferred_matches, e)
                 j == m.deferred_qty + current
                 o == [m EXCEPT !.deferred_matches = s]
      <3>1. s \in Seq(OrderId) /\ j \in Int
        BY <1>1, <1>2
      <3>2. off = [o EXCEPT !.deferred_qty = j]
        BY <1>1 DEF ScanType
      <3> HIDE DEF s, j, off
      <3>3. /\ o \in ScanType /\ o.book = m.book /\ o.inbound_qty = m.inbound_qty
            /\ o.deferred_aons = m.deferred_aons /\ o.deferred_matches = s
        BY <1>1, <3>1 DEF ScanType
      <3> HIDE DEF o
      <3>4. /\ off \in ScanType /\ off.book = o.book /\ off.inbound_qty = o.inbound_qty
            /\ off.deferred_aons = o.deferred_aons /\ off.deferred_matches = o.deferred_matches
        BY <3>1, <3>2, <3>3 DEF ScanType
      <3> QED
        BY <3>3, <3>4 DEF s
    <2> HIDE DEF off
    <2>2. ScanGood(off, b, ord, in, k + 1, R)
      BY <2>1, Deferral
    <2>3. ASSUME ScanExact(m, b, ord, in, R) PROVE ScanExact(off, b, ord, in, R)
      <3>1. /\ ToSet(off.deferred_matches) = ToSet(m.deferred_matches) \union {e}
            /\ Distinct(m.deferred_matches) => Distinct(off.deferred_matches)
        BY <1>1, <2>1, AppendFacts
      <3> QED
        BY <1>1, <2>1, <2>3, <3>1 DEF ScanExact
    <2> QED
      BY <2>2, <2>3 DEF VisitGood
  <1>5. CASE ~(ord[e].aon /\ current > m.inbound_qty) /\ ~(m.inbound_qty > current + m.deferred_qty)
    <2>1. need \in Nat /\ most \in Int
      BY <1>1, <1>2
    <2>2. m.deferred_matches \in Seq(DOMAIN ord)
      <3>1. ToSet(m.deferred_matches) \subseteq DOMAIN ord
        BY <1>1 DEF Partners
      <3> QED
        BY <1>1, <3>1, SeqOver
    <2> HIDE DEF need, most
    <2>3. TryGood(c, d, ord, in, m.deferred_matches, most, need, R)
      <3>1. most \in Int /\ need \in Int
        BY <2>1
      <3> QED
        BY <1>1, <2>2, <3>1, TryFacts
    <2>4. /\ SoundBook(d, ord, in) /\ SoundReports(Rep(R, ord, d), ord)
          /\ Kept(c, d, ord, in, ToSet(m.deferred_matches), R)
      BY <2>3 DEF TryGood
    <2>5. ASSUME AonPriced, ScanExact(m, b, ord, in, R)
          PROVE  /\ Exact(d, Rep(R, ord, d), ord, in)
                 /\ current = d.open[e] /\ d.open[e] \in Nat /\ d.open[e] > 0
                 /\ d.open[in] \in Nat /\ c.open[in] \in Nat /\ m.inbound_qty = c.open[in]
                 /\ (d = c /\ got = 0) \/ (need =< got /\ got =< most)
      <3>1. Wanted(m, ord, e, need, most)
        BY <1>1, <1>2, <1>5 DEF need, most, Wanted
      <3> HIDE DEF d
      <3>2. EnoughGood(m, d, ord, in, e, need, most, R)
        BY <2>1, <2>3, <2>5, <3>1, EnoughFacts
      <3> QED
        BY <3>2 DEF EnoughGood
    <2> HIDE DEF d
    <2>6. CASE enough
      <3> SUFFICES VisitGood(m, took, b, ord, in, k, R)
        BY <1>0, <1>5, <2>6 DEF need, most, d
      <3>1. TookGood(m, d, took, b, ord, in, e, k, R)
        BY <2>4, TookFacts
      <3> HIDE DEF took
      <3>2. /\ ScanGood(took, b, ord, in, k + 1, R)
            /\ took.book.open[in] \in Nat
            /\ ord[e].price # Market \/ ord[in].price # Market =>
                   /\ d.open[in] - took.book.open[in] =< d.open[e]
                   /\ took.book.open[in] = 0 \/ d.open[in] - took.book.open[in] = d.open[e]
            /\ /\ Exact(d, Rep(R, ord, d), ord, in)
               /\ ord[e].aon => d.open[in] - took.book.open[in] \in {0, d.open[e]}
               => Exact(took.book, Rep(R, ord, took.book), ord, in)
        BY <3>1 DEF TookGood
      <3>3. ASSUME AonPriced, ScanExact(m, b, ord, in, R) PROVE ScanExact(took, b, ord, in, R)
        <4>1. /\ Exact(d, Rep(R, ord, d), ord, in)
              /\ current = d.open[e] /\ d.open[e] \in Nat /\ d.open[e] > 0
              /\ d.open[in] \in Nat /\ c.open[in] \in Nat /\ m.inbound_qty = c.open[in]
              /\ (d = c /\ got = 0) \/ (need =< got /\ got =< most)
          BY <2>5, <3>3
        <4>2. ord[e].price # Market \/ ord[in].price # Market
          BY <3>3, PricedPartners
        <4>3. got = c.open[in] - d.open[in]
          BY DEF Traded
        <4> HIDE DEF got
        <4>4. CASE ord[e].aon
          <5>1. got = need /\ current =< m.inbound_qty
            BY <1>5, <1>1, <1>2, <2>6, <4>4
          <5>2. d.open[in] = d.open[e]
            BY <1>2, <4>1, <4>3, <5>1 DEF need
          <5>3. took.book.open[in] = 0
            BY <3>2, <4>1, <4>2, <5>2
          <5>4. d.open[in] - took.book.open[in] = d.open[e]
            BY <4>1, <5>2, <5>3
          <5> QED
            BY <3>2, <4>1, <5>3, <5>4 DEF ScanExact
        <4>5. CASE ~ord[e].aon
          <5>1. m.inbound_qty =< current + got
            BY <2>6, <4>5
          <5>2. d.open[in] =< d.open[e]
            BY <1>2, <4>1, <4>3, <5>1
          <5>3. took.book.open[in] = 0
            BY <3>2, <4>1, <4>2, <5>2
          <5> QED
            BY <3>2, <4>1, <4>5, <5>3 DEF ScanExact
        <4> QED
          BY <4>4, <4>5
      <3> QED
        BY <3>2, <3>3 DEF VisitGood
    <2>7. CASE ~enough
      <3> SUFFICES VisitGood(m, rest, b, ord, in, k, R)
        BY <1>0, <1>5, <2>7 DEF need, most, d
      <3>1. d \in BookType
        BY <2>4 DEF SoundBook
      <3>2. /\ rest \in ScanType /\ rest.book = d /\ rest.inbound_qty = m.inbound_qty
            /\ rest.deferred_aons = m.deferred_aons
            /\ rest.deferred_matches = m.deferred_matches
        BY <1>1, <3>1 DEF ScanType
      <3> HIDE DEF rest
      <3>3. ScanGood(rest, b, ord, in, k + 1, R)
        <4> DEFINE S == ToSet(m.deferred_matches)
        <4>1. S \subseteq {e} \union ToSet(m.deferred_matches) /\ Kept(c, d, ord, in, S, R)
          BY <2>4
        <4> HIDE DEF S
        <4> QED
          BY <2>4, <3>2, <4>1, BookChange
      <3>4. ASSUME AonPriced, ScanExact(m, b, ord, in, R) PROVE ScanExact(rest, b, ord, in, R)
        <4>1. /\ current = d.open[e] /\ d.open[e] \in Nat
              /\ d.open[in] \in Nat /\ c.open[in] \in Nat /\ m.inbound_qty = c.open[in]
              /\ (d = c /\ got = 0) \/ (need =< got /\ got =< most)
          BY <2>5, <3>4
        <4>2. got = c.open[in] - d.open[in]
          BY DEF Traded
        <4> HIDE DEF got
        <4>3. d = c
          BY <1>2, <2>7, <4>1, <4>2 DEF need, most
        <4> QED
          BY <3>2, <3>4, <4>3 DEF ScanExact
      <3> QED
        BY <3>3, <3>4 DEF VisitGood
    <2> QED
      BY <2>6, <2>7
  <1> QED
    BY <1>3, <1>4, <1>5

\* match_order, one entry.
LEMMA VisitFacts ==
    ASSUME NEW m, NEW b, NEW ord, NEW in, NEW k, NEW e, NEW R,
           NextEntry(m, b, ord, in, k, e), ScanGood(m, b, ord, in, k, R)
    PROVE  VisitGood(m, Visit(m, ord, in, e), b, ord, in, k, R)
PROOF
  <1>1. /\ m \in ScanType /\ e \in OrderId /\ in \in OrderId
        /\ e \in ToSet(Opposite(m.book, ord, in))
        /\ e \notin First(Opposite(b, ord, in), k)
        /\ ToSet(m.deferred_matches) \subseteq First(Opposite(b, ord, in), k)
        /\ in \in DOMAIN ord /\ Objects(ord)
        /\ SoundBook(m.book, ord, in) /\ SoundReports(Rep(R, ord, m.book), ord)
    BY ScanEntry
  <1>2. CASE m.done \/ m.book.undefined \/ m.book.open[in] = 0
    <2>1. Visit(m, ord, in, e) = m
      BY <1>2 DEF Visit
    <2> QED
      BY <1>1, <2>1, NothingFound
  <1>3. CASE ~(m.done \/ m.book.undefined \/ m.book.open[in] = 0)
    <2>1. CASE ~MatchesPrice(ord[e].buy, ord[e].price, ord[in].price)
      <3> DEFINE n == [m EXCEPT !.done = TRUE]
      <3>1. Visit(m, ord, in, e) = n
        BY <1>3, <2>1 DEF Visit
      <3>2. /\ n \in ScanType /\ n.book = m.book /\ n.deferred_aons = m.deferred_aons
            /\ n.deferred_matches = m.deferred_matches /\ n.inbound_qty = m.inbound_qty
        BY <1>1 DEF ScanType
      <3> HIDE DEF n
      <3> QED
        BY <3>1, <3>2, NothingFound
    <2>2. CASE MatchesPrice(ord[e].buy, ord[e].price, ord[in].price) /\ e \in m.book.expired
      <3> DEFINE u == TimedOut(m.book, e)
                 n == [m EXCEPT !.book = u]
      <3>1. Visit(m, ord, in, e) = n
        BY <1>3, <2>2 DEF Visit
      <3>2. /\ SoundBook(u, ord, in) /\ SoundReports(Rep(R, ord, u), ord)
            /\ Kept(m.book, u, ord, in, {e}, R)
            /\ u.open = m.book.open
            /\ Exact(m.book, Rep(R, ord, m.book), ord, in) => Exact(u, Rep(R, ord, u), ord, in)
        BY <1>1, TimedOutFacts
      <3> HIDE DEF u
      <3>3. /\ n \in ScanType /\ n.book = u /\ n.deferred_aons = m.deferred_aons
            /\ n.deferred_matches = m.deferred_matches /\ n.inbound_qty = m.inbound_qty
        <4>1. u \in BookType
          BY <3>2 DEF SoundBook
        <4> QED
          BY <1>1, <4>1 DEF ScanType
      <3> HIDE DEF n
      <3>4. ScanGood(n, b, ord, in, k + 1, R)
        <4> DEFINE S == {e}
        <4>1. S \subseteq {e} \union ToSet(m.deferred_matches) /\ Kept(m.book, u, ord, in, S, R)
          BY <3>2
        <4> HIDE DEF S
        <4> QED
          BY <3>2, <3>3, <4>1, BookChange
      <3>5. ASSUME ScanExact(m, b, ord, in, R) PROVE ScanExact(n, b, ord, in, R)
        <4>1. e \notin ToSet(m.deferred_matches)
          BY <1>1
        <4>2. ASSUME u.open[in] > 0
              PROVE  ToSet(m.deferred_matches) \subseteq ToSet(Opposite(u, ord, in))
          BY <3>2, <3>5, <4>1, <4>2 DEF ScanExact, Kept
        <4> QED
          BY <3>2, <3>3, <3>5, <4>2 DEF ScanExact
      <3> QED
        BY <3>1, <3>4, <3>5 DEF VisitGood
    <2>3. CASE MatchesPrice(ord[e].buy, ord[e].price, ord[in].price) /\ e \notin m.book.expired
      <3>1. Partners(ord, in, e) /\ m.book.open[in] # 0
        <4>1. MatchesPrice(ord[e].buy, ord[e].price, ord[in].price) => Partners(ord, in, e)
          BY EntryFacts
        <4> QED
          BY <1>3, <2>3, <4>1
      <3>2. CASE ord[in].aon
        <4>1. Visit(m, ord, in, e) = VisitAon(m, ord, in, e)
          BY <1>3, <2>3, <3>2 DEF Visit
        <4> QED
          BY <3>1, <3>2, <4>1, VisitAonFacts
      <3>3. CASE ~ord[in].aon
        <4>1. Visit(m, ord, in, e) = VisitRegular(m, ord, in, e)
          BY <1>3, <2>3, <3>3 DEF Visit
        <4> QED
          BY <3>1, <3>3, <4>1, VisitRegularFacts
      <3> QED
        BY <3>2, <3>3
    <2> QED
      BY <2>1, <2>2, <2>3
  <1> QED
    BY <1>2, <1>3

-----------------------------------------------------------------------------
(***************************************************************************)
(* Sums over a finite set, as NothingLeftToMatch takes them.               *)
(***************************************************************************)

\* What the orders of S have open together.
Total(open, S) == MapThenSumSet(LAMBDA id : open[id], S)

\* The element of a set that the sum takes next.
Some(S) == CHOOSE x \in S : TRUE

\* F adds up each of the sets in D.
Adds(F, open, D) ==
    F = [s \in D |-> IF s = {} THEN 0 ELSE open[Some(s)] + F[s \ {Some(s)}]]

\* There is a function that adds up every subset of a finite set.
LEMMA AddsExists ==
    ASSUME NEW open, NEW S, IsFiniteSet(S)
    PROVE  \E F : Adds(F, open, SUBSET S)
PROOF
  <1> DEFINE Upto(n) == {s \in SUBSET S : Cardinality(s) =< n}
             N == {n \in Nat : \E F : Adds(F, open, Upto(n))}
  <1>1. \A s \in SUBSET S : IsFiniteSet(s) /\ Cardinality(s) \in Nat
    BY FS_Subset, FS_CardinalityType
  <1>2. \A s \in SUBSET S : s # {} => Some(s) \in s /\ Cardinality(s \ {Some(s)}) = Cardinality(s) - 1
    BY <1>1, FS_RemoveElement DEF Some
  <1>3. 0 \in N
    <2> DEFINE F == [s \in Upto(0) |-> 0]
    <2>1. \A s \in Upto(0) : s = {}
      BY <1>1, FS_EmptySet
    <2>2. Adds(F, open, Upto(0))
      BY <2>1, Zenon DEF Adds
    <2> QED
      BY <2>2
  <1>4. ASSUME NEW n \in Nat, n \in N PROVE n + 1 \in N
    <2>1. PICK F : Adds(F, open, Upto(n))
      BY <1>4
    <2> DEFINE G == [s \in Upto(n + 1) |-> IF s = {} THEN 0 ELSE open[Some(s)] + F[s \ {Some(s)}]]
    <2>2. \A s \in Upto(n) : s \in Upto(n + 1)
      BY <1>1
    <2>3. \A s \in Upto(n) : G[s] = F[s]
      <3>1. F = [s \in Upto(n) |-> IF s = {} THEN 0 ELSE open[Some(s)] + F[s \ {Some(s)}]]
        BY <2>1 DEF Adds
      <3> HIDE DEF Upto
      <3> QED
        BY <2>2, <3>1
    <2>4. \A s \in Upto(n + 1) : s # {} => s \ {Some(s)} \in Upto(n)
      BY <1>1, <1>2
    <2>5. Adds(G, open, Upto(n + 1))
      <3> HIDE DEF Upto
      <3>1. \A s \in Upto(n + 1) : G[s] = IF s = {} THEN 0 ELSE open[Some(s)] + G[s \ {Some(s)}]
        BY <2>3, <2>4
      <3>2. G = [s \in Upto(n + 1) |-> G[s]]
        OBVIOUS
      <3> HIDE DEF G
      <3> QED
        BY <3>1, <3>2 DEF Adds
    <2> QED
      BY <2>5
  <1>5. Nat \subseteq N
    <2> HIDE DEF N
    <2> QED
      BY <1>3, <1>4, SetInduction
  <1>6. Upto(Cardinality(S)) = SUBSET S
    BY <1>1, FS_Subset
  <1>7. Cardinality(S) \in N
    BY <1>5, FS_CardinalityType
  <1> QED
    BY <1>6, <1>7

\* Two such functions agree where both are defined.
LEMMA AddsUnique ==
    ASSUME NEW open, NEW S, IsFiniteSet(S), NEW T \in SUBSET S, NEW F, NEW G,
           Adds(F, open, SUBSET S), Adds(G, open, SUBSET T)
    PROVE  F[T] = G[T]
PROOF
  <1> DEFINE N == {n \in Nat : \A s \in SUBSET T : Cardinality(s) =< n => F[s] = G[s]}
  <1>1. \A s \in SUBSET T : s \in SUBSET S /\ IsFiniteSet(s) /\ Cardinality(s) \in Nat
    BY FS_Subset, FS_CardinalityType
  <1>2. \A s \in SUBSET T : s # {} =>
            /\ s \ {Some(s)} \in SUBSET T
            /\ Cardinality(s \ {Some(s)}) = Cardinality(s) - 1
    BY <1>1, FS_RemoveElement DEF Some
  <1>3. \A s \in SUBSET T :
            /\ F[s] = IF s = {} THEN 0 ELSE open[Some(s)] + F[s \ {Some(s)}]
            /\ G[s] = IF s = {} THEN 0 ELSE open[Some(s)] + G[s \ {Some(s)}]
    BY <1>1 DEF Adds
  <1>4. 0 \in N
    <2>1. \A s \in SUBSET T : Cardinality(s) =< 0 => s = {}
      BY <1>1, FS_EmptySet
    <2> QED
      BY <1>3, <2>1
  <1>5. ASSUME NEW n \in Nat, n \in N PROVE n + 1 \in N
    <2>1. ASSUME NEW s \in SUBSET T, Cardinality(s) =< n + 1 PROVE F[s] = G[s]
      <3>1. CASE s = {}
        BY <1>3, <3>1
      <3>2. CASE s # {}
        <4>1. F[s \ {Some(s)}] = G[s \ {Some(s)}]
          BY <1>1, <1>2, <1>5, <2>1, <3>2
        <4> QED
          BY <1>3, <3>2, <4>1
      <3> QED
        BY <3>1, <3>2
    <2> QED
      BY <2>1
  <1>6. Nat \subseteq N
    <2> HIDE DEF N
    <2> QED
      BY <1>4, <1>5, SetInduction
  <1>7. Cardinality(T) \in N /\ T \in SUBSET T
    BY <1>1, <1>6
  <1> QED
    BY <1>1, <1>7

\* The sum of a set is taken element by element.
LEMMA TotalStep ==
    ASSUME NEW open, NEW S, IsFiniteSet(S)
    PROVE  /\ Total(open, {}) = 0
           /\ S # {} => Total(open, S) = open[Some(S)] + Total(open, S \ {Some(S)})
PROOF
  <1>1. ASSUME NEW T
        PROVE  Total(open, T) = (CHOOSE F : Adds(F, open, SUBSET T))[T]
    BY DEF Total, MapThenSumSet, MapThenFoldSet, Adds, Some
  <1>2. PICK F : Adds(F, open, SUBSET S)
    BY AddsExists
  <1>3. ASSUME NEW T \in SUBSET S PROVE Total(open, T) = F[T]
    <2> DEFINE G == CHOOSE G : Adds(G, open, SUBSET T)
    <2>1. Adds(G, open, SUBSET T)
      BY AddsExists, FS_Subset
    <2> HIDE DEF G
    <2>2. F[T] = G[T]
      BY <1>2, <2>1, AddsUnique
    <2> QED
      BY <1>1, <2>2 DEF G
  <1>4. \A s \in SUBSET S : F[s] = IF s = {} THEN 0 ELSE open[Some(s)] + F[s \ {Some(s)}]
    BY <1>2 DEF Adds
  <1>5. {} \in SUBSET S /\ S \in SUBSET S /\ S \ {Some(S)} \in SUBSET S
    OBVIOUS
  <1>6. F[{}] = 0 /\ (S # {} => F[S] = open[Some(S)] + F[S \ {Some(S)}])
    BY <1>4, <1>5
  <1>7. Total(open, {}) = F[{}] /\ Total(open, S) = F[S]
        /\ Total(open, S \ {Some(S)}) = F[S \ {Some(S)}]
    BY <1>3, <1>5
  <1> QED
    BY <1>6, <1>7

\* Any of its elements may be the next.
LEMMA TotalMinus ==
    ASSUME NEW open, NEW S, IsFiniteSet(S), \A x \in S : open[x] \in Nat
    PROVE  /\ Total(open, S) \in Nat
           /\ \A x \in S : Total(open, S) = open[x] + Total(open, S \ {x})
PROOF
  <1> DEFINE Good(s) == /\ Total(open, s) \in Nat
                        /\ \A x \in s : Total(open, s) = open[x] + Total(open, s \ {x})
             N == {n \in Nat : \A s \in SUBSET S : Cardinality(s) =< n => Good(s)}
  <1>1. \A s \in SUBSET S : IsFiniteSet(s) /\ Cardinality(s) \in Nat
    BY FS_Subset, FS_CardinalityType
  <1>2. \A s \in SUBSET S : \A x \in s :
            s \ {x} \in SUBSET S /\ Cardinality(s \ {x}) = Cardinality(s) - 1
    BY <1>1, FS_RemoveElement
  <1>3. Good({})
    <2>1. Total(open, {}) = 0
      BY TotalStep
    <2> QED
      BY <2>1
  <1>4. 0 \in N
    <2>1. \A s \in SUBSET S : Cardinality(s) =< 0 => s = {}
      BY <1>1, FS_EmptySet
    <2> HIDE DEF Good
    <2> QED
      BY <1>3, <2>1
  <1>5. ASSUME NEW n \in Nat, n \in N PROVE n + 1 \in N
    <2>1. ASSUME NEW s \in SUBSET S, Cardinality(s) =< n + 1 PROVE Good(s)
      <3>1. CASE s = {}
        <4> HIDE DEF Good
        <4> QED
          BY <1>3, <3>1
      <3>2. CASE s # {}
        <4> DEFINE c == Some(s)
        <4>1. c \in s
          BY <3>2 DEF Some
        <4>2. Total(open, s) = open[c] + Total(open, s \ {c})
          BY <1>1, <3>2, TotalStep
        <4> HIDE DEF c
        <4>3. \A x \in s : Good(s \ {x})
          <5> HIDE DEF Good
          <5> QED
            BY <1>1, <1>2, <1>5, <2>1
        <4>4. \A x \in s : Total(open, s \ {x}) \in Nat /\ open[x] \in Nat
          BY <4>3
        <4>5. ASSUME NEW x \in s, x # c
              PROVE  Total(open, s) = open[x] + Total(open, s \ {x})
          <5>1. Total(open, s \ {c}) = open[x] + Total(open, (s \ {c}) \ {x})
            BY <4>1, <4>3, <4>5
          <5>2. Total(open, s \ {x}) = open[c] + Total(open, (s \ {x}) \ {c})
            BY <4>1, <4>3, <4>5
          <5>3. (s \ {c}) \ {x} = (s \ {x}) \ {c}
            OBVIOUS
          <5>4. Total(open, (s \ {x}) \ {c}) \in Nat
            <6>1. (s \ {x}) \ {c} \in SUBSET S /\ Cardinality((s \ {x}) \ {c}) =< n
              <7>1. c \in s \ {x} /\ s \ {x} \in SUBSET S
                BY <4>1, <4>5
              <7>2. /\ (s \ {x}) \ {c} \in SUBSET S
                    /\ Cardinality((s \ {x}) \ {c}) = Cardinality(s \ {x}) - 1
                    /\ Cardinality(s \ {x}) = Cardinality(s) - 1
                BY <1>2, <7>1
              <7>3. Cardinality(s) \in Nat
                BY <1>1
              <7> HIDE DEF N, Good
              <7> QED
                BY <2>1, <7>2, <7>3
            <6> HIDE DEF Good
            <6>2. Good((s \ {x}) \ {c})
              BY <1>5, <6>1
            <6> QED
              BY <6>2 DEF Good
          <5> HIDE DEF N, Good
          <5>5. open[x] \in Nat /\ open[c] \in Nat
            BY <4>1, <4>4
          <5> QED
            BY <4>2, <5>1, <5>2, <5>3, <5>4, <5>5
        <4> QED
          BY <4>1, <4>2, <4>4, <4>5
      <3> QED
        BY <3>1, <3>2
    <2> HIDE DEF Good
    <2> QED
      BY <2>1
  <1>6. Nat \subseteq N
    <2> HIDE DEF N
    <2> QED
      BY <1>4, <1>5, SetInduction
  <1>7. Cardinality(S) \in N /\ S \in SUBSET S
    BY <1>1, <1>6
  <1> QED
    BY <1>1, <1>7

\* A smaller set of orders with less open has less in sum.
LEMMA TotalGrows ==
    ASSUME NEW open, NEW new, NEW S, IsFiniteSet(S), NEW T \in SUBSET S,
           \A x \in S : open[x] \in Nat,
           \A x \in T : new[x] \in Nat /\ new[x] =< open[x]
    PROVE  Total(new, T) =< Total(open, S)
PROOF
  <1> DEFINE Good(s) == \A t \in SUBSET T : t \subseteq s => Total(new, t) =< Total(open, s)
             N == {n \in Nat : \A s \in SUBSET S : Cardinality(s) =< n => Good(s)}
  <1>1. \A s \in SUBSET S : IsFiniteSet(s) /\ Cardinality(s) \in Nat
    BY FS_Subset, FS_CardinalityType
  <1>2. \A s \in SUBSET S :
            /\ Total(open, s) \in Nat
            /\ \A x \in s : Total(open, s) = open[x] + Total(open, s \ {x})
    BY <1>1, TotalMinus
  <1>3. \A t \in SUBSET T :
            /\ Total(new, t) \in Nat
            /\ \A x \in t : Total(new, t) = new[x] + Total(new, t \ {x})
    BY <1>1, TotalMinus
  <1>4. \A s \in SUBSET S : \A x \in s :
            s \ {x} \in SUBSET S /\ Cardinality(s \ {x}) = Cardinality(s) - 1
    BY <1>1, FS_RemoveElement
  <1>5. 0 \in N
    <2>1. \A s \in SUBSET S : Cardinality(s) =< 0 => s = {}
      BY <1>1, FS_EmptySet
    <2>2. Total(new, {}) = 0 /\ Total(open, {}) = 0
      BY TotalStep
    <2>3. \A s \in SUBSET S : Cardinality(s) =< 0 => Good(s)
      BY <2>1, <2>2
    <2> QED
      BY <2>3
  <1>6. ASSUME NEW n \in Nat, n \in N PROVE n + 1 \in N
    <2>1. ASSUME NEW s \in SUBSET S, Cardinality(s) =< n + 1, NEW t \in SUBSET T, t \subseteq s
          PROVE  Total(new, t) =< Total(open, s)
      <3>1. CASE s = {}
        <4>1. t = {}
          BY <2>1, <3>1
        <4>2. Total(new, {}) = 0 /\ Total(open, {}) = 0
          BY TotalStep, <1>1
        <4> QED
          BY <3>1, <4>1, <4>2
      <3>2. CASE s # {}
        <4>1. PICK x : x \in s
          BY <3>2
        <4>2. Good(s \ {x})
          <5> HIDE DEF Good
          <5> QED
            BY <1>1, <1>4, <1>6, <2>1, <4>1
        <4>3. Total(open, s) = open[x] + Total(open, s \ {x}) /\ Total(open, s \ {x}) \in Nat
              /\ open[x] \in Nat
          BY <1>2, <1>4, <4>1
        <4>4. CASE x \in t
          <5>1. Total(new, t) = new[x] + Total(new, t \ {x}) /\ Total(new, t \ {x}) \in Nat
            BY <1>3, <4>4
          <5>2. Total(new, t \ {x}) =< Total(open, s \ {x})
            BY <2>1, <4>2
          <5>3. new[x] \in Nat /\ new[x] =< open[x]
            BY <4>4
          <5> QED
            BY <4>3, <5>1, <5>2, <5>3
        <4>5. CASE x \notin t
          <5>1. Total(new, t) =< Total(open, s \ {x}) /\ Total(new, t) \in Nat
            BY <1>3, <2>1, <4>2, <4>5
          <5> QED
            BY <4>3, <5>1
        <4> QED
          BY <4>4, <4>5
      <3> QED
        BY <3>1, <3>2
    <2> HIDE DEF Good
    <2>2. \A s \in SUBSET S : Cardinality(s) =< n + 1 => Good(s)
      BY <2>1 DEF Good
    <2> QED
      BY <2>2
  <1>7. Nat \subseteq N
    <2> HIDE DEF N
    <2> QED
      BY <1>5, <1>6, SetInduction
  <1>8. Cardinality(S) \in N /\ S \in SUBSET S
    BY <1>1, <1>7
  <1> QED
    BY <1>1, <1>8

\* A sequence without repetition holds a finite set.
LEMMA SequenceFinite ==
    ASSUME NEW E, NEW s \in Seq(E), NEW k \in 0..Len(s)
    PROVE  IsFiniteSet(First(s, k)) /\ First(s, Len(s)) = ToSet(s)
PROOF
  <1> DEFINE N == {n \in Nat : n =< Len(s) => IsFiniteSet(First(s, n))}
  <1>1. 0 \in N
    <2>1. First(s, 0) = {}
      BY DEF First
    <2> QED
      BY <2>1, FS_EmptySet
  <1>2. ASSUME NEW n \in Nat, n \in N PROVE n + 1 \in N
    <2> SUFFICES ASSUME n + 1 =< Len(s) PROVE IsFiniteSet(First(s, n + 1))
      OBVIOUS
    <2>1. IsFiniteSet(First(s, n))
      BY <1>2
    <2>2. IsFiniteSet(First(s, n) \union {s[n + 1]})
      BY <2>1, FS_AddElement
    <2>3. First(s, n + 1) = First(s, n) \union {s[n + 1]}
      BY DEF First
    <2> QED
      BY <2>2, <2>3
  <1>3. Nat \subseteq N
    <2> HIDE DEF N
    <2> QED
      BY <1>1, <1>2, SetInduction
  <1>4. First(s, Len(s)) = ToSet(s)
    BY DEF First, ToSet
  <1> QED
    BY <1>3, <1>4

\* What Weighs adds up along a sequence is the sum of the set it holds.
LEMMA TotalWeighs ==
    ASSUME NEW E, NEW s \in Seq(E), Distinct(s), NEW open, NEW W, Weighs(W, open, s),
           \A x \in ToSet(s) : open[x] \in Nat
    PROVE  IsFiniteSet(ToSet(s)) /\ Total(open, ToSet(s)) = W[Len(s)]
PROOF
  <1> DEFINE N == {n \in Nat : n =< Len(s) => Total(open, First(s, n)) = W[n]}
  <1>1. 0 \in N
    <2>1. First(s, 0) = {}
      BY DEF First
    <2> QED
      BY <2>1, TotalStep, FS_EmptySet DEF Weighs
  <1>2. ASSUME NEW n \in Nat, n \in N PROVE n + 1 \in N
    <2> SUFFICES ASSUME n + 1 =< Len(s) PROVE Total(open, First(s, n + 1)) = W[n + 1]
      OBVIOUS
    <2> DEFINE x == s[n + 1]
    <2>1. x \in First(s, n + 1) /\ First(s, n + 1) \ {x} = First(s, n)
      BY DEF First, Distinct
    <2>2. \A y \in First(s, n + 1) : open[y] \in Nat
      BY DEF First, ToSet
    <2>3. Total(open, First(s, n + 1)) = open[x] + Total(open, First(s, n))
      BY <2>1, <2>2, SequenceFinite, TotalMinus
    <2>4. W[n + 1] = W[n] + open[x] /\ W[n] \in Nat /\ open[x] \in Nat
      BY <2>1, <2>2 DEF Weighs
    <2> QED
      BY <1>2, <2>3, <2>4
  <1>3. Nat \subseteq N
    <2> HIDE DEF N
    <2> QED
      BY <1>1, <1>2, SetInduction
  <1>4. Len(s) \in N
    BY <1>3
  <1> QED
    BY <1>4, SequenceFinite

-----------------------------------------------------------------------------
(***************************************************************************)
(* The order in which a match serves the other side.                       *)
(***************************************************************************)

\* From b to c, an ordinary order of the side traded only if no ordinary
\* order ahead of it, of a limit price, is left in the registry.
ServedOn(side, b, c, ord) ==
    \A x, y : /\ Ahead(side, x, y)
              /\ ~ord[x].aon /\ ord[x].price # Market /\ ~ord[y].aon
              /\ c.open[y] # b.open[y]
              => x \notin c.orders

\* The matches put off are in the order of the side, and together are less
\* than what is wanted.
QueuedUp(m, side) ==
    LET matches == m.deferred_matches
    IN  /\ \A i, j \in 1..Len(matches) : i < j => Ahead(side, matches[i], matches[j])
        /\ m.deferred_qty < m.inbound_qty
        /\ \E W : Weighs(W, m.book.open, matches) /\ W[Len(matches)] = m.deferred_qty

\* The AON order x and the order in cannot trade with each other alone.
Unfit(m, ord, in, x) ==
    IF ord[in].aon THEN m.book.open[x] # m.book.open[in]
    ELSE x \in ToSet(m.deferred_aons) /\ m.book.open[in] < m.book.open[x]

\* What is left of the first k orders of the side cannot trade with in, or has
\* been put off.
Reached(m, b, ord, in, k) ==
    LET side == Opposite(b, ord, in)
    IN  /\ \A x \in First(side, k) :
               /\ ~ord[x].aon /\ (ord[x].price # Market \/ ord[in].price # Market)
                  /\ x \in m.book.orders => ord[in].aon /\ x \in ToSet(m.deferred_matches)
               /\ ord[x].aon /\ x \in m.book.orders => Unfit(m, ord, in, x)
        /\ ord[in].aon => QueuedUp(m, side)

\* The loop has visited k orders of the side.
Passed(m, b, ord, in, k) ==
    /\ ServedOn(Opposite(b, ord, in), b, m.book, ord)
    /\ m.book.open[in] # 0 /\ ~m.done /\ ~m.book.undefined => Reached(m, b, ord, in, k)

\* Two steps after each other.
LEMMA ServedStep ==
    ASSUME NEW side, NEW b, NEW c, NEW u, NEW ord,
           ServedOn(side, b, c, ord), ServedOn(side, c, u, ord), u.orders \subseteq c.orders
    PROVE  ServedOn(side, b, u, ord)
  BY DEF ServedOn

\* Who is ahead of whom, in a sequence without repetitions.
LEMMA AheadFacts ==
    ASSUME NEW E, NEW s \in Seq(E), Distinct(s), NEW x, NEW y, Ahead(s, x, y)
    PROVE  x \in ToSet(s) /\ y \in ToSet(s) /\ x # y /\ ~Ahead(s, y, x)
PROOF
  <1>1. PICK i \in 1..Len(s), j \in 1..Len(s) : i < j /\ s[i] = x /\ s[j] = y
    BY DEF Ahead
  <1>2. x # y
    BY <1>1 DEF Distinct
  <1>3. ASSUME Ahead(s, y, x) PROVE FALSE
    <2>1. PICK p \in 1..Len(s), q \in 1..Len(s) : p < q /\ s[p] = y /\ s[q] = x
      BY <1>3 DEF Ahead
    <2>2. p = j /\ q = i
      BY <1>1, <2>1 DEF Distinct
    <2> QED
      BY <1>1, <2>1, <2>2
  <1> QED
    BY <1>1, <1>2, <1>3 DEF ToSet

\* The place of the next entry.
LEMMA EntryPlace ==
    ASSUME NEW m, NEW b, NEW ord, NEW in, NEW k, NEW e, NextEntry(m, b, ord, in, k, e)
    PROVE  LET side == Opposite(b, ord, in)
           IN  /\ First(side, k + 1) = First(side, k) \union {e}
               /\ \A x \in First(side, k) : Ahead(side, x, e)
               /\ \A x, y : Ahead(side, x, y) =>
                      /\ y \in OrderId /\ y # in /\ y \in DOMAIN ord
                      /\ x \in OrderId /\ x # in /\ x \in DOMAIN ord
                      /\ x # y /\ ~Ahead(side, y, x)
                      /\ y \in First(side, k) \union {e} => x \in First(side, k)
PROOF
  <1> DEFINE side == Opposite(b, ord, in)
  <1>1. /\ k \in Nat /\ k + 1 =< Len(side) /\ e = side[k + 1]
        /\ Objects(ord) /\ in \in DOMAIN ord /\ SoundBook(b, ord, in)
    BY DEF NextEntry
  <1>2. side \in Seq(OrderId) /\ Distinct(side)
    BY <1>1 DEF SoundBook, BookType, Opposite
  <1>3. \A x \in ToSet(side) : x \in DOMAIN ord /\ x \in OrderId /\ x # in
    BY <1>1, OppositeFacts
  <1> HIDE DEF side
  <1>4. Len(side) \in Nat
    BY <1>2
  <1>5. First(side, k + 1) = First(side, k) \union {e}
    <2>1. 1..(k + 1) = 1..k \union {k + 1}
      BY <1>1
    <2> QED
      BY <1>1, <2>1 DEF First
  <1>6. ASSUME NEW x \in First(side, k) PROVE Ahead(side, x, e)
    <2>1. PICK i \in 1..k : x = side[i]
      BY DEF First
    <2>2. i \in 1..Len(side) /\ k + 1 \in 1..Len(side) /\ i < k + 1
      BY <1>1, <1>4
    <2> QED
      BY <1>1, <2>1, <2>2 DEF Ahead
  <1>7. ASSUME NEW x, NEW y, Ahead(side, x, y), y \in First(side, k) \union {e}
        PROVE  x \in First(side, k)
    <2>1. PICK i \in 1..Len(side), j \in 1..Len(side) : i < j /\ side[i] = x /\ side[j] = y
      BY <1>7 DEF Ahead
    <2>2. PICK n \in 1..(k + 1) : side[n] = y
      BY <1>5, <1>7 DEF First
    <2>3. n \in 1..Len(side)
      BY <1>1, <1>4
    <2>4. n = j
      BY <1>2, <2>1, <2>2, <2>3 DEF Distinct
    <2>5. i \in 1..k
      BY <1>1, <2>1, <2>4
    <2> QED
      BY <2>1, <2>5 DEF First
  <1>8. ASSUME NEW x, NEW y, Ahead(side, x, y)
        PROVE  x \in ToSet(side) /\ y \in ToSet(side) /\ x # y /\ ~Ahead(side, y, x)
    BY <1>2, <1>8, AheadFacts
  <1> QED
    BY <1>3, <1>5, <1>6, <1>7, <1>8 DEF side

\* What is registered but in rests, with something open.
LEMMA ExactRests ==
    ASSUME NEW c, NEW r, NEW ord, NEW in, Exact(c, r, ord, in),
           NEW x \in DOMAIN ord \ {in}, x \in c.orders
    PROVE  Rests(c, x) /\ c.open[x] > 0
PROOF
  <1>1. Agree(c, r, ord, x)
    BY DEF Exact
  <1> QED
    BY <1>1 DEF Agree, Live, Gone

\* One more order is put off.
LEMMA WeighsAppend ==
    ASSUME NEW s \in Seq(OrderId), NEW open, NEW W, Weighs(W, open, s),
           NEW e \in OrderId, open[e] \in Nat
    PROVE  \E V : Weighs(V, open, Append(s, e)) /\ V[Len(Append(s, e))] = W[Len(s)] + open[e]
PROOF
  <1> DEFINE n == Len(s)
             t == Append(s, e)
             V == [k \in 0..(n + 1) |-> IF k = n + 1 THEN W[n] + open[e] ELSE W[k]]
  <1>1. /\ n \in Nat /\ t \in Seq(OrderId) /\ Len(t) = n + 1 /\ t[n + 1] = e
        /\ \A k \in 1..n : t[k] = s[k]
    OBVIOUS
  <1>2. /\ W \in [0..n -> Nat] /\ W[0] = 0
        /\ \A k \in 1..n : W[k] = W[k - 1] + open[s[k]]
        /\ \A k \in 0..n : W[k] =< W[n]
    BY DEF Weighs
  <1> HIDE DEF n, t
  <1>3. /\ n \in 0..n /\ W[n] \in Nat /\ 0 # n + 1 /\ n # n + 1
        /\ 0 \in 0..(n + 1) /\ n + 1 \in 0..(n + 1) /\ n \in 0..(n + 1)
    BY <1>1, <1>2
  <1>4. V \in [0..(n + 1) -> Nat]
    <2>1. ASSUME NEW k \in 0..(n + 1) PROVE V[k] \in Nat
      <3>1. CASE k = n + 1
        BY <1>3, <3>1
      <3>2. CASE k # n + 1
        <4>1. k \in 0..n
          BY <1>1, <3>2
        <4> QED
          BY <1>2, <3>2, <4>1
      <3> QED
        BY <3>1, <3>2
    <2> QED
      BY <2>1
  <1>5. V[0] = 0 /\ V[n + 1] = W[n] + open[e] /\ V[n] = W[n]
    BY <1>2, <1>3
  <1>6. ASSUME NEW k \in 1..(n + 1) PROVE V[k] = V[k - 1] + open[t[k]]
    <2>1. CASE k = n + 1
      <3>1. k - 1 = n /\ t[k] = e
        BY <1>1, <2>1
      <3> QED
        BY <1>5, <2>1, <3>1
    <2>2. CASE k # n + 1
      <3>1. k \in 1..n /\ k - 1 \in 0..n /\ k \in 0..(n + 1) /\ k - 1 \in 0..(n + 1) /\ k - 1 # n + 1
        BY <1>1, <2>2
      <3>2. V[k] = W[k] /\ V[k - 1] = W[k - 1] /\ t[k] = s[k]
        BY <1>1, <2>2, <3>1
      <3> QED
        BY <1>2, <3>1, <3>2
    <2> QED
      BY <2>1, <2>2
  <1>7. ASSUME NEW k \in 0..(n + 1) PROVE V[k] =< V[n + 1]
    <2>1. CASE k = n + 1
      <3>1. V[n + 1] \in Nat
        BY <1>3, <1>4
      <3> QED
        BY <2>1, <3>1
    <2>2. CASE k # n + 1
      <3>1. k \in 0..n
        BY <1>1, <2>2
      <3>2. V[k] = W[k] /\ W[k] =< W[n] /\ W[k] \in Nat
        BY <1>2, <2>2, <3>1
      <3> QED
        BY <1>3, <1>5, <3>2
    <2> QED
      BY <2>1, <2>2
  <1> HIDE DEF V
  <1>8. Weighs(V, open, t) /\ V[Len(t)] = W[n] + open[e]
    BY <1>1, <1>4, <1>5, <1>6, <1>7 DEF Weighs
  <1> QED
    BY <1>8 DEF n, t

\* One more entry has been visited: what the step has to show of it.
LEMMA PassedNext ==
    ASSUME NEW m, NEW b, NEW ord, NEW in, NEW k, NEW e, NEW n, NEW R,
           NextEntry(m, b, ord, in, k, e), Passed(m, b, ord, in, k),
           Later(m.book, n.book, ord, R),
           ServedOn(Opposite(b, ord, in), m.book, n.book, ord),
           n.book.open[in] # 0 /\ ~n.done /\ ~n.book.undefined =>
               /\ m.book.open[in] # 0 /\ ~m.done /\ ~m.book.undefined
               /\ ToSet(m.deferred_matches) \subseteq ToSet(n.deferred_matches)
               /\ ToSet(m.deferred_aons) \subseteq ToSet(n.deferred_aons)
               /\ \A x \in First(Opposite(b, ord, in), k) : n.book.open[x] = m.book.open[x]
               /\ ord[in].aon => n.book.open[in] = m.book.open[in]
               /\ ~ord[e].aon /\ (ord[e].price # Market \/ ord[in].price # Market)
                  /\ e \in n.book.orders => ord[in].aon /\ e \in ToSet(n.deferred_matches)
               /\ ord[e].aon /\ e \in n.book.orders => Unfit(n, ord, in, e)
               /\ ord[in].aon => QueuedUp(n, Opposite(b, ord, in))
    PROVE  Passed(n, b, ord, in, k + 1)
PROOF
  <1> DEFINE side == Opposite(b, ord, in)
  <1>1. /\ First(side, k + 1) = First(side, k) \union {e}
        /\ \A x \in First(side, k) : x \in DOMAIN ord
    BY EntryPlace
  <1>2. n.book.orders \subseteq m.book.orders
    BY DEF Later
  <1>3. ServedOn(side, b, n.book, ord)
    BY <1>2, ServedStep DEF Passed
  <1>4. ASSUME n.book.open[in] # 0, ~n.done, ~n.book.undefined
        PROVE  Reached(n, b, ord, in, k + 1)
    <2>1. Reached(m, b, ord, in, k)
      BY <1>4 DEF Passed
    <2>2. ASSUME NEW x \in First(side, k), ord[x].aon, x \in n.book.orders
          PROVE  Unfit(n, ord, in, x)
      <3>1. Unfit(m, ord, in, x) /\ n.book.open[x] = m.book.open[x]
        BY <1>2, <1>4, <2>1, <2>2 DEF Reached
      <3>2. n.book.open[in] =< m.book.open[in] /\ n.book.open[in] \in Nat
            /\ m.book.open[in] \in Nat /\ m.book.open[x] \in Nat
        BY <1>1 DEF Later, NextEntry
      <3> QED
        BY <1>4, <3>1, <3>2 DEF Unfit
    <2> QED
      BY <1>1, <1>2, <1>4, <2>1, <2>2 DEF Reached
  <1> QED
    BY <1>3, <1>4 DEF Passed

\* Nothing that counts here has changed.
LEMMA PassedSame ==
    ASSUME NEW m, NEW b, NEW ord, NEW in, NEW k, NEW e, NEW n, NEW R,
           NextEntry(m, b, ord, in, k, e), Passed(m, b, ord, in, k),
           Later(m.book, n.book, ord, R), n.book.open = m.book.open,
           n.deferred_matches = m.deferred_matches, n.deferred_qty = m.deferred_qty,
           n.inbound_qty = m.inbound_qty,
           ToSet(m.deferred_aons) \subseteq ToSet(n.deferred_aons),
           ~n.done /\ ~n.book.undefined /\ n.book.open[in] # 0 =>
               /\ ~m.done /\ ~m.book.undefined
               /\ e \in n.book.orders => ord[e].aon /\ Unfit(n, ord, in, e)
    PROVE  Passed(n, b, ord, in, k + 1)
PROOF
  <1>1. ServedOn(Opposite(b, ord, in), m.book, n.book, ord)
    BY DEF ServedOn
  <1>2. m.book.open[in] # 0 /\ ~m.done /\ ~m.book.undefined /\ ord[in].aon =>
            QueuedUp(n, Opposite(b, ord, in))
    BY DEF Passed, Reached, QueuedUp
  <1> QED
    BY <1>1, <1>2, PassedNext

\* match_regular_order, one entry: what is left of it has no partner any more.
LEMMA VisitRegularPassed ==
    ASSUME NEW m, NEW b, NEW ord, NEW in, NEW k, NEW e, NEW R,
           NextEntry(m, b, ord, in, k, e), ScanGood(m, b, ord, in, k, R),
           Partners(ord, in, e), ~ord[in].aon,
           m.book.open[in] # 0, ~m.done, ~m.book.undefined,
           Passed(m, b, ord, in, k), AonPriced, ScanExact(m, b, ord, in, R),
           ScanExact(VisitRegular(m, ord, in, e), b, ord, in, R)
    PROVE  Passed(VisitRegular(m, ord, in, e), b, ord, in, k + 1)
PROOF
  <1> DEFINE c == m.book
             side == Opposite(b, ord, in)
             n == Took(m, c, TradeAll(c, ord, in, e), ord, in, e)
  <1>1. /\ m \in ScanType
        /\ SoundBook(c, ord, in) /\ SoundReports(Rep(R, ord, c), ord)
        /\ in \in OrderId /\ e \in OrderId /\ e \in DOMAIN ord /\ e # in
        /\ Objects(ord) /\ c \in BookType
        /\ c.open[in] \in Nat /\ c.open[e] \in Nat
        /\ m.inbound_qty = c.open[in] /\ m.deferred_aons \in Seq(OrderId)
    BY ScanEntry DEF SoundBook, ScanExact, ScanType
  <1>2. CASE ord[e].aon /\ m.book.open[e] > m.inbound_qty
    <2> DEFINE p == [m EXCEPT !.deferred_aons = Append(@, e)]
    <2>1. VisitRegular(m, ord, in, e) = p
      BY <1>2 DEF VisitRegular
    <2>2. /\ p.book = c /\ p.done = m.done /\ p.deferred_matches = m.deferred_matches
          /\ p.deferred_qty = m.deferred_qty /\ p.inbound_qty = m.inbound_qty
          /\ p.deferred_aons = Append(m.deferred_aons, e)
      BY <1>1 DEF ScanType
    <2> HIDE DEF p
    <2>5. ToSet(p.deferred_aons) = ToSet(m.deferred_aons) \union {e}
      BY <1>1, <2>2, AppendFacts
    <2>6. Unfit(p, ord, in, e)
      BY <1>1, <1>2, <2>2, <2>5 DEF Unfit
    <2>3. Later(c, p.book, ord, R)
      BY <1>1, <2>2, LaterSame
    <2>4. Passed(p, b, ord, in, k + 1)
      BY <1>2, <2>2, <2>3, <2>5, <2>6, PassedSame
    <2> QED
      BY <2>1, <2>4
  <1>3. CASE ~(ord[e].aon /\ m.book.open[e] > m.inbound_qty)
    <2>1. VisitRegular(m, ord, in, e) = n
      BY <1>3 DEF VisitRegular
    <2>2. Kept(c, c, ord, in, ToSet(m.deferred_matches), R)
      BY <1>1, KeptSame
    <2>3. TookGood(m, c, n, b, ord, in, e, k, R)
      BY <1>1, <2>2, TookFacts
    <2>4. ScanExact(n, b, ord, in, R)
      BY <2>1
    <2> HIDE DEF n
    <2>5. /\ n.book.open[in] \in Nat /\ n.book.open[in] =< c.open[in]
          /\ Kept(c, n.book, ord, in, {e}, R)
          /\ n.deferred_matches = m.deferred_matches /\ n.deferred_aons = m.deferred_aons
          /\ n.book.open[e] = c.open[e] - (c.open[in] - n.book.open[in])
          /\ ord[e].price # Market \/ ord[in].price # Market =>
                 n.book.open[in] = 0 \/ c.open[in] - n.book.open[in] = c.open[e]
      BY <2>3 DEF TookGood
    <2>6. Exact(n.book, Rep(R, ord, n.book), ord, in)
      BY <2>4 DEF ScanExact
    <2>7. Later(c, n.book, ord, R)
      BY <2>5 DEF Kept
    <2>8. ServedOn(side, c, n.book, ord)
      <3> SUFFICES ASSUME NEW x, NEW y, Ahead(side, x, y), ~ord[x].aon, ord[x].price # Market,
                          n.book.open[y] # c.open[y], x \in n.book.orders
                   PROVE  FALSE
        BY DEF ServedOn
      <3>1. y \in OrderId /\ y # in
        BY EntryPlace
      <3>2. y = e
        BY <2>5, <3>1 DEF Kept
      <3>3. x \in First(side, k)
        BY <3>2, EntryPlace
      <3>4. x \in c.orders
        BY <2>7 DEF Later
      <3> QED
        BY <3>3, <3>4 DEF Passed, Reached
    <2>9. ASSUME n.book.open[in] # 0, ord[e].price # Market \/ ord[in].price # Market,
                 e \in n.book.orders
          PROVE  FALSE
      <3>1. n.book.open[e] = 0
        BY <1>1, <2>5, <2>9
      <3>2. n.book.open[e] > 0
        BY <1>1, <2>6, <2>9, ExactRests
      <3> QED
        BY <3>1, <3>2
    <2>11. ord[e].aon => ord[e].price # Market \/ ord[in].price # Market
      BY PricedPartners
    <2>12. \A x \in First(side, k) : n.book.open[x] = c.open[x]
      BY <1>1, <2>5, ScanEntry, EntryPlace DEF Kept
    <2>10. Passed(n, b, ord, in, k + 1)
      BY <2>5, <2>7, <2>8, <2>9, <2>11, <2>12, PassedNext
    <2> QED
      BY <2>1, <2>10
  <1> QED
    BY <1>2, <1>3

\* match_aon_order, one entry: the orders put off are tried before it.
LEMMA VisitAonPassed ==
    ASSUME NEW m, NEW b, NEW ord, NEW in, NEW k, NEW e, NEW R,
           NextEntry(m, b, ord, in, k, e), ScanGood(m, b, ord, in, k, R),
           Partners(ord, in, e), ord[in].aon,
           m.book.open[in] # 0, ~m.done, ~m.book.undefined,
           AonPriced, ScanExact(m, b, ord, in, R), Passed(m, b, ord, in, k)
    PROVE  Passed(VisitAon(m, ord, in, e), b, ord, in, k + 1)
PROOF
  <1> DEFINE c == m.book
             side == Opposite(b, ord, in)
             matches == m.deferred_matches
             current == c.open[e]
             need == IF m.inbound_qty > current THEN m.inbound_qty - current ELSE 0
             most == IF ord[e].aon THEN need ELSE m.inbound_qty
             d == TryCreateDeferredTrades(c, ord, in, matches, most, need)
             got == Traded(c, d, in)
             enough == IF ord[e].aon THEN got = need ELSE m.inbound_qty =< current + got
             off == [m EXCEPT !.deferred_matches = Append(@, e), !.deferred_qty = @ + current]
             took == Took(m, d, TradeAll(d, ord, in, e), ord, in, e)
             rest == [m EXCEPT !.book = d]
             aons == [m EXCEPT !.deferred_aons = Append(@, e)]
  <1>0. VisitAon(m, ord, in, e) =
          IF ord[e].aon /\ current > m.inbound_qty THEN aons
          ELSE IF m.inbound_qty > current + m.deferred_qty THEN off
          ELSE IF enough THEN took ELSE rest
    BY DEF VisitAon
  <1>1. /\ m \in ScanType /\ m.inbound_qty \in Int /\ m.deferred_qty \in Int
        /\ matches \in Seq(OrderId)
        /\ in \in OrderId /\ e \in OrderId /\ e \in DOMAIN ord
        /\ ToSet(matches) \subseteq First(side, k)
        /\ \A x \in ToSet(matches) : Partners(ord, in, x)
        /\ in \in DOMAIN ord /\ Objects(ord)
        /\ SoundBook(c, ord, in) /\ SoundReports(Rep(R, ord, c), ord)
        /\ c.open[in] \in Nat /\ current \in Nat
    BY ScanEntry
  <1>2. current \in Nat /\ c \in BookType
    BY <1>1 DEF SoundBook
  <1>3. /\ QueuedUp(m, side)
        /\ \A x \in First(side, k) :
               ~ord[x].aon /\ ord[x].price # Market /\ x \in c.orders => x \in ToSet(matches)
        /\ m.inbound_qty = c.open[in]
    BY <1>1 DEF Passed, Reached, ScanExact
  <1>4. CASE ord[e].aon /\ current > m.inbound_qty
    <2>1. /\ aons.book = c /\ aons.done = m.done /\ aons.deferred_matches = m.deferred_matches
          /\ aons.deferred_qty = m.deferred_qty /\ aons.inbound_qty = m.inbound_qty
          /\ aons.deferred_aons = Append(m.deferred_aons, e) /\ m.deferred_aons \in Seq(OrderId)
      BY <1>1 DEF ScanType
    <2> HIDE DEF aons
    <2>2. Later(c, aons.book, ord, R)
      BY <1>1, <1>2, <2>1, LaterSame
    <2>4. ToSet(m.deferred_aons) \subseteq ToSet(aons.deferred_aons)
      BY <1>1, <2>1, AppendFacts
    <2>5. Unfit(aons, ord, in, e)
      BY <1>2, <1>3, <1>4, <2>1 DEF Unfit
    <2>3. Passed(aons, b, ord, in, k + 1)
      BY <1>4, <2>1, <2>2, <2>4, <2>5, PassedSame
    <2> QED
      BY <1>0, <1>4, <2>3
  <1>5. CASE ~(ord[e].aon /\ current > m.inbound_qty) /\ m.inbound_qty > current + m.deferred_qty
    <2>1. /\ off.book = c /\ off.done = m.done /\ off.inbound_qty = m.inbound_qty
          /\ off.deferred_matches = Append(matches, e)
          /\ off.deferred_qty = m.deferred_qty + current
          /\ off.deferred_aons = m.deferred_aons
      BY <1>1 DEF ScanType
    <2> HIDE DEF off
    <2>2. Later(c, off.book, ord, R)
      BY <1>1, <1>2, <2>1, LaterSame
    <2>3. ToSet(off.deferred_matches) = ToSet(matches) \union {e}
      BY <1>1, <2>1, AppendFacts
    <2>4. QueuedUp(off, side)
      <3> DEFINE n == Len(matches)
                 s == Append(matches, e)
      <3>1. /\ n \in Nat /\ Len(s) = n + 1 /\ s[n + 1] = e
            /\ \A i \in 1..n : s[i] = matches[i] /\ matches[i] \in ToSet(matches)
        BY <1>1 DEF ToSet
      <3>2. \A i, j \in 1..n : i < j => Ahead(side, matches[i], matches[j])
        BY <1>3 DEF QueuedUp
      <3>3. \A x \in ToSet(matches) : Ahead(side, x, e)
        BY <1>1, EntryPlace
      <3>4. ASSUME NEW i \in 1..(n + 1), NEW j \in 1..(n + 1), i < j PROVE Ahead(side, s[i], s[j])
        <4>1. i \in 1..n /\ (j \in 1..n \/ j = n + 1)
          BY <3>1, <3>4
        <4> QED
          BY <3>1, <3>2, <3>3, <3>4, <4>1
      <3>5. PICK W : Weighs(W, c.open, matches) /\ W[n] = m.deferred_qty
        BY <1>3 DEF QueuedUp
      <3> HIDE DEF n
      <3>6. \E V : Weighs(V, c.open, s) /\ V[Len(s)] = W[n] + current
        BY <1>1, <1>2, <3>5, WeighsAppend DEF n
      <3>7. off.deferred_qty < off.inbound_qty
        BY <1>1, <1>2, <1>5, <2>1
      <3> QED
        BY <2>1, <3>1, <3>4, <3>5, <3>6, <3>7 DEF QueuedUp
    <2>5. ServedOn(side, c, off.book, ord)
      BY <2>1 DEF ServedOn
    <2>7. Unfit(off, ord, in, e)
      <3>1. PICK W : Weighs(W, c.open, matches) /\ W[Len(matches)] = m.deferred_qty
        BY <1>3 DEF QueuedUp
      <3>2. m.deferred_qty \in Nat
        <4>1. Len(matches) \in 0..Len(matches)
          BY <1>1
        <4> QED
          BY <3>1, <4>1 DEF Weighs
      <3> QED
        BY <1>2, <1>3, <1>5, <2>1, <3>2 DEF Unfit
    <2>6. Passed(off, b, ord, in, k + 1)
      BY <2>1, <2>2, <2>3, <2>4, <2>5, <2>7, PassedNext
    <2> QED
      BY <1>0, <1>5, <2>6
  <1>6. CASE ~(ord[e].aon /\ current > m.inbound_qty) /\ ~(m.inbound_qty > current + m.deferred_qty)
    <2>1. need \in Nat /\ most \in Int
      BY <1>1, <1>2
    <2>2. matches \in Seq(DOMAIN ord)
      <3>1. ToSet(matches) \subseteq DOMAIN ord
        BY <1>1 DEF Partners
      <3> QED
        BY <1>1, <3>1, SeqOver
    <2> HIDE DEF need, most
    <2>3. TryGood(c, d, ord, in, matches, most, need, R)
      <3>1. most \in Int /\ need \in Int
        BY <2>1
      <3>2. Distinct(matches)
        BY DEF ScanGood
      <3> QED
        BY <1>1, <2>2, <3>1, <3>2, TryFacts
    <2> HIDE DEF d
    <2>4. /\ Exact(d, Rep(R, ord, d), ord, in)
          /\ current = d.open[e] /\ d.open[e] \in Nat /\ d.open[e] > 0
          /\ d.open[in] \in Nat /\ c.open[in] \in Nat /\ m.inbound_qty = c.open[in]
          /\ (d = c /\ got = 0) \/ (need =< got /\ got =< most)
          /\ Tried(c, d, ord, matches)
          /\ Emptied(c, d, in, matches, most, need)
      <3>1. Wanted(m, ord, e, need, most)
        BY <1>1, <1>2, <1>6 DEF need, most, Wanted
      <3>2. EnoughGood(m, d, ord, in, e, need, most, R)
        BY <2>1, <2>3, <3>1, EnoughFacts
      <3> QED
        BY <3>2 DEF EnoughGood
    <2>5. /\ SoundBook(d, ord, in) /\ SoundReports(Rep(R, ord, d), ord)
          /\ Kept(c, d, ord, in, ToSet(matches), R) /\ Later(c, d, ord, R)
      BY <2>3 DEF TryGood, Kept
    <2>6. got = c.open[in] - d.open[in]
      BY DEF Traded
    <2> HIDE DEF got
    <2>7. ASSUME NEW x \in First(side, k), ~ord[x].aon, ord[x].price # Market, x \in d.orders
          PROVE  x \in ToSet(matches) /\ d.open[x] > 0
      <3>1. x \in c.orders
        BY <2>5, <2>7 DEF Later
      <3>2. x \in ToSet(matches)
        BY <1>3, <2>7, <3>1
      <3>3. x \in DOMAIN ord \ {in}
        BY <1>1, <3>2 DEF Partners
      <3> QED
        BY <2>4, <2>7, <3>2, <3>3, ExactRests
    <2>8. ASSUME ~ord[e].aon
          PROVE  got = m.deferred_qty /\ \A x \in ToSet(matches) : d.open[x] = 0
      <3>1. PICK W : Weighs(W, c.open, matches) /\ W[Len(matches)] = m.deferred_qty
        BY <1>3 DEF QueuedUp
      <3>2. m.deferred_qty < m.inbound_qty
        BY <1>3 DEF QueuedUp
      <3>3. m.deferred_qty \in Nat
        <4>1. Len(matches) \in 0..Len(matches)
          BY <1>1
        <4> QED
          BY <3>1, <4>1 DEF Weighs
      <3>4. need =< m.deferred_qty /\ m.deferred_qty =< most
        BY <1>1, <1>2, <1>6, <2>8, <3>2, <3>3 DEF need, most
      <3> QED
        BY <2>4, <3>1, <3>4 DEF Emptied, got
    <2>9. CASE enough
      <3>1. VisitAon(m, ord, in, e) = took
        BY <1>0, <1>6, <2>9 DEF need, most, d, got
      <3>2. TookGood(m, d, took, b, ord, in, e, k, R)
        BY <2>5, TookFacts
      <3> HIDE DEF took
      <3>3. /\ took.book.open[in] \in Nat
            /\ Kept(d, took.book, ord, in, {e}, R)
            /\ ord[e].price # Market \/ ord[in].price # Market =>
                   /\ d.open[in] - took.book.open[in] =< d.open[e]
                   /\ took.book.open[in] = 0 \/ d.open[in] - took.book.open[in] = d.open[e]
        BY <3>2 DEF TookGood
      <3>4. took.book.open[in] = 0
        <4>1. ord[e].price # Market \/ ord[in].price # Market
          BY PricedPartners
        <4>2. d.open[in] =< d.open[e]
          <5>1. CASE ord[e].aon
            <6>1. got = need /\ current =< m.inbound_qty
              BY <1>1, <1>2, <1>6, <2>9, <5>1
            <6> QED
              BY <1>2, <2>4, <2>6, <6>1 DEF need
          <5>2. CASE ~ord[e].aon
            <6>1. m.inbound_qty =< current + got
              BY <2>9, <5>2
            <6> QED
              BY <1>2, <2>4, <2>6, <6>1
          <5> QED
            BY <5>1, <5>2
        <4> QED
          BY <2>4, <3>3, <4>1, <4>2
      <3>5. Later(d, took.book, ord, R) /\ Later(c, took.book, ord, R)
        BY <2>5, <3>3, LaterTransitive DEF Kept
      <3>6. ServedOn(side, c, d, ord)
        <4> SUFFICES ASSUME NEW x, NEW y, Ahead(side, x, y), ~ord[x].aon, ord[x].price # Market,
                            d.open[y] # c.open[y], x \in d.orders
                     PROVE  FALSE
          BY DEF ServedOn
        <4>1. y \in OrderId /\ y # in
          BY EntryPlace
        <4>2. y \in ToSet(matches)
          BY <2>5, <4>1 DEF Kept
        <4>3. x \in First(side, k)
          BY <1>1, <4>2, EntryPlace
        <4>4. x \in ToSet(matches) /\ d.open[x] > 0
          BY <2>7, <4>3
        <4>5. PICK i \in 1..Len(matches), j \in 1..Len(matches) : x = matches[i] /\ y = matches[j]
          BY <1>1, <4>2, <4>4 DEF ToSet
        <4>6. ~Ahead(side, y, x) /\ x # y
          BY EntryPlace
        <4>7. i < j
          <5>1. \A p, q \in 1..Len(matches) : p < q => Ahead(side, matches[p], matches[q])
            BY <1>3 DEF QueuedUp
          <5>2. i # j /\ ~(j < i)
            BY <4>5, <4>6, <5>1
          <5> QED
            BY <5>2
        <4>8. d.open[x] = 0
          BY <2>4, <4>5, <4>7 DEF Tried
        <4> QED
          BY <4>4, <4>8
      <3>7. ServedOn(side, d, took.book, ord)
        <4> SUFFICES ASSUME NEW x, NEW y, Ahead(side, x, y), ~ord[x].aon, ord[x].price # Market,
                            ~ord[y].aon, took.book.open[y] # d.open[y], x \in took.book.orders
                     PROVE  FALSE
          BY DEF ServedOn
        <4>1. y \in OrderId /\ y # in
          BY EntryPlace
        <4>2. y = e
          BY <3>3, <4>1 DEF Kept
        <4>3. x \in First(side, k)
          BY <4>2, EntryPlace
        <4>4. x \in d.orders
          BY <3>5 DEF Later
        <4>5. x \in ToSet(matches) /\ d.open[x] > 0
          BY <2>7, <4>3, <4>4
        <4>6. d.open[x] = 0
          BY <2>8, <4>2, <4>5
        <4> QED
          BY <4>5, <4>6
      <3>8. ServedOn(side, c, took.book, ord)
        <4>1. took.book.orders \subseteq d.orders
          BY <3>5 DEF Later
        <4> QED
          BY <3>6, <3>7, <4>1, ServedStep
      <3>9. Passed(took, b, ord, in, k + 1)
        BY <3>4, <3>5, <3>8, PassedNext
      <3> QED
        BY <3>1, <3>9
    <2>10. CASE ~enough
      <3>1. VisitAon(m, ord, in, e) = rest
        BY <1>0, <1>6, <2>10 DEF need, most, d, got
      <3>2. d = c
        BY <1>2, <2>4, <2>6, <2>10 DEF need, most
      <3>3. ord[e].aon
        <4> SUFFICES ASSUME ~ord[e].aon PROVE FALSE
          OBVIOUS
        <4>1. got = m.deferred_qty
          BY <2>8
        <4>2. m.inbound_qty =< current + got
          BY <1>1, <1>2, <1>6, <4>1
        <4> QED
          BY <2>10, <4>2
      <3>4. /\ rest.book = c /\ rest.done = m.done /\ rest.deferred_matches = m.deferred_matches
            /\ rest.deferred_qty = m.deferred_qty /\ rest.inbound_qty = m.inbound_qty
            /\ rest.deferred_aons = m.deferred_aons
        BY <1>1, <1>2, <3>2 DEF ScanType
      <3> HIDE DEF rest
      <3>5. Later(c, rest.book, ord, R)
        BY <1>1, <1>2, <3>4, LaterSame
      <3>7. Unfit(rest, ord, in, e)
        <4>1. got # need /\ got = 0
          BY <1>2, <2>4, <2>6, <2>10, <3>2, <3>3
        <4> QED
          BY <1>1, <1>2, <1>3, <3>4, <4>1 DEF Unfit, need
      <3>6. Passed(rest, b, ord, in, k + 1)
        BY <3>3, <3>4, <3>5, <3>7, PassedSame
      <3> QED
        BY <3>1, <3>6
    <2> QED
      BY <2>9, <2>10
  <1> QED
    BY <1>4, <1>5, <1>6

\* match_order, one entry.
LEMMA VisitPassed ==
    ASSUME NEW m, NEW b, NEW ord, NEW in, NEW k, NEW e, NEW R,
           NextEntry(m, b, ord, in, k, e), ScanGood(m, b, ord, in, k, R),
           AonPriced, ScanExact(m, b, ord, in, R), Passed(m, b, ord, in, k)
    PROVE  Passed(Visit(m, ord, in, e), b, ord, in, k + 1)
PROOF
  <1>1. /\ m \in ScanType /\ e \in OrderId /\ in \in OrderId
        /\ e \in ToSet(Opposite(m.book, ord, in))
        /\ in \in DOMAIN ord /\ Objects(ord)
        /\ SoundBook(m.book, ord, in) /\ SoundReports(Rep(R, ord, m.book), ord)
        /\ m.book \in BookType
    BY ScanEntry DEF SoundBook
  <1>2. CASE m.done \/ m.book.undefined \/ m.book.open[in] = 0
    <2>1. Visit(m, ord, in, e) = m
      BY <1>2 DEF Visit
    <2>2. Later(m.book, m.book, ord, R)
      BY <1>1, LaterSame
    <2>3. Passed(m, b, ord, in, k + 1)
      BY <1>2, <2>2, PassedSame
    <2> QED
      BY <2>1, <2>3
  <1>3. CASE ~(m.done \/ m.book.undefined \/ m.book.open[in] = 0)
    <2>1. CASE ~MatchesPrice(ord[e].buy, ord[e].price, ord[in].price)
      <3> DEFINE n == [m EXCEPT !.done = TRUE]
      <3>1. Visit(m, ord, in, e) = n
        BY <1>3, <2>1 DEF Visit
      <3>2. /\ n.book = m.book /\ n.done /\ n.deferred_matches = m.deferred_matches
            /\ n.deferred_qty = m.deferred_qty /\ n.inbound_qty = m.inbound_qty
            /\ n.deferred_aons = m.deferred_aons
        BY <1>1 DEF ScanType
      <3> HIDE DEF n
      <3>3. Later(m.book, n.book, ord, R)
        BY <1>1, <3>2, LaterSame
      <3>4. Passed(n, b, ord, in, k + 1)
        BY <3>2, <3>3, PassedSame
      <3> QED
        BY <3>1, <3>4
    <2>2. CASE MatchesPrice(ord[e].buy, ord[e].price, ord[in].price) /\ e \in m.book.expired
      <3> DEFINE u == TimedOut(m.book, e)
                 n == [m EXCEPT !.book = u]
      <3>1. Visit(m, ord, in, e) = n
        BY <1>3, <2>2 DEF Visit
      <3>2. Kept(m.book, u, ord, in, {e}, R) /\ u.open = m.book.open /\ e \notin u.orders
        BY <1>1, TimedOutFacts
      <3> HIDE DEF u
      <3>3. /\ n.book = u /\ n.done = m.done /\ n.deferred_matches = m.deferred_matches
            /\ n.deferred_qty = m.deferred_qty /\ n.inbound_qty = m.inbound_qty
            /\ n.deferred_aons = m.deferred_aons
        BY <1>1 DEF ScanType
      <3> HIDE DEF n
      <3>4. Later(m.book, n.book, ord, R)
        BY <3>2, <3>3 DEF Kept
      <3>5. Passed(n, b, ord, in, k + 1)
        BY <1>3, <3>2, <3>3, <3>4, PassedSame
      <3> QED
        BY <3>1, <3>5
    <2>3. CASE MatchesPrice(ord[e].buy, ord[e].price, ord[in].price) /\ e \notin m.book.expired
      <3>1. Partners(ord, in, e) /\ m.book.open[in] # 0 /\ ~m.done /\ ~m.book.undefined
        <4>1. MatchesPrice(ord[e].buy, ord[e].price, ord[in].price) => Partners(ord, in, e)
          BY EntryFacts
        <4> QED
          BY <1>3, <2>3, <4>1
      <3>2. CASE ord[in].aon
        <4>1. Visit(m, ord, in, e) = VisitAon(m, ord, in, e)
          BY <1>3, <2>3, <3>2 DEF Visit
        <4> QED
          BY <3>1, <3>2, <4>1, VisitAonPassed
      <3>3. CASE ~ord[in].aon
        <4>1. Visit(m, ord, in, e) = VisitRegular(m, ord, in, e)
          BY <1>3, <2>3, <3>3 DEF Visit
        <4>2. VisitGood(m, VisitRegular(m, ord, in, e), b, ord, in, k, R)
          BY <3>1, <3>3, VisitRegularFacts
        <4> QED
          BY <3>1, <3>3, <4>1, <4>2, VisitRegularPassed DEF VisitGood
      <3> QED
        BY <3>2, <3>3
    <2> QED
      BY <2>1, <2>2, <2>3
  <1> QED
    BY <1>2, <1>3

\* The loop is over with in still open: it has visited the side up to the first
\* price that does not match.
Finished(m, b, ord, in) ==
    LET side == Opposite(b, ord, in)
    IN  \E j \in 0..Len(side) :
            /\ Reached(m, b, ord, in, j)
            /\ j # Len(side) =>
                   ~MatchesPrice(ord[side[j + 1]].buy, ord[side[j + 1]].price, ord[in].price)

\* match_order stops at the first price that does not match, and there only.
LEMMA VisitFinished ==
    ASSUME NEW m, NEW b, NEW ord, NEW in, NEW k, NEW e, NEW R,
           NextEntry(m, b, ord, in, k, e), ScanGood(m, b, ord, in, k, R),
           Passed(m, b, ord, in, k), ~m.book.undefined,
           m.done /\ m.book.open[in] # 0 => Finished(m, b, ord, in)
    PROVE  LET n == Visit(m, ord, in, e)
           IN  n.done /\ n.book.open[in] # 0 => Finished(n, b, ord, in)
PROOF
  <1>1. /\ m \in ScanType /\ m.done \in BOOLEAN /\ k \in 0..Len(Opposite(b, ord, in))
        /\ e = Opposite(b, ord, in)[k + 1] /\ k # Len(Opposite(b, ord, in))
    <2>1. m \in ScanType
      BY ScanEntry
    <2>2. Opposite(b, ord, in) \in Seq(OrderId)
      BY DEF NextEntry, SoundBook, BookType, Opposite
    <2>3. Len(Opposite(b, ord, in)) \in Nat
      BY <2>2
    <2> QED
      BY <2>1, <2>3 DEF ScanType, NextEntry
  <1>2. CASE m.done \/ m.book.undefined \/ m.book.open[in] = 0
    <2>1. Visit(m, ord, in, e) = m
      BY <1>2 DEF Visit
    <2> QED
      BY <2>1
  <1>3. CASE ~(m.done \/ m.book.undefined \/ m.book.open[in] = 0)
    <2>1. Reached(m, b, ord, in, k)
      BY <1>3 DEF Passed
    <2>2. CASE ~MatchesPrice(ord[e].buy, ord[e].price, ord[in].price)
      <3> DEFINE n == [m EXCEPT !.done = TRUE]
      <3>1. Visit(m, ord, in, e) = n
        BY <1>3, <2>2 DEF Visit
      <3>2. /\ n.book = m.book /\ n.deferred_matches = m.deferred_matches
            /\ n.deferred_qty = m.deferred_qty /\ n.inbound_qty = m.inbound_qty
            /\ n.deferred_aons = m.deferred_aons
        BY <1>1 DEF ScanType
      <3> HIDE DEF n
      <3>3. Reached(n, b, ord, in, k)
        BY <2>1, <3>2 DEF Reached, Unfit, QueuedUp
      <3> QED
        BY <1>1, <2>2, <3>1, <3>3 DEF Finished
    <2>3. CASE MatchesPrice(ord[e].buy, ord[e].price, ord[in].price)
      <3>1. \A d, t : Took(m, d, t, ord, in, e).done = m.done
        BY <1>1 DEF Took, ScanType
      <3>2. VisitRegular(m, ord, in, e).done = m.done
        BY <1>1, <3>1 DEF VisitRegular, ScanType
      <3>3. VisitAon(m, ord, in, e).done = m.done
        BY <1>1, <3>1 DEF VisitAon, ScanType
      <3>4. [m EXCEPT !.book = TimedOut(@, e)].done = m.done
        BY <1>1 DEF ScanType
      <3> QED
        BY <1>3, <2>3, <3>2, <3>3, <3>4 DEF Visit
    <2> QED
      BY <2>2, <2>3
  <1> QED
    BY <1>2, <1>3

-----------------------------------------------------------------------------
\* What a whole match does; n is its result.
MatchGood(b, n, ord, in, R) ==
    /\ SoundBook(n.book, ord, in)
    /\ SoundReports(Rep(R, ord, n.book), ord)
    /\ Kept(b, n.book, ord, in, ToSet(Opposite(b, ord, in)), R)
    /\ n.deferred_aons \in Seq(OrderId)
    /\ Distinct(n.deferred_aons)
    /\ \A x \in ToSet(n.deferred_aons) : x \in ToSet(Opposite(n.book, ord, in)) /\ ord[x].aon
    /\ AonPriced /\ Exact(b, Rep(R, ord, b), ord, in) =>
           /\ Exact(n.book, Rep(R, ord, n.book), ord, in)
           /\ ord[in].aon => n.book.open[in] \in {0, b.open[in]}
           /\ ServedOn(Opposite(b, ord, in), b, n.book, ord)
           /\ n.book.open[in] # 0 => /\ Finished(n, b, ord, in)
                                     /\ n.inbound_qty = n.book.open[in]
                                     /\ Distinct(n.deferred_matches)
                                     /\ n.deferred_matches \in Seq(OrderId)

\* match_order.
LEMMA MatchFacts ==
    ASSUME NEW ord, Objects(ord), NEW in \in DOMAIN ord, NEW b, SoundBook(b, ord, in),
           NEW R, SoundReports(Rep(R, ord, b), ord)
    PROVE  MatchGood(b, Match(b, ord, in), ord, in, R)
PROOF
  <1> DEFINE side == Opposite(b, ord, in)
             n == Len(side)
  <1>1. /\ in \in OrderId /\ b \in BookType /\ b.open[in] \in Nat
        /\ b.bids \in Seq(OrderId) /\ b.asks \in Seq(OrderId)
    BY SoundOpen, ObjectTerms
  <1>2. side \in Seq(OrderId)
    BY <1>1 DEF Opposite
  <1> HIDE DEF side
  <1>3. n \in Nat
    BY <1>2
  <1>4. PICK m : /\ m[0] = Scan(b, in)
                 /\ \A i \in 1..n : m[i] = Visit(m[i - 1], ord, in, side[i])
                 /\ Match(b, ord, in) = m[n]
    <2>1. side = Opposite(b, ord, in)
      BY DEF side
    <2> QED
      BY <1>2, <2>1, MatchRun
  <1> HIDE DEF n
  <1> DEFINE Start == AonPriced /\ Exact(b, Rep(R, ord, b), ord, in)
             Good(k) == /\ ScanGood(m[k], b, ord, in, k, R)
                        /\ Start =>
                               /\ ScanExact(m[k], b, ord, in, R) /\ Passed(m[k], b, ord, in, k)
                               /\ m[k].done /\ m[k].book.open[in] # 0 => Finished(m[k], b, ord, in)
             K == {k \in Nat : k =< n => Good(k)}
  <1>5. 0 \in K
    <2> DEFINE s == Scan(b, in)
    <2>1. /\ s \in ScanType /\ s.book = b /\ s.inbound_qty = b.open[in]
          /\ s.deferred_aons = << >> /\ s.deferred_matches = << >> /\ s.deferred_qty = 0
          /\ ~s.done
      <3>1. << >> \in Seq(OrderId)
        OBVIOUS
      <3> QED
        BY <1>1, <3>1 DEF Scan, ScanType
    <2>2. ToSet(<< >>) = {} /\ Distinct(<< >>)
      BY DEF ToSet, Distinct
    <2>3. Kept(b, b, ord, in, First(Opposite(b, ord, in), 0), R)
      <3> DEFINE S == First(Opposite(b, ord, in), 0)
      <3> HIDE DEF S
      <3>1. Kept(b, b, ord, in, S, R)
        BY <1>1, KeptSame
      <3> QED
        BY <3>1 DEF S
    <2> HIDE DEF s
    <2>4. ScanGood(s, b, ord, in, 0, R)
      BY <2>1, <2>2, <2>3 DEF ScanGood
    <2>5. ASSUME Start PROVE ScanExact(s, b, ord, in, R)
      BY <2>1, <2>2, <2>5 DEF ScanExact
    <2>6. Passed(s, b, ord, in, 0)
      <3>1. ServedOn(Opposite(b, ord, in), b, s.book, ord)
        BY <2>1 DEF ServedOn
      <3>2. First(Opposite(b, ord, in), 0) = {}
        BY DEF First
      <3>3. ASSUME s.book.open[in] # 0 PROVE QueuedUp(s, Opposite(b, ord, in))
        <4> DEFINE none == << >>
                   W == [i \in 0..0 |-> 0]
        <4>1. Len(none) = 0 /\ 0..0 = {0}
          OBVIOUS
        <4>2. Weighs(W, b.open, none) /\ W[0] = 0
          BY <4>1 DEF Weighs
        <4> HIDE DEF none, W
        <4>3. s.deferred_matches = none
          BY <2>1 DEF none
        <4> QED
          BY <1>1, <2>1, <3>3, <4>1, <4>2, <4>3 DEF QueuedUp
      <3> QED
        BY <3>1, <3>2, <3>3 DEF Passed, Reached
    <2> HIDE DEF Start
    <2> QED
      BY <1>4, <2>1, <2>4, <2>5, <2>6 DEF s
  <1>6. ASSUME NEW k \in Nat, k \in K PROVE k + 1 \in K
    <2> SUFFICES ASSUME k + 1 =< n PROVE Good(k + 1)
      OBVIOUS
    <2>1. Good(k)
      BY <1>3, <1>6
    <2>2. m[k + 1] = Visit(m[k], ord, in, side[k + 1])
      BY <1>3, <1>4
    <2>3. NextEntry(m[k], b, ord, in, k, side[k + 1])
      BY DEF NextEntry, n, side
    <2> HIDE DEF Start
    <2>4. VisitGood(m[k], m[k + 1], b, ord, in, k, R)
      BY <2>1, <2>2, <2>3, VisitFacts
    <2>5. ASSUME Start
          PROVE  /\ Passed(m[k + 1], b, ord, in, k + 1)
                 /\ m[k + 1].done /\ m[k + 1].book.open[in] # 0 => Finished(m[k + 1], b, ord, in)
      <3>1. /\ AonPriced /\ ScanExact(m[k], b, ord, in, R) /\ Passed(m[k], b, ord, in, k)
            /\ m[k].done /\ m[k].book.open[in] # 0 => Finished(m[k], b, ord, in)
        BY <2>1, <2>5 DEF Start
      <3>2. Passed(m[k + 1], b, ord, in, k + 1)
        BY <2>1, <2>2, <2>3, <3>1, VisitPassed
      <3>3. ~m[k].book.undefined
        BY <3>1 DEF ScanExact, Exact
      <3> QED
        BY <2>1, <2>2, <2>3, <3>1, <3>2, <3>3, VisitFinished
    <2> QED
      BY <2>1, <2>4, <2>5 DEF VisitGood, Start
  <1>7. Nat \subseteq K
    <2> HIDE DEF K
    <2> QED
      BY <1>5, <1>6, SetInduction
  <1>8. Good(n)
    BY <1>3, <1>7
  <1> DEFINE r == m[n]
  <1>9. /\ r \in ScanType
        /\ SoundBook(r.book, ord, in)
        /\ SoundReports(Rep(R, ord, r.book), ord)
        /\ Kept(b, r.book, ord, in, First(side, n), R)
        /\ \A x \in ToSet(r.deferred_aons) : x \in ToSet(Opposite(r.book, ord, in)) /\ ord[x].aon
        /\ Distinct(r.deferred_aons)
    BY <1>8 DEF ScanGood, side
  <1>10. r.deferred_aons \in Seq(OrderId) /\ r.deferred_matches \in Seq(OrderId)
    BY <1>9 DEF ScanType
  <1>11. Start => /\ Exact(r.book, Rep(R, ord, r.book), ord, in)
                  /\ ord[in].aon => r.book.open[in] \in {0, b.open[in]}
                  /\ ServedOn(side, b, r.book, ord)
                  /\ r.book.open[in] # 0 => /\ Finished(r, b, ord, in)
                                            /\ r.inbound_qty = r.book.open[in]
                                            /\ Distinct(r.deferred_matches)
    <2> SUFFICES ASSUME Start
                 PROVE  /\ Exact(r.book, Rep(R, ord, r.book), ord, in)
                        /\ ord[in].aon => r.book.open[in] \in {0, b.open[in]}
                        /\ ServedOn(side, b, r.book, ord)
                        /\ r.book.open[in] # 0 => /\ Finished(r, b, ord, in)
                                                  /\ r.inbound_qty = r.book.open[in]
                                                  /\ Distinct(r.deferred_matches)
      OBVIOUS
    <2>1. /\ ScanExact(r, b, ord, in, R) /\ Passed(r, b, ord, in, n)
          /\ r.done /\ r.book.open[in] # 0 => Finished(r, b, ord, in)
      BY <1>8
    <2>2. r.book.open[in] \in Nat
      BY <1>1, <1>9, SoundOpen
    <2>3. ASSUME r.book.open[in] # 0, ~r.done PROVE Finished(r, b, ord, in)
      <3>1. Reached(r, b, ord, in, n)
        BY <2>1, <2>3 DEF Passed, ScanExact, Exact
      <3>2. n \in 0..n
        BY <1>3
      <3> QED
        BY <3>1, <3>2 DEF Finished, n, side
    <2> QED
      BY <2>1, <2>2, <2>3 DEF ScanExact, Passed, side
  <1>12. Kept(b, r.book, ord, in, ToSet(side), R)
    <2>1. First(side, n) \subseteq ToSet(side)
      BY <1>2 DEF First, ToSet, n
    <2> QED
      BY <1>9, <2>1, KeptMore
  <1> HIDE DEF r
  <1>13. MatchGood(b, r, ord, in, R)
    BY <1>9, <1>10, <1>11, <1>12 DEF MatchGood, side
  <1> QED
    BY <1>4, <1>13 DEF r

-----------------------------------------------------------------------------
(***************************************************************************)
(* check_deferred_aons and the rest of add, between two matches: every     *)
(* order that rests is sound, and agrees with its reports.                 *)
(***************************************************************************)

\* A book between two matches: what rests is registered and open.
SoundAll(b, ord) ==
    /\ b \in BookType
    /\ b.orders \subseteq DOMAIN ord
    /\ Distinct(b.bids) /\ Distinct(b.asks)
    /\ \A x \in ToSet(b.bids) : x \in DOMAIN ord /\ ord[x].buy
    /\ \A x \in ToSet(b.asks) : x \in DOMAIN ord /\ ~ord[x].buy
    /\ \A x \in OrderId : Rests(b, x) => x \in b.orders /\ b.open[x] > 0

\* Every order agrees with its report.
AgreeAll(b, r, ord) == ~b.undefined /\ \A x \in DOMAIN ord : Agree(b, r, ord, x)

\* The order x rests on its own side, and nothing else does.
LEMMA OwnFacts ==
    ASSUME NEW b, NEW ord, SoundAll(b, ord), NEW a, NEW x \in DOMAIN ord,
           ord[x].buy = ord[a].buy, ord[a].buy \in BOOLEAN
    PROVE  Rests(b, x) <=> x \in ToSet(Own(b, ord, a))
  BY DEF SoundAll, Rests, Own

\* From b to c nobody is registered but id, what is left keeps its place, and
\* only what rests can trade; r and s are the reports with b and with c.
Fair(b, c, ord, id, r, s) ==
    /\ c.orders \subseteq b.orders \union {id}
    /\ OthersInOrder(b, c, id)
    /\ \A x \in DOMAIN ord \ {id} :
           /\ b.open[x] \in Nat /\ c.open[x] \in Nat /\ c.open[x] =< b.open[x]
           /\ c.open[x] = b.open[x] => s[x].filled = r[x].filled
           /\ c.open[x] # b.open[x] => Rests(b, x)
           /\ Rests(c, x) => Rests(b, x)

\* From b to c, an ordinary order but id traded only if no ordinary order
\* ahead of it, of a limit price, is left in the registry.
Served(b, c, ord, id) ==
    \A x, y : /\ x # id /\ y # id
              /\ Ahead(b.bids, x, y) \/ Ahead(b.asks, x, y)
              /\ ~ord[x].aon /\ ord[x].price # Market /\ ~ord[y].aon
              /\ c.open[y] # b.open[y]
              => x \notin c.orders

\* Both sides hold orders of their own kind, each once.
Sided(b, ord) ==
    /\ b.bids \in Seq(OrderId) /\ b.asks \in Seq(OrderId)
    /\ Distinct(b.bids) /\ Distinct(b.asks)
    /\ \A x \in ToSet(b.bids) : x \in DOMAIN ord /\ ord[x].buy
    /\ \A x \in ToSet(b.asks) : x \in DOMAIN ord /\ ~ord[x].buy

\* Between the trades and between the calls they are.
LEMMA SidedFacts ==
    ASSUME NEW b, NEW ord, NEW in, SoundAll(b, ord) \/ SoundBook(b, ord, in)
    PROVE  Sided(b, ord)
  BY DEF SoundAll, SoundBook, Sided, BookType

\* One part of a call after the other.
LEMMA FairTransitive ==
    ASSUME NEW b, NEW c, NEW d, NEW ord, NEW id, NEW r, NEW s, NEW t,
           Fair(b, c, ord, id, r, s), Fair(c, d, ord, id, s, t)
    PROVE  Fair(b, d, ord, id, r, t)
PROOF
  <1>1. d.orders \subseteq b.orders \union {id}
    BY DEF Fair
  <1>2. OthersInOrder(b, d, id)
    <2>1. OthersInOrder(b, c, id) /\ OthersInOrder(c, d, id)
      BY DEF Fair
    <2> QED
      BY <2>1 DEF OthersInOrder
  <1>3. ASSUME NEW x \in DOMAIN ord \ {id}
        PROVE  /\ b.open[x] \in Nat /\ d.open[x] \in Nat /\ d.open[x] =< b.open[x]
               /\ d.open[x] = b.open[x] => t[x].filled = r[x].filled
               /\ d.open[x] # b.open[x] => Rests(b, x)
               /\ Rests(d, x) => Rests(b, x)
    <2>1. /\ b.open[x] \in Nat /\ c.open[x] \in Nat /\ c.open[x] =< b.open[x]
          /\ c.open[x] = b.open[x] => s[x].filled = r[x].filled
          /\ c.open[x] # b.open[x] => Rests(b, x)
          /\ Rests(c, x) => Rests(b, x)
      BY DEF Fair
    <2>2. /\ d.open[x] \in Nat /\ d.open[x] =< c.open[x]
          /\ d.open[x] = c.open[x] => t[x].filled = s[x].filled
          /\ d.open[x] # c.open[x] => Rests(c, x)
          /\ Rests(d, x) => Rests(c, x)
      BY DEF Fair
    <2>3. d.open[x] = b.open[x] => c.open[x] = b.open[x] /\ d.open[x] = c.open[x]
      BY <2>1, <2>2
    <2>4. d.open[x] # b.open[x] => c.open[x] # b.open[x] \/ d.open[x] # c.open[x]
      OBVIOUS
    <2>5. d.open[x] =< b.open[x]
      BY <2>1, <2>2
    <2> QED
      BY <2>1, <2>2, <2>3, <2>4, <2>5
  <1> QED
    BY <1>1, <1>2, <1>3 DEF Fair

\* Of two entries of a side, one is ahead of the other.
LEMMA AheadTotal ==
    ASSUME NEW E, NEW s \in Seq(E), NEW x \in ToSet(s), NEW y \in ToSet(s), x # y
    PROVE  Ahead(s, x, y) \/ Ahead(s, y, x)
PROOF
  <1>1. PICK i \in 1..Len(s), j \in 1..Len(s) : s[i] = x /\ s[j] = y
    BY DEF ToSet
  <1>2. i < j \/ j < i
    BY <1>1
  <1> QED
    BY <1>1, <1>2 DEF Ahead

\* Without one of its entries a side keeps the order of the others.
LEMMA OthersKept ==
    ASSUME NEW s \in Seq(OrderId), Distinct(s), NEW u \in Seq(OrderId), NEW e,
           ToSet(u) = ToSet(s) \ {e}, \A x, y : Ahead(u, x, y) => Ahead(s, x, y),
           NEW x, NEW y, x # e, y # e, Ahead(s, x, y)
    PROVE  Ahead(u, x, y)
PROOF
  <1>1. x \in ToSet(s) /\ y \in ToSet(s) /\ x # y /\ ~Ahead(s, y, x)
    BY AheadFacts
  <1>2. Ahead(u, x, y) \/ Ahead(u, y, x)
    BY <1>1, AheadTotal
  <1> QED
    BY <1>1, <1>2

\* Who is ahead of whom on one of the sides.
LEMMA SideAhead ==
    ASSUME NEW b, NEW ord, Sided(b, ord), NEW x, NEW y,
           Ahead(b.bids, x, y) \/ Ahead(b.asks, x, y)
    PROVE  /\ x \in DOMAIN ord /\ y \in DOMAIN ord /\ x # y
           /\ Rests(b, x) /\ Rests(b, y)
PROOF
  <1>1. CASE Ahead(b.bids, x, y)
    <2>1. x \in ToSet(b.bids) /\ y \in ToSet(b.bids) /\ x # y
      BY <1>1, AheadFacts DEF Sided
    <2> QED
      BY <2>1 DEF Sided, Rests
  <1>2. CASE Ahead(b.asks, x, y)
    <2>1. x \in ToSet(b.asks) /\ y \in ToSet(b.asks) /\ x # y
      BY <1>2, AheadFacts DEF Sided
    <2> QED
      BY <2>1 DEF Sided, Rests
  <1> QED
    BY <1>1, <1>2

\* Two orders that rest in c as well are in the same order there.
LEMMA FairAhead ==
    ASSUME NEW b, NEW c, NEW ord, NEW id, NEW r, NEW s,
           Sided(b, ord), Sided(c, ord), Fair(b, c, ord, id, r, s),
           NEW x, NEW y, x # id, y # id, Ahead(b.bids, x, y) \/ Ahead(b.asks, x, y),
           Rests(c, x), Rests(c, y)
    PROVE  Ahead(c.bids, x, y) \/ Ahead(c.asks, x, y)
PROOF
  <1>1. CASE Ahead(b.bids, x, y)
    <2>1. x \in ToSet(b.bids) /\ y \in ToSet(b.bids) /\ x # y /\ ~Ahead(b.bids, y, x)
      BY <1>1, AheadFacts DEF Sided
    <2>2. x \in ToSet(c.bids) /\ y \in ToSet(c.bids)
      BY <2>1 DEF Sided, Rests
    <2>3. Ahead(c.bids, x, y) \/ Ahead(c.bids, y, x)
      BY <2>1, <2>2, AheadTotal DEF Sided
    <2>4. OthersInOrder(b, c, id)
      BY DEF Fair
    <2> QED
      BY <2>1, <2>3, <2>4 DEF OthersInOrder
  <1>2. CASE Ahead(b.asks, x, y)
    <2>1. x \in ToSet(b.asks) /\ y \in ToSet(b.asks) /\ x # y /\ ~Ahead(b.asks, y, x)
      BY <1>2, AheadFacts DEF Sided
    <2>2. x \in ToSet(c.asks) /\ y \in ToSet(c.asks)
      BY <2>1 DEF Sided, Rests
    <2>3. Ahead(c.asks, x, y) \/ Ahead(c.asks, y, x)
      BY <2>1, <2>2, AheadTotal DEF Sided
    <2>4. OthersInOrder(b, c, id)
      BY DEF Fair
    <2> QED
      BY <2>1, <2>3, <2>4 DEF OthersInOrder
  <1> QED
    BY <1>1, <1>2

\* If between the two every registered order rests, what each part serves in
\* order the two together serve in order.
LEMMA ServedTransitive ==
    ASSUME NEW b, NEW c, NEW d, NEW ord, NEW id, NEW r, NEW s, NEW t,
           Sided(b, ord), Sided(c, ord),
           Fair(b, c, ord, id, r, s), Fair(c, d, ord, id, s, t),
           Served(b, c, ord, id), Served(c, d, ord, id),
           \A x \in DOMAIN ord \ {id} : x \in c.orders => Rests(c, x)
    PROVE  Served(b, d, ord, id)
PROOF
  <1> SUFFICES ASSUME NEW x, NEW y, x # id, y # id,
                      Ahead(b.bids, x, y) \/ Ahead(b.asks, x, y),
                      ~ord[x].aon, ord[x].price # Market, ~ord[y].aon,
                      d.open[y] # b.open[y], x \in d.orders
               PROVE  FALSE
    BY DEF Served
  <1>1. x \in DOMAIN ord /\ y \in DOMAIN ord
    BY SideAhead
  <1>2. x \in c.orders
    BY DEF Fair
  <1>3. c.open[y] = b.open[y]
    BY <1>2 DEF Served
  <1>4. Rests(c, x) /\ Rests(c, y)
    BY <1>1, <1>2, <1>3 DEF Fair
  <1>5. Ahead(c.bids, x, y) \/ Ahead(c.asks, x, y)
    BY <1>4, FairAhead
  <1> QED
    BY <1>3, <1>5 DEF Served

\* What agrees with its report and is registered rests.
LEMMA AgreeRests ==
    ASSUME NEW b, NEW r, NEW ord, NEW x, Agree(b, r, ord, x), x \in b.orders
    PROVE  Rests(b, x)
  BY DEF Agree, Gone

\* A match of in serves both sides in order, in being put off or no entry.
LEMMA MatchFair ==
    ASSUME NEW ord, Objects(ord), NEW in \in DOMAIN ord, NEW b, SoundBook(b, ord, in),
           NEW n, NEW R, MatchGood(b, n, ord, in, R), NEW id, ord[in].aon \/ in = id,
           Rests(b, in) \/ in = id
    PROVE  /\ Fair(b, n.book, ord, id, Rep(R, ord, b), Rep(R, ord, n.book))
           /\ AonPriced /\ Exact(b, Rep(R, ord, b), ord, in) => Served(b, n.book, ord, id)
PROOF
  <1> DEFINE d == n.book
             side == Opposite(b, ord, in)
  <1>1. /\ Kept(b, d, ord, in, ToSet(side), R)
        /\ AonPriced /\ Exact(b, Rep(R, ord, b), ord, in) => ServedOn(side, b, d, ord)
    BY DEF MatchGood
  <1> HIDE DEF d
  <1>2. /\ Own(d, ord, in) = Own(b, ord, in)
        /\ ToSet(Opposite(d, ord, in)) \subseteq ToSet(side)
        /\ \A x \in OrderId \ (ToSet(side) \union {in}) : d.open[x] = b.open[x]
        /\ Later(b, d, ord, R)
    BY <1>1 DEF Kept
  <1>3. DOMAIN ord \subseteq OrderId /\ ord[in].buy \in BOOLEAN
    BY ObjectTerms DEF Objects
  <1>4. \A x : Rests(b, x) <=> x \in ToSet(Own(b, ord, in)) \union ToSet(side)
    BY <1>3 DEF Rests, Own, Opposite
  <1>5. \A x : Rests(d, x) => Rests(b, x)
    <2>1. \A x : Rests(d, x) => x \in ToSet(Own(d, ord, in)) \union ToSet(Opposite(d, ord, in))
      BY <1>3 DEF Rests, Own, Opposite
    <2> QED
      BY <1>2, <1>4, <2>1
  <1>6. \A x \in DOMAIN ord \ {id} : d.open[x] # b.open[x] => Rests(b, x)
    BY <1>2, <1>3, <1>4
  <1>7. Fair(b, d, ord, id, Rep(R, ord, b), Rep(R, ord, d))
    BY <1>2, <1>5, <1>6 DEF Fair, OthersInOrder, Later, SameOrder
  <1>8. ASSUME ServedOn(side, b, d, ord) PROVE Served(b, d, ord, id)
    <2> SUFFICES ASSUME NEW x, NEW y, x # id, y # id,
                        Ahead(b.bids, x, y) \/ Ahead(b.asks, x, y),
                        ~ord[x].aon, ord[x].price # Market, ~ord[y].aon,
                        d.open[y] # b.open[y], x \in d.orders
                 PROVE  FALSE
      BY DEF Served
    <2>1. Sided(b, ord)
      BY SidedFacts
    <2>2. y \in DOMAIN ord
      BY <2>1, SideAhead
    <2>3. y \in ToSet(side)
      BY <1>2, <1>3, <2>2
    <2>4. ~Ahead(Own(b, ord, in), x, y)
      <3> SUFFICES ASSUME Ahead(Own(b, ord, in), x, y) PROVE FALSE
        OBVIOUS
      <3>1. y \in ToSet(Own(b, ord, in))
        BY <2>1, AheadFacts DEF Own, Sided
      <3> QED
        BY <1>3, <2>1, <2>3, <3>1 DEF Own, Opposite, Sided
    <2>5. Ahead(side, x, y)
      BY <1>3, <2>4 DEF Own, Opposite
    <2> QED
      BY <1>8, <2>5 DEF ServedOn
  <1> QED
    BY <1>1, <1>7, <1>8 DEF d

\* No order of a side is less liquid than one behind it.
Sorted(b, ord) ==
    \A x, y : Ahead(b.bids, x, y) \/ Ahead(b.asks, x, y) =>
        ~Before(ord[y].buy, ord[y].price, ord[x].price)

\* What is behind the order id is less liquid.
Behind(b, ord, id) ==
    \A y : Ahead(b.bids, id, y) \/ Ahead(b.asks, id, y) =>
        Before(ord[id].buy, ord[id].price, ord[y].price)

\* An order that is before the first of two is before the second as well.
LEMMA BeforeTransitive ==
    ASSUME NEW buy \in BOOLEAN, NEW p \in Nat, NEW q \in Nat, NEW r \in Nat,
           Before(buy, p, q), ~Before(buy, r, q)
    PROVE  Before(buy, p, r)
  BY DEF Before, Market

\* Where the upper bound puts the order id, what is behind is less liquid, and
\* the side stays sorted.
LEMMA UpperBoundSorts ==
    ASSUME NEW ord, Objects(ord), NEW id \in DOMAIN ord,
           NEW side \in Seq(OrderId), Distinct(side), id \notin ToSet(side),
           \A x \in ToSet(side) : x \in DOMAIN ord /\ ord[x].buy = ord[id].buy,
           \A x, y : Ahead(side, x, y) => ~Before(ord[y].buy, ord[y].price, ord[x].price)
    PROVE  LET t == InsertAt(side, UpperBound(side, ord, id), id)
           IN  /\ \A y : Ahead(t, id, y) => Before(ord[id].buy, ord[id].price, ord[y].price)
               /\ \A x, y : Ahead(t, x, y) => ~Before(ord[y].buy, ord[y].price, ord[x].price)
PROOF
  <1> DEFINE p == UpperBound(side, ord, id)
             t == InsertAt(side, p, id)
  <1>1. /\ p \in 1..(Len(side) + 1)
        /\ p =< Len(side) => Before(ord[id].buy, ord[id].price, ord[side[p]].price)
        /\ \A i \in 1..(p - 1) : ~Before(ord[id].buy, ord[id].price, ord[side[i]].price)
    BY UpperBoundFacts
  <1>2. id \in OrderId /\ ord[id].buy \in BOOLEAN /\ ord[id].price \in Nat
    BY ObjectTerms
  <1> HIDE DEF p
  <1>3. /\ t \in Seq(OrderId) /\ Distinct(t)
        /\ \A x, y : Ahead(t, x, y) /\ x # id /\ y # id => Ahead(side, x, y)
        /\ \A y : Ahead(t, id, y) => \E j \in p..Len(side) : y = side[j]
        /\ \A x : Ahead(t, x, id) => \E j \in 1..(p - 1) : x = side[j]
    BY <1>1, <1>2, InsertAtFacts
  <1> HIDE DEF t
  <1>4. \A j \in 1..Len(side) : side[j] \in DOMAIN ord /\ ord[side[j]].buy = ord[id].buy
                                /\ ord[side[j]].price \in Nat
    <2>1. \A j \in 1..Len(side) : side[j] \in ToSet(side)
      BY DEF ToSet
    <2>2. ASSUME NEW j \in 1..Len(side) PROVE ord[side[j]].price \in Nat
      BY <2>1, ObjectTerms
    <2> QED
      BY <2>1, <2>2
  <1>5. ASSUME NEW y, Ahead(t, id, y) PROVE Before(ord[id].buy, ord[id].price, ord[y].price)
    <2>1. PICK j \in p..Len(side) : y = side[j]
      BY <1>3, <1>5
    <2>2. /\ p \in 1..Len(side) /\ j \in 1..Len(side)
          /\ Before(ord[id].buy, ord[id].price, ord[side[p]].price)
      BY <1>1, <2>1
    <2>3. CASE j = p
      BY <2>1, <2>2, <2>3
    <2>4. CASE j # p
      <3>1. Ahead(side, side[p], side[j])
        BY <1>1, <2>1, <2>2, <2>4 DEF Ahead
      <3>2. ~Before(ord[id].buy, ord[side[j]].price, ord[side[p]].price)
        BY <1>4, <2>2, <3>1
      <3>3. ord[side[p]].price \in Nat /\ ord[side[j]].price \in Nat
        BY <1>4, <2>2
      <3>4. Before(ord[id].buy, ord[id].price, ord[side[j]].price)
        BY <1>2, <2>2, <3>2, <3>3, BeforeTransitive
      <3> QED
        BY <2>1, <3>4
    <2> QED
      BY <2>3, <2>4
  <1>6. ASSUME NEW x, NEW y, Ahead(t, x, y)
        PROVE  ~Before(ord[y].buy, ord[y].price, ord[x].price)
    <2>1. x # y
      BY <1>3, <1>6, AheadFacts
    <2>2. CASE x # id /\ y # id
      BY <1>3, <1>6, <2>2
    <2>3. CASE x = id
      <3>1. Before(ord[id].buy, ord[id].price, ord[y].price)
        BY <1>5, <1>6, <2>3
      <3>2. PICK j \in p..Len(side) : y = side[j]
        BY <1>3, <1>6, <2>3
      <3>3. ord[y].buy = ord[id].buy /\ ord[y].price \in Nat
        BY <1>1, <1>4, <3>2
      <3>4. ~Before(ord[id].buy, ord[y].price, ord[id].price)
        BY <1>2, <3>1, <3>3 DEF Before, Market
      <3> QED
        BY <2>3, <3>3, <3>4
    <2>4. CASE y = id
      <3>1. PICK j \in 1..(p - 1) : x = side[j]
        BY <1>3, <1>6, <2>4
      <3> QED
        BY <1>1, <2>4, <3>1
    <2> QED
      BY <2>2, <2>3, <2>4
  <1> QED
    BY <1>5, <1>6 DEF t, p

\* So does the insertion into the book.
LEMMA InsertSorts ==
    ASSUME NEW ord, Objects(ord), NEW id \in DOMAIN ord,
           NEW d \in BookType, Sided(d, ord), ~Rests(d, id), Sorted(d, ord)
    PROVE  LET c == Insert(d, ord, id)
           IN  Sorted(c, ord) /\ Behind(c, ord, id)
PROOF
  <1> DEFINE s == InsertAt(d.bids, UpperBound(d.bids, ord, id), id)
             t == InsertAt(d.asks, UpperBound(d.asks, ord, id), id)
             c == Insert(d, ord, id)
  <1>1. /\ d.bids \in Seq(OrderId) /\ d.asks \in Seq(OrderId)
        /\ Distinct(d.bids) /\ Distinct(d.asks)
        /\ \A x \in ToSet(d.bids) : x \in DOMAIN ord /\ ord[x].buy
        /\ \A x \in ToSet(d.asks) : x \in DOMAIN ord /\ ~ord[x].buy
        /\ id \notin ToSet(d.bids) /\ id \notin ToSet(d.asks)
        /\ ord[id].buy \in BOOLEAN
    BY ObjectTerms DEF Sided, Rests
  <1>2. \A x \in DOMAIN ord : ord[x].buy \in BOOLEAN
    BY ObjectTerms
  <1>3. \A y : ~Ahead(d.bids, id, y) /\ ~Ahead(d.asks, id, y)
    BY <1>1, AheadFacts
  <1>4. CASE ord[id].buy
    <2>1. c.bids = s /\ c.asks = d.asks
      BY <1>4 DEF Insert, BookType
    <2>2. \A x \in ToSet(d.bids) : x \in DOMAIN ord /\ ord[x].buy = ord[id].buy
      BY <1>1, <1>2, <1>4
    <2>3. \A x, y : Ahead(d.bids, x, y) => ~Before(ord[y].buy, ord[y].price, ord[x].price)
      BY DEF Sorted
    <2>4. /\ \A y : Ahead(s, id, y) => Before(ord[id].buy, ord[id].price, ord[y].price)
          /\ \A x, y : Ahead(s, x, y) => ~Before(ord[y].buy, ord[y].price, ord[x].price)
      BY <1>1, <2>2, <2>3, UpperBoundSorts
    <2> HIDE DEF c, s
    <2> QED
      BY <1>3, <2>1, <2>4 DEF Sorted, Behind, c
  <1>5. CASE ~ord[id].buy
    <2>1. c.asks = t /\ c.bids = d.bids
      BY <1>5 DEF Insert, BookType
    <2>2. \A x \in ToSet(d.asks) : x \in DOMAIN ord /\ ord[x].buy = ord[id].buy
      BY <1>1, <1>2, <1>5
    <2>3. \A x, y : Ahead(d.asks, x, y) => ~Before(ord[y].buy, ord[y].price, ord[x].price)
      BY DEF Sorted
    <2>4. /\ \A y : Ahead(t, id, y) => Before(ord[id].buy, ord[id].price, ord[y].price)
          /\ \A x, y : Ahead(t, x, y) => ~Before(ord[y].buy, ord[y].price, ord[x].price)
      BY <1>1, <2>2, <2>3, UpperBoundSorts
    <2> HIDE DEF c, t
    <2> QED
      BY <1>3, <2>1, <2>4 DEF Sorted, Behind, c
  <1> QED
    BY <1>4, <1>5

\* A book that only lost entries is as sorted as before.
LEMMA SortedKept ==
    ASSUME NEW b, NEW c, NEW ord, NEW id, SameOrder(b, c)
    PROVE  /\ Sorted(b, ord) => Sorted(c, ord)
           /\ Behind(b, ord, id) => Behind(c, ord, id)
  BY DEF SameOrder, Sorted, Behind

-----------------------------------------------------------------------------
(***************************************************************************)
(* What a match leaves: nothing that could still be matched.               *)
(***************************************************************************)

\* Two orders of different sides whose limits agree, with a price to trade at.
Crossing(ord, x, y) ==
    /\ ord[x].buy # ord[y].buy
    /\ ord[x].price # Market \/ ord[y].price # Market
    /\ MatchesPrice(ord[y].buy, ord[y].price, ord[x].price)

\* They could trade in full with what the other one has.
Deal(b, ord, x, y) ==
    /\ Crossing(ord, x, y)
    /\ ord[x].aon => b.open[x] =< b.open[y]
    /\ ord[y].aon => b.open[y] =< b.open[x]

\* The ordinary orders that x could trade with.
Supply(b, ord, x) ==
    {y \in ToSet(b.bids) \union ToSet(b.asks) : ~ord[y].aon /\ Crossing(ord, x, y)}

\* No two orders that rest could trade, and no AON order outside A with all
\* the ordinary orders together: those in A are still to be retried.
Unmatched(b, ord, A) ==
    /\ \A x, y : Rests(b, x) /\ Rests(b, y) => ~Deal(b, ord, x, y)
    /\ \A x : Rests(b, x) /\ ord[x].aon /\ x \notin A =>
                 Total(b.open, Supply(b, ord, x)) < b.open[x]

\* From b to c nothing is left that could be matched.
Clears(b, c, ord) == Sorted(b, ord) /\ Unmatched(b, ord, {}) => Unmatched(c, ord, {})

\* The order in cannot trade with anything that rests, an AON order that is too
\* large for it being in A.
Unserved(b, ord, in, A) ==
    /\ \A x : Rests(b, x) /\ Crossing(ord, in, x) =>
           /\ ~ord[x].aon => ord[in].aon
           /\ ord[x].aon => IF ord[in].aon THEN b.open[x] # b.open[in]
                            ELSE x \in A /\ b.open[in] < b.open[x]
    /\ ord[in].aon => Total(b.open, Supply(b, ord, in)) < b.open[in]

\* It does not matter which of the two is asked.
LEMMA CrossingSymmetric ==
    ASSUME NEW ord, Objects(ord), NEW x \in DOMAIN ord, NEW y \in DOMAIN ord, Crossing(ord, x, y)
    PROVE  Crossing(ord, y, x)
PROOF
  <1>1. /\ ord[x].buy \in BOOLEAN /\ ord[y].buy \in BOOLEAN
        /\ ord[x].price \in Nat /\ ord[y].price \in Nat
    BY ObjectTerms
  <1> QED
    BY <1>1 DEF Crossing, MatchesPrice, Market

\* There are finitely many, and together they have a number open.
LEMMA SupplySum ==
    ASSUME NEW b, NEW ord, b.bids \in Seq(OrderId), b.asks \in Seq(OrderId),
           \A x : Rests(b, x) => b.open[x] \in Nat, NEW x
    PROVE  /\ IsFiniteSet(Supply(b, ord, x))
           /\ Total(b.open, Supply(b, ord, x)) \in Nat
           /\ \A y \in Supply(b, ord, x) : b.open[y] =< Total(b.open, Supply(b, ord, x))
PROOF
  <1> DEFINE S == Supply(b, ord, x)
             B == ToSet(b.bids)
             C == ToSet(b.asks)
  <1>1. IsFiniteSet(B) /\ IsFiniteSet(C)
    <2>1. Len(b.bids) \in 0..Len(b.bids) /\ Len(b.asks) \in 0..Len(b.asks)
      OBVIOUS
    <2>2. IsFiniteSet(B)
      BY <2>1, SequenceFinite
    <2>3. IsFiniteSet(C)
      BY <2>1, SequenceFinite
    <2> QED
      BY <2>2, <2>3
  <1>2. \A y \in S : b.open[y] \in Nat
    BY DEF Supply, Rests
  <1>3. S \subseteq B \union C
    BY DEF Supply
  <1> HIDE DEF S, B, C
  <1>4. IsFiniteSet(S)
    BY <1>1, <1>3, FS_Union, FS_Subset
  <1>5. Total(b.open, S) \in Nat /\ \A y \in S : Total(b.open, S) = b.open[y] + Total(b.open, S \ {y})
    BY <1>2, <1>4, TotalMinus
  <1>6. ASSUME NEW y \in S PROVE b.open[y] =< Total(b.open, S)
    <2>1. Total(b.open, S \ {y}) \in Nat
      BY <1>2, <1>4, FS_RemoveElement, TotalMinus
    <2> QED
      BY <1>2, <1>5, <2>1
  <1> QED
    BY <1>4, <1>5, <1>6 DEF S

\* Nothing new can be matched where orders have only left or become smaller.
LEMMA UnmatchedKept ==
    ASSUME NEW b, NEW c, NEW ord, NEW new, NEW A, NEW B, A \subseteq B,
           b.bids \in Seq(OrderId), b.asks \in Seq(OrderId),
           \A x : Rests(b, x) => b.open[x] \in Nat,
           \A x : Rests(c, x) =>
               /\ Rests(b, x) /\ new[x] = ord[x]
               /\ c.open[x] \in Nat /\ c.open[x] =< b.open[x]
               /\ ord[x].aon => c.open[x] = b.open[x],
           Unmatched(b, ord, A)
    PROVE  Unmatched(c, new, B)
PROOF
  <1>1. ASSUME NEW x, NEW y, Rests(c, x), Rests(c, y), Deal(c, new, x, y) PROVE FALSE
    <2>1. Deal(b, ord, x, y)
      BY <1>1 DEF Deal, Crossing
    <2> QED
      BY <1>1, <2>1 DEF Unmatched
  <1>2. ASSUME NEW x, Rests(c, x), new[x].aon, x \notin B
        PROVE  Total(c.open, Supply(c, new, x)) < c.open[x]
    <2> DEFINE S == Supply(b, ord, x)
               T == Supply(c, new, x)
    <2>1. T \in SUBSET S
      BY <1>2 DEF Supply, Rests, Crossing
    <2>2. /\ \A y \in S : b.open[y] \in Nat
          /\ \A y \in T : c.open[y] \in Nat /\ c.open[y] =< b.open[y]
      BY DEF Supply, Rests
    <2>3. IsFiniteSet(S) /\ Total(b.open, S) \in Nat
      BY SupplySum
    <2>4. Total(b.open, S) < b.open[x] /\ c.open[x] = b.open[x] /\ b.open[x] \in Nat
      BY <1>2 DEF Unmatched
    <2> HIDE DEF S, T
    <2>5. Total(c.open, T) =< Total(b.open, S)
      BY <2>1, <2>2, <2>3, TotalGrows
    <2>6. Total(c.open, T) \in Nat
      <3>1. IsFiniteSet(T)
        BY <2>1, <2>3, FS_Subset
      <3> QED
        BY <2>2, <3>1, TotalMinus
    <2> QED
      BY <2>3, <2>4, <2>5, <2>6 DEF T
  <1> QED
    BY <1>1, <1>2 DEF Unmatched

\* Behind a price that does not match, no price matches.
LEMMA MismatchStays ==
    ASSUME NEW buy \in BOOLEAN, NEW p \in Nat, NEW q \in Nat, NEW rhs \in Nat,
           ~MatchesPrice(buy, p, rhs), ~Before(buy, q, p)
    PROVE  ~MatchesPrice(buy, q, rhs)
  BY DEF MatchesPrice, Before, Market

\* What is left of the orders that cross with in the match has visited.
LEMMA VisitedCrossing ==
    ASSUME NEW ord, Objects(ord), NEW in \in DOMAIN ord, NEW b, SoundBook(b, ord, in),
           Sorted(b, ord), NEW j \in 0..Len(Opposite(b, ord, in)),
           LET side == Opposite(b, ord, in)
           IN  j # Len(side) =>
                   ~MatchesPrice(ord[side[j + 1]].buy, ord[side[j + 1]].price, ord[in].price),
           NEW x \in ToSet(Opposite(b, ord, in)), Crossing(ord, in, x)
    PROVE  x \in First(Opposite(b, ord, in), j)
PROOF
  <1> DEFINE side == Opposite(b, ord, in)
             e == side[j + 1]
  <1>1. side \in Seq(OrderId) /\ (side = b.bids \/ side = b.asks)
    BY DEF SoundBook, BookType, Opposite
  <1>2. \A y \in ToSet(side) : y \in DOMAIN ord /\ ord[y].buy # ord[in].buy
    BY OppositeFacts
  <1>3. j # Len(side) => ~MatchesPrice(ord[e].buy, ord[e].price, ord[in].price)
    OBVIOUS
  <1> HIDE DEF side
  <1>4. PICK i \in 1..Len(side) : side[i] = x
    BY <1>1 DEF ToSet, side
  <1>5. CASE i =< j
    BY <1>4, <1>5 DEF First, side
  <1>6. CASE ~(i =< j)
    <2>1. /\ j + 1 \in 1..Len(side) /\ j # Len(side) /\ j + 1 =< i /\ e \in ToSet(side)
      BY <1>1, <1>4, <1>6 DEF ToSet, side
    <2>2. x \in DOMAIN ord /\ e \in DOMAIN ord
      BY <1>2, <2>1 DEF side
    <2>3. /\ ord[x].buy \in BOOLEAN /\ ord[e].buy \in BOOLEAN /\ ord[in].buy \in BOOLEAN
          /\ ord[x].price \in Nat /\ ord[e].price \in Nat /\ ord[in].price \in Nat
      BY <2>2, ObjectTerms
    <2>4. ~Before(ord[x].buy, ord[x].price, ord[e].price)
      <3>1. CASE i = j + 1
        <4>1. x = e
          BY <1>4, <3>1
        <4> HIDE DEF e
        <4> QED
          BY <2>3, <4>1 DEF Before
      <3>2. CASE i # j + 1
        <4>1. Ahead(side, e, x)
          BY <1>4, <2>1, <3>2 DEF Ahead
        <4> QED
          BY <1>1, <4>1 DEF Sorted
      <3> QED
        BY <3>1, <3>2
    <2>5. ord[e].buy = ord[x].buy
      BY <1>2, <2>1, <2>3 DEF side
    <2>6. ~MatchesPrice(ord[x].buy, ord[e].price, ord[in].price)
      BY <1>3, <2>1, <2>5
    <2> HIDE DEF e
    <2>7. ~MatchesPrice(ord[x].buy, ord[x].price, ord[in].price)
      BY <2>3, <2>4, <2>6, MismatchStays
    <2> QED
      BY <2>7 DEF Crossing
  <1> QED
    BY <1>5, <1>6

\* A match that leaves something of in has nothing left to match it with.
LEMMA MatchUnserved ==
    ASSUME NEW ord, Objects(ord), NEW in \in DOMAIN ord, NEW b, SoundBook(b, ord, in),
           NEW n, NEW R, MatchGood(b, n, ord, in, R),
           AonPriced, Exact(b, Rep(R, ord, b), ord, in), Sorted(b, ord),
           n.book.open[in] # 0
    PROVE  Unserved(n.book, ord, in, ToSet(n.deferred_aons))
PROOF
  <1> DEFINE d == n.book
             side == Opposite(b, ord, in)
             matches == n.deferred_matches
             S == Supply(d, ord, in)
  <1>1. /\ SoundBook(d, ord, in) /\ Kept(b, d, ord, in, ToSet(side), R)
        /\ Finished(n, b, ord, in) /\ n.inbound_qty = d.open[in]
        /\ Distinct(matches) /\ matches \in Seq(OrderId)
    BY DEF MatchGood
  <1>2. /\ d \in BookType /\ d.open \in [OrderId -> Nat]
        /\ d.bids \in Seq(OrderId) /\ d.asks \in Seq(OrderId)
        /\ in \in OrderId /\ DOMAIN ord \subseteq OrderId /\ ord[in].buy \in BOOLEAN
    BY <1>1, SoundOpen, ObjectTerms DEF Objects
  <1>3. PICK j \in 0..Len(side) :
            /\ Reached(n, b, ord, in, j)
            /\ j # Len(side) =>
                   ~MatchesPrice(ord[side[j + 1]].buy, ord[side[j + 1]].price, ord[in].price)
    BY <1>1 DEF Finished
  <1>4. ASSUME NEW x, Rests(d, x), Crossing(ord, in, x)
        PROVE  x \in First(side, j) /\ x \in d.orders /\ x \in DOMAIN ord
    <2>1. /\ x \in ToSet(d.bids) => x \in DOMAIN ord /\ ord[x].buy
          /\ x \in ToSet(d.asks) => x \in DOMAIN ord /\ ~ord[x].buy
      BY <1>1 DEF SoundBook
    <2>2. x \in ToSet(d.bids) \/ x \in ToSet(d.asks)
      BY <1>4 DEF Rests
    <2>3. ord[x].buy # ord[in].buy /\ ord[x].buy \in BOOLEAN
      BY <1>4, <2>1, <2>2, ObjectTerms DEF Crossing
    <2>4. x \in ToSet(Opposite(d, ord, in)) /\ x \in DOMAIN ord
      BY <1>2, <2>1, <2>2, <2>3 DEF Opposite
    <2>5. x \in ToSet(side) /\ x # in
      BY <1>1, <1>4, <2>4 DEF Kept, Crossing
    <2>6. x \in d.orders
      BY <1>1, <1>2, <1>4, <2>4, <2>5 DEF SoundBook
    <2>7. x \in First(side, j)
      BY <1>3, <1>4, <2>5, VisitedCrossing
    <2> QED
      BY <2>4, <2>6, <2>7
  <1>5. ASSUME NEW x, Rests(d, x), Crossing(ord, in, x)
        PROVE  /\ ~ord[x].aon => ord[in].aon /\ x \in ToSet(matches)
               /\ ord[x].aon => IF ord[in].aon THEN d.open[x] # d.open[in]
                                ELSE x \in ToSet(n.deferred_aons) /\ d.open[in] < d.open[x]
    <2>1. x \in First(side, j) /\ x \in d.orders
      BY <1>4, <1>5
    <2>2. ord[x].price # Market \/ ord[in].price # Market
      BY <1>5 DEF Crossing
    <2>3. ord[x].aon => Unfit(n, ord, in, x)
      BY <1>3, <2>1 DEF Reached
    <2> QED
      BY <1>3, <2>1, <2>2, <2>3 DEF Reached, Unfit
  <1>6. ASSUME ord[in].aon PROVE Total(d.open, S) < d.open[in]
    <2>1. PICK W : Weighs(W, d.open, matches) /\ W[Len(matches)] = n.deferred_qty
      BY <1>3, <1>6 DEF Reached, QueuedUp
    <2>2. n.deferred_qty < d.open[in]
      BY <1>1, <1>3, <1>6 DEF Reached, QueuedUp
    <2>3. \A x \in ToSet(matches) : d.open[x] \in Nat
      BY <1>1, <1>2 DEF ToSet
    <2> HIDE DEF matches, d
    <2>4. IsFiniteSet(ToSet(matches)) /\ Total(d.open, ToSet(matches)) = n.deferred_qty
      BY <1>1, <2>1, <2>3, TotalWeighs
    <2>5. S \in SUBSET ToSet(matches)
      BY <1>5 DEF Supply, Rests
    <2>6. \A x \in S : d.open[x] \in Nat /\ d.open[x] =< d.open[x]
      BY <2>3, <2>5
    <2> HIDE DEF S
    <2>7. Total(d.open, S) =< Total(d.open, ToSet(matches))
      BY <2>3, <2>4, <2>5, <2>6, TotalGrows
    <2>8. Total(d.open, S) \in Nat /\ Total(d.open, ToSet(matches)) \in Nat
      BY <2>3, <2>4, <2>5, FS_Subset, TotalMinus
    <2>9. d.open[in] \in Nat
      BY <1>2
    <2> QED
      BY <2>2, <2>4, <2>7, <2>8, <2>9
  <1> QED
    BY <1>5, <1>6 DEF Unserved

\* A match of in makes nothing else possible; c may have lost the entry of in.
LEMMA MatchUnmatched ==
    ASSUME NEW ord, Objects(ord), NEW in \in DOMAIN ord, NEW b, SoundBook(b, ord, in),
           NEW n, NEW R, MatchGood(b, n, ord, in, R),
           AonPriced, Exact(b, Rep(R, ord, b), ord, in), NEW A, Unmatched(b, ord, A),
           NEW c, c.open = n.book.open,
           \A x : Rests(c, x) =>
               Rests(n.book, x) /\ (x = in => ord[in].aon /\ c.open[in] # 0)
    PROVE  Unmatched(c, ord, A)
PROOF
  <1> DEFINE d == n.book
  <1>1. /\ SoundBook(d, ord, in) /\ Kept(b, d, ord, in, ToSet(Opposite(b, ord, in)), R)
        /\ Exact(d, Rep(R, ord, d), ord, in)
        /\ ord[in].aon => d.open[in] \in {0, b.open[in]}
    BY DEF MatchGood
  <1>2. /\ b.open \in [OrderId -> Nat] /\ b.bids \in Seq(OrderId) /\ b.asks \in Seq(OrderId)
        /\ d.open \in [OrderId -> Nat] /\ DOMAIN ord \subseteq OrderId
    BY <1>1, SoundOpen, ObjectTerms DEF Objects
  <1>3. ASSUME NEW x, Rests(d, x) PROVE Rests(b, x) /\ x \in DOMAIN ord
    <2>1. x \in DOMAIN ord
      BY <1>1, <1>3 DEF Rests, SoundBook
    <2>2. /\ ToSet(Own(d, ord, in)) = ToSet(Own(b, ord, in))
          /\ ToSet(Opposite(d, ord, in)) \subseteq ToSet(Opposite(b, ord, in))
      BY <1>1 DEF Kept
    <2> QED
      BY <1>3, <2>1, <2>2 DEF Rests, Own, Opposite
  <1>4. ASSUME NEW x, Rests(c, x)
        PROVE  /\ Rests(b, x) /\ ord[x] = ord[x]
               /\ c.open[x] \in Nat /\ c.open[x] =< b.open[x]
               /\ ord[x].aon => c.open[x] = b.open[x]
    <2>1. Rests(d, x) /\ Rests(b, x) /\ x \in DOMAIN ord
      BY <1>3, <1>4
    <2>2. c.open[x] = d.open[x] /\ d.open[x] \in Nat /\ d.open[x] =< b.open[x]
      BY <1>1, <2>1 DEF Kept, Later
    <2>3. ASSUME ord[x].aon, x # in PROVE d.open[x] = b.open[x]
      <3>1. Agree(d, Rep(R, ord, d), ord, x) /\ Agree(b, Rep(R, ord, b), ord, x)
        BY <1>1, <2>1, <2>3 DEF Exact
      <3> QED
        BY <2>1, <2>3, <3>1 DEF Agree
    <2>4. ASSUME x = in PROVE d.open[x] = b.open[x]
      BY <1>1, <1>4, <2>2, <2>4
    <2> QED
      BY <2>1, <2>2, <2>3, <2>4
  <1>5. \A x : Rests(b, x) => b.open[x] \in Nat
    BY <1>2 DEF Rests, ToSet
  <1> QED
    BY <1>2, <1>4, <1>5, UnmatchedKept

\* What is left of a new order is inserted: it does not make anything possible
\* but the AON orders in A.
LEMMA InsertedUnmatched ==
    ASSUME NEW ord, Objects(ord), NEW id \in DOMAIN ord,
           NEW d, SoundBook(d, ord, id), ~Rests(d, id),
           NEW A, Unmatched(d, ord, {}), Unserved(d, ord, id, A)
    PROVE  Unmatched(Insert(d, ord, id), ord, A)
PROOF
  <1> DEFINE c == Insert(d, ord, id)
  <1>1. /\ d \in BookType /\ d.open \in [OrderId -> Nat]
        /\ d.bids \in Seq(OrderId) /\ d.asks \in Seq(OrderId)
        /\ Distinct(d.bids) /\ Distinct(d.asks)
        /\ id \in OrderId /\ DOMAIN ord \subseteq OrderId
    BY SoundOpen, ObjectTerms DEF Objects, SoundBook
  <1>2. c.open = d.open /\ \A x : Rests(c, x) <=> Rests(d, x) \/ x = id
    <2>1. Inserted(d, c, ord, id)
      BY <1>1, InsertFacts
    <2> HIDE DEF c
    <2> QED
      BY <2>1 DEF Inserted, Rests
  <1> HIDE DEF c
  <1>3. ASSUME NEW x, Rests(d, x) PROVE x \in DOMAIN ord /\ d.open[x] \in Nat
    BY <1>1, <1>3 DEF SoundBook, Rests
  <1>4. d.open[id] \in Nat
    BY <1>1
  <1>5. ASSUME NEW x, Rests(d, x), Deal(d, ord, id, x) PROVE FALSE
    <2>1. Crossing(ord, id, x)
      BY <1>5 DEF Deal
    <2>2. CASE ord[x].aon
      BY <1>3, <1>4, <1>5, <2>1, <2>2 DEF Deal, Unserved
    <2>3. CASE ~ord[x].aon
      <3>1. ord[id].aon /\ Total(d.open, Supply(d, ord, id)) < d.open[id]
        BY <1>5, <2>1, <2>3 DEF Unserved
      <3>2. x \in Supply(d, ord, id)
        BY <1>5, <2>1, <2>3 DEF Supply, Rests
      <3>3. /\ Total(d.open, Supply(d, ord, id)) \in Nat
            /\ d.open[x] =< Total(d.open, Supply(d, ord, id))
        BY <1>1, <1>3, <3>2, SupplySum
      <3> QED
        BY <1>3, <1>4, <1>5, <3>1, <3>3 DEF Deal
    <2> QED
      BY <2>2, <2>3
  <1>6. ASSUME NEW x, NEW y, Rests(c, x), Rests(c, y), Deal(c, ord, x, y) PROVE FALSE
    <2>1. x \in DOMAIN ord /\ y \in DOMAIN ord /\ x # y /\ Deal(d, ord, x, y)
      BY <1>2, <1>3, <1>6 DEF Deal, Crossing
    <2>2. Deal(d, ord, y, x)
      BY <2>1, CrossingSymmetric DEF Deal
    <2> QED
      BY <1>2, <1>5, <1>6, <2>1, <2>2 DEF Unmatched
  <1>7. ASSUME NEW x, Rests(c, x), ord[x].aon, x \notin A
        PROVE  Total(c.open, Supply(c, ord, x)) < c.open[x]
    <2>1. CASE x = id
      <3>1. Supply(c, ord, x) = Supply(d, ord, x)
        BY <1>2, <2>1 DEF Supply, Crossing, Rests
      <3> QED
        BY <1>2, <1>7, <2>1, <3>1 DEF Unserved
    <2>2. CASE x # id
      <3>1. Rests(d, x) /\ x \in DOMAIN ord
        BY <1>2, <1>3, <1>7, <2>2
      <3>2. ord[id].aon \/ ~Crossing(ord, x, id)
        <4> SUFFICES ASSUME ~ord[id].aon, Crossing(ord, x, id) PROVE FALSE
          OBVIOUS
        <4>1. Crossing(ord, id, x)
          BY <3>1, CrossingSymmetric
        <4> QED
          BY <1>7, <3>1, <4>1 DEF Unserved
      <3>3. Supply(c, ord, x) = Supply(d, ord, x)
        BY <1>2, <3>2 DEF Supply, Rests
      <3> QED
        BY <1>2, <1>7, <3>1, <3>3 DEF Unmatched
    <2> QED
      BY <2>1, <2>2
  <1> QED
    BY <1>6, <1>7 DEF Unmatched, c

\* check_deferred_aons retries the orders one after the other.
LEMMA CheckRun ==
    ASSUME NEW b, NEW ord, NEW aons \in Seq(OrderId)
    PROVE  \E c : /\ c[0] = b
                  /\ \A i \in 1..Len(aons) : c[i] = Retry(c[i - 1], ord, aons[i])
                  /\ CheckDeferredAons(b, ord, aons) = c[Len(aons)]
PROOF
  <1> DEFINE Run(k, g) == g = [i \in 0..k |-> IF i = 0 THEN b ELSE Retry(g[i - 1], ord, aons[i])]
             K == {k \in Nat : \E g : Run(k, g)}
  <1>1. 0 \in K
    <2>1. Run(0, [i \in 0..0 |-> b])
      OBVIOUS
    <2> QED
      BY <2>1
  <1>2. ASSUME NEW k \in Nat, k \in K PROVE k + 1 \in K
    <2>1. PICK g : Run(k, g)
      BY <1>2
    <2> DEFINE h == [i \in 0..(k + 1) |-> IF i =< k THEN g[i] ELSE Retry(g[k], ord, aons[k + 1])]
    <2>2. ASSUME NEW i \in 0..(k + 1)
          PROVE  h[i] = IF i = 0 THEN b ELSE Retry(h[i - 1], ord, aons[i])
      <3>1. CASE i =< k
        <4>1. h[i] = g[i] /\ (i # 0 => h[i - 1] = g[i - 1])
          BY <3>1
        <4>2. g[i] = IF i = 0 THEN b ELSE Retry(g[i - 1], ord, aons[i])
          BY <2>1, <3>1
        <4> QED
          BY <4>1, <4>2
      <3>2. CASE i = k + 1
        BY <3>2
      <3> QED
        BY <3>1, <3>2
    <2>3. Run(k + 1, h)
      BY <2>2
    <2> HIDE DEF h, Run
    <2>4. \E f : Run(k + 1, f)
      BY <2>3
    <2> QED
      BY <2>4
  <1>3. Nat \subseteq K
    <2> HIDE DEF K
    <2> QED
      BY <1>1, <1>2, SetInduction
  <1>4. PICK g : Run(Len(aons), g)
    <2>1. Len(aons) \in Nat
      OBVIOUS
    <2> QED
      BY <1>3, <2>1
  <1> DEFINE c == CHOOSE f : f = [i \in 0..Len(aons) |-> IF i = 0 THEN b ELSE Retry(f[i - 1], ord, aons[i])]
  <1>5. c = [i \in 0..Len(aons) |-> IF i = 0 THEN b ELSE Retry(c[i - 1], ord, aons[i])]
    BY <1>4
  <1>6. CheckDeferredAons(b, ord, aons) = c[Len(aons)]
    BY DEF CheckDeferredAons
  <1> HIDE DEF c
  <1>7. Len(aons) \in Nat
    OBVIOUS
  <1>8. c[0] = b /\ \A i \in 1..Len(aons) : c[i] = Retry(c[i - 1], ord, aons[i])
    BY <1>5, <1>7
  <1> QED
    BY <1>6, <1>8

\* What a retry of aon makes of the book; the order id has just been inserted.
RetryGood(b, c, ord, aon, id, R) ==
    /\ SoundAll(c, ord)
    /\ SoundReports(Rep(R, ord, c), ord)
    /\ ToSet(Own(b, ord, aon)) \ {aon} \subseteq ToSet(Own(c, ord, aon))
    /\ SameOrder(b, c) /\ Fair(b, c, ord, id, Rep(R, ord, b), Rep(R, ord, c))
    /\ Told(b, ord, R) => Told(c, ord, R)
    /\ AonPriced /\ AgreeAll(b, Rep(R, ord, b), ord) =>
           /\ AgreeAll(c, Rep(R, ord, c), ord) /\ Served(b, c, ord, id)
           /\ Sorted(b, ord) => \A A : Unmatched(b, ord, A) => Unmatched(c, ord, A \ {aon})

\* One order of check_deferred_aons.
LEMMA RetryFacts ==
    ASSUME NEW ord, Objects(ord), NEW b, SoundAll(b, ord),
           NEW aon \in DOMAIN ord, Rests(b, aon), ord[aon].aon,
           NEW R, SoundReports(Rep(R, ord, b), ord), NEW id
    PROVE  RetryGood(b, Retry(b, ord, aon), ord, aon, id, R)
PROOF
  <1> DEFINE n == Match(b, ord, aon)
             d == n.book
             c == Settle(d, aon)
             r == Rep(R, ord, b)
             s == Rep(R, ord, d)
  <1>1. aon \in OrderId /\ ord[aon].buy \in BOOLEAN /\ DOMAIN ord \subseteq OrderId
    BY ObjectTerms DEF Objects
  <1>2. SoundBook(b, ord, aon)
    BY <1>1 DEF SoundAll, SoundBook
  <1>3. MatchGood(b, n, ord, aon, R)
    BY <1>2, MatchFacts
  <1>4. Retry(b, ord, aon) = c
    BY DEF Retry
  <1> HIDE DEF n
  <1>5. /\ SoundBook(d, ord, aon) /\ SoundReports(s, ord)
        /\ Kept(b, d, ord, aon, ToSet(Opposite(b, ord, aon)), R)
        /\ Fair(b, d, ord, id, r, s)
        /\ AonPriced /\ Exact(b, r, ord, aon) =>
               /\ Exact(d, s, ord, aon)
               /\ d.open[aon] \in {0, b.open[aon]}
               /\ Served(b, d, ord, id)
    <2>1. /\ Fair(b, d, ord, id, r, s)
          /\ AonPriced /\ Exact(b, r, ord, aon) => Served(b, d, ord, id)
      BY <1>2, <1>3, MatchFair
    <2> QED
      BY <1>3, <2>1 DEF MatchGood
  <1>6. d \in BookType /\ d.open \in [OrderId -> Nat] /\ d.open[aon] \in Nat
        /\ Distinct(d.bids) /\ Distinct(d.asks)
    BY <1>1, <1>5, SoundOpen DEF SoundBook
  <1>7. /\ c \in BookType
        /\ Distinct(c.bids) /\ Distinct(c.asks)
        /\ ToSet(c.bids) = ToSet(d.bids) \ {x \in {aon} : d.open[aon] = 0}
        /\ ToSet(c.asks) = ToSet(d.asks) \ {x \in {aon} : d.open[aon] = 0}
        /\ c.orders = d.orders /\ c.open = d.open /\ c.callbacks = d.callbacks
        /\ c.undefined = d.undefined
        /\ SameOrder(d, c)
    <2>1. CASE d.open[aon] = 0
      <3>1. c = EraseEntry(d, aon)
        BY <2>1 DEF Settle
      <3> HIDE DEF c, d
      <3> QED
        BY <1>6, <2>1, <3>1, EraseFacts
    <2>2. CASE d.open[aon] # 0
      <3>1. c = d
        BY <2>2 DEF Settle
      <3> HIDE DEF c, d
      <3> QED
        BY <1>6, <2>2, <3>1 DEF SameOrder
    <2> QED
      BY <2>1, <2>2
  <1> HIDE DEF c, d, r, s
  <1>8. /\ \A x \in OrderId \ {aon} : Rests(c, x) <=> Rests(d, x)
        /\ Rests(c, aon) <=> Rests(d, aon) /\ d.open[aon] # 0
    BY <1>7 DEF Rests
  <1>9. SoundAll(c, ord)
    <2>1. ASSUME NEW x \in OrderId, Rests(c, x) PROVE x \in c.orders /\ c.open[x] > 0
      <3>1. CASE x = aon
        BY <1>5, <1>6, <1>7, <1>8, <2>1, <3>1 DEF SoundBook
      <3>2. CASE x # aon
        BY <1>5, <1>7, <1>8, <2>1, <3>2 DEF SoundBook
      <3> QED
        BY <3>1, <3>2
    <2> QED
      BY <1>5, <1>7, <2>1 DEF SoundAll, SoundBook
  <1>10. Rep(R, ord, c) = s
    BY <1>7 DEF Rep, s
  <1>11. ToSet(Own(b, ord, aon)) \ {aon} \subseteq ToSet(Own(c, ord, aon))
    <2>1. Own(d, ord, aon) = Own(b, ord, aon)
      BY <1>5 DEF Kept
    <2>2. ToSet(Own(d, ord, aon)) \ {aon} \subseteq ToSet(Own(c, ord, aon))
      BY <1>7 DEF Own
    <2> QED
      BY <2>1, <2>2
  <1>12. ASSUME AonPriced, AgreeAll(b, r, ord) PROVE AgreeAll(c, s, ord) /\ Served(b, c, ord, id)
    <2>1. /\ Live(b, r, ord, aon) /\ ~ord[aon].ioc /\ b.open[aon] = ord[aon].qty
          /\ ~b.undefined /\ \A x \in DOMAIN ord : Agree(b, r, ord, x)
      BY <1>12 DEF AgreeAll, Agree
    <2>2. Exact(b, r, ord, aon)
      BY <2>1 DEF Exact, Live
    <2>3. /\ Exact(d, s, ord, aon) /\ d.open[aon] \in {0, ord[aon].qty}
          /\ Served(b, d, ord, id)
      BY <1>5, <1>12, <2>1, <2>2
    <2>4. ASSUME NEW x \in DOMAIN ord \ {aon} PROVE Agree(c, s, ord, x)
      <3>1. Agree(d, s, ord, x) /\ x \in OrderId
        BY <1>1, <2>3 DEF Exact
      <3>2. Rests(c, x) <=> Rests(d, x)
        BY <1>8, <3>1
      <3> QED
        BY <1>7, <3>1, <3>2 DEF Agree, Live, Gone
    <2>5. Agree(c, s, ord, aon)
      <3>1. CASE d.open[aon] = 0
        <4>1. Gone(d, s, ord, aon) /\ ~Rests(c, aon)
          BY <1>8, <2>3, <3>1 DEF Exact
        <4> QED
          BY <1>7, <4>1 DEF Agree, Gone
      <3>2. CASE d.open[aon] # 0
        <4>1. Live(d, s, ord, aon)
          BY <1>6, <2>3, <3>2 DEF Exact
        <4>2. Rests(c, aon)
          <5>1. Own(d, ord, aon) = Own(b, ord, aon)
            BY <1>5 DEF Kept
          <5>2. aon \in ToSet(Own(b, ord, aon))
            BY <1>1, OwnFacts
          <5>3. Rests(d, aon)
            BY <5>1, <5>2 DEF Own, Rests
          <5> QED
            BY <1>8, <3>2, <5>3
        <4> QED
          BY <1>7, <2>1, <2>3, <3>2, <4>1, <4>2 DEF Agree, Live
      <3> QED
        BY <3>1, <3>2
    <2>6. Served(b, c, ord, id)
      BY <1>7, <2>3 DEF Served
    <2>7. ~c.undefined
      BY <1>7, <2>3 DEF Exact
    <2> QED
      BY <2>4, <2>5, <2>6, <2>7 DEF AgreeAll
  <1>13. SameOrder(b, c)
    BY <1>5, <1>7 DEF Kept, Later, SameOrder
  <1>14. Fair(b, c, ord, id, r, s)
    <2>1. \A x \in DOMAIN ord : Rests(c, x) => Rests(d, x)
      BY <1>7 DEF Rests
    <2>2. \A x, y : x # id /\ y # id =>
             /\ Ahead(c.bids, x, y) => Ahead(b.bids, x, y)
             /\ Ahead(c.asks, x, y) => Ahead(b.asks, x, y)
      BY <1>13 DEF SameOrder
    <2> QED
      BY <1>5, <1>7, <2>1, <2>2 DEF Fair, OthersInOrder
  <1>15. ASSUME AonPriced, AgreeAll(b, r, ord), Sorted(b, ord), NEW A, Unmatched(b, ord, A)
         PROVE  Unmatched(c, ord, A \ {aon})
    <2>1. Exact(b, Rep(R, ord, b), ord, aon)
      BY <1>15 DEF AgreeAll, Agree, Exact, Live, r
    <2>2. \A x : Rests(c, x) => Rests(d, x) /\ (x = aon => ord[aon].aon /\ c.open[aon] # 0)
      BY <1>7 DEF Rests
    <2>3. Unmatched(c, ord, A)
      BY <1>2, <1>3, <1>7, <1>15, <2>1, <2>2, MatchUnmatched DEF d
    <2>4. ASSUME Rests(c, aon) PROVE Total(c.open, Supply(c, ord, aon)) < c.open[aon]
      <3>1. d.open[aon] # 0
        BY <1>7, <2>2, <2>4
      <3>2. Unserved(d, ord, aon, ToSet(n.deferred_aons))
        BY <1>2, <1>3, <1>15, <2>1, <3>1, MatchUnserved DEF d
      <3>3. c = d
        BY <3>1 DEF c, Settle
      <3> QED
        BY <3>2, <3>3 DEF Unserved
    <2> QED
      BY <2>3, <2>4 DEF Unmatched
  <1>16. Told(b, ord, R) => Told(c, ord, R)
    <2>1. Told(b, ord, R) => Told(d, ord, R)
      BY <1>5 DEF Kept, Later
    <2>2. Told(d, ord, R) => Told(c, ord, R)
      BY <1>7 DEF Told, Rep
    <2> QED
      BY <2>1, <2>2
  <1> QED
    BY <1>4, <1>5, <1>9, <1>10, <1>11, <1>12, <1>13, <1>14, <1>15, <1>16 DEF RetryGood, r

\* check_deferred_aons, of orders of one side.
LEMMA CheckFacts ==
    ASSUME NEW ord, Objects(ord), NEW b, SoundAll(b, ord), NEW buy \in BOOLEAN,
           NEW aons \in Seq(OrderId), Distinct(aons),
           \A x \in ToSet(aons) : x \in DOMAIN ord /\ Rests(b, x) /\ ord[x].aon /\ ord[x].buy = buy,
           NEW R, SoundReports(Rep(R, ord, b), ord), NEW id
    PROVE  LET c == CheckDeferredAons(b, ord, aons)
           IN  /\ SoundAll(c, ord)
               /\ SoundReports(Rep(R, ord, c), ord)
               /\ SameOrder(b, c) /\ Fair(b, c, ord, id, Rep(R, ord, b), Rep(R, ord, c))
               /\ Told(b, ord, R) => Told(c, ord, R)
               /\ AonPriced /\ AgreeAll(b, Rep(R, ord, b), ord) =>
                      /\ AgreeAll(c, Rep(R, ord, c), ord) /\ Served(b, c, ord, id)
                      /\ Sorted(b, ord) /\ Unmatched(b, ord, ToSet(aons)) =>
                             Unmatched(c, ord, {})
PROOF
  <1> DEFINE n == Len(aons)
  <1>1. n \in Nat
    OBVIOUS
  <1>2. PICK c : /\ c[0] = b
                 /\ \A i \in 1..n : c[i] = Retry(c[i - 1], ord, aons[i])
                 /\ CheckDeferredAons(b, ord, aons) = c[n]
    BY CheckRun
  <1>3. \A i \in 1..n : aons[i] \in ToSet(aons) /\ aons[i] \in DOMAIN ord
    BY DEF ToSet
  <1> HIDE DEF n
  <1> DEFINE Start == AonPriced /\ AgreeAll(b, Rep(R, ord, b), ord)
             Clear == Sorted(b, ord) /\ Unmatched(b, ord, ToSet(aons))
             Undone(k) == {aons[j] : j \in (k + 1)..n}
             Good(k) == /\ SoundAll(c[k], ord)
                        /\ SoundReports(Rep(R, ord, c[k]), ord)
                        /\ SameOrder(b, c[k])
                        /\ Fair(b, c[k], ord, id, Rep(R, ord, b), Rep(R, ord, c[k]))
                        /\ Told(b, ord, R) => Told(c[k], ord, R)
                        /\ Start => /\ AgreeAll(c[k], Rep(R, ord, c[k]), ord)
                                    /\ Served(b, c[k], ord, id)
                                    /\ Clear => Unmatched(c[k], ord, Undone(k))
                        /\ \A j \in 1..n : k < j => Rests(c[k], aons[j])
             K == {k \in Nat : k =< n => Good(k)}
  <1>4. 0 \in K
    <2>1. SameOrder(b, b) /\ Served(b, b, ord, id)
      BY DEF SameOrder, Served
    <2>2. \A x \in DOMAIN ord : b.open[x] \in Nat
      BY DEF SoundAll, BookType, Objects
    <2>3. Fair(b, b, ord, id, Rep(R, ord, b), Rep(R, ord, b))
      BY <2>2 DEF Fair, OthersInOrder
    <2>4. Undone(0) = ToSet(aons)
      BY DEF ToSet, n
    <2> HIDE DEF Undone
    <2> QED
      BY <1>2, <1>3, <2>1, <2>3, <2>4
  <1>5. ASSUME NEW k \in Nat, k \in K PROVE k + 1 \in K
    <2> SUFFICES ASSUME k + 1 =< n PROVE Good(k + 1)
      OBVIOUS
    <2> DEFINE a == aons[k + 1]
               d == c[k]
               e == c[k + 1]
    <2>1. Good(k)
      BY <1>1, <1>5
    <2>2. e = Retry(d, ord, a)
      BY <1>1, <1>2
    <2>3. a \in DOMAIN ord /\ Rests(d, a) /\ ord[a].aon /\ ord[a].buy = buy
      BY <1>1, <1>3, <2>1
    <2>4. SoundAll(d, ord) /\ SoundReports(Rep(R, ord, d), ord)
      BY <2>1
    <2>5. RetryGood(d, e, ord, a, id, R)
      BY <2>2, <2>3, <2>4, RetryFacts
    <2>6. /\ SoundAll(e, ord)
          /\ SoundReports(Rep(R, ord, e), ord)
          /\ ToSet(Own(d, ord, a)) \ {a} \subseteq ToSet(Own(e, ord, a))
          /\ SameOrder(d, e) /\ Fair(d, e, ord, id, Rep(R, ord, d), Rep(R, ord, e))
          /\ Told(d, ord, R) => Told(e, ord, R)
          /\ AonPriced /\ AgreeAll(d, Rep(R, ord, d), ord) =>
                 /\ AgreeAll(e, Rep(R, ord, e), ord) /\ Served(d, e, ord, id)
                 /\ Sorted(d, ord) => \A A : Unmatched(d, ord, A) => Unmatched(e, ord, A \ {a})
      BY <2>5 DEF RetryGood
    <2>7. ASSUME NEW j \in 1..n, k + 1 < j PROVE Rests(e, aons[j])
      <3>1. /\ aons[j] \in DOMAIN ord /\ ord[aons[j]].buy = ord[a].buy
            /\ aons[j] # a /\ Rests(d, aons[j])
        <4>1. aons[j] # a
          BY <1>1, <2>7 DEF Distinct, n
        <4>2. Rests(d, aons[j])
          BY <1>1, <2>1, <2>7
        <4> QED
          BY <1>3, <2>3, <4>1, <4>2
      <3> DEFINE x == aons[j]
      <3> HIDE DEF x, a, d, e
      <3>2. x \in ToSet(Own(d, ord, a))
        BY <2>3, <2>4, <3>1, OwnFacts DEF x
      <3>3. x \in ToSet(Own(e, ord, a))
        BY <2>6, <3>1, <3>2 DEF x
      <3>4. Rests(e, x)
        BY <2>3, <2>6, <3>1, <3>3, OwnFacts DEF x
      <3> QED
        BY <3>4 DEF x
    <2>8. ASSUME Start PROVE AgreeAll(e, Rep(R, ord, e), ord) /\ Served(b, e, ord, id)
      <3>1. /\ AgreeAll(d, Rep(R, ord, d), ord) /\ AgreeAll(e, Rep(R, ord, e), ord)
            /\ Served(b, d, ord, id) /\ Served(d, e, ord, id)
            /\ Fair(b, d, ord, id, Rep(R, ord, b), Rep(R, ord, d))
        BY <2>1, <2>6, <2>8
      <3> HIDE DEF d, e
      <3>2. \A x \in DOMAIN ord \ {id} : x \in d.orders => Rests(d, x)
        BY <3>1, AgreeRests DEF AgreeAll
      <3>3. Sided(b, ord) /\ Sided(d, ord)
        BY <2>4, SidedFacts
      <3>4. Served(b, e, ord, id)
        BY <2>6, <3>1, <3>2, <3>3, ServedTransitive
      <3> QED
        BY <3>1, <3>4
    <2>9. /\ SameOrder(b, e)
          /\ Fair(b, e, ord, id, Rep(R, ord, b), Rep(R, ord, e))
      <3>1. SameOrder(b, d) /\ Fair(b, d, ord, id, Rep(R, ord, b), Rep(R, ord, d))
        BY <2>1
      <3> HIDE DEF d, e
      <3>2. SameOrder(b, e)
        BY <2>6, <3>1 DEF SameOrder
      <3> QED
        BY <2>6, <3>1, <3>2, FairTransitive
    <2>10. ASSUME Start, Clear PROVE Unmatched(e, ord, Undone(k + 1))
      <3>1. /\ AgreeAll(d, Rep(R, ord, d), ord) /\ Unmatched(d, ord, Undone(k))
            /\ SameOrder(b, d)
        BY <2>1, <2>10
      <3>2. Undone(k) \ {a} \subseteq Undone(k + 1)
        BY <1>1
      <3> HIDE DEF d, e, Undone
      <3>3. Sorted(d, ord)
        BY <2>10, <3>1, SortedKept
      <3>4. Unmatched(e, ord, Undone(k) \ {a})
        BY <2>6, <2>10, <3>1, <3>3
      <3> QED
        BY <3>2, <3>4 DEF Unmatched
    <2>11. Told(b, ord, R) => Told(e, ord, R)
      BY <2>1, <2>6
    <2> HIDE DEF Start, Clear, Undone
    <2> QED
      BY <2>6, <2>7, <2>8, <2>9, <2>10, <2>11
  <1>6. Nat \subseteq K
    <2> HIDE DEF K
    <2> QED
      BY <1>4, <1>5, SetInduction
  <1>7. Good(n)
    <2> HIDE DEF Start, Clear, Undone
    <2> QED
      BY <1>1, <1>6
  <1>8. Undone(n) = {}
    BY <1>1
  <1> HIDE DEF Undone
  <1> QED
    BY <1>2, <1>7, <1>8

\* The order id is on its way into the book b: every other order agrees, and
\* this one is open and does not rest.
Arriving(b, ord, id, R) ==
    /\ Objects(ord) /\ id \in DOMAIN ord
    /\ SoundBook(b, ord, id) /\ ~Rests(b, id)
    /\ SoundReports(Rep(R, ord, b), ord)
    /\ b.open[id] = ord[id].qty

\* What the end of add_order leaves, of what it found matching id.
RestGood(b, c, ord, id, left, R) ==
    /\ left \in Nat
    /\ SoundReports(Rep(R, ord, c), ord)
    /\ Fair(b, c, ord, id, Rep(R, ord, b), Rep(R, ord, c))
    /\ Sorted(b, ord) => Sorted(c, ord) /\ Behind(c, ord, id)
    /\ Told(b, ord, R) => Told(c, ord, R)
    /\ left = 0 => \A cb \in ToSet(c.callbacks) :
           cb \in ToSet(b.callbacks) \/ (cb.type = "timeout" <=> cb.order # id)
    /\ AonPriced /\ Exact(b, Rep(R, ord, b), ord, id) =>
           Served(b, c, ord, id) /\ Clears(b, c, ord)
    /\ IF left > 0 /\ ~ord[id].ioc
       THEN /\ SoundAll(c, ord)
            /\ AonPriced /\ Exact(b, Rep(R, ord, b), ord, id) =>
                   AgreeAll(c, Rep(R, ord, c), ord)
       ELSE /\ SoundBook(c, ord, id) /\ ~Rests(c, id) /\ c.open[id] = left
            /\ AonPriced /\ Exact(b, Rep(R, ord, b), ord, id) =>
                   /\ Exact(c, Rep(R, ord, c), ord, id)
                   /\ ord[id].aon => left \in {0, ord[id].qty}

\* An order that was matched and has something left is inserted.
LEMMA InsertedFacts ==
    ASSUME NEW ord, Objects(ord), NEW id \in DOMAIN ord,
           NEW d, SoundBook(d, ord, id), ~Rests(d, id), d.open[id] > 0,
           NEW R, SoundReports(Rep(R, ord, d), ord)
    PROVE  LET c == Insert(d, ord, id)
           IN  /\ SoundAll(c, ord)
               /\ Opposite(c, ord, id) = Opposite(d, ord, id)
               /\ Rep(R, ord, c) = Rep(R, ord, d)
               /\ Told(d, ord, R) => Told(c, ord, R)
               /\ Fair(d, c, ord, id, Rep(R, ord, d), Rep(R, ord, c))
               /\ Served(d, c, ord, id)
               /\ Sorted(d, ord) => Sorted(c, ord) /\ Behind(c, ord, id)
               /\ /\ Exact(d, Rep(R, ord, d), ord, id) /\ ~ord[id].ioc
                  /\ ord[id].aon => d.open[id] = ord[id].qty
                  => AgreeAll(c, Rep(R, ord, c), ord)
PROOF
  <1> DEFINE c == Insert(d, ord, id)
             r == Rep(R, ord, d)
  <1>1. id \in OrderId /\ ord[id].buy \in BOOLEAN /\ DOMAIN ord \subseteq OrderId
    BY ObjectTerms DEF Objects
  <1>2. /\ d \in BookType /\ d.orders \subseteq DOMAIN ord
        /\ Distinct(d.bids) /\ Distinct(d.asks)
        /\ \A x \in ToSet(d.bids) : x \in DOMAIN ord /\ ord[x].buy
        /\ \A x \in ToSet(d.asks) : x \in DOMAIN ord /\ ~ord[x].buy
        /\ \A x \in OrderId \ {id} : Rests(d, x) => x \in d.orders /\ d.open[x] > 0
        /\ id \in d.orders
    BY DEF SoundBook
  <1>3. /\ c \in BookType
        /\ Distinct(c.bids) /\ Distinct(c.asks)
        /\ ToSet(c.bids) = IF ord[id].buy THEN ToSet(d.bids) \union {id} ELSE ToSet(d.bids)
        /\ ToSet(c.asks) = IF ord[id].buy THEN ToSet(d.asks) ELSE ToSet(d.asks) \union {id}
        /\ ord[id].buy => c.asks = d.asks
        /\ ~ord[id].buy => c.bids = d.bids
        /\ OthersInOrder(d, c, id)
        /\ c.orders = d.orders /\ c.open = d.open /\ c.callbacks = d.callbacks
        /\ c.undefined = d.undefined
    <2>1. Inserted(d, c, ord, id)
      BY <1>1, <1>2, InsertFacts
    <2> HIDE DEF c
    <2> QED
      BY <2>1 DEF Inserted
  <1> HIDE DEF c, r
  <1>4. /\ \A x \in OrderId \ {id} : Rests(c, x) <=> Rests(d, x)
        /\ Rests(c, id)
    BY <1>3 DEF Rests
  <1>5. SoundAll(c, ord)
    <2>1. ASSUME NEW x \in OrderId, Rests(c, x) PROVE x \in c.orders /\ c.open[x] > 0
      <3>1. CASE x = id
        BY <1>2, <1>3, <3>1
      <3>2. CASE x # id
        BY <1>2, <1>3, <1>4, <2>1, <3>2
      <3> QED
        BY <3>1, <3>2
    <2>2. \A x \in ToSet(c.bids) : x \in DOMAIN ord /\ ord[x].buy
      BY <1>2, <1>3
    <2>3. \A x \in ToSet(c.asks) : x \in DOMAIN ord /\ ~ord[x].buy
      BY <1>2, <1>3
    <2> QED
      BY <1>2, <1>3, <2>1, <2>2, <2>3 DEF SoundAll
  <1>6. Opposite(c, ord, id) = Opposite(d, ord, id)
    BY <1>3 DEF Opposite
  <1>7. Rep(R, ord, c) = r
    BY <1>3 DEF Rep, r
  <1>8. ASSUME Exact(d, r, ord, id), ~ord[id].ioc, ord[id].aon => d.open[id] = ord[id].qty
        PROVE  AgreeAll(c, r, ord)
    <2>1. ASSUME NEW x \in DOMAIN ord \ {id} PROVE Agree(c, r, ord, x)
      <3>1. Agree(d, r, ord, x) /\ x \in OrderId
        BY <1>1, <1>8 DEF Exact
      <3>2. Rests(c, x) <=> Rests(d, x)
        BY <1>4, <3>1
      <3> QED
        BY <1>3, <3>1, <3>2 DEF Agree, Live, Gone
    <2>2. Agree(c, r, ord, id)
      <3>1. Live(d, r, ord, id)
        BY <1>8 DEF Exact
      <3> QED
        BY <1>3, <1>4, <1>8, <3>1 DEF Agree, Live
    <2>3. ~c.undefined
      BY <1>3, <1>8 DEF Exact
    <2> QED
      BY <2>1, <2>2, <2>3 DEF AgreeAll
  <1>9. Fair(d, c, ord, id, r, r) /\ Served(d, c, ord, id)
    <2>1. \A x \in DOMAIN ord \ {id} : d.open[x] \in Nat /\ d.open[x] =< d.open[x]
      BY <1>1, <1>2 DEF BookType
    <2>2. \A x \in DOMAIN ord \ {id} : Rests(c, x) => Rests(d, x)
      BY <1>1, <1>4
    <2>3. Fair(d, c, ord, id, r, r)
      <3>1. c.orders \subseteq d.orders \union {id}
        BY <1>3
      <3>2. \A x \in DOMAIN ord \ {id} :
               /\ d.open[x] \in Nat /\ c.open[x] \in Nat /\ c.open[x] =< d.open[x]
               /\ c.open[x] = d.open[x]
        BY <1>3, <2>1
      <3> QED
        BY <1>3, <2>2, <3>1, <3>2 DEF Fair
    <2>4. Served(d, c, ord, id)
      BY <1>3 DEF Served
    <2> QED
      BY <2>3, <2>4
  <1>10. Sorted(d, ord) => Sorted(c, ord) /\ Behind(c, ord, id)
    <2>1. Sided(d, ord)
      BY SidedFacts
    <2> QED
      BY <1>2, <2>1, InsertSorts DEF c
  <1>11. Told(d, ord, R) => Told(c, ord, R)
    BY <1>3 DEF Told, Rep
  <1> QED
    BY <1>5, <1>6, <1>7, <1>8, <1>9, <1>10, <1>11 DEF c, r

\* The match of a new order, and the end of add_order.
LEMMA RestFacts ==
    ASSUME NEW b, NEW ord, NEW id, NEW R, Arriving(b, ord, id, R)
    PROVE  LET m == Match(b, ord, id)
           IN  RestGood(b, Rest(m, ord, id), ord, id, m.book.open[id], R)
PROOF
  <1> DEFINE m == Match(b, ord, id)
             d == m.book
             left == d.open[id]
             aons == m.deferred_aons
             i == Insert(d, ord, id)
             c == Rest(m, ord, id)
             r == Rep(R, ord, b)
             s == Rep(R, ord, d)
  <1> SUFFICES RestGood(b, c, ord, id, left, R)
    OBVIOUS
  <1>1. /\ Objects(ord) /\ id \in DOMAIN ord
        /\ SoundBook(b, ord, id) /\ ~Rests(b, id)
        /\ SoundReports(r, ord)
        /\ b.open[id] = ord[id].qty
    BY DEF Arriving
  <1>2. id \in OrderId /\ ord[id].buy \in BOOLEAN
    BY <1>1, ObjectTerms
  <1>3. MatchGood(b, m, ord, id, R)
    BY <1>1, MatchFacts
  <1>4. c = IF left > 0 /\ ~ord[id].ioc THEN CheckDeferredAons(i, ord, aons) ELSE d
    BY DEF Rest
  <1> HIDE DEF m, c
  <1>5. /\ SoundBook(d, ord, id) /\ SoundReports(s, ord)
        /\ Kept(b, d, ord, id, ToSet(Opposite(b, ord, id)), R)
        /\ aons \in Seq(OrderId) /\ Distinct(aons)
        /\ \A x \in ToSet(aons) : x \in ToSet(Opposite(d, ord, id)) /\ ord[x].aon
        /\ AonPriced /\ Exact(b, r, ord, id) =>
               /\ Exact(d, s, ord, id)
               /\ ord[id].aon => left \in {0, ord[id].qty}
    BY <1>1, <1>3 DEF MatchGood
  <1>6. /\ Fair(b, d, ord, id, r, s) /\ SameOrder(b, d)
        /\ AonPriced /\ Exact(b, r, ord, id) => Served(b, d, ord, id)
    <2>1. /\ Fair(b, d, ord, id, r, s)
          /\ AonPriced /\ Exact(b, r, ord, id) => Served(b, d, ord, id)
      BY <1>1, <1>3, MatchFair
    <2> QED
      BY <1>5, <2>1 DEF Kept, Later
  <1>7. Sided(b, ord) /\ Sided(d, ord)
    BY <1>1, <1>5, SidedFacts
  <1>8. left \in Nat
    BY <1>2, <1>5, SoundOpen
  <1>9. ~Rests(d, id)
    BY <1>1, <1>5 DEF Kept, Rests, Own, Opposite
  <1>10. ASSUME AonPriced, Exact(b, r, ord, id), Sorted(b, ord), Unmatched(b, ord, {})
         PROVE  /\ Unmatched(d, ord, {})
                /\ left # 0 => Unserved(d, ord, id, ToSet(aons))
    <2>1. \A x : Rests(d, x) => Rests(m.book, x) /\ (x = id => ord[id].aon /\ d.open[id] # 0)
      BY <1>9
    <2>2. Unmatched(d, ord, {})
      BY <1>1, <1>3, <1>10, <2>1, MatchUnmatched
    <2> QED
      BY <1>1, <1>3, <1>10, <2>2, MatchUnserved
  <1> HIDE DEF left, d, aons
  <1>13. Told(b, ord, R) => Told(d, ord, R)
    BY <1>5 DEF Kept, Later
  <1>11. CASE left > 0 /\ ~ord[id].ioc
    <2>1. /\ SoundAll(i, ord)
          /\ Opposite(i, ord, id) = Opposite(d, ord, id)
          /\ Rep(R, ord, i) = s
          /\ Told(d, ord, R) => Told(i, ord, R)
          /\ Fair(d, i, ord, id, s, Rep(R, ord, i)) /\ Served(d, i, ord, id)
          /\ Sorted(d, ord) => Sorted(i, ord) /\ Behind(i, ord, id)
          /\ /\ Exact(d, s, ord, id) /\ ~ord[id].ioc
             /\ ord[id].aon => d.open[id] = ord[id].qty
             => AgreeAll(i, Rep(R, ord, i), ord)
      <3>1. d.open[id] > 0
        BY <1>11 DEF left
      <3> QED
        BY <1>1, <1>5, <1>9, <3>1, InsertedFacts
    <2> HIDE DEF i
    <2> DEFINE buy == ~ord[id].buy
    <2>2. \A x \in ToSet(aons) : x \in DOMAIN ord /\ Rests(i, x) /\ ord[x].aon /\ ord[x].buy = buy
      <3>1. ASSUME NEW x \in ToSet(aons) PROVE x \in DOMAIN ord /\ ord[x].buy = buy
        <4>1. x \in DOMAIN ord /\ ord[x].buy # ord[id].buy
          BY <1>1, <1>5, OppositeFacts
        <4>2. ord[x].buy \in BOOLEAN
          BY <1>1, <4>1, ObjectTerms
        <4> QED
          BY <1>2, <4>1, <4>2
      <3>2. ASSUME NEW x \in ToSet(aons) PROVE Rests(i, x) /\ ord[x].aon
        BY <1>5, <2>1 DEF Rests, Opposite
      <3> QED
        BY <3>1, <3>2
    <2>3. c = CheckDeferredAons(i, ord, aons)
      BY <1>4, <1>11
    <2>4. /\ SoundAll(c, ord)
          /\ SoundReports(Rep(R, ord, c), ord)
          /\ SameOrder(i, c) /\ Fair(i, c, ord, id, Rep(R, ord, i), Rep(R, ord, c))
          /\ Told(i, ord, R) => Told(c, ord, R)
          /\ AonPriced /\ AgreeAll(i, Rep(R, ord, i), ord) =>
                 /\ AgreeAll(c, Rep(R, ord, c), ord) /\ Served(i, c, ord, id)
                 /\ Sorted(i, ord) /\ Unmatched(i, ord, ToSet(aons)) => Unmatched(c, ord, {})
      <3>1. buy \in BOOLEAN /\ SoundReports(Rep(R, ord, i), ord)
        BY <1>5, <2>1
      <3> HIDE DEF buy
      <3> QED
        BY <1>1, <1>5, <2>1, <2>2, <2>3, <3>1, CheckFacts
    <2>5. Fair(b, i, ord, id, r, Rep(R, ord, i)) /\ Fair(b, c, ord, id, r, Rep(R, ord, c))
      BY <1>6, <2>1, <2>4, FairTransitive
    <2>6. ASSUME AonPriced, Exact(b, r, ord, id)
          PROVE  /\ AgreeAll(c, Rep(R, ord, c), ord) /\ Served(b, c, ord, id)
                 /\ Clears(b, c, ord)
      <3>1. Exact(d, s, ord, id) /\ (ord[id].aon => d.open[id] = ord[id].qty)
        BY <1>5, <1>11, <2>6 DEF left
      <3>2. AgreeAll(i, Rep(R, ord, i), ord)
        BY <1>11, <2>1, <3>1
      <3>3. AgreeAll(c, Rep(R, ord, c), ord) /\ Served(i, c, ord, id)
        BY <2>4, <2>6, <3>2
      <3>4. \A x \in DOMAIN ord \ {id} : x \in d.orders => Rests(d, x)
        BY <3>1, ExactRests
      <3>5. \A x \in DOMAIN ord \ {id} : x \in i.orders => Rests(i, x)
        BY <3>2, AgreeRests DEF AgreeAll
      <3>6. Served(b, i, ord, id)
        BY <1>6, <1>7, <2>1, <2>6, <3>4, ServedTransitive
      <3>7. Sided(i, ord)
        BY <2>1, SidedFacts
      <3>8. Served(b, c, ord, id)
        BY <1>7, <2>4, <2>5, <3>3, <3>5, <3>6, <3>7, ServedTransitive
      <3>9. ASSUME Sorted(b, ord), Unmatched(b, ord, {}) PROVE Unmatched(c, ord, {})
        <4>1. Unmatched(d, ord, {}) /\ Unserved(d, ord, id, ToSet(aons))
          BY <1>8, <1>10, <1>11, <2>6, <3>9
        <4>2. Unmatched(i, ord, ToSet(aons))
          BY <1>1, <1>5, <1>9, <4>1, InsertedUnmatched DEF i
        <4>3. Sorted(i, ord)
          BY <1>6, <2>1, <3>9, SortedKept
        <4> QED
          BY <2>4, <2>6, <3>2, <4>2, <4>3
      <3> QED
        BY <3>3, <3>8, <3>9 DEF Clears
    <2>7. ASSUME Sorted(b, ord) PROVE Sorted(c, ord) /\ Behind(c, ord, id)
      <3>1. Sorted(i, ord) /\ Behind(i, ord, id)
        BY <1>6, <2>1, <2>7, SortedKept
      <3> QED
        BY <2>4, <3>1, SortedKept
    <2>8. Told(b, ord, R) => Told(c, ord, R)
      BY <1>13, <2>1, <2>4
    <2> QED
      BY <1>8, <1>11, <2>4, <2>5, <2>6, <2>7, <2>8 DEF RestGood, r
  <1>12. CASE ~(left > 0 /\ ~ord[id].ioc)
    <2>1. c = d
      BY <1>4, <1>12
    <2>2. Behind(d, ord, id)
      BY <1>9, <1>7, SideAhead DEF Behind
    <2>3. Sorted(b, ord) => Sorted(d, ord)
      BY <1>6, SortedKept
    <2>4. AonPriced /\ Exact(b, r, ord, id) => Clears(b, d, ord)
      BY <1>10 DEF Clears
    <2>5. \A cb \in ToSet(d.callbacks) :
             cb \in ToSet(b.callbacks) \/ (cb.type = "timeout" <=> cb.order # id)
      BY <1>5 DEF Kept
    <2> QED
      BY <1>5, <1>8, <1>9, <1>12, <1>6, <1>13, <2>1, <2>2, <2>3, <2>4, <2>5
         DEF RestGood, left, r, s
  <1> QED
    BY <1>11, <1>12

\* What the listener has been told when the order id is accepted.
AcceptedReports(R, ord, id) == [R EXCEPT ![id] = Accepted(@, ord[id].qty)]

\* What add makes of the book b and of the reports R.
AddGood(b, c, ord, id, R) ==
    /\ SoundAll(c, ord)
    /\ SoundReports(Rep(R, ord, c), ord)
    /\ AonPriced /\ ~b.undefined /\ (\A x \in DOMAIN ord \ {id} : Agree(b, R, ord, x)) =>
           AgreeAll(c, Rep(R, ord, c), ord) /\ Served(b, c, ord, id) /\ Clears(b, c, ord)
    /\ Fair(b, c, ord, id, R, Rep(R, ord, c))
    /\ Sorted(b, ord) => Sorted(c, ord) /\ Behind(c, ord, id)

\* The accept in front of the other callbacks.
LEMMA AcceptFirst ==
    ASSUME NEW ord, NEW id \in OrderId, ord[id].qty \in Nat, NEW cbs \in Seq(Callback),
           NEW left \in Nat, NEW R
    PROVE  LET accept == [type |-> "accept", order |-> id, quantity |-> ord[id].qty - left]
           IN  /\ accept \in Callback
               /\ <<accept>> \o cbs \in Seq(Callback)
               /\ Deliver(R, ord, <<accept>> \o cbs) = Deliver(AcceptedReports(R, ord, id), ord, cbs)
PROOF
  <1> DEFINE accept == [type |-> "accept", order |-> id, quantity |-> ord[id].qty - left]
  <1>1. accept \in Callback
    BY DEF Callback
  <1>2. Write(R, ord, accept) = AcceptedReports(R, ord, id)
    BY DEF Write, AcceptedReports
  <1> HIDE DEF accept
  <1>3. <<accept>> \o cbs \in Seq(Callback)
    BY <1>1
  <1>4. Deliver(R, ord, <<accept>> \o cbs) = Deliver(Write(R, ord, accept), ord, cbs)
    BY <1>1, DeliverPrepend
  <1> QED
    BY <1>1, <1>2, <1>3, <1>4 DEF accept

\* Another list of callbacks.
LEMMA CallbacksFacts ==
    ASSUME NEW d \in BookType, NEW cbs \in Seq(Callback)
    PROVE  LET c == [d EXCEPT !.callbacks = cbs]
           IN  /\ c \in BookType /\ c.callbacks = cbs
               /\ c.orders = d.orders /\ c.bids = d.bids /\ c.asks = d.asks /\ c.open = d.open
               /\ c.undefined = d.undefined
  BY DEF BookType

\* From b to c only id changes, and no side.
OwnChange(b, c, ord, id) ==
    /\ c.bids = b.bids /\ c.asks = b.asks
    /\ c.orders \subseteq b.orders \union {id}
    /\ \A x \in DOMAIN ord \ {id} : c.open[x] = b.open[x]

\* That serves both sides in order, and keeps their order.
LEMMA OwnChangeFair ==
    ASSUME NEW b \in BookType, NEW c, NEW ord, Objects(ord), NEW id, NEW r, NEW s,
           OwnChange(b, c, ord, id), Sided(b, ord),
           \A x \in DOMAIN ord \ {id} : s[x] = r[x]
    PROVE  /\ Fair(b, c, ord, id, r, s)
           /\ Sided(c, ord)
           /\ Sorted(b, ord) => Sorted(c, ord)
           /\ Behind(b, ord, id) => Behind(c, ord, id)
PROOF
  <1>1. /\ c.bids = b.bids /\ c.asks = b.asks
        /\ c.orders \subseteq b.orders \union {id}
        /\ \A x \in DOMAIN ord \ {id} : c.open[x] = b.open[x]
    BY DEF OwnChange
  <1>2. SameOrder(b, c)
    BY <1>1 DEF SameOrder
  <1>3. Sided(c, ord)
    BY <1>1 DEF Sided
  <1>4. \A x \in DOMAIN ord \ {id} : b.open[x] \in Nat
    BY DEF BookType, Objects
  <1>5. \A x : Rests(c, x) => Rests(b, x)
    BY <1>1 DEF Rests
  <1>6. OthersInOrder(b, c, id)
    BY <1>1 DEF OthersInOrder
  <1>7. Fair(b, c, ord, id, r, s)
    BY <1>1, <1>4, <1>5, <1>6 DEF Fair
  <1> QED
    BY <1>2, <1>3, <1>7, SortedKept

\* That makes nothing possible, unless what id has left has changed as it rests.
LEMMA OwnChangeUnmatched ==
    ASSUME NEW b \in BookType, NEW c, NEW ord, Objects(ord), NEW id,
           OwnChange(b, c, ord, id), Sided(b, ord), Rests(b, id) => c.open[id] = b.open[id],
           NEW A, Unmatched(b, ord, A)
    PROVE  Unmatched(c, ord, A)
PROOF
  <1>1. /\ b.bids \in Seq(OrderId) /\ b.asks \in Seq(OrderId) /\ b.open \in [OrderId -> Nat]
        /\ DOMAIN ord \subseteq OrderId
    BY DEF BookType, Objects
  <1>2. \A x : Rests(b, x) => x \in DOMAIN ord /\ b.open[x] \in Nat
    BY <1>1 DEF Sided, Rests
  <1>3. ASSUME NEW x, Rests(c, x) PROVE Rests(b, x) /\ c.open[x] = b.open[x]
    BY <1>2, <1>3 DEF OwnChange, Rests
  <1> QED
    BY <1>1, <1>2, <1>3, UnmatchedKept

\* Before and after what serves the sides in order, it makes no difference.
LEMMA ServedAround ==
    ASSUME NEW a, NEW b, NEW c, NEW d, NEW ord, NEW id, Sided(a, ord),
           OwnChange(a, b, ord, id), Served(b, c, ord, id), OwnChange(c, d, ord, id)
    PROVE  Served(a, d, ord, id)
PROOF
  <1> SUFFICES ASSUME NEW x, NEW y, x # id, y # id,
                      Ahead(a.bids, x, y) \/ Ahead(a.asks, x, y),
                      ~ord[x].aon, ord[x].price # Market, ~ord[y].aon,
                      d.open[y] # a.open[y]
               PROVE  x \notin d.orders
    BY DEF Served
  <1>1. y \in DOMAIN ord
    BY SideAhead
  <1>2. c.open[y] # b.open[y]
    BY <1>1 DEF OwnChange
  <1>3. Ahead(b.bids, x, y) \/ Ahead(b.asks, x, y)
    BY DEF OwnChange
  <1>4. x \notin c.orders
    BY <1>2, <1>3 DEF Served
  <1> QED
    BY <1>4 DEF OwnChange

\* The accept of an order that is matched, and the cancel of what is left.
LEMMA AcceptFacts ==
    ASSUME NEW b, NEW ord, NEW id, Objects(ord), id \in DOMAIN ord, Sided(b, ord), NEW R,
           NEW d, NEW left, RestGood(b, d, ord, id, left, AcceptedReports(R, ord, id))
    PROVE  LET c == Accept(d, ord, id, left)
               P == AcceptedReports(R, ord, id)
           IN  /\ SoundAll(c, ord)
               /\ SoundReports(Rep(R, ord, c), ord)
               /\ Fair(b, c, ord, id, Rep(P, ord, b), Rep(R, ord, c))
               /\ Sorted(b, ord) => Sorted(c, ord) /\ Behind(c, ord, id)
               /\ AonPriced /\ Exact(b, Rep(P, ord, b), ord, id) =>
                      AgreeAll(c, Rep(R, ord, c), ord) /\ Served(b, c, ord, id) /\ Clears(b, c, ord)
PROOF
  <1> DEFINE accept == [type |-> "accept", order |-> id, quantity |-> ord[id].qty - left]
             cancel == [type |-> "cancel", order |-> id, quantity |-> ord[id].qty]
             P == AcceptedReports(R, ord, id)
             c == Accept(d, ord, id, left)
             s == Rep(P, ord, d)
             cbs == <<accept>> \o d.callbacks
             Start == AonPriced /\ Exact(b, Rep(P, ord, b), ord, id)
             Good == /\ SoundAll(c, ord)
                     /\ SoundReports(Rep(R, ord, c), ord)
                     /\ Start => AgreeAll(c, Rep(R, ord, c), ord)
             Only == /\ OwnChange(d, c, ord, id)
                     /\ Rests(d, id) => c.open[id] = d.open[id]
                     /\ \A x \in DOMAIN ord \ {id} : Rep(R, ord, c)[x] = s[x]
  <1>1. id \in OrderId /\ ord[id].qty \in Nat /\ DOMAIN ord \subseteq OrderId
    BY ObjectTerms DEF Objects
  <1>2. /\ left \in Nat
        /\ SoundReports(s, ord)
        /\ IF left > 0 /\ ~ord[id].ioc
           THEN SoundAll(d, ord) /\ (Start => AgreeAll(d, s, ord))
           ELSE /\ SoundBook(d, ord, id) /\ ~Rests(d, id) /\ d.open[id] = left
                /\ Start => Exact(d, s, ord, id) /\ (ord[id].aon => left \in {0, ord[id].qty})
    BY DEF RestGood
  <1>3. /\ Fair(b, d, ord, id, Rep(P, ord, b), s)
        /\ Sorted(b, ord) => Sorted(d, ord) /\ Behind(d, ord, id)
        /\ Start => Served(b, d, ord, id) /\ Clears(b, d, ord)
    BY DEF RestGood
  <1>4. OwnChange(b, b, ord, id) /\ Sided(d, ord)
    <2>1. SoundAll(d, ord) \/ SoundBook(d, ord, id)
      BY <1>2
    <2> QED
      BY <2>1, SidedFacts DEF OwnChange
  <1>5. d \in BookType /\ d.callbacks \in Seq(Callback) /\ d.open \in [OrderId -> Nat]
    <2>1. d \in BookType
      BY <1>2 DEF SoundAll, SoundBook
    <2> QED
      BY <2>1 DEF BookType
  <1>6. /\ cbs \in Seq(Callback)
        /\ Deliver(R, ord, cbs) = Deliver(P, ord, d.callbacks)
    BY <1>1, <1>2, <1>5, AcceptFirst
  <1>7. c = IF ord[id].ioc /\ left > 0
            THEN [d EXCEPT !.callbacks = cbs \o <<cancel>>, !.orders = @ \ {id}, !.open[id] = 0]
            ELSE [d EXCEPT !.callbacks = cbs]
    BY DEF Accept
  <1> HIDE DEF c, P, Start, cbs
  <1>8. ASSUME ~(ord[id].ioc /\ left > 0) PROVE Good /\ Only
    <2>1. /\ c \in BookType /\ c.callbacks = cbs
          /\ c.orders = d.orders /\ c.bids = d.bids /\ c.asks = d.asks /\ c.open = d.open
          /\ c.undefined = d.undefined
      BY <1>5, <1>6, <1>7, <1>8, CallbacksFacts
    <2>2. Rep(R, ord, c) = s
      BY <1>6, <2>1 DEF Rep
    <2> HIDE DEF s
    <2>3. \A x : Rests(c, x) <=> Rests(d, x)
      BY <2>1 DEF Rests
    <2>4. ASSUME left > 0 PROVE Good
      <3>1. SoundAll(d, ord) /\ (Start => AgreeAll(d, s, ord))
        BY <1>2, <1>8, <2>4
      <3>2. SoundAll(c, ord)
        BY <2>1, <2>3, <3>1 DEF SoundAll
      <3>3. AgreeAll(d, s, ord) => AgreeAll(c, s, ord)
        BY <2>1, <2>3 DEF AgreeAll, Agree, Live, Gone
      <3> QED
        BY <1>2, <2>2, <3>1, <3>2, <3>3
    <2>5. ASSUME ~(left > 0) PROVE Good
      <3>1. /\ SoundBook(d, ord, id) /\ ~Rests(d, id) /\ ~(d.open[id] > 0)
            /\ Start => Exact(d, s, ord, id)
        BY <1>2, <2>5
      <3>2. SoundAll(c, ord)
        BY <1>1, <2>1, <2>3, <3>1 DEF SoundAll, SoundBook
      <3>3. ASSUME Exact(d, s, ord, id) PROVE AgreeAll(c, s, ord)
        <4>1. ~d.undefined /\ Gone(d, s, ord, id) /\ \A x \in DOMAIN ord \ {id} : Agree(d, s, ord, x)
          BY <3>1, <3>3 DEF Exact
        <4>2. \A x \in DOMAIN ord : Agree(d, s, ord, x)
          BY <3>1, <4>1 DEF Agree
        <4> QED
          BY <2>1, <2>3, <4>1, <4>2 DEF AgreeAll, Agree, Live, Gone
      <3> QED
        BY <1>2, <2>2, <3>1, <3>2, <3>3
    <2>6. Only
      BY <2>1, <2>2 DEF OwnChange
    <2> QED
      BY <2>4, <2>5, <2>6
  <1>9. ASSUME ord[id].ioc /\ left > 0 PROVE Good /\ Only
    <2> DEFINE r == Rep(R, ord, c)
    <2>1. /\ SoundBook(d, ord, id) /\ ~Rests(d, id) /\ d.open[id] = left
          /\ Start => Exact(d, s, ord, id) /\ (ord[id].aon => left \in {0, ord[id].qty})
      BY <1>2, <1>9
    <2>2. cancel \in Callback
      BY <1>1 DEF Callback
    <2>3. cbs \o <<cancel>> = Append(cbs, cancel) /\ Append(cbs, cancel) \in Seq(Callback)
      <3> HIDE DEF cancel
      <3> QED
        BY <1>6, <2>2
    <2>4. c = [d EXCEPT !.callbacks = Append(cbs, cancel), !.orders = @ \ {id}, !.open[id] = 0]
      BY <1>7, <1>9, <2>3
    <2>5. /\ c \in BookType /\ c.callbacks = Append(cbs, cancel) /\ c.orders = d.orders \ {id}
          /\ c.bids = d.bids /\ c.asks = d.asks /\ c.open = [d.open EXCEPT ![id] = 0]
          /\ c.undefined = d.undefined
      <3> DEFINE e == [d EXCEPT !.callbacks = Append(cbs, cancel)]
                 O == d.orders \ {id}
                 open == [d.open EXCEPT ![id] = 0]
                 f == [e EXCEPT !.orders = O]
                 g == [f EXCEPT !.open = open]
      <3>1. /\ e \in BookType /\ e.callbacks = Append(cbs, cancel)
            /\ e.orders = d.orders /\ e.bids = d.bids /\ e.asks = d.asks /\ e.open = d.open
            /\ e.undefined = d.undefined
        BY <1>5, <2>3, CallbacksFacts
      <3>2. c = g
        BY <1>5, <2>4 DEF BookType
      <3>3. O \in SUBSET OrderId /\ open \in [OrderId -> Nat]
        BY <1>5 DEF BookType
      <3> HIDE DEF e, O, open
      <3>4. /\ f \in BookType /\ f.callbacks = e.callbacks
            /\ f.orders = O /\ f.bids = e.bids /\ f.asks = e.asks /\ f.open = e.open
            /\ f.undefined = e.undefined
        BY <3>1, <3>3 DEF BookType
      <3> HIDE DEF f
      <3>5. /\ g \in BookType /\ g.callbacks = f.callbacks
            /\ g.orders = f.orders /\ g.bids = f.bids /\ g.asks = f.asks /\ g.open = open
            /\ g.undefined = f.undefined
        BY <3>3, <3>4 DEF BookType
      <3> HIDE DEF g
      <3> QED
        BY <3>1, <3>2, <3>4, <3>5 DEF O, open
    <2>6. r = Write(s, ord, cancel)
      <3>1. r = Deliver(R, ord, Append(cbs, cancel))
        BY <2>5 DEF Rep
      <3>2. Deliver(R, ord, Append(cbs, cancel)) = Write(Deliver(R, ord, cbs), ord, cancel)
        BY <1>6, <2>2, DeliverAppend
      <3> QED
        BY <1>6, <3>1, <3>2 DEF Rep
    <2>7. s \in [DOMAIN ord -> Report] /\ \A x \in DOMAIN ord : WithinLimit(ord[x], s[x])
      BY <1>2 DEF SoundReports, Reports
    <2> HIDE DEF s, r
    <2>8. r = [s EXCEPT ![id] = Ended(@, "Cancelled")]
      BY <2>6 DEF Write
    <2>9. /\ Ended(s[id], "Cancelled") \in Report
          /\ Ended(s[id], "Cancelled").state = "Cancelled"
          /\ Ended(s[id], "Cancelled").onMarket = 0
          /\ Ended(s[id], "Cancelled").filled = s[id].filled
          /\ Ended(s[id], "Cancelled").cost = s[id].cost
      <3>1. "Cancelled" \in Terminal /\ s[id] \in Report
        BY <2>7 DEF Terminal
      <3> QED
        BY <3>1, EndedFacts
    <2>10. /\ r \in [DOMAIN ord -> Report]
           /\ r[id] = Ended(s[id], "Cancelled") /\ \A x \in DOMAIN ord \ {id} : r[x] = s[x]
      BY <2>7, <2>8, <2>9
    <2>11. SoundReports(r, ord)
      <3>1. \A x \in DOMAIN ord : WithinLimit(ord[x], r[x])
        BY <2>7, <2>9, <2>10 DEF WithinLimit
      <3> QED
        BY <2>10, <3>1 DEF SoundReports, Reports
    <2>12. \A x : Rests(c, x) <=> Rests(d, x)
      BY <2>5 DEF Rests
    <2>13. \A x \in OrderId \ {id} : c.open[x] = d.open[x]
      BY <1>5, <2>5
    <2>14. SoundAll(c, ord)
      BY <1>1, <2>1, <2>5, <2>12, <2>13 DEF SoundAll, SoundBook
    <2>15. ASSUME Start PROVE AgreeAll(c, r, ord)
      <3>1. Exact(d, s, ord, id) /\ (ord[id].aon => left = ord[id].qty)
        BY <1>9, <2>1, <2>15
      <3>2. ASSUME NEW x \in DOMAIN ord \ {id} PROVE Agree(c, r, ord, x)
        <4>1. Agree(d, s, ord, x) /\ x \in OrderId \ {id}
          BY <1>1, <3>1 DEF Exact
        <4> QED
          BY <2>5, <2>10, <2>12, <2>13, <4>1 DEF Agree, Live, Gone
      <3>3. Agree(c, r, ord, id)
        <4>1. Live(d, s, ord, id)
          BY <1>9, <2>1, <3>1 DEF Exact
        <4>2. s[id].filled = ord[id].qty - left
          BY <2>1, <4>1 DEF Live
        <4>3. id \notin c.orders /\ ~Rests(c, id)
          BY <2>1, <2>5, <2>12
        <4>4. s[id].filled # ord[id].qty /\ (ord[id].aon => s[id].filled = 0)
          BY <1>1, <1>2, <1>9, <3>1, <4>2
        <4> QED
          BY <2>9, <2>10, <4>3, <4>4 DEF Agree, Gone, Terminal
      <3>4. ~c.undefined
        BY <2>5, <3>1 DEF Exact
      <3> QED
        BY <3>2, <3>3, <3>4 DEF AgreeAll
    <2>16. OwnChange(d, c, ord, id)
      BY <1>1, <2>5, <2>13 DEF OwnChange
    <2> QED
      BY <2>1, <2>10, <2>11, <2>14, <2>15, <2>16 DEF r
  <1>10. Good /\ Only
    BY <1>8, <1>9
  <1> HIDE DEF s
  <1>11. /\ Fair(d, c, ord, id, s, Rep(R, ord, c))
         /\ Sorted(d, ord) => Sorted(c, ord)
         /\ Behind(d, ord, id) => Behind(c, ord, id)
    BY <1>5, <1>10, <1>4, OwnChangeFair
  <1>12. Fair(b, c, ord, id, Rep(P, ord, b), Rep(R, ord, c))
    BY <1>11, <1>3, FairTransitive
  <1>13. Start => Served(b, c, ord, id)
    BY <1>10, <1>3, <1>4, ServedAround
  <1>14. Start => Clears(b, c, ord)
    <2>1. Unmatched(d, ord, {}) => Unmatched(c, ord, {})
      BY <1>4, <1>5, <1>10, OwnChangeUnmatched
    <2> QED
      BY <1>3, <2>1 DEF Clears
  <1> QED
    BY <1>10, <1>11, <1>12, <1>13, <1>14, <1>3 DEF Start, P, c

\* A new order is in the registry, with its whole quantity open.
Registered(b, ord, id) == [b EXCEPT !.orders = @ \union {id}, !.open[id] = ord[id].qty]

\* That is where its match starts.
LEMMA ArrivingFacts ==
    ASSUME NEW ord, Objects(ord), NEW id \in DOMAIN ord, ord[id].qty # 0,
           NEW b, SoundAll(b, ord), id \notin b.orders, b.callbacks = << >>,
           NEW R, SoundReports(R, ord), R[id] = Unreported
    PROVE  LET P == AcceptedReports(R, ord, id)
               c == Registered(b, ord, id)
           IN  /\ Arriving(c, ord, id, P)
               /\ OwnChange(b, c, ord, id)
               /\ \A x \in DOMAIN ord \ {id} : Rep(P, ord, c)[x] = R[x]
               /\ ~b.undefined /\ (\A x \in DOMAIN ord \ {id} : Agree(b, R, ord, x)) =>
                      Exact(c, Rep(P, ord, c), ord, id) /\ Told(c, ord, P)
PROOF
  <1> DEFINE P == AcceptedReports(R, ord, id)
             c == Registered(b, ord, id)
             q == ord[id].qty
  <1>1. id \in OrderId /\ q \in Nat /\ q > 0 /\ DOMAIN ord \subseteq OrderId
    BY ObjectTerms DEF Objects
  <1>2. b \in BookType /\ ~Rests(b, id) /\ b.open \in [OrderId -> Nat]
    <2>1. b \in BookType
      BY DEF SoundAll
    <2> QED
      BY <1>1, <2>1 DEF SoundAll, BookType
  <1>3. /\ c \in BookType /\ c.callbacks = << >> /\ c.orders = b.orders \union {id}
        /\ c.bids = b.bids /\ c.asks = b.asks /\ c.open = [b.open EXCEPT ![id] = q]
        /\ c.undefined = b.undefined
    <2> DEFINE O == b.orders \union {id}
               open == [b.open EXCEPT ![id] = q]
               f == [b EXCEPT !.orders = O]
               g == [f EXCEPT !.open = open]
    <2>1. c = g
      BY <1>2 DEF Registered, BookType
    <2>2. O \in SUBSET OrderId /\ open \in [OrderId -> Nat]
      BY <1>1, <1>2 DEF BookType
    <2> HIDE DEF O, open
    <2>3. /\ f \in BookType /\ f.callbacks = b.callbacks
          /\ f.orders = O /\ f.bids = b.bids /\ f.asks = b.asks /\ f.open = b.open
          /\ f.undefined = b.undefined
      BY <1>2, <2>2 DEF BookType
    <2> HIDE DEF f
    <2>4. /\ g \in BookType /\ g.callbacks = f.callbacks
          /\ g.orders = f.orders /\ g.bids = f.bids /\ g.asks = f.asks /\ g.open = open
          /\ g.undefined = f.undefined
      BY <2>2, <2>3 DEF BookType
    <2> HIDE DEF g, c
    <2> QED
      BY <2>1, <2>3, <2>4 DEF O, open
  <1> HIDE DEF c
  <1>4. /\ c.open[id] = q /\ \A x \in OrderId \ {id} : c.open[x] = b.open[x]
        /\ \A x : Rests(c, x) <=> Rests(b, x)
    BY <1>1, <1>2, <1>3 DEF Rests
  <1>5. SoundBook(c, ord, id)
    BY <1>1, <1>3, <1>4 DEF SoundAll, SoundBook
  <1>6. Rep(P, ord, c) = P
    BY <1>3, DeliverNothing DEF Rep
  <1>7. R \in [DOMAIN ord -> Report] /\ \A x \in DOMAIN ord : WithinLimit(ord[x], R[x])
    BY DEF SoundReports, Reports
  <1>8. /\ Accepted(R[id], q) \in Report
        /\ Accepted(R[id], q).state = "Accepted" /\ Accepted(R[id], q).onMarket = q
        /\ Accepted(R[id], q).filled = 0 /\ Accepted(R[id], q).cost = 0
    <2> DEFINE u == R[id]
               a == [u EXCEPT !.state = "Accepted"]
               e == [a EXCEPT !.onMarket = q]
    <2>1. u \in Report /\ u.filled = 0 /\ u.cost = 0
      BY <1>7 DEF Unreported
    <2>2. Accepted(u, q) = e
      BY DEF Accepted
    <2> HIDE DEF u
    <2>3. a \in Report /\ a.state = "Accepted" /\ a.filled = 0 /\ a.cost = 0
      BY <2>1 DEF Report
    <2> HIDE DEF a
    <2>4. /\ e \in Report /\ e.state = "Accepted" /\ e.onMarket = q
          /\ e.filled = 0 /\ e.cost = 0
      BY <1>1, <2>3 DEF Report
    <2> HIDE DEF e
    <2> QED
      BY <2>2, <2>4 DEF u
  <1>9. /\ P \in [DOMAIN ord -> Report] /\ P[id] = Accepted(R[id], q)
        /\ \A x \in DOMAIN ord \ {id} : P[x] = R[x]
    BY <1>7, <1>8 DEF AcceptedReports
  <1> HIDE DEF P
  <1>10. SoundReports(P, ord)
    <2>1. WithinLimit(ord[id], P[id])
      <3>1. ord[id].price \in Nat
        BY ObjectTerms
      <3> QED
        BY <1>8, <1>9, <3>1 DEF WithinLimit
    <2> QED
      BY <1>7, <1>9, <2>1 DEF SoundReports, Reports
  <1>11. Arriving(c, ord, id, P)
    BY <1>2, <1>4, <1>5, <1>6, <1>10 DEF Arriving
  <1>12. ASSUME ~b.undefined, \A x \in DOMAIN ord \ {id} : Agree(b, R, ord, x)
         PROVE  Exact(c, P, ord, id) /\ Told(c, ord, P)
    <2>1. ASSUME NEW x \in DOMAIN ord \ {id} PROVE Agree(c, P, ord, x)
      <3>1. Agree(b, R, ord, x) /\ x \in OrderId \ {id}
        BY <1>1, <1>12
      <3> QED
        BY <1>3, <1>4, <1>9, <3>1 DEF Agree, Live, Gone
    <2>2. Live(c, P, ord, id)
      BY <1>1, <1>3, <1>4, <1>8, <1>9 DEF Live
    <2>3. \E h : History(h, c.callbacks, ord, P) /\ h[Len(c.callbacks)] = P
      <3> DEFINE h == [i \in 0..0 |-> P]
      <3>1. h[0] = P /\ Len(c.callbacks) = 0
        BY <1>3
      <3> HIDE DEF h
      <3>2. History(h, c.callbacks, ord, P)
        BY <3>1 DEF History
      <3> QED
        BY <3>1, <3>2
    <2>4. ASSUME NEW x \in DOMAIN ord
          PROVE  /\ x \in c.orders <=> x \in Outstanding(P, ord)
                 /\ x \in c.orders => c.open[x] > 0 /\ P[x].onMarket = c.open[x]
      <3>1. CASE x = id
        BY <1>3, <2>2, <3>1 DEF Live, Outstanding
      <3>2. CASE x # id
        <4>1. Agree(c, P, ord, x)
          BY <2>1, <3>2
        <4> QED
          BY <4>1 DEF Agree, Live, Gone, Outstanding, Terminal
      <3> QED
        BY <3>1, <3>2
    <2>5. c.orders \subseteq DOMAIN ord
      BY <1>5 DEF SoundBook
    <2>6. Told(c, ord, P)
      BY <1>6, <2>3, <2>4, <2>5 DEF Told
    <2> QED
      BY <1>1, <1>3, <1>4, <1>12, <2>1, <2>2, <2>6 DEF Exact
  <1>13. OwnChange(b, c, ord, id)
    BY <1>1, <1>3, <1>4 DEF OwnChange
  <1> QED
    BY <1>6, <1>9, <1>11, <1>12, <1>13 DEF P, c

\* A new order of quantity 0 is rejected.
LEMMA RejectFacts ==
    ASSUME NEW ord, Objects(ord), NEW id \in DOMAIN ord, ord[id].qty = 0,
           NEW b, SoundAll(b, ord), id \notin b.orders, b.callbacks = << >>,
           NEW R, SoundReports(R, ord), R[id] = Unreported
    PROVE  AddGood(b, Queue(b, [type |-> "reject", order |-> id]), ord, id, R)
PROOF
  <1> DEFINE cb == [type |-> "reject", order |-> id]
             c == Queue(b, cb)
             r == Rep(R, ord, c)
  <1>1. id \in OrderId /\ DOMAIN ord \subseteq OrderId
    BY ObjectTerms DEF Objects
  <1>2. b \in BookType /\ ~Rests(b, id)
    BY <1>1 DEF SoundAll
  <1>3. cb \in Callback
    BY <1>1 DEF Callback
  <1>4. Write(R, ord, cb) = [R EXCEPT ![id] = Ended(@, "Rejected")]
    BY DEF Write
  <1> HIDE DEF cb
  <1>5. /\ c \in BookType
        /\ c.orders = b.orders /\ c.bids = b.bids /\ c.asks = b.asks /\ c.open = b.open
        /\ c.callbacks = Append(b.callbacks, cb) /\ c.undefined = b.undefined
    BY <1>2, <1>3, QueueFacts
  <1> HIDE DEF c
  <1>6. r = Write(R, ord, cb)
    <2> DEFINE none == << >>
    <2>1. none \in Seq(Callback) /\ none = b.callbacks
      OBVIOUS
    <2>2. Deliver(R, ord, none) = R
      BY DeliverNothing
    <2> HIDE DEF none
    <2>3. Deliver(R, ord, Append(none, cb)) = Write(Deliver(R, ord, none), ord, cb)
      BY <1>3, <2>1, DeliverAppend
    <2> QED
      BY <1>5, <2>1, <2>2, <2>3 DEF Rep
  <1>7. R \in [DOMAIN ord -> Report] /\ \A x \in DOMAIN ord : WithinLimit(ord[x], R[x])
    BY DEF SoundReports, Reports
  <1>8. /\ Ended(R[id], "Rejected") \in Report
        /\ Ended(R[id], "Rejected").state = "Rejected"
        /\ Ended(R[id], "Rejected").onMarket = 0
        /\ Ended(R[id], "Rejected").filled = R[id].filled
        /\ Ended(R[id], "Rejected").cost = R[id].cost
    <2>1. "Rejected" \in Terminal /\ R[id] \in Report
      BY <1>7 DEF Terminal
    <2> QED
      BY <2>1, EndedFacts
  <1> HIDE DEF r
  <1>9. /\ r \in [DOMAIN ord -> Report] /\ r[id] = Ended(R[id], "Rejected")
        /\ \A x \in DOMAIN ord \ {id} : r[x] = R[x]
    BY <1>4, <1>6, <1>7, <1>8
  <1>10. SoundReports(r, ord)
    <2>1. \A x \in DOMAIN ord : WithinLimit(ord[x], r[x])
      BY <1>7, <1>8, <1>9 DEF WithinLimit
    <2> QED
      BY <1>9, <2>1 DEF SoundReports, Reports
  <1>11. \A x : Rests(c, x) <=> Rests(b, x)
    BY <1>5 DEF Rests
  <1>12. SoundAll(c, ord)
    BY <1>5, <1>11 DEF SoundAll
  <1>13. ASSUME ~b.undefined, \A x \in DOMAIN ord \ {id} : Agree(b, R, ord, x)
         PROVE  AgreeAll(c, r, ord)
    <2>1. ASSUME NEW x \in DOMAIN ord \ {id} PROVE Agree(c, r, ord, x)
      <3>1. Agree(b, R, ord, x)
        BY <1>13
      <3> QED
        BY <1>5, <1>9, <1>11, <3>1 DEF Agree, Live, Gone
    <2>2. Agree(c, r, ord, id)
      <3>1. r[id].filled = 0 /\ r[id].state = "Rejected" /\ r[id].onMarket = 0
        BY <1>8, <1>9 DEF Unreported
      <3> QED
        BY <1>2, <1>5, <1>11, <3>1 DEF Agree, Gone, Terminal
    <2> QED
      BY <1>5, <1>13, <2>1, <2>2 DEF AgreeAll
  <1>14. OwnChange(b, c, ord, id) /\ OwnChange(b, b, ord, id) /\ Sided(b, ord)
    BY <1>5, SidedFacts DEF OwnChange
  <1>15. Served(b, c, ord, id)
    <2>1. Served(b, b, ord, id)
      BY DEF Served
    <2> QED
      BY <1>14, <2>1, ServedAround
  <1>16. Behind(b, ord, id)
    BY <1>2, <1>14, SideAhead DEF Behind
  <1>17. /\ Fair(b, c, ord, id, R, r)
         /\ Sorted(b, ord) => Sorted(c, ord)
         /\ Behind(c, ord, id)
    BY <1>2, <1>9, <1>14, <1>16, OwnChangeFair
  <1>18. Clears(b, c, ord)
    BY <1>2, <1>14, OwnChangeUnmatched DEF Clears
  <1>19. AddGood(b, c, ord, id, R)
    BY <1>10, <1>12, <1>13, <1>15, <1>17, <1>18 DEF AddGood, r
  <1> QED
    BY <1>19 DEF c, cb

\* OrderBook::add.
LEMMA AddFacts ==
    ASSUME NEW ord, Objects(ord), NEW id \in DOMAIN ord,
           NEW b, SoundAll(b, ord), id \notin b.orders, b.callbacks = << >>,
           NEW R, SoundReports(R, ord), R[id] = Unreported
    PROVE  AddGood(b, AddTo(b, ord, id), ord, id, R)
PROOF
  <1>1. CASE ord[id].qty = 0
    BY <1>1, RejectFacts DEF AddTo
  <1>2. CASE ord[id].qty # 0
    <2> DEFINE P == AcceptedReports(R, ord, id)
               c == Registered(b, ord, id)
               m == Match(c, ord, id)
               left == m.book.open[id]
               d == Rest(m, ord, id)
               a == Accept(d, ord, id, left)
    <2>1. AddTo(b, ord, id) = a
      BY <1>2 DEF AddTo, Registered
    <2>2. /\ Arriving(c, ord, id, P)
          /\ OwnChange(b, c, ord, id)
          /\ \A x \in DOMAIN ord \ {id} : Rep(P, ord, c)[x] = R[x]
          /\ ~b.undefined /\ (\A x \in DOMAIN ord \ {id} : Agree(b, R, ord, x)) =>
                 Exact(c, Rep(P, ord, c), ord, id)
      BY <1>2, ArrivingFacts
    <2> DEFINE p == Rep(P, ord, c)
               Start == /\ AonPriced /\ ~b.undefined
                        /\ \A x \in DOMAIN ord \ {id} : Agree(b, R, ord, x)
    <2>3. b \in BookType /\ Sided(b, ord)
      BY SidedFacts DEF SoundAll
    <2> HIDE DEF c, P, p
    <2>4. /\ Fair(b, c, ord, id, R, p)
          /\ Sided(c, ord)
          /\ Sorted(b, ord) => Sorted(c, ord)
      BY <2>2, <2>3, OwnChangeFair DEF p
    <2>5. RestGood(c, d, ord, id, left, P)
      BY <2>2, RestFacts
    <2> HIDE DEF m, left, d
    <2>6. /\ SoundAll(a, ord)
          /\ SoundReports(Rep(R, ord, a), ord)
          /\ Fair(c, a, ord, id, p, Rep(R, ord, a))
          /\ Sorted(c, ord) => Sorted(a, ord) /\ Behind(a, ord, id)
          /\ AonPriced /\ Exact(c, p, ord, id) =>
                 AgreeAll(a, Rep(R, ord, a), ord) /\ Served(c, a, ord, id) /\ Clears(c, a, ord)
      BY <2>4, <2>5, AcceptFacts DEF P, p
    <2> HIDE DEF a
    <2>7. Fair(b, a, ord, id, R, Rep(R, ord, a))
      BY <2>4, <2>6, FairTransitive
    <2>8. ASSUME Start
          PROVE  AgreeAll(a, Rep(R, ord, a), ord) /\ Served(b, a, ord, id) /\ Clears(b, a, ord)
      <3>1. AgreeAll(a, Rep(R, ord, a), ord) /\ Served(c, a, ord, id) /\ Clears(c, a, ord)
        BY <2>2, <2>6, <2>8 DEF p
      <3>2. OwnChange(a, a, ord, id)
        BY DEF OwnChange
      <3>3. Served(b, a, ord, id)
        BY <2>2, <2>3, <3>1, <3>2, ServedAround
      <3>4. Unmatched(b, ord, {}) => Unmatched(c, ord, {})
        <4>1. ~Rests(b, id)
          BY DEF SoundAll, Objects
        <4> QED
          BY <2>2, <2>3, <4>1, OwnChangeUnmatched
      <3>5. Clears(b, a, ord)
        BY <2>4, <3>1, <3>4 DEF Clears
      <3> QED
        BY <3>1, <3>3, <3>5
    <2> QED
      BY <2>1, <2>4, <2>6, <2>7, <2>8 DEF AddGood
  <1> QED
    BY <1>1, <1>2

-----------------------------------------------------------------------------
(***************************************************************************)
(* The inductive invariant, between the calls.                             *)
(***************************************************************************)

\* A book and what was reported: what rests is registered and open, the
\* reports are within the limits, the sides are sorted, book and reports agree,
\* and nothing that rests could be matched.
StateGood(b, r, ord) ==
    /\ Objects(ord) /\ SoundAll(b, ord) /\ SoundReports(r, ord)
    /\ Sorted(b, ord)
    /\ AonPriced => \A x \in DOMAIN ord : Agree(b, r, ord, x)
    /\ AonPriced => Unmatched(b, ord, {})

\* The inductive invariant.
IInv == TypeOK /\ StateGood(Book, report, order)

\* The state that a call leaves.
LEMMA KeepFacts ==
    ASSUME NEW b, NEW r, NEW ord, StateGood(b, r, ord), Keep(b), order' = ord, report' = r
    PROVE  IInv'
PROOF
  <1>1. /\ Objects(ord) /\ DOMAIN ord \subseteq OrderId
        /\ b \in BookType /\ b.orders \subseteq DOMAIN ord
        /\ Distinct(b.bids) /\ Distinct(b.asks)
        /\ \A x \in ToSet(b.bids) : x \in DOMAIN ord /\ ord[x].buy
        /\ \A x \in ToSet(b.asks) : x \in DOMAIN ord /\ ~ord[x].buy
        /\ \A x \in OrderId : Rests(b, x) => x \in b.orders /\ b.open[x] > 0
        /\ SoundReports(r, ord) /\ Sorted(b, ord)
        /\ AonPriced => \A x \in DOMAIN ord : Agree(b, r, ord, x)
        /\ AonPriced => Unmatched(b, ord, {})
    BY DEF StateGood, SoundAll, Objects
  <1>2. /\ b.orders \in SUBSET OrderId /\ b.bids \in Seq(OrderId) /\ b.asks \in Seq(OrderId)
        /\ b.open \in [OrderId -> Nat] /\ b.price \in Nat
        /\ b.expired \in SUBSET OrderId /\ b.undefined \in BOOLEAN
    BY <1>1 DEF BookType
  <1>3. /\ orders_' = b.orders /\ bids_' = b.bids /\ asks_' = b.asks
        /\ open_qty_' = [x \in OrderId |-> IF Rests(b, x) THEN b.open[x] ELSE 0]
        /\ marketPrice_' = b.price
        /\ expired' = b.expired \intersect b.orders
        /\ undefined' = b.undefined
    BY DEF Keep
  <1>4. open_qty_' \in [OrderId -> Nat] /\ \A x \in OrderId : Rests(b, x) => open_qty_'[x] = b.open[x]
    BY <1>2, <1>3
  <1>5. TypeOK'
    <2>1. DOMAIN order' \subseteq OrderId /\ \A x \in DOMAIN order' : order'[x] \in OrderType
      BY <1>1 DEF Objects
    <2>2. \A x \in OrderId \ Resting' : open_qty_'[x] = 0
      BY <1>3 DEF Rests, Resting
    <2>3. DOMAIN report' = DOMAIN order'
      BY <1>1 DEF SoundReports, Reports
    <2> QED
      BY <1>1, <1>2, <1>3, <1>4, <2>1, <2>2, <2>3 DEF TypeOK
  <1> DEFINE c == Book'
  <1>6. /\ c.orders = b.orders /\ c.bids = b.bids /\ c.asks = b.asks /\ c.open = open_qty_'
        /\ c \in BookType
    <2>1. << >> \in Seq(Callback)
      OBVIOUS
    <2> QED
      BY <1>2, <1>3, <1>4, <2>1 DEF Book, BookType
  <1> HIDE DEF c
  <1>7. \A x : Rests(c, x) <=> Rests(b, x)
    BY <1>6 DEF Rests
  <1>8. SoundAll(c, ord)
    BY <1>1, <1>4, <1>6, <1>7 DEF SoundAll
  <1>9. ASSUME AonPriced, NEW x \in DOMAIN ord PROVE Agree(c, r, ord, x)
    <2>1. Agree(b, r, ord, x) /\ x \in OrderId
      BY <1>1, <1>9
    <2>2. Rests(b, x) => c.open[x] = b.open[x]
      BY <1>4, <1>6, <2>1
    <2> QED
      BY <1>6, <1>7, <2>1, <2>2 DEF Agree, Live, Gone
  <1>10. Sorted(c, ord)
    BY <1>1, <1>6 DEF Sorted
  <1>11. ASSUME AonPriced PROVE Unmatched(c, ord, {})
    <2>1. \A x : Rests(b, x) => x \in OrderId /\ b.open[x] \in Nat
      BY <1>2 DEF Rests, ToSet
    <2>2. ASSUME NEW x, Rests(c, x) PROVE Rests(b, x) /\ c.open[x] = b.open[x]
      BY <1>4, <1>6, <1>7, <2>1, <2>2
    <2> QED
      BY <1>1, <1>2, <1>11, <2>1, <2>2, UnmatchedKept
  <1>12. StateGood(c, report', order')
    BY <1>1, <1>8, <1>9, <1>10, <1>11 DEF StateGood
  <1> QED
    BY <1>5, <1>12 DEF IInv, c

\* ord and r are the orders of the registry, as they were, and an order id.
Submitted(ord, r, id, terms, s) ==
    /\ Objects(ord) /\ SoundReports(r, ord)
    /\ DOMAIN ord = orders_ \union {id} /\ ord[id] = terms /\ r[id] = s
    /\ \A x \in orders_ \ {id} : ord[x] = order[x] /\ r[x] = report[x]

\* The orders of a call are the registered ones and its own.
LEMMA WithFacts ==
    ASSUME IInv, NEW id \in OrderId, NEW terms \in OrderType,
           NEW s \in Report, WithinLimit(terms, s)
    PROVE  Submitted(With(order, id, terms), With(report, id, s), id, terms, s)
PROOF
  <1> DEFINE ord == With(order, id, terms)
             r == With(report, id, s)
  <1>1. /\ orders_ \subseteq DOMAIN order /\ DOMAIN order \subseteq OrderId
        /\ \A x \in DOMAIN order : order[x] \in OrderType
    BY DEF IInv, TypeOK
  <1>2. report \in [DOMAIN order -> Report] /\ \A x \in DOMAIN order : WithinLimit(order[x], report[x])
    BY DEF IInv, StateGood, SoundReports, Reports
  <1>3. /\ DOMAIN ord = orders_ \union {id} /\ ord[id] = terms
        /\ \A x \in orders_ \ {id} : ord[x] = order[x]
    BY DEF With
  <1>4. /\ DOMAIN r = orders_ \union {id} /\ r[id] = s
        /\ \A x \in orders_ \ {id} : r[x] = report[x]
    BY DEF With
  <1>5. Objects(ord)
    <2>1. ord \in [orders_ \union {id} -> OrderType]
      BY <1>1 DEF With
    <2> QED
      BY <1>1, <1>3, <2>1 DEF Objects
  <1>6. r \in [orders_ \union {id} -> Report]
    BY <1>1, <1>2 DEF With
  <1> HIDE DEF ord, r
  <1>7. SoundReports(r, ord)
    <2>1. ASSUME NEW x \in orders_ \union {id} PROVE WithinLimit(ord[x], r[x])
      BY <1>1, <1>2, <1>3, <1>4, <2>1
    <2> QED
      BY <1>3, <1>6, <2>1 DEF SoundReports, Reports
  <1> QED
    BY <1>3, <1>4, <1>5, <1>7 DEF ord, r, Submitted

\* The book that add starts from: the one of the state, without id.
Without(b, id) ==
    /\ b \in BookType /\ b.callbacks = << >> /\ ~b.undefined
    /\ b.orders = orders_ \ {id} /\ b.open = open_qty_
    /\ Distinct(b.bids) /\ Distinct(b.asks) /\ SameOrder(Book, b)
    /\ ToSet(b.bids) = ToSet(bids_) \ {id}
    /\ ToSet(b.asks) = ToSet(asks_) \ {id}

\* What add makes of it.
NewGood(b, c, ord, id, terms, R) ==
    /\ StateGood(c, Rep(R, ord, c), ord)
    /\ SoundAll(b, ord)
    /\ Fair(b, c, ord, id, R, Rep(R, ord, c))
    /\ AonPriced => \A x \in DOMAIN ord \ {id} : Agree(b, R, ord, x)
    /\ AonPriced => Served(b, c, ord, id)
    /\ Behind(c, ord, id)
    /\ Submitted(ord, R, id, terms, Unreported)

\* Add, and the second half of Replace.
LEMMA NewOrder ==
    ASSUME IInv, NEW id \in OrderId, NEW terms \in OrderType, NEW b, Without(b, id)
    PROVE  LET ord == With(order, id, terms)
               c == AddTo(b, ord, id)
           IN  NewGood(b, c, ord, id, terms, With(report, id, Unreported))
PROOF
  <1> DEFINE ord == With(order, id, terms)
             R == With(report, id, Unreported)
             c == AddTo(b, ord, id)
  <1>1. Unreported \in Report /\ WithinLimit(terms, Unreported)
    <2>1. terms.price \in Nat
      BY TypeAssumption DEF Terms
    <2>2. Unreported \in Report
      BY DEF Unreported, Report
    <2> QED
      BY <2>1, <2>2 DEF WithinLimit, Unreported
  <1>2. Submitted(ord, R, id, terms, Unreported)
    BY <1>1, WithFacts
  <1>3. /\ Objects(ord) /\ SoundReports(R, ord)
        /\ DOMAIN ord = orders_ \union {id} /\ ord[id] = terms /\ R[id] = Unreported
        /\ \A x \in orders_ \ {id} : ord[x] = order[x] /\ R[x] = report[x]
    <2> HIDE DEF ord, R
    <2> QED
      BY <1>2 DEF Submitted
  <1> HIDE DEF ord, R
  <1>4. /\ SoundAll(Book, order) /\ Sorted(Book, order) /\ orders_ \subseteq DOMAIN order /\ DOMAIN order \subseteq OrderId
        /\ AonPriced => \A x \in DOMAIN order : Agree(Book, report, order, x)
        /\ AonPriced => Unmatched(Book, order, {})
        /\ Book.bids = bids_ /\ Book.asks = asks_ /\ Book.orders = orders_ /\ Book.open = open_qty_
    <2>1. orders_ \subseteq DOMAIN order /\ DOMAIN order \subseteq OrderId
      BY DEF IInv, TypeOK
    <2>2. Book.bids = bids_ /\ Book.asks = asks_ /\ Book.orders = orders_ /\ Book.open = open_qty_
      BY DEF Book
    <2> QED
      BY <2>1, <2>2 DEF IInv, StateGood
  <1>5. /\ b \in BookType /\ b.callbacks = << >> /\ ~b.undefined
        /\ b.orders = orders_ \ {id} /\ b.open = open_qty_
        /\ Distinct(b.bids) /\ Distinct(b.asks)
        /\ ToSet(b.bids) = ToSet(bids_) \ {id}
        /\ ToSet(b.asks) = ToSet(asks_) \ {id}
        /\ SameOrder(Book, b)
    BY DEF Without
  <1>6. /\ \A x \in ToSet(bids_) : x \in DOMAIN order /\ order[x].buy
        /\ \A x \in ToSet(asks_) : x \in DOMAIN order /\ ~order[x].buy
        /\ \A x \in OrderId : x \in ToSet(bids_) \union ToSet(asks_) =>
                                  x \in orders_ /\ open_qty_[x] > 0
    BY <1>4 DEF SoundAll, Rests
  <1>7. \A x : Rests(b, x) <=> x # id /\ x \in ToSet(bids_) \union ToSet(asks_)
    BY <1>5 DEF Rests
  <1>8. SoundAll(b, ord)
    <2>1. b.orders \subseteq DOMAIN ord
      BY <1>3, <1>5
    <2>2. ASSUME NEW x \in ToSet(b.bids) PROVE x \in DOMAIN ord /\ ord[x].buy
      <3>1. x \in ToSet(bids_) /\ x # id
        BY <1>5
      <3>2. x \in orders_
        BY <1>4, <1>6, <3>1
      <3> QED
        BY <1>3, <1>6, <3>1, <3>2
    <2>3. ASSUME NEW x \in ToSet(b.asks) PROVE x \in DOMAIN ord /\ ~ord[x].buy
      <3>1. x \in ToSet(asks_) /\ x # id
        BY <1>5
      <3>2. x \in orders_
        BY <1>4, <1>6, <3>1
      <3> QED
        BY <1>3, <1>6, <3>1, <3>2
    <2>4. \A x \in OrderId : Rests(b, x) => x \in b.orders /\ b.open[x] > 0
      BY <1>5, <1>6, <1>7
    <2> QED
      BY <1>5, <2>1, <2>2, <2>3, <2>4 DEF SoundAll
  <1>9. Sorted(b, ord)
    <2>1. Sorted(b, order) /\ Sided(b, ord)
      BY <1>4, <1>5, <1>8, SortedKept, SidedFacts
    <2>2. ASSUME NEW x, NEW y, Ahead(b.bids, x, y) \/ Ahead(b.asks, x, y)
          PROVE  ord[x] = order[x] /\ ord[y] = order[y]
      <3>1. /\ x \in DOMAIN ord /\ y \in DOMAIN ord
            /\ Rests(b, x) /\ Rests(b, y)
        BY <2>1, <2>2, SideAhead
      <3> QED
        BY <1>3, <1>7, <3>1
    <2> QED
      BY <2>1, <2>2 DEF Sorted
  <1>10. AddGood(b, c, ord, id, R)
    BY <1>3, <1>5, <1>8, AddFacts
  <1> HIDE DEF c
  <1>11. /\ SoundAll(c, ord)
         /\ SoundReports(Rep(R, ord, c), ord)
         /\ AonPriced /\ ~b.undefined /\ (\A x \in DOMAIN ord \ {id} : Agree(b, R, ord, x)) =>
                AgreeAll(c, Rep(R, ord, c), ord) /\ Served(b, c, ord, id) /\ Clears(b, c, ord)
         /\ Fair(b, c, ord, id, R, Rep(R, ord, c))
         /\ Sorted(c, ord) /\ Behind(c, ord, id)
    BY <1>9, <1>10 DEF AddGood
  <1>12. ASSUME AonPriced, NEW x \in DOMAIN ord \ {id} PROVE Agree(b, R, ord, x)
    <2>1. x \in orders_ \ {id} /\ x \in DOMAIN order
      BY <1>3, <1>4
    <2>2. Agree(Book, report, order, x)
      BY <1>4, <1>12, <2>1
    <2>3. Rests(b, x) <=> Rests(Book, x)
      BY <1>4, <1>7, <2>1 DEF Rests
    <2>4. ord[x] = order[x] /\ R[x] = report[x]
      BY <1>3, <2>1
    <2> QED
      BY <1>4, <1>5, <2>1, <2>2, <2>3, <2>4 DEF Agree, Live, Gone
  <1>13. ASSUME AonPriced PROVE Unmatched(b, ord, {})
    <2>1. ASSUME NEW x, Rests(Book, x) PROVE x \in OrderId /\ Book.open[x] \in Nat
      BY <1>4, <1>6, <2>1 DEF Rests, IInv, TypeOK
    <2>2. ASSUME NEW x, Rests(b, x)
          PROVE  Rests(Book, x) /\ ord[x] = order[x] /\ b.open[x] = Book.open[x]
      <3>1. Rests(Book, x) /\ x # id
        BY <1>4, <1>7, <2>2 DEF Rests
      <3>2. x \in orders_
        BY <1>4, <1>6, <2>1, <3>1 DEF Rests
      <3> QED
        BY <1>3, <1>4, <1>5, <3>1, <3>2
    <2>3. Book.bids \in Seq(OrderId) /\ Book.asks \in Seq(OrderId)
      BY <1>4 DEF IInv, TypeOK
    <2> QED
      BY <1>4, <1>13, <2>1, <2>2, <2>3, UnmatchedKept
  <1>14. StateGood(c, Rep(R, ord, c), ord)
    BY <1>3, <1>5, <1>9, <1>11, <1>12, <1>13 DEF StateGood, AgreeAll, Clears
  <1>15. NewGood(b, c, ord, id, terms, R)
    BY <1>2, <1>5, <1>8, <1>11, <1>12, <1>14 DEF NewGood
  <1> QED
    BY <1>15 DEF c, ord, R

\* The book of the state.
LEMMA BookFacts ==
    ASSUME IInv
    PROVE  /\ Book \in BookType /\ Book.callbacks = << >>
           /\ Book.orders = orders_ /\ Book.bids = bids_ /\ Book.asks = asks_
           /\ Book.open = open_qty_ /\ Book.expired = expired /\ Book.undefined = undefined
           /\ Distinct(Book.bids) /\ Distinct(Book.asks)
           /\ orders_ \subseteq DOMAIN order /\ DOMAIN order \subseteq OrderId
           /\ \A x \in DOMAIN order : order[x] \in OrderType
           /\ open_qty_ \in [OrderId -> Nat]
           /\ \A x \in ToSet(bids_) : x \in DOMAIN order /\ order[x].buy
           /\ \A x \in ToSet(asks_) : x \in DOMAIN order /\ ~order[x].buy
           /\ \A x \in OrderId : Rests(Book, x) => x \in orders_ /\ open_qty_[x] > 0
           /\ SoundReports(report, order) /\ Sorted(Book, order)
           /\ AonPriced => \A x \in DOMAIN order : Agree(Book, report, order, x)
           /\ AonPriced => Unmatched(Book, order, {})
PROOF
  <1>1. /\ orders_ \subseteq DOMAIN order /\ DOMAIN order \subseteq OrderId
        /\ \A x \in DOMAIN order : order[x] \in OrderType
        /\ open_qty_ \in [OrderId -> Nat]
    BY DEF IInv, TypeOK
  <1>2. /\ SoundAll(Book, order) /\ SoundReports(report, order) /\ Sorted(Book, order)
        /\ AonPriced => \A x \in DOMAIN order : Agree(Book, report, order, x)
        /\ AonPriced => Unmatched(Book, order, {})
    BY DEF IInv, StateGood
  <1>3. /\ Book.callbacks = << >>
        /\ Book.orders = orders_ /\ Book.bids = bids_ /\ Book.asks = asks_
        /\ Book.open = open_qty_ /\ Book.expired = expired /\ Book.undefined = undefined
    BY DEF Book
  <1> QED
    BY <1>1, <1>2, <1>3 DEF SoundAll

\* OrderBook::cancel.
LEMMA CancelFacts ==
    ASSUME IInv, ~undefined, NEW id \in orders_
    PROVE  LET ord == With(order, id, order[id])
               c == CancelIn(Book, id)
           IN  /\ StateGood(c, Deliver(With(report, id, report[id]), ord, c.callbacks), ord)
               /\ Without([c EXCEPT !.callbacks = << >>, !.expired = @ \ {id}], id)
               /\ \A x \in orders_ : Rep(With(report, id, report[id]), ord, c)[x].filled = report[x].filled
PROOF
  <1> DEFINE ord == With(order, id, order[id])
             R == With(report, id, report[id])
             c == CancelIn(Book, id)
             s == Rep(R, ord, c)
             kind == IF id \in expired THEN "timeout" ELSE "cancel"
  <1>1. /\ Book \in BookType /\ Book.callbacks = << >>
        /\ Book.orders = orders_ /\ Book.bids = bids_ /\ Book.asks = asks_
        /\ Book.open = open_qty_ /\ Book.expired = expired /\ ~Book.undefined
        /\ Distinct(Book.bids) /\ Distinct(Book.asks)
        /\ orders_ \subseteq DOMAIN order /\ DOMAIN order \subseteq OrderId
        /\ \A x \in DOMAIN order : order[x] \in OrderType
        /\ open_qty_ \in [OrderId -> Nat]
        /\ \A x \in ToSet(bids_) : x \in DOMAIN order /\ order[x].buy
        /\ \A x \in ToSet(asks_) : x \in DOMAIN order /\ ~order[x].buy
        /\ \A x \in OrderId : Rests(Book, x) => x \in orders_ /\ open_qty_[x] > 0
        /\ SoundReports(report, order) /\ Sorted(Book, order)
        /\ AonPriced => \A x \in DOMAIN order : Agree(Book, report, order, x)
        /\ AonPriced => Unmatched(Book, order, {})
    BY BookFacts
  <1>2. /\ Objects(ord) /\ SoundReports(R, ord)
        /\ DOMAIN ord = orders_ /\ \A x \in orders_ : ord[x] = order[x] /\ R[x] = report[x]
    <2>1. id \in OrderId /\ order[id] \in OrderType
      BY <1>1
    <2>2. report[id] \in Report /\ WithinLimit(order[id], report[id])
      BY <1>1 DEF SoundReports, Reports
    <2>3. Submitted(ord, R, id, order[id], report[id])
      BY <2>1, <2>2, WithFacts
    <2> HIDE DEF ord, R
    <2> QED
      BY <1>1, <2>3 DEF Submitted
  <1> HIDE DEF ord, R
  <1>3. kind \in {"timeout", "cancel"} /\ Leaves(Book, c, id, kind)
    BY <1>1 DEF CancelIn, TimedOut, Leaves
  <1> HIDE DEF c, kind
  <1>4. Rep(R, ord, Book) = R
    BY <1>1, DeliverNothing DEF Rep
  <1> DEFINE B == Book
  <1>5. Left(B, c, ord, id, kind, R, s)
    <2>1. B \in BookType
      BY <1>1
    <2>2. Distinct(B.bids) /\ Distinct(B.asks)
      BY <1>1
    <2>3. id \in DOMAIN ord /\ SoundReports(Rep(R, ord, B), ord) /\ Leaves(B, c, id, kind)
          /\ Rep(R, ord, B) = R
      BY <1>2, <1>3, <1>4
    <2> HIDE DEF B, s
    <2>4. Left(B, c, ord, id, kind, Rep(R, ord, B), Rep(R, ord, c))
      BY <1>2, <1>3, <2>1, <2>2, <2>3, LeavesFacts
    <2> QED
      BY <2>3, <2>4 DEF s
  <1> HIDE DEF B
  <1>6. /\ c \in BookType /\ Distinct(c.bids) /\ Distinct(c.asks)
        /\ ToSet(c.bids) = ToSet(bids_) \ {id}
        /\ ToSet(c.asks) = ToSet(asks_) \ {id}
        /\ c.open = open_qty_ /\ c.orders = orders_ \ {id} /\ ~c.undefined
        /\ SameOrder(B, c)
        /\ SoundReports(s, ord)
        /\ s[id].state = EventOf[kind] /\ s[id].onMarket = 0 /\ s[id].filled = R[id].filled
        /\ \A x \in DOMAIN ord \ {id} : s[x] = R[x]
    BY <1>1, <1>5 DEF Left, B
  <1>7. SameOrder(Book, c)
    BY <1>6 DEF B
  <1> HIDE DEF s
  <1>8. \A x : Rests(c, x) <=> Rests(Book, x) /\ x # id
    BY <1>1, <1>6 DEF Rests
  <1>9. SoundAll(c, ord)
    <2>1. ASSUME NEW x \in OrderId, Rests(c, x) PROVE x \in c.orders /\ c.open[x] > 0
      BY <1>1, <1>6, <1>8, <2>1
    <2>2. ASSUME NEW x \in ToSet(c.bids) PROVE x \in DOMAIN ord /\ ord[x].buy
      <3>1. x \in OrderId /\ x \in ToSet(bids_) /\ Rests(Book, x)
        BY <1>1, <1>6 DEF Rests
      <3> QED
        BY <1>1, <1>2, <3>1
    <2>3. ASSUME NEW x \in ToSet(c.asks) PROVE x \in DOMAIN ord /\ ~ord[x].buy
      <3>1. x \in OrderId /\ x \in ToSet(asks_) /\ Rests(Book, x)
        BY <1>1, <1>6 DEF Rests
      <3> QED
        BY <1>1, <1>2, <3>1
    <2>4. c.orders \subseteq DOMAIN ord
      BY <1>2, <1>6
    <2> QED
      BY <1>6, <2>1, <2>2, <2>3, <2>4 DEF SoundAll
  <1>10. ASSUME AonPriced PROVE \A x \in DOMAIN ord : Agree(c, s, ord, x)
    <2>1. ASSUME NEW x \in DOMAIN ord \ {id} PROVE Agree(c, s, ord, x)
      <3>1. Agree(Book, report, order, x)
        BY <1>1, <1>2, <1>10
      <3>2. ord[x] = order[x] /\ s[x] = report[x]
        BY <1>2, <1>6
      <3> QED
        BY <1>1, <1>6, <1>8, <3>1, <3>2 DEF Agree, Live, Gone
    <2>2. Agree(c, s, ord, id)
      <3>1. Agree(Book, report, order, id) /\ id \in OrderId
        BY <1>1, <1>10
      <3>2. Rests(Book, id)
        BY <1>1, <3>1 DEF Agree, Gone
      <3>3. /\ open_qty_[id] > 0 /\ open_qty_[id] \in Nat
            /\ report[id].filled = order[id].qty - open_qty_[id]
            /\ order[id].aon => open_qty_[id] = order[id].qty
            /\ order[id].qty \in Nat
        <4>1. order[id].qty \in Nat
          BY <1>1, <3>1, TypeAssumption DEF Terms
        <4> QED
          BY <1>1, <3>1, <3>2, <4>1 DEF Agree, Live
      <3>4. s[id].filled = order[id].qty - open_qty_[id] /\ ord[id] = order[id]
        BY <1>2, <1>6, <3>3
      <3>5. s[id].filled # ord[id].qty /\ (ord[id].aon => s[id].filled = 0)
        BY <3>3, <3>4
      <3>6. s[id].state \in Terminal /\ s[id].state # "Filled"
        BY <1>3, <1>6 DEF EventOf, Terminal
      <3> QED
        BY <1>6, <1>8, <3>5, <3>6 DEF Agree, Gone
    <2> QED
      BY <2>1, <2>2
  <1>11. Sorted(c, ord)
    <2>1. Sorted(c, order) /\ Sided(c, ord)
      BY <1>1, <1>7, <1>9, SortedKept, SidedFacts
    <2>2. ASSUME NEW x, NEW y, Ahead(c.bids, x, y) \/ Ahead(c.asks, x, y)
          PROVE  ord[x] = order[x] /\ ord[y] = order[y]
      <3>1. x \in DOMAIN ord /\ y \in DOMAIN ord
        BY <2>1, <2>2, SideAhead
      <3> QED
        BY <1>2, <3>1
    <2> QED
      BY <2>1, <2>2 DEF Sorted
  <1>12. ASSUME AonPriced PROVE Unmatched(c, ord, {})
    <2>1. ASSUME NEW x, Rests(Book, x) PROVE x \in orders_ /\ Book.open[x] \in Nat
      BY <1>1, <2>1 DEF Rests
    <2>2. ASSUME NEW x, Rests(c, x)
          PROVE  Rests(Book, x) /\ ord[x] = order[x] /\ c.open[x] = Book.open[x]
      BY <1>1, <1>2, <1>6, <1>8, <2>1, <2>2
    <2>3. Book.bids \in Seq(OrderId) /\ Book.asks \in Seq(OrderId)
      BY <1>1 DEF BookType
    <2>4. \A x : Rests(c, x) =>
             /\ Rests(Book, x) /\ ord[x] = order[x]
             /\ c.open[x] \in Nat /\ c.open[x] =< Book.open[x]
             /\ order[x].aon => c.open[x] = Book.open[x]
      BY <2>1, <2>2
    <2>5. Unmatched(Book, order, {})
      BY <1>1, <1>12
    <2> QED
      BY <2>1, <2>3, <2>4, <2>5, UnmatchedKept
  <1>13. StateGood(c, Deliver(R, ord, c.callbacks), ord)
    BY <1>2, <1>6, <1>9, <1>10, <1>11, <1>12 DEF StateGood, Rep, s
  <1>14. Without([c EXCEPT !.callbacks = << >>, !.expired = @ \ {id}], id)
    <2> DEFINE none == << >>
               f == [c EXCEPT !.callbacks = none]
               E == c.expired \ {id}
               g == [f EXCEPT !.expired = E]
    <2>1. none \in Seq(Callback) /\ E \in SUBSET OrderId
      BY <1>6 DEF BookType
    <2>2. [c EXCEPT !.callbacks = << >>, !.expired = @ \ {id}] = g
      BY <1>6 DEF BookType
    <2> HIDE DEF none, E
    <2>3. /\ f \in BookType /\ f.callbacks = none
          /\ f.orders = c.orders /\ f.bids = c.bids /\ f.asks = c.asks /\ f.open = c.open
          /\ f.undefined = c.undefined
      BY <1>6, <2>1, CallbacksFacts
    <2> HIDE DEF f
    <2>4. /\ g \in BookType /\ g.callbacks = f.callbacks
          /\ g.orders = f.orders /\ g.bids = f.bids /\ g.asks = f.asks /\ g.open = f.open
          /\ g.undefined = f.undefined
      BY <2>1, <2>3 DEF BookType
    <2> HIDE DEF g
    <2>5. SameOrder(Book, g)
      BY <1>7, <2>3, <2>4 DEF SameOrder
    <2> QED
      BY <1>6, <2>2, <2>3, <2>4, <2>5 DEF Without, none
  <1>15. \A x \in orders_ : s[x].filled = report[x].filled
    BY <1>2, <1>6
  <1> QED
    BY <1>13, <1>14, <1>15 DEF c, ord, R, s

\* Initially nothing is in the book.
LEMMA InitInvariant == Init => IInv
PROOF
  <1> SUFFICES ASSUME Init PROVE IInv
    OBVIOUS
  <1> DEFINE none == << >>
             zero == [x \in OrderId |-> 0]
  <1>1. /\ none \in Seq(OrderId) /\ none \in Seq(Callback) /\ Len(none) = 0 /\ DOMAIN none = {}
        /\ \A S : none \in [{} -> S]
    OBVIOUS
  <1>2. zero \in [OrderId -> Nat] /\ \A x \in OrderId : zero[x] = 0
    OBVIOUS
  <1>3. ToSet(none) = {} /\ Distinct(none)
    BY DEF ToSet, Distinct
  <1>4. /\ order = none /\ orders_ = {} /\ bids_ = none /\ asks_ = none /\ open_qty_ = zero
        /\ marketPrice_ = Market /\ expired = {} /\ report = none /\ undefined = FALSE
    BY DEF Init
  <1> HIDE DEF none, zero
  <1>5. TypeOK
    BY <1>1, <1>2, <1>4 DEF TypeOK, Market
  <1> DEFINE B == Book
  <1>6. /\ B \in BookType
        /\ B.orders = {} /\ B.bids = none /\ B.asks = none
    BY <1>1, <1>2, <1>4 DEF Book, BookType, Market, none
  <1> HIDE DEF B
  <1>7. SoundAll(B, order)
    BY <1>3, <1>6 DEF SoundAll, Rests
  <1>8. Sorted(B, order)
    BY <1>1, <1>6 DEF Sorted, Ahead
  <1>9. /\ Objects(order) /\ SoundReports(report, order)
        /\ \A x \in DOMAIN order : Agree(B, report, order, x)
    BY <1>1, <1>4 DEF Objects, SoundReports, Reports
  <1>10. Unmatched(B, order, {})
    BY <1>3, <1>6 DEF Unmatched, Rests
  <1> QED
    BY <1>5, <1>7, <1>9, <1>8, <1>10 DEF IInv, StateGood, B

\* An id that is not in the registry is not in the book.
LEMMA NewBook ==
    ASSUME IInv, ~undefined, NEW id \in OrderId, id \notin orders_
    PROVE  Without(Book, id)
PROOF
  <1>1. /\ Book \in BookType /\ Book.callbacks = << >>
        /\ Book.orders = orders_ /\ Book.bids = bids_ /\ Book.asks = asks_
        /\ Book.open = open_qty_ /\ ~Book.undefined
        /\ Distinct(Book.bids) /\ Distinct(Book.asks)
        /\ \A x \in OrderId : Rests(Book, x) => x \in orders_
    BY BookFacts
  <1>2. id \notin ToSet(bids_) /\ id \notin ToSet(asks_)
    BY <1>1 DEF Rests
  <1>3. SameOrder(Book, Book)
    BY DEF SameOrder
  <1> QED
    BY <1>1, <1>2, <1>3 DEF Without

\* ADD.
LEMMA AddInvariant ==
    ASSUME IInv, NEW id \in OrderId, NEW terms \in OrderType, Add(id, terms)
    PROVE  IInv'
PROOF
  <1> DEFINE ord == With(order, id, terms)
             b == AddTo(Book, ord, id)
             r == Deliver(With(report, id, Unreported), ord, b.callbacks)
  <1>1. ~undefined /\ id \notin orders_ /\ Keep(b) /\ order' = ord /\ report' = r
    BY DEF Add, Adding
  <1>2. Without(Book, id)
    BY <1>1, NewBook
  <1>3. StateGood(b, r, ord)
    BY <1>2, NewOrder DEF NewGood, Rep
  <1> HIDE DEF b, r, ord
  <1> QED
    BY <1>1, <1>3, KeepFacts

\* CANCEL.
LEMMA CancelInvariant ==
    ASSUME IInv, NEW id \in OrderId, Cancel(id)
    PROVE  IInv'
PROOF
  <1> DEFINE ord == With(order, id, order[id])
             b == CancelIn(Book, id)
             r == Deliver(With(report, id, report[id]), ord, b.callbacks)
  <1>1. ~undefined /\ id \in orders_ /\ Keep(b) /\ order' = ord /\ report' = r
    BY DEF Cancel, Cancelling
  <1>2. StateGood(b, r, ord)
    BY <1>1, CancelFacts
  <1> HIDE DEF b, r, ord
  <1> QED
    BY <1>1, <1>2, KeepFacts

\* MODIFY.
LEMMA ReplaceInvariant ==
    ASSUME IInv, NEW id \in OrderId, NEW terms \in OrderType, Replace(id, terms)
    PROVE  IInv'
PROOF
  <1> DEFINE ord == With(order, id, terms)
             c == CancelIn(Book, id)
             d == [c EXCEPT !.callbacks = << >>, !.expired = @ \ {id}]
             b == AddTo(d, ord, id)
             r == Deliver(With(report, id, Unreported), ord, b.callbacks)
  <1>1. ~undefined /\ id \in orders_ /\ Keep(b) /\ order' = ord /\ report' = r
    BY DEF Replace, Replacing
  <1>2. Without(d, id)
    BY <1>1, CancelFacts
  <1> HIDE DEF d
  <1>3. StateGood(b, r, ord)
    BY <1>2, NewOrder DEF NewGood, Rep
  <1> HIDE DEF b, r, ord
  <1> QED
    BY <1>1, <1>3, KeepFacts

\* A step that changes neither the orders, nor the book, nor the reports.
LEMMA SameBook ==
    ASSUME IInv, UNCHANGED <<order, bookVars, report>>,
           expired' \subseteq orders_, undefined' \in BOOLEAN
    PROVE  IInv'
PROOF
  <1>1. /\ order' = order /\ orders_' = orders_ /\ bids_' = bids_ /\ asks_' = asks_
        /\ open_qty_' = open_qty_ /\ marketPrice_' = marketPrice_ /\ report' = report
    BY DEF bookVars
  <1>2. TypeOK'
    BY <1>1 DEF IInv, TypeOK, Resting
  <1> DEFINE b == Book
             c == Book'
  <1>3. /\ SoundAll(b, order) /\ Objects(order) /\ SoundReports(report, order)
        /\ Sorted(b, order)
        /\ AonPriced => \A x \in DOMAIN order : Agree(b, report, order, x)
        /\ AonPriced => Unmatched(b, order, {})
    BY DEF IInv, StateGood
  <1>4. /\ c \in BookType
        /\ c.orders = b.orders /\ c.bids = b.bids /\ c.asks = b.asks /\ c.open = b.open
    <2>1. << >> \in Seq(Callback)
      OBVIOUS
    <2>2. orders_ \subseteq OrderId
      BY DEF IInv, TypeOK
    <2>3. /\ c.orders = b.orders /\ c.bids = b.bids /\ c.asks = b.asks /\ c.open = b.open
      BY <1>1 DEF Book
    <2>4. c \in BookType
      BY <1>2, <2>1 DEF Book, BookType, TypeOK
    <2> QED
      BY <2>3, <2>4
  <1> HIDE DEF b, c
  <1>5. \A x : Rests(c, x) <=> Rests(b, x)
    BY <1>4 DEF Rests
  <1>6. SoundAll(c, order)
    BY <1>3, <1>4, <1>5 DEF SoundAll
  <1>7. ASSUME NEW x \in DOMAIN order, Agree(b, report, order, x) PROVE Agree(c, report, order, x)
    BY <1>4, <1>5, <1>7 DEF Agree, Live, Gone
  <1>8. Sorted(c, order)
    BY <1>3, <1>4 DEF Sorted
  <1>9. Unmatched(b, order, {}) => Unmatched(c, order, {})
    <2>1. \A x : Supply(c, order, x) = Supply(b, order, x)
      BY <1>4 DEF Supply
    <2>2. \A x, y : Deal(c, order, x, y) <=> Deal(b, order, x, y)
      BY <1>4 DEF Deal
    <2> QED
      BY <1>4, <1>5, <2>1, <2>2 DEF Unmatched
  <1>10. StateGood(c, report', order')
    BY <1>1, <1>3, <1>6, <1>7, <1>8, <1>9 DEF StateGood
  <1> QED
    BY <1>2, <1>10 DEF IInv, c

\* Every step keeps the invariant.
LEMMA StepInvariant == IInv /\ [Next]_vars => IInv'
PROOF
  <1> SUFFICES ASSUME IInv, [Next]_vars PROVE IInv'
    OBVIOUS
  <1>0. expired \subseteq orders_ /\ undefined \in BOOLEAN
    BY DEF IInv, TypeOK
  <1>1. ASSUME NEW id \in OrderId, NEW terms \in OrderType, Add(id, terms) PROVE IInv'
    BY <1>1, AddInvariant
  <1>2. ASSUME NEW id \in OrderId, NEW terms \in OrderType, Replace(id, terms) PROVE IInv'
    BY <1>2, ReplaceInvariant
  <1>3. ASSUME NEW id \in OrderId, Cancel(id) PROVE IInv'
    BY <1>3, CancelInvariant
  <1>4. ASSUME NEW id \in OrderId, ReadFreed(id) PROVE IInv'
    <2>1. UNCHANGED <<order, bookVars, report>> /\ expired' = expired /\ undefined' \in BOOLEAN
      BY <1>4 DEF ReadFreed
    <2> QED
      BY <1>0, <2>1, SameBook
  <1>5. ASSUME NEW id \in OrderId, Expire(id) PROVE IInv'
    <2>1. /\ UNCHANGED <<order, bookVars, report>> /\ expired' \subseteq orders_
          /\ undefined' = undefined
      BY <1>0, <1>5 DEF Expire
    <2> QED
      BY <1>0, <2>1, SameBook
  <1>6. ASSUME UNCHANGED vars PROVE IInv'
    <2>1. UNCHANGED <<order, bookVars, report>> /\ expired' = expired /\ undefined' = undefined
      BY <1>6 DEF vars
    <2> QED
      BY <1>0, <2>1, SameBook
  <1> QED
    BY <1>1, <1>2, <1>3, <1>4, <1>5, <1>6 DEF Next

\* The invariant holds in every state.
LEMMA Invariance == Spec => []IInv
  BY InitInvariant, StepInvariant, PTL DEF Spec

-----------------------------------------------------------------------------
(***************************************************************************)
(* The theorems.                                                           *)
(***************************************************************************)

\* Every variable has its type, and what is not resting has no tracker.
THEOREM TypeCorrect == Spec => []TypeOK
PROOF
  <1>1. IInv => TypeOK
    BY DEF IInv
  <1> QED
    BY <1>1, Invariance, PTL

\* A limit order never pays more, or gets less, than its limit: whatever the
\* other orders are, and whether or not the trade prices were those of the
\* resting orders.
THEOREM LimitsKept == Spec => []CostWithinLimit
PROOF
  <1>1. IInv => CostWithinLimit
    <2> SUFFICES ASSUME IInv, NEW id \in DOMAIN order, order[id].price # Market
                 PROVE  LET limit == report[id].filled * order[id].price
                        IN  IF order[id].buy THEN report[id].cost =< limit
                            ELSE report[id].cost >= limit
      BY DEF CostWithinLimit
    <2>1. WithinLimit(order[id], report[id])
      BY DEF IInv, StateGood, SoundReports
    <2> QED
      BY <2>1 DEF WithinLimit
  <1> QED
    BY <1>1, Invariance, PTL

\* What rests is registered, once, on its own side, with something open.
SidesSound ==
    /\ Resting \subseteq orders_
    /\ Cardinality(Resting) = Len(bids_) + Len(asks_)
    /\ \A id \in ToSet(bids_) : order[id].buy
    /\ \A id \in ToSet(asks_) : ~order[id].buy
    /\ \A id \in Resting : open_qty_[id] > 0

\* The inductive invariant says of both sides what SidesSound says.
LEMMA InvariantSides == IInv => SidesSound
PROOF
  <1> SUFFICES ASSUME IInv PROVE SidesSound
    OBVIOUS
  <1>1. /\ Book.bids = bids_ /\ Book.asks = asks_
        /\ Distinct(Book.bids) /\ Distinct(Book.asks)
        /\ DOMAIN order \subseteq OrderId
        /\ \A x \in ToSet(bids_) : x \in DOMAIN order /\ order[x].buy
        /\ \A x \in ToSet(asks_) : x \in DOMAIN order /\ ~order[x].buy
        /\ \A x \in OrderId : Rests(Book, x) => x \in orders_ /\ open_qty_[x] > 0
    BY BookFacts
  <1>2. bids_ \in Seq(OrderId) /\ asks_ \in Seq(OrderId)
    BY DEF IInv, TypeOK
  <1>3. ToSet(bids_) \intersect ToSet(asks_) = {}
    BY <1>1
  <1>4. Cardinality(Resting) = Len(bids_) + Len(asks_)
    BY <1>1, <1>2, <1>3, DistinctCardinality DEF Resting
  <1>5. \A x \in Resting : x \in orders_ /\ open_qty_[x] > 0
    BY <1>1 DEF Rests, Resting
  <1> QED
    BY <1>1, <1>4, <1>5 DEF SidesSound

\* Whatever is submitted, both sides hold registered orders only, each once,
\* on its own side and with something open: also after matches that tried
\* deferred trades, after lazy time-outs, and after every replace.
THEOREM SidesCorrect == Spec => []SidesSound
  BY Invariance, InvariantSides, PTL

\* Under AonPriced, what is reported of every order agrees with the book.
LEMMA InvariantAgree ==
    ASSUME AonPriced, IInv, NEW id \in DOMAIN order
    PROVE  IF Rests(Book, id)
           THEN /\ id \in orders_ /\ open_qty_[id] > 0
                /\ report[id].state \in {"Accepted", "PartialFilled"}
                /\ report[id].onMarket = open_qty_[id]
                /\ report[id].filled = order[id].qty - open_qty_[id]
                /\ ~order[id].ioc
                /\ order[id].aon => open_qty_[id] = order[id].qty
           ELSE Gone(Book, report, order, id) /\ id \notin orders_
PROOF
  <1>1. Agree(Book, report, order, id) /\ Book.orders = orders_ /\ Book.open = open_qty_
    BY BookFacts
  <1> QED
    BY <1>1 DEF Agree, Live, Gone

\* Where an all-or-none order and one of the other side are never both market
\* orders, the registry is what the two sides hold.  (Otherwise a trade for
\* which no price is known gives nothing, an all-or-none order is filled in
\* part, and then its entry goes and the registry keeps it.)
THEOREM RegistryCorrect == AonPriced => (Spec => []RegistryMatchesBook)
PROOF
  <1> SUFFICES ASSUME AonPriced PROVE Spec => []RegistryMatchesBook
    OBVIOUS
  <1>1. IInv => RegistryMatchesBook
    <2> SUFFICES ASSUME IInv PROVE RegistryMatchesBook
      OBVIOUS
    <2>1. SidesSound
      BY InvariantSides
    <2>2. orders_ \subseteq DOMAIN order /\ Book.bids = bids_ /\ Book.asks = asks_
      BY BookFacts
    <2>3. ASSUME NEW id \in orders_ PROVE id \in Resting
      BY <2>2, InvariantAgree DEF Rests, Resting
    <2>4. ASSUME NEW id \in Resting PROVE ~order[id].ioc
      <3>1. id \in orders_ /\ id \in DOMAIN order
        BY <2>1, <2>2 DEF SidesSound
      <3>2. Rests(Book, id)
        BY <2>2 DEF Rests, Resting
      <3> QED
        BY <3>1, <3>2, InvariantAgree
    <2> QED
      BY <2>1, <2>3, <2>4 DEF SidesSound, RegistryMatchesBook
  <1> QED
    BY <1>1, Invariance, PTL

\* Under the same assumption, what the listener was told adds up to the book:
\* an order rests with what the events left of it, and one that left the book
\* had its terminal event.
THEOREM EventsCorrect == AonPriced => (Spec => []EventsMatchBook)
PROOF
  <1> SUFFICES ASSUME AonPriced PROVE Spec => []EventsMatchBook
    OBVIOUS
  <1>1. IInv => EventsMatchBook
    <2> SUFFICES ASSUME IInv, NEW id \in DOMAIN order
                 PROVE  IF id \in orders_
                        THEN /\ report[id].state \in {"Accepted", "PartialFilled"}
                             /\ report[id].onMarket = open_qty_[id]
                             /\ report[id].filled = order[id].qty - open_qty_[id]
                        ELSE /\ report[id].state \in Terminal
                             /\ report[id].onMarket = 0
                             /\ report[id].state = "Filled" <=>
                                    order[id].qty > 0 /\ report[id].filled = order[id].qty
      BY DEF EventsMatchBook
    <2>1. CASE Rests(Book, id)
      BY <2>1, InvariantAgree
    <2>2. CASE ~Rests(Book, id)
      <3>1. Gone(Book, report, order, id) /\ id \notin orders_
        BY <2>2, InvariantAgree
      <3> QED
        BY <3>1 DEF Gone
    <2> QED
      BY <2>1, <2>2
  <1> QED
    BY <1>1, Invariance, PTL

\* Two orders of the two sides are compatible where their limits cross.
LEMMA CompatibleCrossing ==
    ASSUME NEW bid \in DOMAIN order, NEW ask \in DOMAIN order, Objects(order),
           order[bid].buy, ~order[ask].buy, Compatible(bid, ask)
    PROVE  Crossing(order, bid, ask) /\ Crossing(order, ask, bid)
PROOF
  <1>1. /\ order[bid].price \in Nat /\ order[ask].price \in Nat
        /\ order[bid].buy \in BOOLEAN /\ order[ask].buy \in BOOLEAN
    BY ObjectTerms
  <1>2. order[bid].buy # order[ask].buy
    BY <1>1
  <1>3. \/ order[bid].price # Market
        \/ order[ask].price # Market
    BY DEF Compatible
  <1>4. MatchesPrice(order[ask].buy, order[ask].price, order[bid].price)
    BY <1>1 DEF Compatible, MatchesPrice, Market
  <1>5. Crossing(order, bid, ask)
    BY <1>2, <1>3, <1>4 DEF Crossing
  <1> QED
    BY <1>5, CrossingSymmetric

\* Under the same assumption, nothing that could be matched is left between the
\* calls: no two orders rest that could trade in full with what the other one
\* has, and an all-or-none order never rests opposite ordinary orders that
\* together would fill it.  It takes the loop of match_order to have reached
\* every order it could trade with, the queue of deferred matches to hold all
\* of them, and check_deferred_aons to retry what grew possible.
THEOREM NothingLeft == AonPriced => (Spec => []NothingLeftToMatch)
PROOF
  <1> SUFFICES ASSUME AonPriced PROVE Spec => []NothingLeftToMatch
    OBVIOUS
  <1>1. IInv => NothingLeftToMatch
    <2> SUFFICES ASSUME IInv PROVE NothingLeftToMatch
      OBVIOUS
    <2> DEFINE Bids == ToSet(bids_) \ expired
               Asks == ToSet(asks_) \ expired
    <2>1. /\ Book.bids = bids_ /\ Book.asks = asks_ /\ Book.open = open_qty_
          /\ Objects(order) /\ Unmatched(Book, order, {})
          /\ \A x \in Bids : Rests(Book, x) /\ x \in DOMAIN order /\ order[x].buy
          /\ \A x \in Asks : Rests(Book, x) /\ x \in DOMAIN order /\ ~order[x].buy
      BY BookFacts DEF IInv, StateGood, Rests
    <2>2. /\ Book.bids \in Seq(OrderId) /\ Book.asks \in Seq(OrderId)
          /\ \A x : Rests(Book, x) => Book.open[x] \in Nat
      BY <2>1 DEF IInv, TypeOK, Rests, ToSet
    <2>3. ASSUME NEW bid \in Bids, NEW ask \in Asks, Compatible(bid, ask)
          PROVE  Crossing(order, bid, ask) /\ Crossing(order, ask, bid)
      BY <2>1, <2>3, CompatibleCrossing
    <2>4. ASSUME NEW x, Rests(Book, x), order[x].aon, NEW ids, ids \subseteq Supply(Book, order, x)
          PROVE  Total(open_qty_, ids) < open_qty_[x]
      <3> DEFINE S == Supply(Book, order, x)
      <3>1. Total(Book.open, S) < Book.open[x]
        BY <2>1, <2>4 DEF Unmatched
      <3>2. IsFiniteSet(S) /\ Total(Book.open, S) \in Nat
        BY <2>2, SupplySum
      <3>3. \A y \in S : Book.open[y] \in Nat
        BY <2>2 DEF Supply, Rests
      <3> HIDE DEF S
      <3>4. Total(Book.open, ids) \in Nat /\ Total(Book.open, ids) =< Total(Book.open, S)
        <4>1. ids \in SUBSET S /\ IsFiniteSet(ids)
          BY <2>4, <3>2, FS_Subset DEF S
        <4>2. \A y \in ids : Book.open[y] \in Nat /\ Book.open[y] =< Book.open[y]
          BY <3>3, <4>1
        <4>3. Total(Book.open, ids) =< Total(Book.open, S)
          BY <3>2, <3>3, <4>1, <4>2, TotalGrows
        <4>4. Total(Book.open, ids) \in Nat
          BY <4>1, <4>2, TotalMinus
        <4> QED
          BY <4>3, <4>4
      <3>5. Book.open[x] \in Nat
        BY <2>2, <2>4
      <3> QED
        BY <2>1, <3>1, <3>2, <3>4, <3>5
    <2> HIDE DEF Bids, Asks
    <2>5. ASSUME NEW bid \in Bids, NEW ask \in Asks
          PROVE  ~ /\ Compatible(bid, ask)
                   /\ order[bid].aon => open_qty_[bid] =< open_qty_[ask]
                   /\ order[ask].aon => open_qty_[ask] =< open_qty_[bid]
      <3>1. ~Deal(Book, order, bid, ask)
        BY <2>1 DEF Unmatched
      <3> QED
        BY <2>1, <2>3, <3>1 DEF Deal
    <2>6. ASSUME NEW bid \in Bids, order[bid].aon
          PROVE  LET ids == {ask \in Asks : Compatible(bid, ask)}
                 IN  Total(open_qty_, {id \in ids : ~order[id].aon}) < open_qty_[bid]
      <3> DEFINE ids == {ask \in Asks : Compatible(bid, ask)}
                 some == {id \in ids : ~order[id].aon}
      <3>1. some \subseteq Supply(Book, order, bid)
        BY <2>1, <2>3 DEF Supply, Rests
      <3> HIDE DEF some
      <3>2. Total(open_qty_, some) < open_qty_[bid]
        BY <2>1, <2>4, <2>6, <3>1
      <3> QED
        BY <3>2 DEF some
    <2>7. ASSUME NEW ask \in Asks, order[ask].aon
          PROVE  LET ids == {bid \in Bids : Compatible(bid, ask)}
                 IN  Total(open_qty_, {id \in ids : ~order[id].aon}) < open_qty_[ask]
      <3> DEFINE ids == {bid \in Bids : Compatible(bid, ask)}
                 some == {id \in ids : ~order[id].aon}
      <3>1. some \subseteq Supply(Book, order, ask)
        BY <2>1, <2>3 DEF Supply, Rests
      <3> HIDE DEF some
      <3>2. Total(open_qty_, some) < open_qty_[ask]
        BY <2>1, <2>4, <2>7, <3>1
      <3> QED
        BY <3>2 DEF some
    <2> QED
      BY <2>5, <2>6, <2>7 DEF NothingLeftToMatch, Total, Bids, Asks
  <1> QED
    BY <1>1, Invariance, PTL

\* Under the same assumption, an all-or-none order is filled as a whole or not
\* at all, however many deferred orders the match has to combine for it.
THEOREM AllOrNoneCorrect == AonPriced => (Spec => []AllOrNone)
PROOF
  <1> SUFFICES ASSUME AonPriced PROVE Spec => []AllOrNone
    OBVIOUS
  <1>1. IInv => AllOrNone
    <2> SUFFICES ASSUME IInv, NEW id \in DOMAIN order, order[id].aon
                 PROVE  report[id].filled \in {0, order[id].qty}
      BY DEF AllOrNone
    <2>1. order[id].qty \in Nat
      <3>1. order[id] \in OrderType
        BY BookFacts
      <3> QED
        BY <3>1, TypeAssumption DEF Terms
    <2>2. CASE Rests(Book, id)
      <3>1. report[id].filled = order[id].qty - open_qty_[id] /\ open_qty_[id] = order[id].qty
        BY <2>2, InvariantAgree
      <3> QED
        BY <2>1, <3>1
    <2>3. CASE ~Rests(Book, id)
      <3>1. Gone(Book, report, order, id)
        BY <2>3, InvariantAgree
      <3> QED
        BY <3>1 DEF Gone
    <2> QED
      BY <2>2, <2>3
  <1> QED
    BY <1>1, Invariance, PTL

-----------------------------------------------------------------------------
(***************************************************************************)
(* Price-time priority: in every step what trades is served in order, and  *)
(* only id gets into a side, behind its equals.                            *)
(***************************************************************************)

\* The priority in a step of the order id.
Prior(id) ==
    /\ \A x, y : /\ x # id /\ y # id
                 /\ Ahead(bids_, x, y) \/ Ahead(asks_, x, y)
                 /\ report'[y].filled # report[y].filled
                 /\ ~order[x].aon /\ order[x].price # Market /\ ~order[y].aon
                 => x \notin orders_'
    /\ \A x, y : Ahead(bids_', x, y) \/ Ahead(asks_', x, y) =>
           \/ x \in orders_ \ {id}
           \/ x = id /\ Before(order'[x].buy, order'[x].price, order'[y].price)

\* The call of a new order, or of an order that it replaces.
LEMMA NewPriority ==
    ASSUME IInv, AonPriced, NEW id \in OrderId, NEW terms \in OrderType, NEW b, Without(b, id),
           NEW ord, ord = With(order, id, terms), NEW c, c = AddTo(b, ord, id),
           Keep(c), order' = ord,
           report' = Deliver(With(report, id, Unreported), ord, c.callbacks)
    PROVE  Prior(id)
PROOF
  <1> DEFINE R == With(report, id, Unreported)
             r == Rep(R, ord, c)
  <1>1. NewGood(b, c, ord, id, terms, R)
    BY NewOrder
  <1>2. /\ report' = r /\ order' = ord
        /\ orders_' = c.orders /\ bids_' = c.bids /\ asks_' = c.asks
    BY DEF Keep, Rep
  <1> HIDE DEF R
  <1>3. /\ Fair(b, c, ord, id, R, r) /\ Served(b, c, ord, id) /\ Behind(c, ord, id)
        /\ Sided(c, ord)
        /\ DOMAIN ord = orders_ \union {id}
        /\ \A x \in orders_ \ {id} : ord[x] = order[x] /\ R[x] = report[x]
    BY <1>1, SidedFacts DEF NewGood, StateGood, Submitted
  <1> HIDE DEF r
  <1>4. /\ Book.bids = bids_ /\ Book.asks = asks_
        /\ bids_ \in Seq(OrderId) /\ asks_ \in Seq(OrderId)
        /\ Distinct(bids_) /\ Distinct(asks_)
        /\ DOMAIN order \subseteq OrderId
        /\ \A x \in OrderId : Rests(Book, x) => x \in orders_
        /\ Sided(Book, order)
    <2>1. SoundAll(Book, order)
      BY DEF IInv, StateGood
    <2> QED
      BY <2>1, BookFacts, SidedFacts DEF BookType
  <1>5. /\ b.bids \in Seq(OrderId) /\ b.asks \in Seq(OrderId)
        /\ ToSet(b.bids) = ToSet(bids_) \ {id} /\ ToSet(b.asks) = ToSet(asks_) \ {id}
        /\ \A x, y : Ahead(b.bids, x, y) => Ahead(bids_, x, y)
        /\ \A x, y : Ahead(b.asks, x, y) => Ahead(asks_, x, y)
    BY <1>4 DEF Without, BookType, SameOrder
  <1>6. ASSUME NEW x, NEW y, x # id, y # id, Ahead(bids_, x, y) \/ Ahead(asks_, x, y),
               report'[y].filled # report[y].filled,
               ~order[x].aon, order[x].price # Market, ~order[y].aon
        PROVE  x \notin orders_'
    <2>1. x \in orders_ \ {id} /\ y \in orders_ \ {id}
      <3>1. /\ x \in DOMAIN order /\ y \in DOMAIN order
            /\ Rests(Book, x) /\ Rests(Book, y)
        BY <1>4, <1>6, SideAhead
      <3> QED
        BY <1>4, <1>6, <3>1
    <2>2. ord[x] = order[x] /\ ord[y] = order[y] /\ R[y] = report[y] /\ y \in DOMAIN ord \ {id}
      BY <1>3, <2>1
    <2>3. Ahead(b.bids, x, y) \/ Ahead(b.asks, x, y)
      <3>1. CASE Ahead(bids_, x, y)
        BY <1>4, <1>5, <1>6, <3>1, OthersKept
      <3>2. CASE Ahead(asks_, x, y)
        BY <1>4, <1>5, <1>6, <3>2, OthersKept
      <3> QED
        BY <1>6, <3>1, <3>2
    <2>4. c.open[y] # b.open[y]
      BY <1>2, <1>3, <1>6, <2>2 DEF Fair
    <2>5. x \notin c.orders
      BY <1>3, <1>6, <2>2, <2>3, <2>4 DEF Served
    <2> QED
      BY <1>2, <2>5
  <1>7. ASSUME NEW x, NEW y, Ahead(bids_', x, y) \/ Ahead(asks_', x, y)
        PROVE  \/ x \in orders_ \ {id}
               \/ x = id /\ Before(order'[x].buy, order'[x].price, order'[y].price)
    <2>1. Ahead(c.bids, x, y) \/ Ahead(c.asks, x, y)
      BY <1>2, <1>7
    <2>2. x \in DOMAIN ord
      BY <1>3, <2>1, SideAhead
    <2>3. x = id => Before(ord[id].buy, ord[id].price, ord[y].price)
      BY <1>3, <2>1 DEF Behind
    <2> QED
      BY <1>2, <1>3, <2>2, <2>3
  <1> QED
    BY <1>6, <1>7 DEF Prior

\* What rests is registered.
LEMMA RestingFacts ==
    ASSUME IInv, NEW side \in {bids_, asks_}, NEW i \in DOMAIN side
    PROVE  side \in Seq(OrderId) /\ side[i] \in orders_ /\ report[side[i]].filled \in Nat
PROOF
  <1>1. side \in Seq(OrderId) /\ Book.bids = bids_ /\ Book.asks = asks_
    BY DEF IInv, TypeOK, Book
  <1>2. side[i] \in OrderId /\ Rests(Book, side[i])
    BY <1>1 DEF ToSet, Rests
  <1>3. side[i] \in orders_ /\ side[i] \in DOMAIN order
    BY <1>2, BookFacts
  <1> QED
    BY <1>1, <1>3, BookFacts DEF SoundReports, Reports, Report

\* A step of an order that is new, or that the call replaces.
LEMMA PriorFacts ==
    ASSUME IInv, TypeOK', NEW id, Prior(id), id \notin orders_ \/ Replaced(id)
    PROVE  TradesInOrder /\ QueuesBehind
PROOF
  <1>1. TradesInOrder
    <2> SUFFICES ASSUME NEW side \in {bids_, asks_}, NEW i \in DOMAIN side, NEW j \in DOMAIN side,
                        i < j, report'[side[j]].filled > report[side[j]].filled,
                        ~order[side[i]].aon, ~order[side[j]].aon,
                        order[side[i]].price # Market,
                        ~Replaced(side[i]), ~Replaced(side[j])
                 PROVE  side[i] \notin orders_'
      BY DEF TradesInOrder
    <2>1. /\ side \in Seq(OrderId) /\ side[i] \in orders_ /\ side[j] \in orders_
          /\ report[side[j]].filled \in Nat
      BY RestingFacts
    <2>2. side[i] # id /\ side[j] # id
      BY <2>1
    <2>3. Ahead(side, side[i], side[j])
      BY <2>1 DEF Ahead
    <2>4. report'[side[j]].filled # report[side[j]].filled
      BY <2>1
    <2> QED
      BY <2>2, <2>3, <2>4 DEF Prior
  <1>2. QueuesBehind
    <2> SUFFICES ASSUME NEW side \in {bids_', asks_'}, NEW i \in DOMAIN side, NEW j \in DOMAIN side,
                        i < j, side[i] \notin orders_
                 PROVE  Before(order'[side[i]].buy, order'[side[i]].price, order'[side[j]].price)
      BY DEF QueuesBehind
    <2>1. side \in Seq(OrderId)
      BY DEF TypeOK
    <2>2. Ahead(side, side[i], side[j])
      BY <2>1 DEF Ahead
    <2> QED
      BY <2>2 DEF Prior
  <1> QED
    BY <1>1, <1>2

\* A step after which the sides have nothing new and nothing was traded.
LEMMA NothingTraded ==
    ASSUME IInv, \A x \in orders_ : report'[x].filled = report[x].filled,
           ToSet(bids_') \union ToSet(asks_') \subseteq orders_
    PROVE  TradesInOrder /\ QueuesBehind
PROOF
  <1>1. TradesInOrder
    <2> SUFFICES ASSUME NEW side \in {bids_, asks_}, NEW j \in DOMAIN side,
                        report'[side[j]].filled > report[side[j]].filled
                 PROVE  FALSE
      BY DEF TradesInOrder
    <2>1. side[j] \in orders_ /\ report[side[j]].filled \in Nat
      BY RestingFacts
    <2> QED
      BY <2>1
  <1>2. \A side \in {bids_', asks_'} : \A i \in DOMAIN side : side[i] \in orders_
    BY DEF ToSet
  <1>3. QueuesBehind
    BY <1>2 DEF QueuesBehind
  <1> QED
    BY <1>1, <1>3

\* ADD.
LEMMA AddPriority ==
    ASSUME IInv, TypeOK', AonPriced, NEW id \in OrderId, NEW terms \in OrderType, Add(id, terms)
    PROVE  TradesInOrder /\ QueuesBehind
PROOF
  <1> DEFINE ord == With(order, id, terms)
             b == AddTo(Book, ord, id)
  <1>1. /\ ~undefined /\ id \notin orders_ /\ Keep(b) /\ order' = ord
        /\ report' = Deliver(With(report, id, Unreported), ord, b.callbacks)
    BY DEF Add, Adding
  <1>2. Without(Book, id)
    BY <1>1, NewBook
  <1>3. Prior(id)
    <2> DEFINE B == Book
    <2>1. Without(B, id) /\ b = AddTo(B, ord, id)
      BY <1>2
    <2> HIDE DEF ord, b, B
    <2> QED
      BY <1>1, <2>1, NewPriority DEF ord
  <1> QED
    BY <1>1, <1>3, PriorFacts

\* MODIFY.
LEMMA ReplacePriority ==
    ASSUME IInv, TypeOK', AonPriced, NEW id \in OrderId, NEW terms \in OrderType,
           Replace(id, terms)
    PROVE  TradesInOrder /\ QueuesBehind
PROOF
  <1> DEFINE ord == With(order, id, terms)
             c == CancelIn(Book, id)
             d == [c EXCEPT !.callbacks = << >>, !.expired = @ \ {id}]
             b == AddTo(d, ord, id)
  <1>1. /\ ~undefined /\ id \in orders_ /\ Keep(b) /\ order' = ord
        /\ report' = Deliver(With(report, id, Unreported), ord, b.callbacks)
    BY DEF Replace, Replacing
  <1>2. Without(d, id)
    BY <1>1, CancelFacts
  <1>3. Prior(id)
    <2>1. b = AddTo(d, ord, id)
      OBVIOUS
    <2> HIDE DEF ord, b, d
    <2> QED
      BY <1>1, <1>2, <2>1, NewPriority DEF ord
  <1>4. Replaced(id)
    BY <1>1 DEF Replaced
  <1> QED
    BY <1>3, <1>4, PriorFacts

\* CANCEL.
LEMMA CancelPriority ==
    ASSUME IInv, NEW id \in OrderId, Cancel(id)
    PROVE  TradesInOrder /\ QueuesBehind
PROOF
  <1> DEFINE ord == With(order, id, order[id])
             R == With(report, id, report[id])
             b == CancelIn(Book, id)
             r == Rep(R, ord, b)
  <1>1. ~undefined /\ id \in orders_ /\ Keep(b) /\ report' = r
    BY DEF Cancel, Cancelling, Rep
  <1>2. /\ StateGood(b, r, ord)
        /\ Without([b EXCEPT !.callbacks = << >>, !.expired = @ \ {id}], id)
        /\ \A x \in orders_ : r[x].filled = report[x].filled
    BY <1>1, CancelFacts DEF Rep
  <1> HIDE DEF b, r
  <1>3. b \in BookType /\ b.orders = orders_ \ {id}
    BY <1>2 DEF StateGood, SoundAll, Without, BookType
  <1>4. bids_' = b.bids /\ asks_' = b.asks
    BY <1>1 DEF Keep
  <1>5. ToSet(bids_') \union ToSet(asks_') \subseteq orders_
    <2>1. b.bids \in Seq(OrderId) /\ b.asks \in Seq(OrderId)
      BY <1>3 DEF BookType
    <2>2. ASSUME NEW x \in ToSet(b.bids) \union ToSet(b.asks) PROVE x \in orders_
      <3>1. x \in OrderId /\ Rests(b, x)
        BY <2>1, <2>2 DEF ToSet, Rests
      <3> QED
        BY <1>2, <1>3, <3>1 DEF StateGood, SoundAll
    <2> QED
      BY <1>4, <2>2
  <1> QED
    BY <1>1, <1>2, <1>5, NothingTraded

\* What rests stays in its order, trades in it, and is not overtaken by what
\* comes: of two orders of a side the later one trades only in a step after
\* which the earlier one is gone, and a new order is behind its equals.
THEOREM PriorityCorrect == AonPriced => (Spec => PriceTimePriority)
PROOF
  <1> SUFFICES ASSUME AonPriced PROVE Spec => PriceTimePriority
    OBVIOUS
  <1>1. IInv /\ TypeOK' /\ [Next]_vars => [TradesInOrder /\ QueuesBehind]_vars
    <2> SUFFICES ASSUME IInv, TypeOK', Next PROVE TradesInOrder /\ QueuesBehind
      OBVIOUS
    <2>1. ASSUME NEW id \in OrderId, NEW terms \in OrderType, Add(id, terms)
          PROVE  TradesInOrder /\ QueuesBehind
      BY <2>1, AddPriority
    <2>2. ASSUME NEW id \in OrderId, NEW terms \in OrderType, Replace(id, terms)
          PROVE  TradesInOrder /\ QueuesBehind
      BY <2>2, ReplacePriority
    <2>3. ASSUME NEW id \in OrderId, Cancel(id) PROVE TradesInOrder /\ QueuesBehind
      BY <2>3, CancelPriority
    <2>4. ASSUME UNCHANGED <<bookVars, report>> PROVE TradesInOrder /\ QueuesBehind
      <3>1. bids_' = bids_ /\ asks_' = asks_ /\ report' = report
        BY <2>4 DEF bookVars
      <3>2. ToSet(bids_) \union ToSet(asks_) \subseteq orders_
        BY RestingFacts DEF ToSet
      <3> QED
        BY <3>1, <3>2, NothingTraded
    <2> QED
      BY <2>1, <2>2, <2>3, <2>4 DEF Next, ReadFreed, Expire
  <1>2. IInv => TypeOK
    BY DEF IInv
  <1> QED
    BY <1>1, <1>2, Invariance, PTL DEF Spec, PriceTimePriority
=============================================================================
