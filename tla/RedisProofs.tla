---------------------------- MODULE RedisProofs ----------------------------
(***************************************************************************)
(* RedisStream, for any number of subscriptions, entries, runs and any     *)
(* batch size: what an XREADGROUP was given without NOACK is never lost,   *)
(* what it was given with NOACK is never appended twice, pending entries   *)
(* come first, and no thread outlives its name.                            *)
(*                                                                         *)
(* RedisPubSub, for any channels, number of messages and any batch size:   *)
(* messages are handled in the order they were published, and none of a    *)
(* channel gets into the queue that unsubscribe has taken away.            *)
(***************************************************************************)
EXTENDS RedisStream, RedisPubSub, SequenceTheorems, TLAPS

\* Nothing is known of an entry before Redis has given it to a consumer.
Bounded ==
    /\ \A m \in noack : m =< delivered
    /\ \A a \in Action : \A m \in pendingList[a] : m =< delivered
    /\ \A a \in Action : \A m \in reader[a].msgs : m =< delivered
    /\ \A m \in Msg : copies[m] > 0 => m =< delivered

\* An entry that was read with NOACK and is still in hand is in one hand only,
\* and not in the table.
InOneHand ==
    \A a \in Action, m \in noack :
        m \in reader[a].msgs =>
            /\ ~reader[a].old /\ reader[a].at # "ack"
            /\ copies[m] = 0
            /\ \A b \in Action : m \in reader[b].msgs => b = a

\* Only what is in the table is acknowledged.
AckAfterAppend ==
    \A a \in Action : reader[a].at = "ack" => \A m \in reader[a].msgs : copies[m] > 0

\* PendingFirst, with the batch that is on its way to the table, and while the
\* next read is in progress, unless its reply is lost.
PendingComesFirst ==
    \A a \in Action :
        (/\ reader[a].pending_
         /\ reader[a].at \in {"loop", "ack", "append"} \/ (reader[a].at = "read" /\ a \notin lost)) =>
            \A m \in pendingList[a] :
                copies[m] > 0 \/ (reader[a].at = "append" /\ m \in reader[a].msgs)

IInv == TypeOK /\ Bounded /\ NothingLost /\ NoAckAtMostOnce /\ InOneHand
             /\ AckAfterAppend /\ PendingComesFirst /\ OneThread

-----------------------------------------------------------------------------
\* What a change of one reader's record leaves alone.
LEMMA OneReader ==
  ASSUME reader \in [Action -> Reader], NEW a \in Action, NEW r \in Reader,
         reader' = [reader EXCEPT ![a] = r]
  PROVE  /\ reader' \in [Action -> Reader]
         /\ reader'[a] = r
         /\ \A b \in Action : b # a => reader'[b] = reader[b]
  BY SMT

\* The entries that Redis gives, and what becomes of its state.
LEMMA FreshFacts ==
  ASSUME TypeOK, NEW a \in Action, Deliver(a), added' = added
  PROVE  /\ delivered' \in 0..added /\ delivered =< delivered'
         /\ Fresh \subseteq Msg
         /\ \A m \in Fresh : delivered < m /\ m =< delivered'
         /\ \A m \in Msg : delivered < m /\ m =< delivered' => m \in Fresh
  BY ConstantsAssumption, SMT DEF TypeOK, Deliver, Fresh, Msg

\* The initial state.
LEMMA InitInv == Init => IInv
<1> SUFFICES ASSUME Init PROVE IInv
  OBVIOUS
<1> USE ConstantsAssumption DEF Init
<1>1. NoReader \in Reader /\ NoReader.at = "none" /\ NoReader.msgs = {}
  BY SMT DEF NoReader, Reader
<1>2. TypeOK
  BY <1>1, SMT DEF TypeOK
<1>3. Bounded /\ NothingLost /\ NoAckAtMostOnce /\ InOneHand
  BY <1>1, SMT DEF Bounded, NothingLost, NoAckAtMostOnce, InOneHand, Msg
<1>4. AckAfterAppend /\ PendingComesFirst /\ OneThread
  BY <1>1, SMT DEF AckAfterAppend, PendingComesFirst, OneThread
<1> QED BY <1>2, <1>3, <1>4 DEF IInv

\* subscribeStream starts with nothing in hand.
LEMMA SubscribeInv ==
  ASSUME IInv, NEW a \in Action, NEW p \in BOOLEAN, NEW k \in BOOLEAN, SubscribeStream(a, p, k)
  PROVE  IInv'
<1> DEFINE r == [NoReader EXCEPT !.at = IF p THEN "pending" ELSE "loop",
                                 !.pending_ = p, !.autoAck_ = k]
<1> USE DEF IInv
<1>1. r \in Reader /\ r.at \in {"pending", "loop"} /\ r.msgs = {} /\ (r.pending_ => r.at = "pending")
  <2>1. NoReader \in Reader
    BY SMT DEF NoReader, Reader
  <2>2. (IF p THEN "pending" ELSE "loop") \in {"pending", "loop"}
    OBVIOUS
  <2>3. r \in Reader
    BY <2>1, <2>2, Zenon DEF Reader
  <2>4. r.at = (IF p THEN "pending" ELSE "loop") /\ r.pending_ = p
    BY <2>1, Zenon DEF Reader
  <2>5. r.msgs = {}
    BY SMT DEF NoReader
  <2> QED BY <2>2, <2>3, <2>4, <2>5, Zenon
<1>2. reader' = [reader EXCEPT ![a] = r] /\ reader \in [Action -> Reader]
  BY DEF TypeOK, SubscribeStream
<1>8. /\ UNCHANGED <<added, delivered, pendingList, mutex_, lost, copies, noack>>
      /\ subscriptions_' = subscriptions_ \union {a} /\ runs < MaxRuns /\ runs' = runs + 1
  BY DEF SubscribeStream, redis
<1> HIDE DEF r
<1>3. /\ reader' \in [Action -> Reader] /\ reader'[a] = r
      /\ \A b \in Action : b # a => reader'[b] = reader[b]
  BY <1>1, <1>2, OneReader
<1>4. TypeOK'
  BY <1>3, <1>8, ConstantsAssumption, SMT DEF TypeOK
<1>5. Bounded' /\ NothingLost' /\ NoAckAtMostOnce'
  BY <1>1, <1>3, <1>8, SMT DEF Bounded, NothingLost, NoAckAtMostOnce
<1>6. InOneHand'
  BY <1>1, <1>3, <1>8, SMT DEF InOneHand
<1>7. AckAfterAppend' /\ PendingComesFirst' /\ OneThread'
  BY <1>1, <1>3, <1>8, SMT DEF AckAfterAppend, PendingComesFirst, OneThread
<1> QED BY <1>4, <1>5, <1>6, <1>7

\* unsubscribeStream only asks the thread to end.
LEMMA StopInv ==
  ASSUME IInv, NEW a \in Action, Stop(a)
  PROVE  IInv'
<1> DEFINE r == [reader[a] EXCEPT !.isEnd_ = TRUE]
<1> USE DEF IInv
<1>1. reader \in [Action -> Reader] /\ reader' = [reader EXCEPT ![a] = r]
  BY DEF TypeOK, Stop
<1>8. /\ UNCHANGED <<added, delivered, pendingList, subscriptions_, lost, copies, noack, runs>>
      /\ mutex_' = a
  BY DEF Stop, redis, history
<1>2. /\ r \in Reader /\ r.at = reader[a].at /\ r.msgs = reader[a].msgs
      /\ r.old = reader[a].old /\ r.pending_ = reader[a].pending_
  <2>1. reader[a] \in Reader
    BY <1>1
  <2>2. r \in Reader
    BY <2>1, Zenon DEF Reader
  <2> QED BY <2>1, <2>2, SMT DEF Reader
<1> HIDE DEF r
<1>3. /\ reader' \in [Action -> Reader] /\ reader'[a] = r
      /\ \A b \in Action : b # a => reader'[b] = reader[b]
  BY <1>1, <1>2, OneReader
<1>4. TypeOK'
  BY <1>3, <1>8, SMT DEF TypeOK
<1>5. Bounded' /\ NothingLost' /\ NoAckAtMostOnce'
  BY <1>2, <1>3, <1>8, SMT DEF Bounded, NothingLost, NoAckAtMostOnce
<1>6. InOneHand'
  BY <1>2, <1>3, <1>8, SMT DEF InOneHand
<1>7. AckAfterAppend' /\ PendingComesFirst' /\ OneThread'
  BY <1>2, <1>3, <1>8, SMT DEF AckAfterAppend, PendingComesFirst, OneThread
<1> QED BY <1>4, <1>5, <1>6, <1>7

\* The name goes with its thread.
LEMMA JoinedInv ==
  ASSUME IInv, NEW a \in Action, Joined(a)
  PROVE  IInv'
<1> USE DEF IInv, Joined, redis, history
<1>1. NoReader \in Reader /\ NoReader.at = "none" /\ NoReader.msgs = {}
  BY SMT DEF NoReader, Reader
<1>2. reader' = [reader EXCEPT ![a] = NoReader] /\ reader \in [Action -> Reader]
  BY DEF TypeOK
<1>3. /\ reader' \in [Action -> Reader] /\ reader'[a] = NoReader
      /\ \A b \in Action : b # a => reader'[b] = reader[b]
  BY <1>1, <1>2, OneReader
<1>4. TypeOK'
  BY <1>3, SMT DEF TypeOK
<1>5. Bounded' /\ NothingLost' /\ NoAckAtMostOnce'
  BY <1>1, <1>3, SMT DEF Bounded, NothingLost, NoAckAtMostOnce
<1>6. InOneHand'
  BY <1>1, <1>3, SMT DEF InOneHand
<1>7. AckAfterAppend' /\ PendingComesFirst' /\ OneThread'
  BY <1>1, <1>3, SMT DEF AckAfterAppend, PendingComesFirst, OneThread
<1> QED BY <1>4, <1>5, <1>6, <1>7

\* A thread that ends drops what it has in hand and acknowledges nothing.
LEMMA EndInv ==
  ASSUME IInv, NEW a \in Action, Fail(a) \/ LeaveLoop(a)
  PROVE  IInv'
<1> DEFINE r == IF Fail(a)
                THEN [reader[a] EXCEPT !.at = "ended", !.status_ = "FATAL", !.msgs = {}, !.old = FALSE]
                ELSE [reader[a] EXCEPT !.at = "ended"]
<1> USE DEF IInv, redis, manager, history
<1>1. /\ reader \in [Action -> Reader] /\ reader[a].at # "none"
      /\ UNCHANGED <<redis, manager, lost, copies, history>>
  BY DEF TypeOK, Fail, LeaveLoop
<1>2. reader' = [reader EXCEPT ![a] = r]
  BY DEF Fail, LeaveLoop
<1>3. r \in Reader /\ r.at = "ended" /\ r.msgs \subseteq reader[a].msgs /\ (r.old => reader[a].old)
  <2>1. reader[a] \in Reader
    BY <1>1
  <2>2. CASE Fail(a)
    <3> DEFINE x == [reader[a] EXCEPT !.at = "ended", !.status_ = "FATAL", !.msgs = {}, !.old = FALSE]
    <3>1. x \in Reader
      BY <2>1, Zenon DEF Reader
    <3>2. x.at = "ended" /\ x.msgs = {} /\ x.old = FALSE
      BY <2>1, SMT DEF Reader
    <3> QED BY <2>2, <3>1, <3>2, Zenon
  <2>3. CASE ~Fail(a)
    <3> DEFINE x == [reader[a] EXCEPT !.at = "ended"]
    <3>1. x \in Reader
      BY <2>1, Zenon DEF Reader
    <3>2. x.at = "ended" /\ x.msgs = reader[a].msgs /\ x.old = reader[a].old
      BY <2>1, SMT DEF Reader
    <3> QED BY <2>3, <3>1, <3>2, Zenon
  <2> QED BY <2>2, <2>3
<1> HIDE DEF r
<1>4. /\ reader' \in [Action -> Reader] /\ reader'[a] = r
      /\ \A b \in Action : b # a => reader'[b] = reader[b]
  BY <1>1, <1>2, <1>3, OneReader
<1>5. TypeOK'
  BY <1>1, <1>4, SMT DEF TypeOK
<1>6. Bounded' /\ NothingLost' /\ NoAckAtMostOnce'
  BY <1>1, <1>3, <1>4, SMT DEF Bounded, NothingLost, NoAckAtMostOnce
<1>7. InOneHand'
  BY <1>1, <1>3, <1>4, SMT DEF InOneHand
<1>8. AckAfterAppend' /\ PendingComesFirst' /\ OneThread'
  BY <1>1, <1>3, <1>4, SMT DEF AckAfterAppend, PendingComesFirst, OneThread
<1> QED BY <1>5, <1>6, <1>7, <1>8

\* The turns of the loop move nothing.
LEMMA TurnInv ==
  ASSUME IInv, NEW a \in Action, BeginRead(a) \/ ReadNothing(a)
  PROVE  IInv'
<1> DEFINE y == IF BeginRead(a) THEN "read" ELSE "loop"
           r == [reader[a] EXCEPT !.at = y]
<1> USE DEF IInv, redis, manager, history
<1>1. /\ reader \in [Action -> Reader] /\ reader[a] \in Reader /\ y \in {"read", "loop"}
      /\ reader[a].at = "loop" \/ (reader[a].at = "read" /\ a \notin lost)
      /\ UNCHANGED <<redis, manager, lost, copies, history>>
  BY DEF TypeOK, BeginRead, ReadNothing
<1>2. reader' = [reader EXCEPT ![a] = r]
  BY DEF BeginRead, ReadNothing
<1> HIDE DEF y
<1>3. /\ r \in Reader /\ r.at = y /\ r.msgs = reader[a].msgs /\ r.old = reader[a].old
      /\ r.pending_ = reader[a].pending_
  <2>1. r \in Reader
    BY <1>1, Zenon DEF Reader
  <2>2. /\ r.at = y /\ r.msgs = reader[a].msgs /\ r.old = reader[a].old
        /\ r.pending_ = reader[a].pending_
    BY <1>1, SMT DEF Reader
  <2> QED BY <2>1, <2>2
<1> HIDE DEF r
<1>4. /\ reader' \in [Action -> Reader] /\ reader'[a] = r
      /\ \A b \in Action : b # a => reader'[b] = reader[b]
  BY <1>1, <1>2, <1>3, OneReader
<1>5. TypeOK'
  BY <1>1, <1>4, SMT DEF TypeOK
<1>6. Bounded' /\ NothingLost' /\ NoAckAtMostOnce'
  BY <1>1, <1>3, <1>4, SMT DEF Bounded, NothingLost, NoAckAtMostOnce
<1>7. InOneHand'
  BY <1>1, <1>3, <1>4, SMT DEF InOneHand
<1>8. AckAfterAppend' /\ OneThread'
  BY <1>1, <1>3, <1>4, SMT DEF AckAfterAppend, OneThread
<1>9. PendingComesFirst'
  BY <1>1, <1>3, <1>4, SMT DEF PendingComesFirst
<1> QED BY <1>5, <1>6, <1>7, <1>8, <1>9

\* Pending entries were not read with NOACK.
LEMMA ReadPendingInv ==
  ASSUME IInv, NEW a \in Action, ReadPending(a)
  PROVE  IInv'
<1> DEFINE P == pendingList[a]
           r == [reader[a] EXCEPT !.at = IF P = {} THEN "loop" ELSE "append",
                                  !.msgs = P, !.old = P # {}]
<1> USE DEF IInv
<1>1. /\ reader \in [Action -> Reader] /\ P \in SUBSET Msg
      /\ reader[a].at = "pending" /\ reader' = [reader EXCEPT ![a] = r]
  BY DEF TypeOK, ReadPending
<1>2. UNCHANGED <<added, delivered, pendingList, subscriptions_, mutex_, lost, copies, noack, runs>>
  BY DEF ReadPending, redis, manager, history
<1>3. /\ r \in Reader /\ r.msgs = P /\ r.pending_ = reader[a].pending_
      /\ r.at \in {"loop", "append"} /\ (P # {} => r.at = "append")
  <2> DEFINE y == IF P = {} THEN "loop" ELSE "append"
             o == P # {}
  <2>1. reader[a] \in Reader /\ y \in {"loop", "append"} /\ o \in BOOLEAN /\ P \in SUBSET Msg
    BY <1>1
  <2>2. P # {} => y = "append"
    OBVIOUS
  <2> HIDE DEF y, o
  <2> DEFINE x == [reader[a] EXCEPT !.at = y, !.msgs = P, !.old = o]
  <2>3. x \in Reader
    BY <2>1, Zenon DEF Reader
  <2>4. x.at = y /\ x.msgs = P /\ x.pending_ = reader[a].pending_
    BY <2>1, Zenon DEF Reader
  <2>5. r = x
    BY DEF y, o
  <2> HIDE DEF x, r
  <2> QED BY <2>1, <2>2, <2>3, <2>4, <2>5, Zenon
<1> HIDE DEF r
<1>4. /\ reader' \in [Action -> Reader] /\ reader'[a] = r
      /\ \A b \in Action : b # a => reader'[b] = reader[b]
  BY <1>1, <1>3, OneReader
<1>5. TypeOK'
  BY <1>2, <1>4, SMT DEF TypeOK
<1>6. Bounded' /\ NothingLost' /\ NoAckAtMostOnce'
  BY <1>1, <1>2, <1>3, <1>4, SMT DEF Bounded, NothingLost, NoAckAtMostOnce
<1>7. \A m \in noack : m \notin P
  BY DEF NoAckAtMostOnce
<1>8. InOneHand'
  BY <1>1, <1>2, <1>3, <1>4, <1>7, SMT DEF InOneHand
<1>9. AckAfterAppend' /\ PendingComesFirst' /\ OneThread'
  BY <1>1, <1>2, <1>3, <1>4, SMT DEF AckAfterAppend, PendingComesFirst, OneThread
<1> QED BY <1>5, <1>6, <1>8, <1>9

\* New entries: with NOACK they are in this hand only, without it they are
\* pending for this consumer.
LEMMA DeliverInv ==
  ASSUME IInv, NEW a \in Action, ReadNew(a) \/ ReplyLost(a)
  PROVE  IInv'
<1> DEFINE r == IF ReadNew(a)
                THEN [reader[a] EXCEPT !.at = "append", !.msgs = Fresh, !.old = FALSE]
                ELSE IF a \in lost' THEN reader[a]
                ELSE [reader[a] EXCEPT !.at = "ended", !.status_ = "FATAL"]
<1> USE DEF IInv
<1>1. /\ reader \in [Action -> Reader] /\ reader[a] \in Reader /\ reader[a].at = "read"
      /\ Deliver(a) /\ UNCHANGED <<added, subscriptions_, mutex_, copies, runs>>
      /\ a \notin lost /\ lost \subseteq Action
      /\ lost' = lost \/ (~ReadNew(a) /\ lost' = lost \union {a})
  BY DEF TypeOK, ReadNew, ReplyLost, LosesPeer, manager
<1>2. reader' = [reader EXCEPT ![a] = r]
  <2>1. CASE ReadNew(a)
    BY <2>1 DEF ReadNew
  <2>2. CASE ~ReadNew(a) /\ a \in lost'
    BY <1>1, <2>2 DEF ReplyLost, LosesPeer
  <2>3. CASE ~ReadNew(a) /\ a \notin lost'
    BY <1>1, <2>3 DEF ReplyLost, LosesPeer
  <2> QED BY <2>1, <2>2, <2>3
<1>3. /\ delivered' \in 0..added /\ delivered \in Nat /\ delivered =< delivered'
      /\ Fresh \subseteq Msg
      /\ \A m \in Fresh : delivered < m /\ m =< delivered'
      /\ \A m \in Msg : delivered < m /\ m =< delivered' => m \in Fresh
  <2>1. delivered \in Nat
    BY SMT DEF TypeOK
  <2> QED BY <1>1, <2>1, FreshFacts
<1>4. /\ r \in Reader /\ r.pending_ = reader[a].pending_
      /\ \/ r.at = "append" /\ r.msgs = Fresh
         \/ r.at = "ended" /\ r.msgs = reader[a].msgs
         \/ r.at = "read" /\ r.msgs = reader[a].msgs /\ a \in lost'
      /\ r.old => reader[a].old /\ r.msgs = reader[a].msgs
  <2> DEFINE F == Fresh
  <2>1. F \in SUBSET Msg
    BY <1>3
  <2> HIDE DEF F
  <2>2. CASE ReadNew(a)
    <3> DEFINE x == [reader[a] EXCEPT !.at = "append", !.msgs = F, !.old = FALSE]
    <3>1. x \in Reader
      BY <1>1, <2>1, Zenon DEF Reader
    <3>2. x.at = "append" /\ x.msgs = F /\ x.pending_ = reader[a].pending_ /\ ~x.old
      BY <1>1, <2>1, Zenon DEF Reader
    <3>3. r = x
      BY <2>2 DEF F
    <3> HIDE DEF x, r
    <3> QED BY <3>1, <3>2, <3>3, Zenon DEF F
  <2>4. CASE ~ReadNew(a) /\ a \in lost'
    <3>1. r = reader[a]
      BY <2>4
    <3> HIDE DEF r
    <3> QED BY <1>1, <2>4, <3>1
  <2>3. CASE ~ReadNew(a) /\ a \notin lost'
    <3> DEFINE x == [reader[a] EXCEPT !.at = "ended", !.status_ = "FATAL"]
    <3>1. x \in Reader
      BY <1>1, Zenon DEF Reader
    <3>2. /\ x.at = "ended" /\ x.msgs = reader[a].msgs /\ x.pending_ = reader[a].pending_
          /\ x.old = reader[a].old
      BY <1>1, Zenon DEF Reader
    <3>3. r = x
      BY <2>3
    <3> HIDE DEF x, r
    <3> QED BY <3>1, <3>2, <3>3, Zenon
  <2> QED BY <2>2, <2>3, <2>4
<1> HIDE DEF r
<1>5. /\ reader' \in [Action -> Reader] /\ reader'[a] = r
      /\ \A b \in Action : b # a => reader'[b] = reader[b]
  BY <1>1, <1>2, <1>4, OneReader
<1>6. \/ pendingList' = pendingList /\ noack' = noack \union Fresh
      \/ noack' = noack /\ pendingList' = [pendingList EXCEPT ![a] = @ \union Fresh]
  BY <1>1 DEF Deliver
<1>7. /\ noack' \subseteq Msg /\ noack \subseteq noack' /\ noack' \subseteq noack \union Fresh
      /\ pendingList \in [Action -> SUBSET Msg] /\ pendingList' \in [Action -> SUBSET Msg]
      /\ \A b \in Action : pendingList[b] \subseteq pendingList'[b]
      /\ \A b \in Action : b # a => pendingList'[b] = pendingList[b]
      /\ pendingList'[a] \subseteq pendingList[a] \union Fresh
      /\ \/ noack' = noack /\ Fresh \subseteq pendingList'[a]
         \/ pendingList' = pendingList /\ Fresh \subseteq noack'
  BY <1>3, <1>6, SMT DEF TypeOK
<1>8. TypeOK'
  BY <1>1, <1>3, <1>5, <1>7, SMT DEF TypeOK
<1>9. copies \in [Msg -> Nat] /\ added \in 0..MaxMsg /\ \A m \in Msg : m \in Nat
  BY SMT DEF TypeOK, Msg
<1>10. Bounded'
  <2>1. \A m \in Fresh : m =< delivered' /\ m \in Msg
    BY <1>3
  <2>2. \A m \in Msg : m =< delivered => m =< delivered'
    BY <1>3, <1>9, SMT
  <2>3. \A m \in noack' : m =< delivered'
    BY <1>7, <2>1, <2>2 DEF Bounded, TypeOK
  <2>4. ASSUME NEW b \in Action, NEW m \in pendingList'[b] PROVE m =< delivered'
    BY <1>7, <2>1, <2>2 DEF Bounded, TypeOK
  <2>5. ASSUME NEW b \in Action, NEW m \in reader'[b].msgs PROVE m =< delivered'
    <3>1. reader[b].msgs \subseteq Msg
      BY <1>1, SMT DEF Reader
    <3> QED BY <1>4, <1>5, <2>1, <2>2, <3>1 DEF Bounded
  <2>6. \A m \in Msg : copies'[m] > 0 => m =< delivered'
    BY <1>1, <2>2 DEF Bounded
  <2> QED BY <2>3, <2>4, <2>5, <2>6 DEF Bounded
<1>11. NothingLost'
  <2>1. SUFFICES ASSUME NEW m \in 1..delivered'
                 PROVE  m \in noack' \/ copies'[m] > 0 \/ \E b \in Action : m \in pendingList'[b]
    BY DEF NothingLost
  <2>2. m \in Msg /\ (m \in 1..delivered \/ delivered < m) /\ m =< delivered'
    BY <1>3, <1>9, ConstantsAssumption, SMT DEF Msg
  <2>3. CASE m \in 1..delivered
    BY <1>1, <1>7, <2>3 DEF NothingLost
  <2>4. CASE m \in Fresh
    BY <1>7, <2>4
  <2> QED BY <1>3, <2>2, <2>3, <2>4
<1>12. \A m \in Fresh : copies[m] = 0 /\ m \notin noack
  BY <1>3, <1>9, SMT DEF Bounded
<1>13. \A m \in Fresh, b \in Action : m \notin pendingList[b] /\ m \notin reader[b].msgs
  BY <1>3, <1>9, SMT DEF Bounded
<1>14. NoAckAtMostOnce'
  <2>1. SUFFICES ASSUME NEW m \in noack'
                 PROVE  copies'[m] =< 1 /\ \A b \in Action : m \notin pendingList'[b]
    BY DEF NoAckAtMostOnce
  <2>2. copies'[m] =< 1
    BY <1>1, <1>7, <1>12, SMT DEF NoAckAtMostOnce
  <2>3. \A n \in noack, b \in Action : n \notin pendingList[b]
    BY DEF NoAckAtMostOnce
  <2>4. ASSUME NEW b \in Action PROVE m \notin pendingList'[b]
    <3>1. CASE m \in Fresh
      <4>1. pendingList' = pendingList \/ m \in noack
        BY <1>7, <2>1
      <4> QED BY <1>12, <1>13, <3>1, <4>1
    <3>2. CASE m \notin Fresh
      <4>1. m \notin pendingList[b]
        BY <1>7, <2>3, <3>2
      <4> QED BY <1>7, <3>2, <4>1
    <3> QED BY <3>1, <3>2
  <2> QED BY <2>2, <2>4
<1>15. InOneHand'
  <2>1. SUFFICES ASSUME NEW b \in Action, NEW m \in noack', m \in reader'[b].msgs
                 PROVE  /\ ~reader'[b].old /\ reader'[b].at # "ack" /\ copies'[m] = 0
                        /\ \A c \in Action : m \in reader'[c].msgs => c = b
    BY DEF InOneHand
  <2>2. CASE m \in Fresh
    <3>1. b = a /\ ~r.old /\ r.at # "ack"
      BY <1>4, <1>5, <1>13, <2>1, <2>2
    <3>2. \A c \in Action : m \in reader'[c].msgs => c = a
      BY <1>5, <1>13, <2>2
    <3> QED BY <1>1, <1>5, <1>12, <2>2, <3>1, <3>2
  <2>3. CASE m \notin Fresh
    <3>1. m \in noack
      BY <1>7, <2>3
    <3>2. \A c \in Action : m \in reader'[c].msgs => m \in reader[c].msgs
      BY <1>4, <1>5, <2>3
    <3>3. /\ m \in reader[b].msgs /\ ~reader[b].old /\ reader[b].at # "ack" /\ copies[m] = 0
          /\ \A c \in Action : m \in reader[c].msgs => c = b
      BY <2>1, <3>1, <3>2 DEF InOneHand
    <3>4. ~reader'[b].old /\ reader'[b].at # "ack"
      BY <1>4, <1>5, <3>3
    <3> QED BY <1>1, <3>2, <3>3, <3>4
  <2> QED BY <2>2, <2>3
<1>16. AckAfterAppend' /\ OneThread'
  BY <1>1, <1>4, <1>5, SMT DEF AckAfterAppend, OneThread
<1>17. PendingComesFirst'
  <2>1. SUFFICES ASSUME NEW b \in Action, reader'[b].pending_,
                        \/ reader'[b].at \in {"loop", "ack", "append"}
                        \/ reader'[b].at = "read" /\ b \notin lost',
                        NEW m \in pendingList'[b]
                 PROVE  copies'[m] > 0 \/ (reader'[b].at = "append" /\ m \in reader'[b].msgs)
    BY DEF PendingComesFirst
  <2>2. CASE b # a
    BY <1>1, <1>5, <1>7, <2>1, <2>2, SMT DEF PendingComesFirst
  <2>3. CASE b = a
    <3>1. r.pending_ /\ r.at = "append" /\ r.msgs = Fresh
      BY <1>4, <1>5, <2>1, <2>3, SMT
    <3>2. CASE m \in Fresh
      BY <1>5, <2>3, <3>1, <3>2
    <3>3. CASE m \in pendingList[a]
      BY <1>1, <1>4, <3>1, <3>3 DEF PendingComesFirst
    <3> QED BY <1>7, <2>1, <2>3, <3>2, <3>3
  <2> QED BY <2>2, <2>3
<1> QED BY <1>8, <1>10, <1>11, <1>14, <1>15, <1>16, <1>17

\* The batch is appended; what was read with NOACK leaves its hand.
LEMMA AppendTableInv ==
  ASSUME IInv, NEW a \in Action, AppendTable(a)
  PROVE  IInv'
<1> DEFINE M == reader[a].msgs
           ack == reader[a].old /\ reader[a].autoAck_
           r == [reader[a] EXCEPT !.at = IF ack THEN "ack" ELSE "loop",
                                  !.msgs = IF ack THEN @ ELSE {}, !.old = ack]
<1> USE DEF IInv
<1>1. /\ reader \in [Action -> Reader] /\ reader[a] \in Reader /\ reader[a].at = "append"
      /\ reader' = [reader EXCEPT ![a] = r]
      /\ copies' = [m \in Msg |-> IF m \in M THEN copies[m] + 1 ELSE copies[m]]
      /\ UNCHANGED <<added, delivered, pendingList, subscriptions_, mutex_, lost, noack, runs>>
  BY DEF TypeOK, AppendTable, redis, manager, history
<1>2. /\ r \in Reader /\ r.pending_ = reader[a].pending_
      /\ \/ r.at = "ack" /\ r.msgs = M /\ reader[a].old
         \/ r.at = "loop" /\ r.msgs = {}
  <2>1. M \in SUBSET Msg
    BY <1>1, SMT DEF Reader
  <2>2. CASE ack
    <3> DEFINE x == [reader[a] EXCEPT !.at = "ack", !.msgs = M, !.old = TRUE]
    <3>1. x \in Reader
      BY <1>1, <2>1, Zenon DEF Reader
    <3>2. x.at = "ack" /\ x.msgs = M /\ x.pending_ = reader[a].pending_
      BY <1>1, Zenon DEF Reader
    <3>3. ack = TRUE
      BY <2>2
    <3>4. r = x
      BY <2>2, <3>3
    <3> HIDE DEF x, r
    <3> QED BY <2>2, <3>1, <3>2, <3>4, Zenon
  <2>3. CASE ~ack
    <3> DEFINE x == [reader[a] EXCEPT !.at = "loop", !.msgs = {}, !.old = FALSE]
    <3>1. x \in Reader
      BY <1>1, Zenon DEF Reader
    <3>2. x.at = "loop" /\ x.msgs = {} /\ x.pending_ = reader[a].pending_
      BY <1>1, Zenon DEF Reader
    <3>3. ack = FALSE
      BY <2>3
    <3>4. r = x
      BY <2>3, <3>3
    <3> HIDE DEF x, r
    <3> QED BY <3>1, <3>2, <3>4, Zenon
  <2> QED BY <2>2, <2>3
<1> HIDE DEF r
<1>3. /\ reader' \in [Action -> Reader] /\ reader'[a] = r
      /\ \A b \in Action : b # a => reader'[b] = reader[b]
  BY <1>1, <1>2, OneReader
<1>4. /\ copies' \in [Msg -> Nat]
      /\ \A m \in Msg : m \in M => copies'[m] > 0
      /\ \A m \in Msg : copies[m] > 0 => copies'[m] > 0
      /\ \A m \in Msg : m \notin M => copies'[m] = copies[m]
      /\ \A m \in Msg : copies[m] = 0 => copies'[m] =< 1
  <2> HIDE DEF M
  <2>1. copies \in [Msg -> Nat]
    BY DEF TypeOK
  <2> QED BY <1>1, <2>1, SMT
<1>5. /\ M \subseteq Msg /\ noack \subseteq Msg /\ (\A b \in Action : pendingList[b] \subseteq Msg)
      /\ \A m \in 1..delivered : m \in Msg
  BY <1>1, ConstantsAssumption, SMT DEF TypeOK, Reader, Msg
<1> HIDE DEF M
<1>6. TypeOK'
  BY <1>1, <1>3, <1>4, SMT DEF TypeOK
<1>7. \A m \in M : m =< delivered
  BY DEF Bounded, M
<1>8. Bounded'
  <2>1. \A m \in Msg : copies'[m] > 0 => m =< delivered
    BY <1>4, <1>7, SMT DEF Bounded
  <2>2. ASSUME NEW b \in Action, NEW m \in reader'[b].msgs PROVE m =< delivered
    <3>1. CASE b = a
      BY <1>2, <1>3, <1>7, <2>2, <3>1
    <3>2. CASE b # a
      BY <1>3, <2>2, <3>2 DEF Bounded
    <3> QED BY <3>1, <3>2
  <2>3. /\ \A m \in noack : m =< delivered
        /\ \A b \in Action : \A m \in pendingList[b] : m =< delivered
    BY DEF Bounded
  <2> QED BY <1>1, <2>1, <2>2, <2>3 DEF Bounded
<1>9. NothingLost'
  <2>1. SUFFICES ASSUME NEW m \in 1..delivered
                 PROVE  m \in noack \/ copies'[m] > 0 \/ \E b \in Action : m \in pendingList[b]
    BY <1>1 DEF NothingLost
  <2> QED BY <1>4, <1>5 DEF NothingLost
<1>10. NoAckAtMostOnce'
  <2>1. SUFFICES ASSUME NEW m \in noack
                 PROVE  copies'[m] =< 1 /\ \A b \in Action : m \notin pendingList[b]
    BY <1>1 DEF NoAckAtMostOnce
  <2>2. /\ m \in Msg /\ copies[m] =< 1 /\ \A b \in Action : m \notin pendingList[b]
    BY <1>5 DEF NoAckAtMostOnce
  <2>3. CASE m \in M
    <3>1. copies[m] = 0
      BY <2>3 DEF InOneHand, M
    <3> QED BY <1>4, <2>2, <3>1
  <2>4. CASE m \notin M
    BY <1>4, <2>2, <2>4
  <2> QED BY <2>3, <2>4
<1>11. InOneHand'
  <2>1. SUFFICES ASSUME NEW b \in Action, NEW m \in noack, m \in reader'[b].msgs
                 PROVE  /\ ~reader'[b].old /\ reader'[b].at # "ack" /\ copies'[m] = 0
                        /\ \A c \in Action : m \in reader'[c].msgs => c = b
    BY <1>1 DEF InOneHand
  <2>2. m \notin r.msgs
    <3>1. CASE m \in M
      BY <1>2, <3>1 DEF InOneHand, M
    <3>2. CASE m \notin M
      BY <1>2, <3>2
    <3> QED BY <3>1, <3>2
  <2>3. b # a /\ m \in reader[b].msgs
    BY <1>3, <2>1, <2>2
  <2>4. /\ ~reader[b].old /\ reader[b].at # "ack" /\ copies[m] = 0
        /\ \A c \in Action : m \in reader[c].msgs => c = b
    BY <2>3 DEF InOneHand
  <2>5. m \notin M /\ m \in Msg
    BY <1>5, <2>3, <2>4 DEF M
  <2>6. \A c \in Action : m \in reader'[c].msgs => c = b
    BY <1>3, <2>2, <2>4
  <2> QED BY <1>3, <1>4, <2>3, <2>4, <2>5, <2>6
<1>12. AckAfterAppend'
  <2>1. SUFFICES ASSUME NEW b \in Action, reader'[b].at = "ack", NEW m \in reader'[b].msgs
                 PROVE  copies'[m] > 0
    BY DEF AckAfterAppend
  <2>2. CASE b = a
    BY <1>2, <1>3, <1>4, <1>5, <2>1, <2>2
  <2>3. CASE b # a
    <3>1. m \in Msg /\ copies[m] > 0
      BY <1>1, <1>3, <2>1, <2>3, SMT DEF AckAfterAppend, Reader
    <3> QED BY <1>4, <3>1
  <2> QED BY <2>2, <2>3
<1>13. PendingComesFirst'
  <2>1. SUFFICES ASSUME NEW b \in Action, reader'[b].pending_,
                        \/ reader'[b].at \in {"loop", "ack", "append"}
                        \/ reader'[b].at = "read" /\ b \notin lost',
                        NEW m \in pendingList[b]
                 PROVE  copies'[m] > 0 \/ (reader'[b].at = "append" /\ m \in reader'[b].msgs)
    BY <1>1 DEF PendingComesFirst
  <2>2. m \in Msg
    BY <1>5
  <2>3. CASE b = a
    <3>1. copies[m] > 0 \/ m \in M
      BY <1>1, <1>2, <1>3, <2>1, <2>3, SMT DEF PendingComesFirst, M
    <3> QED BY <1>4, <2>2, <3>1
  <2>4. CASE b # a
    <3>1. copies[m] > 0 \/ (reader[b].at = "append" /\ m \in reader[b].msgs)
      BY <1>1, <1>3, <2>1, <2>4 DEF PendingComesFirst
    <3> QED BY <1>3, <1>4, <2>2, <2>4, <3>1
  <2> QED BY <2>3, <2>4
<1>14. OneThread'
  BY <1>1, <1>2, <1>3, SMT DEF OneThread
<1> QED BY <1>6, <1>8, <1>9, <1>10, <1>11, <1>12, <1>13, <1>14

\* XACK, whether or not its reply arrives: only what is in the table.
LEMMA AckInv ==
  ASSUME IInv, NEW a \in Action, AckMessages(a) \/ AckLost(a)
  PROVE  IInv'
<1> DEFINE M == reader[a].msgs
           r == IF AckMessages(a)
                THEN [reader[a] EXCEPT !.at = "loop", !.msgs = {}, !.old = FALSE]
                ELSE IF a \in lost' THEN reader[a]
                ELSE [reader[a] EXCEPT !.at = "ended", !.status_ = "FATAL",
                                       !.msgs = {}, !.old = FALSE]
<1> USE DEF IInv
<1>1. /\ reader \in [Action -> Reader] /\ reader[a] \in Reader /\ reader[a].at = "ack"
      /\ pendingList' = [pendingList EXCEPT ![a] = @ \ M]
      /\ UNCHANGED <<added, delivered, subscriptions_, mutex_, copies, noack, runs>>
      /\ a \notin lost /\ lost \subseteq Action
      /\ lost' = lost \/ (~AckMessages(a) /\ lost' = lost \union {a})
  BY DEF TypeOK, AckMessages, AckLost, LosesPeer, manager, history
<1>2. reader' = [reader EXCEPT ![a] = r]
  <2>1. CASE AckMessages(a)
    BY <2>1 DEF AckMessages
  <2>2. CASE ~AckMessages(a) /\ a \in lost'
    BY <1>1, <2>2 DEF AckLost, LosesPeer
  <2>3. CASE ~AckMessages(a) /\ a \notin lost'
    BY <1>1, <2>3 DEF AckLost, LosesPeer
  <2> QED BY <2>1, <2>2, <2>3
<1>3. /\ r \in Reader /\ r.pending_ = reader[a].pending_
      /\ (r.at \in {"loop", "ended"} /\ r.msgs = {}) \/ r = reader[a]
  <2>1. CASE AckMessages(a)
    <3> DEFINE x == [reader[a] EXCEPT !.at = "loop", !.msgs = {}, !.old = FALSE]
    <3>1. x \in Reader
      BY <1>1, Zenon DEF Reader
    <3>2. x.at = "loop" /\ x.msgs = {} /\ x.pending_ = reader[a].pending_
      BY <1>1, Zenon DEF Reader
    <3>3. r = x
      BY <2>1
    <3> HIDE DEF x, r
    <3> QED BY <3>1, <3>2, <3>3, Zenon
  <2>3. CASE ~AckMessages(a) /\ a \in lost'
    <3>1. r = reader[a]
      BY <2>3
    <3> HIDE DEF r
    <3> QED BY <1>1, <3>1
  <2>2. CASE ~AckMessages(a) /\ a \notin lost'
    <3> DEFINE x == [reader[a] EXCEPT !.at = "ended", !.status_ = "FATAL",
                                      !.msgs = {}, !.old = FALSE]
    <3>1. x \in Reader
      BY <1>1, Zenon DEF Reader
    <3>2. x.at = "ended" /\ x.msgs = {} /\ x.pending_ = reader[a].pending_
      BY <1>1, Zenon DEF Reader
    <3>3. r = x
      BY <2>2
    <3> HIDE DEF x, r
    <3> QED BY <3>1, <3>2, <3>3, Zenon
  <2> QED BY <2>1, <2>2, <2>3
<1> HIDE DEF r
<1>4. /\ reader' \in [Action -> Reader] /\ reader'[a] = r
      /\ \A b \in Action : b # a => reader'[b] = reader[b]
  BY <1>1, <1>2, <1>3, OneReader
<1>5. \A m \in M : copies[m] > 0
  BY <1>1 DEF AckAfterAppend
<1> HIDE DEF M
<1>6. /\ pendingList \in [Action -> SUBSET Msg] /\ pendingList' \in [Action -> SUBSET Msg]
      /\ \A b \in Action : pendingList'[b] \subseteq pendingList[b]
      /\ \A b \in Action, m \in Msg : m \in pendingList[b] => m \in pendingList'[b] \/ m \in M
  BY <1>1, SMT DEF TypeOK
<1>7. TypeOK'
  BY <1>1, <1>4, <1>6, SMT DEF TypeOK
<1>8. Bounded' /\ NoAckAtMostOnce'
  BY <1>1, <1>3, <1>4, <1>6, SMT DEF Bounded, NoAckAtMostOnce
<1>9. NothingLost'
  <2>1. SUFFICES ASSUME NEW m \in 1..delivered
                 PROVE  m \in noack \/ copies[m] > 0 \/ \E b \in Action : m \in pendingList'[b]
    BY <1>1 DEF NothingLost
  <2>2. m \in Msg
    BY ConstantsAssumption, SMT DEF TypeOK, Msg
  <2> QED BY <1>5, <1>6, <2>2 DEF NothingLost
<1>10. InOneHand'
  BY <1>1, <1>3, <1>4, SMT DEF InOneHand
<1>11. AckAfterAppend' /\ OneThread'
  BY <1>1, <1>3, <1>4, SMT DEF AckAfterAppend, OneThread
<1>12. PendingComesFirst'
  BY <1>1, <1>3, <1>4, <1>6, SMT DEF PendingComesFirst
<1> QED BY <1>7, <1>8, <1>9, <1>10, <1>11, <1>12

\* A script acknowledges what it has found in the table.
LEMMA StreamAckInv ==
  ASSUME IInv, NEW a \in Action, NEW m \in Msg, StreamAck(a, m)
  PROVE  IInv'
<1> USE DEF IInv, StreamAck, manager, history
<1>1. /\ pendingList \in [Action -> SUBSET Msg] /\ pendingList' \in [Action -> SUBSET Msg]
      /\ \A b \in Action : pendingList'[b] \subseteq pendingList[b]
      /\ \A b \in Action, n \in Msg : n \in pendingList[b] => n \in pendingList'[b] \/ n = m
  BY SMT DEF TypeOK
<1>2. TypeOK'
  BY <1>1, SMT DEF TypeOK
<1>3. Bounded' /\ NoAckAtMostOnce'
  BY <1>1, SMT DEF Bounded, NoAckAtMostOnce
<1>4. NothingLost'
  <2>1. SUFFICES ASSUME NEW n \in 1..delivered
                 PROVE  n \in noack \/ copies[n] > 0 \/ \E b \in Action : n \in pendingList'[b]
    BY DEF NothingLost
  <2>2. n \in Msg
    BY ConstantsAssumption, SMT DEF TypeOK, Msg
  <2> QED BY <1>1, <2>2 DEF NothingLost
<1>5. InOneHand' /\ AckAfterAppend' /\ OneThread'
  BY SMT DEF InOneHand, AckAfterAppend, OneThread
<1>6. PendingComesFirst'
  BY <1>1, SMT DEF PendingComesFirst
<1> QED BY <1>2, <1>3, <1>4, <1>5, <1>6

LEMMA AddEntryInv ==
  ASSUME IInv, AddEntry
  PROVE  IInv'
<1> USE DEF IInv, AddEntry, manager, history
<1>1. TypeOK'
  BY ConstantsAssumption, SMT DEF TypeOK
<1>2. Bounded' /\ NothingLost' /\ NoAckAtMostOnce'
  BY DEF Bounded, NothingLost, NoAckAtMostOnce
<1>3. InOneHand' /\ AckAfterAppend' /\ PendingComesFirst' /\ OneThread'
  BY DEF InOneHand, AckAfterAppend, PendingComesFirst, OneThread
<1> QED BY <1>1, <1>2, <1>3

\* A lost peer takes nothing with it.
LEMMA LosePeerInv ==
  ASSUME IInv, NEW a \in Action, LosePeer(a)
  PROVE  IInv'
<1> USE DEF IInv, LosePeer, LosesPeer, redis, manager, history
<1>1. TypeOK'
  BY SMT DEF TypeOK
<1>2. Bounded' /\ NothingLost' /\ NoAckAtMostOnce'
  BY DEF Bounded, NothingLost, NoAckAtMostOnce
<1>3. InOneHand' /\ AckAfterAppend' /\ PendingComesFirst' /\ OneThread'
  BY DEF InOneHand, AckAfterAppend, PendingComesFirst, OneThread
<1> QED BY <1>1, <1>2, <1>3

\* What a crash leaves is in Redis and in the table.
LEMMA CrashInv ==
  ASSUME IInv, Crash
  PROVE  IInv'
<1> USE DEF IInv, Crash, redis, history
<1>1. NoReader \in Reader /\ NoReader.at = "none" /\ NoReader.msgs = {}
  BY SMT DEF NoReader, Reader
<1>2. \A a \in Action : reader'[a] = NoReader
  OBVIOUS
<1>3. TypeOK'
  BY <1>1, SMT DEF TypeOK
<1>4. Bounded' /\ NothingLost' /\ NoAckAtMostOnce'
  BY <1>1, <1>2 DEF Bounded, NothingLost, NoAckAtMostOnce
<1>5. InOneHand' /\ AckAfterAppend' /\ PendingComesFirst' /\ OneThread'
  BY <1>1, <1>2, SMT DEF InOneHand, AckAfterAppend, PendingComesFirst, OneThread
<1> QED BY <1>3, <1>4, <1>5

LEMMA StepInv == IInv /\ [Next]_vars => IInv'
<1> SUFFICES ASSUME IInv, [Next]_vars PROVE IInv'
  OBVIOUS
<1>1. ASSUME NEW a \in Action, NEW p \in BOOLEAN, NEW k \in BOOLEAN, SubscribeStream(a, p, k)
      PROVE  IInv'
  BY <1>1, SubscribeInv
<1>2. ASSUME NEW a \in Action, Stop(a) PROVE IInv'
  BY <1>2, StopInv
<1>3. ASSUME NEW a \in Action, Joined(a) PROVE IInv'
  BY <1>3, JoinedInv
<1>4. ASSUME NEW a \in Action, ReaderStep(a) PROVE IInv'
  BY <1>4, ReadPendingInv, TurnInv, DeliverInv, EndInv, AppendTableInv, AckInv DEF ReaderStep
<1>5. ASSUME NEW a \in Action, Fail(a) PROVE IInv'
  BY <1>5, EndInv
<1>6. ASSUME NEW a \in Action, ReplyLost(a) \/ AckLost(a) \/ LosePeer(a) PROVE IInv'
  BY <1>6, DeliverInv, AckInv, LosePeerInv
<1>7. ASSUME NEW a \in Action, NEW m \in Msg, StreamAck(a, m) PROVE IInv'
  BY <1>7, StreamAckInv
<1>8. CASE AddEntry
  BY <1>8, AddEntryInv
<1>9. CASE Crash
  BY <1>9, CrashInv
<1>10. CASE UNCHANGED vars
  <2> USE <1>10 DEF IInv, vars, redis, manager, history
  <2>1. TypeOK' /\ Bounded' /\ NothingLost' /\ NoAckAtMostOnce'
    BY DEF TypeOK, Bounded, NothingLost, NoAckAtMostOnce
  <2>2. InOneHand' /\ AckAfterAppend' /\ PendingComesFirst' /\ OneThread'
    BY DEF InOneHand, AckAfterAppend, PendingComesFirst, OneThread
  <2> QED BY <2>1, <2>2
<1> QED
  BY <1>1, <1>2, <1>3, <1>4, <1>5, <1>6, <1>7, <1>8, <1>9, <1>10 DEF Next

-----------------------------------------------------------------------------
\* The inductive invariant.
THEOREM Invariance == Spec => []IInv
<1>1. Init => IInv
  BY InitInv
<1>2. IInv /\ [Next]_vars => IInv'
  BY StepInv
<1> QED BY <1>1, <1>2, PTL DEF Spec

\* The state is what the declarations of StreamJobManager and of a
\* StreamSubscription say, and Redis never gives out what it does not have.
THEOREM TypeCorrect == Spec => []TypeOK
<1>1. IInv => TypeOK
  BY DEF IInv
<1> QED BY <1>1, Invariance, PTL

\* Whatever fails in streamReaderThread, and whenever the server crashes, an
\* entry that was read without NOACK is in the output table or pending.
THEOREM ReadIsNotLost == Spec => []NothingLost
<1>1. IInv => NothingLost
  BY DEF IInv
<1> QED BY <1>1, Invariance, PTL

\* An entry that was read with NOACK is appended at most once, over all the
\* subscriptions that are made.
THEOREM NoAckOnce == Spec => []NoAckAtMostOnce
<1>1. IInv => NoAckAtMostOnce
  BY DEF IInv
<1> QED BY <1>1, Invariance, PTL

\* streamReaderThread reads new entries only after it has appended all the
\* pending ones.
THEOREM PendingIsFirst == Spec => []PendingFirst
<1>1. IInv => PendingFirst
  BY SMT DEF IInv, PendingComesFirst, PendingFirst
<1> QED BY <1>1, Invariance, PTL

\* removeSubscription and redisStreamSubscribeImpl keep one thread to a name.
THEOREM ThreadAndName == Spec => []OneThread
<1>1. IInv => OneThread
  BY DEF IInv
<1> QED BY <1>1, Invariance, PTL

-----------------------------------------------------------------------------
(***************************************************************************)
(* RedisPubSub: none of its variables and constants is one of RedisStream. *)
(***************************************************************************)
\* The ids of a sequence of messages ascend; those of s come before those of t.
Ascending(s) == \A i, j \in 1..Len(s) : i < j => s[i].id < s[j].id
Precede(s, t) == \A i \in 1..Len(s), j \in 1..Len(t) : s[i].id < t[j].id
UpTo(s, n) == \A i \in 1..Len(s) : s[i].id =< n

\* What the listener has read and not yet pushed.
InHand == IF listener.at = "received" THEN <<listener.msg>> ELSE << >>

\* The five places where a message is on its way, in their order.
Way(h, b, q, m, s) ==
    /\ Ascending(h) /\ Ascending(b) /\ Ascending(q) /\ Ascending(m) /\ Ascending(s)
    /\ Precede(h, b) /\ Precede(h, q) /\ Precede(h, m) /\ Precede(h, s)
    /\ Precede(b, q) /\ Precede(b, m) /\ Precede(b, s)
    /\ Precede(q, m) /\ Precede(q, s)
    /\ Precede(m, s)

\* Nothing that is on its way was published later than the last message.
Past(h, b, q, m, s, n) ==
    /\ UpTo(h, n) /\ UpTo(b, n) /\ UpTo(q, n) /\ UpTo(m, n) /\ UpTo(s, n)

\* Without a session there are no threads, and Redis knows of no channel; the
\* handler holds messages during its calls only.
Places ==
    /\ ~session_ => listener.at = "none" /\ handler.at = "none" /\ subscribed = {} /\ socket = << >>
    /\ listener.at = "reconnect" => subscribed = {} /\ socket = << >>
    /\ listener.at = "received" => listener.msg \in Message
    /\ handler.at # "call" => handler.batch = << >>
    /\ handler.at = "call" => handler.batch # << >>

\* Unless the connection has to be made anew, nothing is sent or in hand but of
\* the channels of the command.
Wanted ==
    isChanged_ \/ /\ subscribed \subseteq channelStr_
                  /\ \A i \in 1..Len(socket) : socket[i].channel \in channelStr_
                  /\ listener.at = "received" => listener.msg.channel \in channelStr_

\* The records of the two threads.
Threads == listener = [at |-> listener.at, msg |-> listener.msg]
           /\ handler = [at |-> handler.at, batch |-> handler.batch]

PubSubInv ==
    /\ PubSubTypeOK /\ Threads /\ Places /\ Wanted
    /\ Way(handled, handler.batch, msgQueue_, InHand, socket)
    /\ Past(handled, handler.batch, msgQueue_, InHand, socket, published)

\* Sequences of messages: what is joined, taken off, and put together.
LEMMA JoinFacts ==
    ASSUME NEW M, NEW s \in Seq(M), NEW t \in Seq(M), Ascending(s), Ascending(t), Precede(s, t)
    PROVE  Ascending(s \o t)
  BY DEF Ascending, Precede

LEMMA JoinOrder ==
    ASSUME NEW M, NEW s \in Seq(M), NEW t \in Seq(M), NEW u \in Seq(M)
    PROVE  /\ Precede(s, u) /\ Precede(t, u) => Precede(s \o t, u)
           /\ Precede(u, s) /\ Precede(u, t) => Precede(u, s \o t)
           /\ \A n : UpTo(s, n) /\ UpTo(t, n) => UpTo(s \o t, n)
PROOF
  <1> DEFINE r == s \o t
  <1>1. /\ Len(s) \in Nat /\ Len(t) \in Nat /\ Len(r) = Len(s) + Len(t)
        /\ \A i \in 1..Len(r) : r[i] = IF i =< Len(s) THEN s[i] ELSE t[i - Len(s)]
    OBVIOUS
  <1> HIDE DEF r
  <1>2. \A i \in 1..Len(r) : \/ i \in 1..Len(s) /\ r[i] = s[i]
                             \/ i - Len(s) \in 1..Len(t) /\ r[i] = t[i - Len(s)]
    BY <1>1
  <1>3. Precede(s, u) /\ Precede(t, u) => Precede(r, u)
    BY <1>2 DEF Precede
  <1>4. Precede(u, s) /\ Precede(u, t) => Precede(u, r)
    BY <1>2 DEF Precede
  <1>5. ASSUME NEW n, UpTo(s, n), UpTo(t, n) PROVE UpTo(r, n)
    BY <1>2, <1>5 DEF UpTo
  <1> QED
    BY <1>3, <1>4, <1>5 DEF r

LEMMA EmptyFacts ==
    ASSUME NEW M, NEW s \in Seq(M)
    PROVE  /\ Ascending(<< >>) /\ Precede(<< >>, s) /\ Precede(s, << >>)
           /\ \A n : UpTo(<< >>, n)
  BY DEF Ascending, Precede, UpTo

\* The first message and the rest.
LEMMA HeadFacts ==
    ASSUME NEW M, NEW s \in Seq(M), s # << >>, NEW u \in Seq(M)
    PROVE  /\ Head(s) \in M /\ Tail(s) \in Seq(M) /\ <<Head(s)>> \in Seq(M)
           /\ Ascending(<<Head(s)>>)
           /\ Ascending(s) => Ascending(Tail(s)) /\ Precede(<<Head(s)>>, Tail(s))
           /\ Precede(u, s) => Precede(u, <<Head(s)>>) /\ Precede(u, Tail(s))
           /\ Precede(s, u) => Precede(<<Head(s)>>, u) /\ Precede(Tail(s), u)
           /\ \A n : UpTo(s, n) => UpTo(<<Head(s)>>, n) /\ UpTo(Tail(s), n)
           /\ Len(s) = 1 => Tail(s) = << >>
           /\ Len(s) # 1 => Tail(s) # << >>
PROOF
  <1> DEFINE t == Tail(s)
             h == <<Head(s)>>
  <1>1. /\ t \in Seq(M) /\ Len(t) = Len(s) - 1 /\ \A i \in 1..Len(t) : t[i] = s[i + 1]
        /\ Head(s) = s[1] /\ s[1] \in M /\ Len(s) \in Nat \ {0}
    OBVIOUS
  <1>2. h \in Seq(M) /\ Len(h) = 1 /\ h[1] = s[1]
    BY <1>1
  <1> HIDE DEF t, h
  <1>3. \A i \in 1..Len(t) : i + 1 \in 1..Len(s)
    BY <1>1
  <1>4. \A i \in 1..Len(h) : i = 1
    BY <1>2
  <1>5. Ascending(h)
    BY <1>4 DEF Ascending
  <1>6. Ascending(s) => Ascending(t)
    <2> SUFFICES ASSUME Ascending(s), NEW i \in 1..Len(t), NEW j \in 1..Len(t), i < j
                 PROVE  t[i].id < t[j].id
      BY DEF Ascending
    <2>1. i + 1 \in 1..Len(s) /\ j + 1 \in 1..Len(s) /\ i + 1 < j + 1
      BY <1>1, <1>3
    <2>2. s[i + 1].id < s[j + 1].id
      BY <2>1 DEF Ascending
    <2> QED
      BY <1>1, <2>2
  <1>7. Ascending(s) => Precede(h, t)
    <2> SUFFICES ASSUME Ascending(s), NEW i \in 1..Len(h), NEW j \in 1..Len(t)
                 PROVE  h[i].id < t[j].id
      BY DEF Precede
    <2>1. 1 \in 1..Len(s) /\ j + 1 \in 1..Len(s) /\ 1 < j + 1
      BY <1>1, <1>3
    <2>2. s[1].id < s[j + 1].id
      BY <2>1 DEF Ascending
    <2> QED
      BY <1>1, <1>2, <1>4, <2>2
  <1>8. /\ Precede(u, s) => Precede(u, h) /\ Precede(u, t)
        /\ Precede(s, u) => Precede(h, u) /\ Precede(t, u)
    <2>1. 1 \in 1..Len(s)
      BY <1>1
    <2>2. (Precede(u, s) => Precede(u, h)) /\ (Precede(s, u) => Precede(h, u))
      BY <1>2, <1>4, <2>1 DEF Precede
    <2>3. (Precede(u, s) => Precede(u, t)) /\ (Precede(s, u) => Precede(t, u))
      BY <1>1, <1>3 DEF Precede
    <2> QED
      BY <2>2, <2>3
  <1>9. ASSUME NEW n, UpTo(s, n) PROVE UpTo(h, n) /\ UpTo(t, n)
    <2>1. 1 \in 1..Len(s)
      BY <1>1
    <2>2. UpTo(h, n)
      BY <1>2, <1>4, <1>9, <2>1 DEF UpTo
    <2>3. UpTo(t, n)
      BY <1>1, <1>3, <1>9 DEF UpTo
    <2> QED
      BY <2>2, <2>3
  <1>10. (Len(s) = 1 => t = << >>) /\ (Len(s) # 1 => t # << >>)
    BY <1>1
  <1> QED
    BY <1>1, <1>2, <1>5, <1>6, <1>7, <1>8, <1>9, <1>10 DEF t, h

\* The front of a queue and the rest of it.
LEMMA FrontFacts ==
    ASSUME NEW M, NEW s \in Seq(M), NEW n \in 1..Len(s), NEW u \in Seq(M)
    PROVE  LET f == SubSeq(s, 1, n)
               r == SubSeq(s, n + 1, Len(s))
           IN  /\ f \in Seq(M) /\ r \in Seq(M) /\ f # << >>
               /\ Ascending(s) => Ascending(f) /\ Ascending(r) /\ Precede(f, r)
               /\ Precede(u, s) => Precede(u, f) /\ Precede(u, r)
               /\ Precede(s, u) => Precede(f, u) /\ Precede(r, u)
               /\ \A k : UpTo(s, k) => UpTo(f, k) /\ UpTo(r, k)
PROOF
  <1> DEFINE f == SubSeq(s, 1, n)
             r == SubSeq(s, n + 1, Len(s))
  <1>1. f \in Seq(M) /\ Len(f) = n /\ \A i \in 1..Len(f) : f[i] = s[i] /\ i \in 1..Len(s)
    BY SubSeqProperties
  <1>2. r \in Seq(M) /\ Len(r) = Len(s) - n /\ \A i \in 1..Len(r) : r[i] = s[i + n] /\ i + n \in 1..Len(s)
    BY SubSeqProperties
  <1> HIDE DEF f, r
  <1>3. Len(s) \in Nat
    OBVIOUS
  <1>4. f # << >>
    BY <1>1
  <1>5. Ascending(s) => Ascending(f)
    BY <1>1, <1>3 DEF Ascending
  <1>6. Ascending(s) => Ascending(r)
    <2> SUFFICES ASSUME Ascending(s), NEW i \in 1..Len(r), NEW j \in 1..Len(r), i < j
                 PROVE  r[i].id < r[j].id
      BY DEF Ascending
    <2>1. i + n \in 1..Len(s) /\ j + n \in 1..Len(s) /\ i + n < j + n
      BY <1>2
    <2> QED
      BY <1>2, <2>1 DEF Ascending
  <1>7. Ascending(s) => Precede(f, r)
    <2> SUFFICES ASSUME Ascending(s), NEW i \in 1..Len(f), NEW j \in 1..Len(r)
                 PROVE  f[i].id < r[j].id
      BY DEF Precede
    <2>1. i \in 1..Len(s) /\ j + n \in 1..Len(s) /\ i < j + n
      BY <1>1, <1>2
    <2> QED
      BY <1>1, <1>2, <2>1 DEF Ascending
  <1>8. /\ Precede(u, s) => Precede(u, f) /\ Precede(u, r)
        /\ Precede(s, u) => Precede(f, u) /\ Precede(r, u)
    BY <1>1, <1>2 DEF Precede
  <1>9. ASSUME NEW k, UpTo(s, k) PROVE UpTo(f, k) /\ UpTo(r, k)
    BY <1>1, <1>2, <1>9 DEF UpTo
  <1> QED
    BY <1>1, <1>2, <1>4, <1>5, <1>6, <1>7, <1>8, <1>9 DEF f, r

\* The rest of a queue is not longer than the queue.
LEMMA RestShorter ==
    ASSUME NEW M, NEW s \in Seq(M), NEW n \in 1..Len(s)
    PROVE  \A i \in DOMAIN SubSeq(s, n + 1, Len(s)) : ~(i > Len(s))
PROOF
  <1> DEFINE r == SubSeq(s, n + 1, Len(s))
  <1>1. r \in Seq(M) /\ Len(r) = Len(s) - n
    BY SubSeqProperties
  <1> HIDE DEF r
  <1>2. DOMAIN r = 1..Len(r) /\ Len(s) \in Nat
    BY <1>1
  <1>3. \A i \in DOMAIN r : ~(i > Len(s))
    BY <1>1, <1>2
  <1> QED
    BY <1>3 DEF r

\* A message after all others.
LEMMA NewestFacts ==
    ASSUME NEW M, \A m \in M : m.id \in Nat,
           NEW x \in M, NEW n \in Nat, x.id = n + 1, NEW s \in Seq(M), UpTo(s, n)
    PROVE  Precede(s, <<x>>) /\ UpTo(s, n + 1) /\ Ascending(<<x>>) /\ UpTo(<<x>>, n + 1)
PROOF
  <1>1. \A i \in 1..Len(s) : s[i].id \in Nat /\ s[i].id =< n
    BY DEF UpTo
  <1>2. Precede(s, <<x>>) /\ UpTo(s, n + 1)
    BY <1>1 DEF Precede, UpTo
  <1>3. Ascending(<<x>>) /\ UpTo(<<x>>, n + 1)
    BY DEF Ascending, UpTo
  <1> QED
    BY <1>2, <1>3

\* A message, and what holds of any sequence of messages.
LEMMA MessageIds == \A m \in Message : m.id \in Nat
  BY PubSubAssumption DEF Message

\* Five sequences of messages.
Five(M, h, b, q, m, s) == h \in Seq(M) /\ b \in Seq(M) /\ q \in Seq(M) /\ m \in Seq(M) /\ s \in Seq(M)

\* Put together they ascend.
LEMMA WayJoined ==
    ASSUME NEW M, NEW h, NEW b, NEW q, NEW m, NEW s, Five(M, h, b, q, m, s), Way(h, b, q, m, s)
    PROVE  h \o b \o q \o m \o s \in Seq(M) /\ Ascending(h \o b \o q \o m \o s)
PROOF
  <1>1. h \o b \in Seq(M) /\ Ascending(h \o b)
    BY JoinFacts DEF Five, Way
  <1>2. Precede(h \o b, q) /\ Precede(h \o b, m) /\ Precede(h \o b, s)
    BY JoinOrder DEF Five, Way
  <1> DEFINE hb == h \o b
             hbq == hb \o q
             hbqm == hbq \o m
  <1>3. hb \in Seq(M) /\ Ascending(hb) /\ Precede(hb, q) /\ Precede(hb, m) /\ Precede(hb, s)
    BY <1>1, <1>2
  <1> HIDE DEF hb
  <1>4. hbq \in Seq(M) /\ Ascending(hbq)
    BY <1>3, JoinFacts DEF Five, Way
  <1>5. Precede(hbq, m) /\ Precede(hbq, s)
    BY <1>3, JoinOrder DEF Five, Way
  <1> HIDE DEF hbq
  <1>6. hbqm \in Seq(M) /\ Ascending(hbqm)
    BY <1>4, <1>5, JoinFacts DEF Five, Way
  <1>7. Precede(hbqm, s)
    BY <1>4, <1>5, JoinOrder DEF Five, Way
  <1> HIDE DEF hbqm
  <1>8. hbqm \o s \in Seq(M) /\ Ascending(hbqm \o s)
    BY <1>6, <1>7, JoinFacts DEF Five, Way
  <1> QED
    BY <1>8 DEF hb, hbq, hbqm

\* What is dropped on the way leaves the rest in order.
LEMMA WayLess ==
    ASSUME NEW M, NEW h, NEW b, NEW q, NEW m, NEW s, NEW n, Five(M, h, b, q, m, s),
           Way(h, b, q, m, s), Past(h, b, q, m, s, n),
           NEW b2 \in {b, << >>}, NEW m2 \in {m, << >>}, NEW s2 \in {s, << >>}
    PROVE  Way(h, b2, q, m2, s2) /\ Past(h, b2, q, m2, s2, n)
PROOF
  <1>1. h \in Seq(M) /\ b \in Seq(M) /\ q \in Seq(M) /\ m \in Seq(M) /\ s \in Seq(M) /\ << >> \in Seq(M)
    BY DEF Five
  <1>2. \A t \in Seq(M) : Precede(<< >>, t) /\ Precede(t, << >>)
    BY EmptyFacts
  <1>3. Ascending(<< >>) /\ UpTo(<< >>, n)
    BY <1>1, EmptyFacts
  <1>4. /\ Ascending(b2) /\ Ascending(m2) /\ Ascending(s2)
        /\ UpTo(b2, n) /\ UpTo(m2, n) /\ UpTo(s2, n)
        /\ b2 \in Seq(M) /\ m2 \in Seq(M) /\ s2 \in Seq(M)
    BY <1>1, <1>3 DEF Way, Past
  <1>5. /\ Precede(h, b2) /\ Precede(h, m2) /\ Precede(h, s2)
        /\ Precede(b2, q) /\ Precede(q, m2) /\ Precede(q, s2)
    BY <1>1, <1>2 DEF Way
  <1>6. Precede(b2, m2) /\ Precede(b2, s2) /\ Precede(m2, s2)
    BY <1>1, <1>2, <1>4 DEF Way
  <1> QED
    BY <1>4, <1>5, <1>6 DEF Way, Past

\* The listener reads a message.
LEMMA WayReceive ==
    ASSUME NEW M, NEW h, NEW b, NEW q, NEW s, NEW n, Five(M, h, b, q, << >>, s),
           Way(h, b, q, << >>, s), Past(h, b, q, << >>, s, n), s # << >>
    PROVE  /\ Five(M, h, b, q, <<Head(s)>>, Tail(s))
           /\ Way(h, b, q, <<Head(s)>>, Tail(s)) /\ Past(h, b, q, <<Head(s)>>, Tail(s), n)
PROOF
  <1> DEFINE m2 == <<Head(s)>>
             s2 == Tail(s)
  <1>1. /\ m2 \in Seq(M) /\ s2 \in Seq(M)
        /\ Ascending(m2) /\ Ascending(s2) /\ Precede(m2, s2) /\ UpTo(m2, n) /\ UpTo(s2, n)
    BY HeadFacts DEF Five, Way, Past
  <1>2. /\ Precede(h, m2) /\ Precede(h, s2)
        /\ Precede(b, m2) /\ Precede(b, s2)
        /\ Precede(q, m2) /\ Precede(q, s2)
    BY HeadFacts DEF Five, Way
  <1> HIDE DEF m2, s2
  <1>3. Five(M, h, b, q, m2, s2) /\ Way(h, b, q, m2, s2) /\ Past(h, b, q, m2, s2, n)
    BY <1>1, <1>2 DEF Five, Way, Past
  <1> QED
    BY <1>3 DEF m2, s2

\* It pushes it.
LEMMA WayPush ==
    ASSUME NEW M, NEW h, NEW b, NEW q, NEW x \in M, NEW s, NEW n, Five(M, h, b, q, <<x>>, s),
           Way(h, b, q, <<x>>, s), Past(h, b, q, <<x>>, s, n)
    PROVE  /\ Five(M, h, b, Append(q, x), << >>, s)
           /\ Way(h, b, Append(q, x), << >>, s) /\ Past(h, b, Append(q, x), << >>, s, n)
PROOF
  <1> DEFINE q2 == Append(q, x)
             m == <<x>>
             e == << >>
  <1>1. q2 = q \o m /\ q2 \in Seq(M) /\ e \in Seq(M)
    BY DEF Five
  <1>2. Five(M, h, b, q, m, s) /\ Way(h, b, q, m, s) /\ Past(h, b, q, m, s, n)
    OBVIOUS
  <1> HIDE DEF q2, m
  <1>3. Ascending(q2) /\ UpTo(q2, n)
    BY <1>1, <1>2, JoinFacts, JoinOrder DEF Five, Way, Past
  <1>4. Precede(h, q2) /\ Precede(b, q2) /\ Precede(q2, s)
    BY <1>1, <1>2, JoinOrder DEF Five, Way
  <1>5. /\ \A t \in Seq(M) : Precede(e, t) /\ Precede(t, e)
        /\ Ascending(e) /\ UpTo(e, n)
    BY <1>1, EmptyFacts
  <1> HIDE DEF e
  <1>6. Five(M, h, b, q2, e, s)
    BY <1>1, <1>2 DEF Five
  <1>7. Way(h, b, q2, e, s) /\ Past(h, b, q2, e, s, n)
    BY <1>2, <1>3, <1>4, <1>5, <1>6 DEF Five, Way, Past
  <1> QED
    BY <1>6, <1>7 DEF q2, e

\* The handler takes the front of the queue.
LEMMA WayPop ==
    ASSUME NEW M, NEW h, NEW q, NEW m, NEW s, NEW n, Five(M, h, << >>, q, m, s),
           Way(h, << >>, q, m, s), Past(h, << >>, q, m, s, n), NEW k \in 1..Len(q)
    PROVE  LET f == SubSeq(q, 1, k)
               r == SubSeq(q, k + 1, Len(q))
           IN  Five(M, h, f, r, m, s) /\ Way(h, f, r, m, s) /\ Past(h, f, r, m, s, n) /\ f # << >>
PROOF
  <1> DEFINE f == SubSeq(q, 1, k)
             r == SubSeq(q, k + 1, Len(q))
  <1>1. /\ f \in Seq(M) /\ r \in Seq(M) /\ f # << >>
        /\ Ascending(f) /\ Ascending(r) /\ Precede(f, r) /\ UpTo(f, n) /\ UpTo(r, n)
    BY FrontFacts DEF Five, Way, Past
  <1>2. /\ Precede(h, f) /\ Precede(h, r)
        /\ Precede(f, m) /\ Precede(f, s) /\ Precede(r, m) /\ Precede(r, s)
    BY FrontFacts DEF Five, Way
  <1> HIDE DEF f, r
  <1>3. Five(M, h, f, r, m, s) /\ Way(h, f, r, m, s) /\ Past(h, f, r, m, s, n)
    BY <1>1, <1>2 DEF Five, Way, Past
  <1> QED
    BY <1>1, <1>3 DEF f, r

\* The callback returns from the first message of the batch.
LEMMA WayHandle ==
    ASSUME NEW M, NEW h, NEW b, NEW q, NEW m, NEW s, NEW n, Five(M, h, b, q, m, s),
           Way(h, b, q, m, s), Past(h, b, q, m, s, n), b # << >>
    PROVE  LET g == Append(h, Head(b))
               t == Tail(b)
           IN  /\ Five(M, g, t, q, m, s) /\ Way(g, t, q, m, s) /\ Past(g, t, q, m, s, n)
               /\ Len(b) = 1 => t = << >>
               /\ Len(b) # 1 => t # << >>
PROOF
  <1> DEFINE x == <<Head(b)>>
             g == Append(h, Head(b))
             t == Tail(b)
  <1>1. /\ x \in Seq(M) /\ t \in Seq(M)
        /\ Ascending(x) /\ Ascending(t) /\ Precede(x, t) /\ UpTo(x, n) /\ UpTo(t, n)
        /\ Len(b) = 1 => t = << >>
        /\ Len(b) # 1 => t # << >>
    BY HeadFacts DEF Five, Way, Past
  <1>2. /\ Precede(h, x) /\ Precede(h, t)
        /\ Precede(x, q) /\ Precede(x, m) /\ Precede(x, s)
        /\ Precede(t, q) /\ Precede(t, m) /\ Precede(t, s)
    BY HeadFacts DEF Five, Way
  <1>3. g = h \o x /\ g \in Seq(M)
    <2>1. Head(b) \in M /\ h \in Seq(M)
      BY HeadFacts DEF Five
    <2> QED
      BY <2>1
  <1> HIDE DEF x, g, t
  <1>4. Ascending(g) /\ UpTo(g, n)
    BY <1>1, <1>2, <1>3, JoinFacts, JoinOrder DEF Five, Way, Past
  <1>5. Precede(g, t) /\ Precede(g, q) /\ Precede(g, m) /\ Precede(g, s)
    BY <1>1, <1>2, <1>3, JoinOrder DEF Five, Way
  <1>6. Five(M, g, t, q, m, s) /\ Way(g, t, q, m, s) /\ Past(g, t, q, m, s, n)
    BY <1>1, <1>2, <1>3, <1>4, <1>5 DEF Five, Way, Past
  <1> QED
    BY <1>1, <1>6 DEF g, t

\* Redis sends a message, or is not asked for it.
LEMMA WayPublish ==
    ASSUME NEW M, \A y \in M : y.id \in Nat, NEW h, NEW b, NEW q, NEW m, NEW s, NEW n \in Nat,
           Five(M, h, b, q, m, s), Way(h, b, q, m, s), Past(h, b, q, m, s, n),
           NEW x \in M, x.id = n + 1
    PROVE  /\ Five(M, h, b, q, m, Append(s, x))
           /\ Way(h, b, q, m, Append(s, x)) /\ Past(h, b, q, m, Append(s, x), n + 1)
           /\ Past(h, b, q, m, s, n + 1)
PROOF
  <1> DEFINE y == <<x>>
             t == Append(s, x)
  <1>1. /\ Precede(h, y) /\ Precede(b, y) /\ Precede(q, y) /\ Precede(m, y) /\ Precede(s, y)
        /\ UpTo(h, n + 1) /\ UpTo(b, n + 1) /\ UpTo(q, n + 1) /\ UpTo(m, n + 1) /\ UpTo(s, n + 1)
        /\ Ascending(y) /\ UpTo(y, n + 1)
    BY NewestFacts DEF Five, Past
  <1>2. t = s \o y /\ t \in Seq(M) /\ y \in Seq(M)
    BY DEF Five
  <1> HIDE DEF y, t
  <1>3. Ascending(t) /\ UpTo(t, n + 1)
    BY <1>1, <1>2, JoinFacts, JoinOrder DEF Five, Way
  <1>4. Precede(h, t) /\ Precede(b, t) /\ Precede(q, t) /\ Precede(m, t)
    BY <1>1, <1>2, JoinOrder DEF Five, Way
  <1>5. /\ Five(M, h, b, q, m, t) /\ Way(h, b, q, m, t) /\ Past(h, b, q, m, t, n + 1)
        /\ Past(h, b, q, m, s, n + 1)
    BY <1>1, <1>2, <1>3, <1>4 DEF Five, Way, Past
  <1> QED
    BY <1>5 DEF t

\* Where the messages are, and that they are in order there.
Flow(n) ==
    /\ Five(Message, handled, handler.batch, msgQueue_, InHand, socket)
    /\ Way(handled, handler.batch, msgQueue_, InHand, socket)
    /\ Past(handled, handler.batch, msgQueue_, InHand, socket, n)

\* The invariant has the messages in five places.
LEMMA FlowFacts == PubSubInv => Flow(published)
PROOF
  <1> SUFFICES ASSUME PubSubInv PROVE Flow(published)
    OBVIOUS
  <1>1. InHand \in Seq(Message)
    BY DEF PubSubInv, Places, InHand
  <1> QED
    BY <1>1 DEF PubSubInv, PubSubTypeOK, Flow, Five

\* On its way, everything is in order.
LEMMA FlowInOrder == PubSubInv => InOrder
PROOF
  <1> SUFFICES ASSUME PubSubInv PROVE InOrder
    OBVIOUS
  <1> DEFINE r == handled \o handler.batch \o msgQueue_ \o InHand \o socket
  <1>1. r \in Seq(Message) /\ Ascending(r)
    BY FlowFacts, WayJoined DEF Flow
  <1>2. Received = r
    BY DEF Received, InHand
  <1> HIDE DEF r
  <1>3. DOMAIN r = 1..Len(r)
    BY <1>1
  <1> QED
    BY <1>1, <1>2, <1>3 DEF InOrder, Ascending

\* The initial state.
LEMMA PubSubInvInit == PubSubInit => PubSubInv
PROOF
  <1> SUFFICES ASSUME PubSubInit PROVE PubSubInv
    OBVIOUS
  <1> DEFINE e == << >>
  <1>1. /\ published = 0 /\ subscribed = {} /\ socket = e /\ channels_ = {} /\ channelStr_ = {}
        /\ isChanged_ = FALSE /\ isClosed_ = FALSE /\ msgQueue_ = e /\ session_ = FALSE
        /\ redisMutex_ = "free" /\ listener = [at |-> "none", msg |-> e]
        /\ handler = [at |-> "none", batch |-> e] /\ handled = e
    BY DEF PubSubInit
  <1>2. e \in Seq(Message)
    OBVIOUS
  <1> HIDE DEF e
  <1>3. PubSubTypeOK
    <2>1. {isChanged_, isClosed_, session_} \subseteq BOOLEAN
      BY <1>1, Zenon
    <2>2. published \in 0..MaxPublished
      BY <1>1, PubSubAssumption
    <2> QED
      BY <1>1, <1>2, <2>1, <2>2 DEF PubSubTypeOK
  <1>4. Threads
    BY <1>1 DEF Threads
  <1>5. Places
    BY <1>1 DEF Places, e
  <1>6. Wanted
    BY <1>1 DEF Wanted, e
  <1>7. InHand = e
    BY <1>1 DEF InHand, e
  <1>8. Ascending(e) /\ Precede(e, e) /\ UpTo(e, 0)
    BY <1>2, EmptyFacts DEF e
  <1> QED
    BY <1>1, <1>3, <1>4, <1>5, <1>6, <1>7, <1>8 DEF PubSubInv, Way, Past

\* What remains to be shown of a step.
LEMMA PubSubInvNext ==
    ASSUME PubSubTypeOK', Threads', Places', Wanted', Flow(published)'
    PROVE  PubSubInv'
  BY DEF PubSubInv, Flow

\* A step that moves no message, or drops some.
LEMMA FlowLess ==
    ASSUME PubSubInv, handled' = handled, msgQueue_' = msgQueue_, published' = published,
           handler'.batch \in {handler.batch, << >>}, InHand' \in {InHand, << >>},
           socket' \in {socket, << >>}
    PROVE  Flow(published)'
PROOF
  <1> DEFINE M == Message
             n == published
             b == handler'.batch
             m == InHand'
             s == socket'
  <1>1. Flow(n)
    BY FlowFacts
  <1>2. << >> \in Seq(M)
    OBVIOUS
  <1>3. b \in Seq(M) /\ m \in Seq(M) /\ s \in Seq(M)
    BY <1>1, <1>2 DEF Flow, Five
  <1>4. Five(M, handled, b, msgQueue_, m, s)
    BY <1>1, <1>3 DEF Flow, Five
  <1> HIDE DEF b, m, s, n, M
  <1>5. Way(handled, b, msgQueue_, m, s) /\ Past(handled, b, msgQueue_, m, s, n)
    BY <1>1, WayLess DEF Flow, b, m, s, M
  <1> QED
    BY <1>4, <1>5 DEF Flow, b, m, s, n, M

\* The calls of the scripts.
LEMMA SubscribeStep ==
    ASSUME PubSubInv, NEW channels \in SUBSET Channel, Subscribe(channels)
    PROVE  PubSubInv'
PROOF
  <1>1. /\ ~session_ /\ listener.at = "none" /\ handler.at = "none" /\ subscribed = {} /\ socket = << >>
        /\ handler.batch = << >>
    BY DEF Subscribe, PubSubInv, Places
  <1>2. /\ channels_' = channels_ \union channels /\ channelStr_' = channels_'
        /\ UNCHANGED <<published, socket, isChanged_, isClosed_, msgQueue_, redisMutex_, handled>>
    BY DEF Subscribe
  <1>3. \/ session_' = TRUE /\ subscribed' = channelStr_'
           /\ listener' = [listener EXCEPT !.at = "top"] /\ handler' = [handler EXCEPT !.at = "top"]
        \/ UNCHANGED <<session_, subscribed, listener, handler>>
    BY DEF Subscribe
  <1>4. Threads /\ PubSubTypeOK
    BY DEF PubSubInv
  <1>5. \/ /\ session_' = TRUE /\ subscribed' = channelStr_'
           /\ listener' = [at |-> "top", msg |-> listener.msg]
           /\ handler' = [at |-> "top", batch |-> << >>]
        \/ UNCHANGED <<session_, subscribed, listener, handler>>
    BY <1>1, <1>3, <1>4 DEF Threads
  <1>6. PubSubTypeOK'
    <2>1. subscribed' \subseteq Channel /\ channels_' \subseteq channelStr_' /\ channelStr_' \subseteq Channel
      BY <1>2, <1>3, <1>4 DEF PubSubTypeOK
    <2>2. {isChanged_, isClosed_, session_}' \subseteq BOOLEAN
      BY <1>2, <1>3, <1>4, Zenon DEF PubSubTypeOK
    <2>3. /\ listener'.at \in {"none", "top", "reading", "reconnect", "received", "ended"}
          /\ handler'.at \in {"none", "top", "call", "ended"}
          /\ handler'.batch \in Seq(Message)
      <3>1. CASE UNCHANGED <<listener, handler>>
        BY <1>4, <3>1 DEF PubSubTypeOK
      <3>2. CASE /\ listener' = [at |-> "top", msg |-> listener.msg]
                 /\ handler' = [at |-> "top", batch |-> << >>]
        BY <3>2
      <3> QED
        BY <1>5, <3>1, <3>2
    <2>4. /\ published' \in 0..MaxPublished
          /\ socket' \in Seq(Message) /\ msgQueue_' \in Seq(Message)
          /\ handled' \in Seq(Message)
          /\ redisMutex_' \in {"free", "unsubscribe", "stopListen", "released"}
      BY <1>2, <1>4 DEF PubSubTypeOK
    <2> QED
      BY <2>1, <2>2, <2>3, <2>4 DEF PubSubTypeOK
  <1>7. Threads' /\ Places'
    <2>1. CASE UNCHANGED <<session_, subscribed, listener, handler>>
      BY <1>2, <2>1 DEF PubSubInv, Threads, Places
    <2>2. CASE /\ session_' = TRUE
               /\ listener' = [at |-> "top", msg |-> listener.msg]
               /\ handler' = [at |-> "top", batch |-> << >>]
      BY <1>1, <1>2, <2>2 DEF Threads, Places
    <2> QED
      BY <1>5, <2>1, <2>2
  <1>8. Wanted'
    <2>1. subscribed' \subseteq channelStr_' /\ socket' = << >> /\ listener'.at # "received"
      BY <1>1, <1>2, <1>5
    <2> QED
      BY <2>1 DEF Wanted
  <1>9. Flow(published)'
    <2>1. InHand' = << >> /\ handler'.batch = << >>
      BY <1>1, <1>5 DEF InHand
    <2> QED
      BY <1>2, <2>1, FlowLess
  <1> QED
    BY <1>6, <1>7, <1>8, <1>9, PubSubInvNext

\* The calls that leave the messages and the threads alone.
LEMMA CallStep ==
    ASSUME PubSubInv,
           UNCHANGED <<published, subscribed, socket, msgQueue_, session_, listener, handler, handled>>,
           channels_' \subseteq channelStr_', channelStr_' \subseteq Channel,
           {isChanged_, isClosed_}' \subseteq BOOLEAN,
           redisMutex_' \in {"free", "unsubscribe", "stopListen", "released"},
           isChanged_' = TRUE \/ (isChanged_' = isChanged_ /\ channelStr_' = channelStr_)
    PROVE  PubSubInv'
PROOF
  <1>1. PubSubTypeOK'
    <2>1. {isChanged_, isClosed_, session_}' \subseteq BOOLEAN
      BY Zenon DEF PubSubInv, PubSubTypeOK
    <2> QED
      BY <2>1 DEF PubSubInv, PubSubTypeOK
  <1>2. Threads' /\ Places'
    BY DEF PubSubInv, Threads, Places
  <1>3. Wanted'
    BY DEF PubSubInv, Wanted
  <1>4. Flow(published)'
    <2>1. InHand' = InHand
      BY DEF InHand
    <2> QED
      BY <2>1, FlowLess
  <1> QED
    BY <1>1, <1>2, <1>3, <1>4, PubSubInvNext

LEMMA CallsStep ==
    ASSUME PubSubInv,
           \/ \E channels \in SUBSET Channel : Unsubscribe(channels)
           \/ \E channels \in SUBSET Channel, before \in SUBSET Channel :
                  UnsubscribeThrows(channels, before)
           \/ UnsubscribeReturns \/ StopListen \/ StopListenReturns
    PROVE  PubSubInv'
PROOF
  <1>1. PubSubTypeOK
    BY DEF PubSubInv
  <1>2. isChanged_ \in BOOLEAN /\ isClosed_ \in BOOLEAN
    BY <1>1, Zenon DEF PubSubTypeOK
  <1>3. ASSUME NEW channels \in SUBSET Channel, Unsubscribe(channels) PROVE PubSubInv'
    <2>1. channels_' \subseteq channelStr_' /\ channelStr_' \subseteq Channel
      BY <1>1, <1>3 DEF Unsubscribe, PubSubTypeOK
    <2>2. isChanged_' = TRUE /\ {isChanged_, isClosed_}' \subseteq BOOLEAN
      BY <1>2, <1>3, Zenon DEF Unsubscribe
    <2> QED
      BY <1>3, <2>1, <2>2, CallStep DEF Unsubscribe, server
  <1>4. ASSUME NEW channels \in SUBSET Channel, NEW before \in SUBSET Channel,
               UnsubscribeThrows(channels, before)
        PROVE  PubSubInv'
    <2>1. channels_' \subseteq channelStr_' /\ channelStr_' \subseteq Channel
      BY <1>1, <1>4 DEF UnsubscribeThrows, PubSubTypeOK
    <2>2. isChanged_' = isChanged_ /\ {isChanged_, isClosed_}' \subseteq BOOLEAN
      BY <1>2, <1>4, Zenon DEF UnsubscribeThrows
    <2> QED
      BY <1>1, <1>4, <2>1, <2>2, CallStep DEF UnsubscribeThrows, server, PubSubTypeOK
  <1>5. CASE UnsubscribeReturns
    <2>1. UNCHANGED <<channels_, channelStr_, isChanged_>> /\ {isChanged_, isClosed_}' \subseteq BOOLEAN
      BY <1>2, <1>5, Zenon DEF UnsubscribeReturns, flags
    <2> QED
      BY <1>1, <1>5, <2>1, CallStep DEF UnsubscribeReturns, server, PubSubTypeOK
  <1>6. CASE StopListen
    <2>1. UNCHANGED <<channels_, channelStr_, isChanged_>> /\ {isChanged_, isClosed_}' \subseteq BOOLEAN
      BY <1>2, <1>6, Zenon DEF StopListen, flags
    <2> QED
      BY <1>1, <1>6, <2>1, CallStep DEF StopListen, server, PubSubTypeOK
  <1>7. CASE StopListenReturns
    <2>1. UNCHANGED <<channels_, channelStr_, isChanged_>> /\ {isChanged_, isClosed_}' \subseteq BOOLEAN
      BY <1>2, <1>7, Zenon DEF StopListenReturns, flags
    <2> QED
      BY <1>1, <1>7, <2>1, CallStep DEF StopListenReturns, server, PubSubTypeOK
  <1> QED
    BY <1>3, <1>4, <1>5, <1>6, <1>7

\* A step of the listener.
LEMMA ListenerMoves ==
    ASSUME PubSubInv, listener.at # "none",
           UNCHANGED <<published, channels_, channelStr_, session_, redisMutex_, handler, handled>>,
           NEW at \in {"top", "reading", "reconnect", "received", "ended"}, NEW msg,
           listener' = [at |-> at, msg |-> msg],
           at = "received" => msg \in Message,
           at = "reconnect" => subscribed' = {} /\ socket' = << >>,
           subscribed' \subseteq Channel, {isChanged_, isClosed_}' \subseteq BOOLEAN,
           Wanted', Flow(published)'
    PROVE  PubSubInv'
PROOF
  <1>1. PubSubTypeOK'
    <2>1. {isChanged_, isClosed_, session_}' \subseteq BOOLEAN
      BY Zenon DEF PubSubInv, PubSubTypeOK
    <2>2. socket' \in Seq(Message) /\ msgQueue_' \in Seq(Message)
      BY DEF Flow, Five
    <2>3. PubSubTypeOK
      BY DEF PubSubInv
    <2> QED
      BY <2>1, <2>2, <2>3 DEF PubSubTypeOK
  <1>2. Threads'
    BY DEF PubSubInv, Threads
  <1>3. session_
    BY DEF PubSubInv, Places
  <1>4. Places'
    BY <1>3 DEF PubSubInv, Places
  <1> QED
    BY <1>1, <1>2, <1>4, PubSubInvNext

\* A step of the handler.
LEMMA HandlerMoves ==
    ASSUME PubSubInv, handler.at # "none",
           UNCHANGED <<published, subscribed, socket, channels_, channelStr_, isChanged_, session_,
                       redisMutex_, listener>>,
           NEW at \in {"top", "call", "ended"}, NEW batch, handler' = [at |-> at, batch |-> batch],
           at = "call" <=> batch # << >>,
           isClosed_' \in BOOLEAN, Flow(published)'
    PROVE  PubSubInv'
PROOF
  <1>1. PubSubTypeOK'
    <2>1. {isChanged_, isClosed_, session_}' \subseteq BOOLEAN
      BY Zenon DEF PubSubInv, PubSubTypeOK
    <2>2. /\ handled' \in Seq(Message) /\ msgQueue_' \in Seq(Message)
          /\ handler'.batch \in Seq(Message)
      BY DEF Flow, Five
    <2>3. PubSubTypeOK
      BY DEF PubSubInv
    <2> QED
      BY <2>1, <2>2, <2>3 DEF PubSubTypeOK
  <1>2. Threads'
    BY DEF PubSubInv, Threads
  <1>3. session_
    BY DEF PubSubInv, Places
  <1>4. Places'
    BY <1>3 DEF PubSubInv, Places
  <1>5. Wanted'
    BY DEF PubSubInv, Wanted
  <1> QED
    BY <1>1, <1>2, <1>4, <1>5, PubSubInvNext

\* The handler thread.
LEMMA HandlerSteps ==
    ASSUME PubSubInv,
           Pop \/ Handle \/ HandlerLeaves \/ HandleFails
    PROVE  PubSubInv'
PROOF
  <1> DEFINE M == Message
             n == published
  <1>1. Flow(n)
    BY FlowFacts
  <1>2. isClosed_ \in BOOLEAN
    BY Zenon DEF PubSubInv, PubSubTypeOK
  <1>3. CASE Pop
    <2>1. handler.at = "top" /\ handler.batch = << >>
      BY <1>3 DEF Pop, PubSubInv, Places
    <2>2. PICK k \in {IF Len(msgQueue_) < QUEUE_MSG_BATCH_SIZE THEN Len(msgQueue_) ELSE QUEUE_MSG_BATCH_SIZE} :
              /\ k > 0
              /\ handler' = [at |-> "call", batch |-> Front(k)]
              /\ msgQueue_' = Rest(k)
      BY <1>3 DEF Pop
    <2>3. /\ UNCHANGED <<published, subscribed, socket, channels_, channelStr_, isChanged_, isClosed_>>
          /\ UNCHANGED <<session_, redisMutex_, listener, handled>>
      BY <1>3 DEF Pop, server, flags
    <2>4. msgQueue_ \in Seq(M) /\ Len(msgQueue_) \in Nat
      BY <1>1 DEF Flow, Five
    <2>5. k \in 1..Len(msgQueue_)
      BY <2>2, <2>4, PubSubAssumption
    <2> DEFINE f == SubSeq(msgQueue_, 1, k)
               r == SubSeq(msgQueue_, k + 1, Len(msgQueue_))
    <2>6. Five(M, handled, << >>, msgQueue_, InHand, socket) /\ Way(handled, << >>, msgQueue_, InHand, socket)
          /\ Past(handled, << >>, msgQueue_, InHand, socket, n)
      BY <1>1, <2>1 DEF Flow
    <2> HIDE DEF n
    <2>7. /\ Five(M, handled, f, r, InHand, socket) /\ Way(handled, f, r, InHand, socket)
          /\ Past(handled, f, r, InHand, socket, n) /\ f # << >>
      BY <2>5, <2>6, WayPop
    <2>8. handler' = [at |-> "call", batch |-> f] /\ msgQueue_' = r
      BY <2>2 DEF Front, Rest
    <2> HIDE DEF f, r
    <2>9. InHand' = InHand
      BY <2>3 DEF InHand
    <2>10. Flow(published)'
      BY <2>3, <2>7, <2>8, <2>9 DEF Flow, n
    <2>11. isClosed_' \in BOOLEAN
      BY <1>2, <2>3, Zenon
    <2> QED
      BY <2>1, <2>3, <2>7, <2>8, <2>10, <2>11, HandlerMoves
  <1>4. CASE Handle
    <2>1. handler.at = "call" /\ handler.batch # << >>
      BY <1>4 DEF Handle, PubSubInv, Places
    <2> DEFINE g == Append(handled, Head(handler.batch))
               t == Tail(handler.batch)
    <2>2. /\ UNCHANGED <<published, subscribed, socket, channels_, channelStr_, isChanged_, isClosed_>>
          /\ UNCHANGED <<msgQueue_, session_, redisMutex_, listener>>
      BY <1>4 DEF Handle, server, flags
    <2>3. /\ handled' = g
          /\ handler' = IF Len(handler.batch) = 1 THEN [at |-> "top", batch |-> << >>]
                        ELSE [handler EXCEPT !.batch = t]
      BY <1>4 DEF Handle, PubSubInv, Threads
    <2>4. /\ Five(M, handled, handler.batch, msgQueue_, InHand, socket)
          /\ Way(handled, handler.batch, msgQueue_, InHand, socket)
          /\ Past(handled, handler.batch, msgQueue_, InHand, socket, n)
      BY <1>1 DEF Flow
    <2> HIDE DEF n
    <2>5. /\ Five(M, g, t, msgQueue_, InHand, socket) /\ Way(g, t, msgQueue_, InHand, socket)
          /\ Past(g, t, msgQueue_, InHand, socket, n)
          /\ Len(handler.batch) = 1 => t = << >>
          /\ Len(handler.batch) # 1 => t # << >>
      BY <2>1, <2>4, WayHandle
    <2> HIDE DEF g, t
    <2>6. /\ handler' = [at |-> IF Len(handler.batch) = 1 THEN "top" ELSE "call", batch |-> t]
          /\ handler'.batch = t
      BY <2>1, <2>3, <2>5 DEF PubSubInv, Threads
    <2>7. InHand' = InHand
      BY <2>2 DEF InHand
    <2>8. Flow(published)'
      BY <2>2, <2>3, <2>5, <2>6, <2>7 DEF Flow, n
    <2>9. isClosed_' \in BOOLEAN
      BY <1>2, <2>2, Zenon
    <2> DEFINE at == IF Len(handler.batch) = 1 THEN "top" ELSE "call"
    <2>10. at \in {"top", "call", "ended"} /\ (at = "call" <=> t # << >>)
      BY <2>5
    <2>11. handler' = [at |-> at, batch |-> t]
      BY <2>6
    <2> HIDE DEF at
    <2> QED
      BY <2>1, <2>2, <2>8, <2>9, <2>10, <2>11, HandlerMoves
  <1>5. CASE HandlerLeaves \/ HandleFails
    <2>1. /\ handler.at # "none" /\ handler' = [at |-> "ended", batch |-> << >>]
          /\ UNCHANGED <<published, subscribed, socket, channels_, channelStr_, isChanged_>>
          /\ UNCHANGED <<msgQueue_, session_, redisMutex_, listener, handled>>
      BY <1>5 DEF HandlerLeaves, HandleFails, HandlerEnds, server, flags
    <2>2. isClosed_' \in BOOLEAN
      BY <1>5, Zenon DEF HandlerLeaves, HandleFails, HandlerEnds
    <2>3. Flow(published)'
      <3>1. InHand' = InHand
        BY <2>1 DEF InHand
      <3> QED
        BY <2>1, <3>1, FlowLess
    <2> DEFINE at == "ended"
               batch == << >>
    <2>4. handler' = [at |-> at, batch |-> batch] /\ at \in {"top", "call", "ended"}
          /\ (at = "call" <=> batch # << >>)
      BY <2>1
    <2> HIDE DEF at, batch
    <2> QED
      BY <2>1, <2>2, <2>3, <2>4, HandlerMoves
  <1> QED
    BY <1>3, <1>4, <1>5

\* Redis sends a message to a connection that is subscribed to its channel.
LEMMA PublishStep ==
    ASSUME PubSubInv, NEW c \in Channel, Publish(c)
    PROVE  PubSubInv'
PROOF
  <1> DEFINE M == Message
             n == published
             x == [id |-> n + 1, channel |-> c]
  <1>1. /\ n < MaxPublished /\ published' = n + 1
        /\ socket' = IF c \in subscribed THEN Append(socket, x) ELSE socket
        /\ UNCHANGED <<subscribed, channels_, channelStr_, isChanged_, isClosed_, msgQueue_>>
        /\ UNCHANGED <<session_, redisMutex_, listener, handler, handled>>
    BY DEF Publish, flags
  <1>2. n \in 0..MaxPublished /\ n \in Nat
    BY PubSubAssumption DEF PubSubInv, PubSubTypeOK
  <1>3. x \in M /\ x.id = n + 1 /\ x.channel = c
    BY <1>1, <1>2, PubSubAssumption DEF Message
  <1>4. Flow(n) /\ \A y \in M : y.id \in Nat
    BY FlowFacts, MessageIds
  <1>5. /\ Five(M, handled, handler.batch, msgQueue_, InHand, socket)
        /\ Way(handled, handler.batch, msgQueue_, InHand, socket)
        /\ Past(handled, handler.batch, msgQueue_, InHand, socket, n)
    BY <1>4 DEF Flow
  <1>6. socket \in Seq(M)
    BY <1>5 DEF Five
  <1> HIDE DEF x, n, M
  <1>7. /\ Five(M, handled, handler.batch, msgQueue_, InHand, Append(socket, x))
        /\ Way(handled, handler.batch, msgQueue_, InHand, Append(socket, x))
        /\ Past(handled, handler.batch, msgQueue_, InHand, Append(socket, x), n + 1)
        /\ Past(handled, handler.batch, msgQueue_, InHand, socket, n + 1)
    BY <1>2, <1>3, <1>4, <1>5, WayPublish
  <1>8. InHand' = InHand
    BY <1>1 DEF InHand
  <1>9. Flow(published)'
    <2>1. CASE c \in subscribed
      BY <1>1, <1>7, <1>8, <2>1 DEF Flow, M
    <2>2. CASE c \notin subscribed
      BY <1>1, <1>5, <1>7, <1>8, <2>2 DEF Flow, M
    <2> QED
      BY <2>1, <2>2
  <1>10. PubSubTypeOK'
    <2>1. {isChanged_, isClosed_, session_}' \subseteq BOOLEAN
      BY <1>1, Zenon DEF PubSubInv, PubSubTypeOK
    <2>2. socket' \in Seq(Message)
      BY <1>9 DEF Flow, Five
    <2>3. published' \in 0..MaxPublished
      BY <1>1, <1>2, PubSubAssumption DEF n
    <2> QED
      BY <1>1, <2>1, <2>2, <2>3 DEF PubSubInv, PubSubTypeOK
  <1>11. Threads'
    BY <1>1 DEF PubSubInv, Threads
  <1>12. Places'
    BY <1>1 DEF PubSubInv, Places
  <1>13. Wanted'
    <2> SUFFICES ASSUME ~isChanged_' PROVE Wanted'
      BY DEF Wanted
    <2>1. /\ subscribed \subseteq channelStr_
          /\ \A i \in 1..Len(socket) : socket[i].channel \in channelStr_
          /\ listener.at = "received" => listener.msg.channel \in channelStr_
      BY <1>1 DEF PubSubInv, Wanted
    <2>2. \A i \in 1..Len(socket') : socket'[i].channel \in channelStr_
      BY <1>1, <1>3, <1>6, <2>1
    <2> QED
      BY <1>1, <2>1, <2>2 DEF Wanted
  <1> QED
    BY <1>9, <1>10, <1>11, <1>12, <1>13, PubSubInvNext

\* The listener thread: it ends, it times out, it looks at isClosed_, it reads.
LEMMA ListenerEndsStep ==
    ASSUME PubSubInv, listener.at # "none", ListenerEnds,
           UNCHANGED <<published, channels_, channelStr_, session_, redisMutex_, handler, handled>>,
           subscribed' \in {subscribed, {}}, {isChanged_} ' \subseteq BOOLEAN,
           Wanted', Flow(published)'
    PROVE  PubSubInv'
PROOF
  <1> DEFINE at == "ended"
             msg == << >>
  <1>1. listener' = [at |-> at, msg |-> msg] /\ at \in {"top", "reading", "reconnect", "received", "ended"}
        /\ at # "received" /\ at # "reconnect"
    BY DEF ListenerEnds
  <1>2. {isChanged_, isClosed_}' \subseteq BOOLEAN
    BY Zenon DEF ListenerEnds
  <1>3. subscribed' \subseteq Channel
    BY DEF PubSubInv, PubSubTypeOK
  <1> HIDE DEF at, msg
  <1> QED
    BY <1>1, <1>2, <1>3, ListenerMoves

LEMMA ListenStep == PubSubInv /\ Listen => PubSubInv'
PROOF
  <1> SUFFICES ASSUME PubSubInv, Listen PROVE PubSubInv'
    OBVIOUS
  <1>1. /\ listener.at = "top"
        /\ UNCHANGED <<published, subscribed, socket, channels_, channelStr_, isChanged_, msgQueue_>>
        /\ UNCHANGED <<session_, redisMutex_, handler, handled>>
    BY DEF Listen, server, flags
  <1>2. {isChanged_}' \subseteq BOOLEAN /\ isClosed_ \in BOOLEAN
    BY <1>1, Zenon DEF PubSubInv, PubSubTypeOK
  <1>3. listener'.at \in {"reading", "ended"}
    BY DEF Listen, ListenerEnds, PubSubInv, Threads
  <1>4. Wanted'
    BY <1>1, <1>3 DEF PubSubInv, Wanted
  <1>5. Flow(published)'
    <2>1. InHand' = << >>
      BY <1>3 DEF InHand
    <2> QED
      BY <1>1, <2>1, FlowLess
  <1>6. CASE isClosed_
    BY <1>1, <1>2, <1>4, <1>5, <1>6, ListenerEndsStep DEF Listen
  <1>7. CASE ~isClosed_
    <2> DEFINE at == "reading"
               msg == listener.msg
    <2>1. /\ listener' = [at |-> at, msg |-> msg]
          /\ at \in {"top", "reading", "reconnect", "received", "ended"}
          /\ at # "received" /\ at # "reconnect"
      BY <1>7 DEF Listen, PubSubInv, Threads
    <2>2. {isChanged_, isClosed_}' \subseteq BOOLEAN
      BY <1>2, <1>7, Zenon DEF Listen
    <2>3. subscribed' \subseteq Channel
      BY <1>1 DEF PubSubInv, PubSubTypeOK
    <2> HIDE DEF at, msg
    <2> QED
      BY <1>1, <1>4, <1>5, <2>1, <2>2, <2>3, ListenerMoves
  <1> QED
    BY <1>6, <1>7

LEMMA ReceiveStep == PubSubInv /\ Receive => PubSubInv'
PROOF
  <1> SUFFICES ASSUME PubSubInv, Receive PROVE PubSubInv'
    OBVIOUS
  <1> DEFINE M == Message
             x == Head(socket)
             t == Tail(socket)
             n == published
  <1>1. /\ listener.at = "reading" /\ socket # << >> /\ socket' = t
        /\ UNCHANGED <<published, subscribed, channels_, channelStr_, isChanged_, msgQueue_>>
        /\ UNCHANGED <<session_, redisMutex_, handler, handled>>
    BY DEF Receive, flags
  <1>2. {isChanged_}' \subseteq BOOLEAN /\ isClosed_ \in BOOLEAN
    BY <1>1, Zenon DEF PubSubInv, PubSubTypeOK
  <1>3. socket \in Seq(M) /\ x \in M /\ t \in Seq(M)
    BY <1>1, HeadFacts DEF PubSubInv, PubSubTypeOK
  <1>4. \/ isClosed_ /\ ListenerEnds
        \/ listener' = [at |-> "received", msg |-> x] /\ isClosed_' = isClosed_
    BY DEF Receive
  <1>5. /\ Five(M, handled, handler.batch, msgQueue_, << >>, socket)
        /\ Way(handled, handler.batch, msgQueue_, << >>, socket)
        /\ Past(handled, handler.batch, msgQueue_, << >>, socket, n)
    BY <1>1, FlowFacts DEF Flow, InHand
  <1> HIDE DEF n
  <1>6. /\ Five(M, handled, handler.batch, msgQueue_, <<x>>, t)
        /\ Way(handled, handler.batch, msgQueue_, <<x>>, t)
        /\ Past(handled, handler.batch, msgQueue_, <<x>>, t, n)
    BY <1>1, <1>5, WayReceive
  <1>7. isChanged_ \/ /\ subscribed \subseteq channelStr_ /\ x.channel \in channelStr_
                      /\ \A i \in 1..Len(t) : t[i].channel \in channelStr_
    <2>1. CASE ~isChanged_
      <3>1. subscribed \subseteq channelStr_ /\ \A i \in 1..Len(socket) : socket[i].channel \in channelStr_
        BY <2>1 DEF PubSubInv, Wanted
      <3>2. x = socket[1] /\ 1 \in 1..Len(socket)
        BY <1>1, <1>3
      <3>3. \A i \in 1..Len(t) : t[i] = socket[i + 1] /\ i + 1 \in 1..Len(socket)
        BY <1>1, <1>3
      <3> QED
        BY <3>1, <3>2, <3>3
    <2> QED
      BY <2>1
  <1> HIDE DEF x, t
  <1>8. CASE isClosed_ /\ ListenerEnds
    <2>1. listener'.at = "ended"
      BY <1>8 DEF ListenerEnds
    <2>2. InHand' = << >>
      BY <2>1 DEF InHand
    <2>3. Wanted'
      BY <1>1, <1>7, <2>1 DEF Wanted
    <2> DEFINE b == handler.batch
               e == << >>
    <2>4. Five(M, handled, b, msgQueue_, e, t)
      BY <1>6 DEF Five
    <2>5. Way(handled, b, msgQueue_, e, t) /\ Past(handled, b, msgQueue_, e, t, n)
      BY <1>6, WayLess
    <2>6. Flow(published)'
      BY <1>1, <2>2, <2>4, <2>5 DEF Flow, n
    <2> QED
      BY <1>1, <1>2, <1>8, <2>3, <2>6, ListenerEndsStep
  <1>9. CASE listener' = [at |-> "received", msg |-> x] /\ isClosed_' = isClosed_
    <2>1. InHand' = <<x>>
      BY <1>9 DEF InHand
    <2>2. Wanted'
      BY <1>1, <1>7, <1>9 DEF Wanted
    <2>3. Flow(published)'
      BY <1>1, <1>6, <2>1 DEF Flow, n
    <2> DEFINE at == "received"
    <2>4. /\ listener' = [at |-> at, msg |-> x] /\ at # "reconnect"
          /\ at \in {"top", "reading", "reconnect", "received", "ended"}
      BY <1>9
    <2>5. {isChanged_, isClosed_}' \subseteq BOOLEAN
      BY <1>2, <1>9, Zenon
    <2>6. subscribed' \subseteq Channel
      BY <1>1 DEF PubSubInv, PubSubTypeOK
    <2> HIDE DEF at
    <2> QED
      BY <1>1, <1>3, <2>2, <2>3, <2>4, <2>5, <2>6, ListenerMoves
  <1> QED
    BY <1>4, <1>8, <1>9

LEMMA FailStep == PubSubInv /\ ReceiveFails => PubSubInv'
PROOF
  <1> SUFFICES ASSUME PubSubInv, ReceiveFails PROVE PubSubInv'
    OBVIOUS
  <1>1. /\ listener.at \in {"reading", "reconnect"} /\ ListenerEnds
        /\ UNCHANGED <<published, subscribed, socket, channels_, channelStr_, isChanged_, msgQueue_>>
        /\ UNCHANGED <<session_, redisMutex_, handler, handled>>
    BY DEF ReceiveFails, server, flags
  <1>2. {isChanged_}' \subseteq BOOLEAN
    BY <1>1, Zenon DEF PubSubInv, PubSubTypeOK
  <1>3. listener'.at = "ended"
    BY <1>1 DEF ListenerEnds
  <1>4. Wanted'
    BY <1>1, <1>3 DEF PubSubInv, Wanted
  <1>5. Flow(published)'
    <2>1. InHand' = << >>
      BY <1>3 DEF InHand
    <2> QED
      BY <1>1, <2>1, FlowLess
  <1> QED
    BY <1>1, <1>2, <1>4, <1>5, ListenerEndsStep

LEMMA TimeOutStep == PubSubInv /\ TimeOut => PubSubInv'
PROOF
  <1> SUFFICES ASSUME PubSubInv, TimeOut PROVE PubSubInv'
    OBVIOUS
  <1> DEFINE at == "reconnect"
             msg == listener.msg
  <1>1. /\ listener.at = "reading" /\ subscribed' = {} /\ socket' = << >>
        /\ UNCHANGED <<published, channels_, channelStr_, isChanged_, isClosed_, msgQueue_>>
        /\ UNCHANGED <<session_, redisMutex_, handler, handled>>
    BY DEF TimeOut, flags
  <1>2. /\ listener' = [at |-> at, msg |-> msg] /\ at # "received"
        /\ at \in {"top", "reading", "reconnect", "received", "ended"}
    BY DEF TimeOut, PubSubInv, Threads
  <1>3. {isChanged_, isClosed_}' \subseteq BOOLEAN
    BY <1>1, Zenon DEF PubSubInv, PubSubTypeOK
  <1>4. Wanted'
    BY <1>1, <1>2 DEF Wanted
  <1>5. Flow(published)'
    <2>1. InHand' = << >>
      BY <1>2 DEF InHand
    <2> QED
      BY <1>1, <2>1, FlowLess
  <1> HIDE DEF at, msg
  <1> QED
    BY <1>1, <1>2, <1>3, <1>4, <1>5, ListenerMoves

\* The end of a reconnection, with nothing in the socket: the connection is
\* subscribed to the channels of the command, or the listener ends.
LEMMA ResubscribeStep ==
    ASSUME PubSubInv, listener.at \in {"reconnect", "received"},
           \/ Resubscribe
           \/ ListenerEnds /\ subscribed' = {} /\ isChanged_' = isChanged_,
           listener.at = "received" => isChanged_,
           UNCHANGED <<published, channels_, channelStr_, session_, redisMutex_, handler, handled>>,
           socket' = << >>, Flow(published)'
    PROVE  PubSubInv'
PROOF
  <1>1. isChanged_ \in BOOLEAN /\ isClosed_ \in BOOLEAN
    BY Zenon DEF PubSubInv, PubSubTypeOK
  <1>2. \/ ListenerEnds /\ subscribed' \in {subscribed, {}} /\ isChanged_' = isChanged_
        \/ /\ subscribed' = channelStr_ /\ isChanged_' = FALSE /\ isClosed_' = isClosed_
           /\ listener' = [at |-> "top", msg |-> << >>]
    BY DEF Resubscribe
  <1>3. CASE ListenerEnds /\ subscribed' \in {subscribed, {}} /\ isChanged_' = isChanged_
    <2>1. listener'.at = "ended"
      BY <1>3 DEF ListenerEnds
    <2>2. isChanged_ \/ subscribed' \subseteq channelStr_
      BY <1>3 DEF PubSubInv, Wanted
    <2>3. Wanted'
      BY <1>3, <2>1, <2>2 DEF Wanted
    <2>4. {isChanged_}' \subseteq BOOLEAN
      BY <1>1, <1>3, Zenon
    <2> QED
      BY <1>3, <2>3, <2>4, ListenerEndsStep
  <1>4. CASE /\ subscribed' = channelStr_ /\ isChanged_' = FALSE /\ isClosed_' = isClosed_
             /\ listener' = [at |-> "top", msg |-> << >>]
    <2> DEFINE at == "top"
               msg == << >>
    <2>1. /\ listener' = [at |-> at, msg |-> msg] /\ at # "received" /\ at # "reconnect"
          /\ at \in {"top", "reading", "reconnect", "received", "ended"}
      BY <1>4
    <2>2. {isChanged_, isClosed_}' \subseteq BOOLEAN
      BY <1>1, <1>4, Zenon
    <2>3. Wanted'
      BY <1>4 DEF Wanted
    <2>4. subscribed' \subseteq Channel
      BY <1>4 DEF PubSubInv, PubSubTypeOK
    <2> HIDE DEF at, msg
    <2> QED
      BY <2>1, <2>2, <2>3, <2>4, ListenerMoves
  <1> QED
    BY <1>2, <1>3, <1>4

LEMMA ReconnectStep == PubSubInv /\ Reconnect => PubSubInv'
PROOF
  <1> SUFFICES ASSUME PubSubInv, Reconnect PROVE PubSubInv'
    OBVIOUS
  <1>1. /\ listener.at = "reconnect" /\ Resubscribe
        /\ UNCHANGED <<published, socket, channels_, channelStr_, msgQueue_>>
        /\ UNCHANGED <<session_, redisMutex_, handler, handled>>
    BY DEF Reconnect
  <1>2. socket' = << >>
    BY <1>1 DEF PubSubInv, Places
  <1>3. listener'.at \in {"top", "ended"}
    BY <1>1 DEF Resubscribe, ListenerEnds
  <1>4. Flow(published)'
    <2>1. InHand' = << >>
      BY <1>3 DEF InHand
    <2> QED
      BY <1>1, <2>1, FlowLess
  <1> QED
    BY <1>1, <1>2, <1>4, ResubscribeStep

\* A message that was read goes into the queue.
LEMMA PushFlow ==
    ASSUME PubSubInv, listener.at = "received", UNCHANGED <<published, handler, handled>>,
           msgQueue_' = Append(msgQueue_, listener.msg), listener'.at # "received",
           socket' \in {socket, << >>}
    PROVE  Flow(published)'
PROOF
  <1> DEFINE M == Message
             x == listener.msg
             n == published
             b == handler.batch
             q == Append(msgQueue_, x)
             e == << >>
             s == socket'
  <1>1. x \in M /\ InHand = <<x>> /\ InHand' = e
    BY DEF PubSubInv, Places, InHand
  <1>2. /\ Five(M, handled, b, msgQueue_, <<x>>, socket)
        /\ Way(handled, b, msgQueue_, <<x>>, socket) /\ Past(handled, b, msgQueue_, <<x>>, socket, n)
    BY <1>1, FlowFacts DEF Flow
  <1> HIDE DEF M, x, n, b
  <1>3. /\ Five(M, handled, b, q, e, socket) /\ Way(handled, b, q, e, socket)
        /\ Past(handled, b, q, e, socket, n)
    BY <1>1, <1>2, WayPush
  <1> HIDE DEF q
  <1>4. s \in {socket, << >>} /\ << >> \in Seq(M)
    OBVIOUS
  <1>5. Five(M, handled, b, q, e, s)
    BY <1>3, <1>4 DEF Five
  <1> HIDE DEF s, e
  <1>6. Way(handled, b, q, e, s) /\ Past(handled, b, q, e, s, n)
    BY <1>3, <1>4, WayLess
  <1>7. handler'.batch = b /\ msgQueue_' = q
    BY DEF b, q, x
  <1> QED
    BY <1>1, <1>5, <1>6, <1>7 DEF Flow, M, n, s

LEMMA PushStep == PubSubInv /\ Push => PubSubInv'
PROOF
  <1> SUFFICES ASSUME PubSubInv, Push PROVE PubSubInv'
    OBVIOUS
  <1> DEFINE at == "top"
             msg == << >>
  <1>1. /\ listener.at = "received" /\ ~isChanged_ /\ msgQueue_' = Append(msgQueue_, listener.msg)
        /\ UNCHANGED <<published, subscribed, socket, channels_, channelStr_, isChanged_, isClosed_>>
        /\ UNCHANGED <<session_, redisMutex_, handler, handled>>
    BY DEF Push, server, flags
  <1>2. /\ listener' = [at |-> at, msg |-> msg] /\ at # "received" /\ at # "reconnect"
        /\ at \in {"top", "reading", "reconnect", "received", "ended"}
    BY DEF Push
  <1>3. {isChanged_, isClosed_}' \subseteq BOOLEAN
    BY <1>1, Zenon DEF PubSubInv, PubSubTypeOK
  <1>4. subscribed' \subseteq Channel
    BY <1>1 DEF PubSubInv, PubSubTypeOK
  <1>5. Wanted'
    BY <1>1, <1>2 DEF PubSubInv, Wanted
  <1>6. Flow(published)'
    BY <1>1, <1>2, PushFlow
  <1> HIDE DEF at, msg
  <1> QED
    BY <1>1, <1>2, <1>3, <1>4, <1>5, <1>6, ListenerMoves

LEMMA PushChangedStep == PubSubInv /\ PushChanged => PubSubInv'
PROOF
  <1> SUFFICES ASSUME PubSubInv, PushChanged PROVE PubSubInv'
    OBVIOUS
  <1>1. /\ listener.at = "received" /\ isChanged_ /\ socket' = << >>
        /\ msgQueue_' = IF listener.msg.channel \in channels_
                        THEN Append(msgQueue_, listener.msg) ELSE msgQueue_
        /\ \/ Resubscribe
           \/ ListenerEnds /\ subscribed' = {} /\ isChanged_' = isChanged_
        /\ UNCHANGED <<published, channels_, channelStr_, session_, redisMutex_, handler, handled>>
    BY DEF PushChanged
  <1>2. listener'.at \in {"top", "ended"}
    <2>1. ListenerEnds \/ listener' = [at |-> "top", msg |-> << >>]
      BY <1>1, Zenon DEF Resubscribe
    <2> QED
      BY <2>1 DEF ListenerEnds
  <1>3. Flow(published)'
    <2>1. CASE listener.msg.channel \in channels_
      BY <1>1, <1>2, <2>1, PushFlow
    <2>2. CASE listener.msg.channel \notin channels_
      <3>1. InHand' = << >>
        BY <1>2 DEF InHand
      <3> QED
        BY <1>1, <2>2, <3>1, FlowLess
    <2> QED
      BY <2>1, <2>2
  <1> QED
    BY <1>1, <1>3, ResubscribeStep

\* Every step keeps the invariant.
LEMMA PubSubStep == PubSubInv /\ [PubSubNext]_pubSubVars => PubSubInv'
PROOF
  <1> SUFFICES ASSUME PubSubInv, [PubSubNext]_pubSubVars PROVE PubSubInv'
    OBVIOUS
  <1>1. CASE UNCHANGED pubSubVars
    <2>1. /\ UNCHANGED <<published, subscribed, socket, msgQueue_, session_, listener, handler, handled>>
          /\ UNCHANGED <<channels_, channelStr_, isChanged_, redisMutex_>>
      BY <1>1 DEF pubSubVars, server, flags
    <2>2. {isChanged_, isClosed_}' \subseteq BOOLEAN
      BY <1>1, Zenon DEF pubSubVars, flags, PubSubInv, PubSubTypeOK
    <2> QED
      BY <2>1, <2>2, CallStep DEF PubSubInv, PubSubTypeOK
  <1>2. CASE PubSubNext
    <2>1. \/ \E channels \in SUBSET Channel : Subscribe(channels)
          \/ \/ \E channels \in SUBSET Channel : Unsubscribe(channels)
             \/ \E channels \in SUBSET Channel, before \in SUBSET Channel :
                    UnsubscribeThrows(channels, before)
             \/ UnsubscribeReturns \/ StopListen \/ StopListenReturns
          \/ Listen \/ Receive \/ TimeOut \/ Reconnect
          \/ Push \/ PushChanged \/ ReceiveFails
          \/ Pop \/ Handle \/ HandlerLeaves \/ HandleFails
          \/ \E c \in Channel : Publish(c)
      BY <1>2 DEF PubSubNext, ListenerStep, HandlerStep
    <2> QED
      BY <2>1, SubscribeStep, CallsStep, ListenStep, ReceiveStep, FailStep, TimeOutStep,
         ReconnectStep, PushStep, PushChangedStep, HandlerSteps, PublishStep, Zenon
  <1> QED
    BY <1>1, <1>2

\* The invariant holds in every state.
LEMMA PubSubInvariance == PubSubSpec => []PubSubInv
PROOF
  <1>1. PubSubInit => PubSubInv
    BY PubSubInvInit
  <1>2. PubSubInv /\ [PubSubNext]_pubSubVars => PubSubInv'
    BY PubSubStep
  <1> QED
    BY <1>1, <1>2, PTL DEF PubSubSpec

\* Every variable has its type: the message in hand is one, and the command
\* has the channels.
THEOREM PubSubTypeCorrect == PubSubSpec => []PubSubTypeOK
PROOF
  <1>1. PubSubInv => PubSubTypeOK
    BY DEF PubSubInv
  <1>2. PubSubSpec => []PubSubInv
    BY PubSubInvariance
  <1> QED
    BY <1>1, <1>2, PTL

\* Over every reconnection, unsubscription and failure, messages reach the
\* callback in the order they were published, and none of them twice: whatever
\* the listener has read, the queue holds and the handler has popped comes
\* before what Redis has yet to send.
THEOREM MessagesInOrder == PubSubSpec => []InOrder
PROOF
  <1>1. PubSubSpec => []PubSubInv
    BY PubSubInvariance
  <1> QED
    BY <1>1, FlowInOrder, PTL

\* From the moment a call of unsubscribe has taken a channel out of the
\* command, no message of it gets into the queue: Redis may still send it and
\* the listener may hold one, but then isChanged_ makes it look at channels_.
THEOREM UnwantedNeverQueued == PubSubSpec => NothingUnwanted
PROOF
  <1> DEFINE Fits == \A i \in DOMAIN msgQueue_' :
                         i > Len(msgQueue_) => msgQueue_'[i].channel \in channelStr_
  <1>1. ASSUME PubSubInv, [PubSubNext]_pubSubVars PROVE [Fits]_pubSubVars
    <2>1. msgQueue_ \in Seq(Message) /\ Len(msgQueue_) \in Nat
          /\ DOMAIN msgQueue_ = 1..Len(msgQueue_)
      BY <1>1 DEF PubSubInv, PubSubTypeOK
    <2>2. CASE msgQueue_' = msgQueue_
      BY <2>1, <2>2
    <2>3. CASE \/ Push
               \/ PushChanged /\ msgQueue_' # msgQueue_
      <3>1. /\ listener.at = "received" /\ msgQueue_' = Append(msgQueue_, listener.msg)
            /\ listener.msg.channel \in channelStr_
        <4>1. CASE Push
          BY <1>1, <4>1 DEF Push, PubSubInv, Wanted
        <4>2. CASE PushChanged /\ msgQueue_' # msgQueue_
          <5>1. /\ listener.at = "received" /\ listener.msg.channel \in channels_
                /\ msgQueue_' = Append(msgQueue_, listener.msg)
            BY <4>2 DEF PushChanged
          <5>2. channels_ \subseteq channelStr_
            BY <1>1 DEF PubSubInv, PubSubTypeOK
          <5> QED
            BY <5>1, <5>2
        <4> QED
          BY <2>3, <4>1, <4>2
      <3>2. listener.msg \in Message
        BY <1>1, <3>1 DEF PubSubInv, Places
      <3> QED
        BY <2>1, <3>1, <3>2
    <2>4. CASE Pop
      <3>1. PICK k \in {IF Len(msgQueue_) < QUEUE_MSG_BATCH_SIZE THEN Len(msgQueue_) ELSE QUEUE_MSG_BATCH_SIZE} :
                k > 0 /\ msgQueue_' = SubSeq(msgQueue_, k + 1, Len(msgQueue_))
        BY <2>4 DEF Pop, Rest
      <3>2. k \in 1..Len(msgQueue_)
        BY <2>1, <3>1, PubSubAssumption
      <3> DEFINE r == SubSeq(msgQueue_, k + 1, Len(msgQueue_))
      <3>3. \A i \in DOMAIN r : ~(i > Len(msgQueue_))
        BY <2>1, <3>2, RestShorter
      <3> HIDE DEF r
      <3>4. msgQueue_' = r
        BY <3>1 DEF r
      <3> QED
        BY <3>3, <3>4
    <2>5. \/ msgQueue_' = msgQueue_
          \/ Push \/ PushChanged \/ Pop
      <3>1. CASE PubSubNext
        BY <3>1, Zenon DEF PubSubNext, ListenerStep, HandlerStep, Subscribe,
           Unsubscribe, UnsubscribeThrows, UnsubscribeReturns,
           StopListen, StopListenReturns, Listen, Receive,
           TimeOut, Reconnect, ReceiveFails, Handle,
           HandlerLeaves, HandleFails, HandlerEnds, Publish
      <3>2. CASE UNCHANGED pubSubVars
        BY <3>2 DEF pubSubVars
      <3> QED
        BY <1>1, <3>1, <3>2
    <2> QED
      BY <2>2, <2>3, <2>4, <2>5
  <1>2. PubSubSpec => []PubSubInv
    BY PubSubInvariance
  <1> QED
    BY <1>1, <1>2, PTL DEF PubSubSpec, NothingUnwanted
=============================================================================
