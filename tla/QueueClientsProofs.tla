------------------------- MODULE QueueClientsProofs -------------------------
(***************************************************************************)
(* TypeOK and NoLostWakeup of QueueClients for every capacity, every set   *)
(* of threads and of items.                                                *)
(***************************************************************************)
EXTENDS QueueClients, SequenceTheorems, TLAPS

IInv == TypeOK /\ NoLostWakeup

USE CapacityAssumption, BatchAssumption

\* removeItem never lengthens the queue and wakes like pop.
LEMMA RemoveFacts ==
    ASSUME NEW S, items_ \in Seq(S), NEW gone, RemoveItem(gone)
    PROVE  /\ items_' \in Seq(S)
           /\ Len(items_') =< Len(items_)
           /\ empty_' = empty_
           /\ ~IsEmpty
           /\ full_' \in {full_, {}}
           /\ IsFull => full_' = {} \/ IsFull'
PROOF
  <1>0. PICK n \in 0..Len(items_) : \E pos \in [1..n -> 1..Len(items_)] :
            items_' = [i \in 1..n |-> items_[pos[i]]]
    BY DEF RemoveItem
  <1>1. PICK pos \in [1..n -> 1..Len(items_)] :
            items_' = [i \in 1..n |-> items_[pos[i]]]
    BY <1>0
  <1>2. items_' \in [1..n -> S]
    BY <1>1
  <1>3. n \in Nat
    BY <1>0
  <1>4. /\ items_' \in Seq(S)
        /\ Len(items_') = n
    BY <1>1, <1>2, <1>3
  <1> QED
    BY <1>0, <1>4, CapacityAssumption DEF RemoveItem, NotifyFull, IsFull
\* Nobody sleeps on the new queue.
LEMMA InitInv == Init => IInv
  BY DEF Init, IInv, TypeOK, NoLostWakeup, QInit, Call, Idle

\* No call of any method breaks it.
LEMMA StepInv == IInv /\ [Next]_vars => IInv'
PROOF
  <1> SUFFICES ASSUME IInv, [Next]_vars PROVE IInv'
    OBVIOUS
  <1> USE DEF IInv
  <1>1. CASE UNCHANGED vars
    BY <1>1 DEF vars, TypeOK, NoLostWakeup, IsEmpty, IsFull
  <1>2. ASSUME NEW t \in Thread, NEW op \in {"blockingPush", "timedPush"},
               NEW x \in Item, BlockingPush(t, op, x)
        PROVE  IInv'
    <2>1. PushCall(op, x) \in Call /\ Idle \in Call
      BY DEF PushCall, Call, Idle
    <2>2. CASE TryPush(x) /\ blocked' = [blocked EXCEPT ![t] = Idle]
      BY <1>2, <2>1, <2>2
      DEF BlockingPush, TryPush, Enqueue, Restrand, TypeOK, NoLostWakeup, IsFull, IsEmpty
    <2>3. CASE SleepOnFull(t) /\ blocked' = [blocked EXCEPT ![t] = PushCall(op, x)]
      BY <1>2, <2>1, <2>3
      DEF BlockingPush, SleepOnFull, Restrand, TypeOK, NoLostWakeup, IsFull, IsEmpty
    <2> QED
      BY <1>2, <2>2, <2>3 DEF BlockingPush
  <1>3. ASSUME NEW t \in Thread, NEW x \in Item, Push(t, x)
        PROVE  IInv'
    BY <1>3
    DEF Push, TryPush, Enqueue, Restrand, TypeOK, NoLostWakeup, IsFull, IsEmpty
  <1>4. ASSUME NEW t \in Thread, NEW op \in {"blockingPop", "timedPop"},
               BlockingPop(t, op)
        PROVE  IInv'
    <2>1. [op |-> op] \in Call /\ Idle \in Call
      BY DEF Call, Idle
    <2>2. CASE PopOne /\ blocked' = [blocked EXCEPT ![t] = Idle]
      BY <1>4, <2>1, <2>2
      DEF BlockingPop, PopOne, Dequeue, NotifyFull, Restrand, TypeOK, NoLostWakeup, IsFull, IsEmpty
    <2>3. CASE SleepOnEmpty(t) /\ blocked' = [blocked EXCEPT ![t] = [op |-> op]]
      BY <1>4, <2>1, <2>3
      DEF BlockingPop, SleepOnEmpty, Restrand, TypeOK, NoLostWakeup, IsFull, IsEmpty
    <2> QED
      BY <1>4, <2>2, <2>3 DEF BlockingPop
  <1>5. ASSUME NEW t \in Thread, Pop(t)
        PROVE  IInv'
    BY <1>5
    DEF Pop, PopOne, Dequeue, NotifyFull, Restrand, TypeOK, NoLostWakeup, IsFull, IsEmpty
  <1>6. ASSUME NEW t \in Thread, NEW n \in Batch, PopBatch(t, n)
        PROVE  IInv'
    <2>1. PopCount(n) \in Nat /\ PopCount(n) >= 1 /\ PopCount(n) =< Len(items_)
      BY <1>6 DEF PopCount, PopBatch, PopMany, IsEmpty, TypeOK
    <2> QED
      BY <1>6, <2>1
      DEF PopBatch, PopMany, Dequeue, NotifyFull, Restrand, TypeOK, NoLostWakeup, IsFull, IsEmpty
  <1>7. ASSUME NEW t \in Thread, NEW x \in Item, Remove(t, x)
        PROVE  IInv'
    BY <1>7, RemoveFacts
    DEF Remove, Restrand, TypeOK, NoLostWakeup, IsFull, IsEmpty
  <1>8. ASSUME NEW t \in Thread, ClearCall(t)
        PROVE  IInv'
    BY <1>8 DEF ClearCall, Clear, TypeOK, NoLostWakeup, IsFull, IsEmpty
  <1>9. ASSUME NEW t \in Thread, TimeOut(t)
        PROVE  IInv'
    <2>1. [op |-> "expired"] \in Call
      BY DEF Call
    <2> QED
      BY <1>9, <2>1
      DEF TimeOut, LeaveWait, Restrand, TypeOK, NoLostWakeup, IsFull, IsEmpty
  <1>10. ASSUME NEW t \in Thread, ReturnFalse(t)
         PROVE  IInv'
    BY <1>10 DEF ReturnFalse, TypeOK, NoLostWakeup, IsFull, IsEmpty, Call, Idle
  <1>11. ASSUME NEW t \in Thread, SpuriousWakeup(t)
         PROVE  IInv'
    BY <1>11
    DEF SpuriousWakeup, LeaveWait, Restrand, TypeOK, NoLostWakeup, IsFull, IsEmpty
  <1> QED
    BY <1>1, <1>2, <1>3, <1>4, <1>5, <1>6, <1>7, <1>8, <1>9, <1>10, <1>11
    DEF Next, Step

\* The queue of include/Concurrent.h stays well formed and within capacity_,
\* for any capacity, any threads and any interleaving of the calls.
THEOREM TypeCorrect == Spec => []TypeOK
PROOF
  <1>1. IInv => TypeOK
    BY DEF IInv
  <1> QED
    BY InitInv, StepInv, <1>1, PTL DEF Spec

\* No call of the queue loses a wake-up, clear() excepted.
THEOREM WakeupCorrect == Spec => []NoLostWakeup
PROOF
  <1>1. IInv => NoLostWakeup
    BY DEF IInv
  <1> QED
    BY InitInv, StepInv, <1>1, PTL DEF Spec
=============================================================================
