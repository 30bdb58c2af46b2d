------------------------ MODULE GenericBoundedQueue ------------------------
(***************************************************************************)
(* The monitor GenericBoundedQueue of include/Concurrent.h.                *)
(*                                                                         *)
(* Every method takes mutex_ for its whole body and gives it up only       *)
(* inside ConditionalVariable::wait, so one critical section is one step.  *)
(* full_ and empty_ are the condition variables, each represented by the   *)
(* set of threads asleep on it; notifyAll empties the set.  A thread that  *)
(* is no longer in the set re-evaluates its while condition under the      *)
(* lock: for this queue that is the same code as entering the method.      *)
(*                                                                         *)
(* Every instantiation in the repository uses a sizer that returns 1 and a *)
(* Mandatory functor that returns false, so size_ equals Len(items_).      *)
(***************************************************************************)
EXTENDS Integers, Sequences, FiniteSets

CONSTANT capacity_   \* the queue's capacity, the constructor's first argument

ASSUME CapacityAssumption == capacity_ \in Nat \ {0}

VARIABLES
    items_,          \* the queue, oldest item first
    full_,           \* threads asleep in full_.wait: producers
    empty_           \* threads asleep in empty_.wait: consumers

qvars == <<items_, full_, empty_>>

QInit ==
    /\ items_ = <<>>
    /\ full_ = {}
    /\ empty_ = {}

IsEmpty == Len(items_) = 0

IsFull == Len(items_) >= capacity_

\* Mutant: push wakes nobody.
MutEnqueueSilent(x) ==
    /\ items_' = Append(items_, x)
    /\ UNCHANGED <<full_, empty_>>

\* The tail of push and blockingPush: append, then wake the consumers only
\* when the queue has just become non-empty.
Enqueue(x) ==
    /\ items_' = Append(items_, x)
    /\ empty_' = IF Len(items_') = 1 THEN {} ELSE empty_
    /\ UNCHANGED full_

\* Mutant: pop compares with an empty queue instead of capacity_.
MutNotifyFullLate ==
    full_' = IF IsFull /\ Len(items_') = 0 THEN {} ELSE full_

\* full_.notifyAll() at the end of pop and removeItem: only when the queue
\* was full at the start and no longer is.
NotifyFull ==
    full_' = IF IsFull /\ Len(items_') < capacity_ THEN {} ELSE full_

\* Taking the k oldest items out.
Dequeue(k) ==
    /\ items_' = SubSeq(items_, k + 1, Len(items_))
    /\ NotifyFull
    /\ UNCHANGED empty_

\* bool push(const T&) on a queue with room.
TryPush(x) ==
    /\ ~IsFull
    /\ Enqueue(x)

\* The wait inside blockingPush: thread t goes to sleep and frees mutex_.
SleepOnFull(t) ==
    /\ IsFull
    /\ full_' = full_ \union {t}
    /\ UNCHANGED <<items_, empty_>>

\* The wait inside blockingPop.
SleepOnEmpty(t) ==
    /\ IsEmpty
    /\ empty_' = empty_ \union {t}
    /\ UNCHANGED <<items_, full_>>

\* pop(container, n): how many items the loop takes, at least one.
PopCount(n) == IF n < Len(items_) THEN n ELSE Len(items_)

\* bool pop(T&), and the end of blockingPop.
PopOne ==
    /\ ~IsEmpty
    /\ Dequeue(1)

\* pop(container, n) on a queue that is not empty.
PopMany(n) ==
    /\ ~IsEmpty
    /\ Dequeue(PopCount(n))

\* clear() empties the queue and notifies nobody.
Clear ==
    /\ items_' = <<>>
    /\ UNCHANGED <<full_, empty_>>

\* removeItem(func), func being true of the items in gone: the others stay, in
\* order; pos lists their old positions.
RemoveItem(gone) ==
    /\ ~IsEmpty
    /\ \E n \in 0..Len(items_) : \E pos \in [1..n -> 1..Len(items_)] :
          /\ \A i, j \in 1..n : i < j => pos[i] < pos[j]
          /\ \A k \in 1..Len(items_) :
                (\E i \in 1..n : pos[i] = k) <=> items_[k] \notin gone
          /\ items_' = [i \in 1..n |-> items_[pos[i]]]
    /\ NotifyFull
    /\ UNCHANGED empty_

\* A waiter's wait ends without a notify: a timed wait that expires, or the
\* spurious wake-up that pthread_cond_wait allows.
LeaveWait(t) ==
    /\ t \in full_ \union empty_
    /\ full_' = full_ \ {t}
    /\ empty_' = empty_ \ {t}
    /\ UNCHANGED items_
=============================================================================
