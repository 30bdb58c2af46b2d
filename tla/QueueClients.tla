---------------------------- MODULE QueueClients ----------------------------
(***************************************************************************)
(* Threads that call the methods of one GenericBoundedQueue in any order.  *)
(*                                                                         *)
(* A call that does not block is one step.  A call that blocks is          *)
(* remembered in blocked[t] while the thread sleeps in, or has just been   *)
(* woken from, a condition variable.                                       *)
(***************************************************************************)
EXTENDS GenericBoundedQueue

CONSTANTS
    Thread,          \* the calling threads
    Item,            \* the values pushed
    Batch            \* the values of n passed to pop(container, n)

ASSUME BatchAssumption == Batch \subseteq Nat \ {0}

VARIABLES
    blocked,         \* blocked[t]: the blocking call t is inside, or Idle
    stranded         \* history: the producers that were asleep in full_ at
                     \* the last clear() and have not been notified since

vars == <<items_, full_, empty_, blocked, stranded>>

Idle == [op |-> "idle"]

Call ==
    {Idle} \union [op : {"blockingPush", "timedPush"}, item : Item]
           \union [op : {"blockingPop", "timedPop", "expired"}]

Init ==
    /\ QInit
    /\ blocked = [t \in Thread |-> Idle]
    /\ stranded = {}

\* Notified producers are no longer stranded.
Restrand == stranded' = stranded \intersect full_'

\* blockingPush(item) and blockingPush(item, milliseconds): the first entry
\* from Idle, and again after every wake-up.
PushCall(op, x) == [op |-> op, item |-> x]

BlockingPush(t, op, x) ==
    /\ t \notin full_
    /\ blocked[t] \in {Idle, PushCall(op, x)}
    /\ \/ /\ TryPush(x)
          /\ blocked' = [blocked EXCEPT ![t] = Idle]
       \/ /\ SleepOnFull(t)
          /\ blocked' = [blocked EXCEPT ![t] = PushCall(op, x)]
    /\ Restrand

\* bool push(item): returns false on a full queue and changes nothing.
Push(t, x) ==
    /\ blocked[t] = Idle
    /\ TryPush(x)
    /\ Restrand
    /\ UNCHANGED blocked

BlockingPop(t, op) ==
    /\ t \notin empty_
    /\ blocked[t] \in {Idle, [op |-> op]}
    /\ \/ /\ PopOne
          /\ blocked' = [blocked EXCEPT ![t] = Idle]
       \/ /\ SleepOnEmpty(t)
          /\ blocked' = [blocked EXCEPT ![t] = [op |-> op]]
    /\ Restrand

\* bool pop(item), pop(container, n), removeItem(func) and clear().
Pop(t) ==
    /\ blocked[t] = Idle
    /\ PopOne
    /\ Restrand
    /\ UNCHANGED blocked

PopBatch(t, n) ==
    /\ blocked[t] = Idle
    /\ PopMany(n)
    /\ Restrand
    /\ UNCHANGED blocked

Remove(t, x) ==
    /\ blocked[t] = Idle
    /\ RemoveItem({x})
    /\ Restrand
    /\ UNCHANGED blocked

ClearCall(t) ==
    /\ blocked[t] = Idle
    /\ Clear
    /\ stranded' = full_
    /\ UNCHANGED blocked

\* The wait of a timed call runs out.  The thread still has to get mutex_
\* back, so the queue may change before the call returns false.
TimeOut(t) ==
    /\ blocked[t].op \in {"timedPush", "timedPop"}
    /\ LeaveWait(t)
    /\ blocked' = [blocked EXCEPT ![t] = [op |-> "expired"]]
    /\ Restrand

ReturnFalse(t) ==
    /\ blocked[t].op = "expired"
    /\ blocked' = [blocked EXCEPT ![t] = Idle]
    /\ UNCHANGED <<items_, full_, empty_, stranded>>

SpuriousWakeup(t) ==
    /\ LeaveWait(t)
    /\ Restrand
    /\ UNCHANGED blocked

Step(t) ==
    \/ \E op \in {"blockingPush", "timedPush"}, x \in Item : BlockingPush(t, op, x)
    \/ \E x \in Item : Push(t, x)
    \/ \E op \in {"blockingPop", "timedPop"} : BlockingPop(t, op)
    \/ Pop(t)
    \/ \E n \in Batch : PopBatch(t, n)
    \/ \E x \in Item : Remove(t, x)
    \/ ClearCall(t)
    \/ TimeOut(t)
    \/ ReturnFalse(t)
    \/ SpuriousWakeup(t)

Next == \E t \in Thread : Step(t)

Spec == Init /\ [][Next]_vars

-----------------------------------------------------------------------------
(***************************************************************************)
(* Properties                                                              *)
(***************************************************************************)

\* The variables hold what the code can put there, and the queue never holds
\* more than capacity_ items however the calls interleave.
TypeOK ==
    /\ items_ \in Seq(Item)
    /\ Len(items_) =< capacity_
    /\ full_ \subseteq Thread
    /\ empty_ \subseteq Thread
    /\ stranded \subseteq full_
    /\ blocked \in [Thread -> Call]

\* No wake-up is lost although push notifies only on the transition to one
\* item and pop only on the transition from full: a consumer sleeps only
\* while the queue is empty, and a producer sleeps only while it is full,
\* except for the producers that a clear() left asleep (clear notifies
\* nobody).
NoLostWakeup ==
    /\ empty_ # {} => IsEmpty
    /\ full_ \subseteq stranded \/ IsFull
=============================================================================
