------------------------- MODULE ThreadedQueueProofs -------------------------
(***************************************************************************)
(* TypeOK, NoLostWakeup, NothingLostOrReordered, StaleBound and            *)
(* StatusHonest of ThreadedQueue, and the refinement of DeliveryPipeline,  *)
(* for any capacity, any batch size, any finite set of producers, in both  *)
(* modes.                                                                  *)
(*                                                                         *)
(* The inductive invariant says how far the producers, the worker and the  *)
(* controller can be from each other (Phases), that each batch has room    *)
(* for what the worker is about to add to it (BatchFits), and where every  *)
(* accepted and unsettled message is, position by position (Aligned).      *)
(***************************************************************************)
EXTENDS MCThreadedQueue, SequenceTheorems, FiniteSetTheorems, TLAPS

\* The worker lives between start and join; before the first start nobody
\* has pushed.
Phases ==
    /\ ~stopFlag_ => /\ controller \in {"idle", "start"}
                     /\ worker \notin {"none", "ended"}
    /\ controller \in {"idle", "start"} /\ stopFlag_ => worker = "none"
    /\ controller = "join" => worker # "none"
    /\ controller \in {"pop", "clear"} => worker = "none"
    /\ starts = 0 => /\ stopFlag_
                     /\ controller = "idle"
                     /\ full_ = {}
                     /\ \A p \in Producer : pushing[p] = NoMsg
    /\ \A p \in Producer : pushing[p] \in 0..MaxMsg

\* The batch and popSize at each place of the worker's round.
BatchFits ==
    /\ worker \in {"none", "ended"} => batch = <<>>
    /\ worker = "pop" => Len(batch) < bufferSize_
    /\ worker \in {"pop", "expired"} =>
          IF timeoutAsThrottle_ THEN popSize = Len(batch) ELSE batch = <<>>
    /\ worker = "fill" => size >= 1 /\ size + Len(batch) =< bufferSize_
    /\ worker \in {"again", "lapsed", "popped"} => timeoutAsThrottle_
    /\ worker \in {"again", "lapsed", "popped", "count", "counted", "insert",
                   "finalize", "failInsert", "failFinal", "failedInsert",
                   "failedFinal"} => popSize = Len(batch)

ControlInv == TypeOK /\ Phases /\ BatchFits

USE CapacityAssumption, ConfigAssumption

-----------------------------------------------------------------------------
(***************************************************************************)
(* What the methods of GenericBoundedQueue do to the queue and to the wait *)
(* sets, for items of any set S.                                           *)
(***************************************************************************)

\* An Enqueue on a queue with room keeps it within capacity_ and leaves no
\* consumer asleep on a queue that is no longer empty (push, blockingPush).
LEMMA EnqueueFacts ==
    ASSUME NEW S, items_ \in Seq(S), NEW x \in S, Enqueue(x),
           empty_ # {} => IsEmpty
    PROVE  /\ items_' \in Seq(S)
           /\ Len(items_') = Len(items_) + 1
           /\ \A i \in 1..Len(items_) : items_'[i] = items_[i]
           /\ items_'[Len(items_) + 1] = x
           /\ empty_' = {}
           /\ full_' = full_
PROOF
  <1>1. /\ items_' \in Seq(S)
        /\ Len(items_') = Len(items_) + 1
        /\ \A i \in 1..Len(items_) : items_'[i] = items_[i]
        /\ items_'[Len(items_) + 1] = x
    BY DEF Enqueue
  <1>2. empty_' = {}
    BY <1>1 DEF Enqueue, IsEmpty
  <1> QED
    BY <1>1, <1>2 DEF Enqueue

\* A Dequeue of one or more items shortens the queue and wakes every producer
\* when the queue stops being full (pop, blockingPop).
LEMMA DequeueFacts ==
    ASSUME NEW S, items_ \in Seq(S), NEW k \in Nat, k >= 1, k =< Len(items_),
           Dequeue(k)
    PROVE  /\ items_' \in Seq(S)
           /\ Len(items_') = Len(items_) - k
           /\ \A i \in 1..Len(items_') : items_'[i] = items_[k + i]
           /\ empty_' = empty_
           /\ full_' \in {full_, {}}
           /\ IsFull => full_' = {} \/ IsFull'
PROOF
  <1>1. /\ items_' \in Seq(S)
        /\ Len(items_') = Len(items_) - k
        /\ \A i \in 1..Len(items_') : items_'[i] = items_[k + i]
    BY DEF Dequeue
  <1> QED
    BY <1>1, CapacityAssumption DEF Dequeue, NotifyFull, IsFull

-----------------------------------------------------------------------------
\* A mark is a sequence of fates, one per message.
LEMMA MarkFacts ==
    ASSUME fate \in Seq(Fate), NEW f \in Fate, NEW n \in Nat, Mark(f, n)
    PROVE  /\ fate' \in Seq(Fate)
           /\ Len(fate') = Len(fate) + n
PROOF
  <1>1. [i \in 1..n |-> f] \in Seq(Fate) /\ Len([i \in 1..n |-> f]) = n
    OBVIOUS
  <1> QED
    BY <1>1 DEF Mark

\* Before the first start: an empty queue, no worker, no batch.
LEMMA ControlInit == Init => ControlInv
PROOF
  <1> SUFFICES ASSUME Init PROVE ControlInv
    OBVIOUS
  <1>1. TypeOK
    <2>1. /\ items_ \in Seq(Nat) /\ batch \in Seq(Nat) /\ accepted \in Seq(Nat)
          /\ fate \in Seq(Fate)
          /\ Len(items_) = 0 /\ Len(batch) = 0
      BY DEF Init, QInit
    <2>2. pushing \in [Producer -> Nat]
      BY DEF Init, NoMsg
    <2>3. stopFlag_ \in BOOLEAN /\ elapsed \in BOOLEAN /\ torn \in BOOLEAN
      BY DEF Init
    <2>4. Len(items_) =< capacity_ /\ Len(batch) =< bufferSize_
      BY <2>1
    <2>5. /\ popSize \in 0..bufferSize_ /\ size \in 0..bufferSize_
          /\ starts \in 0..MaxStart
      BY DEF Init
    <2>6. /\ full_ \subseteq Producer /\ empty_ \subseteq {Worker}
          /\ nextMsg \in Nat \ {0} /\ worker \in WorkerPC
          /\ controller \in {"idle", "start", "join", "pop", "clear"}
          /\ processedMsgCount_ \in Nat /\ failedMsgCount_ \in Nat
          /\ base \in Nat /\ loaded \in Nat
      BY DEF Init, QInit, WorkerPC
    <2> QED
      BY <2>1, <2>2, <2>3, <2>4, <2>5, <2>6 DEF TypeOK
  <1>2. Phases
    BY DEF Init, QInit, Phases, NoMsg
  <1>3. BatchFits
    BY DEF Init, BatchFits
  <1> QED
    BY <1>1, <1>2, <1>3 DEF ControlInv

\* A producer's step leaves the threads where they are and fills no batch.
LEMMA ControlProducers ==
    ASSUME ControlInv, NEW p \in Producer, empty_ # {} => IsEmpty,
           Push(p) \/ BlockingPush(p)
    PROVE  ControlInv'
PROOF
  <1> USE DEF ControlInv
  <1>1. CASE Push(p)
    BY <1>1 DEF Push, TypeOK, Phases, BatchFits, queueVars, workerVars,
                statusVars, historyVars, NoMsg
  <1>2. CASE BlockingPush(p)
    <2>1. CASE TryPush(pushing[p]) /\ pushing' = [pushing EXCEPT ![p] = NoMsg]
               /\ accepted' = Append(accepted, pushing[p])
      <3>1. items_ \in Seq(Nat) /\ pushing[p] \in Nat
        BY DEF TypeOK
      <3>2. /\ items_' \in Seq(Nat)
            /\ Len(items_') = Len(items_) + 1
            /\ empty_' = {}
            /\ full_' = full_
        BY <2>1, <3>1, EnqueueFacts DEF TryPush
      <3>3. accepted' \in Seq(Nat)
        BY <2>1, <3>1 DEF TypeOK
      <3>4. TypeOK'
        BY <1>2, <2>1, <3>2, <3>3
        DEF BlockingPush, TypeOK, TryPush, IsFull, workerVars, statusVars, NoMsg
      <3>5. Phases' /\ BatchFits'
        BY <1>2, <2>1, <3>2
        DEF BlockingPush, TypeOK, Phases, BatchFits, workerVars, statusVars, NoMsg
      <3> QED
        BY <3>4, <3>5
    <2>2. CASE SleepOnFull(p) /\ UNCHANGED <<pushing, accepted>>
      BY <1>2, <2>2 DEF BlockingPush, SleepOnFull, TypeOK, Phases, BatchFits,
                        workerVars, statusVars, NoMsg
    <2> QED
      BY <1>2, <2>1, <2>2 DEF BlockingPush
  <1> QED
    BY <1>1, <1>2

\* The worker's steps that leave the queue alone.
LEMMA ControlWorker ==
    ASSUME ControlInv,
           \/ Loop \/ PopFailed \/ ReadSize \/ Again \/ Popped
           \/ Count \/ StoreCount \/ Insert \/ Finalize \/ Catch \/ StoreFailed
    PROVE  ControlInv'
PROOF
  <1> USE DEF ControlInv, queueVars, statusVars, callerVars, historyVars
  <1>1. CASE Loop
    <2>1. elapsed' \in BOOLEAN
      BY <1>1 DEF Loop, TypeOK
    <2>2. batch' \in Seq(Nat) /\ Len(batch') = 0
      BY <1>1 DEF Loop
    <2>3. \/ /\ worker' = "ended"
             /\ UNCHANGED <<popSize, size>>
          \/ /\ ~stopFlag_
             /\ worker' = "pop"
             /\ size' = 0
             /\ popSize' = IF timeoutAsThrottle_ THEN 0 ELSE popSize
      BY <1>1 DEF Loop
    <2>4. /\ worker = "loop" /\ batch' = <<>>
          /\ UNCHANGED <<queueVars, stopFlag_, loaded, statusVars, callerVars,
                         historyVars>>
      BY <1>1 DEF Loop
    <2>5. worker' = "ended" => stopFlag_
      BY <1>1 DEF Loop
    <2> QED
      BY <2>1, <2>2, <2>3, <2>4, <2>5 DEF TypeOK, WorkerPC, Phases, BatchFits
  <1>2. CASE PopFailed
    BY <1>2 DEF PopFailed, TypeOK, WorkerPC, Phases, BatchFits
  <1>3. CASE ReadSize
    <2>1. /\ size' \in 0..bufferSize_
          /\ size' + Len(batch) =< bufferSize_
      BY <1>3 DEF ReadSize, TypeOK
    <2>2. CASE size' > 0 /\ worker' = "fill" /\ UNCHANGED popSize
      BY <1>3, <2>1, <2>2 DEF ReadSize, TypeOK, WorkerPC, Phases, BatchFits
    <2>3. CASE size' = 0 /\ worker' = AfterFill /\ popSize' = Len(batch)
      BY <1>3, <2>1, <2>3
      DEF ReadSize, AfterFill, TypeOK, WorkerPC, Phases, BatchFits
    <2> QED
      BY <1>3, <2>2, <2>3 DEF ReadSize
  <1>4. CASE Again
    <2>1. elapsed' \in BOOLEAN
      BY <1>4 DEF Again, TypeOK
    <2>2. timeoutAsThrottle_ = TRUE
      BY <1>4 DEF Again, BatchFits
    <2> QED
      BY <1>4, <2>1, <2>2 DEF Again, TypeOK, WorkerPC, Phases, BatchFits
  <1>5. CASE Popped
    BY <1>5 DEF Popped, TypeOK, WorkerPC, Phases, BatchFits
  <1>6. CASE Count
    BY <1>6 DEF Count, TypeOK, WorkerPC, Phases, BatchFits
  <1>7. CASE Insert
    BY <1>7 DEF Insert, TypeOK, WorkerPC, Phases, BatchFits
  <1>8. CASE Finalize
    <2>1. fate' \in Seq(Fate)
      BY <1>8, MarkFacts DEF Finalize, TypeOK, Fate
    <2>2. CASE worker' = "loop" /\ batch' = <<>>
      <3>1. batch' \in Seq(Nat) /\ Len(batch') = 0
        BY <2>2
      <3> QED
        BY <1>8, <2>1, <2>2, <3>1 DEF Finalize, TypeOK, WorkerPC, Phases, BatchFits
    <2>3. CASE worker' = "failFinal" /\ UNCHANGED <<batch, fate>>
      BY <1>8, <2>3 DEF Finalize, TypeOK, WorkerPC, Phases, BatchFits
    <2> QED
      BY <1>8, <2>2, <2>3 DEF Finalize
  <1>9. CASE Catch
    <2>1. torn' \in BOOLEAN
      <3> DEFINE met == torn \/ controller = "start"
      <3>1. torn' = met
        BY <1>9 DEF Catch
      <3>2. met \in BOOLEAN
        OBVIOUS
      <3> HIDE DEF met
      <3> QED
        BY <3>1, <3>2
    <2> QED
      BY <1>9, <2>1 DEF Catch, TypeOK, WorkerPC, Phases, BatchFits
  <1>10. CASE StoreCount
    BY <1>10 DEF StoreCount, TypeOK, WorkerPC, Phases, BatchFits
  <1>11. CASE StoreFailed
    <2>1. fate' \in Seq(Fate)
      BY <1>11, MarkFacts DEF StoreFailed, TypeOK, Fate
    <2> QED
      BY <1>11, <2>1 DEF StoreFailed, TypeOK, WorkerPC, Phases, BatchFits
  <1> QED
    BY <1>1, <1>2, <1>3, <1>4, <1>5, <1>6, <1>7, <1>8, <1>9, <1>10, <1>11

\* The worker's steps on the queue.
LEMMA ControlPops ==
    ASSUME ControlInv, PopFirst \/ Fill \/ TimeOut
    PROVE  ControlInv'
PROOF
  <1> USE DEF ControlInv, queueVars, statusVars, callerVars, historyVars
  <1>0. items_ \in Seq(Nat) /\ batch \in Seq(Nat)
    BY DEF TypeOK
  <1>1. CASE PopFirst
    <2>1. CASE PopOne /\ batch' = Append(batch, Head(items_)) /\ worker' = "size"
      <3>1. /\ items_' \in Seq(Nat)
            /\ Len(items_') = Len(items_) - 1
            /\ empty_' = empty_
            /\ full_' \in {full_, {}}
        BY <1>0, <2>1, DequeueFacts DEF PopOne, IsEmpty
      <3>2. batch' \in Seq(Nat) /\ Len(batch') = Len(batch) + 1
        BY <1>0, <2>1 DEF PopOne, IsEmpty
      <3> QED
        BY <1>1, <2>1, <3>1, <3>2
        DEF PopFirst, TypeOK, WorkerPC, Phases, BatchFits
    <2>2. CASE SleepOnEmpty(Worker) /\ UNCHANGED <<batch, worker>>
      BY <1>1, <2>2
      DEF PopFirst, SleepOnEmpty, TypeOK, WorkerPC, Phases, BatchFits
    <2> QED
      BY <1>1, <2>1, <2>2 DEF PopFirst
  <1>2. CASE Fill
    <2> DEFINE k == PopCount(size)
    <2>1. k \in Nat /\ k =< size /\ k =< Len(items_)
      <3>1. size \in Nat /\ Len(items_) \in Nat
        BY <1>0 DEF TypeOK
      <3> QED
        BY <3>1 DEF PopCount
    <2>2. /\ SubSeq(items_, 1, k) \in Seq(Nat)
          /\ Len(SubSeq(items_, 1, k)) = k
      BY <1>0, <2>1
    <2>3. batch' \in Seq(Nat) /\ Len(batch') = Len(batch) + k
      BY <1>0, <1>2, <2>2 DEF Fill
    <2>4. /\ items_' \in Seq(Nat)
          /\ Len(items_') =< Len(items_)
          /\ empty_' = empty_
          /\ full_' \in {full_, {}}
      <3>1. /\ items_' = SubSeq(items_, k + 1, Len(items_))
            /\ NotifyFull
            /\ empty_' = empty_
        BY <1>2 DEF Fill, PopMany, Dequeue
      <3> HIDE DEF k
      <3>2. /\ items_' \in Seq(Nat)
            /\ Len(items_') =< Len(items_)
        BY <1>0, <2>1, <3>1
      <3> QED
        BY <3>1, <3>2 DEF NotifyFull
    <2> HIDE DEF k
    <2>5. popSize' = Len(batch') /\ worker' = AfterFill
      BY <1>2 DEF Fill
    <2>6. Len(batch') \in 0..bufferSize_
      BY <1>0, <1>2, <2>1, <2>3 DEF Fill, BatchFits, TypeOK
    <2>7. BatchFits'
      BY <2>5 DEF AfterFill, BatchFits
    <2>8. /\ UNCHANGED <<stopFlag_, size, elapsed, loaded, statusVars, callerVars,
                        historyVars>>
          /\ worker = "fill"
          /\ worker' \in {"again", "count"}
      BY <1>2, <2>5 DEF Fill, AfterFill
    <2>9. TypeOK'
      BY <2>3, <2>4, <2>5, <2>6, <2>8 DEF TypeOK, WorkerPC
    <2>10. Phases'
      BY <2>4, <2>8 DEF Phases
    <2> QED
      BY <2>7, <2>9, <2>10
  <1>3. CASE TimeOut
    BY <1>3 DEF TimeOut, LeaveWait, TypeOK, WorkerPC, Phases, BatchFits
  <1> QED
    BY <1>1, <1>2, <1>3

\* start and stop create the worker, join it and drain the queue behind it.
LEMMA ControlController ==
    ASSUME ControlInv,
           \/ Start \/ StartThread \/ Stop \/ Join \/ StopPop \/ StopClear
           \/ SpuriousWakeup
    PROVE  ControlInv'
PROOF
  <1> USE DEF ControlInv, queueVars, workerVars, statusVars, callerVars,
              historyVars
  <1>0. items_ \in Seq(Nat) /\ fate \in Seq(Fate)
    BY DEF TypeOK
  <1>1. CASE Start
    <2>1. torn' \in BOOLEAN
      <3> DEFINE hit == worker \in Counting
      <3>1. torn' = hit
        BY <1>1 DEF Start
      <3>2. hit \in BOOLEAN
        OBVIOUS
      <3> HIDE DEF hit
      <3> QED
        BY <3>1, <3>2
    <2>2. Len(fate) \in Nat /\ starts + 1 \in 0..MaxStart
      BY <1>0, <1>1 DEF Start, TypeOK
    <2> QED
      BY <1>1, <2>1, <2>2 DEF Start, TypeOK, WorkerPC, Phases, BatchFits
  <1>2. CASE Stop
    BY <1>2 DEF Stop, TypeOK, WorkerPC, Phases, BatchFits
  <1>3. CASE Join
    BY <1>3 DEF Join, TypeOK, WorkerPC, Phases, BatchFits
  <1>4. CASE StopPop
    <2>1. CASE PopOne /\ Mark("discarded", 1)
      <3>1. /\ items_' \in Seq(Nat)
            /\ Len(items_') = Len(items_) - 1
            /\ empty_' = empty_
            /\ full_' \in {full_, {}}
        BY <1>0, <2>1, DequeueFacts DEF PopOne, IsEmpty
      <3>2. fate' \in Seq(Fate)
        BY <1>0, <2>1, MarkFacts DEF Fate
      <3> QED
        BY <1>4, <2>1, <3>1, <3>2
        DEF StopPop, TypeOK, WorkerPC, Phases, BatchFits
    <2>2. CASE UNCHANGED <<items_, full_, empty_, fate>>
      BY <1>4, <2>2 DEF StopPop, TypeOK, WorkerPC, Phases, BatchFits
    <2> QED
      BY <1>4, <2>1, <2>2 DEF StopPop
  <1>5. CASE StopClear
    <2>1. fate' \in Seq(Fate)
      BY <1>0, <1>5, MarkFacts DEF StopClear, Fate
    <2> QED
      BY <1>5, <2>1 DEF StopClear, Clear, TypeOK, WorkerPC, Phases, BatchFits
  <1>6. CASE SpuriousWakeup
    BY <1>6 DEF SpuriousWakeup, LeaveWait, TypeOK, Phases, BatchFits
  <1>7. CASE StartThread
    <2>1. CASE stopFlag_
      <3>1. /\ worker = "none" /\ worker' = "loop"
            /\ stopFlag_' = FALSE /\ popSize' = 0
        BY <1>7, <2>1 DEF StartThread, Phases
      <3>2. /\ controller = "start" /\ controller' = "idle"
            /\ failedMsgCount_' = 0
            /\ UNCHANGED <<queueVars, pushing, nextMsg, batch, size, elapsed, loaded,
                           starts, processedMsgCount_, historyVars>>
        BY <1>7 DEF StartThread
      <3>3. TypeOK'
        <4>1. /\ stopFlag_' \in BOOLEAN /\ worker' \in WorkerPC
              /\ popSize' \in 0..bufferSize_ /\ failedMsgCount_' \in Nat
              /\ controller' \in {"idle", "start", "join", "pop", "clear"}
          <5>1. stopFlag_' \in BOOLEAN
            BY <3>1
          <5>2. worker' \in WorkerPC
            BY <3>1 DEF WorkerPC
          <5>3. popSize' \in 0..bufferSize_ /\ failedMsgCount_' \in Nat
            BY <3>1, <3>2
          <5>4. controller' \in {"idle", "start", "join", "pop", "clear"}
            BY <3>2
          <5> QED
            BY <5>1, <5>2, <5>3, <5>4
        <4>2. /\ UNCHANGED <<items_, full_, empty_, pushing, nextMsg, batch, size>>
              /\ UNCHANGED <<elapsed, loaded, starts, processedMsgCount_>>
              /\ UNCHANGED <<accepted, fate, base, torn>>
          BY <3>2
        <4> HIDE DEF queueVars, workerVars, statusVars, callerVars, historyVars
        <4>3. TypeOK
          OBVIOUS
        <4> QED
          BY <4>1, <4>2, <4>3 DEF TypeOK
      <3>4. Phases' /\ BatchFits'
        BY <3>1, <3>2 DEF Phases, BatchFits, TypeOK
      <3> QED
        BY <3>3, <3>4
    <2>2. CASE ~stopFlag_
      BY <1>7, <2>2 DEF StartThread, TypeOK, WorkerPC, Phases, BatchFits
    <2> QED
      BY <2>1, <2>2
  <1> QED
    BY <1>1, <1>2, <1>3, <1>4, <1>5, <1>6, <1>7

\* One step of any thread.
LEMMA ControlStep ==
    ASSUME ControlInv, empty_ # {} => IsEmpty, [Next]_vars
    PROVE  ControlInv'
PROOF
  <1>1. CASE UNCHANGED vars
    BY <1>1 DEF vars, ControlInv, TypeOK, Phases, BatchFits
  <1>2. CASE \E p \in Producer : Push(p) \/ BlockingPush(p)
    BY <1>2, ControlProducers
  <1>3. CASE WorkerStep \/ TimeOut
    BY <1>3, ControlWorker, ControlPops DEF WorkerStep
  <1>4. CASE Start \/ StartThread \/ Stop \/ StopStep \/ SpuriousWakeup
    BY <1>4, ControlController DEF StopStep
  <1> QED
    BY <1>1, <1>2, <1>3, <1>4 DEF Next

-----------------------------------------------------------------------------
(***************************************************************************)
(* Wake-ups.  Between the pop and the clear of stop a single producer is   *)
(* awake, and the room the pop made is there for the push it may still be  *)
(* in: this is why the clear, which notifies nobody, strands nobody.       *)
(***************************************************************************)

WakeInv ==
    /\ NoLostWakeup
    /\ controller = "clear" /\ OneProducer =>
          /\ full_ = {}
          /\ \A p \in Producer : pushing[p] # NoMsg => ~IsFull

\* Nobody sleeps before the first step.
LEMMA WakeInit == Init => WakeInv
PROOF
  BY DEF Init, QInit, WakeInv, NoLostWakeup

\* A producer falls asleep only on a full queue; the push of a single one
\* leaves no other push behind.
LEMMA WakeProducers ==
    ASSUME ControlInv, WakeInv, NEW p \in Producer, Push(p) \/ BlockingPush(p)
    PROVE  WakeInv'
PROOF
  <1>1. CASE Push(p)
    BY <1>1 DEF Push, WakeInv, NoLostWakeup, IsEmpty, IsFull, ControlInv, Phases,
                queueVars, workerVars, statusVars, historyVars
  <1>2. CASE BlockingPush(p)
    <2>0. items_ \in Seq(Nat) /\ pushing \in [Producer -> Nat] /\ Len(items_) \in Nat
      BY DEF ControlInv, TypeOK
    <2>1. CASE TryPush(pushing[p]) /\ pushing' = [pushing EXCEPT ![p] = NoMsg]
      <3>1. /\ Len(items_') = Len(items_) + 1
            /\ empty_' = {}
            /\ full_' = full_
            /\ ~IsFull
        BY <2>0, <2>1, EnqueueFacts DEF TryPush, WakeInv, NoLostWakeup
      <3>2. UNCHANGED <<stopFlag_, controller, starts>>
        BY <1>2 DEF BlockingPush
      <3>3. NoLostWakeup'
        BY <2>0, <3>1, <3>2 DEF WakeInv, NoLostWakeup, IsFull
      <3>4. OneProducer => \A q \in Producer : pushing'[q] = NoMsg
        BY <2>0, <2>1 DEF OneProducer
      <3> QED
        BY <3>1, <3>2, <3>3, <3>4 DEF WakeInv
    <2>2. CASE SleepOnFull(p) /\ UNCHANGED <<pushing, accepted>>
      BY <1>2, <2>0, <2>2
      DEF BlockingPush, SleepOnFull, WakeInv, NoLostWakeup, IsEmpty, IsFull
    <2> QED
      BY <1>2, <2>1, <2>2 DEF BlockingPush
  <1> QED
    BY <1>1, <1>2

\* The worker sleeps only on an empty queue, and wakes the producers when it
\* takes the first item out of a full one.
LEMMA WakeWorker ==
    ASSUME ControlInv, WakeInv, WorkerStep \/ TimeOut
    PROVE  WakeInv'
PROOF
  <1> USE DEF WakeInv, NoLostWakeup, IsEmpty, IsFull
  <1>0. /\ items_ \in Seq(Nat) /\ Len(items_) \in Nat
        /\ worker # "none" => controller # "clear"
        /\ size \in Nat
    BY DEF ControlInv, TypeOK, Phases
  <1>1. CASE Loop \/ PopFailed \/ ReadSize \/ Again \/ Popped \/ Count
             \/ StoreCount \/ Insert \/ Finalize \/ Catch \/ StoreFailed
    <2>1. UNCHANGED <<items_, full_, empty_, stopFlag_, pushing, controller, starts>>
      BY <1>1 DEF Loop, PopFailed, ReadSize, Again, Popped, Count, StoreCount, Insert,
                  Finalize, Catch, StoreFailed, queueVars, callerVars
    <2> QED
      BY <2>1
  <1>2. CASE PopFirst \/ Fill
    <2>1. /\ UNCHANGED <<stopFlag_, pushing, controller, starts>>
          /\ controller # "clear"
      BY <1>0, <1>2 DEF PopFirst, Fill, callerVars
    <2>2. CASE \E k \in Nat : k >= 1 /\ k =< Len(items_) /\ Dequeue(k)
      <3>1. PICK k \in Nat : k >= 1 /\ k =< Len(items_) /\ Dequeue(k)
        BY <2>2
      <3>2. /\ Len(items_') = Len(items_) - k
            /\ empty_' = empty_
            /\ full_' \in {full_, {}}
            /\ IsFull => full_' = {} \/ IsFull'
        BY <1>0, <3>1, DequeueFacts
      <3> QED
        BY <1>0, <2>1, <3>1, <3>2
    <2>3. CASE SleepOnEmpty(Worker)
      BY <1>0, <2>1, <2>3 DEF SleepOnEmpty
    <2>4. PopFirst => \/ SleepOnEmpty(Worker)
                      \/ Len(items_) >= 1 /\ Dequeue(1)
      BY <1>0 DEF PopFirst, PopOne
    <2>5. Fill => /\ PopCount(size) \in 1..Len(items_)
                  /\ Dequeue(PopCount(size))
      <3>1. worker = "fill" => size >= 1
        BY DEF ControlInv, BatchFits
      <3> QED
        BY <1>0, <3>1 DEF Fill, PopMany, PopCount
    <2> QED
      BY <1>2, <2>2, <2>3, <2>4, <2>5
  <1>3. CASE TimeOut
    BY <1>0, <1>3 DEF TimeOut, LeaveWait, callerVars
  <1> QED
    BY <1>1, <1>2, <1>3 DEF WorkerStep

\* The pop of stop wakes the producers of a full queue; only then does the
\* clear run.
LEMMA WakeController ==
    ASSUME ControlInv, WakeInv,
           \/ Start \/ StartThread \/ Stop \/ Join \/ StopPop \/ StopClear
           \/ SpuriousWakeup
    PROVE  WakeInv'
PROOF
  <1> USE DEF WakeInv, NoLostWakeup, IsEmpty, IsFull
  <1>0. /\ items_ \in Seq(Nat) /\ Len(items_) \in Nat
        /\ starts \in Nat
        /\ Phases
    BY DEF ControlInv, TypeOK
  <1>1. CASE Start
    BY <1>0, <1>1 DEF Start, Phases, queueVars
  <1>2. CASE Stop
    BY <1>0, <1>2 DEF Stop, Phases, queueVars
  <1>3. CASE Join
    BY <1>0, <1>3 DEF Join, Phases, queueVars
  <1>4. CASE StopPop
    <2>1. CASE PopOne
      <3>1. /\ Len(items_') = Len(items_) - 1
            /\ empty_' = empty_
            /\ full_' \in {full_, {}}
            /\ IsFull => full_' = {} \/ IsFull'
        BY <1>0, <2>1, DequeueFacts DEF PopOne
      <3>2. Len(items_) =< capacity_
        BY DEF ControlInv, TypeOK
      <3> QED
        BY <1>0, <1>4, <2>1, <3>1, <3>2 DEF StopPop, PopOne
    <2>2. CASE IsEmpty /\ UNCHANGED queueVars
      BY <1>0, <1>4, <2>2 DEF StopPop, queueVars
    <2> QED
      BY <1>4, <2>1, <2>2 DEF StopPop
  <1>5. CASE StopClear
    BY <1>0, <1>5 DEF StopClear, Clear, Phases
  <1>6. CASE SpuriousWakeup
    BY <1>0, <1>6 DEF SpuriousWakeup, LeaveWait, callerVars
  <1>7. CASE StartThread
    BY <1>0, <1>7 DEF StartThread, Phases, queueVars
  <1> QED
    BY <1>1, <1>2, <1>3, <1>4, <1>5, <1>6, <1>7

\* One step of any thread.
LEMMA WakeStep ==
    ASSUME ControlInv, WakeInv, [Next]_vars
    PROVE  WakeInv'
PROOF
  <1>1. CASE UNCHANGED vars
    BY <1>1 DEF vars, WakeInv, NoLostWakeup, IsEmpty, IsFull
  <1>2. CASE \E p \in Producer : Push(p) \/ BlockingPush(p)
    BY <1>2, WakeProducers
  <1>3. CASE WorkerStep \/ TimeOut
    BY <1>3, WakeWorker
  <1>4. CASE Start \/ StartThread \/ Stop \/ StopStep \/ SpuriousWakeup
    BY <1>4, WakeController DEF StopStep
  <1> QED
    BY <1>1, <1>2, <1>3, <1>4 DEF Next

\* The two invariants need each other: a push counts on nobody being asleep
\* on a non-empty queue.
LEMMA Invariant == Spec => [](ControlInv /\ WakeInv)
PROOF
  <1>1. Init => ControlInv /\ WakeInv
    BY ControlInit, WakeInit
  <1>2. ControlInv /\ WakeInv /\ [Next]_vars => (ControlInv /\ WakeInv)'
    BY ControlStep, WakeStep DEF WakeInv, NoLostWakeup
  <1> QED
    BY <1>1, <1>2, PTL DEF Spec

\* The queue stays within capacity_, a batch within bufferSize_, and every
\* counter and program counter within its type.
THEOREM TypeCorrect == Spec => []TypeOK
PROOF
  <1>1. ControlInv => TypeOK
    BY DEF ControlInv
  <1> QED
    BY <1>1, Invariant, PTL

\* Nobody sleeps on a queue that has what he waits for; stop strands no
\* producer that is alone.
THEOREM WakeupsKept == Spec => []NoLostWakeup
PROOF
  <1>1. WakeInv => NoLostWakeup
    BY DEF WakeInv
  <1> QED
    BY <1>1, Invariant, PTL

-----------------------------------------------------------------------------
(***************************************************************************)
(* Order.  Behind the settled messages come those in the worker's batch    *)
(* and behind them those in the queue, each at its position of accepted.   *)
(***************************************************************************)

\* After n settled messages, the sequence acc goes on with held and then queue.
Continues(acc, n, held, queue) ==
    /\ Len(acc) = n + Len(held) + Len(queue)
    /\ \A i \in 1..Len(held) : acc[n + i] = held[i]
    /\ \A i \in 1..Len(queue) : acc[n + Len(held) + i] = queue[i]

Aligned == Continues(accepted, Len(fate), InFlight, items_)

\* A message accepted at the end of the queue.
LEMMA ContinuesAppend ==
    ASSUME NEW S, NEW acc \in Seq(S), NEW n \in Nat, NEW held \in Seq(S),
           NEW queue \in Seq(S), NEW m \in S, NEW queue2 \in Seq(S),
           Len(queue2) = Len(queue) + 1,
           \A i \in 1..Len(queue) : queue2[i] = queue[i],
           queue2[Len(queue) + 1] = m,
           Continues(acc, n, held, queue)
    PROVE  Continues(Append(acc, m), n, held, queue2)
PROOF
  <1>1. /\ Len(Append(acc, m)) = Len(acc) + 1
        /\ \A i \in 1..Len(acc) : Append(acc, m)[i] = acc[i]
        /\ Append(acc, m)[Len(acc) + 1] = m
    OBVIOUS
  <1>2. Len(acc) \in Nat /\ Len(queue) \in Nat /\ Len(held) \in Nat
    OBVIOUS
  <1>3. \A i \in 1..Len(held) : n + i \in 1..Len(acc)
    BY <1>2 DEF Continues
  <1>4. \A i \in 1..Len(queue) : n + Len(held) + i \in 1..Len(acc)
    BY <1>2 DEF Continues
  <1>5. n + Len(held) + (Len(queue) + 1) = Len(acc) + 1
    BY <1>2 DEF Continues
  <1>6. \A i \in 1..Len(queue2) : i \in 1..Len(queue) \/ i = Len(queue) + 1
    BY <1>2
  <1>7. \A i \in 1..Len(queue2) : Append(acc, m)[n + Len(held) + i] = queue2[i]
    BY <1>1, <1>4, <1>5, <1>6 DEF Continues
  <1>8. \A i \in 1..Len(held) : Append(acc, m)[n + i] = held[i]
    BY <1>1, <1>3 DEF Continues
  <1>9. Len(Append(acc, m)) = n + Len(held) + Len(queue2)
    BY <1>1, <1>2 DEF Continues
  <1> QED
    BY <1>7, <1>8, <1>9, Zenon DEF Continues

\* The k oldest items of the queue moved to the end of the batch.
LEMMA ContinuesTake ==
    ASSUME NEW S, NEW acc \in Seq(S), NEW n \in Nat, NEW held \in Seq(S),
           NEW queue \in Seq(S), NEW k \in 1..Len(queue),
           NEW held2 \in Seq(S), NEW queue2 \in Seq(S),
           Len(held2) = Len(held) + k,
           \A i \in 1..Len(held) : held2[i] = held[i],
           \A i \in 1..k : held2[Len(held) + i] = queue[i],
           Len(queue2) = Len(queue) - k,
           \A i \in 1..Len(queue2) : queue2[i] = queue[k + i],
           Continues(acc, n, held, queue)
    PROVE  Continues(acc, n, held2, queue2)
PROOF
  <1>1. Len(acc) \in Nat /\ Len(queue) \in Nat /\ Len(held) \in Nat
    OBVIOUS
  <1>2. ASSUME NEW i \in 1..Len(held2) PROVE acc[n + i] = held2[i]
    <2>1. CASE i =< Len(held)
      BY <1>1, <2>1 DEF Continues
    <2>2. CASE i > Len(held)
      <3> DEFINE j == i - Len(held)
      <3>1. j \in 1..k /\ j \in 1..Len(queue) /\ i = Len(held) + j
        BY <1>1, <2>2
      <3> HIDE DEF j
      <3>2. n + i = n + Len(held) + j
        BY <1>1, <3>1
      <3> QED
        BY <3>1, <3>2 DEF Continues
    <2>3. i =< Len(held) \/ i > Len(held)
      BY <1>1
    <2> QED
      BY <2>1, <2>2, <2>3
  <1>3. ASSUME NEW i \in 1..Len(queue2)
        PROVE  acc[n + Len(held2) + i] = queue2[i]
    <2>1. k + i \in 1..Len(queue) /\ n + Len(held2) + i = n + Len(held) + (k + i)
      BY <1>1
    <2> QED
      BY <2>1 DEF Continues
  <1> QED
    BY <1>1, <1>2, <1>3 DEF Continues

\* The whole batch settled.
LEMMA ContinuesSettled ==
    ASSUME NEW S, NEW acc \in Seq(S), NEW n \in Nat, NEW held \in Seq(S),
           NEW queue \in Seq(S), Continues(acc, n, held, queue)
    PROVE  Continues(acc, n + Len(held), <<>>, queue)
PROOF
  BY DEF Continues

\* The k oldest items of the queue thrown away, nothing being in a batch.
LEMMA ContinuesDropped ==
    ASSUME NEW S, NEW acc \in Seq(S), NEW n \in Nat, NEW queue \in Seq(S),
           NEW k \in 0..Len(queue), NEW queue2 \in Seq(S),
           Len(queue2) = Len(queue) - k,
           \A i \in 1..Len(queue2) : queue2[i] = queue[k + i],
           Continues(acc, n, <<>>, queue)
    PROVE  Continues(acc, n + k, <<>>, queue2)
PROOF
  <1>1. Len(acc) \in Nat /\ Len(queue) \in Nat /\ Len(<<>>) = 0
    OBVIOUS
  <1>2. ASSUME NEW i \in 1..Len(queue2)
        PROVE  acc[(n + k) + Len(<<>>) + i] = queue2[i]
    <2>1. k + i \in 1..Len(queue) /\ (n + k) + 0 + i = n + 0 + (k + i)
      BY <1>1
    <2> QED
      BY <1>1, <2>1 DEF Continues
  <1> QED
    BY <1>1, <1>2 DEF Continues

\* Nothing is accepted and nothing is held at the start.
LEMMA AlignedInit == Init => Aligned
PROOF
  BY DEF Init, QInit, Aligned, Continues, InFlight

\* The positions say what NothingLostOrReordered says with sequences.
LEMMA AlignedMeans ==
    ASSUME TypeOK, Aligned
    PROVE  NothingLostOrReordered
PROOF
  <1> DEFINE held == InFlight
             a == Len(fate) + 1
             b == Len(accepted)
  <1>1. /\ held \in Seq(Nat) /\ items_ \in Seq(Nat) /\ accepted \in Seq(Nat)
        /\ fate \in Seq(Fate)
    BY DEF TypeOK, InFlight
  <1>2. /\ b = Len(fate) + Len(held) + Len(items_)
        /\ \A i \in 1..Len(held) : accepted[Len(fate) + i] = held[i]
        /\ \A i \in 1..Len(items_) : accepted[Len(fate) + Len(held) + i] = items_[i]
    BY DEF Aligned, Continues
  <1> HIDE DEF held
  <1>3. /\ Len(fate) \in Nat /\ Len(held) \in Nat /\ Len(items_) \in Nat
    BY <1>1
  <1>4. /\ held \o items_ \in Seq(Nat)
        /\ Len(held \o items_) = Len(held) + Len(items_)
        /\ \A i \in 1..(Len(held) + Len(items_)) :
              (held \o items_)[i] = IF i =< Len(held) THEN held[i]
                                    ELSE items_[i - Len(held)]
    BY <1>1, <1>3
  <1>5. /\ SubSeq(accepted, a, b) \in Seq(Nat)
        /\ Len(SubSeq(accepted, a, b)) = Len(held) + Len(items_)
        /\ \A i \in 1..(Len(held) + Len(items_)) :
              SubSeq(accepted, a, b)[i] = accepted[Len(fate) + i]
    <2>1. a \in 1..(b + 1) /\ b \in 0..Len(accepted)
      BY <1>1, <1>2, <1>3
    <2> HIDE DEF b
    <2>2. /\ SubSeq(accepted, a, b) \in Seq(Nat)
          /\ Len(SubSeq(accepted, a, b)) = IF a =< b THEN b - a + 1 ELSE 0
          /\ \A i \in 1..(b - a + 1) : SubSeq(accepted, a, b)[i] = accepted[a + i - 1]
      BY <1>1, <2>1, SubSeqProperties
    <2>3. b - a + 1 = Len(held) + Len(items_)
      BY <1>2, <1>3 DEF b
    <2>4. \A i \in 1..(Len(held) + Len(items_)) : a + i - 1 = Len(fate) + i
      BY <1>3
    <2> QED
      BY <1>3, <2>1, <2>2, <2>3, <2>4
  <1> HIDE DEF a, b
  <1>6. ASSUME NEW i \in 1..(Len(held) + Len(items_))
        PROVE  (held \o items_)[i] = SubSeq(accepted, a, b)[i]
    <2>1. CASE i =< Len(held)
      BY <1>2, <1>3, <1>4, <1>5, <2>1
    <2>2. CASE i > Len(held)
      <3>1. i - Len(held) \in 1..Len(items_)
        BY <1>3, <2>2
      <3>2. Len(fate) + Len(held) + (i - Len(held)) = Len(fate) + i
        BY <1>3
      <3>3. accepted[Len(fate) + i] = items_[i - Len(held)]
        BY <1>2, <3>1, <3>2
      <3>4. (held \o items_)[i] = items_[i - Len(held)]
        BY <1>3, <1>4, <2>2
      <3>5. SubSeq(accepted, a, b)[i] = accepted[Len(fate) + i]
        BY <1>5
      <3> QED
        BY <3>3, <3>4, <3>5, Zenon
    <2>3. i =< Len(held) \/ i > Len(held)
      BY <1>3
    <2> QED
      BY <2>1, <2>2, <2>3, Zenon
  <1>7. held \o items_ = SubSeq(accepted, a, b)
    BY <1>4, <1>5, <1>6, SeqEqual
  <1> QED
    BY <1>7 DEF NothingLostOrReordered, held, a, b

\* A step that leaves the histories, the queue and the batch alone.
LEMMA AlignedSame ==
    ASSUME Aligned, UNCHANGED <<accepted, fate, items_>>, InFlight' = InFlight
    PROVE  Aligned'
PROOF
  BY DEF Aligned

\* Settling the whole batch moves the boundary of the settled messages by its
\* length.
LEMMA AlignedSettled ==
    ASSUME TypeOK, Aligned, NEW f \in Fate, Mark(f, Len(InFlight)),
           UNCHANGED <<accepted, items_>>, InFlight' = <<>>
    PROVE  Aligned'
PROOF
  <1>1. /\ InFlight \in Seq(Nat) /\ items_ \in Seq(Nat) /\ fate \in Seq(Fate)
        /\ Len(InFlight) \in Nat /\ Len(fate) \in Nat
    BY DEF TypeOK, InFlight
  <1>2. Len(fate') = Len(fate) + Len(InFlight)
    BY <1>1, MarkFacts
  <1>3. Continues(accepted, Len(fate) + Len(InFlight), <<>>, items_)
    BY <1>1, ContinuesSettled DEF Aligned, TypeOK
  <1> QED
    BY <1>2, <1>3 DEF Aligned

\* A push that succeeds appends to the queue what it appends to accepted.
LEMMA AlignedProducers ==
    ASSUME ControlInv, WakeInv, Aligned, NEW p \in Producer,
           Push(p) \/ BlockingPush(p)
    PROVE  Aligned'
PROOF
  <1>1. InFlight' = InFlight /\ fate' = fate
    BY DEF Push, BlockingPush, InFlight, workerVars, historyVars
  <1>2. CASE UNCHANGED <<accepted, items_>>
    BY <1>1, <1>2, AlignedSame
  <1>3. CASE TryPush(pushing[p]) /\ accepted' = Append(accepted, pushing[p])
    <2>1. /\ items_ \in Seq(Nat) /\ accepted \in Seq(Nat) /\ pushing[p] \in Nat
          /\ InFlight \in Seq(Nat) /\ fate \in Seq(Fate)
      BY DEF ControlInv, TypeOK, InFlight
    <2>2. /\ items_' \in Seq(Nat)
          /\ Len(items_') = Len(items_) + 1
          /\ \A i \in 1..Len(items_) : items_'[i] = items_[i]
          /\ items_'[Len(items_) + 1] = pushing[p]
      BY <1>3, <2>1, EnqueueFacts DEF TryPush, WakeInv, NoLostWakeup
    <2>3. Len(fate) \in Nat
      BY <2>1
    <2>4. Continues(Append(accepted, pushing[p]), Len(fate), InFlight, items_')
      BY <2>1, <2>2, <2>3, ContinuesAppend DEF Aligned
    <2> QED
      BY <1>1, <1>3, <2>4 DEF Aligned
  <1> QED
    BY <1>2, <1>3 DEF Push, BlockingPush, SleepOnFull, queueVars, historyVars

\* The worker takes the oldest items of the queue to the end of its batch,
\* and settles the batch as a whole.
LEMMA AlignedWorker ==
    ASSUME ControlInv, Aligned, WorkerStep \/ TimeOut
    PROVE  Aligned'
PROOF
  <1> USE DEF queueVars, statusVars, callerVars, historyVars
  <1>0. /\ TypeOK
        /\ items_ \in Seq(Nat) /\ batch \in Seq(Nat) /\ Len(items_) \in Nat
        /\ Len(batch) \in Nat /\ fate \in Seq(Fate) /\ Len(fate) \in Nat
        /\ accepted \in Seq(Nat)
    BY DEF ControlInv, TypeOK
  <1>1. CASE Loop
    BY <1>1, AlignedSame DEF Loop, InFlight
  <1>2. CASE PopFailed
    BY <1>2, AlignedSame DEF PopFailed, InFlight, ControlInv, BatchFits
  <1>3. CASE ReadSize \/ Again \/ Popped \/ Count \/ StoreCount \/ Insert \/ Catch
             \/ TimeOut
    <2>1. /\ UNCHANGED <<accepted, fate, items_, batch>>
          /\ worker # "loop" /\ worker' # "loop"
      BY <1>3 DEF ReadSize, Again, Popped, Count, StoreCount, Insert, Catch, TimeOut,
                  LeaveWait, AfterFill
    <2> QED
      BY <2>1, AlignedSame DEF InFlight
  <1>4. CASE PopFirst
    <2>1. CASE PopOne /\ batch' = Append(batch, Head(items_)) /\ worker' = "size"
      <3>1. /\ items_' \in Seq(Nat)
            /\ Len(items_') = Len(items_) - 1
            /\ \A i \in 1..Len(items_') : items_'[i] = items_[1 + i]
            /\ 1 \in 1..Len(items_)
        <4>1. Dequeue(1) /\ 1 =< Len(items_) /\ 1 \in Nat /\ 1 >= 1
          BY <1>0, <2>1 DEF PopOne, IsEmpty
        <4>2. /\ items_' \in Seq(Nat)
              /\ Len(items_') = Len(items_) - 1
              /\ \A i \in 1..Len(items_') : items_'[i] = items_[1 + i]
          BY <1>0, <4>1, DequeueFacts
        <4>3. 1 \in 1..Len(items_)
          BY <1>0, <4>1
        <4> QED
          BY <4>2, <4>3
      <3>2. /\ batch' \in Seq(Nat)
            /\ Len(batch') = Len(batch) + 1
            /\ \A i \in 1..Len(batch) : batch'[i] = batch[i]
            /\ \A i \in 1..1 : batch'[Len(batch) + i] = items_[i]
        BY <1>0, <2>1, <3>1
      <3>3. /\ UNCHANGED <<accepted, fate>>
            /\ InFlight = batch /\ InFlight' = batch'
        BY <1>4, <2>1 DEF PopFirst, InFlight
      <3>4. Continues(accepted, Len(fate), batch, items_)
        BY <3>3 DEF Aligned
      <3>5. Continues(accepted, Len(fate), batch', items_')
        BY <1>0, <3>1, <3>2, <3>4, ContinuesTake, ZenonT(30)
      <3> QED
        BY <3>3, <3>5 DEF Aligned
    <2>2. CASE SleepOnEmpty(Worker) /\ UNCHANGED <<batch, worker>>
      BY <1>4, <2>2, AlignedSame DEF PopFirst, SleepOnEmpty, InFlight
    <2> QED
      BY <1>4, <2>1, <2>2 DEF PopFirst
  <1>5. CASE Fill
    <2> DEFINE k == PopCount(size)
    <2>1. k \in 1..Len(items_)
      BY <1>0, <1>5 DEF Fill, PopMany, PopCount, IsEmpty, ControlInv, BatchFits, TypeOK
    <2>2. /\ Dequeue(k)
          /\ batch' = batch \o SubSeq(items_, 1, k)
          /\ UNCHANGED <<accepted, fate>>
          /\ InFlight = batch /\ InFlight' = batch'
      BY <1>5 DEF Fill, PopMany, InFlight, AfterFill
    <2> HIDE DEF k
    <2>3. k \in Nat /\ k >= 1 /\ k =< Len(items_)
      BY <1>0, <2>1
    <2>4. /\ items_' \in Seq(Nat)
          /\ Len(items_') = Len(items_) - k
          /\ \A i \in 1..Len(items_') : items_'[i] = items_[k + i]
      BY <1>0, <2>2, <2>3, DequeueFacts
    <2>5. /\ SubSeq(items_, 1, k) \in Seq(Nat)
          /\ Len(SubSeq(items_, 1, k)) = k
          /\ \A i \in 1..k : SubSeq(items_, 1, k)[i] = items_[i]
      BY <1>0, <2>1
    <2>6. /\ batch' \in Seq(Nat)
          /\ Len(batch') = Len(batch) + k
          /\ \A i \in 1..Len(batch) : batch'[i] = batch[i]
          /\ \A i \in 1..k : batch'[Len(batch) + i] = items_[i]
      <3> DEFINE taken == SubSeq(items_, 1, k)
      <3>1. batch' = batch \o taken
        BY <2>2
      <3>2. taken \in Seq(Nat) /\ Len(taken) = k
        BY <2>5
      <3>3. \A i \in 1..k : taken[i] = items_[i]
        BY <2>5
      <3> HIDE DEF taken
      <3>4. /\ batch' \in Seq(Nat)
            /\ Len(batch') = Len(batch) + k
            /\ \A i \in 1..Len(batch) : batch'[i] = batch[i]
            /\ \A i \in 1..k : batch'[Len(batch) + i] = taken[i]
        <4>1. /\ batch \o taken \in Seq(Nat)
              /\ Len(batch \o taken) = Len(batch) + k
              /\ \A i \in 1..Len(batch) + k :
                    (batch \o taken)[i] = IF i =< Len(batch) THEN batch[i]
                                          ELSE taken[i - Len(batch)]
          BY <1>0, <3>2, ConcatProperties
        <4>2. /\ \A i \in 1..Len(batch) : i \in 1..Len(batch) + k /\ i =< Len(batch)
              /\ \A i \in 1..k : /\ Len(batch) + i \in 1..Len(batch) + k
                               /\ ~(Len(batch) + i =< Len(batch))
                               /\ (Len(batch) + i) - Len(batch) = i
          BY <1>0, <2>3
        <4> QED
          BY <3>1, <4>1, <4>2
      <3> QED
        BY <3>3, <3>4
    <2>7. Continues(accepted, Len(fate), batch, items_)
      BY <2>2 DEF Aligned
    <2>8. Continues(accepted, Len(fate), batch', items_')
      BY <1>0, <2>1, <2>4, <2>6, <2>7, ContinuesTake, ZenonT(30)
    <2> QED
      BY <2>2, <2>8 DEF Aligned
  <1>6. CASE Finalize
    <2>1. CASE worker' = "loop" /\ Mark("inserted", Len(batch))
      BY <1>0, <1>6, <2>1, AlignedSettled DEF Finalize, InFlight, Fate
    <2>2. CASE worker' = "failFinal" /\ UNCHANGED <<batch, fate>>
      BY <1>6, <2>2, AlignedSame DEF Finalize, InFlight
    <2> QED
      BY <1>6, <2>1, <2>2 DEF Finalize
  <1>7. CASE StoreFailed
    <2>1. CASE Mark("uncommitted", Len(batch))
      BY <1>0, <1>7, <2>1, AlignedSettled DEF StoreFailed, InFlight, Fate
    <2>2. CASE Mark("failed", Len(batch))
      BY <1>0, <1>7, <2>2, AlignedSettled DEF StoreFailed, InFlight, Fate
    <2> QED
      BY <1>7, <2>1, <2>2 DEF StoreFailed
  <1> QED
    BY <1>1, <1>2, <1>3, <1>4, <1>5, <1>6, <1>7 DEF WorkerStep

\* stop settles from the front of the queue what it throws away, and only
\* when there is no worker.
LEMMA AlignedController ==
    ASSUME ControlInv, Aligned,
           \/ Start \/ StartThread \/ Stop \/ Join \/ StopPop \/ StopClear
           \/ SpuriousWakeup
    PROVE  Aligned'
PROOF
  <1> USE DEF queueVars, workerVars, statusVars, callerVars, historyVars
  <1>0. /\ items_ \in Seq(Nat) /\ Len(items_) \in Nat
        /\ fate \in Seq(Fate) /\ Len(fate) \in Nat
        /\ accepted \in Seq(Nat)
        /\ Phases /\ BatchFits
        /\ "discarded" \in Fate
    BY DEF ControlInv, TypeOK, Fate
  <1>1. CASE Start
    BY <1>1, AlignedSame DEF Start, InFlight
  <1>2. CASE Stop
    BY <1>2, AlignedSame DEF Stop, InFlight
  <1>3. CASE Join
    BY <1>0, <1>3, AlignedSame DEF Join, InFlight, BatchFits
  <1>4. CASE StopPop
    <2>1. CASE PopOne /\ Mark("discarded", 1)
      <3>1. InFlight = <<>> /\ InFlight' = <<>> /\ accepted' = accepted
        BY <1>0, <1>4 DEF StopPop, InFlight, Phases, BatchFits
      <3>2. Dequeue(1) /\ 1 =< Len(items_) /\ 1 \in Nat /\ 1 >= 1
        BY <1>0, <2>1 DEF PopOne, IsEmpty
      <3>3. /\ items_' \in Seq(Nat)
            /\ Len(items_') = Len(items_) - 1
            /\ \A i \in 1..Len(items_') : items_'[i] = items_[1 + i]
        BY <1>0, <3>2, DequeueFacts
      <3>4. 1 \in 0..Len(items_)
        BY <1>0, <3>2
      <3>5. Len(fate') = Len(fate) + 1
        BY <1>0, <2>1, <3>2, MarkFacts
      <3>6. Continues(accepted, Len(fate), <<>>, items_)
        BY <3>1 DEF Aligned
      <3>7. Continues(accepted, Len(fate) + 1, <<>>, items_')
        BY <1>0, <3>3, <3>4, <3>6, ContinuesDropped, ZenonT(30)
      <3> QED
        BY <3>1, <3>5, <3>7 DEF Aligned
    <2>2. CASE UNCHANGED <<items_, fate>>
      BY <1>4, <2>2, AlignedSame DEF StopPop, InFlight
    <2> QED
      BY <1>4, <2>1, <2>2 DEF StopPop
  <1>5. CASE StopClear
    <2>1. InFlight = <<>> /\ InFlight' = <<>> /\ accepted' = accepted /\ items_' = <<>>
      BY <1>0, <1>5 DEF StopClear, Clear, InFlight, Phases, BatchFits
    <2>2. Len(fate') = Len(fate) + Len(items_)
      BY <1>0, <1>5, MarkFacts DEF StopClear
    <2> QED
      BY <1>0, <2>1, <2>2 DEF Aligned, Continues
  <1>6. CASE SpuriousWakeup
    BY <1>6, AlignedSame DEF SpuriousWakeup, LeaveWait, InFlight
  <1>7. CASE StartThread
    <2>1. CASE stopFlag_
      BY <1>0, <1>7, <2>1, AlignedSame DEF StartThread, InFlight, Phases, BatchFits
    <2>2. CASE ~stopFlag_
      BY <1>7, <2>2, AlignedSame DEF StartThread, InFlight
    <2> QED
      BY <2>1, <2>2
  <1> QED
    BY <1>1, <1>2, <1>3, <1>4, <1>5, <1>6, <1>7

\* One step of any thread.
LEMMA AlignedStep ==
    ASSUME ControlInv, WakeInv, Aligned, [Next]_vars
    PROVE  Aligned'
PROOF
  <1>1. CASE UNCHANGED vars
    BY <1>1, AlignedSame DEF vars, InFlight
  <1>2. CASE \E p \in Producer : Push(p) \/ BlockingPush(p)
    BY <1>2, AlignedProducers
  <1>3. CASE WorkerStep \/ TimeOut
    BY <1>3, AlignedWorker
  <1>4. CASE Start \/ StartThread \/ Stop \/ StopStep \/ SpuriousWakeup
    BY <1>4, AlignedController DEF StopStep
  <1> QED
    BY <1>1, <1>2, <1>3, <1>4 DEF Next

\* Every accepted message keeps its place until it is settled.
LEMMA AlwaysAligned == Spec => []Aligned
PROOF
  <1>1. ControlInv /\ WakeInv /\ Aligned /\ [Next]_vars => Aligned'
    BY AlignedStep
  <1> QED
    BY <1>1, AlignedInit, Invariant, PTL DEF Spec

\* No message is lost, duplicated or overtaken on its way through the batch,
\* through failed batches, stop and restart.
THEOREM OrderKept == Spec => []NothingLostOrReordered
PROOF
  <1>1. TypeOK /\ Aligned => NothingLostOrReordered
    BY AlignedMeans
  <1> QED
    BY <1>1, TypeCorrect, AlwaysAligned, PTL

-----------------------------------------------------------------------------
(***************************************************************************)
(* Refinement.  A successful push is Accept, the end of a round settles    *)
(* its batch, stop discards with the pipeline closed.                      *)
(***************************************************************************)

\* Settling n messages, none of them if n is 0.
LEMMA PipelineSettles ==
    ASSUME TypeOK, NEW f \in {"inserted", "uncommitted", "failed"}, NEW n \in Nat,
           Mark(f, n), n =< bufferSize_, n =< Len(accepted) - Len(fate),
           worker # "none", worker' # "none", accepted' = accepted
    PROVE  [Pipeline!PipeNext]_Pipeline!pipeVars
PROOF
  <1>1. CASE n = 0
    <2>1. [i \in 1..n |-> f] = <<>>
      BY <1>1
    <2>2. fate \in Seq(Fate) /\ fate' = fate \o <<>>
      BY <2>1 DEF Mark, TypeOK
    <2>3. fate' = fate
      BY <2>2, ConcatEmptySeq
    <2> QED
      BY <2>3 DEF Pipeline!pipeVars
  <1>2. CASE n > 0
    <2>1. n \in 1..Pipeline!Unsettled
      BY <1>2 DEF Pipeline!Unsettled, TypeOK
    <2>2. Pipeline!SettleBatch(f, n)
      BY <2>1 DEF Pipeline!SettleBatch, Pipeline!SettleOldest, Pipeline!Unsettled, Mark
    <2> QED
      BY <2>1, <2>2 DEF Pipeline!PipeNext
  <1> QED
    BY <1>1, <1>2

\* Throwing n messages away with no worker.
LEMMA PipelineDiscards ==
    ASSUME TypeOK, NEW n \in Nat, Mark("discarded", n),
           n =< Len(accepted) - Len(fate),
           worker = "none", worker' = "none", accepted' = accepted
    PROVE  [Pipeline!PipeNext]_Pipeline!pipeVars
PROOF
  <1>1. CASE n = 0
    <2>1. [i \in 1..n |-> "discarded"] = <<>>
      BY <1>1
    <2>2. fate \in Seq(Fate) /\ fate' = fate \o <<>>
      BY <2>1 DEF Mark, TypeOK
    <2>3. fate' = fate
      BY <2>2, ConcatEmptySeq
    <2> QED
      BY <2>3 DEF Pipeline!pipeVars
  <1>2. CASE n > 0
    <2>1. n \in 1..Pipeline!Unsettled
      BY <1>2 DEF Pipeline!Unsettled, TypeOK
    <2>2. Pipeline!Discard(n)
      BY <2>1 DEF Pipeline!Discard, Pipeline!SettleOldest, Pipeline!Unsettled, Mark
    <2> QED
      BY <2>1, <2>2 DEF Pipeline!PipeNext
  <1> QED
    BY <1>1, <1>2

\* Each step of a thread is a step of the pipeline or invisible to it.
LEMMA PipelineStep ==
    ASSUME ControlInv, Aligned, [Next]_vars
    PROVE  [Pipeline!PipeNext]_Pipeline!pipeVars
PROOF
  <1> USE DEF queueVars, workerVars, statusVars, callerVars, historyVars
  <1>0. /\ TypeOK /\ Phases /\ BatchFits
        /\ Len(batch) \in Nat /\ Len(items_) \in Nat
    BY DEF ControlInv, TypeOK
  <1>1. Len(accepted) - Len(fate) = Len(InFlight) + Len(items_)
    BY <1>0 DEF Aligned, Continues, TypeOK, InFlight
  <1>2. ASSUME accepted' = accepted, fate' = fate,
               (worker' = "none") <=> (worker = "none")
        PROVE  [Pipeline!PipeNext]_Pipeline!pipeVars
    BY <1>2 DEF Pipeline!pipeVars
  <1>3. CASE UNCHANGED vars
    BY <1>2, <1>3 DEF vars
  <1>4. ASSUME NEW p \in Producer, Push(p) \/ BlockingPush(p)
        PROVE  [Pipeline!PipeNext]_Pipeline!pipeVars
    <2>1. fate' = fate /\ worker' = worker
      BY <1>4 DEF Push, BlockingPush
    <2>2. CASE accepted' = accepted
      BY <1>2, <2>1, <2>2
    <2>3. CASE /\ pushing[p] # NoMsg
               /\ accepted' = Append(accepted, pushing[p])
      <3>1. pushing[p] \in 1..MaxMsg
        BY <1>0, <2>3 DEF Phases, NoMsg
      <3>2. Pipeline!Accept(pushing[p])
        BY <2>1, <2>3 DEF Pipeline!Accept
      <3> QED
        BY <3>1, <3>2 DEF Pipeline!PipeNext
    <2> QED
      BY <1>4, <2>2, <2>3 DEF Push, BlockingPush
  <1>5. CASE Loop \/ PopFailed \/ ReadSize \/ Again \/ Popped \/ Count \/ StoreCount
             \/ Insert \/ Catch \/ PopFirst \/ Fill \/ TimeOut
    <2>1. /\ accepted' = accepted /\ fate' = fate
          /\ worker # "none" /\ worker' # "none"
      BY <1>5 DEF Loop, PopFailed, ReadSize, Again, Popped, Count, StoreCount, Insert,
                  Catch, PopFirst, Fill, TimeOut, AfterFill
    <2> QED
      BY <1>2, <2>1
  <1>6. CASE Finalize
    <2>1. CASE worker' = "loop" /\ Mark("inserted", Len(batch))
      <3>1. /\ Len(batch) =< Len(accepted) - Len(fate)
            /\ Len(batch) =< bufferSize_
            /\ worker # "none" /\ worker' # "none" /\ accepted' = accepted
        BY <1>0, <1>1, <1>6, <2>1 DEF Finalize, InFlight, TypeOK
      <3> QED
        BY <1>0, <2>1, <3>1, PipelineSettles
    <2>2. CASE worker' = "failFinal" /\ UNCHANGED <<batch, fate>>
      BY <1>2, <1>6, <2>2 DEF Finalize
    <2> QED
      BY <1>6, <2>1, <2>2 DEF Finalize
  <1>7. CASE StoreFailed
    <2>1. PICK f \in {"uncommitted", "failed"} : Mark(f, Len(batch))
      BY <1>7 DEF StoreFailed
    <2>2. /\ Len(batch) =< Len(accepted) - Len(fate)
          /\ Len(batch) =< bufferSize_
          /\ worker # "none" /\ worker' # "none" /\ accepted' = accepted
      BY <1>0, <1>1, <1>7 DEF StoreFailed, InFlight, TypeOK
    <2> QED
      BY <1>0, <2>1, <2>2, PipelineSettles
  <1>8. CASE StartThread
    <2>1. accepted' = accepted /\ fate' = fate
      BY <1>8 DEF StartThread
    <2>2. CASE stopFlag_
      <3>1. worker = "none" /\ worker' = "loop"
        BY <1>0, <1>8, <2>2 DEF StartThread, Phases
      <3>2. Pipeline!Open
        BY <2>1, <3>1 DEF Pipeline!Open
      <3> QED
        BY <3>2 DEF Pipeline!PipeNext
    <2>3. CASE ~stopFlag_
      BY <1>2, <1>8, <2>1, <2>3 DEF StartThread
    <2> QED
      BY <2>2, <2>3
  <1>9. CASE Start \/ Stop \/ SpuriousWakeup
    BY <1>2, <1>9 DEF Start, Stop, SpuriousWakeup
  <1>10. CASE Join
    <2>1. Pipeline!Close
      BY <1>10 DEF Join, Pipeline!Close
    <2> QED
      BY <2>1 DEF Pipeline!PipeNext
  <1>11. CASE StopPop
    <2>1. accepted' = accepted /\ worker = "none" /\ worker' = "none"
      BY <1>0, <1>11 DEF StopPop, Phases
    <2>2. CASE PopOne /\ Mark("discarded", 1)
      <3>1. 1 \in Nat /\ 1 =< Len(accepted) - Len(fate)
        BY <1>0, <1>1, <2>1, <2>2 DEF PopOne, IsEmpty, InFlight, TypeOK
      <3> QED
        BY <1>0, <2>1, <2>2, <3>1, PipelineDiscards
    <2>3. CASE fate' = fate
      BY <1>2, <2>1, <2>3
    <2> QED
      BY <1>11, <2>2, <2>3 DEF StopPop
  <1>12. CASE StopClear
    <2>1. /\ accepted' = accepted /\ worker = "none" /\ worker' = "none"
          /\ Mark("discarded", Len(items_))
      BY <1>0, <1>12 DEF StopClear, Phases
    <2>2. Len(items_) =< Len(accepted) - Len(fate)
      BY <1>0, <1>1 DEF InFlight, TypeOK
    <2> QED
      BY <1>0, <2>1, <2>2, PipelineDiscards
  <1> QED
    BY <1>3, <1>4, <1>5, <1>6, <1>7, <1>8, <1>9, <1>10, <1>11, <1>12
    DEF Next, WorkerStep, StopStep

\* The queue with its threads, condition variables and flags implements the
\* pipeline for any capacity, batch size, mode and number of producers.
THEOREM Refinement == Spec => ImplementsPipeline
PROOF
  <1>1. Init => Pipeline!PipeInit
    BY DEF Init, Pipeline!PipeInit
  <1>2. ControlInv /\ Aligned /\ [Next]_vars => [Pipeline!PipeNext]_Pipeline!pipeVars
    BY PipelineStep
  <1> QED
    BY <1>1, <1>2, Invariant, AlwaysAligned, PTL
    DEF Spec, ImplementsPipeline, Pipeline!PipeSpec
-----------------------------------------------------------------------------
(***************************************************************************)
(* What a stopped queue can hold.  Between the clear of stop and the next  *)
(* start a push only moves a message from a producer into the queue.       *)
(***************************************************************************)

\* The producers that are inside a push.
Pushers == {p \in Producer : pushing[p] # NoMsg}

\* There are no more of them than producers.
LEMMA PusherFacts ==
    /\ IsFiniteSet(Pushers)
    /\ Cardinality(Pushers) \in Nat
    /\ Cardinality(Producer) \in Nat
    /\ Cardinality(Pushers) =< Cardinality(Producer)
PROOF
  <1>1. Pushers \in SUBSET Producer
    BY DEF Pushers
  <1> QED
    BY <1>1, FS_Subset, FS_CardinalityType

\* Nobody pushes before the first start.
LEMMA StaleInit == Init => StaleBound
PROOF
  <1> SUFFICES ASSUME Init PROVE StaleBound
    OBVIOUS
  <1>1. Len(items_) = 0
    BY DEF Init, QInit
  <1> QED
    BY <1>1, PusherFacts DEF StaleBound, Pushers

\* The sum does not change when a push succeeds, and stop makes it small.
LEMMA StaleStep ==
    ASSUME ControlInv, WakeInv, StaleBound, [Next]_vars
    PROVE  StaleBound'
PROOF
  <1> SUFFICES ASSUME stopFlag_', controller' = "idle"
               PROVE  Len(items_') + Cardinality(Pushers') =< Cardinality(Producer)
    BY DEF StaleBound, Pushers
  <1>0. /\ items_ \in Seq(Nat) /\ Len(items_) \in Nat
        /\ pushing \in [Producer -> Nat]
    BY DEF ControlInv, TypeOK
  <1>1. stopFlag_ /\ controller = "idle" =>
            Len(items_) + Cardinality(Pushers) =< Cardinality(Producer)
    BY DEF StaleBound, Pushers
  <1>2. CASE UNCHANGED <<items_, pushing, stopFlag_, controller>>
    BY <1>1, <1>2 DEF Pushers
  <1>3. ASSUME NEW p \in Producer, Push(p) \/ BlockingPush(p)
        PROVE  Len(items_') + Cardinality(Pushers') =< Cardinality(Producer)
    <2>1. stopFlag_ /\ controller = "idle" /\ BlockingPush(p)
      BY <1>3 DEF Push, BlockingPush
    <2>2. CASE TryPush(pushing[p]) /\ pushing' = [pushing EXCEPT ![p] = NoMsg]
      <3>1. Len(items_') = Len(items_) + 1
        BY <1>0, <2>2, EnqueueFacts DEF TryPush, WakeInv, NoLostWakeup
      <3>2. p \in Pushers /\ Pushers' = Pushers \ {p}
        BY <1>0, <2>1, <2>2 DEF Pushers, BlockingPush
      <3>3. Cardinality(Pushers') = Cardinality(Pushers) - 1
        BY <3>2, PusherFacts, FS_RemoveElement
      <3> QED
        BY <1>0, <1>1, <2>1, <3>1, <3>3, PusherFacts
    <2>3. CASE SleepOnFull(p) /\ UNCHANGED <<pushing, accepted>>
      BY <1>1, <2>1, <2>3 DEF SleepOnFull, Pushers
    <2> QED
      BY <2>1, <2>2, <2>3 DEF BlockingPush
  <1>4. ~ (WorkerStep \/ TimeOut)
    <2>1. WorkerStep \/ TimeOut => UNCHANGED <<stopFlag_, controller>> /\ worker # "none"
      BY DEF WorkerStep, Loop, PopFirst, PopFailed, ReadSize, Fill, Again, Popped, Count,
             StoreCount, Insert, Finalize, Catch, StoreFailed, TimeOut, callerVars
    <2> QED
      BY <2>1 DEF ControlInv, Phases
  <1>5. ~ (Start \/ StartThread \/ Stop \/ Join \/ StopPop)
    BY DEF Start, StartThread, Stop, Join, StopPop
  <1>6. CASE StopClear
    <2>1. Len(items_') = 0 /\ Pushers' = Pushers
      BY <1>6 DEF StopClear, Clear, Pushers
    <2> QED
      BY <2>1, PusherFacts
  <1>7. CASE SpuriousWakeup
    BY <1>2, <1>7 DEF SpuriousWakeup, LeaveWait, callerVars
  <1>8. CASE UNCHANGED vars
    BY <1>2, <1>8 DEF vars
  <1> QED
    BY <1>3, <1>4, <1>5, <1>6, <1>7, <1>8 DEF Next, StopStep

\* StaleBound: a stopped queue holds at most one message per producer, pushed
\* by calls that had passed the test of stopFlag_ before stop set it.
THEOREM StaleIsBounded == Spec => []StaleBound
PROOF
  <1>1. Init => StaleBound
    BY StaleInit
  <1>2. ControlInv /\ WakeInv /\ StaleBound /\ [Next]_vars => StaleBound'
    BY StaleStep
  <1> QED
    BY <1>1, <1>2, Invariant, PTL DEF Spec
-----------------------------------------------------------------------------
(***************************************************************************)
(* The status counts.  While a batch has been counted as processed and is  *)
(* not settled, processedMsgCount_ is ahead by its length.                 *)
(***************************************************************************)

Good == {"inserted"}
Bad  == {"failed", "uncommitted"}
Counted == {"insert", "finalize", "failInsert", "failFinal", "failedInsert",
            "failedFinal"}
Ahead == IF worker \in Counted THEN Len(batch) ELSE 0

\* Between its two resets start has yet to forget the failures of before.
Fails == IF controller = "start" THEN 0 ELSE failedMsgCount_

\* After stop the counts wait for the next start, which resets them.  A count the
\* worker has read is the one it will write back to.
CountInv ==
    /\ base =< Len(fate)
    /\ controller = "start" /\ worker = "none" =>
          Len(fate) = base /\ processedMsgCount_ = 0
    /\ worker # "none" /\ ~torn =>
          /\ Fails = Settled(Bad)
          /\ processedMsgCount_ = Settled(Good) + Fails + Ahead
          /\ worker = "counted" => loaded = processedMsgCount_
          /\ worker \in {"failedInsert", "failedFinal"} =>
                loaded = failedMsgCount_ /\ controller # "start"

\* Settled is a natural number, and 0 when nothing was settled since base.
LEMMA SettledFacts ==
    ASSUME TypeOK, NEW F
    PROVE  /\ Settled(F) \in Nat
           /\ IsFiniteSet({i \in (base + 1)..Len(fate) : fate[i] \in F})
PROOF
  <1>1. base + 1 \in Int /\ Len(fate) \in Int
    BY DEF TypeOK
  <1>2. IsFiniteSet((base + 1)..Len(fate))
    BY <1>1, FS_Interval
  <1>3. {i \in (base + 1)..Len(fate) : fate[i] \in F} \in SUBSET ((base + 1)..Len(fate))
    OBVIOUS
  <1>4. IsFiniteSet({i \in (base + 1)..Len(fate) : fate[i] \in F})
    BY <1>2, <1>3, FS_Subset
  <1> QED
    BY <1>4, FS_CardinalityType DEF Settled

\* Marking n messages adds n to the counts whose fates include the mark.
LEMMA SettledMark ==
    ASSUME TypeOK, base =< Len(fate), NEW f \in Fate, NEW n \in Nat, Mark(f, n),
           base' = base, NEW F
    PROVE  Settled(F)' = Settled(F) + (IF f \in F THEN n ELSE 0)
PROOF
  <1> DEFINE new == (Len(fate) + 1)..(Len(fate) + n)
             old == {i \in (base + 1)..Len(fate) : fate[i] \in F}
             all == {i \in (base + 1)..Len(fate') : fate'[i] \in F}
  <1>1. fate \in Seq(Fate) /\ Len(fate) \in Nat /\ base \in Nat
    BY DEF TypeOK
  <1>2. /\ Len(fate') = Len(fate) + n
        /\ \A i \in 1..Len(fate) : fate'[i] = fate[i]
        /\ \A i \in new : fate'[i] = f
    <2>1. [i \in 1..n |-> f] \in Seq(Fate) /\ Len([i \in 1..n |-> f]) = n
      OBVIOUS
    <2> QED
      BY <1>1, <2>1 DEF Mark
  <1>3. Settled(F)' = Cardinality(all) /\ Settled(F) = Cardinality(old)
    BY DEF Settled
  <1>4. IsFiniteSet(old) /\ Cardinality(old) \in Nat
    BY <1>3, SettledFacts
  <1>5. IsFiniteSet(new) /\ Cardinality(new) = n
    <2> DEFINE lo == Len(fate) + 1
               hi == Len(fate) + n
    <2>1. lo \in Int /\ hi \in Int /\ (IF lo > hi THEN 0 ELSE hi - lo + 1) = n
      BY <1>1
    <2> HIDE DEF lo, hi
    <2>2. IsFiniteSet(lo..hi)
          /\ Cardinality(lo..hi) = IF lo > hi THEN 0 ELSE hi - lo + 1
      BY <2>1, FS_Interval
    <2> QED
      BY <2>1, <2>2 DEF lo, hi
  <1>6. CASE f \in F
    <2>1. ASSUME NEW i PROVE i \in all <=> i \in old \union new
      <3>1. i \in (base + 1)..Len(fate') <=> i \in (base + 1)..Len(fate) \union new
        BY <1>1, <1>2
      <3>2. CASE i \in new
        BY <3>1, <3>2, <1>2, <1>6
      <3>3. CASE i \notin new
        <4>1. i \in (base + 1)..Len(fate) => fate'[i] = fate[i]
          BY <1>1, <1>2
        <4> QED
          BY <3>1, <3>3, <4>1
      <3> QED
        BY <3>2, <3>3
    <2>2. old \intersect new = {}
      <3> SUFFICES ASSUME NEW i \in old, i \in new PROVE FALSE
        OBVIOUS
      <3> QED
        BY <1>1
    <2> HIDE DEF all, old, new
    <2>3. all = old \union new
      BY <2>1
    <2>4. Cardinality(old \union new)
             = Cardinality(old) + Cardinality(new) - Cardinality(old \intersect new)
      BY <1>4, <1>5, FS_Union
    <2>5. Cardinality(old \intersect new) = 0
      BY <2>2, FS_EmptySet
    <2>6. Cardinality(all) = Cardinality(old) + n
      BY <1>4, <1>5, <2>3, <2>4, <2>5
    <2> QED
      BY <1>3, <1>6, <2>6
  <1>7. CASE f \notin F
    <2>1. all = old
      BY <1>1, <1>2, <1>7
    <2> HIDE DEF all, old, new
    <2> QED
      BY <1>3, <1>4, <1>7, <2>1
  <1> QED
    BY <1>6, <1>7

\* Before the first start there is no worker.
LEMMA CountInit == Init => CountInv
PROOF
  BY DEF Init, CountInv

\* A batch is counted before the insert and settled after it, as a whole.
LEMMA CountWorker ==
    ASSUME ControlInv, CountInv,
           Count \/ StoreCount \/ Insert \/ Finalize \/ Catch \/ StoreFailed
    PROVE  CountInv'
PROOF
  <1>0. /\ TypeOK /\ batch \in Seq(Nat) /\ Len(batch) \in Nat /\ Len(fate) \in Nat
        /\ processedMsgCount_ \in Nat /\ failedMsgCount_ \in Nat /\ base \in Nat
        /\ worker \in Counted \union {"counted"} => popSize = Len(batch)
    BY DEF ControlInv, TypeOK, BatchFits, Counted
  <1>1. \A F : Settled(F) \in Nat
    BY <1>0, SettledFacts
  <1>2. CASE Count
    <2>1. /\ UNCHANGED <<fate, base, torn, failedMsgCount_, processedMsgCount_,
                        controller>>
          /\ worker = "count" /\ worker' = "counted"
          /\ loaded' = processedMsgCount_
      BY <1>2 DEF Count, historyVars, statusVars, callerVars
    <2>2. \A F : Settled(F)' = Settled(F)
      BY <2>1 DEF Settled
    <2> QED
      BY <1>0, <1>1, <2>1, <2>2 DEF CountInv, Fails, Ahead, Counted
  <1>3. CASE StoreCount
    <2>1. /\ UNCHANGED <<batch, fate, base, torn, failedMsgCount_, controller>>
          /\ worker = "counted" /\ worker' = "insert"
          /\ processedMsgCount_' = loaded + Len(batch)
      BY <1>0, <1>3 DEF StoreCount, historyVars, callerVars
    <2>2. \A F : Settled(F)' = Settled(F)
      BY <2>1 DEF Settled
    <2> QED
      BY <1>0, <1>1, <2>1, <2>2 DEF CountInv, Fails, Ahead, Counted
  <1>4. CASE Insert
    <2>1. /\ UNCHANGED <<batch, fate, base, torn, failedMsgCount_, processedMsgCount_,
                        controller>>
          /\ worker = "insert" /\ worker' \in {"finalize", "failInsert"}
      BY <1>4 DEF Insert, historyVars, statusVars, callerVars
    <2>2. \A F : Settled(F)' = Settled(F)
      BY <2>1 DEF Settled
    <2> QED
      BY <1>0, <1>1, <2>1, <2>2 DEF CountInv, Fails, Ahead, Counted
  <1>5. CASE Finalize
    <2>1. /\ worker = "finalize"
          /\ UNCHANGED <<base, torn, failedMsgCount_, processedMsgCount_, controller>>
      BY <1>5 DEF Finalize, statusVars, callerVars
    <2>2. CASE worker' = "loop" /\ Mark("inserted", Len(batch))
      <3>1. /\ Settled(Good)' = Settled(Good) + Len(batch)
            /\ Settled(Bad)' = Settled(Bad)
        BY <1>0, <1>1, <2>1, <2>2, SettledMark DEF CountInv, Good, Bad, Fate
      <3>2. Len(fate') = Len(fate) + Len(batch)
        BY <1>0, <2>2, MarkFacts DEF TypeOK, Fate
      <3> QED
        BY <1>0, <1>1, <2>1, <2>2, <3>1, <3>2 DEF CountInv, Fails, Ahead, Counted
    <2>3. CASE worker' = "failFinal" /\ UNCHANGED <<batch, fate>>
      <3>1. \A F : Settled(F)' = Settled(F)
        BY <2>1, <2>3 DEF Settled
      <3> QED
        BY <1>0, <1>1, <2>1, <2>3, <3>1 DEF CountInv, Fails, Ahead, Counted
    <2> QED
      BY <1>5, <2>2, <2>3 DEF Finalize
  <1>6. CASE Catch
    <2>1. /\ UNCHANGED <<batch, fate, base, failedMsgCount_, processedMsgCount_,
                        controller>>
          /\ worker \in {"failInsert", "failFinal"}
          /\ worker' \in {"failedInsert", "failedFinal"}
          /\ loaded' = failedMsgCount_
      BY <1>6 DEF Catch, statusVars, callerVars
    <2>2. ~torn' => ~torn /\ controller # "start"
      BY <1>6 DEF Catch
    <2>3. \A F : Settled(F)' = Settled(F)
      BY <2>1 DEF Settled
    <2> QED
      BY <1>0, <1>1, <2>1, <2>2, <2>3 DEF CountInv, Fails, Ahead, Counted
  <1>7. CASE StoreFailed
    <2>1. /\ worker \in {"failedInsert", "failedFinal"} /\ worker' = "loop"
          /\ UNCHANGED <<base, torn, processedMsgCount_, controller>>
          /\ failedMsgCount_' = loaded + Len(batch)
      BY <1>0, <1>7 DEF StoreFailed, Counted, callerVars
    <2>2. PICK f \in Bad : Mark(f, Len(batch))
      BY <1>7 DEF StoreFailed, Bad
    <2>3. /\ Settled(Bad)' = Settled(Bad) + Len(batch)
          /\ Settled(Good)' = Settled(Good)
      BY <1>0, <1>1, <2>1, <2>2, SettledMark DEF CountInv, Good, Bad, Fate
    <2>4. Len(fate') = Len(fate) + Len(batch)
      BY <1>0, <2>2, MarkFacts DEF TypeOK, Fate, Bad
    <2>5. Ahead = Len(batch) /\ Ahead' = 0 /\ worker # "none"
      BY <2>1 DEF Ahead, Counted
    <2>6. base' =< Len(fate')
      BY <1>0, <2>1, <2>4 DEF CountInv
    <2>7. ASSUME ~torn'
          PROVE  /\ Fails' = Settled(Bad)'
                 /\ processedMsgCount_' = Settled(Good)' + Fails' + Ahead'
      <3>1. /\ controller # "start" /\ loaded = failedMsgCount_
            /\ failedMsgCount_ = Settled(Bad)
            /\ processedMsgCount_ = Settled(Good) + failedMsgCount_ + Len(batch)
        BY <2>1, <2>5, <2>7 DEF CountInv, Fails
      <3>2. Fails' = failedMsgCount_ + Len(batch)
        BY <2>1, <3>1 DEF Fails
      <3>3. /\ processedMsgCount_' = processedMsgCount_ /\ Ahead' = 0
            /\ Settled(Good)' = Settled(Good)
            /\ Settled(Bad)' = Settled(Bad) + Len(batch)
        BY <2>1, <2>3, <2>5
      <3>4. Settled(Good) \in Nat /\ Settled(Bad) \in Nat
        BY <1>1
      <3>5. Fails' = Settled(Bad)'
        BY <3>1, <3>2, <3>3
      <3>6. processedMsgCount_' = Settled(Good) + (failedMsgCount_ + Len(batch))
        BY <1>0, <3>1, <3>3, <3>4
      <3> QED
        BY <1>0, <3>2, <3>3, <3>4, <3>5, <3>6
    <2>8. worker' \notin {"none", "counted", "failedInsert", "failedFinal"}
      BY <2>1
    <2> QED
      BY <2>6, <2>7, <2>8 DEF CountInv
  <1> QED
    BY <1>2, <1>3, <1>4, <1>5, <1>6, <1>7

\* A step that settles nothing and counts nothing.
LEMMA CountSame ==
    ASSUME CountInv, UNCHANGED <<fate, base, torn, statusVars, controller>>,
           worker # "none",
           worker \notin Counted, worker' \notin Counted \union {"none", "counted"}
    PROVE  CountInv'
PROOF
  BY DEF CountInv, Settled, Fails, Ahead, Counted, statusVars

\* start resets the counts and the base they are counted from; its second reset
\* finds no failure since the first, or the counts are torn.
LEMMA CountController ==
    ASSUME ControlInv, CountInv,
           Start \/ StartThread \/ Stop \/ Join \/ StopPop \/ StopClear
    PROVE  CountInv'
PROOF
  <1>0. /\ fate \in Seq(Fate) /\ Len(fate) \in Nat /\ base \in Nat
        /\ items_ \in Seq(Nat) /\ Len(items_) \in Nat
    BY DEF ControlInv, TypeOK
  <1>1. CASE Start
    <2>1. /\ processedMsgCount_' = 0 /\ controller' = "start"
          /\ base' = Len(fate) /\ fate' = fate
          /\ worker' \in Counted \union {"counted"} => torn'
      BY <1>1 DEF Start, Counting, Counted, workerVars
    <2>2. \A F : Settled(F)' = 0
      <3> SUFFICES ASSUME NEW F PROVE Settled(F)' = 0
        OBVIOUS
      <3>1. {i \in (base' + 1)..Len(fate') : fate'[i] \in F} = {}
        BY <1>0, <2>1
      <3> QED
        BY <3>1, FS_EmptySet DEF Settled
    <2> QED
      BY <1>0, <2>1, <2>2 DEF CountInv, Fails, Ahead, Counted
  <1>2. CASE StartThread
    <2>1. /\ failedMsgCount_' = 0 /\ controller = "start" /\ controller' = "idle"
          /\ UNCHANGED <<fate, base, torn, processedMsgCount_, batch, loaded>>
      BY <1>2 DEF StartThread, historyVars
    <2>2. \A F : Settled(F)' = Settled(F)
      BY <2>1 DEF Settled
    <2>3. CASE stopFlag_
      <3>1. worker = "none" /\ worker' = "loop"
        BY <1>2, <2>3 DEF StartThread, ControlInv, Phases
      <3>2. Len(fate) = base /\ processedMsgCount_ = 0
        BY <2>1, <3>1 DEF CountInv
      <3>3. \A F : Settled(F) = 0
        <4> SUFFICES ASSUME NEW F PROVE Settled(F) = 0
          OBVIOUS
        <4>1. {i \in (base + 1)..Len(fate) : fate[i] \in F} = {}
          BY <1>0, <3>2
        <4> QED
          BY <4>1, FS_EmptySet DEF Settled
      <3> QED
        BY <1>0, <2>1, <2>2, <3>1, <3>2, <3>3 DEF CountInv, Fails, Ahead, Counted
    <2>4. CASE ~stopFlag_
      <3>1. worker' = worker
        BY <1>2, <2>4 DEF StartThread
      <3> QED
        BY <1>0, <2>1, <2>2, <3>1 DEF CountInv, Fails, Ahead, Counted
    <2> QED
      BY <2>3, <2>4
  <1>3. CASE Stop
    BY <1>3 DEF Stop, CountInv, Settled, Fails, Ahead, workerVars, statusVars, historyVars
  <1>4. CASE Join
    BY <1>4 DEF Join, CountInv, historyVars
  <1>5. CASE StopPop \/ StopClear
    <2>1. worker' = "none" /\ base' = base /\ controller' # "start"
      BY <1>5 DEF StopPop, StopClear, ControlInv, Phases, workerVars
    <2>2. Len(fate') >= Len(fate)
      BY <1>0, <1>5, MarkFacts DEF StopPop, StopClear, Fate
    <2> QED
      BY <1>0, <2>1, <2>2 DEF CountInv
  <1> QED
    BY <1>1, <1>2, <1>3, <1>4, <1>5

\* One step of any thread.
LEMMA CountStep ==
    ASSUME ControlInv, CountInv, [Next]_vars
    PROVE  CountInv'
PROOF
  <1>1. CASE \/ UNCHANGED vars \/ SpuriousWakeup
             \/ \E p \in Producer : Push(p) \/ BlockingPush(p)
    <2>1. UNCHANGED <<fate, base, torn, statusVars, worker, batch, loaded, controller>>
      BY <1>1 DEF vars, SpuriousWakeup, Push, BlockingPush, workerVars, statusVars,
                  callerVars, historyVars
    <2> QED
      BY <2>1 DEF CountInv, Settled, Fails, Ahead, statusVars
  <1>2. CASE Loop \/ PopFirst \/ PopFailed \/ ReadSize \/ Fill \/ Again \/ Popped \/ TimeOut
    <2>1. /\ UNCHANGED <<fate, base, torn, statusVars, controller>>
          /\ worker # "none" /\ worker \notin Counted
          /\ worker' \notin Counted \union {"none", "counted"}
      BY <1>2 DEF Loop, PopFirst, PopFailed, ReadSize, Fill, Again, Popped, TimeOut,
                  AfterFill, historyVars, callerVars, Counted
    <2> QED
      BY <2>1, CountSame
  <1>3. CASE Count \/ StoreCount \/ Insert \/ Finalize \/ Catch \/ StoreFailed
    BY <1>3, CountWorker
  <1>4. CASE Start \/ StartThread \/ Stop \/ StopStep
    BY <1>4, CountController DEF StopStep
  <1> QED
    BY <1>1, <1>2, <1>3, <1>4 DEF Next, WorkerStep

\* StatusHonest: between batches, and once start has returned, getStatus() adds
\* up to what became of the messages since start, in both modes, through failures
\* of the insert and of the finalizer, and through a start on a running queue
\* that meets no batch being counted.
THEOREM StatusIsHonest == Spec => []StatusHonest
PROOF
  <1>1. Init => CountInv
    BY DEF Init, CountInv
  <1>2. ControlInv /\ CountInv /\ [Next]_vars => CountInv'
    BY CountStep
  <1>3. ControlInv /\ CountInv => StatusHonest
    <2> SUFFICES ASSUME ControlInv, CountInv PROVE StatusHonest
      OBVIOUS
    <2>1. /\ Settled(Good) \in Nat /\ failedMsgCount_ \in Nat
      BY SettledFacts DEF ControlInv, TypeOK
    <2> QED
      BY <2>1 DEF CountInv, StatusHonest, Fails, Ahead, Counted, Good, Bad
  <1> QED
    BY <1>1, <1>2, <1>3, Invariant, PTL DEF Spec
=============================================================================
