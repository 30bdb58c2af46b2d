---------------------------- MODULE ThreadedQueue ----------------------------
(***************************************************************************)
(* The asynchronous conversion queue of include/ddbplugin/ThreadedQueue.h, *)
(* through which the kafka, zmq, nsq, insight, amdQuote and TCPSocket      *)
(* plugins move messages from their receiving threads into a table.        *)
(*                                                                         *)
(* Threads: the producers call push; the worker is the thread startThread  *)
(* creates; the controller calls start and stop, one call at a time (the   *)
(* header forbids concurrent start and stop).  The three share the bounded *)
(* queue queue_ and the plain fields stopFlag_ and status_.                *)
(*                                                                         *)
(* A message is a natural number, in the order in which push was called.   *)
(***************************************************************************)
EXTENDS GenericBoundedQueue

CONSTANTS
    Producer,            \* threads that call push
    Worker,              \* the thread created by startThread
    bufferSize_,         \* largest batch handed to extractHelper
    timeoutAsThrottle_,  \* setTimeoutAsThrottle(true): kafka and zmq
    finalizer_,          \* whether setFinalizer was called: kafka
    MaxMsg,              \* bound: calls of push
    MaxStart             \* bound: calls of start

ASSUME ConfigAssumption ==
    /\ Worker \notin Producer
    /\ IsFiniteSet(Producer)
    /\ bufferSize_ \in Nat \ {0}
    /\ timeoutAsThrottle_ \in BOOLEAN
    /\ finalizer_ \in BOOLEAN
    /\ MaxMsg \in Nat
    /\ MaxStart \in Nat

VARIABLES
    stopFlag_,           \* set by stop, cleared by start
    pushing,             \* pushing[p]: the message p is inside blockingPush with
    nextMsg,             \* the next message number
    worker,              \* where the worker thread is
    batch,               \* its local vector items
    popSize,             \* its local popSize
    size,                \* its local size, the amount of the second pop
    elapsed,             \* throttle: currentTime - startTime >= timeout_
    loaded,              \* a count it has read and not yet written back
    controller,          \* where start/stop is
    starts,              \* calls of start so far
    processedMsgCount_,
    failedMsgCount_,
    accepted,            \* history: messages in the order blockingPush queued them
    fate,                \* history: fate[i] is what became of accepted[i]
    base,                \* history: Len(fate) at the last start
    torn                 \* history: the last start hit a batch being counted

queueVars   == <<items_, full_, empty_>>
workerVars  == <<worker, batch, popSize, size, elapsed, loaded>>
statusVars  == <<processedMsgCount_, failedMsgCount_>>
callerVars  == <<pushing, nextMsg, controller, starts>>
historyVars == <<accepted, fate, base, torn>>
vars == <<items_, full_, empty_, stopFlag_, pushing, nextMsg, worker, batch,
          popSize, size, elapsed, loaded, controller, starts, processedMsgCount_,
          failedMsgCount_, accepted, fate, base, torn>>

NoMsg == 0
Fate  == {"inserted", "uncommitted", "failed", "discarded"}

\* The same fate for the next n messages.
Mark(f, n) == fate' = fate \o [i \in 1..n |-> f]

Init ==
    /\ QInit
    /\ stopFlag_ = TRUE
    /\ pushing = [p \in Producer |-> NoMsg]
    /\ nextMsg = 1
    /\ worker = "none"
    /\ batch = <<>>
    /\ popSize = 0
    /\ size = 0
    /\ elapsed = FALSE
    /\ loaded = 0
    /\ controller = "idle"
    /\ starts = 0
    /\ processedMsgCount_ = 0
    /\ failedMsgCount_ = 0
    /\ accepted = <<>>
    /\ fate = <<>>
    /\ base = 0
    /\ torn = FALSE

-----------------------------------------------------------------------------
(***************************************************************************)
(* Producers                                                               *)
(***************************************************************************)

\* Mutant: push does not look at stopFlag_.
MutPushUnchecked(p) ==
    /\ pushing[p] = NoMsg
    /\ nextMsg =< MaxMsg
    /\ pushing' = [pushing EXCEPT ![p] = nextMsg]
    /\ nextMsg' = nextMsg + 1
    /\ UNCHANGED <<queueVars, stopFlag_, workerVars, controller, starts,
                   statusVars, historyVars>>

\* push reads stopFlag_ without a lock; when it is set the message is
\* dropped and nothing changes.
Push(p) ==
    /\ pushing[p] = NoMsg
    /\ ~stopFlag_
    /\ nextMsg =< MaxMsg
    /\ pushing' = [pushing EXCEPT ![p] = nextMsg]
    /\ nextMsg' = nextMsg + 1
    /\ UNCHANGED <<queueVars, stopFlag_, workerVars, controller, starts,
                   statusVars, historyVars>>

\* queue_.blockingPush(data), on entry and after each wake-up.
BlockingPush(p) ==
    /\ pushing[p] # NoMsg
    /\ p \notin full_
    /\ \/ /\ TryPush(pushing[p])
          /\ pushing' = [pushing EXCEPT ![p] = NoMsg]
          /\ accepted' = Append(accepted, pushing[p])
       \/ /\ SleepOnFull(p)
          /\ UNCHANGED <<pushing, accepted>>
    /\ UNCHANGED <<stopFlag_, nextMsg, workerVars, controller, starts,
                   statusVars, fate, base, torn>>

-----------------------------------------------------------------------------
(***************************************************************************)
(* The worker thread                                                       *)
(***************************************************************************)

\* Mutant: the round starts without items.clear().
MutLoopKeepsItems ==
    /\ worker = "loop"
    /\ \/ /\ stopFlag_
          /\ worker' = "ended"
          /\ UNCHANGED <<popSize, size, elapsed>>
       \/ /\ ~stopFlag_
          /\ worker' = "pop"
          /\ size' = 0
          /\ popSize' = IF timeoutAsThrottle_ THEN 0 ELSE popSize
          /\ elapsed' \in IF timeoutAsThrottle_ THEN BOOLEAN ELSE {FALSE}
    /\ UNCHANGED <<queueVars, stopFlag_, batch, loaded, statusVars, callerVars,
                   historyVars>>

\* Mutant: a throttle round keeps the popSize of the round before.
MutLoopKeepsPopSize ==
    /\ worker = "loop"
    /\ batch' = <<>>
    /\ worker' = IF stopFlag_ THEN "ended" ELSE "pop"
    /\ size' = 0
    /\ elapsed' \in IF timeoutAsThrottle_ THEN BOOLEAN ELSE {FALSE}
    /\ UNCHANGED <<queueVars, stopFlag_, popSize, loaded, statusVars, callerVars,
                   historyVars>>

\* while(!stopFlag_) { items.clear(); size = 0; ... }.  In throttle mode the
\* round also zeroes popSize, takes startTime and enters the do loop.
Loop ==
    /\ worker = "loop"
    /\ batch' = <<>>
    /\ \/ /\ stopFlag_
          /\ worker' = "ended"
          /\ UNCHANGED <<popSize, size, elapsed>>
       \/ /\ ~stopFlag_
          /\ worker' = "pop"
          /\ size' = 0
          /\ popSize' = IF timeoutAsThrottle_ THEN 0 ELSE popSize
          /\ elapsed' \in IF timeoutAsThrottle_ THEN BOOLEAN ELSE {FALSE}
    /\ UNCHANGED <<queueVars, stopFlag_, loaded, statusVars, callerVars, historyVars>>

\* queue_.blockingPop(item, timeout) and items.emplace_back.
PopFirst ==
    /\ worker = "pop"
    /\ Worker \notin empty_
    /\ \/ /\ PopOne
          /\ batch' = Append(batch, Head(items_))
          /\ worker' = "size"
       \/ /\ SleepOnEmpty(Worker)
          /\ UNCHANGED <<batch, worker>>
    /\ UNCHANGED <<stopFlag_, popSize, size, elapsed, loaded, statusVars, callerVars,
                   historyVars>>

\* Mutant: blockingPop without a timeout.
MutTimeOutNever ==
    /\ FALSE
    /\ UNCHANGED vars

\* The timed wait of blockingPop runs out.
TimeOut ==
    /\ worker = "pop"
    /\ Worker \in empty_
    /\ LeaveWait(Worker)
    /\ worker' = "expired"
    /\ UNCHANGED <<stopFlag_, batch, popSize, size, elapsed, loaded, statusVars,
                   callerVars, historyVars>>

\* blockingPop returned false: break or continue, of the do loop in throttle
\* mode and of the outer loop otherwise.
PopFailed ==
    /\ worker = "expired"
    /\ \/ timeoutAsThrottle_ /\ worker' = IF stopFlag_ THEN "popped" ELSE "lapsed"
       \/ ~timeoutAsThrottle_ /\ worker' = IF stopFlag_ THEN "ended" ELSE "loop"
    /\ UNCHANGED <<queueVars, stopFlag_, batch, popSize, size, elapsed,
                   loaded, statusVars, callerVars, historyVars>>

\* Where the round goes once popSize = items.size() is set.
AfterFill == IF timeoutAsThrottle_ THEN "again" ELSE "count"

\* Mutant: the room left does not account for the item already popped.
MutReadSizeOffByOne ==
    /\ worker = "size"
    /\ size' = IF Len(items_) < bufferSize_ THEN Len(items_) ELSE bufferSize_
    /\ worker' = IF size' > 0 THEN "fill" ELSE AfterFill
    /\ popSize' = IF size' > 0 THEN popSize ELSE Len(batch)
    /\ UNCHANGED <<queueVars, stopFlag_, batch, elapsed, loaded, statusVars,
                   callerVars, historyVars>>

\* size = min(queue_.size(), room left in the batch), read without the lock;
\* with size = 0 the second pop is skipped.
ReadSize ==
    /\ worker = "size"
    /\ size' = IF Len(items_) < bufferSize_ - Len(batch)
               THEN Len(items_) ELSE bufferSize_ - Len(batch)
    /\ \/ /\ size' > 0
          /\ worker' = "fill"
          /\ UNCHANGED popSize
       \/ /\ size' = 0
          /\ worker' = AfterFill
          /\ popSize' = Len(batch)
    /\ UNCHANGED <<queueVars, stopFlag_, batch, elapsed, loaded, statusVars,
                   callerVars, historyVars>>

\* queue_.pop(items, size).
Fill ==
    /\ worker = "fill"
    /\ PopMany(size)
    /\ batch' = batch \o SubSeq(items_, 1, PopCount(size))
    /\ popSize' = Len(batch')
    /\ worker' = AfterFill
    /\ UNCHANGED <<stopFlag_, size, elapsed, loaded, statusVars, callerVars,
                   historyVars>>

\* Mutant: the round waits for a full batch whatever the time.
MutAgainUntilFull ==
    /\ worker \in {"again", "lapsed"}
    /\ worker' = IF popSize < bufferSize_ /\ ~stopFlag_ THEN "pop" ELSE "popped"
    /\ UNCHANGED <<queueVars, stopFlag_, batch, popSize, size, elapsed,
                   loaded, statusVars, callerVars, historyVars>>

\* while(currentTime - startTime < timeout_ && popSize < bufferSize_).  The
\* deferred refresh of currentTime is a temporary, so it runs at the start of
\* each iteration and the condition sees the time of that start.  A wait that
\* ran out has used up the rest of timeout_, as the next refresh will show.
Again ==
    /\ worker \in {"again", "lapsed"}
    /\ \/ /\ ~elapsed
          /\ popSize < bufferSize_
          /\ worker' = "pop"
          /\ elapsed' \in IF worker = "lapsed" THEN {TRUE} ELSE BOOLEAN
       \/ /\ elapsed \/ popSize >= bufferSize_
          /\ worker' = "popped"
          /\ UNCHANGED elapsed
    /\ UNCHANGED <<queueVars, stopFlag_, batch, popSize, size, loaded, statusVars,
                   callerVars, historyVars>>

\* After the do loop: an empty round of a stopped queue ends the thread, any
\* other round goes on, an empty one too.
Popped ==
    /\ worker = "popped"
    /\ worker' = IF popSize = 0 /\ stopFlag_ THEN "ended" ELSE "count"
    /\ UNCHANGED <<queueVars, stopFlag_, batch, popSize, size, elapsed,
                   loaded, statusVars, callerVars, historyVars>>

\* status_.processedMsgCount_ += popSize, which start may come in the middle
\* of: the count is read ...
Count ==
    /\ worker = "count"
    /\ loaded' = processedMsgCount_
    /\ worker' = "counted"
    /\ UNCHANGED <<queueVars, stopFlag_, batch, popSize, size, elapsed,
                   statusVars, callerVars, historyVars>>

\* ... and written.
StoreCount ==
    /\ worker = "counted"
    /\ processedMsgCount_' = loaded + popSize
    /\ loaded' = 0
    /\ worker' = "insert"
    /\ UNCHANGED <<queueVars, stopFlag_, batch, popSize, size, elapsed,
                   failedMsgCount_, callerVars, historyVars>>

\* dealFunc(items): extractHelper converts the whole batch and appends it to
\* the table in one call, or throws before the append.  An empty batch
\* returns at once.
Insert ==
    /\ worker = "insert"
    /\ worker' \in IF batch = <<>> THEN {"finalize"} ELSE {"finalize", "failInsert"}
    /\ UNCHANGED <<queueVars, stopFlag_, batch, popSize, size, elapsed, loaded,
                   statusVars, callerVars, historyVars>>

\* if(finalizer_) finalizer_(items); items.clear().
Finalize ==
    /\ worker = "finalize"
    /\ \/ /\ worker' = "loop"
          /\ batch' = <<>>
          /\ Mark("inserted", Len(batch))
       \/ /\ finalizer_
          /\ worker' = "failFinal"
          /\ UNCHANGED <<batch, fate>>
    /\ UNCHANGED <<queueVars, stopFlag_, popSize, size, elapsed, loaded,
                   statusVars, callerVars, accepted, base, torn>>

\* catch(exception&), for the insertion and for the finalizer alike:
\* status_.failedMsgCount_ += popSize.  The count is read ...
Catch ==
    /\ worker \in {"failInsert", "failFinal"}
    /\ loaded' = failedMsgCount_
    /\ worker' = IF worker = "failFinal" THEN "failedFinal" ELSE "failedInsert"
    /\ torn' = (torn \/ controller = "start")
    /\ UNCHANGED <<queueVars, stopFlag_, batch, popSize, size, elapsed,
                   statusVars, callerVars, accepted, fate, base>>

\* ... and written: the whole batch is counted as failed; items is left as it
\* is.
StoreFailed ==
    /\ worker \in {"failedInsert", "failedFinal"}
    /\ failedMsgCount_' = loaded + popSize
    /\ loaded' = 0
    /\ Mark(IF worker = "failedFinal" THEN "uncommitted" ELSE "failed", Len(batch))
    /\ worker' = "loop"
    /\ UNCHANGED <<queueVars, stopFlag_, batch, popSize, size, elapsed,
                   processedMsgCount_, callerVars, accepted, base, torn>>

-----------------------------------------------------------------------------
(***************************************************************************)
(* The controller                                                          *)
(***************************************************************************)

\* The worker has begun to count its batch and has not settled it.
Counting == {"counted", "insert", "finalize", "failInsert", "failFinal",
             "failedInsert", "failedFinal"}

\* start(), also on a queue that is running (nsq): it first resets the count of
\* processed messages ...
Start ==
    /\ controller = "idle"
    /\ starts < MaxStart
    /\ starts' = starts + 1
    /\ processedMsgCount_' = 0
    /\ base' = Len(fate)
    /\ torn' = (worker \in Counting)
    /\ controller' = "start"
    /\ UNCHANGED <<queueVars, stopFlag_, workerVars, pushing, nextMsg,
                   failedMsgCount_, accepted, fate>>

\* ... then that of the failed ones, and creates the thread only when the queue
\* is stopped.
StartThread ==
    /\ controller = "start"
    /\ controller' = "idle"
    /\ failedMsgCount_' = 0
    /\ \/ /\ stopFlag_
          /\ stopFlag_' = FALSE
          /\ worker' = "loop"
          /\ popSize' = 0
       \/ /\ ~stopFlag_
          /\ UNCHANGED <<stopFlag_, worker, popSize>>
    /\ UNCHANGED <<queueVars, pushing, nextMsg, batch, size, elapsed, loaded,
                   starts, processedMsgCount_, historyVars>>

\* Mutant: stop does not join the worker.
MutStopWithoutJoin ==
    /\ controller = "idle"
    /\ ~stopFlag_
    /\ stopFlag_' = TRUE
    /\ controller' = "pop"
    /\ UNCHANGED <<queueVars, pushing, nextMsg, workerVars, starts,
                   statusVars, historyVars>>

\* stop(): a queue that is already stopped is left alone.
Stop ==
    /\ controller = "idle"
    /\ ~stopFlag_
    /\ stopFlag_' = TRUE
    /\ controller' = "join"
    /\ UNCHANGED <<queueVars, pushing, nextMsg, workerVars, starts,
                   statusVars, historyVars>>

\* thread_->join().
Join ==
    /\ controller = "join"
    /\ worker = "ended"
    /\ worker' = "none"
    /\ batch' = <<>>
    /\ controller' = "pop"
    /\ UNCHANGED <<queueVars, stopFlag_, pushing, nextMsg, popSize, size,
                   elapsed, loaded, starts, statusVars, historyVars>>

\* Mutant: stop only clears.
MutStopWithoutPop ==
    /\ controller = "pop"
    /\ controller' = "clear"
    /\ UNCHANGED <<queueVars, stopFlag_, pushing, nextMsg, workerVars, starts,
                   statusVars, historyVars>>

\* queue_.pop(item): the notify it may send is what releases a producer that
\* sleeps on the full queue.
StopPop ==
    /\ controller = "pop"
    /\ controller' = "clear"
    /\ \/ /\ PopOne
          /\ Mark("discarded", 1)
       \/ /\ IsEmpty
          /\ UNCHANGED <<queueVars, fate>>
    /\ UNCHANGED <<stopFlag_, pushing, nextMsg, workerVars, starts,
                   statusVars, accepted, base, torn>>

\* queue_.clear().
StopClear ==
    /\ controller = "clear"
    /\ controller' = "idle"
    /\ Clear
    /\ Mark("discarded", Len(items_))
    /\ UNCHANGED <<stopFlag_, pushing, nextMsg, workerVars, starts,
                   statusVars, accepted, base, torn>>

SpuriousWakeup ==
    /\ \E t \in Producer \union {Worker} : LeaveWait(t)
    /\ UNCHANGED <<stopFlag_, workerVars, statusVars, callerVars, historyVars>>

-----------------------------------------------------------------------------
WorkerStep ==
    \/ Loop \/ PopFirst \/ PopFailed \/ ReadSize \/ Fill \/ Again \/ Popped
    \/ Count \/ StoreCount \/ Insert \/ Finalize \/ Catch \/ StoreFailed

StopStep == Join \/ StopPop \/ StopClear

Next ==
    \/ \E p \in Producer : Push(p) \/ BlockingPush(p)
    \/ WorkerStep
    \/ TimeOut
    \/ Start
    \/ StartThread
    \/ Stop
    \/ StopStep
    \/ SpuriousWakeup

Spec == Init /\ [][Next]_vars

\* Threads that can run do run, a timed wait runs out in the end, and a call
\* of start or stop that has begun goes on.  Nothing obliges anyone to call push,
\* start or stop.
Fairness ==
    /\ \A p \in Producer : WF_vars(BlockingPush(p))
    /\ WF_vars(WorkerStep)
    /\ SF_vars(TimeOut)
    /\ WF_vars(StartThread)
    /\ WF_vars(StopStep)

FairSpec == Spec /\ Fairness

-----------------------------------------------------------------------------
(***************************************************************************)
(* Properties                                                              *)
(***************************************************************************)

WorkerPC ==
    {"none", "loop", "pop", "expired", "size", "fill", "again", "lapsed", "popped",
     "count", "counted", "insert", "finalize", "failInsert", "failFinal",
     "failedInsert", "failedFinal", "ended"}

\* Types; the queue stays within capacity_ and a batch within bufferSize_.
TypeOK ==
    /\ items_ \in Seq(Nat)
    /\ Len(items_) =< capacity_
    /\ full_ \subseteq Producer
    /\ empty_ \subseteq {Worker}
    /\ stopFlag_ \in BOOLEAN
    /\ pushing \in [Producer -> Nat]
    /\ nextMsg \in Nat \ {0}
    /\ worker \in WorkerPC
    /\ batch \in Seq(Nat)
    /\ Len(batch) =< bufferSize_
    /\ popSize \in 0..bufferSize_
    /\ size \in 0..bufferSize_
    /\ elapsed \in BOOLEAN
    /\ loaded \in Nat
    /\ controller \in {"idle", "start", "join", "pop", "clear"}
    /\ starts \in 0..MaxStart
    /\ processedMsgCount_ \in Nat
    /\ failedMsgCount_ \in Nat
    /\ accepted \in Seq(Nat)
    /\ fate \in Seq(Fate)
    /\ base \in Nat
    /\ torn \in BOOLEAN

\* The messages the worker holds and has not settled.  At the loop head items
\* may still hold a batch that failed.
InFlight == IF worker = "loop" THEN <<>> ELSE batch

\* No message is lost, duplicated or overtaken between blockingPush and the
\* table: the batch followed by the queue is exactly what was accepted and is
\* not settled, in the order of acceptance, through failures, stop and
\* restart.
NothingLostOrReordered ==
    InFlight \o items_ = SubSeq(accepted, Len(fate) + 1, Len(accepted))

\* There is at most one producer, as in TCPSocket, zmq and kafka.
OneProducer == \A p, q \in Producer : p = q

\* No wake-up is lost.  The worker sleeps only on an empty queue.  A producer
\* sleeps only on a full one; a producer that is alone even after a stop,
\* although stop ends with clear, which notifies nobody: the pop before it
\* has released the producer.  Of several producers, one may refill the queue
\* after that pop and another stay asleep through the clear.
NoLostWakeup ==
    /\ empty_ # {} => IsEmpty
    /\ full_ # {} =>
          \/ IsFull
          \/ /\ ~OneProducer
             /\ starts >= 2 \/ (stopFlag_ /\ controller = "idle")

\* What a stopped queue can still hold: a push that read stopFlag_ before stop
\* set it may land after the clear, and the next start delivers it.  Each
\* producer can do that once.
StaleBound ==
    stopFlag_ /\ controller = "idle" =>
        Len(items_) + Cardinality({p \in Producer : pushing[p] # NoMsg})
            =< Cardinality(Producer)

\* How many messages settled since the last start have a fate in F.
Settled(F) == Cardinality({i \in (base + 1)..Len(fate) : fate[i] \in F})

\* getStatus() reports processedMsgCount_ - failedMsgCount_ as processed.
\* Once start has returned and between batches that is the number of messages
\* that were inserted and finalized since start, and the failed count is the
\* rest of the batches; unless start was called on a running queue and met a
\* batch that the worker had begun to count, or a failure between its two
\* resets.
StatusHonest ==
    worker = "loop" /\ controller # "start" /\ ~torn =>
        /\ processedMsgCount_ - failedMsgCount_ = Settled({"inserted"})
        /\ failedMsgCount_ = Settled({"failed", "uncommitted"})

\* stop() returns: the worker leaves its loop although stop wakes nobody.
StopReturns == controller = "join" ~> controller = "idle"

\* A producer that is alone comes back from every push, even when stop finds
\* it asleep on the full queue.
EveryPushReturns ==
    OneProducer =>
        \A p \in Producer : pushing[p] # NoMsg ~> pushing[p] = NoMsg

\* A queue that keeps running settles everything it accepted.
Delivery ==
    \A n \in 1..MaxMsg :
        Len(accepted) >= n ~> Len(fate) >= n \/ stopFlag_
=============================================================================
