------------------------------ MODULE KafkaJob ------------------------------
(***************************************************************************)
(* A kafka subscription job (kafka/src/kafkaClient.cpp): the thread of     *)
(* AppendTable::run polls a consumer and either parses, handles and        *)
(* commits each message itself, or, with msgAsTable, pushes it into a      *)
(* ThreadedQueue whose finalizer commits the last message of every batch.  *)
(*                                                                         *)
(* Of the ThreadedQueue only what DeliveryPipeline promises is used: items *)
(* leave in order, in batches of one fate, and stop() discards the rest    *)
(* once the worker is gone.  Outside of the plugin are the broker, which   *)
(* keeps the messages and the committed offset of every partition, and the *)
(* process, which may crash.                                               *)
(*                                                                         *)
(* Message [part, no] is the no-th of its partition; an offset o stands    *)
(* for the messages 1..o.                                                  *)
(***************************************************************************)
EXTENDS Integers, Sequences

CONSTANTS
    Partition,
    queueDepth,          \* capacity of the ThreadedQueue
    batchSize,           \* messages in a batch of its worker
    MaxOffset            \* bound: messages in a partition

ASSUME JobAssumption ==
    /\ queueDepth \in Nat \ {0}
    /\ batchSize \in Nat \ {0}
    /\ MaxOffset \in Nat

VARIABLES
    committed,           \* broker: the group's offset in each partition
    position,            \* consumer: messages polled from each partition
    job,                 \* "none", "running", "cancelling" (flag_ is false),
                         \* "joined" (the polling thread is gone), "stopped"
                         \* (the queue's worker is gone)
    msgAsTable_, autoCommit_,
    thread,              \* where the polling thread is
    msg,                 \* the message it has in hand
    queue,               \* the messages in queue_, oldest first
    worker,              \* where the worker of queue_ is
    items,               \* the batch it has in hand
    settled              \* history: messages inserted, counted as failed, or
                         \* thrown away with the queue

jobVars == <<job, msgAsTable_, autoCommit_>>
threadVars == <<thread, msg>>
workerVars == <<worker, items>>
vars == <<committed, position, jobVars, threadVars, queue, workerVars, settled>>

Message == [part : Partition, no : 1..MaxOffset]
NoMessage == [no |-> 0]

InSeq(q) == {q[i] : i \in 1..Len(q)}

Init ==
    /\ committed = [p \in Partition |-> 0]
    /\ position = [p \in Partition |-> 0]
    /\ job = "none" /\ msgAsTable_ = FALSE /\ autoCommit_ = FALSE
    /\ thread = "none" /\ msg = NoMessage
    /\ queue = <<>>
    /\ worker = "none" /\ items = <<>>
    /\ settled = {}

-----------------------------------------------------------------------------
(***************************************************************************)
(* The script and the world outside                                        *)
(***************************************************************************)

\* createSubJob; whether autoCommit_ is set follows from its argument and
\* from the consumer's configuration.  A queue that is created is started.
CreateSubJob(asTable, commit) ==
    /\ job = "none"
    /\ job' = "running"
    /\ msgAsTable_' = asTable /\ autoCommit_' = commit
    /\ thread' = "test" /\ msg' = NoMessage
    /\ queue' = <<>>
    /\ worker' = (IF asTable THEN "collect" ELSE "none") /\ items' = <<>>
    /\ UNCHANGED <<committed, position, settled>>

\* A job may go on with the consumer of the job before, or with a new one,
\* which the broker starts at the committed offsets.
NewConsumer ==
    /\ job = "none"
    /\ position' = committed
    /\ UNCHANGED <<committed, jobVars, threadVars, queue, workerVars, settled>>

\* The process ends at any point and is started again; threads, queue and
\* consumer are gone.
Crash ==
    /\ job' = "none"
    /\ thread' = "none" /\ msg' = NoMessage
    /\ queue' = <<>>
    /\ worker' = "none" /\ items' = <<>>
    /\ position' = committed
    /\ UNCHANGED <<committed, msgAsTable_, autoCommit_, settled>>

\* cancelSubJob, or the end of the session that owns the job: flag_ = false.
CancelThread ==
    /\ job = "running"
    /\ job' = "cancelling"
    /\ UNCHANGED <<committed, position, msgAsTable_, autoCommit_, threadVars,
                   queue, workerVars, settled>>

\* thread_->join().
Join ==
    /\ job = "cancelling"
    /\ thread = "ended"
    /\ job' = "joined"
    /\ thread' = "none"
    /\ UNCHANGED <<committed, position, msgAsTable_, autoCommit_, msg, queue,
                   workerVars, settled>>

\* Mutant: the queue is stopped before the polling thread is joined.
MutStopQueue ==
    /\ job \in {"cancelling", "joined"}
    /\ worker \in {"none", "collect"} /\ items = <<>>
    /\ worker' = "none"
    /\ job' = IF job = "joined" THEN "stopped" ELSE job
    /\ UNCHANGED <<committed, position, msgAsTable_, autoCommit_, threadVars,
                   queue, items, settled>>

\* The job leaves the map and is destroyed, and its queue with it: the
\* queue's stop() joins the worker, which finishes its batch ...
StopQueue ==
    /\ job = "joined"
    /\ worker \in {"none", "collect"} /\ items = <<>>
    /\ worker' = "none"
    /\ job' = "stopped"
    /\ UNCHANGED <<committed, position, msgAsTable_, autoCommit_, threadVars,
                   queue, items, settled>>

\* ... and throws away what is left in the queue.
ClearQueue ==
    /\ job = "stopped"
    /\ queue' = <<>>
    /\ settled' = settled \union InSeq(queue)
    /\ job' = "none"
    /\ UNCHANGED <<committed, position, msgAsTable_, autoCommit_, threadVars,
                   workerVars>>

-----------------------------------------------------------------------------
(***************************************************************************)
(* The polling thread: AppendTable::run                                    *)
(***************************************************************************)

\* while (flag_).
TestFlag ==
    /\ thread = "test"
    /\ thread' = IF job = "running" THEN "poll" ELSE "ended"
    /\ UNCHANGED <<committed, position, jobVars, msg, queue, workerVars, settled>>

\* rd_kafka_consumer_poll: the next message of some partition ...
Poll(p) ==
    /\ thread = "poll"
    /\ position[p] < MaxOffset
    /\ position' = [position EXCEPT ![p] = @ + 1]
    /\ msg' = [part |-> p, no |-> position[p] + 1]
    /\ thread' = IF msgAsTable_ THEN "push" ELSE "handle"
    /\ UNCHANGED <<committed, jobVars, queue, workerVars, settled>>

\* ... or nothing, or an error event.
PollNothing ==
    /\ thread = "poll"
    /\ thread' = "test"
    /\ UNCHANGED <<committed, position, jobVars, msg, queue, workerVars, settled>>

\* queue_->push(msg) waits for room.
Push ==
    /\ thread = "push"
    /\ Len(queue) < queueDepth
    /\ queue' = Append(queue, msg)
    /\ thread' = "test" /\ msg' = NoMessage
    /\ UNCHANGED <<committed, position, jobVars, workerVars, settled>>

\* doHandle(doParse(msg)); handleErr counts a message for which it throws.
Handle(ok) ==
    /\ thread = "handle"
    /\ settled' = settled \union {msg}
    /\ IF ok /\ autoCommit_
       THEN thread' = "commit" /\ UNCHANGED msg
       ELSE thread' = "test" /\ msg' = NoMessage
    /\ UNCHANGED <<committed, position, jobVars, queue, workerVars>>

\* commitMsg(m): the broker's offset moves just past m, in m's partition; or
\* the broker refuses and commitMsg throws.
CommitMsg(m, ok) ==
    committed' = IF ok THEN [committed EXCEPT ![m.part] = m.no] ELSE committed

Commit(ok) ==
    /\ thread = "commit"
    /\ CommitMsg(msg, ok)
    /\ thread' = "test" /\ msg' = NoMessage
    /\ UNCHANGED <<position, jobVars, queue, workerVars, settled>>

-----------------------------------------------------------------------------
(***************************************************************************)
(* The worker of the ThreadedQueue                                         *)
(***************************************************************************)

\* Mutant: it moves the newest message.
MutTake(n) ==
    /\ worker = "collect"
    /\ n =< Len(queue) /\ Len(items) + n =< batchSize
    /\ items' = Append(items, queue[Len(queue)])
    /\ queue' = SubSeq(queue, 1, Len(queue) - 1)
    /\ UNCHANGED <<committed, position, jobVars, threadVars, worker, settled>>

\* It moves the n oldest messages to its batch ...
Take(n) ==
    /\ worker = "collect"
    /\ n =< Len(queue) /\ Len(items) + n =< batchSize
    /\ items' = items \o SubSeq(queue, 1, n)
    /\ queue' = SubSeq(queue, n + 1, Len(queue))
    /\ UNCHANGED <<committed, position, jobVars, threadVars, worker, settled>>

\* Mutant: an incomplete batch waits until it is complete.
MutEndBatch ==
    /\ worker = "collect"
    /\ Len(items) = batchSize
    /\ worker' = "insert"
    /\ UNCHANGED <<committed, position, jobVars, threadVars, queue, items, settled>>

\* ... until the batch is complete, its time has passed or the queue is stopped.
EndBatch ==
    /\ worker = "collect"
    /\ items # <<>>
    /\ worker' = "insert"
    /\ UNCHANGED <<committed, position, jobVars, threadVars, queue, items, settled>>

\* The transform and the insert of the batch; if one of them throws, the batch
\* is counted as failed and there is no finalizer.
InsertBatch(ok) ==
    /\ worker = "insert"
    /\ settled' = settled \union InSeq(items)
    /\ IF ok /\ autoCommit_
       THEN worker' = "finalize" /\ UNCHANGED items
       ELSE worker' = "collect" /\ items' = <<>>
    /\ UNCHANGED <<committed, position, jobVars, threadVars, queue>>

\* Mutant: the finalizer commits the message pushed last.
MutFinalize(ok) ==
    /\ worker = "finalize"
    /\ CommitMsg((items \o queue)[Len(items) + Len(queue)], ok)
    /\ worker' = "collect" /\ items' = <<>>
    /\ UNCHANGED <<position, jobVars, threadVars, queue, settled>>

\* Mutant: the batch is kept and goes into the next one.
MutFinalizeKeepsItems(ok) ==
    /\ worker = "finalize"
    /\ CommitMsg(items[Len(items)], ok)
    /\ worker' = "collect"
    /\ UNCHANGED <<position, jobVars, threadVars, queue, items, settled>>

\* subJobFinalizer: only the last message of the batch is committed.
Finalize(ok) ==
    /\ worker = "finalize"
    /\ CommitMsg(items[Len(items)], ok)
    /\ worker' = "collect" /\ items' = <<>>
    /\ UNCHANGED <<position, jobVars, threadVars, queue, settled>>

-----------------------------------------------------------------------------
Thread ==
    \/ TestFlag
    \/ \E p \in Partition : Poll(p)
    \/ PollNothing
    \/ Push
    \/ \E ok \in BOOLEAN : Handle(ok) \/ Commit(ok)

Worker ==
    \/ \E n \in 1..batchSize : Take(n)
    \/ EndBatch
    \/ \E ok \in BOOLEAN : InsertBatch(ok) \/ Finalize(ok)

Cancel == Join \/ StopQueue \/ ClearQueue

Script ==
    \/ \E asTable, commit \in BOOLEAN : CreateSubJob(asTable, commit)
    \/ NewConsumer
    \/ CancelThread

Next == Thread \/ Worker \/ Cancel \/ Script \/ Crash

Spec == Init /\ [][Next]_vars

\* The threads run, and a cancel that has begun goes on.
Fairness == WF_vars(Thread) /\ WF_vars(Worker) /\ WF_vars(Cancel)

FairSpec == Spec /\ Fairness

-----------------------------------------------------------------------------
(***************************************************************************)
(* Properties                                                              *)
(***************************************************************************)

TypeOK ==
    /\ committed \in [Partition -> 0..MaxOffset]
    /\ position \in [Partition -> 0..MaxOffset]
    /\ job \in {"none", "running", "cancelling", "joined", "stopped"}
    /\ msgAsTable_ \in BOOLEAN /\ autoCommit_ \in BOOLEAN
    /\ thread \in {"none", "test", "poll", "push", "handle", "commit", "ended"}
    /\ msg \in Message \union {NoMessage}
    /\ queue \in Seq(Message) /\ Len(queue) =< queueDepth
    /\ worker \in {"none", "collect", "insert", "finalize"}
    /\ items \in Seq(Message) /\ Len(items) =< batchSize
    /\ settled \subseteq Message

\* A crash loses no message that was still on its way: the committed offset
\* of a partition covers only messages that were inserted, counted as failed
\* or thrown away by a cancel, although the consumer has polled far more and
\* a batch mixes partitions.
CommitCoversSettled ==
    \A p \in Partition : \A o \in 1..committed[p] :
        [part |-> p, no |-> o] \in settled

\* Nothing that was committed is inserted once more, through crashes, cancels
\* and new consumers: what is on its way is beyond the committed offset.
CommittedNotRepeated ==
    /\ thread = "handle" => msg.no > committed[msg.part]
    /\ worker = "insert" => \A m \in InSeq(items) : m.no > committed[m.part]

\* The offset of a partition never moves back.
CommitsAdvance == [][\A p \in Partition : committed'[p] >= committed[p]]_vars

\* cancelSubJob comes back, although the thread it joins may be blocked in
\* a push on a full queue.
CancelReturns == job = "cancelling" ~> job = "none"

\* Every polled message is settled, unless a crash or a new consumer goes
\* back to before it.
PolledIsSettled ==
    \A p \in Partition : \A o \in 1..MaxOffset :
        position[p] >= o ~> \/ [part |-> p, no |-> o] \in settled
                            \/ position[p] < o
=============================================================================
