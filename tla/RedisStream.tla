----------------------------- MODULE RedisStream -----------------------------
(***************************************************************************)
(* The stream subscriptions of the redis plugin (redisStream.cpp): the     *)
(* StreamJobManager, and the reader thread of each subscription, which     *)
(* reads a consumer group and appends what it gets to the output table.    *)
(*                                                                         *)
(* Redis is external, and as the commands of the plugin see it: a stream   *)
(* whose entries are numbered, the group's last delivered entry, and for   *)
(* each consumer the entries it was given and has not acknowledged.  Every *)
(* subscription is a consumer of its own.  Redis and the output table      *)
(* survive a crash of the server; subscriptions do not.  The count of what *)
(* a subscription has processed is left out.                               *)
(*                                                                         *)
(* The connection has no time-out (connect, line 168): when the peer is    *)
(* lost without a notice a command waits for ever, or until the system     *)
(* reports the connection broken.  BLOCK 100 is of no help, it is Redis    *)
(* that counts the 100 ms.                                                 *)
(***************************************************************************)
EXTENDS Naturals, FiniteSets

CONSTANTS
    Action,              \* actionNames
    batchSize_,
    MaxMsg,              \* bound: entries added to the stream
    MaxRuns,             \* bound: subscriptions made
    MaxLost              \* bound: subscriptions with a lost peer at a time

ASSUME ConstantsAssumption ==
    /\ batchSize_ \in Nat \ {0}
    /\ MaxMsg \in Nat
    /\ MaxRuns \in Nat
    /\ MaxLost \in Nat

Msg == 1..MaxMsg
Free == "free"
ASSUME FreeAssumption == Free \notin Action

VARIABLES
    added,               \* Redis: entries 1..added are in the stream
    delivered,           \* Redis: entries 1..delivered were given to a consumer
    pendingList,         \* Redis: the pending entries of each consumer
    subscriptions_,      \* the names in the map of the manager
    mutex_,              \* Free, or the action whose unsubscription holds the lock
    reader,              \* the reader thread of each action, see Reader
    lost,                \* the subscriptions whose peer is lost without a notice
    copies,              \* how often each entry is in the output table
    noack,               \* history: the entries that were read with NOACK
    runs

redis == <<added, delivered, pendingList>>
manager == <<subscriptions_, mutex_>>
history == <<noack, runs>>
vars == <<redis, manager, reader, lost, copies, history>>

\* A StreamSubscription and where its thread is: none, in the XREADGROUP of the
\* pending entries, at the test of isEnd_, in the XREADGROUP of new ones, in the
\* parser and the append, in the XACK, ended; msgs is what it has read, old says
\* that these were pending entries.
Reader == [at : {"none", "pending", "loop", "read", "append", "ack", "ended"},
           pending_ : BOOLEAN, autoAck_ : BOOLEAN, isEnd_ : BOOLEAN,
           status_ : {"OK", "FATAL"}, msgs : SUBSET Msg, old : BOOLEAN]

NoReader == [at |-> "none", pending_ |-> FALSE, autoAck_ |-> FALSE, isEnd_ |-> FALSE,
             status_ |-> "OK", msgs |-> {}, old |-> FALSE]

Init ==
    /\ added = 0
    /\ delivered = 0
    /\ pendingList = [a \in Action |-> {}]
    /\ subscriptions_ = {}
    /\ mutex_ = Free
    /\ reader = [a \in Action |-> NoReader]
    /\ lost = {}
    /\ copies = [m \in Msg |-> 0]
    /\ noack = {}
    /\ runs = 0

-----------------------------------------------------------------------------
(* The manager.                                                            *)

\* subscribeStream: connects and starts the thread under the lock.  (If the
\* connection fails or the name is taken it throws and leaves no trace here.)
SubscribeStream(a, pending, autoAck) ==
    /\ mutex_ = Free
    /\ a \notin subscriptions_
    /\ runs < MaxRuns
    /\ runs' = runs + 1
    /\ subscriptions_' = subscriptions_ \union {a}
    /\ reader' = [reader EXCEPT ![a] = [NoReader EXCEPT !.at = IF pending THEN "pending" ELSE "loop",
                                                        !.pending_ = pending, !.autoAck_ = autoAck]]
    /\ UNCHANGED <<redis, mutex_, lost, copies, noack>>

\* unsubscribeStream up to the join of the thread, with the lock held.
Stop(a) ==
    /\ mutex_ = Free
    /\ a \in subscriptions_
    /\ mutex_' = a
    /\ reader' = [reader EXCEPT ![a].isEnd_ = TRUE]
    /\ UNCHANGED <<redis, subscriptions_, lost, copies, history>>

\* The thread has ended: the connection is freed and the entry erased.
Joined(a) ==
    /\ mutex_ = a
    /\ reader[a].at = "ended"
    /\ mutex_' = Free
    /\ subscriptions_' = subscriptions_ \ {a}
    /\ reader' = [reader EXCEPT ![a] = NoReader]
    /\ lost' = lost \ {a}
    /\ UNCHANGED <<redis, copies, history>>

-----------------------------------------------------------------------------
(* streamReaderThread.                                                     *)

\* The peer is lost without a notice.
LosesPeer(a) ==
    /\ Cardinality(lost) < MaxLost
    /\ lost' = lost \union {a}

\* errorLog and the end of the thread: an error reply, a connection that the
\* system reports broken, or an exception of the parser or of the append.
Fail(a) ==
    /\ reader[a].at \in {"pending", "read", "append", "ack"}
    /\ reader' = [reader EXCEPT ![a].at = "ended", ![a].status_ = "FATAL",
                                ![a].msgs = {}, ![a].old = FALSE]
    /\ UNCHANGED <<redis, manager, lost, copies, history>>

\* A bug: COUNT is sent here too.
MutReadPending(a) ==
    /\ reader[a].at = "pending"
    /\ a \notin lost
    /\ LET first == {m \in pendingList[a] :
                        Cardinality({n \in pendingList[a] : n =< m}) =< batchSize_}
       IN  reader' = [reader EXCEPT ![a].at = IF first = {} THEN "loop" ELSE "append",
                                    ![a].msgs = first, ![a].old = first # {}]
    /\ UNCHANGED <<redis, manager, lost, copies, history>>

\* XREADGROUP with id 0: all the entries this consumer has pending.
ReadPending(a) ==
    /\ reader[a].at = "pending"
    /\ a \notin lost
    /\ reader' = [reader EXCEPT ![a].at = IF pendingList[a] = {} THEN "loop" ELSE "append",
                                ![a].msgs = pendingList[a], ![a].old = pendingList[a] # {}]
    /\ UNCHANGED <<redis, manager, lost, copies, history>>

\* A bug: isEnd_ is not looked at again once the loop has begun.
MutBeginRead(a) ==
    /\ reader[a].at = "loop"
    /\ reader' = [reader EXCEPT ![a].at = "read"]
    /\ UNCHANGED <<redis, manager, lost, copies, history>>

\* One turn of the loop: isEnd_ is looked at, the XREADGROUP with id > is sent.
BeginRead(a) ==
    /\ reader[a].at = "loop"
    /\ ~reader[a].isEnd_
    /\ reader' = [reader EXCEPT ![a].at = "read"]
    /\ UNCHANGED <<redis, manager, lost, copies, history>>

\* The entries that XREADGROUP with id > gives: at most batchSize_.
Fresh == {m \in Msg : delivered < m /\ m =< added /\ m =< delivered + batchSize_}

\* A bug: the flag is set the wrong way round.
MutDeliver(a) ==
    /\ delivered' = IF added < delivered + batchSize_ THEN added ELSE delivered + batchSize_
    /\ pendingList' = IF ~reader[a].autoAck_ THEN pendingList
                      ELSE [pendingList EXCEPT ![a] = @ \union Fresh]
    /\ noack' = IF reader[a].autoAck_ THEN noack \union Fresh ELSE noack

\* A bug: NOACK is never sent.
MutDeliverPending(a) ==
    /\ delivered' = IF added < delivered + batchSize_ THEN added ELSE delivered + batchSize_
    /\ pendingList' = [pendingList EXCEPT ![a] = @ \union Fresh]
    /\ noack' = IF reader[a].autoAck_ THEN noack \union Fresh ELSE noack

\* What Redis does for it; with NOACK the entries do not become pending.
Deliver(a) ==
    /\ delivered' = IF added < delivered + batchSize_ THEN added ELSE delivered + batchSize_
    /\ pendingList' = IF reader[a].autoAck_ THEN pendingList
                      ELSE [pendingList EXCEPT ![a] = @ \union Fresh]
    /\ noack' = IF reader[a].autoAck_ THEN noack \union Fresh ELSE noack

\* A bug: it waits for a whole batch.
MutReadNew(a) ==
    /\ reader[a].at = "read"
    /\ a \notin lost
    /\ Cardinality(Fresh) = batchSize_
    /\ Deliver(a)
    /\ reader' = [reader EXCEPT ![a].at = "append", ![a].msgs = Fresh, ![a].old = FALSE]
    /\ UNCHANGED <<added, manager, lost, copies, runs>>

\* The reply with new entries.
ReadNew(a) ==
    /\ reader[a].at = "read"
    /\ a \notin lost
    /\ Fresh # {}
    /\ Deliver(a)
    /\ reader' = [reader EXCEPT ![a].at = "append", ![a].msgs = Fresh, ![a].old = FALSE]
    /\ UNCHANGED <<added, manager, lost, copies, runs>>

\* Redis has given the entries but the reply does not arrive: the connection is
\* reported broken, or the peer is lost without a notice.
ReplyLost(a) ==
    /\ reader[a].at = "read"
    /\ a \notin lost
    /\ Fresh # {}
    /\ Deliver(a)
    /\ \/ /\ reader' = [reader EXCEPT ![a].at = "ended", ![a].status_ = "FATAL"]
          /\ lost' = lost
       \/ /\ reader' = reader
          /\ LosesPeer(a)
    /\ UNCHANGED <<added, manager, copies, runs>>

\* The empty reply after 100 ms without a new entry.
ReadNothing(a) ==
    /\ reader[a].at = "read"
    /\ a \notin lost
    /\ Fresh = {}
    /\ reader' = [reader EXCEPT ![a].at = "loop"]
    /\ UNCHANGED <<redis, manager, lost, copies, history>>

\* isEnd_ is found set.
LeaveLoop(a) ==
    /\ reader[a].at = "loop"
    /\ reader[a].isEnd_
    /\ reader' = [reader EXCEPT ![a].at = "ended"]
    /\ UNCHANGED <<redis, manager, lost, copies, history>>

\* The parser and appendParserTable.  Pending entries were not read with
\* NOACK: with autoAck_ they need an XACK.
AppendTable(a) ==
    /\ reader[a].at = "append"
    /\ copies' = [m \in Msg |-> IF m \in reader[a].msgs THEN copies[m] + 1 ELSE copies[m]]
    /\ LET ack == reader[a].old /\ reader[a].autoAck_
       IN  reader' = [reader EXCEPT ![a].at = IF ack THEN "ack" ELSE "loop",
                                    ![a].msgs = IF ack THEN @ ELSE {},
                                    ![a].old = ack]
    /\ UNCHANGED <<redis, manager, lost, history>>

AckMessages(a) ==
    /\ reader[a].at = "ack"
    /\ a \notin lost
    /\ pendingList' = [pendingList EXCEPT ![a] = @ \ reader[a].msgs]
    /\ reader' = [reader EXCEPT ![a].at = "loop", ![a].msgs = {}, ![a].old = FALSE]
    /\ UNCHANGED <<added, delivered, manager, lost, copies, history>>

\* Redis has done it but the reply does not arrive, as in ReplyLost.
AckLost(a) ==
    /\ reader[a].at = "ack"
    /\ a \notin lost
    /\ pendingList' = [pendingList EXCEPT ![a] = @ \ reader[a].msgs]
    /\ \/ /\ reader' = [reader EXCEPT ![a].at = "ended", ![a].status_ = "FATAL",
                                      ![a].msgs = {}, ![a].old = FALSE]
          /\ lost' = lost
       \/ /\ reader' = reader
          /\ LosesPeer(a)
    /\ UNCHANGED <<added, delivered, manager, copies, history>>

-----------------------------------------------------------------------------
(* The rest of the world.                                                  *)

AddEntry ==
    /\ added < MaxMsg
    /\ added' = added + 1
    /\ UNCHANGED <<delivered, pendingList, manager, reader, lost, copies, history>>

\* ackMessages called by a script, for an entry it found in the output table.
StreamAck(a, m) ==
    /\ m \in pendingList[a]
    /\ copies[m] > 0
    /\ pendingList' = [pendingList EXCEPT ![a] = @ \ {m}]
    /\ UNCHANGED <<added, delivered, manager, reader, lost, copies, history>>

\* The server stops and starts again.
Crash ==
    /\ subscriptions_ # {}
    /\ subscriptions_' = {}
    /\ mutex_' = Free
    /\ reader' = [a \in Action |-> NoReader]
    /\ lost' = {}
    /\ UNCHANGED <<redis, copies, history>>

\* The machine or the way to Redis fails, and nothing tells this end of it.  It
\* shows in a command only, the one in progress or the next.
LosePeer(a) ==
    /\ reader[a].at \in {"pending", "read", "ack"}
    /\ a \notin lost
    /\ LosesPeer(a)
    /\ UNCHANGED <<redis, manager, reader, copies, history>>

ReaderStep(a) ==
    \/ ReadPending(a) \/ BeginRead(a) \/ ReadNew(a) \/ ReadNothing(a) \/ LeaveLoop(a)
    \/ AppendTable(a) \/ AckMessages(a)

Next ==
    \/ \E a \in Action :
           \/ \E pending, autoAck \in BOOLEAN : SubscribeStream(a, pending, autoAck)
           \/ Stop(a) \/ Joined(a)
           \/ ReaderStep(a) \/ Fail(a) \/ ReplyLost(a) \/ AckLost(a) \/ LosePeer(a)
           \/ \E m \in Msg : StreamAck(a, m)
    \/ AddEntry
    \/ Crash

Spec == Init /\ [][Next]_vars

\* A thread that can run does; a caller that waits for the join goes on.  That a
\* thread in a command or in the parser can run says: Redis answers as long as
\* the peer is not lost, and the parser returns.  Nothing is assumed of a lost
\* peer, of the scripts, or that nothing fails.
Fairness == \A a \in Action : WF_vars(ReaderStep(a)) /\ WF_vars(Joined(a))
FairSpec == Spec /\ Fairness

-----------------------------------------------------------------------------
TypeOK ==
    /\ added \in 0..MaxMsg
    /\ delivered \in 0..added
    /\ pendingList \in [Action -> SUBSET Msg]
    /\ subscriptions_ \subseteq Action
    /\ mutex_ \in Action \union {Free}
    /\ reader \in [Action -> Reader]
    /\ lost \subseteq Action
    /\ copies \in [Msg -> Nat]
    /\ noack \subseteq Msg
    /\ runs \in 0..MaxRuns

\* Without NOACK nothing is lost: whatever fails and whenever the server
\* crashes, an entry that was given to a subscription is in the output table
\* or still pending for its consumer, where the next subscription with
\* readPending finds it.
NothingLost ==
    \A m \in 1..delivered :
        m \in noack \/ copies[m] > 0 \/ \E a \in Action : m \in pendingList[a]

\* With NOACK, which is autoAck, an entry may be lost but is never appended
\* twice, however the subscriptions come and go.
NoAckAtMostOnce ==
    \A m \in noack : copies[m] =< 1 /\ \A a \in Action : m \notin pendingList[a]

\* A subscription that asks for the pending entries goes on to new ones only
\* when all that an earlier run left pending is in the output table.
PendingFirst ==
    \A a \in Action :
        reader[a].pending_ /\ reader[a].at \in {"loop", "ack"} =>
            \A m \in pendingList[a] : copies[m] > 0

\* There is one thread to a registered name, and none without: a name can be
\* used again only after the thread before it has ended.
OneThread ==
    \A a \in Action : reader[a].at # "none" <=> a \in subscriptions_

\* unsubscribeStream, which joins the thread with the lock held, returns, unless
\* the thread waits for the reply of a lost peer: then every other call waits too.
UnsubscribeStreamReturns ==
    \A a \in Action :
        (mutex_ = a) ~> \/ mutex_ = Free
                        \/ a \in lost /\ reader[a].at \in {"pending", "read", "ack"}

\* A thread that has not ended and whose peer is there takes every entry that
\* is added.
EntriesAreTaken ==
    \A a \in Action :
        (delivered < added /\ reader[a].at \notin {"none", "ended"} /\ a \notin lost)
            ~> (delivered = added \/ reader[a].at \in {"none", "ended"} \/ a \in lost)
=============================================================================
