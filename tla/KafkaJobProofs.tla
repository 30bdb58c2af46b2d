--------------------------- MODULE KafkaJobProofs ---------------------------
(***************************************************************************)
(* For any number of partitions and messages, any batch size and queue     *)
(* depth: commits cover only messages that are done with, never go back,   *)
(* and nothing committed is inserted again.                                *)
(***************************************************************************)
EXTENDS KafkaJob, SequenceTheorems, TLAPS

\* The polling thread has a message in hand exactly while it works on it.
HasMsg == thread \in {"push", "handle", "commit"}

\* Who exists in which phase of a job.
Phases ==
    /\ IF HasMsg THEN msg \in Message ELSE msg = NoMessage
    /\ worker = "none" => items = <<>>
    /\ worker \in {"insert", "finalize"} => items # <<>>
    /\ job \in {"none", "joined", "stopped"} => thread = "none"
    /\ job = "none" => worker = "none" /\ queue = <<>>
    /\ thread \in {"handle", "commit"} => worker = "none" /\ queue = <<>>
    /\ job \in {"running", "cancelling"} /\ ~msgAsTable_ => worker = "none" /\ queue = <<>>
    /\ thread \in {"handle", "commit"} => ~msgAsTable_
    /\ thread = "push" => msgAsTable_
    /\ job = "stopped" => worker = "none"

\* Message a is polled before message b if they are of one partition.
Precedes(a, b) == a.part = b.part => a.no < b.no

Increasing(q) == \A i, j \in 1..Len(q) : i < j => Precedes(q[i], q[j])

\* The worker's batch, the queue and the message in hand are in the order
\* of polling.
InOrder ==
    /\ Increasing(items)
    /\ Increasing(queue)
    /\ \A i \in 1..Len(items), j \in 1..Len(queue) : Precedes(items[i], queue[j])
    /\ HasMsg => /\ \A i \in 1..Len(items) : Precedes(items[i], msg)
                 /\ \A i \in 1..Len(queue) : Precedes(queue[i], msg)

\* What is on its way lies between the committed offset and the position.
Beyond(m) == committed[m.part] < m.no /\ m.no =< position[m.part]

OnItsWay ==
    /\ \A i \in 1..Len(items) : Beyond(items[i])
    /\ \A i \in 1..Len(queue) : Beyond(queue[i])
    /\ HasMsg => Beyond(msg)

\* A polled message is settled or on its way.
Pending(m) ==
    \/ worker # "finalize" /\ \E i \in 1..Len(items) : items[i] = m
    \/ \E i \in 1..Len(queue) : queue[i] = m
    \/ thread \in {"push", "handle"} /\ msg = m

Accounted ==
    \A m \in Message : m.no =< position[m.part] => m \in settled \/ Pending(m)

CommittedPolled == \A p \in Partition : committed[p] =< position[p]

IInv == TypeOK /\ Phases /\ InOrder /\ OnItsWay /\ Accounted /\ CommittedPolled
             /\ CommitCoversSettled

-----------------------------------------------------------------------------
\* A message is a record of its partition and its number.
LEMMA MessageFacts ==
  ASSUME NEW m \in Message
  PROVE  /\ m.part \in Partition /\ m.no \in 1..MaxOffset
         /\ m.no \in Nat /\ m.no > 0
         /\ m = [part |-> m.part, no |-> m.no]
  BY JobAssumption, SMT DEF Message

\* What a push does to a sequence.
LEMMA PushFacts ==
  ASSUME NEW S, NEW q \in Seq(S), NEW x \in S
  PROVE  /\ Append(q, x) \in Seq(S)
         /\ Len(q) \in Nat /\ Len(Append(q, x)) = Len(q) + 1
         /\ \A i \in 1..Len(q) : Append(q, x)[i] = q[i]
         /\ Append(q, x)[Len(q) + 1] = x
  BY AppendProperties, LenProperties

\* The two halves into which a batch divides the queue.
LEMMA TakeFacts ==
  ASSUME NEW S, NEW q \in Seq(S), NEW n \in Nat \ {0}, n =< Len(q)
  PROVE  LET a == SubSeq(q, 1, n)
             b == SubSeq(q, n + 1, Len(q))
         IN  /\ a \in Seq(S) /\ Len(a) = n /\ a # <<>>
             /\ b \in Seq(S) /\ Len(b) = Len(q) - n
             /\ \A i \in 1..n : a[i] = q[i]
             /\ \A i \in 1..(Len(q) - n) : b[i] = q[n + i]
<1> DEFINE a == SubSeq(q, 1, n)
           b == SubSeq(q, n + 1, Len(q))
<1>1. Len(q) \in Nat /\ \A i \in 1..Len(q) : q[i] \in S
  BY LenProperties, ElementOfSeq
<1>2. a \in Seq(S) /\ Len(a) = n /\ \A i \in 1..n : a[i] = q[i]
  <2>1. \A i \in 1..n : q[i] \in S
    BY <1>1, SMT
  <2>2. /\ a \in Seq(S)
        /\ Len(a) = IF 1 <= n THEN n - 1 + 1 ELSE 0
        /\ \A i \in 1..(n - 1 + 1) : a[i] = q[1 + i - 1]
    BY <2>1, SubSeqProperties
  <2> HIDE DEF a
  <2> QED BY <2>2, SMT
<1>3. /\ b \in Seq(S) /\ Len(b) = Len(q) - n
      /\ \A i \in 1..(Len(q) - n) : b[i] = q[n + i]
  <2>1. \A i \in (n + 1)..Len(q) : q[i] \in S
    BY <1>1, SMT
  <2>2. /\ b \in Seq(S)
        /\ Len(b) = IF n + 1 <= Len(q) THEN Len(q) - (n + 1) + 1 ELSE 0
        /\ \A i \in 1..(Len(q) - (n + 1) + 1) : b[i] = q[n + 1 + i - 1]
    BY <1>1, <2>1, SubSeqProperties
  <2> HIDE DEF b
  <2> QED BY <1>1, <2>2, SMT
<1>4. a # <<>>
  BY <1>2, EmptySeq
<1> QED BY <1>2, <1>3, <1>4

\* Where the elements of a concatenation come from.
LEMMA ConcatFacts ==
  ASSUME NEW S, NEW q \in Seq(S), NEW r \in Seq(S)
  PROVE  /\ q \o r \in Seq(S) /\ Len(q) \in Nat /\ Len(r) \in Nat
         /\ Len(q \o r) = Len(q) + Len(r)
         /\ \A i \in 1..Len(q) : (q \o r)[i] = q[i]
         /\ \A i \in 1..Len(r) : (q \o r)[Len(q) + i] = r[i]
<1> DEFINE c == q \o r
<1>1. Len(q) \in Nat /\ Len(r) \in Nat
  BY LenProperties
<1>2. /\ c \in Seq(S)
      /\ Len(c) = Len(q) + Len(r)
      /\ \A i \in 1..(Len(q) + Len(r)) :
            c[i] = IF i <= Len(q) THEN q[i] ELSE r[i - Len(q)]
  BY ConcatProperties
<1> HIDE DEF c
<1>3. \A i \in 1..Len(q) : c[i] = q[i]
  BY <1>1, <1>2, SMT
<1>4. ASSUME NEW i \in 1..Len(r) PROVE c[Len(q) + i] = r[i]
  <2>1. /\ Len(q) + i \in 1..(Len(q) + Len(r)) /\ ~(Len(q) + i <= Len(q))
        /\ Len(q) + i - Len(q) = i
    BY <1>1, SMT
  <2> QED BY <1>2, <2>1
<1> QED BY <1>1, <1>2, <1>3, <1>4 DEF c

\* The initial state.
LEMMA InitInv == Init => IInv
<1> SUFFICES ASSUME Init PROVE IInv
  OBVIOUS
<1> USE JobAssumption DEF Init
<1>1. <<>> \in Seq(Message) /\ Len(<<>>) = 0
  BY EmptySeq
<1>2. TypeOK
  <2>1. 0 \in 0..MaxOffset /\ 0 =< queueDepth /\ 0 =< batchSize
    BY SMT
  <2>2. committed \in [Partition -> 0..MaxOffset] /\ position \in [Partition -> 0..MaxOffset]
    BY <2>1
  <2> QED BY <1>1, <2>1, <2>2 DEF TypeOK
<1>3. Phases /\ InOrder /\ OnItsWay
  BY <1>1, SMT DEF Phases, InOrder, Increasing, OnItsWay, HasMsg
<1>4. Accounted /\ CommittedPolled /\ CommitCoversSettled
  BY MessageFacts, SMT DEF Accounted, CommittedPolled, CommitCoversSettled
<1> QED BY <1>2, <1>3, <1>4 DEF IInv

\* Every message that is on its way is one.
LEMMA Elements ==
  ASSUME TypeOK, Phases
  PROVE  /\ \A i \in 1..Len(items) : items[i] \in Message
         /\ \A i \in 1..Len(queue) : queue[i] \in Message
         /\ HasMsg => msg \in Message
         /\ Len(items) \in Nat /\ Len(queue) \in Nat
  BY LenProperties, ElementOfSeq DEF TypeOK, Phases

\* A step that leaves the messages, their places and the offsets alone.
LEMMA CalmInv ==
  ASSUME IInv, TypeOK', Phases',
         UNCHANGED <<committed, position, msg, queue, items, settled>>,
         HasMsg' <=> HasMsg,
         worker # "finalize" => worker' # "finalize",
         thread \in {"push", "handle"} => thread' \in {"push", "handle"}
  PROVE  IInv'
<1>1. InOrder' /\ OnItsWay'
  BY DEF IInv, InOrder, Increasing, Precedes, OnItsWay, Beyond
<1>2. Accounted'
  BY DEF IInv, Accounted, Pending
<1>3. CommittedPolled' /\ CommitCoversSettled'
  BY DEF IInv, CommittedPolled, CommitCoversSettled
<1> QED BY <1>1, <1>2, <1>3 DEF IInv

\* Nothing is on its way in a step that begins or ends without a job; the
\* position stays or goes back to the committed offsets.
LEMMA FreshInv ==
  ASSUME IInv, TypeOK', Phases',
         queue' = <<>>, items' = <<>>, ~HasMsg',
         UNCHANGED <<committed, settled>>,
         \/ position' = committed
         \/ position' = position /\ queue = <<>> /\ items = <<>> /\ ~HasMsg
  PROVE  IInv'
<1>1. Len(<<>>) = 0
  BY EmptySeq
<1>2. InOrder' /\ OnItsWay'
  BY <1>1, SMT DEF InOrder, Increasing, OnItsWay
<1>3. CommitCoversSettled'
  BY DEF IInv, CommitCoversSettled
<1>4. CASE position' = committed
  <2>1. Accounted'
    <3> SUFFICES ASSUME NEW m \in Message, m.no =< committed[m.part]
                 PROVE  m \in settled
      BY <1>4 DEF Accounted
    <3>1. m.part \in Partition /\ m.no \in 1..committed[m.part]
      BY MessageFacts, SMT DEF IInv, TypeOK
    <3> QED BY <3>1, MessageFacts DEF IInv, CommitCoversSettled
  <2>2. CommittedPolled'
    BY <1>4, SMT DEF IInv, TypeOK, CommittedPolled
  <2> QED BY <1>2, <1>3, <2>1, <2>2 DEF IInv
<1>5. CASE position' = position /\ queue = <<>> /\ items = <<>> /\ ~HasMsg
  <2>1. Accounted'
    BY <1>1, <1>5, SMT DEF IInv, Accounted, Pending, HasMsg
  <2>2. CommittedPolled'
    BY <1>5 DEF IInv, CommittedPolled
  <2> QED BY <1>2, <1>3, <2>1, <2>2 DEF IInv
<1> QED BY <1>4, <1>5

\* The steps of scripts, of a crash, and the ones that end a job.
LEMMA ScriptInv ==
  ASSUME IInv,
         \/ \E asTable, commit \in BOOLEAN : CreateSubJob(asTable, commit)
         \/ NewConsumer \/ CancelThread \/ Crash \/ Join \/ StopQueue
  PROVE  IInv'
<1> USE DEF jobVars, threadVars, workerVars
<1>0. <<>> \in Seq(Message) /\ Len(<<>>) = 0
  BY EmptySeq
<1>1. ASSUME NEW asTable \in BOOLEAN, NEW commit \in BOOLEAN, CreateSubJob(asTable, commit)
      PROVE  IInv'
  <2> USE <1>1 DEF CreateSubJob
  <2>1. TypeOK'
    BY <1>0, JobAssumption, SMT DEF IInv, TypeOK
  <2>2. Phases'
    BY DEF IInv, Phases, HasMsg
  <2>3. ~HasMsg' /\ ~HasMsg /\ queue = <<>> /\ items = <<>>
    BY DEF IInv, Phases, HasMsg
  <2> QED BY <2>1, <2>2, <2>3, FreshInv
<1>2. CASE NewConsumer
  <2> USE <1>2 DEF NewConsumer
  <2>1. TypeOK' /\ Phases'
    BY DEF IInv, TypeOK, Phases, HasMsg
  <2>2. ~HasMsg' /\ queue' = <<>> /\ items' = <<>>
    BY DEF IInv, Phases, HasMsg
  <2> QED BY <2>1, <2>2, FreshInv
<1>3. CASE Crash
  <2> USE <1>3 DEF Crash
  <2>1. TypeOK'
    BY <1>0, JobAssumption, SMT DEF IInv, TypeOK
  <2>2. Phases' /\ ~HasMsg'
    BY DEF Phases, HasMsg
  <2> QED BY <2>1, <2>2, FreshInv
<1>4. CASE CancelThread
  <2> USE <1>4 DEF CancelThread
  <2>1. TypeOK' /\ Phases'
    BY DEF IInv, TypeOK, Phases, HasMsg
  <2> QED BY <2>1, CalmInv DEF HasMsg
<1>5. CASE Join
  <2> USE <1>5 DEF Join
  <2>1. TypeOK' /\ Phases'
    BY DEF IInv, TypeOK, Phases, HasMsg
  <2> QED BY <2>1, CalmInv DEF HasMsg
<1>6. CASE StopQueue
  <2> USE <1>6 DEF StopQueue
  <2>1. TypeOK' /\ Phases'
    BY DEF IInv, TypeOK, Phases, HasMsg
  <2> QED BY <2>1, CalmInv DEF HasMsg
<1> QED BY <1>1, <1>2, <1>3, <1>4, <1>5, <1>6

\* What is left in the queue is thrown away.
LEMMA ClearQueueInv ==
  ASSUME IInv, ClearQueue
  PROVE  IInv'
<1> USE DEF ClearQueue, jobVars, threadVars, workerVars
<1>0. <<>> \in Seq(Message) /\ Len(<<>>) = 0
  BY EmptySeq
<1>1. ~HasMsg /\ ~HasMsg' /\ items = <<>> /\ items' = <<>> /\ worker = "none"
  BY DEF IInv, Phases, HasMsg
<1>2. \A i \in 1..Len(queue) : queue[i] \in InSeq(queue)
  BY DEF InSeq
<1>3. InSeq(queue) \subseteq Message
  BY Elements DEF IInv, InSeq
<1>4. TypeOK'
  BY <1>0, <1>3, JobAssumption, SMT DEF IInv, TypeOK
<1>5. Phases'
  BY <1>1 DEF IInv, Phases, HasMsg
<1>6. InOrder' /\ OnItsWay'
  BY <1>0, <1>1, SMT DEF InOrder, Increasing, OnItsWay
<1>7. Accounted'
  BY <1>1, <1>2 DEF IInv, Accounted, Pending, HasMsg
<1>8. CommittedPolled' /\ CommitCoversSettled'
  BY DEF IInv, CommittedPolled, CommitCoversSettled
<1> QED BY <1>4, <1>5, <1>6, <1>7, <1>8 DEF IInv

\* The polling thread tests its flag, or polls nothing.
LEMMA TestInv ==
  ASSUME IInv, TestFlag \/ PollNothing
  PROVE  IInv'
<1> USE DEF jobVars, threadVars, workerVars
<1>1. TypeOK'
  BY DEF IInv, TypeOK, TestFlag, PollNothing
<1>2. Phases'
  BY DEF IInv, Phases, HasMsg, TestFlag, PollNothing
<1> QED BY <1>1, <1>2, CalmInv DEF TestFlag, PollNothing, HasMsg

\* A message comes in, behind everything that is on its way.
LEMMA PollInv ==
  ASSUME IInv, NEW p \in Partition, Poll(p)
  PROVE  IInv'
<1> USE DEF Poll, jobVars, workerVars
<1>0. PICK m : m = [part |-> p, no |-> position[p] + 1]
  OBVIOUS
<1>1. m \in Message /\ msg' = m /\ HasMsg' /\ ~HasMsg
  BY <1>0, JobAssumption, SMT DEF IInv, TypeOK, Message, HasMsg
<1>2. /\ position[p] \in Nat /\ position' = [position EXCEPT ![p] = position[p] + 1]
      /\ position'[p] = position[p] + 1
      /\ m.part = p /\ m.no = position[p] + 1
  BY <1>0, SMT DEF IInv, TypeOK
<1>3. \A q \in Partition : position[q] \in Nat /\ committed[q] \in Nat
                           /\ position[q] =< position'[q]
  BY <1>2, SMT DEF IInv, TypeOK
<1>4. /\ \A x \in Message : Beyond(x) => Beyond(x)' /\ Precedes(x, m)
      /\ Beyond(m)'
  <2>1. ASSUME NEW x \in Message, Beyond(x) PROVE Beyond(x)' /\ Precedes(x, m)
    BY <1>2, <1>3, <2>1, MessageFacts, SMT DEF Beyond, Precedes
  <2>2. Beyond(m)'
    BY <1>2, <1>3, SMT DEF Beyond, IInv, CommittedPolled
  <2> QED BY <2>1, <2>2
<1>5. TypeOK'
  <2>1. position' \in [Partition -> 0..MaxOffset]
    BY JobAssumption, SMT DEF IInv, TypeOK
  <2> QED BY <1>1, <2>1 DEF IInv, TypeOK
<1>6. Phases'
  <2>1. job \in {"running", "cancelling"}
    BY DEF IInv, TypeOK, Phases
  <2>2. CASE msgAsTable_
    BY <1>1, <2>1, <2>2 DEF IInv, Phases, HasMsg
  <2>3. CASE ~msgAsTable_
    BY <1>1, <2>1, <2>3 DEF IInv, Phases, HasMsg
  <2> QED BY <2>2, <2>3
<1>7. InOrder'
  <2>1. \A i \in 1..Len(items) : Precedes(items[i], m)
    BY <1>4, Elements DEF IInv, OnItsWay
  <2>2. \A i \in 1..Len(queue) : Precedes(queue[i], m)
    BY <1>4, Elements DEF IInv, OnItsWay
  <2> QED BY <1>1, <2>1, <2>2 DEF IInv, InOrder, Increasing, Precedes
<1>8. OnItsWay'
  BY <1>1, <1>4, Elements DEF IInv, OnItsWay
<1>9. Accounted'
  <2> SUFFICES ASSUME NEW x \in Message, x.no =< position'[x.part]
               PROVE  x \in settled' \/ Pending(x)'
    BY DEF Accounted
  <2>1. CASE x = m
    BY <1>1, <2>1 DEF Pending
  <2>2. CASE x # m
    <3>1. x.no =< position[x.part]
      <4>1. x.part = p => x.no # position[p] + 1
        BY <1>0, <2>2, MessageFacts
      <4> QED BY <1>2, <1>3, <4>1, MessageFacts, SMT DEF IInv, TypeOK
    <3>2. x \in settled \/ Pending(x)
      BY <3>1 DEF IInv, Accounted
    <3> QED BY <1>1, <3>2 DEF Pending, HasMsg
  <2> QED BY <2>1, <2>2
<1>10. CommittedPolled' /\ CommitCoversSettled'
  BY <1>3, SMT DEF IInv, CommittedPolled, CommitCoversSettled
<1> QED BY <1>5, <1>6, <1>7, <1>8, <1>9, <1>10 DEF IInv

\* The message in hand goes to the end of the queue.
LEMMA PushInv ==
  ASSUME IInv, Push
  PROVE  IInv'
<1> USE DEF Push, jobVars, workerVars
<1>1. HasMsg /\ ~HasMsg' /\ msg \in Message
  BY DEF IInv, Phases, HasMsg
<1>2. /\ queue' \in Seq(Message) /\ Len(queue) \in Nat /\ Len(queue') = Len(queue) + 1
      /\ \A i \in 1..Len(queue) : queue'[i] = queue[i]
      /\ queue'[Len(queue) + 1] = msg
  BY <1>1, PushFacts DEF IInv, TypeOK
<1>3. \A i \in 1..Len(queue') : \/ i \in 1..Len(queue) /\ queue'[i] = queue[i]
                                \/ i = Len(queue) + 1 /\ queue'[i] = msg
  BY <1>2, SMT
<1>4. TypeOK'
  BY <1>2, JobAssumption, SMT DEF IInv, TypeOK
<1>5. Phases'
  BY <1>1 DEF IInv, Phases, HasMsg
<1>6. InOrder'
  <2>1. Increasing(queue)'
    BY <1>1, <1>2, <1>3, SMT DEF IInv, InOrder, Increasing
  <2>2. Increasing(items)'
    BY DEF IInv, InOrder, Increasing
  <2>3. \A i \in 1..Len(items), j \in 1..Len(queue') : Precedes(items[i], queue'[j])
    BY <1>1, <1>3 DEF IInv, InOrder
  <2> QED BY <1>1, <2>1, <2>2, <2>3 DEF InOrder, Precedes
<1>7. OnItsWay'
  BY <1>1, <1>3 DEF IInv, OnItsWay, Beyond
<1>8. Accounted'
  <2> SUFFICES ASSUME NEW x \in Message, Pending(x) PROVE Pending(x)'
    BY DEF IInv, Accounted
  <2>1. CASE worker # "finalize" /\ \E i \in 1..Len(items) : items[i] = x
    BY <2>1 DEF Pending
  <2>2. CASE \E i \in 1..Len(queue) : queue[i] = x
    BY <1>2, <2>2, SMT DEF Pending
  <2>3. CASE msg = x
    BY <1>2, <2>3, SMT DEF Pending
  <2> QED BY <2>1, <2>2, <2>3 DEF Pending
<1>9. CommittedPolled' /\ CommitCoversSettled'
  BY DEF IInv, CommittedPolled, CommitCoversSettled
<1> QED BY <1>4, <1>5, <1>6, <1>7, <1>8, <1>9 DEF IInv

\* What a successful commit of message m does to the offsets, when all that is
\* pending comes after m.
LEMMA CommitFacts ==
  ASSUME IInv, NEW m \in Message, Beyond(m),
         committed' = [committed EXCEPT ![m.part] = m.no],
         UNCHANGED <<position, settled>>,
         \A x \in Message : Pending(x) => Precedes(m, x)
  PROVE  /\ committed' \in [Partition -> 0..MaxOffset]
         /\ CommittedPolled' /\ CommitCoversSettled'
         /\ \A p \in Partition : committed'[p] >= committed[p]
         /\ \A x \in Message : Beyond(x) /\ Precedes(m, x) => Beyond(x)'
<1>1. m.part \in Partition /\ m.no \in 1..MaxOffset /\ m.no =< position[m.part]
      /\ committed[m.part] < m.no
  BY MessageFacts DEF Beyond
<1>2. /\ committed'[m.part] = m.no
      /\ \A p \in Partition : p # m.part => committed'[p] = committed[p]
      /\ committed' \in [Partition -> 0..MaxOffset]
  BY <1>1, JobAssumption, SMT DEF IInv, TypeOK
<1>3. \A p \in Partition : position[p] \in Nat /\ committed[p] \in Nat
  BY SMT DEF IInv, TypeOK
<1>4. CommittedPolled'
  BY <1>1, <1>2 DEF IInv, CommittedPolled
<1>5. CommitCoversSettled'
  <2> SUFFICES ASSUME NEW p \in Partition, NEW o \in 1..committed'[p]
               PROVE  [part |-> p, no |-> o] \in settled
    BY DEF CommitCoversSettled
  <2>1. CASE p # m.part
    BY <1>2, <2>1 DEF IInv, CommitCoversSettled
  <2>2. CASE p = m.part
    <3>1. PICK x : x = [part |-> p, no |-> o]
      OBVIOUS
    <3>2. o \in 1..m.no
      BY <1>2, <2>2
    <3>3. x \in Message /\ x.part = p /\ x.no = o
      BY <1>1, <3>1, <3>2, JobAssumption, SMT DEF Message
    <3>4. x.no =< position[x.part]
      BY <1>1, <1>3, <2>2, <3>2, <3>3, SMT
    <3>5. ~Precedes(m, x)
      BY <1>1, <2>2, <3>2, <3>3, SMT DEF Precedes
    <3>6. x \in settled
      BY <3>3, <3>4, <3>5 DEF IInv, Accounted
    <3> QED BY <3>1, <3>6
  <2> QED BY <2>1, <2>2
<1>6. \A p \in Partition : committed'[p] >= committed[p]
  <2> SUFFICES ASSUME NEW p \in Partition PROVE committed'[p] >= committed[p]
    OBVIOUS
  <2> QED BY <1>1, <1>2, <1>3, SMT
<1>7. ASSUME NEW x \in Message, Beyond(x), Precedes(m, x) PROVE Beyond(x)'
  <2>1. x.part \in Partition
    BY MessageFacts
  <2> QED BY <1>1, <1>2, <1>7, <2>1 DEF Beyond, Precedes
<1> QED BY <1>2, <1>4, <1>5, <1>6, <1>7

\* The polling thread settles the message it has in hand.
LEMMA HandleInv ==
  ASSUME IInv, NEW ok \in BOOLEAN, Handle(ok)
  PROVE  IInv'
<1> USE DEF Handle, jobVars, workerVars
<1>1. /\ msg \in Message /\ HasMsg /\ worker = "none" /\ queue = <<>> /\ items = <<>>
      /\ ~msgAsTable_
  BY DEF IInv, Phases, HasMsg
<1>2. \/ thread' = "commit" /\ msg' = msg /\ HasMsg'
      \/ thread' = "test" /\ msg' = NoMessage /\ ~HasMsg'
  BY DEF HasMsg
<1>3. TypeOK'
  BY <1>1, <1>2 DEF IInv, TypeOK
<1>4. Phases'
  BY <1>1, <1>2 DEF IInv, Phases, HasMsg
<1>5. Len(queue) = 0 /\ Len(items) = 0
  BY <1>1, EmptySeq
<1>6. InOrder' /\ OnItsWay'
  <2>1. InOrder'
    BY <1>5, SMT DEF InOrder, Increasing
  <2>2. HasMsg' => Beyond(msg)'
    BY <1>1, <1>2 DEF IInv, OnItsWay, Beyond
  <2> QED BY <1>5, <2>1, <2>2, SMT DEF OnItsWay
<1>7. Accounted'
  BY <1>1, <1>5 DEF IInv, Accounted, Pending
<1>8. CommittedPolled' /\ CommitCoversSettled'
  BY DEF IInv, CommittedPolled, CommitCoversSettled
<1> QED BY <1>3, <1>4, <1>6, <1>7, <1>8 DEF IInv

\* The polling thread commits the message it has in hand.
LEMMA CommitInv ==
  ASSUME IInv, NEW ok \in BOOLEAN, Commit(ok)
  PROVE  IInv'
<1> USE DEF Commit, jobVars, workerVars
<1>1. /\ msg \in Message /\ HasMsg /\ ~HasMsg' /\ msg' = NoMessage
      /\ worker = "none" /\ queue = <<>> /\ items = <<>>
  BY DEF IInv, Phases, HasMsg
<1>2. Len(queue) = 0 /\ Len(items) = 0
  BY <1>1, EmptySeq
<1>3. Beyond(msg)
  BY <1>1 DEF IInv, OnItsWay
<1>4. \A x \in Message : ~Pending(x)
  BY <1>1, <1>2, SMT DEF Pending
<1>5. /\ committed' \in [Partition -> 0..MaxOffset]
      /\ CommittedPolled' /\ CommitCoversSettled'
  <2>1. CASE ok
    BY <1>1, <1>3, <1>4, <2>1, CommitFacts DEF CommitMsg
  <2>2. CASE ~ok
    BY <2>2 DEF CommitMsg, IInv, TypeOK, CommittedPolled, CommitCoversSettled
  <2> QED BY <2>1, <2>2
<1>6. TypeOK'
  BY <1>1, <1>5 DEF IInv, TypeOK
<1>7. Phases'
  BY <1>1 DEF IInv, Phases, HasMsg
<1>8. InOrder' /\ OnItsWay'
  BY <1>1, <1>2, SMT DEF InOrder, Increasing, OnItsWay
<1>9. Accounted'
  BY <1>4 DEF IInv, Accounted
<1> QED BY <1>5, <1>6, <1>7, <1>8, <1>9 DEF IInv

\* The oldest messages of the queue join the worker's batch.
LEMMA TakeInv ==
  ASSUME IInv, NEW n \in 1..batchSize, Take(n)
  PROVE  IInv'
<1> USE DEF Take, jobVars, threadVars
<1>1. n \in Nat \ {0} /\ n =< Len(queue) /\ Len(items) + n =< batchSize
  BY JobAssumption
<1>2. PICK taken : taken = SubSeq(queue, 1, n)
  OBVIOUS
<1>3. PICK k : k = Len(items)
  OBVIOUS
<1>4. /\ taken \in Seq(Message) /\ Len(taken) = n
      /\ \A i \in 1..n : taken[i] = queue[i]
      /\ queue' \in Seq(Message) /\ Len(queue') = Len(queue) - n
      /\ \A i \in 1..(Len(queue) - n) : queue'[i] = queue[n + i]
  BY <1>1, <1>2, TakeFacts DEF IInv, TypeOK
<1>5. /\ items' \in Seq(Message) /\ k \in Nat /\ Len(items') = k + n
      /\ \A i \in 1..k : items'[i] = items[i]
      /\ \A i \in 1..n : items'[k + i] = queue[i]
  BY <1>2, <1>3, <1>4, ConcatFacts DEF IInv, TypeOK
<1>6. Len(queue) \in Nat /\ Len(queue) =< queueDepth
  BY LenProperties DEF IInv, TypeOK
<1>7. TypeOK'
  <2>1. Len(queue') =< queueDepth /\ Len(items') =< batchSize
    BY <1>1, <1>3, <1>4, <1>5, <1>6, JobAssumption, SMT
  <2> QED BY <1>4, <1>5, <2>1 DEF IInv, TypeOK
<1>8. Phases'
  <2>1. queue # <<>>
    BY <1>1, <1>6, EmptySeq
  <2> QED BY <2>1 DEF IInv, Phases, HasMsg
<1>9. /\ \A i \in 1..Len(items') :
            \/ i \in 1..k /\ items'[i] = items[i]
            \/ i > k /\ i - k \in 1..n /\ i - k \in 1..Len(queue) /\ items'[i] = queue[i - k]
      /\ \A i \in 1..Len(queue') : n + i \in 1..Len(queue) /\ queue'[i] = queue[n + i]
  <2>1. ASSUME NEW i \in 1..Len(items')
        PROVE  \/ i \in 1..k /\ items'[i] = items[i]
               \/ i > k /\ i - k \in 1..n /\ i - k \in 1..Len(queue)
                  /\ items'[i] = queue[i - k]
    <3>1. \/ i \in 1..k
          \/ i > k /\ i - k \in 1..n /\ i - k \in 1..Len(queue) /\ k + (i - k) = i
      BY <1>1, <1>5, <1>6, SMT
    <3> QED BY <1>5, <3>1
  <2>2. Len(queue') \in Nat /\ n + Len(queue') = Len(queue)
    BY <1>1, <1>4, <1>6
  <2>3. ASSUME NEW i \in 1..Len(queue')
        PROVE  n + i \in 1..Len(queue) /\ queue'[i] = queue[n + i]
    <3>1. i \in 1..(Len(queue) - n) /\ n + i \in 1..Len(queue)
      BY <1>1, <1>6, <2>2
    <3> QED BY <1>4, <3>1
  <2> QED BY <2>1, <2>3
<1>10. InOrder'
  <2>1. \A i, j \in 1..Len(queue) : i < j => Precedes(queue[i], queue[j])
    BY DEF IInv, InOrder, Increasing
  <2>2. Increasing(items)'
    <3> SUFFICES ASSUME NEW i \in 1..Len(items'), NEW j \in 1..Len(items'), i < j
                 PROVE  Precedes(items'[i], items'[j])
      BY DEF Increasing, Precedes
    <3>1. CASE i \in 1..k /\ j \in 1..k
      BY <1>3, <1>5, <3>1 DEF IInv, InOrder, Increasing
    <3>2. CASE i \in 1..k /\ j > k
      BY <1>3, <1>5, <1>9, <3>2, SMT DEF IInv, InOrder
    <3>3. CASE i > k /\ j > k
      <4>1. /\ items'[i] = queue[i - k] /\ items'[j] = queue[j - k]
            /\ i - k \in 1..Len(queue) /\ j - k \in 1..Len(queue)
        <5>1. ~(i \in 1..k) /\ ~(j \in 1..k)
          BY <1>5, <3>3, SMT
        <5> QED BY <1>9, <5>1
      <4>2. i - k < j - k
        BY <1>5, SMT
      <4> QED BY <2>1, <4>1, <4>2
    <3> QED BY <1>5, <3>1, <3>2, <3>3, SMT
  <2>3. Increasing(queue)'
    <3> SUFFICES ASSUME NEW i \in 1..Len(queue'), NEW j \in 1..Len(queue'), i < j
                 PROVE  Precedes(queue'[i], queue'[j])
      BY DEF Increasing, Precedes
    <3>1. n + i < n + j
      BY <1>1, <1>4, <1>6, SMT
    <3> QED BY <1>9, <2>1, <3>1
  <2>4. \A i \in 1..Len(items'), j \in 1..Len(queue') : Precedes(items'[i], queue'[j])
    <3> SUFFICES ASSUME NEW i \in 1..Len(items'), NEW j \in 1..Len(queue')
                 PROVE  Precedes(items'[i], queue'[j])
      OBVIOUS
    <3>1. CASE i \in 1..k /\ items'[i] = items[i]
      BY <1>3, <1>9, <3>1 DEF IInv, InOrder
    <3>2. CASE i - k \in 1..n /\ i - k \in 1..Len(queue) /\ items'[i] = queue[i - k]
      <4>1. i - k < n + j
        BY <1>1, <1>4, <1>6, <3>2, SMT
      <4>2. n + j \in 1..Len(queue) /\ queue'[j] = queue[n + j]
        BY <1>9
      <4>3. Precedes(queue[i - k], queue[n + j])
        BY <2>1, <3>2, <4>1, <4>2
      <4> QED BY <3>2, <4>2, <4>3
    <3> QED BY <1>9, <3>1, <3>2
  <2>5. HasMsg' => /\ \A i \in 1..Len(items') : Precedes(items'[i], msg')
                   /\ \A i \in 1..Len(queue') : Precedes(queue'[i], msg')
    BY <1>3, <1>9 DEF IInv, InOrder, HasMsg
  <2> QED BY <2>2, <2>3, <2>4, <2>5 DEF InOrder, Precedes
<1>11. OnItsWay'
  BY <1>3, <1>9 DEF IInv, OnItsWay, Beyond, HasMsg
<1>12. Accounted'
  <2> SUFFICES ASSUME NEW x \in Message, Pending(x) PROVE Pending(x)'
    BY DEF IInv, Accounted
  <2>1. CASE \E i \in 1..Len(queue) : queue[i] = x
    <3>1. PICK i \in 1..Len(queue) : queue[i] = x
      BY <2>1
    <3>2. CASE i =< n
      <4>1. k + i \in 1..Len(items') /\ items'[k + i] = x
        BY <1>1, <1>5, <1>6, <3>1, <3>2, SMT
      <4> QED BY <4>1 DEF Pending
    <3>3. CASE ~(i =< n)
      <4>1. i - n \in 1..Len(queue') /\ queue'[i - n] = x
        BY <1>1, <1>4, <1>6, <3>1, <3>3, SMT
      <4> QED BY <4>1 DEF Pending
    <3> QED BY <3>2, <3>3
  <2>2. CASE thread \in {"push", "handle"} /\ msg = x
    BY <2>2 DEF Pending
  <2>3. CASE \E i \in 1..Len(items) : items[i] = x
    <3>1. PICK i \in 1..Len(items) : items[i] = x
      BY <2>3
    <3>2. i \in 1..Len(items') /\ items'[i] = x
      BY <1>1, <1>3, <1>5, <3>1, SMT
    <3> QED BY <3>2 DEF Pending
  <2> QED BY <2>1, <2>2, <2>3 DEF Pending
<1>13. CommittedPolled' /\ CommitCoversSettled'
  BY DEF IInv, CommittedPolled, CommitCoversSettled
<1> QED BY <1>7, <1>8, <1>10, <1>11, <1>12, <1>13 DEF IInv

\* The batch is taken as it is.
LEMMA EndBatchInv ==
  ASSUME IInv, EndBatch
  PROVE  IInv'
<1> USE DEF EndBatch, jobVars, threadVars
<1>1. TypeOK'
  BY DEF IInv, TypeOK
<1>2. Phases'
  BY DEF IInv, Phases, HasMsg
<1> QED BY <1>1, <1>2, CalmInv DEF HasMsg

\* The worker settles its batch.
LEMMA InsertBatchInv ==
  ASSUME IInv, NEW ok \in BOOLEAN, InsertBatch(ok)
  PROVE  IInv'
<1> USE DEF InsertBatch, jobVars, threadVars
<1>0. <<>> \in Seq(Message) /\ Len(<<>>) = 0
  BY EmptySeq
<1>1. \A i \in 1..Len(items) : items[i] \in InSeq(items)
  BY DEF InSeq
<1>2. InSeq(items) \subseteq Message
  BY Elements DEF IInv, InSeq
<1>3. \/ worker' = "finalize" /\ items' = items
      \/ worker' = "collect" /\ items' = <<>>
  BY Zenon
<1>4. TypeOK'
  <2>1. items' \in Seq(Message) /\ Len(items') =< batchSize
    <3>1. CASE items' = items
      BY <3>1 DEF IInv, TypeOK
    <3>2. CASE items' = <<>>
      BY <1>0, <3>2, JobAssumption, SMT
    <3> QED BY <1>3, <3>1, <3>2
  <2> QED BY <1>2, <1>3, <2>1 DEF IInv, TypeOK
<1>5. Phases'
  BY <1>3 DEF IInv, Phases, HasMsg
<1>6. InOrder'
  <2>1. CASE items' = items
    BY <2>1 DEF IInv, InOrder, Increasing, Precedes, HasMsg
  <2>2. CASE items' = <<>>
    <3>1. Increasing(items)'
      BY <1>0, <2>2, SMT DEF Increasing
    <3>2. \A i \in 1..Len(items') : FALSE
      BY <1>0, <2>2, SMT
    <3> QED BY <3>1, <3>2 DEF IInv, InOrder, Increasing, Precedes, HasMsg
  <2> QED BY <1>3, <2>1, <2>2
<1>7. OnItsWay'
  <2>1. CASE items' = items
    BY <2>1 DEF IInv, OnItsWay, Beyond, HasMsg
  <2>2. CASE items' = <<>>
    <3>1. \A i \in 1..Len(items') : FALSE
      BY <1>0, <2>2, SMT
    <3> QED BY <3>1 DEF IInv, OnItsWay, Beyond, HasMsg
  <2> QED BY <1>3, <2>1, <2>2
<1>8. Accounted'
  BY <1>1 DEF IInv, Accounted, Pending
<1>9. CommittedPolled' /\ CommitCoversSettled'
  BY DEF IInv, CommittedPolled, CommitCoversSettled
<1> QED BY <1>4, <1>5, <1>6, <1>7, <1>8, <1>9 DEF IInv

\* What the finalizer commits is polled and not committed yet, and precedes
\* everything that is pending.
LEMMA FinalizeFacts ==
  ASSUME IInv, worker = "finalize"
  PROVE  /\ items[Len(items)] \in Message /\ Beyond(items[Len(items)])
         /\ Len(items) \in 1..Len(items)
         /\ \A x \in Message : Pending(x) => Precedes(items[Len(items)], x)
<1>1. Len(items) \in 1..Len(items)
  <2>1. Len(items) \in Nat /\ Len(items) # 0
    BY LenProperties, EmptySeq DEF IInv, TypeOK, Phases
  <2> QED BY <2>1, SMT
<1>2. items[Len(items)] \in Message
  BY <1>1, Elements DEF IInv
<1>3. Beyond(items[Len(items)])
  BY <1>1 DEF IInv, OnItsWay
<1>4. ASSUME NEW x \in Message, Pending(x)
      PROVE  Precedes(items[Len(items)], x)
  <2>1. CASE \E i \in 1..Len(queue) : queue[i] = x
    BY <1>1, <2>1 DEF IInv, InOrder
  <2>2. CASE thread \in {"push", "handle"} /\ msg = x
    BY <1>1, <2>2 DEF IInv, InOrder, HasMsg
  <2> QED BY <1>4, <2>1, <2>2 DEF Pending
<1> QED BY <1>1, <1>2, <1>3, <1>4

\* The worker commits the last message of its batch.
LEMMA FinalizeInv ==
  ASSUME IInv, NEW ok \in BOOLEAN, Finalize(ok)
  PROVE  IInv'
<1> USE DEF Finalize, jobVars, threadVars
<1>0. <<>> \in Seq(Message) /\ Len(<<>>) = 0
  BY EmptySeq
<1>1. PICK m : m = items[Len(items)]
  OBVIOUS
<1>2. /\ m \in Message /\ Beyond(m) /\ Len(items) \in 1..Len(items)
      /\ \A x \in Message : Pending(x) => Precedes(m, x)
  BY <1>1, FinalizeFacts
<1>3. /\ committed' \in [Partition -> 0..MaxOffset]
      /\ CommittedPolled' /\ CommitCoversSettled'
      /\ \A x \in Message : Beyond(x) /\ Precedes(m, x) => Beyond(x)'
  <2>1. CASE ok
    <3>1. committed' = [committed EXCEPT ![m.part] = m.no]
      BY <1>1, <2>1 DEF CommitMsg
    <3> QED BY <1>2, <3>1, CommitFacts
  <2>2. CASE ~ok
    <3>1. committed' = committed
      BY <2>2 DEF CommitMsg
    <3> QED BY <3>1 DEF IInv, TypeOK, CommittedPolled, CommitCoversSettled, Beyond
  <2> QED BY <2>1, <2>2
<1>4. TypeOK'
  BY <1>0, <1>3, JobAssumption, SMT DEF IInv, TypeOK
<1>5. Phases'
  BY DEF IInv, Phases, HasMsg
<1>6. \A i \in 1..Len(items') : FALSE
  BY <1>0, SMT
<1>7. InOrder'
  <2>1. Increasing(items)'
    BY <1>0, SMT DEF Increasing
  <2> QED BY <1>6, <2>1 DEF IInv, InOrder, Increasing, Precedes, HasMsg
<1>8. OnItsWay'
  <2>1. \A j \in 1..Len(queue) : Beyond(queue[j])'
    BY <1>1, <1>2, <1>3, Elements DEF IInv, InOrder, OnItsWay
  <2>2. HasMsg => Beyond(msg)'
    BY <1>1, <1>2, <1>3, Elements DEF IInv, InOrder, OnItsWay
  <2> QED BY <1>6, <2>1, <2>2 DEF OnItsWay, HasMsg, Beyond
<1>9. Accounted'
  BY DEF IInv, Accounted, Pending
<1> QED BY <1>3, <1>4, <1>5, <1>7, <1>8, <1>9 DEF IInv

-----------------------------------------------------------------------------
\* Every step keeps the invariant.
LEMMA NextInv == IInv /\ [Next]_vars => IInv'
<1> SUFFICES ASSUME IInv, [Next]_vars PROVE IInv'
  OBVIOUS
<1>1. CASE Thread
  <2>1. CASE \E ok \in BOOLEAN : Handle(ok) \/ Commit(ok)
    <3>1. PICK ok \in BOOLEAN : Handle(ok) \/ Commit(ok)
      BY <2>1
    <3> QED BY <3>1, HandleInv, CommitInv
  <2> QED BY <1>1, <2>1, TestInv, PollInv, PushInv DEF Thread
<1>2. CASE Worker
  <2>1. CASE \E ok \in BOOLEAN : InsertBatch(ok) \/ Finalize(ok)
    <3>1. PICK ok \in BOOLEAN : InsertBatch(ok) \/ Finalize(ok)
      BY <2>1
    <3> QED BY <3>1, InsertBatchInv, FinalizeInv
  <2> QED BY <1>2, <2>1, TakeInv, EndBatchInv DEF Worker
<1>3. CASE Cancel
  BY <1>3, ScriptInv, ClearQueueInv DEF Cancel
<1>4. CASE Script \/ Crash
  BY <1>4, ScriptInv DEF Script
<1>5. CASE UNCHANGED vars
  <2> USE <1>5 DEF vars, jobVars, threadVars, workerVars
  <2>1. TypeOK' /\ Phases'
    BY DEF IInv, TypeOK, Phases, HasMsg
  <2> QED BY <2>1, CalmInv DEF HasMsg
<1> QED BY <1>1, <1>2, <1>3, <1>4, <1>5 DEF Next

\* The inductive invariant holds throughout.
LEMMA Invariant == Spec => []IInv
  BY InitInv, NextInv, PTL DEF Spec

\* Type correctness of the job, its queue and the broker's offsets.
THEOREM TypeCorrect == Spec => []TypeOK
<1>1. IInv => TypeOK
  BY DEF IInv
<1> QED BY <1>1, Invariant, PTL

\* A crash loses no message that was on its way: run's and subJobFinalizer's
\* commits cover only messages that are done with.
THEOREM CrashLosesNothing == Spec => []CommitCoversSettled
<1>1. IInv => CommitCoversSettled
  BY DEF IInv
<1> QED BY <1>1, Invariant, PTL

\* What was committed is not handled or inserted again.
THEOREM NoRepeat == Spec => []CommittedNotRepeated
<1>1. ASSUME IInv PROVE CommittedNotRepeated
  <2>1. thread = "handle" => msg.no > committed[msg.part]
    <3>1. SUFFICES ASSUME thread = "handle" PROVE msg.no > committed[msg.part]
      OBVIOUS
    <3>2. Beyond(msg) /\ msg \in Message
      BY <1>1, <3>1 DEF IInv, OnItsWay, Phases, HasMsg
    <3> QED BY <1>1, <3>2, MessageFacts, SMT DEF Beyond, IInv, TypeOK
  <2>2. ASSUME NEW m \in InSeq(items) PROVE m.no > committed[m.part]
    <3>1. m \in Message /\ Beyond(m)
      BY <1>1, Elements DEF IInv, OnItsWay, InSeq
    <3> QED BY <1>1, <3>1, MessageFacts, SMT DEF Beyond, IInv, TypeOK
  <2> QED BY <2>1, <2>2 DEF CommittedNotRepeated
<1> QED BY <1>1, Invariant, PTL

\* No commit moves an offset of the broker back.
THEOREM OffsetsNeverGoBack == Spec => CommitsAdvance
<1> DEFINE Advance == \A p \in Partition : committed'[p] >= committed[p]
<1>1. ASSUME IInv, [Next]_vars PROVE [Advance]_vars
  <2>1. \A p \in Partition : committed[p] \in Nat
    BY <1>1, SMT DEF IInv, TypeOK
  <2>2. CASE committed' = committed
    BY <2>1, <2>2, SMT
  <2>3. CASE \E ok \in BOOLEAN : Commit(ok)
    <3>1. PICK ok \in BOOLEAN : Commit(ok)
      BY <2>3
    <3>2. /\ msg \in Message /\ Beyond(msg) /\ queue = <<>> /\ items = <<>>
          /\ thread = "commit"
      BY <1>1, <3>1 DEF IInv, Phases, OnItsWay, HasMsg, Commit
    <3>3. \A x \in Message : ~Pending(x)
      BY <3>2, EmptySeq, SMT DEF Pending
    <3>4. CASE ok
      BY <1>1, <3>1, <3>2, <3>3, <3>4, CommitFacts DEF Commit, CommitMsg
    <3>5. CASE ~ok
      BY <2>2, <3>1, <3>5 DEF Commit, CommitMsg
    <3> QED BY <3>4, <3>5
  <2>4. CASE \E ok \in BOOLEAN : Finalize(ok)
    <3>1. PICK ok \in BOOLEAN : Finalize(ok)
      BY <2>4
    <3>2. PICK m : m = items[Len(items)]
      OBVIOUS
    <3>3. /\ m \in Message /\ Beyond(m)
          /\ \A x \in Message : Pending(x) => Precedes(m, x)
      BY <1>1, <3>1, <3>2, FinalizeFacts DEF Finalize
    <3>4. CASE ok
      BY <1>1, <3>1, <3>2, <3>3, <3>4, CommitFacts DEF Finalize, CommitMsg
    <3>5. CASE ~ok
      BY <2>2, <3>1, <3>5 DEF Finalize, CommitMsg
    <3> QED BY <3>4, <3>5
  <2>5. \/ committed' = committed
        \/ \E ok \in BOOLEAN : Commit(ok)
        \/ \E ok \in BOOLEAN : Finalize(ok)
    BY <1>1 DEF Next, Thread, Worker, Cancel, Script, Crash, TestFlag, Poll, PollNothing,
                Push, Handle, Take, EndBatch, InsertBatch, Join, StopQueue, ClearQueue,
                CreateSubJob, NewConsumer, CancelThread, vars
  <2> QED BY <2>2, <2>3, <2>4, <2>5
<1> QED BY <1>1, Invariant, PTL DEF Spec, CommitsAdvance
=============================================================================
