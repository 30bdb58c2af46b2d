----------------------------- MODULE RedisPubSub -----------------------------
(***************************************************************************)
(* A RedisConnection in subscribe mode (redisConnection.cpp): subscribe,   *)
(* unsubscribe and stopListen, called by scripts, the listener thread that *)
(* reads the connection and the handler thread that calls the script's     *)
(* callback, with msgQueue_ between them.                                  *)
(*                                                                         *)
(* Redis is external: it sends what is published on the channels that the  *)
(* connection is subscribed to, and forgets both when it is reconnected.   *)
(* channelMutex_ (which a thread may lock again) is held from the test of  *)
(* isChanged_ to the end of the reconnection, so that is one step.         *)
(* Channels are subscribed by name, not by pattern.                        *)
(* No name here is one of RedisStream, so that one module can extend both. *)
(***************************************************************************)
EXTENDS Naturals, Sequences, FiniteSets

CONSTANTS
    Channel,
    QUEUE_MSG_BATCH_SIZE,
    MaxPublished         \* bound: messages published

ASSUME PubSubAssumption ==
    /\ QUEUE_MSG_BATCH_SIZE \in Nat \ {0}
    /\ MaxPublished \in Nat

VARIABLES
    published,           \* messages published on any channel so far
    subscribed,          \* Redis: the channels of this connection
    socket,              \* Redis: what was sent and is not read yet
    channels_,           \* the set of channels
    channelStr_,         \* the channels of the command that (re)subscribes
    isChanged_, isClosed_,
    msgQueue_,
    session_,            \* subscribe has succeeded, the threads were started
    redisMutex_,         \* "free", or the call that holds it and waits
    listener,            \* where the listener is, and the message it has read
    handler,             \* where the handler is, and what it has popped
    handled              \* history: the messages the callback was called with

server == <<published, subscribed, socket>>
flags == <<channels_, channelStr_, isChanged_>>
pubSubVars == <<server, flags, isClosed_, msgQueue_, session_, redisMutex_, listener, handler, handled>>

Message == [id : 1..MaxPublished, channel : Channel]

PubSubInit ==
    /\ published = 0
    /\ subscribed = {}
    /\ socket = << >>
    /\ channels_ = {}
    /\ channelStr_ = {}
    /\ isChanged_ = FALSE
    /\ isClosed_ = FALSE
    /\ msgQueue_ = << >>
    /\ session_ = FALSE
    /\ redisMutex_ = "free"
    /\ listener = [at |-> "none", msg |-> << >>]
    /\ handler = [at |-> "none", batch |-> << >>]
    /\ handled = << >>

-----------------------------------------------------------------------------
(* The calls.                                                              *)

\* subscribe: the channels are noted before Redis is asked, and stay noted if
\* it refuses.
Subscribe(channels) ==
    /\ redisMutex_ = "free"
    /\ ~session_
    /\ channels_' = channels_ \union channels
    /\ channelStr_' = channels_'
    /\ \/ /\ session_' = TRUE
          /\ subscribed' = channelStr_'
          /\ listener' = [listener EXCEPT !.at = "top"]
          /\ handler' = [handler EXCEPT !.at = "top"]
       \/ UNCHANGED <<session_, subscribed, listener, handler>>
    /\ UNCHANGED <<published, socket, isChanged_, isClosed_, msgQueue_, redisMutex_, handled>>

\* unsubscribe up to the wait, in which it keeps redisMutex_.
Unsubscribe(channels) ==
    /\ redisMutex_ = "free"
    /\ session_
    /\ channels \subseteq channels_
    /\ channels_' = channels_ \ channels
    /\ channelStr_' = channels_'
    /\ isChanged_' = TRUE
    /\ redisMutex_' = "unsubscribe"
    /\ UNCHANGED <<server, isClosed_, msgQueue_, session_, listener, handler, handled>>

\* unsubscribe with a channel that is not subscribed: it throws, but those it
\* came to before have been erased, and the command has not been built anew.
UnsubscribeThrows(channels, before) ==
    /\ redisMutex_ = "free"
    /\ session_
    /\ channels \ channels_ # {}
    /\ before \subseteq channels \intersect channels_
    /\ channels_' = channels_ \ before
    /\ UNCHANGED <<server, channelStr_, isChanged_, isClosed_, msgQueue_, session_, redisMutex_,
                   listener, handler, handled>>

\* unsubscribe returns, or throws after 10 seconds.
UnsubscribeReturns ==
    /\ redisMutex_ = "unsubscribe"
    /\ redisMutex_' = "free"
    /\ UNCHANGED <<server, flags, isClosed_, msgQueue_, session_, listener, handler, handled>>

\* stopListen up to the joins.
StopListen ==
    /\ redisMutex_ = "free"
    /\ isClosed_' = TRUE
    /\ redisMutex_' = "stopListen"
    /\ UNCHANGED <<server, flags, msgQueue_, session_, listener, handler, handled>>

Stopped == listener.at \in {"none", "ended"} /\ handler.at \in {"none", "ended"}

\* Both threads have ended.  The caller releases the connection then.
StopListenReturns ==
    /\ redisMutex_ = "stopListen"
    /\ Stopped
    /\ redisMutex_' = "released"
    /\ UNCHANGED <<server, flags, isClosed_, msgQueue_, session_, listener, handler, handled>>

-----------------------------------------------------------------------------
(* The listener thread.                                                    *)

\* The thread ends and, as the handler does, closes the connection (DeferClose).
ListenerEnds ==
    /\ listener' = [at |-> "ended", msg |-> << >>]
    /\ isClosed_' = TRUE

Listen ==
    /\ listener.at = "top"
    /\ IF isClosed_ THEN ListenerEnds
       ELSE listener' = [listener EXCEPT !.at = "reading"] /\ UNCHANGED isClosed_
    /\ UNCHANGED <<server, flags, msgQueue_, session_, redisMutex_, handler, handled>>

\* redisGetReply has a message; isClosed_ is looked at again.
Receive ==
    /\ listener.at = "reading"
    /\ socket # << >>
    /\ socket' = Tail(socket)
    /\ IF isClosed_ THEN ListenerEnds
       ELSE listener' = [at |-> "received", msg |-> Head(socket)] /\ UNCHANGED isClosed_
    /\ UNCHANGED <<published, subscribed, flags, msgQueue_, session_, redisMutex_, handler, handled>>

\* Any other reply, or none: an error, not a message, the connection is gone.
ReceiveFails ==
    /\ listener.at \in {"reading", "reconnect"}
    /\ ListenerEnds
    /\ UNCHANGED <<server, flags, msgQueue_, session_, redisMutex_, handler, handled>>

\* Two seconds without a message: redisReconnect, which drops what was sent.
TimeOut ==
    /\ listener.at = "reading"
    /\ listener' = [listener EXCEPT !.at = "reconnect"]
    /\ subscribed' = {}
    /\ socket' = << >>
    /\ UNCHANGED <<published, flags, isClosed_, msgQueue_, session_, redisMutex_, handler, handled>>

\* A bug: the flag is left as it is.
MutResubscribe ==
    IF channelStr_ = {}
    THEN ListenerEnds /\ UNCHANGED <<subscribed, isChanged_>>
    ELSE /\ subscribed' = channelStr_
         /\ listener' = [at |-> "top", msg |-> << >>]
         /\ UNCHANGED <<isChanged_, isClosed_>>

\* The end of reconnect, under channelMutex_: no channel, no subscription.
Resubscribe ==
    IF channelStr_ = {}
    THEN ListenerEnds /\ UNCHANGED <<subscribed, isChanged_>>
    ELSE /\ subscribed' = channelStr_
         /\ isChanged_' = FALSE
         /\ listener' = [at |-> "top", msg |-> << >>]
         /\ UNCHANGED isClosed_

Reconnect ==
    /\ listener.at = "reconnect"
    /\ Resubscribe
    /\ UNCHANGED <<published, socket, channels_, channelStr_, msgQueue_, session_, redisMutex_,
                   handler, handled>>

\* A message while nothing has changed.
Push ==
    /\ listener.at = "received"
    /\ ~isChanged_
    /\ msgQueue_' = Append(msgQueue_, listener.msg)
    /\ listener' = [at |-> "top", msg |-> << >>]
    /\ UNCHANGED <<server, flags, isClosed_, session_, redisMutex_, handler, handled>>

\* A bug: the message is pushed whatever channel it is of.
MutPushChanged ==
    /\ listener.at = "received"
    /\ isChanged_
    /\ msgQueue_' = Append(msgQueue_, listener.msg)
    /\ socket' = << >>
    /\ \/ Resubscribe
       \/ ListenerEnds /\ subscribed' = {} /\ UNCHANGED isChanged_
    /\ UNCHANGED <<published, channels_, channelStr_, session_, redisMutex_, handler, handled>>

\* A message after an unsubscription: it is pushed if its channel is still
\* wanted, and the connection is made anew, which may fail.
PushChanged ==
    /\ listener.at = "received"
    /\ isChanged_
    /\ msgQueue_' = IF listener.msg.channel \in channels_
                    THEN Append(msgQueue_, listener.msg) ELSE msgQueue_
    /\ socket' = << >>
    /\ \/ Resubscribe
       \/ ListenerEnds /\ subscribed' = {} /\ UNCHANGED isChanged_
    /\ UNCHANGED <<published, channels_, channelStr_, session_, redisMutex_, handler, handled>>

-----------------------------------------------------------------------------
(* The handler thread.                                                     *)

\* The front of msgQueue_, at most n messages.
Front(n) == SubSeq(msgQueue_, 1, n)
Rest(n) == SubSeq(msgQueue_, n + 1, Len(msgQueue_))

\* A bug: the batch of before is not cleared.
MutPop ==
    /\ handler.at = "top"
    /\ ~isClosed_
    /\ \E n \in {IF Len(msgQueue_) < QUEUE_MSG_BATCH_SIZE THEN Len(msgQueue_) ELSE QUEUE_MSG_BATCH_SIZE} :
           /\ n > 0
           /\ handler' = [at |-> "call", batch |-> Front(n)]
           /\ msgQueue_' = msgQueue_
    /\ UNCHANGED <<server, flags, isClosed_, session_, redisMutex_, listener, handled>>

\* blockingPop; without a message it comes back to the test of isClosed_.
Pop ==
    /\ handler.at = "top"
    /\ ~isClosed_
    /\ \E n \in {IF Len(msgQueue_) < QUEUE_MSG_BATCH_SIZE THEN Len(msgQueue_) ELSE QUEUE_MSG_BATCH_SIZE} :
           /\ n > 0
           /\ handler' = [at |-> "call", batch |-> Front(n)]
           /\ msgQueue_' = Rest(n)
    /\ UNCHANGED <<server, flags, isClosed_, session_, redisMutex_, listener, handled>>

\* The callback returns from one message of the batch.
Handle ==
    /\ handler.at = "call"
    /\ handled' = Append(handled, Head(handler.batch))
    /\ handler' = IF Len(handler.batch) = 1 THEN [at |-> "top", batch |-> << >>]
                  ELSE [handler EXCEPT !.batch = Tail(@)]
    /\ UNCHANGED <<server, flags, isClosed_, msgQueue_, session_, redisMutex_, listener>>

\* A bug: the connection is not closed.
MutHandlerEnds ==
    /\ handler' = [at |-> "ended", batch |-> << >>]
    /\ UNCHANGED <<server, flags, isClosed_, msgQueue_, session_, redisMutex_, listener, handled>>

HandlerEnds ==
    /\ handler' = [at |-> "ended", batch |-> << >>]
    /\ isClosed_' = TRUE
    /\ UNCHANGED <<server, flags, msgQueue_, session_, redisMutex_, listener, handled>>

\* The callback throws: the thread ends, and with it the listener.
HandleFails == handler.at = "call" /\ HandlerEnds

HandlerLeaves == handler.at = "top" /\ isClosed_ /\ HandlerEnds

-----------------------------------------------------------------------------
Publish(c) ==
    /\ published < MaxPublished
    /\ published' = published + 1
    /\ socket' = IF c \in subscribed THEN Append(socket, [id |-> published', channel |-> c]) ELSE socket
    /\ UNCHANGED <<subscribed, flags, isClosed_, msgQueue_, session_, redisMutex_,
                   listener, handler, handled>>

ListenerStep == Listen \/ Receive \/ TimeOut \/ Reconnect \/ Push \/ PushChanged
HandlerStep == Pop \/ Handle \/ HandlerLeaves

PubSubNext ==
    \/ \E channels \in SUBSET Channel \ {{}} :
           \/ Subscribe(channels) \/ Unsubscribe(channels)
           \/ \E before \in SUBSET Channel : UnsubscribeThrows(channels, before)
    \/ UnsubscribeReturns \/ StopListen \/ StopListenReturns
    \/ ListenerStep \/ ReceiveFails
    \/ HandlerStep \/ HandleFails
    \/ \E c \in Channel : Publish(c)

PubSubSpec == PubSubInit /\ [][PubSubNext]_pubSubVars

\* The threads run, a read ends with a message or after two seconds, and the
\* callback returns.  Of Redis, its channels and the scripts nothing is assumed.
PubSubFairness ==
    WF_pubSubVars(ListenerStep) /\ WF_pubSubVars(HandlerStep) /\ WF_pubSubVars(StopListenReturns)
PubSubFairSpec == PubSubSpec /\ PubSubFairness

-----------------------------------------------------------------------------
PubSubTypeOK ==
    /\ published \in 0..MaxPublished
    /\ subscribed \subseteq Channel /\ channels_ \subseteq channelStr_ /\ channelStr_ \subseteq Channel
    /\ socket \in Seq(Message) /\ msgQueue_ \in Seq(Message) /\ handled \in Seq(Message)
    /\ {isChanged_, isClosed_, session_} \subseteq BOOLEAN
    /\ redisMutex_ \in {"free", "unsubscribe", "stopListen", "released"}
    /\ listener.at \in {"none", "top", "reading", "reconnect", "received", "ended"}
    /\ handler.at \in {"none", "top", "call", "ended"}
    /\ handler.batch \in Seq(Message)

\* Everything between Redis and the callback, in the order it came.
Received ==
    handled \o handler.batch \o msgQueue_
        \o (IF listener.at = "received" THEN <<listener.msg>> ELSE << >>) \o socket

\* Messages reach the callback in the order they were published, and none of
\* them twice, over every reconnection and unsubscription.
InOrder ==
    \A i, j \in DOMAIN Received : i < j => Received[i].id < Received[j].id

\* From the moment a call of unsubscribe has taken the channels out of the
\* command, no message of them gets into the queue: not one that was read
\* before, nor one that was sent before the connection was made anew.
NothingUnwanted ==
    [][\A i \in DOMAIN msgQueue_' : i > Len(msgQueue_) => msgQueue_'[i].channel \in channelStr_]_pubSubVars

\* Redis and the connection agree on the channels again, or the connection
\* is closed: the listener notices an unsubscription without any message.
ChangeIsApplied == isChanged_ ~> (~isChanged_ \/ isClosed_)

\* stopListen returns, whatever the threads are at; neither thread lives on
\* without the other; what is queued is handled unless the connection is closed.
EndTogether ==
    /\ (redisMutex_ = "stopListen") ~> (redisMutex_ = "released")
    /\ (listener.at = "ended") ~> (handler.at = "ended")
    /\ (handler.at = "ended") ~> (listener.at = "ended")
    /\ (msgQueue_ # << >>) ~> (msgQueue_ = << >> \/ isClosed_)
=============================================================================
