# TLA+ models of the DolphinDB plugins

This directory holds TLA+ specifications of the parts of DolphinDBPlugin whose
correctness depends on threads, ordering, failures or boundaries, the TLC
configurations that check them on small instances, and proofs, checked by TLAPS, of
their main properties for all values of the constants. Paths without a prefix are
relative to the repository's root; `include/` is the shared code of the plugins.

Contents:
1. The system: parts, state, interactions
2. The modules and how they correspond to the code
3. The runs: what they check, bounds, fairness
4. The proofs
5. Assumptions, and what is not modelled
6. Plan

To repeat a run: `tlc -config ThreadedQueuePlain.cfg MCThreadedQueue`; a proof:
`tlapm ThreadedQueueProofs.tla`. `PROJECT.json` lists the runs, the mutants (a
deliberate bug for each property, which the run must find), the source lines behind
each definition, the hazards and the theorems.

## 1. The system

DolphinDBPlugin is a collection of some forty-five shared libraries that are loaded
into the DolphinDB server. Each exports functions to the database's script language.
Most wrap a third-party client or file library. What they have in common is a small
runtime of headers under `include/`, compiled into each plugin.

### The shared runtime

| Part | State | Operations | What is hard, what must hold |
|---|---|---|---|
| `GenericBoundedQueue` (`include/Concurrent.h:590-800`) | a bounded queue, a mutex, two condition variables | `push`, `blockingPush` (with and without a timeout), `pop` of one and of several, `blockingPop`, `removeItem`, `clear` | Notifications are edge-triggered: `push` notifies only when the queue becomes non-empty, a pop only when it stops being full, `clear` never. Nobody may stay asleep next to what he waits for. |
| `ThreadedQueue` (`include/ddbplugin/ThreadedQueue.h`) | a `GenericBoundedQueue`, a worker thread, plain fields `stopFlag_`, `status_` | `push`, `start`, `stop`, `getStatus`, the worker's loop in two modes, `setError` | Three kinds of threads share unlocked fields. Messages must reach the table once and in order, or be counted as failed; `stop` must return and must not strand a blocked producer; the status must be right. |
| `Persistence` (`include/ddbplugin/Persistence.h`) | three files: snapshot, temporary, backup | constructor for writing and for reading, `commit`, serialization | A crash or failed call between any two file operations must not lose the last committed snapshot, nor show a part of one. |
| `BackgroundResourceMap`, `ResourceMap` (`include/ddbplugin/Plugin.h:616-1038`) | tables from handles and names to objects | `safeAdd`, `safeGet`, `safeGetByName`, `safeRemove`, `clear` | Look-ups that take the lock twice, destruction of objects under the lock, handles that outlive their object, the flag `inDestruction_`. |
| `SynchronizedQueue`, `BoundedBlockingQueue` (`include/Concurrent.h`) | an unbounded queue; a ring buffer | push, pop, timed pop, batch pop | Edge-triggered notification with batch pops; ring indices at the wrap. |
| `checkSeqNum` (end of `ThreadedQueue.h`) | the last sequence number per channel | one check per message | A gap must be reported once and must close the channel. |
| Host headers (`include/CoreConcept.h`, ...) | - | - | Declarations of the server; `LocklessContainer.h` is the lock-free hash map `UniqueID` uses. |

### The plugins with logic of their own

| Part | State | Interaction with the runtime | What is hard |
|---|---|---|---|
| `UniqueID` | a registry of id generators, an atomic counter in each | its handles are bare addresses; the lock-free map of the host | A compare-exchange loop, overflow at the maximum, stale handles whose address is used again. |
| `MatchingEngine` (`book/`, derived from liquibook) | bids, asks, stop orders, deferred all-or-none orders, callbacks; the depth: open quantity by price | called by an `Exchange` per symbol, under its mutex | Matching with all-or-none and immediate-or-cancel conditions, price-time priority; orders that expire are found late; iterators kept across erasures; a depth that is summed up from callbacks. |
| `TCPSocket` | a socket thread per subscription job | feeds a `ThreadedQueue`; jobs live in a `BackgroundResourceMap` | `stop` stops the queue before the thread that feeds it, and joins a thread that may be blocked in a read. |
| `kafka` | subscription jobs; offsets at the broker and positions of consumers | `ThreadedQueue` in throttle mode with a finalizer that commits offsets | Only the last message of a batch is committed, and batches mix partitions; a crash, a cancel or a new consumer must not lose or repeat what was committed. A cancel joins a thread that may be blocked in a push. |
| `zmq` | subscription threads | `ThreadedQueue` in throttle mode; `setError` from the receiving thread, as in `TCPSocket` | As `TCPSocket`. |
| `nsq`, `insight`, `amdQuote` | vendor SDK callbacks, several queues each | `ThreadedQueue`, `checkSeqNum`, `BackgroundResourceMap` | Login handshakes on condition variables without a predicate. |
| `redis` | stream subscriptions by name, each with a reader thread; a connection in subscribe mode with a listener and a handler thread | handles live in a `BackgroundResourceMap`, messages pass through a `SynchronizedQueue` | Pending entries, NOACK and the XACK must fit together over failures and restarts; `unsubscribe` is carried out by another thread that must notice it; a stop joins threads that block in a read. |
| `mqtt`, `aws`, `opc` | task queues in front of a client library | `SynchronizedQueue` | Mostly the library's behaviour. |
| `mqtt5`, `pulsar`, `opcua`, `httpClient` | connections of a client library | `ResourceMap` (`pulsar`) | Mostly the library's behaviour. |
| Database connectors, file formats, numeric and utility plugins | none across calls | - | Conversion of types; no concurrency and no protocol. |

Messages flow as follows. A thread of the plugin or of a vendor's SDK receives a
message and calls `ThreadedQueue::push`, which blocks in `GenericBoundedQueue` when
the queue is full. The worker thread pops a batch, converts it to columns and appends
it to a table with one call (`extractHelper`), then calls the finalizer if there is
one. A script function, in a third thread, calls `start`, `stop` and `getStatus`.
The jobs themselves are found through a resource map.

`PROJECT.json` names every part with its status, and every hazard found in the code
at its line, with the properties that cover it or the reason none does yet.

## 2. The modules

    GenericBoundedQueue          the monitor: its critical sections as operators
      QueueClients               any threads calling any method      (closed system)
      ThreadedQueue              producers, worker, controller       (closed system)
        MCThreadedQueue          + INSTANCE DeliveryPipeline         (refinement)
    DeliveryPipeline             abstract specification of ThreadedQueue
    Persistence                  the snapshot protocol
    UniqueID                     the id generators
    ResourceMap                  BackgroundResourceMap and the sessions that use it
    KafkaJob                     a kafka subscription job, its broker and crashes
    OrderBook                    the matching engine
      DepthOrderBook             the depth of it, from its callbacks and publications
    RedisStream                  stream subscriptions of the redis plugin, Redis and crashes
    RedisPubSub                  a redis connection in subscribe mode: listener and handler
    QueueClientsProofs, ThreadedQueueProofs, ResourceMapProofs, KafkaJobProofs
    UtilityProofs                proofs about Persistence and UniqueID
    OrderBookProofs              proofs about OrderBook
      DepthOrderBookProofs       proofs about DepthOrderBook
    RedisProofs                  proofs about RedisStream and RedisPubSub

`MCQueueClients`, `MCUniqueID` and `MCResourceMap` only add symmetry sets for TLC,
`MCOrderBook` and `MCDepthOrderBook` also the sets of orders that are submitted. A definition named
`Mut...` stands for a plausible bug of the definition that follows it; no
specification uses it.

**GenericBoundedQueue.** Every method holds `mutex_` throughout and gives it up only
in `ConditionalVariable::wait`, so each critical section is one step. `full_` and
`empty_` are the sets of threads asleep on the condition variables of these names. A
thread that has left the set tests its `while` condition again, which for this class
is the same code as entering the method; so a blocked call is a thread that may try
again whenever it is not asleep. `LeaveWait` is a wait that ends without a notify: a
time-out or a spurious wake-up. Every instantiation in the repository passes a sizer
that returns 1 and a functor `Mandatory` that returns false, so `size_` is the length
of the queue and the mandatory branch does not occur.

**QueueClients.** One action per public method. `blocked[t]` is the call in which
thread `t` sleeps or has been woken. A timed call that expires still has to get the
mutex back (`TimeOut`, then `ReturnFalse`). The history variable `stranded` remembers
the producers that `clear` left asleep and that nobody has notified since.

**ThreadedQueue.** One action per atomic stretch of code between two accesses to
shared state:

| Thread | Actions |
|---|---|
| producer `p` | `Push(p)`: the test of `stopFlag_`; `BlockingPush(p)`: `queue_.blockingPush` |
| worker | `Loop` (the while test, `items.clear()`), `PopFirst`, `TimeOut`, `PopFailed` (break or continue), `ReadSize` (the unlocked `queue_.size()`), `Fill` (the second pop), `Again` and `Popped` (throttle mode), `Count` and `StoreCount` (the read and the write of an unlocked `+=`), `Insert`, `Finalize`, `Catch` and `StoreFailed` (the same for the failed count) |
| controller | `Start` and `StartThread` (the two resets of `start`, one after the other); `Stop`, `Join`, `StopPop`, `StopClear`: the five lines of `stop` |

The variable `worker` is the worker's program counter; `popSize`, `size` and `batch`
are its locals (`batch` is `items`). Time is one bit, `elapsed`: whether
`currentTime - startTime >= timeout_`. In the source the refresh of `currentTime` is
meant to be deferred to the end of each iteration but the `PluginDefer` is a temporary
and runs at once; the model follows the code, so the loop's condition sees the time at
which the iteration began. Messages are numbers in the order of the calls of `push`.
`accepted` is the history of what `blockingPush` queued and `fate[i]` what became of
the `i`-th of them: inserted, failed, uncommitted (inserted, but the finalizer threw),
or discarded by `stop`. `start` may be called on a running queue, as `nsq` does when it
subscribes again; it then resets the counters under the worker's hands. The history `torn`
remembers that such a start met a batch which the worker had begun to count, or a failure
between its two resets, until the next `start`.

**DeliveryPipeline** is what the plugins rely on: messages are settled in the order
of acceptance, each once; while the pipeline is open, in batches of at most
`bufferSize_` that share a fate; only a closed pipeline discards. `open` is mapped to
"there is a worker thread". The mapping shows that `stop` discards nothing before it
has joined the worker, and that a late push, which passed the test of `stopFlag_`
before `stop` set it, may still be accepted while the pipeline is closed.

**Persistence.** The three files are records of a version and of whether the file is
complete. Each action is one system call with its possible failure. `Crash` may come
between any two. A reader object may overlap the writer and, as in the code, removes
the temporary file it finds. A rename fails when its source is gone, and the written
bytes then reach no name. `Close` is the flush and the close whose results
`Serializer::close` ignores (`Persistence.h:68-73`): if they fail, the file is a part, and
`commit` renames it all the same.

**UniqueID.** Creation and destruction run under `spinlock_` and are one step each.
`newId` is three: the look-up, which copies a shared pointer, the load of the counter,
and one attempt of the weak compare-exchange, which may fail spuriously. A handle is
a bare address: destroyed generators leave stale handles, and an address can be used
again once no call holds its shared pointer. `Wrap` is the signed overflow of `long`.

**ResourceMap.** A session makes an object, registers it under a name (`SafeAdd`,
which may be refused), passes its handle on, looks objects up and removes them. The
two tables are `resourceMap_` and the `BiMap` `nameMap_`. `safeGetByName` takes the
lock twice, so it is two steps (`GetHandleByName`, `SafeGet`) between which anything
may happen. An object lives as long as the map or a call holds its smart pointer;
its address is free after that and may be the address of a later object, while
sessions keep old handles for ever.

**KafkaJob.** The thread of `AppendTable::run` is `TestFlag`, `Poll` or `PollNothing`,
then `Push` with `msgAsTable`, or `Handle` and `Commit` without. The worker of the
queue is `Take` and `EndBatch` (it collects a batch until it is complete or its time
has passed), `InsertBatch` and `Finalize`. Of `ThreadedQueue` only what
`DeliveryPipeline` promises is used: order, batches of one fate, discarding after the
worker is gone. `Join`, `StopQueue` and `ClearQueue` are the steps of a cancel.
`committed` belongs to the broker and survives `Crash`; `position` belongs to the
consumer, which a later job may use again or replace (`NewConsumer`). `settled` is the
history of the messages that are done with: inserted, counted as failed, or thrown
away by a cancel. `commitMsg` moves the offset of one partition to just behind one
message, or fails.

**OrderBook.** `Exchange::append` holds a mutex and `callback_now` runs before a call
returns, so `Add`, `Cancel` and `Replace` are one step each. Inside the step the code's
functions are operators on a book record `b` (registry, sides, trackers, market price,
queued callbacks): `AddTo` is `add`, `Match` is `match_order`, which visits the entries of
the other side in turn with `VisitRegular` or `VisitAon` (the bodies of the loops of
`match_regular_order` and `match_aon_order`), `TryCreateDeferredTrades` and
`CheckDeferredAons` are the functions of these names, `Trade` is `create_trade`, `Rest` the
end of `add_order` and `Accept` the end of `add`. The loops of the code are recursive
functions of the position in what they go through, so that proofs can use them. The
multimaps are sequences of ids, the most liquid first. `Deliver` is what `Exchange` does
with the callbacks: it writes them to the `Order` objects (`report`). `order` and `report`
are kept for the orders in the registry and for those the last call has ended, which
is what a listener can compare after a call. Expired orders leave the book lazily, when
something looks at them, so the clock is a step of its own (`Expire`). `undefined` records
that the code has read freed memory: the cancel of an expired order uses an iterator
that `find_on_market` has erased (`ReadFreed`), and the model follows both outcomes, that
the old contents are still there and that nothing more is known. `Adding`, `Cancelling`
and `Replacing` take what a derived class does in its callbacks as a parameter; for
`OrderBook` itself that is nothing (`Ignore`).

**DepthOrderBook.** The class overrides the callbacks of `OrderBook` and never looks at
the book. `TellCall` is `callback_now` for the callbacks of one call and `Tell` is
`perform_callback`: the depth comes first (`OnAccept`, `OnFill`, `OnCancel`, which use
`AddOrder`, `FillOrder`, `CloseOrder` and `ReduceOrder`, the functions of `Depth`), then the
order listener, which is skipped when the depth throws; the exception is caught and the next
callback follows. So what the listener heard (`heard`) is kept apart from what the book
queued (`report`). A side is an array of `SIZE` visible levels and a map of the excess ones;
`InsertBefore` and `EraseSlot` shift the array with the assignment of `DepthLevel`
(`Assign`), which leaves the flag `is_excess_` where it is; at first the flags are
whatever the memory held (`DepthInit`). `find_level` for a price without a level returns the
end of the side, and the caller writes there (`Missing`, `wild`); the model stops then.
`Publish` is `on_order_book_change`, at the end of each call, of which a replace has two:
it writes the visible levels out if the depth has changed. Two histories say where the depth
may part from the book: `spoilt` has the prices at which an order timed out (there is no
`on_timeout`) or an immediate-or-cancel order was filled in part beside another order (its
cancel names the whole quantity); `depth_.torn` says that `close_order` has thrown after it
had taken an order off the count of a level, and nothing was published since.

**RedisStream.** The manager's mutex is held from `Stop` to `Joined`, because
`removeSubscription` joins the reader under it; every other call of the manager waits.
The reader is `ReadPending` (XREADGROUP with id 0, before the loop), then `ReadNew`,
`AppendTable` and, for pending entries with `autoAck`, `AckMessages`. `Fail` stands for any
error reply or exception; `ReplyLost` and `AckLost` for a connection that breaks after
Redis has carried the command out. `LosePeer` is a peer that goes away without a notice: the
connection has no time-out (`connect`, line 168), so the reader stays in its command (`lost`)
until the system reports an error, if it does. Redis is `added`, `delivered` and `pendingList`: what a group
was given, and what each of its consumers has not acknowledged. It survives `Crash`,
as does the output table (`copies`).

**RedisPubSub.** `Subscribe` starts two threads. The listener is `Listen` (the test of
`isClosed_`), `Receive` or `TimeOut`, `Push` or, after an unsubscription, `PushChanged`, and
`Reconnect`; the handler is `Pop`, `Handle` for each message, `HandlerLeaves`. Each ends in
`DeferClose`, which sets `isClosed_` and so ends the other one (`ListenerEnds`, `HandlerEnds`). A
reconnection drops what Redis had sent (`socket`). `redisMutex_` is held by a call that
waits: `unsubscribe` polls a flag for ten seconds, `stopListen` joins both threads.

## 3. The runs

| Run | Instance | Properties |
|---|---|---|
| `queue_clients` | 3 threads, capacity 2, 2 items, batches of 1 and 2 | `NoLostWakeup` |
| `tq_plain` | 2 producers, capacity 2, batch 2, 4 pushes, 2 starts, fairness | `TypeOK`, `NoLostWakeup`, `StaleBound`, `ImplementsPipeline`, `StopReturns` |
| `tq_throttle` | throttle mode with a finalizer, 1 producer, capacity 2, batch 2, 4 pushes, 2 starts, fairness | `NothingLostOrReordered`, `StatusHonest`, `EveryPushReturns`, `Delivery` |
| `persistence` | 4 saves | `LatestSurvives`, `ReadableWhenQuiet` |
| `unique_id` | 2 sessions, 2 addresses, 2 names, a small `long` | `DisjointIds`, `NoOverflow`, `RegistryConsistent` |
| `resource_map` | 3 sessions, 2 addresses, 2 names | `MapsAgree`, `HandleReachesItsObject` |
| `kafka_job` | 2 partitions of 2 messages, queue of 2, batches of 2, fairness | `CommitCoversSettled`, `CommittedNotRepeated`, `CommitsAdvance`, `CancelReturns`, `PolledIsSettled` |
| `order_book` | 3 ids; limit and market orders of 1 and 2, some IOC, some expiring | `RegistryMatchesBook`, `EventsMatchBook`, `CostWithinLimit`, `NothingLeftToMatch`, `PriceTimePriority` |
| `depth_book` | 3 ids, 3 prices, 2 visible levels with any flags; ordinary, all-or-none, IOC, expiring, hidden and market orders; one spoilt price, 4 calls in which or after which the depth has thrown | `AllOrNone`, `NothingLeftToMatch`, `DepthMatchesBook`, `PublishedIsCurrent` |
| `redis_stream` | 2 consumers, 3 entries, 2 subscriptions, 2 lost peers, batches of 2, fairness | `NothingLost`, `NoAckAtMostOnce`, `PendingFirst`, `UnsubscribeStreamReturns`, `EntriesAreTaken` |
| `redis_pubsub` | 2 channels, 3 messages, batches of 2, fairness | `InOrder`, `NothingUnwanted`, `ChangeIsApplied`, `EndTogether` |
| `order_book_aon_market` | 4 ids; all-or-none market orders of 3 | `AllOrNone`, violated |

The type invariants of the other modules are definitions that the proofs state for all
values of the constants (section 4); they are not run a second time.

*What they show.* The edge-triggered notifications of the queue lose no wake-up; the
one exception is `clear`, after which a producer may sleep next to an empty queue until
the queue has been full and popped again. `ThreadedQueue::stop` calls `pop` before
`clear`, and this pop is what makes a single producer safe (`NoLostWakeup`,
`EveryPushReturns`; the mutant `MutStopWithoutPop` strands it). With several producers
on one queue the pop wakes all of them, one may refill the queue, another go back to
sleep, and the clear then strands it until the queue is started and full again; the
properties state this exception and do not claim more. A message pushed by a call that
passed the test of `stopFlag_` in time can stay in a stopped queue and be delivered
after the next `start`; there is at most one per producer (`StaleBound`). The counters
of `getStatus` add up between batches (`StatusHonest`), unless `start` is called on a
running queue and meets a batch that the worker has begun to count, or a failure between its
two resets. `persistence` shows that what was last committed is on disk under one of its two
names, and whole unless its flush failed; a commit that was cut leaves the whole snapshot
before it as the backup, until the next save.

`kafka_job` shows that a job with auto commit delivers at least once: whatever a crash
finds in the queue or in the worker's batch is above the committed offset, and nothing
at or below it is inserted again. "Done with" includes failed batches, which the
commit of the next batch passes over, and what a cancel throws away. `resource_map`
shows that a handle kept by a script never reaches an object other than its own,
although its address may be in use again: the copies of a handle share one resource,
and `safeRemove` resets the address in it.

`order_book` and `depth_book` show that after every call the registry is what the two
sides hold, that the events reported add up to the book, that no limit is exceeded, that
priority is kept, and that everything that could trade has: in particular that the
second look at passed-over all-or-none orders (`check_deferred_aons`) is enough. An
all-or-none order with a limit is never filled in part. As long as no order that rests with
the others of its price times out or is an immediate-or-cancel order filled in part, the depth, which
sees nothing but the events, is the aggregate of the book by price, throws nothing, and the
listener hears every event. After that it goes wrong at that price, and the run says how far:
until it throws, all other prices agree; it may throw, and then listener and depth miss
events; but its visible levels stay the best ones in order, and the last publication is what is
visible now, with the exceptions below.

`redis_stream` shows the two guarantees between which `autoAck` chooses. Without it,
nothing is lost: an entry that was given to a subscription is in the table or pending for
its consumer, whatever fails, and the next subscription that reads pending entries gets
it before any new one. With it (NOACK) an entry is inserted at most once, and lost if the
parser fails. `unsubscribeStream` returns, unless the peer is lost while the thread waits for
its reply; new entries are read as long as the peer is there. `redis_pubsub` shows that an unsubscription takes effect without any
message arriving, that none of the abandoned channels' messages gets into the queue
after it, and that the threads end together.

*A disagreement.* For all-or-none orders without a limit this fails, and
`order_book_aon_market` finds it in four calls. In a new book, let a market sell and two
limit sells of 1 rest, and submit an all-or-none market buy of 3. `match_aon_order` passes
over the first two and finds 3 with the last; `try_create_deferred_trades` counts 2 units
in the two, "at least" the 2 it needs (`order_book.h:789`); but between two market orders
in a book that has not traded there is no price and `create_trade` returns 0, the second
trade goes through, and the buy has been filled with 1 of 3 and rests. A market price
that is set when the book is created would exclude it, but `Exchange` never calls
`set_market_price`.

*Observed while modelling.* These are not runs: no document of the repository says
otherwise, or the models leave the case out on purpose.

- `DepthOrderBook` has no `on_timeout`: an order that expires stays in the depth for ever
  (`spoilt`).
- The cancel of an immediate-or-cancel order names its whole quantity
  (`order_book.h:368`, with a NOTE there). If a part was filled and another order
  rests at the same price, the depth takes too much away, which later makes `close_order`
  throw "level quantity too low" (`spoilt`).
- A depth that throws does so inside `callback_now`, which catches it: the order listener
  does not hear of that event, so the output table misses a row, and a fill that was to be
  ignored is waited for (`ignore_bid_fill_qty_`), which makes later accepts throw and later
  fills look for a level that is not there. In the run this takes four calls from the first throw
  to a write behind the side.
- `DepthLevel()` leaves `is_excess_` uninitialised and the assignment does not copy it. A
  slot that is first filled by a shift keeps what was in memory. If that is true, orders added to it
  are not counted as a change, and its last order leaves the row behind, with no orders.
  `PublishedIsCurrent` exempts such slots, and `DepthMatchesBook` lets such rows stay.
- `close_order` takes the order off the count before it throws, without counting a change: the
  published row keeps the old count until the next change (`torn`).
- `Serializer::close` ignores the results of `flush` and `close`, and `commit()` renames the file:
  a full disk commits a part of a snapshot, and the next save makes that part the backup in
  place of the whole one before it.
- `StreamSubscription::connect` sets no time-out. A Redis that is lost without a notice leaves the
  reader in `recv`, and an `unsubscribeStream` waits in the join with the manager's lock held;
  then every other stream function waits as well.
- `ThreadedQueue::start` on a running queue resets two counters the worker is adding to, without a
  lock. The failed count may then exceed the count of all messages, and `getStatus` reports
  the difference as a negative number of processed ones.
- The market price in the depth table is written only when the depth changes, and may
  be out of date otherwise.
- `redis`: `subscribeStream` connects before it looks whether the name is free, and nobody
  frees the connection when it is not, or when AUTH fails. A `subscribe` that Redis refuses
  keeps its channels, and an `unsubscribe` with an unknown channel keeps the removal of
  those named before it (`UnsubscribeThrows`). With patterns the filter of
  `redisConnection.cpp:614` compares the name of the channel with the patterns. Messages
  still queued when the connection closes are dropped.
  `isClosed_ = true` after the throw (line 484) is never reached. A callback or parser that
  calls its own connection or manager waits for the lock that the joining call holds.

*Bounds.* `MaxMsg`, `MaxPublished`, `MaxStart`, `MaxSave`, `MaxGen`, `MaxOffset`, `MaxRuns`, `MaxLost`,
`MaxSpoilt`, `MaxAfter` and `MaxTimeouts` bound the number of calls or events and nothing else. `ThreadedQueue`: capacity 2 with 4 messages makes the queue full with a
producer asleep, a batch of 2 uses both pops, and a second start meets what the first
left behind. `EveryPushReturns` is about a lone producer, hence the one of `tq_throttle`;
`NoLostWakeup` and `StaleBound` need the two of `tq_plain`. `Persistence`: a save is affected
only by what the previous two left behind (snapshot and backup), so 4 saves cover a
save given up, its successor and a save after that; the theorem covers the rest.
`KafkaJob`: a batch of two holds messages of both partitions, the commit of one leaves the
other behind, a second message per partition follows a crash or a failed batch, and four
messages fill the queue while the polling thread holds one. `ResourceMap`: three sessions are the one that
looks up, the one that removes and the one that adds in between, at the freed address.
`OrderBook`: the orders may be replaced
and submitted again without end; only the ids, that is the orders in the book at the same time,
are bounded. Two prices and market orders give all the outcomes of a comparison; with
three ids an order meets two of a side, and an all-or-none order of 3 is completed by two
others, one of them deferred. `DepthOrderBook`: three prices and two visible levels make
levels shift both ways and pass between the array and the map. An order that may spoil a price
comes only where none is spoilt, and `MaxSpoilt` is 1, so that the depth is watched with one wrong
price among right ones; `MaxAfter` lets four calls see what a throw has left behind, which is
what it takes to reach a write behind the side. `RedisStream`: of three
entries a batch of two leaves one; the two subscriptions are two of one consumer, the second
reading what the first has left, or one of each; both peers may be lost. `RedisPubSub`: of three messages one can be
in the callback, one in the queue and one in the socket when a channel is given up.
`UniqueID`: two sessions race, two addresses let a generator reappear at the address
of another, and a small `MaxLong` brings the counter to its maximum. Deadlock checking
is off where the bounds on calls, or the environment's right to call nothing, let the
system stop.

*Fairness.* `WF` on each `BlockingPush(p)` and on the worker's steps: a thread that can
run is scheduled, and a mutex that is free again and again is eventually obtained. `WF`
on the steps of `start` and of `stop` once they have been called. `SF` on `TimeOut`: a spurious wake-up
sends the worker back into the wait, so the expiry is not continuously enabled; the
timed wait uses a deadline and expires in the end. Nobody is obliged to call `push`,
`start` or `stop`. `Delivery` lets a batch that is not full wait for its time to pass,
but not for ever. `KafkaJob`: `WF` on the polling thread, on the worker and on the steps of
a cancel that has begun; nobody is obliged to cancel, no message is obliged to come, and
`PolledIsSettled` excuses messages to which a crash or a new consumer goes back.
`RedisStream`: `WF` on each reader's steps and on the end of the join. That a reader in a command
goes on says that Redis answers while the peer is not lost, at the latest after the 100 ms of
BLOCK; the parser is taken to return. A reader whose peer is lost need never go on. `RedisPubSub`: `WF` on the steps of the
listener, whose reads end after two seconds, of the handler, whose pop ends after
100 ms and whose callback is taken to return, and on the end of `stopListen`. Nobody is obliged
to publish, to subscribe or to unsubscribe, and a connection may be lost at any time.

## 4. The proofs

| Module | Theorems |
|---|---|
| `QueueClientsProofs` | `TypeCorrect`, `WakeupCorrect` |
| `ThreadedQueueProofs` | `TypeCorrect`, `WakeupsKept`, `OrderKept`, `Refinement`, `StaleIsBounded`, `StatusIsHonest` |
| `UtilityProofs`, on `Persistence` | `LatestAlwaysSurvives`, `AlwaysReadableWhenQuiet` |
| `UtilityProofs`, on `UniqueID` | `IdsDisjoint`, `IdsNeverOverflow`, `RegistryAgrees` |
| `ResourceMapProofs` | `TypeCorrect`, `TablesConsistent`, `NoStaleObject` |
| `KafkaJobProofs` | `TypeCorrect`, `CrashLosesNothing`, `NoRepeat`, `OffsetsNeverGoBack` |
| `OrderBookProofs` | `TypeCorrect`, `LimitsKept`, `SidesCorrect`; under `AonPriced` also `RegistryCorrect`, `EventsCorrect`, `AllOrNoneCorrect`, `PriorityCorrect`, `NothingLeft` |
| `DepthOrderBookProofs` | `PublishedCorrect` |
| `RedisProofs`, on `RedisStream` | `TypeCorrect`, `ReadIsNotLost`, `NoAckOnce`, `PendingIsFirst`, `ThreadAndName` |
| `RedisProofs`, on `RedisPubSub` | `PubSubTypeCorrect`, `MessagesInOrder`, `UnwantedNeverQueued` |

*QueueClients.* `TypeOK /\ NoLostWakeup` is inductive. The point is the pop that ends
the fullness: it is the only one that notifies, and it suffices because `full_` gains a
member only while the queue is full.

*ThreadedQueue.* Four invariants, in layers. `Phases` says where the worker and the
controller can be at the same time (the worker lives between `start` and `join`).
`BatchFits` gives the length of the batch at each place of the worker's round; it is
why the second pop, whose size was read without the lock, cannot exceed `bufferSize_`.
`WakeInv` adds to `NoLostWakeup` what holds between the pop and the clear of `stop`: a
single producer is awake, and if it is inside a push there is room for it.
`Aligned` says, position by position, that the settled messages, the batch and the
queue are `accepted` cut in three; it is proved through four lemmas about sequences
(`ContinuesAppend`, `ContinuesTake`, `ContinuesSettled`, `ContinuesDropped`) and implies
`NothingLostOrReordered`. `Refinement` maps each step to a step of `DeliveryPipeline`
or a stutter and uses `Aligned` for the number of unsettled messages. `StaleBound` is
inductive with the first two layers: after the clear of `stop` no call passes the test
of `stopFlag_`, so a message enters the queue only as its producer leaves the set of
those inside a push, and the queue's length plus the size of that set does not grow.
For `StatusHonest`, `CountInv` says that `processedMsgCount_` is ahead of what was
settled by the length of the batch from the moment the batch is counted until it is
settled (`SettledMark` counts what a settlement adds); that the count the worker has read in the
middle of a `+=` (`loaded`) is still the one in memory; and that between the two resets of
`start` the failures of before are forgotten already (`Fails`). All this unless `torn`, which is
exactly the case in which a reset falls into an addition or between a batch's two counts.

*Persistence.* `LatestSurvives` is not inductive. `Moving` remembers that between the
test for the snapshot and the rename of it the last version is under its own name, so
that the backup may be removed; `Vacated` that from then on the name is free; `Written`
that what `commit` renames is the image of its version: whole, or a part if the flush failed.

*UniqueID.* `Watermark`: each range already issued by a generator that is still alive
lies below its counter; `GenFresh`: the generators' numbers are those of past
creations. With them a successful exchange at the value read returns a range above all
earlier ones of that generator.

*KafkaJob.* `CommitCoversSettled` is not inductive. `InOrder` says that the batch, the
queue and the message in hand are in the order of polling; `OnItsWay` that all of them
lie above the committed offset and not above the position; `Accounted` that each polled
message is settled or pending. What is committed comes before all that is pending
(`FinalizeFacts`), so everything of its partition below it is settled (`CommitFacts`).

*RedisStream.* The invariant joins eight parts. `Bounded`: what is pending, in a reader's
hand or read with NOACK was delivered. `InOneHand`: an entry read with NOACK is in no table
yet while a reader holds it, and no other reader holds it; this is what makes
`NoAckAtMostOnce` inductive. `AckAfterAppend`: what a reader is about to acknowledge is in
the table, so that the XACK, whether its reply arrives or not, loses nothing.
`PendingComesFirst`: at the append of pending entries the reader holds all that its
consumer has pending, or it is in the table; a read in progress keeps that, unless its peer is lost,
when Redis may have given entries whose reply never comes. `OneThread` says that a name without a
subscription has no reader, which a crash and a join both preserve.

*RedisPubSub.* A message is at one of five places: handled, in the batch of the handler's
call, in `msgQueue_`, in the listener's hand, or in the socket. `Way` says that within each
place, and from each place to the next ones, the messages are in the order they were
published, `Past` that all were published already; with both each move keeps the order, and
what a reconnection or the end of a session throws away leaves the rest in order. `Places`
says which of the five may hold anything in which state of the two threads. `Wanted`:
unless `isChanged_` is set, Redis and the listener hold messages of the command's channels only.
That makes `NothingUnwanted` inductive: the listener pushes without looking at `channels_` only
when `isChanged_` is not set.

*OrderBook.* A call is one step but a long computation, so there is an invariant for the
state between calls (`IInv`) and one for the inside of a call. `SoundBook` is what holds
of the book in the middle of a match of the order `in` whatever is submitted: the sides are
without repetition and hold registered and open orders of their own side, `in` excepted;
`SoundReports` that every cost is within its limit. `Agree` relates the book to what
was reported: an order that rests is `Live`, with the open quantity the events left of it,
any other is `Gone`; `Exact` is `Agree` for all orders but `in`. The reports in the middle of a
call are those that delivering the callbacks queued so far would give (`Rep`). Each
operator has a lemma, from `Fill` upwards, in the order in which the code puts them
together: `Trade`, the planned trades (`ExactPlan` says that an all-or-none order is in a plan
with all it has open or not at all), `Took`, one visit, the loop (`ScanGood`, `ScanExact`), the
retry of passed-over orders, `Rest`, `AddTo`, `CancelIn`. `Kept` says which entries and open
quantities a part of a match leaves alone. Loops are handled by `SetInduction`: the
set of the indices up to which the claim holds contains 0 and is closed under successor.

`TypeCorrect`, `LimitsKept` and `SidesCorrect` hold for all orders. The other five are
proved under `AonPriced`: an all-or-none order and an order of the other side are never both
market orders. The orders of the two passing runs satisfy it. Without it they are false, for the
reason that `order_book_aon_market` shows (section 3). It is not only the incoming order that may be
filled in part: let a market sell of 1, sells of 1 at 1 and at 2 and an all-or-none sell of 3
at 3 rest in a book that has not traded, and submit an all-or-none market buy of 3. The
deferred trades give 1 instead of 2, the resting order then gives 2 of its 3 and is
erased from its side but not from the registry, against the comment "assert traded ==
current_quantity" (`order_book.h:736`). With `AonPriced` each trade that involves an
all-or-none order has a price, so it trades what was planned.

`PriorityCorrect` is about steps: two orders of a side are compared before and after a call.
Three relations carry it through the call. `Passed` says inside the matching loop: while something of
the incoming order is left, an ordinary order with a limit that the loop has visited and not
filled is among the deferred ones of an all-or-none order, which are planned for in the order of
the side (`QueuedUp`, `Greedy`). So an order traded in a match only if no ordinary order ahead of
it with a limit is left (`ServedOn`). `Fair` and `Served` say the same of any part of a
call, the order `id` of the call excepted, and compose (`FairTransitive`, `ServedTransitive`); the
composition needs that in between what is registered rests, which is why `Exact` and with it
`AonPriced` come in. Without `AonPriced` the property is false as well: let a market sell of 1 and sells of 1 and of
2 at 1 rest, in this order and in a book that has not traded; an all-or-none market buy of 2 is filled by
the last of them alone, and the other order of price 1 stays. `Sorted` joins the inductive invariant: a side is in the order of `Before` between the
calls. With it `upper_bound` finds the place behind all equals (`InsertSorts`, `Behind`), and the
new order is ahead only of orders with a worse price. A replaced order gives up its place even if
the new terms are the old ones; the property excuses the pairs that contain it (`Replaced`).

`NothingLeft` is about everything that rests, whatever was called before. `Unmatched`, a part of
the inductive invariant, says a little more than `NothingLeftToMatch`: it includes the orders
that have expired and still rest. It is parameterised by a set of all-or-none orders that may be
matched but are still to be retried; between the calls that set is empty. Inside the loop
`Reached` says what becomes of each order that crosses with the incoming one and was visited while
something of that one is left: an ordinary order is gone, or it is among the deferred matches of
an all-or-none order; an all-or-none order is larger than what is left and among the passed-over
ones, or has another quantity than an incoming all-or-none order. The loop ends when nothing is
left or at an order, or the end, behind which no price matches (`Finished`, which needs the side
sorted: `MismatchStays`), so nothing is left for the incoming order (`Unserved`). If that is an
all-or-none order, all it could trade with is queued, and `deferred_qty_`, which is the sum of
the queued quantities (`TotalWeighs`), is less than it needs. The other orders have only left
or become smaller, an all-or-none order keeping its quantity, so what could not be matched before
cannot be matched now (`UnmatchedKept`); inserting the rest of an ordinary order makes only
the passed-over orders possible (`InsertedUnmatched`), and each `Retry` takes one of them from
the set. The sums are the community modules' `MapThenSumSet`; that it does not depend on the
order in which the elements are chosen (`TotalMinus`) and grows with the set (`TotalGrows`) is
proved by induction over the cardinality, as a set of natural numbers.
Without `AonPriced` the first step fails: a trade without a price leaves both orders.

*DepthOrderBook.* `PublishedCorrect` has no hypotheses: any orders, any flags, and also after the depth
has parted from the book and thrown. It rests on `Counted`, a relation between the depth before
and after an operation, which each operator on levels has: the change counter has moved, or a
level was torn, or each visible level that is not flagged as excess shows the same. The relation is
transitive, so the callbacks of a call have it together, and the publication at the end of
the call makes the rows current (`Shows`). `IsDepth` gives the shape that the operators need, in
particular that all levels of the map are excess. The proof uses the invariant of the order book
(`DepthStep`, `DepthBook`: a step of the depth book is one of the order book) only to know
that the queued callbacks are a sequence.

The proofs assume the named `ASSUME`s of the modules and nothing else: sizes are
natural numbers, capacities and batch sizes positive, the worker is no producer, the producers are finitely many, ranges
are positive (`uid_generate` refuses others). The bounds on calls are arbitrary natural
numbers.

*Only model-checked:* the liveness properties, because TLAPS has no support for fairness
and ENABLED here, and `DepthMatchesBook`, whose proof would have to follow the sums of open
quantities at sound prices through every callback. Every other invariant and every action property
of the passing runs has a theorem, and so has the refinement; of some the theorem is conditional, as
said above.

## 5. Assumptions and what is not modelled

- Sequential consistency. `stopFlag_` and the counters are plain fields; the models take
  every read as current. Torn reads of a `bool` or of a `long long` do not occur on the
  platforms the plugins are built for.
- The lock-free hash map behind `UniqueID` belongs to the host; its insert, find and
  erase are taken as atomic.
- One writer per engine name in `Persistence`. `DataOutputStream` is the host's; its flush may write a
  part and report an error, which `close()` ignores.
- `extractHelper` converts a batch and appends it with one call; it either succeeds or
  throws before the append. The conversion of columns is not modelled.
- `ThreadedQueue::setError`, called from the receiving threads of `zmq` and `TCPSocket`
  without a lock, is not modelled yet; it shares `failedMsgCount_` with the worker.
- `ResourceMap` models named handles. Handles that are plain `LONG` values, the table
  `ResourceMap` of the same header and `clear` at the end of the process are left out.
- `KafkaJob`: one job at a time on a consumer, the assignment of partitions does not
  change, and the library's own auto commit is off (with it on, the library may commit
  messages that are still in the queue). `~AppendTable` destroys the consumer and the
  session before the queue whose worker uses them; the model lets that worker finish,
  fail or crash with the process.
- `RedisStream`: one consumer per action name, the parser returns, and entries are acknowledged by scripts only
  when they are in the table. The table of status counts is left out.
- `RedisPubSub`: subscription by name; `isClosed_` is a plain field read as current; the
  `SynchronizedQueue` between the threads is a sequence whose push and pop are atomic.
- Parts listed as `not_modelled` in `PROJECT.json` are left out for the reason given
  there: planned, or behaviour that is a third-party library's, or sequential conversion
  code in which there is no state to check.

- `OrderBook`: stop orders are left out (the plugin's `README.md:70` calls their behaviour
  undefined), ids are unique in the book (the caller's duty: "not checked"), quantities
  fit the `int` into which `try_create_deferred_trades` narrows them, the listeners of `Exchange` do
  not throw and call nothing; an exception of the depth is modelled.
- `DepthOrderBook`: after a write behind a side (`wild`) nothing more is claimed. For the asks that is
  memory behind the vector, for the bids it is the first ask level.

Most of the repository's lines are out of reach of such models and stay uncovered: vendored code
(gnuplot, nanodbc, libsvm, rapidjson, liquibook's helpers), the host's API headers, and
conversions between column types, which make up the connectors, the file formats and the
numerical plugins. They are sequential, keep no state across calls and give a model
nothing to interleave. The map therefore covers a small share of all lines, and names only lines
that a definition stands for.

Of the code with concurrency these parts are left out: the receiving threads of `TCPSocket` and
`zmq` in front of a `ThreadedQueue` (their hazards are listed), `checkSeqNum`, the login of
`nsq`, the batching of `mqtt`, the consumer jobs of `pulsar`, and `insight`, `amdQuote`, `opc`, which
mostly drive a vendor's SDK that is not in the repository.

## 6. Plan

Done: the queue, `ThreadedQueue`, `Persistence`, `UniqueID`, `BackgroundResourceMap`, the
kafka job, the order book with its depth, and the subscriptions of redis. What would
come next, in this order:

1. `SubJob`: a receiving thread in front of `ThreadedQueue` as in `TCPSocket` and `zmq`,
   with `setError`, the order of the two stops and the join. Properties: `stop` returns
   if the peer closes; counts under the race of `setError`; nothing is pushed after the
   job is gone. It composes `ThreadedQueue`.
2. `SynchronizedQueue`, with `QueueClientsProofs` as the pattern, and
   `BoundedBlockingQueue` as a ring buffer that implements a sequence (refinement,
   proved). Property: no lost wake-up under batch pops.
3. `SeqCheck`: `checkSeqNum` against a reference definition of gaps on bounded streams.
4. The pipelined batch commands of redis, in which an error in the middle leaves replies
   unread for the next command.
5. `S3Load`: the downloader threads of `aws/src/plugin.cpp`; each object gets one row.
6. Candidates after that: `nsq` login, `mqtt` batching, `ResourceMap::clear`.

