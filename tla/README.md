# Verification of the limit order matching engine

TLA+ models of the order book, the engine, its queues, the database journal, the
market data sink and crash recovery, the TLC runs that check them on small
instances, and TLAPS proofs about every one of them, for instances of any size. Paths below are relative to the
repository root. `PROJECT.json` maps every definition to the lines it models.

## 1. The system

| Part | State | Operations | Talks to |
|---|---|---|---|
| `OrderBook` (`src/OrderBook.cpp`) with `Order`, `LimitOrder`, `MarketOrder`, `OrderFactory` | `ownedOrders_`, `bids_`/`asks_` (price -> list of `Order*`), `orderLocation_` | `addOrder` (match, then rest or drop), `cancelOrder`, `getBestBid/Ask` | called by one thread |
| `Engine` (`src/Engine.cpp`) | the book, `tradeLog_`, `nextSeq_`, `running_`, the matching thread | `submitOrder`, `cancelOrder` (any thread), `start`, `stop`, `recover`, the matching loop | queue, journal, market data sink |
| `ThreadSafeQueue` | deque, `stopping_`, one condition variable | `push`, `pop`, `stop`, `reset` | traders -> matching thread |
| `IJournal`: `InMemoryJournal`, `NullJournal`, `PostgresJournal` | events; for Postgres two queues, `enqueued_`, `done_`, a writer thread, two condition variables, two tables | `append`, `recordTrade`, `flush`, `loadAll`, destructor | matching thread -> writer -> database |
| `RedisMarketData` | message queue, connection, publisher thread, cached keys | `onTrade`, `onTopOfBook` | matching thread -> Redis |
| `LockFreeSPSCQueue`, `ObjectPool` | ring buffer and two atomic indices; free list | `push`/`pop`; `acquire`/`release` | demo and benchmark only |
| `Trader`, `Stock`, `main`, demos, benchmark | none the engine uses | | |

A command travels: trader -> `ThreadSafeQueue` -> matching thread, which (1)
numbers it and appends its event to the journal, (2) applies it to the book, (3)
publishes the trades and the new top of book. `recover()` rebuilds a book by
replaying the journal.

What is hard here: three containers of the book that must agree while one call
changes all of them between two fills; traders, controller and matching thread
around `stop()` and restart; a writer thread that stores events and trades in
batches, later than they happened, and drops a batch that fails; a crash between
any two of these steps; condition variables that are notified after the unlock;
atomic indices read while they move; a Redis pipeline that breaks half way.
`PROJECT.json` lists the hazards at the line where each
one bites, with the properties that cover it.

## 2. The modules

| Module | Models | Kind |
|---|---|---|
| `Types` | enumerations, `Trade` | vocabulary |
| `OrderBook` | `OrderBook.cpp` and the order classes | state machine |
| `Positions` | parts of a sequence, by position | helpers |
| `Matching` | what matching means: fills as a function of the quantity offered ahead | pure definitions |
| `PriceTimePriority` | what `OrderBook.h` promises: one step per call on a list of resting orders | abstract specification |
| `OrderBookRefinement` | `OrderBook` implements `PriceTimePriority` | refinement |
| `OrderBookProofs` | the invariants of `OrderBook`, and that it implements `PriceTimePriority`, for any ids, prices and book | TLAPS |
| `Journal` | `Command`, `JournalEvent`, `applyEvent` and the replay loop | pure definitions |
| `Engine` | `Engine.cpp` over `ThreadSafeQueue` and `InMemoryJournal` | state machine, liveness |
| `ReplayProofs` | induction over numbers, sequences and finite sets; what replaying a journal of any length computes, and what `Matching` does to a book: sums of fills, no crossed book, best prices | TLAPS |
| `EngineProofs` | one stream, numbering, draining, live state = replay, published top of book, for any number of commands and recoveries | TLAPS |
| `GroupCommit` | what an asynchronous journal promises | abstract specification |
| `PostgresJournal` | `PostgresJournal.cpp` | state machine, liveness, refinement |
| `PostgresJournalProofs` | accounting, flush, destructor and the refinement of `GroupCommit`, for any number of records | TLAPS |
| `DurableEngine` | matching loop + `GroupCommit` + crash + `recover()` | composition |
| `DurableEngineProofs` | unique keys, recovery to a past state, durable stop, no fill without its event, for any number of crashes and lives | TLAPS |
| `ThreadSafeQueue` | `ThreadSafeQueue.h` with its condition variable | state machine, liveness |
| `ThreadSafeQueueProofs` | no lost wakeup, for any number of threads | TLAPS |
| `LockFreeSPSCQueue` | `LockFreeSPSCQueue.h`, one action per memory access | state machine, liveness |
| `LockFreeSPSCQueueProofs` | race freedom and FIFO, for every capacity | TLAPS |
| `RedisMarketData` | `RedisMarketData.cpp`, with Redis and the network as environment | state machine, liveness |
| `RedisMarketDataProofs` | cache, torn pairs and feed, for any number of messages, connections and lives | TLAPS |
| `MC*` | instances for TLC | |

Operators commented "Fault:" are plausible bugs of the definition that follows
them. No specification uses them; putting one in place of that definition makes
the property it is paired with in `PROJECT.json` fail.

**OrderBook.** `owned`, `levels` and `location` are `ownedOrders_`, `bids_`/`asks_`
and `orderLocation_`. `AddOrder` takes ownership, each `MatchStep` is one
iteration of `matchIncoming`, `AddOrderReturns` is the rest of `addOrder`:
filled, rested, or the remainder of a market order dropped. The two copies of the
loop in the code (BUY and SELL) are one action parameterised by the side. An order that is erased is
gone, so the status FILLED or CANCELLED it got just before is not kept. The
iterator of an `OrderLocation` is the position of the id in the list at its side and
price; a dangling pointer or iterator shows up as an id that is in a level and not in
`owned`, or in `location` and not in its level. Quantities are naturals:
`tradeQty` never exceeds either side, so `int` cannot overflow. Prices are only
compared and copied; NaN and infinities are refused by the constructor.

**Engine.** `Push` is `submitOrder`/`cancelOrder`; `Start`, `Stop`,
`StopReturns` the controller; `Recover` destroys a stopped engine and builds a
new one from the journal, which is what the tests and the demo do. `Pop`, `Exit`,
`AppendEvent`, `Apply*`, `PublishTrade`, `PublishTopOfBook` are the stages of
the matching loop; traders and the controller act between any two of them. The
book is `Matching`'s, which is justified by the refinement (checked and proved): only one thread
touches the book, so a call is atomic for everyone else. `dead` is
`std::terminate`: an exception of `addOrder` on the matching thread. The market data sink
outlives the engine, and `recover()` publishes nothing: `TopOfBookCurrent` says nothing of a
sink that is new when the engine is, until the first command.

**PostgresJournal.** An action is what a thread does under `mtx_`, or a notify or a
transaction outside it. Sleeping on a condition variable, waking for no reason
and notifying after the unlock are explicit. A transaction succeeds only if its
sequence numbers are new, and may fail for any reason; one that is committed but
reported as failed leaves the same tables and counters as a successful one. The
history variable `arrived` keeps records in the order they took the lock, and
`ImplementsGroupCommit` shows that two queues and batches amount to one ordered
stream settled group by group.

**DurableEngine.** Every life starts with `Recover` (`loadAll`, replay) and ends
with `Shutdown` after `stop()`, with `Crash` anywhere, or with `ApplyThrows`.
A transaction in progress at a crash is committed before the crash or never: one that the server
executes only after the `loadAll` of the next life is not modelled, and would meet the sequence
numbers that life gives out again.
The history variable `lived` keeps, for each n, the state the live engine
reached with commands 1..n. `RecoveredStateIsPast` compares with it, not with
another replay.

**ThreadSafeQueue.** An action is what a thread does under `mtx_`, or a notify
after it has let go. `PopTakes`, `PopSleeps` and `PopEnds` are the three ways the
predicate of `wait` can turn out, for a thread that calls `pop()` and for one
that was woken alike. There are several consumers, which the class allows and
which makes `notify_one` and `notify_all` differ; the engine has one. `Restart`
is `stop()` after its joins, followed by `start()`, which calls `reset()`.

**LockFreeSPSCQueue.** The C++ memory model where this code uses it: an atomic
index is the list of the values stored in it; an acquire load returns any store
not older than one the thread has already seen, and the writes before that store
happen before what follows the load. So a load may be stale, and `NoDataRace` is
the standard's own definition: conflicting accesses to a slot are ordered by
what was acquired, not by the interleaving TLC happened to pick. A thread reads its own
index exactly. Around the queue are the loops of `demos/concurrency_demo.cpp`:
the producer calls `push()` until it succeeds, the consumer calls `pop()` all the
time. A slot that was moved from holds any value. The indices are `size_t` and
always below `Capacity`, so they cannot overflow.

**RedisMarketData.** The matching thread queues a message and notifies; the
publisher swaps the queue out, connects, sends three commands per message and
reads as many replies. A message is its number, and a cached key remembers the
message that wrote it, which stands for the price. `Process` is Redis executing the
next command, `Refuse` an error reply, which the code frees like any other;
`PipelineBreaks` is a null reply, `ConnectFails` a reconnect and a connect that both
fail. The commands Redis has not executed when a connection breaks, or when the
process dies, are assumed lost: none of them is executed later, behind a new
connection. `lossy` is the set of messages that lost a command in any of these
ways; the properties say that nothing else goes wrong. `Construct` after
`DestroyReturns` or `Crash` is a new sink on the cache the old one left; a
constructor that throws leaves no sink and is no step.

## 3. The runs

| Run | Instance | Shows |
|---|---|---|
| `order_book` | 4 symmetric ids, 2 prices, quantity <= 2, 5 arrivals; 226k states | consistency of the maps, priority, no crossed book, no trade-through, conservation |
| `order_book_refinement` | the same with 4 arrivals; 54k states | every call returns what `Matching` defines |
| `engine` | 3 orders, two sharing an id, with their cancels, 4 commands; 198k states | one ordered stream, replay equals live state, numbering, draining, top of book; `stop()` returns, commands are taken |
| `postgres_journal` | 4 records, any interleaving; 159k states | accounting, flush and destructor are checkpoints and return, no lost wakeup, refinement of `GroupCommit` |
| `durable_engine` | 3 orders, two sharing an id, 4 commands, 3 lives; 1.1M states | recovery yields a past state, a clean stop loses nothing, unique keys, no trade without its event |
| `thread_safe_queue` | 3 producers, 3 consumers, 6 items, any number of restarts; 7k states | no lost wakeup, items are taken, `stop()` ends every consumer |
| `lock_free_queue` | capacity 4, 6 pushes of 2 values; 83k states | no data race, FIFO over the wrap, every item delivered |
| `redis_market_data` | 3 messages, sides empty or not, any faults; 429k states | the cache never goes back, is torn only by a loss, the feed repeats nothing, the destructor returns |

Bounds. Two prices and quantities up to 2 give partial fills, sweeps of a level,
sweeps across levels and prices that do not meet; five arrivals give a level of
four, cancelled in the middle, and a taker. Three lives let a second recovery
follow one that already lost something. Four records are
enough for a batch in flight, a record queued behind it, a flush between them and
another record after the flush. The engine bounds the commands journaled
over all lives, so that restarts and recoveries are not bounded themselves. Six
pushes into a ring of four go once around it, with a full queue (three items) on the
way; loads may lag behind by all of them. With three producers and three
consumers a notify can find nobody, wake a thread whose item is taken by another one, or
race `stop()`; consumers restart without bound. Three messages let a batch be in a
pipeline, another be queued behind it and a third come after a crash or a
reconnect; faults are not bounded.

Identifiers are symmetric in the runs of the book because they are only compared
for equality; no liveness is checked under symmetry. Deadlock checking is off where the system may stop:
an engine nobody calls, a journal that was destroyed, a process that is not
started again. The two queues and the sink never stop, and are checked for deadlock.

Fairness. Engine: weak fairness of the matching thread and of the return of
`join()`. Journal: weak fairness of the writer, of a thread between its unlock
and its notify, of a woken flush and of the destructor's steps. These say that
the operating system schedules a thread that can run and that a transaction ends
one way or the other (libpqxx returns or throws). Queue: the same, each consumer on its own,
since a thread that waits for a mutex gets it some time. Ring buffer: both threads
run, and strong fairness of a load that returns the latest store, which is the
standard's requirement that a store becomes visible to a thread that keeps
loading in a finite period of time. Sink: the publisher runs, and a connection attempt and a
pipeline end one way or the other; the code sets no timeout, so a peer that
keeps silent for ever is outside `DestructorReturns` (and listed as a hazard).
Callers are never obliged to
call, and spurious wakeups are never relied on. `StopTerminates` also rests on
`MaxCommands`: `pop()` drains before it looks at `stopping_`, so traders who
never pause can keep `stop()` from returning.

Four runs expect a violation; each one states what a comment or the README says:

* `flush_after_failed_commit`: `flush()` returns after its records were dropped
  (`include/IJournal.h:29`).
* `dropped_batch_in_the_middle`: a failed batch before a stored one leaves a gap, and
  recovery builds a book that never existed
  (`persistence/PostgresJournal.h:31`).
* `poisoned_log`: a submit that reuses an active id is journaled, kills the
  process, and makes every later `recover()` throw (`README.md:22`).
* `fills_missing_after_crash`: fills whose event was stored and whose trade rows were not
  never reach the trades table (`persistence/PostgresJournal.cpp:74`).

The properties of the passing runs that say what does hold in these situations
carry the condition explicitly (`~dropped`, or a process that is up).

## 4. The proofs

**The order book.** `OrderBookProofs` proves, for every set of ids and prices and every bound, with
`BookAssumption` only (`NoOrder` is not an id, prices are positive naturals, the bounds
naturals): `TypeOK`, `NoDanglingOrder`, `NoLeakedOrder`, `TimePriority`,
`Uncrossed`, `NoTradeThrough`, `RestingOrdersOpen` as invariants and
`FillsConserve` as an action property of `Spec`.

The argument is one inductive invariant, `IInv`: all of these together, plus two
facts about the middle of a call. None is inductive alone. `TimePriority`
needs that an id is in one place of one level only, which follows from
`NoDanglingOrder` with strictly increasing stamps, and that the incoming order is
younger than everything that rests (`ArrivalStamps`). `Uncrossed` is kept by
`RestInBook` because the loop has ended, and the loop ends at the first price
that is not acceptable only because `Best` is the extreme price of the map.
`NoTradeThrough` is kept because the best price moves in one direction during a
call. `IncomingOrder` says what is known of the order being matched:
owned, not resting, not more left than asked for.

The layout: lemmas on maps (`PutIsMap`, `EraseIsMap`), on levels (`WithLevelAt`,
`EraseNodeAt`, `TailAt`, `AppendAt`), on what a change of one node does to the invariant
(`RemoveNode`, `NodeAppended` and `AppendNode`, `SameNodes`), then one lemma per action, `NextInv`,
`Invariance`, and a corollary per property. `StepConserves` gives the action
property.

**Price-time priority.** `Refinement` proves `HistorySpec => ImplementsPriceTimePriority`: whatever
the book, every `addOrder` returns the trades and leaves the resting orders that `Outcome` defines
without a loop, and what throws changes nothing. The maps of the code
and the list of the abstract book are related by `IsView`: the entries of the list are those of
`orderLocation_`, oldest first, which determines the list (`ViewUnique`). The invariant for the
middle of a call is `InCall`. `Taken` is what the call has taken from each order of the book it
found; `Matched` says that it is a beginning of the outcome: the orders hit are the first ones in priority,
all are filled but possibly the last, and then nothing is left of the incoming order; `Traded`, that the
trade vector names them by rank. Three steps carry the argument:

1. An iteration hits the first order not hit yet (`MatchStepInCall`). A better price is
   excluded by `Best`, an older order at the same price by `TimePriority` (`HeadFirst`), and an order
   that was hit before and still rests would have ended the loop.
2. When the loop ends, nothing is left to fill or no order it may trade with rests (`LoopDone`).
3. Quantities like these are the ones `Fills` computes from sums (`MatchDone`): the
   condition on the quantity ahead has one solution (`FillUnique`). `OutcomeIs` adds ranks and
   remainders.

TLC found `RInv`, which combines these, to hold on the instance of `order_book_refinement` before it was proved.

**The ring buffer.** `LockFreeSPSCQueueProofs` proves `TypeOK`, `NoDataRace` and
`RingHoldsPending` for every capacity, item type and number of pushes. The
properties speak of indices, which wrap; the inductive invariant speaks of
counts. `IndicesWrap`: store n + 1 of an index is `n % Capacity`.
`Views`: the consumer never passes the last push it has acquired, the producer
never the last pop it has acquired by a full ring, and past its test each has one
slot more; this is what makes a stale load harmless, because a stale index only
shows the queue fuller to the producer and emptier to the consumer.
`Contents`: push number n is in slot `(n - 1) % Capacity` until it is popped. Two counts
less than `Capacity` apart never share a slot (`SlotsDiffer`, from lemmas on
division), so writes and reads in progress are of different slots. The power of two is
needed only for `&` to be `%`.

**The thread-safe queue.** `NoLostWakeup` proves `EveryItemHasATaker` for any finite
sets of producers and consumers. It is inductive with the types alone: a push
adds an item and a notify, a notify that finds a sleeper becomes a consumer awake,
one that finds none makes the claim empty, and a consumer sleeps or ends only
when nothing is queued. The counting uses the library's facts on cardinality.

**The database journal.** `PostgresJournalProofs` proves `TypeOK`, `Accounting`,
`FlushedIsDurable` and `DestructorDrains` for any number of records. A flush waits
for a count, and the property is about records: the inductive invariant has to say
which records a count stands for. `Placed`: as long as no transaction has failed,
the oldest `settled` records are in the tables, the next `BatchCount` in the batch, the
others in the queues; this survives two queues because a batch takes both whole.
`Counted`: `done_` lags behind the transactions by exactly the batch that is
committed and not yet accounted for, and no flush has returned ahead of it.
`Threads`: `stopping_` is set exactly when the destructor has begun, the batch is
empty outside a transaction, and a writer that has ended left no work.

`Refinement` proves `Spec => ImplementsGroupCommit`: one ordered log, settled group by
group, implemented by two queues, a batch and counters. `Placed` says nothing once a
transaction has failed, so the refinement has an invariant of its own, `Ordered`: the
queues are the events and the trades of the records behind the batch, and
the batch those of the next `BatchCount` records, with or without failures. Each action is then
shown to be a step of `GroupCommit` (a record, a commit or a drop of one whole batch, a
flush that returns) or a stutter.

**Induction and replay.** `recover()` is a loop over a journal of any length, and the selection
of events from a log is a count of positions; both need induction. The library's
induction theorems take a predicate as parameter, which these provers do not instantiate.
`ReplayProofs` goes around that with `NatSetInduction`, induction for a *set* of numbers, from
the well-foundedness of `<`: the predicate becomes a set defined in the proof that uses it. With it the
recursion of `Replay` is shown to have a solution, and only one (`RunExists`, `RunsAgree`), which
gives `IterateZero`, `IterateNext` and `IterateSame`. `SelectAppend` and `SelectConcat` say what selecting from a longer sequence gives.
From these follow `ReplayAppend` (one more event is applied to the result so far),
`OrderSurvives` (an order comes back from its event unchanged, market orders included:
this is where a kind or price lost in the conversion would show), `ReplayedSubmit`,
`ReplayedCancel`, `ReplayedThrow` and `ReplayState`. They need of an order only that it is
one `createOrder` builds: positive quantity, positive price for a limit order, none for
a market order.

**The engine.** `EngineProofs` proves `TypeOK`, `SingleOrderedStream`, `SequenceContiguous`,
`StopDrains` and `LiveStateIsReplay` for any orders, any number of commands and any sequence of starts, stops
and recoveries. `Stream` relates the queue and the journal to the history of pushes;
the command between `pop()` and `append()` is in neither, so `Logged` counts without it and
the invariant has to name it (`cmd = pushed[taken]`). Numbering survives `Recover` because
`MaxSeq` of a journal without gaps is its length (`MaxSeqIsLength`). `Control`: there is a
matching thread exactly while the engine runs or `stop()` is joining it, and it ends only
for a `stop()`, which gives `Drained`: it leaves only an empty queue behind.
`LiveStateIsReplay` needs a second invariant, `LInv`, on top of the first: the applied part of
the journal replays, without throwing, to the book and to the trades published and still to
publish (`Live`); while a command is between `append()` and `addOrder()` it is the last event
of the journal (`InHand`), so that applying it and replaying its event are the same
function of the same book.

**Crash recovery.** `DurableEngineProofs` proves all four invariants of the `durable_engine` run
for any set of orders (`DurableAssumption`: orders `createOrder` can build), any number of
commands and lives. The subject of all of them is `Stream`: the events in the table
followed by the ones handed over and not settled. A commit leaves it as it is, a
failed transaction takes a piece out of the middle, a crash takes off the end.

1. `KInv`, whatever fails: `Stream` rises in sequence number and stays below `nextSeq_`
   (`Keys`), and who holds what when (`Control`). `recover()` continues above the largest
   stored number, which bounds the rest because the table itself rises, so that `loadAll`
   returns it as it is (`LoadAllRising`). This gives `KeysNeverCollide`, after dropped batches too.
2. `Faithful`, as long as nothing was dropped: `Stream` is numbered from 1 without a gap, for
   every prefix of it `lived` holds the state its replay gives (`History`), and a
   running engine is the replay of `Stream`, less the event it is about to apply
   (`Present`). The quantifier over prefixes is what a crash needs: it may leave any of
   them. It covers an event that will throw: it is in `Stream` and changes nothing. This
   gives `RecoveredStateIsPast`, and with `settled = Len(log)` after `flush()` also
   `StoppedIsDurable`.
3. `Accounted`, as long as nothing was dropped: wherever the pending records are cut, the
   trades before the cut occur at most as often as replaying the events before it makes
   them (`Sound`), since a trade is handed over after the event it came from and replay
   never takes a trade back. A transaction only moves the cut. This gives
   `TradesFollowEvents`.

**Matching and the top of book.** `TopCurrent` proves `TopOfBookCurrent`: the sink has been told
the best prices, and they never meet. That needs what matching does to a book of any size.
`Fills` sums over sets, so the first lemmas are about sums: `SumUnfold` and the ones after it say
what adding, removing or raising an element does, by induction over subsets
(`SubsetInduction`, for a set of sets, like `NatSetInduction`). Then the argument of price-time
priority: in every set of orders of one side one is first and one last (`First`); what an
order is filled with follows from the quantity ahead of it (`FillAt`); the fills never exceed
the incoming quantity (`NotOverfilled`); and if an eligible order keeps quantity, nothing is left of the
incoming one, because the first order with quantity left takes the rest (`AllFilled`). So a
limit order that rests meets nobody it could have traded with (`OutcomeNotCrossed`). `TopOfBook`
gives the extrema. `TInv` adds to it that the top told is that of the book whenever the loop
is between two commands.

**Market data.** `RedisMarketDataProofs` proves `CacheIsLatest`, `TornOnlyByLoss` and `FeedAtMostOnce`
for any number of messages, broken pipelines, crashes and new sinks. The properties say what
Redis holds; what makes them inductive is where everything else is. `InOrder`: each message is in
the queue or in the batch, the batch is older than the queue, and the commands in flight are in the
order of the messages, bid before ask. `Behind`: Redis has nothing of what is still to come, so
the next command is always news to its key, to the feed and to the counter; this is
what a resend after a reconnect, or a pipeline processed behind a new one, would break, and
for the keys it is part of `CacheIsLatest` itself. `Paired`: of a
message whose ask is in flight the bid is in flight, processed or lost. `Effects` reduces
the actions of the sink to six effects on this state, and each conjunct is proved once per
effect. The pipeline, a fold over the batch, is handled by induction like the replay loop.

Only model-checked: liveness (out of the prover's reach, with fairness and ENABLED).

## 5. Plan

1. *Done*: order book, its abstract specification and proofs; engine; database
   journal with its abstract specification; crash recovery.
2. *Done*: `ThreadSafeQueue` with its condition variable, `LockFreeSPSCQueue` with
   stale loads, `RedisMarketData`; proofs about both queues, the
   stream of `Engine` and the checkpoints of `PostgresJournal`.
3. *Done*: induction over journals; live state = replay; `PostgresJournal` implements
   `GroupCommit`; the four invariants of `DurableEngine`.
4. *Done*: the three safety properties of `RedisMarketData`; what `Matching` does to a book of any
   size, and with it the published top of book; the order book implements `PriceTimePriority`.

## 6. Not modelled

`Trader`, `Stock`, `main`, the demos, the benchmark and the SIMD demo (no state of the
system); `printBook` and logging; time stamps and trader ids, which are stored
and never read; statistics counters (`commandsSent_` too); `setOnTrade` callbacks (user code run by the
matching thread, which sees what the log gets); a null order passed to
`submitOrder`, which is dereferenced before the check in `addOrder`; an engine
that is recovered without being fresh; `ObjectPool`, a sequential free list that
only the benchmark uses: its one hazard, a slot lost when a constructor throws, is
in the list of hazards, and a state machine would restate two vector operations.
