# A TLA+ verification of event_collector

event_collector is a C++ server that accepts length-prefixed Protobuf events
over TCP, passes them through a bounded queue to a pool of workers, and writes
them to Kafka and to ClickHouse. This directory models its concurrent core in
TLA+, checks the models with TLC on small instances, and proves with TLAPS, for
every value of the constants, every safety invariant that the runs check, the
refinement of both abstract specifications, and that the composition of
`Processor` and `Storage` runs each of them as specified.

Paths below are relative to the repository.

## 1. The system

```
clients ─TCP─> Collector/Session ─try_push─> ThreadSafeQueue ─try_pop_for─> Processor workers
               (io threads)                                                 │ parse, validate
                                                                            │ RateLimiter::allow (Redis)
scraper ─HTTP─> Monitor ─loads─> Metrics <─fetch_add─ everyone              ├─ produce_to_kafka ─> librdkafka
               (io threads)                                                 └─ Storage::save ─> ClickHouse
main: constructs all of it, waits for a signal, joins the io threads, calls Processor::stop
```

| Component | State | Operations | What is hard |
|---|---|---|---|
| `ThreadSafeQueue` (include/queue.h) | `queue_`, `mtx_`, `not_empty_`, `capacity_` | `try_push`, `try_pop`, `try_pop_for` | lost wake-ups, the deadline racing a push, spurious wake-ups |
| `Storage` (src/processor/storage.cpp) | `buffer_`, `running_`, the flush thread, local batches, dead_letter.log | `save`, `periodic_flush`, `do_flush`, `write_dead_letter`, `flush_and_stop`, `~Storage` | three kinds of thread swap one buffer; flushes overlap; a retry after an insert that was applied; shutdown with a batch in hand |
| `Processor` (src/processor/processor.cpp) | worker threads, poll thread, `running_`, the Kafka producer | `worker`, `produce_to_kafka`, `dr_msg_cb`, `start`, `stop`, `~Processor` | counters updated one by one, a full producer queue, delivery reports served by several threads, drain and flush at shutdown |
| `Collector`, `Session` (src/collector/collector.cpp) | acceptor, `active_count_`, socket, timer, `cleaned_up_` | `start`, `stop`, `do_read_header`, `do_read_body`, `start_timeout`, `on_timeout`, `cleanup` | handlers of one session on two io threads, a timer expiring while a body arrives, slots given back exactly once |
| `main` (src/main.cpp) | io_context, work guard, signal set, io threads | construction, signal handler, join, `stop` | when does `io_context::run` return; what if a constructor throws |
| `Monitor` (src/monitor/monitor.cpp) | acceptor | `do_accept`, `handle_request`, `build_prometheus_text` | a snapshot of twelve counters that is not atomic; a read without timeout |
| `RateLimiter` (src/processor/rate_limiter.cpp) | a Redis key per user, one pooled connection | `allow` | fixed window, fail-open, all workers behind one connection without a timeout |
| `validate_event` (src/processor/validation.cpp) | none | one pure function of the event and the clock | boundaries; the clock is cut to seconds and read late |
| `Metrics` (include/metrics.h) | twelve atomics | `fetch_add`, `load` | relations between counters |

The components meet in four places: sessions and workers share the queue;
workers, poll thread and `stop` share the Kafka producer and, with the flush
thread, the storage; everyone shares the counters; and all handlers share one
io_context, whose outstanding work decides when the server can end.

What makes each component correct:

* queue: bounded, FIFO, no value lost or duplicated, no worker asleep while
  a value waits for it;
* storage: every saved event is in exactly one place until it is written or
  given up, the counters count each once, nothing is left behind at shutdown,
  and shutdown ends;
* processor: the counters explain each other at every moment, each message
  offered to Kafka is accounted for, Kafka's trouble never costs a row,
  `stop` leaves nothing and returns;
* collector: `active_count_` is exact and within its limit, no session leaks,
  every event read is queued or counted as dropped, the accept chain never dies,
  framing stays in step with the client;
* limiter: what passes in a window is bounded, a refusal is the user's own doing,
  the limit lifts again;
* validation: a verdict is explained by the event, the time it was sent and the
  time it waited;
* monitor: a scrape is answered, and its torn snapshot still means something;
* main: it ends after a signal, and a failed start is reported.

## 2. The modules

| Module | Models | Relation to the others |
|---|---|---|
| `BoundedQueue` | abstract: a bounded queue with atomic `Put` and `Take` | implemented by `ThreadSafeQueue` |
| `ThreadSafeQueue` | include/queue.h | refines `BoundedQueue` |
| `EventLifecycle` | abstract: the stages of an event and their counters | implemented by `Processor`, read by `Monitor` |
| `Storage` | src/processor/storage.cpp | owned by `Processor`, composed with it in `Pipeline` |
| `Processor` | src/processor/processor.cpp | uses an atomic queue, as `BoundedQueue` allows |
| `Pipeline` | `Processor` and the `Storage` it owns | composes the two modules |
| `RateLimiter` | src/processor/rate_limiter.cpp | its result is a choice in `Processor` |
| `Validation`, `Ingest` | validation.cpp; framing in collector.cpp, parsing and validation in processor.cpp | `Ingest` extends `Validation` |
| `Collector` | src/collector/collector.cpp | takes lengths as valid or not, `Ingest` has their bytes |
| `Monitor` | src/monitor/monitor.cpp | runs beside an instance of `EventLifecycle` |
| `Server` | src/main.cpp | sees the others as outstanding work |

`xProofs` extends `x` with its theorems, for every detailed module but `Server`
(`Validation` is proved about in `IngestProofs`). `MCx` extends `x` with the
symmetry or the sets its configurations use (other constants get their values in
the .cfg files). `PROJECT.json` maps each definition to the lines it models.

**ThreadSafeQueue.** One action is one critical section of `mtx_`. A call of
`try_pop_for` is `try_pop_for` up to the value or the sleep, then `Timeout` or
`Spurious` or a notification, then `Resume` or `Expire` when the thread has the
mutex again: between the two, other threads run. `pushed` and `popped` are
histories. The two overloads of `try_push` are one action. `Atomic` maps
`queue_` and `popped` to the contents and the output of `BoundedQueue`: sleeping,
waking and expiring are stutters, so each call takes effect in one step.

**Storage.** The buffer and the batches are sets of events. `pc[t]` says what a
thread does: workers `run`, the flush thread alternates `check` and `sleep`,
the main thread goes through drain, `flush_and_stop`, and `~Storage`; a thread in
`do_flush` is at `flush` (between two attempts) or `insert` (inside
`client_->Insert`) and returns to `ret[t]`. An `Insert` that throws may or may
not have been applied, because the 3 s receive timeout can pass after the server
took the rows. `clickhouse::Client` does not synchronize its callers: an
`Insert` that overlaps another (`raced`) may return normally without its rows
being in the table. The table counts rows per event, so duplicates are visible.
The dead-letter log may not open, and single writes may fail unnoticed.

**Processor.** One action is one access to shared state: a pop, one
`fetch_add`, one librdkafka call, one `save`. The queue is a sequence whose pop
is atomic, which is what `ThreadSafeQueue` establishes. Parsing, validation and
limiting are choices, and a call of the limiter may never return. The configurations (`Configs`) are all combinations of
enabled sinks the constructor can leave, including a producer without a topic;
a missing limiter is a limiter that allows everything.
The worker loop and the drain loop share their actions; they differ where the
code does (the drain has no limiter). librdkafka is external: a message
occupies the producer's queue until its report has been served; a failed report
may concern a message the broker has. `Opaques` is about `dr_msg_cb`: the code
takes its third parameter for the `Metrics*` given to `rd_kafka_produce`, while
librdkafka documents it as the opaque of the configuration, which the code does
not set. The run `processor` allows both readings; perf_report.md:38 shows counts
that the second cannot produce, so the finding about it is stated under that
reading alone. `Lifecycle` maps an event to its stage, from its place in the
queue, the label of the thread that has it, and its end in `hist.fate`, and
`metrics_` to the counters of `EventLifecycle`.

**Pipeline.** A step of a processor thread that calls into the storage is one
joint step with the action of `Storage` it calls, and a thread that is inside
`do_flush` makes no step of its own until it returns. `storage_` is destroyed
after the body of `~Processor`, as C++ orders it. Kafka is off in this
composition: `produce_to_kafka` returns at once then and it never touches
`Storage`; the interplay of Kafka and the calls of `save` is in `Processor`.

**RateLimiter.** A call takes the only connection of the pool (redis++ keeps one
by default, and its callers wait without bound), Redis runs the script as one
step, the reply comes or `eval` throws, before or after the script ran. Redis may
hang and recover at any time; the options set no timeout, so nothing throws
while it hangs. `Tick` lets keys expire, and no key goes before that: docker-compose.yml
sets no `maxmemory`, so that Redis evicts nothing. `recent` and `used` are histories of what
the counter admitted, over a sliding window that the code does not know of:
`recent[u][i]` counts what it admitted of `u` since `i` ticks ago.

**Validation, Ingest.** Of strings only the sizes are kept, of sizes only how they
compare with the limits; the header has the four little-endian digits of the
length in base `Radix` (256 in the code), and the body of frame `k` consists of
`k`s, which makes a mixture of frames visible.
`Resized` is `std::vector::resize` on the buffer that is reused. The event is
validated by a clock cut to seconds, at the moment a worker gets to it.

**Monitor.** A scrape loads the counters one by one in the order of
`build_prometheus_text` while `EventLifecycle` goes on. Only the six counters of
the lifecycle are followed. The `fetch_add`s and `load`s of the code have the
default memory order, so one total order of them is right.

**Collector.** Handlers are cut at every access to state another handler can
see. A connection's `wire` holds the pieces that complete an `async_read`:
headers with a valid length, headers with an invalid one, bodies. `Close` aborts
a pending read unless it had already completed. The number of io threads is not
limited, which allows more interleavings than two threads do, never fewer.
`BodyRead` shows what `expires_after` does: it cancels a wait that has not
expired and starts none. Sockets and timers used by two handlers at once are
undefined in Asio; the model takes every use as atomic and so covers only the
orders in which the uses can happen.

**Server.** `ops` is the outstanding work of the io_context: the two accepts,
the signal wait, sessions and scrapes, and handlers while they run.
`io_context::run` returns when the work guard is reset and `ops` is empty.

Exhausted memory (`std::bad_alloc`) and failing thread creation are not modelled
anywhere.

## 3. The runs

Passing runs, all with deadlock checking (terminal states stutter explicitly):

| Run | Instance | Shows |
|---|---|---|
| `queue` | 3 consumers, 2 values, capacity 2, 5 pushes | `WithinCapacity`, `Fifo`, `NoLostWakeup`, `ImplementsBoundedQueue` |
| `storage_safety` | 2 workers, 3 events, batch size 2 | `Conservation`, `CountersExact`, `RowsBounded`, `DestroyedIsSettled` |
| `processor` | 2 workers, 2 events, producer queue of 1, all configurations | `KafkaLedger`, `KafkaOkDelivered`, `KafkaNeverCostsStorage`, `StopLeavesNothing`, `ImplementsLifecycle`, `StopReturns`, `ReportsServed` |
| `pipeline` | 2 workers, 2 events, batch size 2 | `NoEventBetween`, `FinalAccount`, `EventuallyDone`, `ShutdownEnds` |
| `collector_safety` | 2 connections, limit 1, queue of 1, 2 frames | `ActiveCountExact`, `WithinMaxConnections`, `ReleasedIsCleanedUp`, `EventsAccounted` |
| `collector_live` | 2 connections, limit 1, 1 frame | `EndedIsReleased`, `BacklogServed`, `SilentIsClosed` |
| `ingest` | 2 frames, 8 shapes of event, 5 offsets of time and none, 3 ticks | `InStep`, `ClosedForCause`, `VerdictExplained`, `EveryFrameJudged` |
| `limiter` | 2 workers, 2 users, limit 2, a window of 2 ticks | `TwiceTheLimit`, `RefusedOnlyWhenUsedUp`, `LimitLifts`, `ConnectionReturned` |
| `monitor` | 2 events, 1 event in hand at a time, 2 scrapers | `NoPhantomBacklog`, `ScrapeAnswered` |

`queue`, `storage_safety`, `processor` and `collector_safety` also check `TypeOK`.

The bounds are the smallest at which every boundary is met. The queue fills with
two of five pushes, and three consumers allow one to be asleep, one woken and
one running. With a batch size of two and three events, a worker, the flush
thread and the main thread can each hold a batch, and a partial batch remains
for the periodic or the final flush; with two events, in `pipeline`, the batch may
be filled by either worker or by the drain, or may never fill. A producer queue of
one is full at the second event, which is polled for and retried. Two connections
at a limit of one meet the refusal, and two frames per connection meet a session
whose timer was cancelled. `ingest` scales the limits down (names of 2,
payloads of 3, an age of 4 ticks, seconds of 2) and keeps their order; with
`Radix` 2 the four digits hold lengths up to 15, and `MAX_LEN` is 13, so that a
header uses all four digits and both sides of the limit are met; the second frame
may be shorter or longer than the first. In `limiter` a window has an inner tick
boundary, so that a burst can straddle the expiry of a key, and `MaxCount` stops
the counter of a key above the limit and above 1, where its value no longer
matters.
With one event in hand (`MaxBusy`) two events are enough for a scrape to see one
of them finished and the next begun between two loads.
Named bounds: `MaxPushes`, `Events`, `MaxFrames`, `Conns`, `Sessions`, `MaxCount`,
`FirstClock`, `LastClock`.

**Fairness.** Every thread that can run is scheduled, ready handlers are run by
the io threads, timers expire, time passes, an `Insert` ends (its timeouts are 3 s
each), and `rd_kafka_flush` ends (10 s). Serving delivery reports is strongly fair
for the poll thread, because `rd_kafka_poll` serves all pending reports before it
returns, and the poll thread is in it again and again. Nothing is
assumed of clients, scrapers, Kafka, Redis or the signal. In particular Redis may
hang for ever, in `limiter` and for the workers alike: `Processor` and `Pipeline`
have no fairness for a worker inside `RateLimiter::allow` (`InAllow`), because
rate_limiter.cpp:7-16 sets no timeout. `StopReturns` and `ShutdownEnds` therefore
except a worker that stays in `allow` for ever, which `stop` joins without a bound,
and `EventuallyDone` an event that stays `HeldUp`: in the hands of such a worker, or
in the queue while all workers are such or while one is and shutdown has begun. What
is left is a strong statement: a hung call in one worker costs no other event its
end before shutdown, and never one that has been saved. Leaving out any of these
exceptions makes TLC refute the property; the one for all workers is met with one
worker or three events (`pipeline` has two of each).
The 500 ms deadline of `try_pop_for` is not fair in `queue`, so that the liveness
half of `ImplementsBoundedQueue` (a value that waits is taken) rests on
`notify_one` alone.

Runs that show a disagreement between the code and what the repository says of
it; each checks one property that TLC refutes:

| Run | The repository says | The code |
|---|---|---|
| `processor_opaque` | README.md:39, confirmed by `dr_msg_cb` | the callback's opaque is not the pointer it is taken for |
| `collector_idle` | README.md:32 "5s idle timeout" | no timer after the first event |
| `server_shutdown` | start.sh:26, graceful exit | both accept chains keep `run` from returning |

Smaller disagreements that the models contain but no run is spent on:

* concurrent inserts go through one `clickhouse::Client` that does not synchronize
  them (storage.cpp:110), and are counted as "Events stored to ClickHouse"
  (monitor.cpp:62) although rows may be missing (`raced` in `Storage`);
* "all messages delivered" (processor.cpp:138) is also logged when messages failed
  during the flush, because only the length of the queue is tested
  (processor.cpp:134);
* failing open (rate_limiter.cpp:34, so that a broken Redis does not stop the
  service) does not cover a Redis that hangs: there is no timeout, and every worker
  waits for the one connection. `ConnectionReturned` holds only up to `hung`, and
  `StopReturns`, `ShutdownEnds` and `EventuallyDone` only up to a call that hangs;
* perf_report.md:70 and 101-102 describe a Redis that evicts keys under
  `allkeys-lru`. A counter that is evicted starts again from 0 within its window, so
  `TwiceTheLimit` and its theorem say nothing of such a deployment: there the limiter
  has no bound;
* 性能测试报告.md:107-109 calls 100KB the nominal limit of a message and reports all
  such sends as successful. That is the count of the client, which gets no answer: a
  frame of 102400 bytes and more closes the session (collector.cpp:66), and a
  payload above 65536 bytes is invalid (validation.cpp:8). `ClosedForCause` and
  `VerdictExplained` have the limits as the code has them;
* validation takes the clock in whole seconds (validation.cpp:10), so an event may
  be up to a second too old, and one of the last second of the day ahead is refused;
* an event without any field has an empty serialization, and its header closes the
  connection (collector.cpp:66) instead of counting an invalid event;
* the drain of `Processor::stop` bypasses the limiter (processor.cpp:117;
  README.md:9 puts the sinks behind it);
* messages left at a flush timeout are counted neither as sent nor as failed
  (processor.cpp:136; `unreported` in `KafkaLedger`);
* a timer that has expired when a body arrives closes a connection that has just
  delivered an event, as "idle" (collector.cpp:87 and 110);
* a session that gave its slot back keeps its socket until its timer ends, so more
  than `MAX_CONNECTIONS` sockets can be open (collector.cpp:118);
* a full queue drops the event and does not block the producer (collector.cpp:88;
  README.md:35);
* writes to dead_letter.log that fail are counted as written (storage.cpp:142),
  and `total_store_fail` is never incremented;
* if the Monitor's port is taken, the stack unwinds over running worker threads
  and `std::terminate` is called instead of returning 1 (main.cpp:54 and 83-85).

`server_shutdown` means that in the deployed program `Processor::stop` is never
reached. The properties of `stop` and of `~Storage` are therefore statements
about these functions when they are called, as the tests and a repaired `main`
would.

## 4. What is proved

Every theorem holds for every value of the constants that satisfies the named
assumption of its module, which TLC evaluates in the runs. The assumptions say no
more than that sets of threads, events and connections are finite where they are
counted, that bounds are natural numbers, that a batch, a window, a second and the
base of the digits are not zero, and that the threads are different. Two say more:
`MaxCount` (`RateLimiterAssumption`) lies above the limit, so that the bound does
not hide a refusal, and the serialized size of an event (`IngestAssumption`) fits
in four digits, as Protobuf's limit of 2 GB guarantees. All proofs of invariance
have the same form: the invariant named below holds initially, each action
preserves it, and it implies the property.

* `ThreadSafeQueueProofs`: `TypeCorrect`, `CapacityRespected`, `FifoOrder`,
  `WakeupsSuffice`, `QueueIsAtomic`. Each property is inductive relative to
  `TypeOK`. For `NoLostWakeup` the argument counts: a push adds one value and, if a
  thread sleeps, one woken thread; a thread that falls asleep does so on an empty
  queue; a woken thread leaves its state only with a value or to sleep on an empty
  queue; a running thread that takes a value only lowers the left side.
  `QueueIsAtomic` is the refinement: every step maps to `Put`, to `Take` or to a
  stutter of `BoundedQueue`. It states the safety part (`Safe`); the fairness of
  `Take` is in `ImplementsBoundedQueue`, which TLC checks.
* `StorageProofs`: `TypeCorrect`, `EventsConserved`, `CountersAreExact`,
  `NothingLeftBehind`, `DuplicatesBounded`. Conservation is not inductive as stated:
  it needs that only a thread inside `do_flush` has a batch and that it returns to
  a place outside it (`FlushShape`). `DestroyedIsSettled` needs more: once the main
  thread is past the drain the workers are joined and save nothing, and once it is
  past the join the flush thread is done (`ShutdownShape`). For `RowsBounded` an
  event in a batch has no more rows than its thread has made attempts (`RowInv`).
* `ProcessorProofs`: `TypeCorrect`, `StopIsComplete`, `StorageGetsEverything`,
  `KafkaAccounted`, `OkMeansDelivered`, `PoolImplementsLifecycle`. `Shape` ties the
  label of a thread to the event it holds and says that after the join only the
  main thread holds one. `Places` says that an event is queued once, or held by one
  thread, or has its fate, and `Account` counts these places; both are needed
  because the properties speak of counters and the steps of single events. With
  `StopInv` (the queue is empty after the drain and all saved is flushed after the
  flush) this gives `StopLeavesNothing`; with `StoreInv` (what was saved is what
  passed the sinks; the balance of the counters of valid events),
  `KafkaNeverCostsStorage`. For Kafka, `KafkaPlaces` keeps the producer's queue, the
  reports and the broker apart, with one report per message, and `Ledger` is the
  balance with the sinks' events. The refinement maps each action to the action of
  `EventLifecycle` that moves its event, or to a stutter; an event's stage follows
  from `Places`, and at most `Cardinality(Workers)` are in hand since after the join
  there is one thread left.
* `PipelineProofs`: `ProcessorRuns`, `StorageRuns`, `NothingBetween`,
  `ShutdownAccounts`. The argument is compositional. Every joint step is a step of
  `Processor` and a step or a stutter of `Storage`, so that the behaviours of the
  composition are behaviours of both (the first two theorems), and the theorems of
  `ProcessorProofs` and `StorageProofs` hold of the composition through their
  instances; nothing about the inside of either is proved again. What is added is
  the link: the events `Storage` was given are the ones `Processor` counts as saved,
  and the destructor of `Storage` runs only when that of `Processor` has (`Link`),
  in a configuration with storage and without Kafka (`Config`).
* `CollectorProofs`: `TypeCorrect`, `CountIsExact`, `LimitRespected`, `NoSlotLeaks`,
  `NoEventUncounted`. `Shape` describes the accept handler's connection, when a
  session's two chains exist, and that a read chain ends only behind `cleanup`.
  Without it `fetch_sub` could run twice or for a session that never counted.
  `CountInv` adds why test and addition need not be one step: only the accept
  handler adds, so that what it tested still holds when it does. `EventsAccounted`
  is inductive relative to `Shape`.
* `IngestProofs`: `StaysInStep`, `ClosesForCause`, `VerdictsExplained`. The heart of
  the invariant is `Framing`: the unread bytes are the frames that have not been
  read, one after the other, the first without its header while its body is being
  read. It is stated with the offset of each frame (`Positions`, `Headers`,
  `Bodies`), which avoids induction over the bytes: a send appends one offset, a
  read subtracts its length from all of them. `HeaderLength` shows that four digits
  give back every length they can hold, `BodyUnique` that a body that is not empty
  belongs to one frame, and `LateClock` that the clock of the code is behind by less
  than a second, from which the verdicts follow.
* `RateLimiterProofs`: `AtMostTwice`, `RefusalsAreEarned`. `TwoKeys` is the reason
  for the factor of two: what was admitted during the last window was admitted by
  the present key, as many as it counts, or by one earlier key, which admitted at
  most the limit. It needs that `recent` is cumulative (`Cumulative`), and that keys
  end only by their expiry.
* `MonitorProofs`: `BacklogIsReal`, `CountersBalanced`. `Balanced` is the arithmetic
  of the service's counters and the events in hand; `PartialResponse` is
  `NoPhantomBacklog` for a response of which some counters are still to be loaded.
  Counters only grow, and a counter is loaded before those downstream of it, so what
  is loaded later can only make the bound looser.

Stating `Processor`'s refinement also corrected the model: an earlier form of
`Stage` had overlapping cases, of which TLC happened to evaluate the intended one.

Only model-checked: every liveness property (`StopReturns`, `ReportsServed`,
`EventuallyDone`, `ShutdownEnds`, `EndedIsReleased`, `BacklogServed`,
`SilentIsClosed`, `EveryFrameJudged`, `LimitLifts`, `ConnectionReturned`,
`ScrapeAnswered`, and the fairness in `ImplementsBoundedQueue`), since liveness
under fairness and `ENABLED` are outside the reach of the prover. `Server` has no
theorem: what it shows is a violation. Induction over data is out of reach too; no
property here needs it.

## 5. What is not modelled

* The rotation of dead_letter.log and the format of its records. A rotation within
  the second of the previous one renames over the earlier file (storage.cpp:129);
  that needs 100 MB of dead letters within a second.
* An exception from `socket_.close()` at collector.cpp:72, the one call of `close`
  without an error code: it would skip `cleanup` and leave `io_context::run` through
  the io thread. `InvalidLength` takes this close to succeed.
* Eviction of keys by Redis (see section 3).
* The text format of /metrics, logging, and the reading of the environment in
  `main`: nothing else depends on them.
* The Protobuf schema and the SQL schema beyond the sizes of fields: data without
  behaviour. Docker, CI and tests are not part of the server; of the clients only the
  frames they send are in `Ingest`.
* Kafka inside `Pipeline`, and `Collector` in one composition with the rest: the
  queue is their only connection, and `ThreadSafeQueue` and `EventsAccounted` show
  what each side of it relies on.

## 6. Plan

All safety properties that the runs check have a theorem. What could be added:

1. `Collector` with a composition in which its queue is the queue of `Processor`, so
   that an event is accounted for from the socket to the table by one theorem.
2. Action properties of the counters: that none of them ever decreases, and that a
   settled event stays settled, across `Pipeline`.
3. `Server`: a theorem that `run` does not return while an accept is pending, which
   would state the finding of `server_shutdown` for any number of sessions.
