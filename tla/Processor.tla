------------------------------ MODULE Processor ------------------------------
(***************************************************************************)
(* src/processor/processor.cpp: the worker pool that takes events out of   *)
(* the queue, parses, validates and rate-limits them and hands them to     *)
(* Kafka and to Storage; the Kafka poll thread; and Processor::stop with   *)
(* the final drain.                                                        *)
(*                                                                         *)
(* One action is one access to shared state: a pop (ThreadSafeQueue shows  *)
(* that a pop is atomic and returns nothing only from an empty queue), one *)
(* fetch_add, one librdkafka call, one Storage::save.  The outcome of      *)
(* ParseFromString, validate_event and RateLimiter::allow is a choice:     *)
(* every event is judged once.                                             *)
(*                                                                         *)
(* librdkafka is external.  A produced message occupies the producer's     *)
(* queue until its delivery report is served by a poll or a flush.  A      *)
(* message reported as failed may nevertheless have reached the broker.    *)
(***************************************************************************)
EXTENDS Naturals, Sequences, FiniteSets

CONSTANTS
  Workers,     \* threads running Processor::worker
  Poller,      \* the Kafka poll thread
  Main,        \* the thread that runs stop and ~Processor
  Events,      \* the events that may be enqueued: bounds the pushes
  NoEvent,     \* the data of a thread that works on no event
  KafkaCap,    \* queue.buffering.max.messages of the producer
  Opaques      \* what dr_msg_cb may receive as its opaque: see dr_msg_cb

ASSUME ProcessorAssumption ==
  /\ IsFiniteSet(Workers) /\ Workers # {}
  /\ IsFiniteSet(Events) /\ NoEvent \notin Events
  /\ KafkaCap \in Nat
  /\ Poller \notin Workers /\ Main \notin Workers /\ Poller # Main
  /\ Opaques \subseteq {"metrics", "null"}

Threads == Workers \cup {Poller, Main}

Counters == {"received", "parsed", "valid", "invalid", "parse_fail",
             "rate_limited", "kafka_ok", "kafka_fail"}

(* What the constructor leaves behind: each sink is on or off (disabled,   *)
(* or its initialization failed), and the topic handle may be null         *)
(* although there is a producer.  Without a rate limiter every event is    *)
(* allowed, which a rate limiter may do as well.                           *)
Configs == {c \in [{"producer_", "kafka_topic_", "storage_"} -> BOOLEAN] :
              c.kafka_topic_ => c.producer_}

VARIABLES
  cfg,         \* which of the optional parts exist
  opaque,      \* the pointer dr_msg_cb will receive
  queue_,      \* the ThreadSafeQueue
  running_,
  pc,          \* what each thread is doing
  data,        \* the event each thread is working on
  metrics_,    \* the counters total_*
  outq,        \* Kafka: messages not yet acknowledged or failed
  reports,     \* Kafka: delivery reports not yet served, <<event, success>>
  broker,      \* Kafka: messages the broker has
  unreported,  \* history: messages gone with the producer, never reported
  hist,        \* history: what happened to the events (see Init)
  crashed      \* the process died in dr_msg_cb

kafka == <<outq, reports, broker, unreported>>
env == <<cfg, opaque, running_, crashed>>
vars == <<env, queue_, pc, data, metrics_, kafka, hist>>

Init ==
  /\ cfg \in Configs
  /\ opaque \in Opaques
  /\ queue_ = <<>>
  /\ running_ = TRUE
  /\ pc = [t \in Threads |-> CASE t = Main -> "serve"
                               [] t = Poller -> IF cfg.producer_ THEN "loop" ELSE "joined"
                               [] OTHER -> "loop"]
  /\ data = [t \in Threads |-> NoEvent]
  /\ metrics_ = [c \in Counters |-> 0]
  /\ outq = {} /\ reports = {} /\ broker = {} /\ unreported = {}
  /\ hist = [pushed   |-> {},      \* events enqueued
             accepted |-> {},      \* messages rd_kafka_produce took
             fate     |-> [e \in Events |-> "none"],  \* how the event ended
             saved    |-> {},      \* events given to Storage::save
             flushed  |-> {},      \* events saved before flush_and_stop
             log      |-> "none"]  \* what stop logged about the Kafka flush
  /\ crashed = FALSE

Goto(t, l) == pc' = [pc EXCEPT ![t] = l]

(* What became of an event is recorded. *)
Note(f, e) == hist' = [hist EXCEPT ![f] = @ \cup {e}]

(* metrics_.total_c.fetch_add(1) *)
fetch_add(c) == metrics_' = [metrics_ EXCEPT ![c] = @ + 1]

(* Where a thread goes when it is done with an event: the loop of worker,  *)
(* or the drain loop of stop.                                              *)
Again(t) == IF t = Main THEN "drain" ELSE "loop"

-----------------------------------------------------------------------------
(* A session pushes an event.  The io threads are joined before stop.      *)
Enqueue(e) ==
  /\ pc[Main] = "serve"
  /\ e \notin hist.pushed
  /\ Note("pushed", e)
  /\ queue_' = Append(queue_, e)
  /\ UNCHANGED <<env, pc, data, metrics_, kafka>>

LoopOr(t, stopping) ==
  /\ t # Main
  /\ pc[t] = "loop"
  /\ Goto(t, IF stopping THEN "joined" ELSE IF t = Poller THEN "polling" ELSE "pop")
  /\ UNCHANGED <<env, queue_, data, metrics_, kafka, hist>>

(* Mutant of CheckRunning: the poll thread loops for ever. *)
PollerIgnoresRunning(t) == LoopOr(t, ~running_ /\ t # Poller)

(* while (running_), in worker and in the poll thread. *)
CheckRunning(t) == LoopOr(t, ~running_)

(* Takes the front of the queue, or goes on at l if there is none. *)
PopOr(t, l) ==
  /\ \/ /\ queue_ = <<>>
        /\ Goto(t, l)
        /\ UNCHANGED <<queue_, data>>
     \/ /\ queue_ # <<>>
        /\ data' = [data EXCEPT ![t] = Head(queue_)]
        /\ queue_' = Tail(queue_)
        /\ Goto(t, "received")
  /\ UNCHANGED <<env, metrics_, kafka, hist>>

(* Mutant of Pop: does not test whether a value was returned. *)
PopUnchecked(t) == t \in Workers /\ pc[t] = "pop" /\ PopOr(t, "received")

(* queue_.try_pop_for(500 ms) in worker. *)
Pop(t) == t \in Workers /\ pc[t] = "pop" /\ PopOr(t, "loop")

-----------------------------------------------------------------------------
(* The path of one event, in worker and in the drain loop of stop.         *)

(* A step that changes nothing but the place of the thread. *)
Skip(t, l) == Goto(t, l) /\ UNCHANGED <<env, queue_, data, metrics_, kafka, hist>>

(* A step that only counts c and moves on. *)
Count(t, c, l) ==
  /\ fetch_add(c)
  /\ Goto(t, l)
  /\ UNCHANGED <<env, queue_, data, kafka, hist>>

(* A step that counts c and is done with the event. *)
Drop(t, c) ==
  /\ fetch_add(c)
  /\ hist' = [hist EXCEPT !.fate[data[t]] = c]
  /\ data' = [data EXCEPT ![t] = NoEvent]
  /\ Goto(t, Again(t))
  /\ UNCHANGED <<env, queue_, kafka>>

Received(t) == pc[t] = "received" /\ Count(t, "received", "parse")

(* ParseFromString *)
Parse(t) ==
  /\ pc[t] = "parse"
  /\ \/ Drop(t, "parse_fail")
     \/ Count(t, "parsed", "validate")

(* Mutant of Validate: an invalid event is counted and goes on. *)
InvalidGoesOn(t) ==
  /\ pc[t] = "validate"
  /\ \/ Count(t, "invalid", "limit")
     \/ Count(t, "valid", IF t = Main THEN "produce" ELSE "limit")

(* validate; the drain loop goes straight to Kafka, without the limiter. *)
Validate(t) ==
  /\ pc[t] = "validate"
  /\ \/ Drop(t, "invalid")
     \/ Count(t, "valid", IF t = Main THEN "produce" ELSE "limit")

(* if (rate_limiter_ && !rate_limiter_->allow(evt.user_id())) *)
Allow(t) == pc[t] = "limit" /\ Skip(t, "produce")

RateLimited(t) ==
  /\ pc[t] = "limit"
  /\ Drop(t, "rate_limited")

-----------------------------------------------------------------------------
(* produce_to_kafka.                                                       *)

KafkaOn == cfg.producer_ /\ cfg.kafka_topic_

(* rd_kafka_produce accepts a message only while its queue has room; it    *)
(* may also refuse one for a reason of its own (error).                    *)
ProduceOk(t) ==
  /\ Cardinality(outq) + Cardinality(reports) < KafkaCap
  /\ outq' = outq \cup {data[t]}
  /\ Note("accepted", data[t])
  /\ Goto(t, "save")
  /\ UNCHANGED <<env, queue_, data, reports, broker, unreported>>

Produce(t) ==
  /\ pc[t] = "produce"
  /\ \/ ~KafkaOn /\ Skip(t, "save")
     \/ KafkaOn /\ ProduceOk(t) /\ UNCHANGED metrics_
     \/ KafkaOn /\ Skip(t, "poll")

(* rd_kafka_poll returns: in produce_to_kafka and in the poll thread. *)
PollReturns(t) ==
  /\ pc[t] \in {"poll", "polling"}
  /\ Skip(t, IF t = Poller THEN "loop" ELSE "retry")

(* Mutant of Retry: also counts the failure that the retry repaired. *)
RetryCountsTwice(t) ==
  /\ pc[t] = "retry"
  /\ \/ ProduceOk(t) /\ fetch_add("kafka_fail")
     \/ Count(t, "kafka_fail", "save")

(* The second rd_kafka_produce. *)
Retry(t) ==
  /\ pc[t] = "retry"
  /\ \/ ProduceOk(t) /\ UNCHANGED metrics_
     \/ Count(t, "kafka_fail", "save")

SaveIf(t, stores) ==
  /\ pc[t] = "save"
  /\ hist' = [hist EXCEPT !.fate[data[t]] = "sunk",
                          !.saved = IF stores THEN @ \cup {data[t]} ELSE @]
  /\ data' = [data EXCEPT ![t] = NoEvent]
  /\ Goto(t, Again(t))
  /\ UNCHANGED <<env, queue_, metrics_, kafka>>

(* Mutant of Save: stores only what Kafka took. *)
SaveOnlyIfProduced(t) ==
  SaveIf(t, cfg.storage_ /\ (KafkaOn => data[t] \in hist.accepted))

(* if (storage_) storage_->save(data); the event is done. *)
Save(t) == SaveIf(t, cfg.storage_)

-----------------------------------------------------------------------------
(* Kafka delivery, as the code observes it.                                *)

(* The broker acknowledges a message. *)
Deliver(e) ==
  /\ e \in outq
  /\ outq' = outq \ {e}
  /\ reports' = reports \cup {<<e, TRUE>>}
  /\ broker' = broker \cup {e}
  /\ UNCHANGED <<env, queue_, pc, data, metrics_, unreported, hist>>

(* Delivery fails; only the acknowledgement may have been lost. *)
DeliveryFails(e) ==
  /\ e \in outq
  /\ outq' = outq \ {e}
  /\ reports' = reports \cup {<<e, FALSE>>}
  /\ broker' \in {broker, broker \cup {e}}
  /\ UNCHANGED <<env, queue_, pc, data, metrics_, unreported, hist>>

(* Mutant of dr_msg_cb: does not look at rkmsg->err. *)
CountsEveryReportOk(r) ==
  /\ opaque = "metrics"
  /\ fetch_add("kafka_ok")
  /\ UNCHANGED crashed

(***************************************************************************)
(* dr_msg_cb.  It takes its opaque parameter for the Metrics pointer that  *)
(* rd_kafka_produce was given.  librdkafka documents that parameter as the *)
(* opaque of the configuration, which this code never sets (the pointer    *)
(* given to rd_kafka_produce is in rkmsg->_private): with a null pointer   *)
(* the fetch_add kills the process.  Opaques says which of the two a run   *)
(* considers.                                                              *)
(***************************************************************************)
dr_msg_cb(r) ==
  \/ /\ opaque = "metrics"
     /\ fetch_add(IF r[2] THEN "kafka_ok" ELSE "kafka_fail")
     /\ UNCHANGED crashed
  \/ /\ opaque = "null"
     /\ crashed' = TRUE
     /\ UNCHANGED metrics_

ServeAt(t, labels) ==
  /\ pc[t] \in labels
  /\ \E r \in reports :
       /\ reports' = reports \ {r}
       /\ dr_msg_cb(r)
  /\ UNCHANGED <<cfg, opaque, running_, queue_, pc, data, outq, broker, unreported, hist>>

(* Mutant of ServeReport: no poll thread, the workers poll when they must. *)
NoPollThread(t) == ServeAt(t, {"poll", "flush"})

(* A thread inside rd_kafka_poll or rd_kafka_flush serves one report. *)
ServeReport(t) == ServeAt(t, {"poll", "polling", "flush"})

-----------------------------------------------------------------------------
(* Processor::stop and ~Processor.                                         *)

(* stop: running_ = false. *)
StopBegins ==
  /\ pc[Main] = "serve"
  /\ running_' = FALSE
  /\ Goto(Main, "join")
  /\ UNCHANGED <<cfg, opaque, crashed, queue_, data, metrics_, kafka, hist>>

JoinAll(threads) ==
  /\ pc[Main] = "join"
  /\ \A t \in threads : pc[t] = "joined"
  /\ Skip(Main, "drain")

(* Mutant of JoinThreads: does not wait for the workers. *)
JoinsPollerOnly == JoinAll({Poller})

(* All of threads_ are joined. *)
JoinThreads == JoinAll(Workers \cup {Poller})

(* Mutant of Drain: the queue is not drained. *)
NoDrain == pc[Main] = "drain" /\ Skip(Main, "flush_storage")

(* while (queue_.try_pop(data)) *)
Drain == pc[Main] = "drain" /\ PopOr(Main, "flush_storage")

(* if (storage_) storage_->flush_and_stop(); *)
FlushStorage ==
  /\ pc[Main] = "flush_storage"
  /\ hist' = [hist EXCEPT !.flushed = hist.saved]
  /\ Goto(Main, IF cfg.producer_ THEN "flush" ELSE "stopped")
  /\ UNCHANGED <<env, queue_, data, metrics_, kafka>>

(* rd_kafka_flush returns 0: the producer's queue is empty. *)
FlushDone ==
  /\ pc[Main] = "flush"
  /\ outq = {} /\ reports = {}
  /\ hist' = [hist EXCEPT !.log = "all messages delivered"]
  /\ Goto(Main, "stopped")
  /\ UNCHANGED <<env, queue_, data, metrics_, kafka>>

(* The 10 s are over: rd_kafka_purge(F_QUEUE) fails the messages that are  *)
(* not in flight.  Their reports are queued, but nobody polls any more.    *)
FlushTimeout ==
  /\ pc[Main] = "flush"
  /\ outq # {} \/ reports # {}
  /\ \E purged \in SUBSET outq :
       /\ outq' = outq \ purged
       /\ reports' = reports \cup (purged \X {FALSE})
  /\ hist' = [hist EXCEPT !.log = "forcing purge"]
  /\ Goto(Main, "stopped")
  /\ UNCHANGED <<env, queue_, data, metrics_, broker, unreported>>

(* ~Processor: rd_kafka_destroy drops what is left, without reports. *)
Destroy ==
  /\ pc[Main] = "stopped"
  /\ unreported' = outq \cup {r[1] : r \in reports}
  /\ outq' = {}
  /\ reports' = {}
  /\ Goto(Main, "destroyed")
  /\ UNCHANGED <<env, queue_, data, metrics_, broker, hist>>

(* The end of the process. *)
Ended == (crashed \/ pc[Main] = "destroyed") /\ UNCHANGED vars

-----------------------------------------------------------------------------
EventStep(t) ==
  \/ Received(t) \/ Parse(t) \/ Validate(t) \/ Allow(t) \/ RateLimited(t)
  \/ Produce(t) \/ Retry(t) \/ Save(t)

ThreadStep(t) == CheckRunning(t) \/ Pop(t) \/ EventStep(t) \/ PollReturns(t)

StopStep ==
  JoinThreads \/ Drain \/ FlushStorage \/ FlushDone \/ FlushTimeout \/ Destroy

Next ==
  \/ /\ ~crashed
     /\ \/ \E e \in Events : Enqueue(e) \/ Deliver(e) \/ DeliveryFails(e)
        \/ \E t \in Threads : ThreadStep(t) \/ ServeReport(t)
        \/ StopBegins
        \/ StopStep
  \/ Ended

Spec == Init /\ [][Next]_vars

(* t waits for RateLimiter::allow to return. *)
InAllow(t) == pc[t] = "limit"

(***************************************************************************)
(* Every thread is scheduled, and a poll serves the reports it finds       *)
(* before it returns to its caller again and again (strong fairness of     *)
(* serving, for the poll thread, which is in rd_kafka_poll infinitely      *)
(* often).  A call of allow need not return: rate_limiter.cpp sets no      *)
(* timeout, and Redis may hang for ever.  Nothing forces Kafka to deliver, *)
(* an event to arrive, or a signal to start the shutdown.                  *)
(***************************************************************************)
Fairness ==
  /\ \A t \in Threads : WF_vars(~crashed /\ ~InAllow(t) /\ ThreadStep(t))
  /\ SF_vars(~crashed /\ ServeReport(Poller))
  /\ WF_vars(~crashed /\ StopStep)

FairSpec == Spec /\ Fairness

-----------------------------------------------------------------------------
PCs == {"serve", "loop", "pop", "joined", "received", "parse", "validate", "limit",
        "produce", "poll", "retry", "save", "polling", "join", "drain",
        "flush_storage", "flush", "stopped", "destroyed"}

(* The labels at which a thread holds an event. *)
Working == {"received", "parse", "validate", "limit", "produce", "poll", "retry", "save"}

Fates == {"none", "parse_fail", "invalid", "rate_limited", "sunk"}

Histories ==
  [pushed : SUBSET Events, accepted : SUBSET Events, fate : [Events -> Fates],
   saved : SUBSET Events, flushed : SUBSET Events,
   log : {"none", "all messages delivered", "forcing purge"}]

(* The events that have passed both sinks. *)
Sunk == {e \in Events : hist.fate[e] = "sunk"}

TypeOK ==
  /\ cfg \in Configs
  /\ opaque \in Opaques
  /\ queue_ \in Seq(Events)
  /\ running_ \in BOOLEAN
  /\ pc \in [Threads -> PCs]
  /\ data \in [Threads -> Events \cup {NoEvent}]
  /\ \A t \in Threads : data[t] \in Events <=> pc[t] \in Working
  /\ metrics_ \in [Counters -> Nat]
  /\ outq \subseteq Events /\ broker \subseteq Events /\ unreported \subseteq Events
  /\ reports \subseteq Events \X BOOLEAN
  /\ hist \in Histories
  /\ crashed \in BOOLEAN

At(labels) == Cardinality({t \in Threads : pc[t] \in labels})

(* The stage of the event of a thread at label l, as EventLifecycle tells it. *)
HeldStage(l) ==
  CASE l = "received" -> "taken"
    [] l = "parse" -> "received"
    [] l = "validate" -> "parsed"
    [] OTHER -> "valid"

(* How far event e has come. *)
Stage(e) ==
  LET holders == {t \in Threads : data[t] = e}
  IN  IF holders # {} THEN HeldStage(pc[CHOOSE t \in holders : TRUE])
      ELSE IF \E i \in 1..Len(queue_) : queue_[i] = e THEN "queued"
      ELSE IF e \in hist.pushed THEN hist.fate[e] ELSE "new"

Lifecycle ==
  INSTANCE EventLifecycle WITH
    MaxBusy <- Cardinality(Workers),
    stage <- [e \in Events |-> Stage(e)],
    count <- [c \in {"received", "parsed", "parse_fail", "valid", "invalid", "rate_limited"}
                |-> metrics_[c]]

(***************************************************************************)
(* The workers, the drain of stop and a crash in dr_msg_cb together        *)
(* implement EventLifecycle: every event takes the stages in order and     *)
(* once, each stage is counted in the step that enters it, and no more     *)
(* events are in hand than there are workers, the drain included.          *)
(***************************************************************************)
ImplementsLifecycle == Lifecycle!Spec

(***************************************************************************)
(* Each event offered to Kafka is in exactly one place: on its way, in a   *)
(* report nobody has served, counted as ok or as failed, or gone with the  *)
(* producer.  No report is counted twice although workers, the poll thread *)
(* and stop all serve reports.                                             *)
(***************************************************************************)
KafkaLedger ==
  ~crashed =>
    metrics_["kafka_ok"] + metrics_["kafka_fail"]
      + Cardinality(outq) + Cardinality(reports) + Cardinality(unreported)
    = IF KafkaOn THEN Cardinality(Sunk) + At({"save"}) ELSE 0

(***************************************************************************)
(* An event is counted as sent only once the broker has it (the comment on *)
(* dr_msg_cb, processor.cpp:152), whatever failed before.                  *)
(***************************************************************************)
KafkaOkDelivered ==
  metrics_["kafka_ok"] + Cardinality({r \in reports : r[2]}) <= Cardinality(broker)

(***************************************************************************)
(* Trouble with Kafka never keeps an event from the storage: an event that *)
(* is past both sinks has been saved, if there is a storage.               *)
(***************************************************************************)
KafkaNeverCostsStorage ==
  cfg.storage_ =>
    Cardinality(hist.saved) + At({"limit", "produce", "poll", "retry", "save"})
      = metrics_["valid"] - metrics_["rate_limited"]

(***************************************************************************)
(* When stop has returned, no event is left in the queue or in the hands   *)
(* of a worker, and everything saved has been flushed: no worker saved     *)
(* after flush_and_stop.                                                   *)
(***************************************************************************)
StopLeavesNothing ==
  pc[Main] \in {"stopped", "destroyed"} =>
    /\ queue_ = <<>>
    /\ hist.flushed = hist.saved
    /\ Cardinality(hist.pushed) =
         metrics_["parse_fail"] + metrics_["invalid"]
           + metrics_["rate_limited"] + Cardinality(Sunk)

(***************************************************************************)
(* Processor::stop returns and ~Processor runs, whatever Kafka does: the   *)
(* poll thread and the workers see running_, and the flush is bounded.     *)
(* The one exception is a worker that never comes back from allow, which   *)
(* the join of stop waits for without a bound.                             *)
(***************************************************************************)
StopReturns ==
  pc[Main] = "join" ~>
    \/ pc[Main] = "destroyed" \/ crashed
    \/ \E w \in Workers : []InAllow(w)

(***************************************************************************)
(* While the service runs, every delivery report is served by the poll     *)
(* thread, without any event arriving that would make a worker poll.       *)
(***************************************************************************)
ReportsServed ==
  \A r \in Events \X BOOLEAN : r \in reports ~> r \notin reports \/ ~running_ \/ crashed

-----------------------------------------------------------------------------
(* What the repository says of this component and the code does not keep.  *)

(***************************************************************************)
(* README.md:39 has Kafka deliveries confirmed by dr_msg_cb: a delivery    *)
(* report that was served has been counted.                                *)
(***************************************************************************)
ServedReportIsCounted ==
  Cardinality(broker) <= metrics_["kafka_ok"] + metrics_["kafka_fail"]
                           + Cardinality(reports) + Cardinality(unreported)
=============================================================================
