------------------------------- MODULE Pipeline -------------------------------
(***************************************************************************)
(* Processor composed with the Storage it owns: what processor.cpp does at *)
(* each of its calls into storage_ is one joint step of the two modules.   *)
(*                                                                         *)
(* A thread that calls save or flush_and_stop may have to run do_flush     *)
(* before the call returns; until then it makes no step of its own, so a   *)
(* slow ClickHouse holds up a worker, the drain of stop, or both.  storage_*)
(* is a member of Processor and is destroyed after the body of ~Processor. *)
(*                                                                         *)
(* The configuration is that of a service with ClickHouse and no Kafka:    *)
(* produce_to_kafka returns at once and touches nothing of Storage.        *)
(***************************************************************************)
EXTENDS Naturals, Sequences, FiniteSets

CONSTANTS Workers, Poller, Flusher, Main, Events, NoEvent, KafkaCap, Opaques, BATCH_SIZE

VARIABLES
  cfg, opaque, queue_, running_, pc, data, metrics_, outq, reports, broker,
  unreported, hist, crashed,                        \* of Processor
  buffer_, flushing_, at, ret, batch, retry, raced, table, acked, dead,
  unwritten, lost, saved, store_metrics_            \* of Storage

P == INSTANCE Processor

(* storage_: its running_ and the places of the threads in it. *)
S == INSTANCE Storage WITH running_ <- flushing_, pc <- at, metrics_ <- store_metrics_

ASSUME PipelineAssumption ==
  P!ProcessorAssumption /\ S!StorageAssumption /\ Flusher # Poller

processor == <<cfg, opaque, queue_, running_, pc, data, metrics_, outq, reports, broker,
               unreported, hist, crashed>>
storage == <<buffer_, flushing_, at, ret, batch, retry, raced, table, acked, dead,
             unwritten, lost, saved, store_metrics_>>
vars == <<processor, storage>>

Init ==
  /\ P!Init
  /\ S!Init
  /\ cfg.storage_ /\ ~cfg.producer_

(* t is inside do_flush, called from save or flush_and_stop. *)
InStorage(t) == t # Poller /\ at[t] \in {"flush", "insert"}

(* What the next step of Processor's thread t does to the storage. *)
StorageCall(t) ==
  CASE pc[t] = "save" -> S!save(t, data[t])
    [] pc[t] = "loop" /\ t \in Workers /\ ~running_ -> S!WorkerExits(t)
    [] pc[t] = "join" -> S!StartDrain
    [] pc[t] = "flush_storage" -> S!flush_and_stop
    [] OTHER -> UNCHANGED storage

(* A thread of Processor makes a step, with the call into Storage it makes. *)
ThreadStep(t) ==
  /\ ~InStorage(t)
  /\ P!ThreadStep(t) \/ (t = Main /\ P!StopStep)
  /\ StorageCall(t)

(* A session pushes an event, or main calls stop. *)
Around ==
  /\ P!StopBegins \/ \E e \in Events : P!Enqueue(e)
  /\ UNCHANGED storage

(* do_flush in any thread, and the flush thread. *)
FlushStep(t) == S!FlushStep(t) /\ UNCHANGED processor

PeriodicFlush == (S!CheckRunning \/ S!WakeUp) /\ UNCHANGED processor

(* ~Processor destroys its member storage_. *)
DestroyStorage ==
  /\ pc[Main] = "destroyed"
  /\ S!StopFlusher \/ S!JoinFlusher
  /\ UNCHANGED processor

Ended == at[Main] = "destroyed" /\ UNCHANGED vars

Next ==
  \/ \E t \in P!Threads : ThreadStep(t)
  \/ Around
  \/ \E t \in S!Threads : FlushStep(t)
  \/ PeriodicFlush
  \/ DestroyStorage
  \/ Ended

Spec == Init /\ [][Next]_vars

(***************************************************************************)
(* Every thread is scheduled; an Insert returns or throws (connect, send   *)
(* and receive time out after 3 s) and the sleep of the flush thread ends. *)
(* A call of RateLimiter::allow need not return: it has no timeout.        *)
(* Nothing forces an event to arrive or the shutdown to begin.             *)
(***************************************************************************)
Fairness ==
  /\ \A t \in P!Threads : WF_vars(~P!InAllow(t) /\ ThreadStep(t))
  /\ \A t \in S!Threads : WF_vars(FlushStep(t))
  /\ WF_vars(PeriodicFlush)
  /\ WF_vars(DestroyStorage)

FairSpec == Spec /\ Fairness

-----------------------------------------------------------------------------
Held == Cardinality(buffer_) + Cardinality(S!InFlight)

(* What the counters of /metrics and the log say of saved events. *)
Settled == store_metrics_.total_stored + store_metrics_.total_store_dead + Cardinality(lost)

(***************************************************************************)
(* At every moment, across both components and all their threads, a valid  *)
(* event that was not rate-limited is in the hands of one thread of        *)
(* Processor, in the buffer or one batch of Storage, stored, dead-lettered *)
(* or lost with a dead_letter.log that did not open.                       *)
(***************************************************************************)
NoEventBetween ==
  metrics_["valid"] - metrics_["rate_limited"]
    = P!At({"limit", "produce", "poll", "retry", "save"}) + Held + Settled

(***************************************************************************)
(* After the whole shutdown the counters account for every event a session *)
(* pushed, the lost ones excepted, and neither component holds any: no     *)
(* order of drain, flush_and_stop and ~Storage leaves one behind.          *)
(***************************************************************************)
FinalAccount ==
  at[Main] = "destroyed" =>
    /\ Held = 0
    /\ Cardinality(hist.pushed) = metrics_["parse_fail"] + metrics_["invalid"]
                                    + metrics_["rate_limited"] + Settled

(* e was dropped by a worker or is settled in Storage. *)
Done(e) == hist.fate[e] \in {"parse_fail", "invalid", "rate_limited"} \/ e \in acked \cup S!GivenUp

(* What a Redis that hangs can do to e: its worker waits in allow; or it   *)
(* is queued while all workers do, or while one does and stop has begun,   *)
(* so that the join keeps the drain from starting.                         *)
HeldUp(e) ==
  \/ \E w \in Workers : P!InAllow(w) /\ data[w] = e
  \/ /\ \E i \in 1..Len(queue_) : queue_[i] = e
     /\ \/ \A w \in Workers : P!InAllow(w)
        \/ ~running_ /\ \E w \in Workers : P!InAllow(w)

(***************************************************************************)
(* Every pushed event gets its end, also when no further event arrives to  *)
(* fill its batch and when shutdown begins at any moment.  The one         *)
(* exception is an event that is held up for ever by calls of allow that   *)
(* do not return; such a call in one worker harms no event that is saved,  *)
(* nor, before shutdown, any event but its own while another worker works. *)
(***************************************************************************)
EventuallyDone == \A e \in Events : e \in hist.pushed ~> Done(e) \/ []HeldUp(e)

(***************************************************************************)
(* A shutdown that has begun ends, with every thread joined: stop waits    *)
(* for workers that may be inside do_flush, ~Storage for the flush thread. *)
(* The one exception is a worker that never comes back from allow.         *)
(***************************************************************************)
ShutdownEnds ==
  ~running_ ~> at[Main] = "destroyed" \/ \E w \in Workers : []P!InAllow(w)
===============================================================================
