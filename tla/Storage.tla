------------------------------- MODULE Storage -------------------------------
(***************************************************************************)
(* src/processor/storage.cpp: the ClickHouse writer.  Worker threads call  *)
(* save, the object's own flush thread runs periodic_flush, and the main   *)
(* thread saves the drained events, calls flush_and_stop and finally runs  *)
(* the destructor (Processor::stop and ~Processor).                        *)
(*                                                                         *)
(* buffer_mutex_ protects buffer_ only.  do_flush runs outside it, so any  *)
(* number of threads can be inside client_->Insert at once, and            *)
(* clickhouse::Client does not synchronize its callers: an Insert that     *)
(* overlaps another one may return normally although the server did not    *)
(* take its rows.                                                          *)
(*                                                                         *)
(* An event is one call of save.  A batch is the set of its events, since  *)
(* nothing depends on their order.                                         *)
(***************************************************************************)
EXTENDS Naturals, FiniteSets

CONSTANTS
  Workers,     \* the Processor's worker threads
  Flusher,     \* flush_thread_
  Main,        \* the thread that runs Processor::stop and the destructors
  Events,      \* the events that may be saved: bounds the calls of save
  BATCH_SIZE

ASSUME StorageAssumption ==
  /\ IsFiniteSet(Events)
  /\ BATCH_SIZE \in Nat \ {0}
  /\ Flusher \notin Workers
  /\ Main \notin Workers
  /\ Main # Flusher

Threads == Workers \cup {Flusher, Main}

(* The attempts of do_flush: for (int retry = 0; retry < 3; ++retry). *)
Attempts == 3

VARIABLES
  buffer_,     \* the events not yet in a batch
  running_,    \* cleared by ~Storage, read by periodic_flush
  pc,          \* what each thread is doing
  ret,         \* where a thread goes on when its do_flush returns
  batch,       \* the local batch of each thread inside do_flush
  retry,       \* the loop counter of each do_flush
  raced,       \* threads whose current Insert has overlapped another one
  table,       \* rows of each event in the ClickHouse table "events"
  acked,       \* events whose Insert returned normally
  dead,        \* events in dead_letter.log
  unwritten,   \* events counted as dead-lettered whose write failed
  lost,        \* events given up because dead_letter.log did not open
  saved,       \* history: events passed to save
  metrics_     \* the counters this component owns

settled == <<table, acked, dead, unwritten, lost, metrics_>>
vars == <<buffer_, running_, pc, ret, batch, retry, raced, saved, settled>>

Init ==
  /\ buffer_ = {}
  /\ running_ = TRUE
  /\ pc = [t \in Threads |-> CASE t = Flusher -> "check"
                               [] t = Main -> "serve"
                               [] OTHER -> "run"]
  /\ ret = [t \in Threads |-> "run"]
  /\ batch = [t \in Threads |-> {}]
  /\ retry = [t \in Threads |-> 0]
  /\ raced = {}
  /\ table = [e \in Events |-> 0]
  /\ acked = {}
  /\ dead = {}
  /\ unwritten = {}
  /\ lost = {}
  /\ saved = {}
  /\ metrics_ = [total_stored |-> 0, total_store_fail |-> 0, total_store_dead |-> 0]

Goto(t, l) == pc' = [pc EXCEPT ![t] = l]

-----------------------------------------------------------------------------
(* Taking events out of the buffer, under buffer_mutex_.                   *)

(* do_flush(b) is called by t, and the buffer is left as it is in rest. *)
TakeBatch(t, b, rest, back) ==
  /\ batch' = [batch EXCEPT ![t] = b]
  /\ buffer_' = rest
  /\ retry' = [retry EXCEPT ![t] = 0]
  /\ ret' = [ret EXCEPT ![t] = back]
  /\ Goto(t, "flush")

(* Mutant of Swap: the batch is a copy, the buffer keeps its events. *)
CopyNotSwap(t, b, back) == TakeBatch(t, b, b, back)

(* batch.swap(buffer_) with b in the buffer, then do_flush(batch). *)
Swap(t, b, back) == TakeBatch(t, b, {}, back)

Keep(b) == buffer_' = b /\ UNCHANGED <<pc, ret, batch, retry>>

PushBackUpTo(t, e, size) ==
  LET b == buffer_ \cup {e}
  IN  \/ Cardinality(b) < size /\ Keep(b)
      \/ Cardinality(b) >= size /\ Swap(t, b, pc[t])

(* buffer_.push_back, and the swap once BATCH_SIZE is reached. *)
PushBack(t, e) == PushBackUpTo(t, e, BATCH_SIZE)

(* save, called by a worker or, in the final drain, by the main thread. *)
save(t, e) ==
  /\ pc[t] \in {"run", "drain"}
  /\ e \notin saved
  /\ saved' = saved \cup {e}
  /\ PushBack(t, e)
  /\ UNCHANGED <<running_, raced, settled>>

(* Flush what is buffered, if anything, and go on at back. *)
FlushBuffer(t, back) ==
  \/ /\ buffer_ = {}
     /\ Goto(t, back)
     /\ UNCHANGED <<buffer_, ret, batch, retry>>
  \/ /\ buffer_ # {}
     /\ Swap(t, buffer_, back)

-----------------------------------------------------------------------------
(* periodic_flush, the loop of flush_thread_.                              *)

CheckRunning ==
  /\ pc[Flusher] = "check"
  /\ Goto(Flusher, IF running_ THEN "sleep" ELSE "done")
  /\ UNCHANGED <<buffer_, running_, ret, batch, retry, raced, saved, settled>>

WakeUpOr(back) ==
  /\ pc[Flusher] = "sleep"
  /\ FlushBuffer(Flusher, back)
  /\ UNCHANGED <<running_, raced, saved, settled>>

(* Mutant of WakeUp: an empty buffer ends the thread instead of the round. *)
WakeUpReturns == WakeUpOr(IF buffer_ = {} THEN "done" ELSE "check")

(* FLUSH_INTERVAL_SECS are over. *)
WakeUp == WakeUpOr("check")

-----------------------------------------------------------------------------
(* do_flush.                                                               *)

Inserting == {t \in Threads : pc[t] = "insert"}

InsertUpTo(t, n) ==
  /\ pc[t] = "flush"
  /\ retry[t] < n
  /\ raced' = IF Inserting = {} THEN raced ELSE raced \cup Inserting \cup {t}
  /\ Goto(t, "insert")
  /\ UNCHANGED <<buffer_, running_, ret, batch, retry, saved, settled>>

(* Mutant of Insert: one attempt too many. *)
OneAttemptTooMany(t) == InsertUpTo(t, Attempts + 1)

(* An attempt: client_->Insert is called. *)
Insert(t) == InsertUpTo(t, Attempts)

(* The server takes the rows of t's block, or does not. *)
Rows(t, applied) ==
  table' = [e \in Events |-> table[e] + (IF applied /\ e \in batch[t] THEN 1 ELSE 0)]

Return(t) ==
  /\ Goto(t, ret[t])
  /\ batch' = [batch EXCEPT ![t] = {}]

ReturnCounting(t, n) ==
  /\ pc[t] = "insert"
  /\ \E applied \in {TRUE, t \notin raced} : Rows(t, applied)
  /\ acked' = acked \cup batch[t]
  /\ metrics_' = [metrics_ EXCEPT !.total_stored = @ + n]
  /\ Return(t)
  /\ raced' = raced \ {t}
  /\ UNCHANGED <<buffer_, running_, ret, retry, saved, dead, unwritten, lost>>

(* Mutant of InsertReturns: counts a whole batch whatever its size. *)
CountsFullBatch(t) == ReturnCounting(t, BATCH_SIZE)

(* client_->Insert returns. *)
InsertReturns(t) == ReturnCounting(t, Cardinality(batch[t]))

ThrowAndSet(t, n) ==
  /\ pc[t] = "insert"
  /\ \E applied \in BOOLEAN : Rows(t, applied)
  /\ retry' = [retry EXCEPT ![t] = n]
  /\ raced' = raced \ {t}
  /\ Goto(t, "flush")
  /\ UNCHANGED <<buffer_, running_, ret, batch, saved, acked, dead, unwritten, lost, metrics_>>

(* Mutant of InsertThrows: the loop counter is not advanced. *)
RetryNotCounted(t) == ThrowAndSet(t, retry[t])

(* client_->Insert throws, the server having taken the rows or not: the    *)
(* connection may break, or the 3 s receive timeout pass, after the insert *)
(* was applied.                                                            *)
InsertThrows(t) == ThrowAndSet(t, retry[t] + 1)

(***************************************************************************)
(* write_dead_letter, under dead_letter_mutex.  The stream is not tested   *)
(* after the writes: those that fail are counted all the same.  If the     *)
(* file does not open, nothing is counted.  The rotation of a log over     *)
(* 100 MB renames the file and loses no event.                             *)
(***************************************************************************)
LogOpened(t) ==
  /\ \E written \in SUBSET batch[t] :
       /\ dead' = dead \cup written
       /\ unwritten' = unwritten \cup (batch[t] \ written)
  /\ metrics_' = [metrics_ EXCEPT !.total_store_dead = @ + Cardinality(batch[t])]
  /\ UNCHANGED lost

LogNotOpened(t) ==
  /\ lost' = lost \cup batch[t]
  /\ UNCHANGED <<dead, unwritten, metrics_>>

write_dead_letter(t) ==
  /\ pc[t] = "flush"
  /\ retry[t] >= Attempts
  /\ LogOpened(t) \/ LogNotOpened(t)
  /\ Return(t)
  /\ UNCHANGED <<buffer_, running_, ret, retry, raced, saved, table, acked>>

-----------------------------------------------------------------------------
(* The callers: Processor::stop and the destructors.                       *)

(* A worker leaves its loop; it is joined by Processor::stop. *)
WorkerExits(t) ==
  /\ t \in Workers
  /\ pc[t] = "run"
  /\ Goto(t, "joined")
  /\ UNCHANGED <<buffer_, running_, ret, batch, retry, raced, saved, settled>>

(* All workers joined: the main thread drains the queue. *)
StartDrain ==
  /\ pc[Main] = "serve"
  /\ \A t \in Workers : pc[t] = "joined"
  /\ Goto(Main, "drain")
  /\ UNCHANGED <<buffer_, running_, ret, batch, retry, raced, saved, settled>>

(* storage_->flush_and_stop() at the end of Processor::stop; it does not   *)
(* stop the flush thread.                                                  *)
flush_and_stop ==
  /\ pc[Main] = "drain"
  /\ FlushBuffer(Main, "stopped")
  /\ UNCHANGED <<running_, raced, saved, settled>>

ClearAndJoin(r) ==
  /\ pc[Main] = "stopped"
  /\ running_' = r
  /\ Goto(Main, "join")
  /\ UNCHANGED <<buffer_, ret, batch, retry, raced, saved, settled>>

(* Mutant of StopFlusher: running_ is not cleared. *)
RunningNotCleared == ClearAndJoin(running_)

(* ~Storage: running_ = false, ... *)
StopFlusher == ClearAndJoin(FALSE)

FlushAfter(joined) ==
  /\ pc[Main] = "join"
  /\ joined
  /\ FlushBuffer(Main, "destroyed")
  /\ UNCHANGED <<running_, raced, saved, settled>>

(* Mutant of JoinFlusher: flushes without waiting for flush_thread_. *)
FlushWithoutJoin == FlushAfter(TRUE)

(* ... join flush_thread_, then flush_and_stop. *)
JoinFlusher == FlushAfter(pc[Flusher] = "done")

(* The object is gone: the behaviour ends here. *)
Destroyed == pc[Main] = "destroyed" /\ pc[Flusher] = "done" /\ UNCHANGED vars

-----------------------------------------------------------------------------
FlushStep(t) ==
  Insert(t) \/ InsertReturns(t) \/ InsertThrows(t) \/ write_dead_letter(t)

Shutdown == StartDrain \/ flush_and_stop \/ StopFlusher \/ JoinFlusher

Next ==
  \/ \E t \in Workers \cup {Main}, e \in Events : save(t, e)
  \/ \E t \in Threads : FlushStep(t)
  \/ \E t \in Workers : WorkerExits(t)
  \/ CheckRunning
  \/ WakeUp
  \/ Shutdown
  \/ Destroyed

Spec == Init /\ [][Next]_vars

-----------------------------------------------------------------------------
PCs == {"run", "joined", "check", "sleep", "done", "serve", "drain",
        "stopped", "join", "destroyed", "flush", "insert"}

TypeOK ==
  /\ buffer_ \subseteq Events
  /\ running_ \in BOOLEAN
  /\ pc \in [Threads -> PCs]
  /\ ret \in [Threads -> PCs]
  /\ batch \in [Threads -> SUBSET Events]
  /\ retry \in [Threads -> 0..Attempts]
  /\ raced \subseteq Threads
  /\ table \in [Events -> Nat]
  /\ acked \subseteq Events
  /\ dead \subseteq Events
  /\ unwritten \subseteq Events
  /\ lost \subseteq Events
  /\ saved \subseteq Events
  /\ metrics_ \in [total_stored : Nat, total_store_fail : Nat, total_store_dead : Nat]

InFlight == UNION {batch[t] : t \in Threads}
GivenUp == dead \cup unwritten \cup lost

(***************************************************************************)
(* No event is dropped or handled twice, however save, the flush thread    *)
(* and the shutdown interleave: each saved event is in exactly one of the  *)
(* buffer, one thread's batch, the acknowledged events and the given-up    *)
(* ones.                                                                   *)
(***************************************************************************)
NothingMissing == saved = buffer_ \cup InFlight \cup acked \cup GivenUp

OneBatchEach == \A s, t \in Threads : s # t => batch[s] \cap batch[t] = {}

StagesDisjoint ==
  /\ buffer_ \cap (InFlight \cup acked \cup GivenUp) = {}
  /\ InFlight \cap (acked \cup GivenUp) = {}
  /\ acked \cap GivenUp = {}
  /\ dead \cap (unwritten \cup lost) = {}
  /\ unwritten \cap lost = {}

Conservation == NothingMissing /\ OneBatchEach /\ StagesDisjoint

(***************************************************************************)
(* total_stored counts the events of the Inserts that returned, and        *)
(* total_store_dead the events handed to an opened dead_letter.log, each   *)
(* once, across all flushing threads and all retries.                      *)
(***************************************************************************)
CountersExact ==
  /\ metrics_.total_stored = Cardinality(acked)
  /\ metrics_.total_store_dead = Cardinality(dead) + Cardinality(unwritten)

(***************************************************************************)
(* The retries of do_flush may duplicate a row, but never beyond the three *)
(* attempts; and no row exists for an event that is still in the buffer.   *)
(***************************************************************************)
RowsBounded ==
  \A e \in Events : table[e] <= Attempts /\ (table[e] > 0 => e \in saved \ buffer_)

(***************************************************************************)
(* When ~Storage has returned, no event is left behind in the buffer or in *)
(* the batch of any thread, the flush thread's included.                   *)
(***************************************************************************)
DestroyedIsSettled ==
  pc[Main] = "destroyed" => saved = acked \cup GivenUp
=============================================================================
