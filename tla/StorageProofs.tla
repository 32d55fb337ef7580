--------------------------- MODULE StorageProofs ---------------------------
(***************************************************************************)
(* Proofs about Storage for every number of workers and events and every   *)
(* BATCH_SIZE.                                                             *)
(***************************************************************************)
EXTENDS Storage, FiniteSetTheorems, TLAPS

(***************************************************************************)
(* What makes the invariants below inductive: a thread has a batch only    *)
(* inside do_flush, an Insert is under way only while attempts are left,   *)
(* and do_flush returns to its caller, never into an Insert.               *)
(***************************************************************************)
FlushShape ==
  \A t \in Threads :
    /\ pc[t] \notin {"flush", "insert"} => batch[t] = {}
    /\ pc[t] = "insert" => retry[t] < Attempts
    /\ ret[t] \notin {"flush", "insert"}

TypeInv == TypeOK /\ FlushShape

(* The number of events in a batch is a number. *)
LEMMA BatchSize ==
  ASSUME TypeOK, NEW t \in Threads
  PROVE  Cardinality(batch[t]) \in Nat
<1>1. batch[t] \in SUBSET Events
  BY DEF TypeOK
<1> QED
  BY <1>1, StorageAssumption, FS_Subset, FS_CardinalityType

(* Starting do_flush keeps the types and the shape. *)
LEMMA SwapTyped ==
  ASSUME TypeInv, NEW t \in Threads, NEW b \in SUBSET Events,
         NEW back \in PCs \ {"flush", "insert"}, Swap(t, b, back)
  PROVE  /\ buffer_' \subseteq Events
         /\ pc' \in [Threads -> PCs] /\ ret' \in [Threads -> PCs]
         /\ batch' \in [Threads -> SUBSET Events]
         /\ retry' \in [Threads -> 0..Attempts]
         /\ FlushShape'
BY DEF TypeInv, TypeOK, FlushShape, Swap, TakeBatch, Goto, PCs, Attempts

LEMMA FlushBufferTyped ==
  ASSUME TypeInv, NEW t \in Threads, pc[t] \notin {"flush", "insert"},
         NEW back \in PCs \ {"flush", "insert"}, FlushBuffer(t, back)
  PROVE  /\ buffer_' \subseteq Events
         /\ pc' \in [Threads -> PCs] /\ ret' \in [Threads -> PCs]
         /\ batch' \in [Threads -> SUBSET Events]
         /\ retry' \in [Threads -> 0..Attempts]
         /\ FlushShape'
<1>1. CASE Swap(t, buffer_, back)
  BY <1>1, SwapTyped DEF TypeInv, TypeOK
<1>2. CASE Goto(t, back) /\ UNCHANGED <<buffer_, ret, batch, retry>>
  BY <1>2 DEF TypeInv, TypeOK, FlushShape, Goto
<1> QED
  BY <1>1, <1>2 DEF FlushBuffer

(* A step of the flush thread or of the shutdown that only moves a thread. *)
LEMMA MoveTyped ==
  ASSUME TypeInv, NEW t \in Threads, pc[t] \notin {"flush", "insert"},
         NEW l \in PCs \ {"flush", "insert"}, Goto(t, l), running_' \in BOOLEAN,
         UNCHANGED <<buffer_, ret, batch, retry, raced, saved, settled>>
  PROVE  TypeInv'
BY DEF TypeInv, TypeOK, FlushShape, Goto, settled, PCs

LEMMA TypeInvStep == TypeInv /\ [Next]_vars => TypeInv'
<1> SUFFICES ASSUME TypeInv, [Next]_vars
             PROVE  TypeInv'
  OBVIOUS
<1>0. Main \in Threads /\ Flusher \in Threads /\ Workers \subseteq Threads
  BY DEF Threads
<1>1. ASSUME NEW t \in Workers \cup {Main}, NEW e \in Events, save(t, e)
      PROVE  TypeInv'
  <2>1. t \in Threads /\ pc[t] \in {"run", "drain"}
    BY <1>0, <1>1 DEF save
  <2>2. CASE Keep(buffer_ \cup {e})
    BY <1>1, <2>2 DEF save, Keep, TypeInv, TypeOK, FlushShape, settled
  <2>3. CASE Swap(t, buffer_ \cup {e}, pc[t])
    <3>1. buffer_ \cup {e} \in SUBSET Events /\ pc[t] \in PCs \ {"flush", "insert"}
      BY <2>1 DEF TypeInv, TypeOK, PCs
    <3>2. /\ buffer_' \subseteq Events
          /\ pc' \in [Threads -> PCs] /\ ret' \in [Threads -> PCs]
          /\ batch' \in [Threads -> SUBSET Events]
          /\ retry' \in [Threads -> 0..Attempts]
          /\ FlushShape'
      BY <2>1, <2>3, <3>1, SwapTyped
    <3> QED
      BY <1>1, <3>2 DEF save, TypeInv, TypeOK, settled
  <2> QED
    BY <1>1, <2>2, <2>3 DEF save, PushBack, PushBackUpTo
<1>2. ASSUME NEW t \in Threads, Insert(t)
      PROVE  TypeInv'
  BY <1>2 DEF Insert, InsertUpTo, TypeInv, TypeOK, FlushShape, Goto, settled, PCs, Inserting
<1>3. ASSUME NEW t \in Threads, InsertReturns(t)
      PROVE  TypeInv'
  <2>1. metrics_' \in [total_stored : Nat, total_store_fail : Nat, total_store_dead : Nat]
    BY <1>3, BatchSize DEF InsertReturns, ReturnCounting, TypeInv, TypeOK
  <2>2. table' \in [Events -> Nat]
    BY <1>3 DEF InsertReturns, ReturnCounting, Rows, TypeInv, TypeOK
  <2> QED
    BY <1>3, <2>1, <2>2
    DEF InsertReturns, ReturnCounting, Return, Goto, TypeInv, TypeOK, FlushShape, settled
<1>4. ASSUME NEW t \in Threads, InsertThrows(t)
      PROVE  TypeInv'
  <2>1. table' \in [Events -> Nat]
    BY <1>4 DEF InsertThrows, ThrowAndSet, Rows, TypeInv, TypeOK
  <2>2. retry' \in [Threads -> 0..Attempts]
    BY <1>4 DEF InsertThrows, ThrowAndSet, TypeInv, TypeOK, FlushShape, Attempts
  <2> QED
    BY <1>4, <2>1, <2>2
    DEF InsertThrows, ThrowAndSet, Goto, TypeInv, TypeOK, FlushShape, settled, PCs
<1>5. ASSUME NEW t \in Threads, write_dead_letter(t)
      PROVE  TypeInv'
  <2>1. /\ metrics_' \in [total_stored : Nat, total_store_fail : Nat, total_store_dead : Nat]
        /\ dead' \subseteq Events /\ unwritten' \subseteq Events /\ lost' \subseteq Events
    BY <1>5, BatchSize DEF write_dead_letter, LogOpened, LogNotOpened, TypeInv, TypeOK
  <2> QED
    BY <1>5, <2>1 DEF write_dead_letter, Return, Goto, TypeInv, TypeOK, FlushShape
<1>6. ASSUME NEW t \in Workers, WorkerExits(t)
      PROVE  TypeInv'
  BY <1>0, <1>6, MoveTyped DEF WorkerExits, PCs, TypeInv, TypeOK
<1>7. CASE CheckRunning
  BY <1>0, <1>7, MoveTyped DEF CheckRunning, PCs, TypeInv, TypeOK
<1>8. CASE WakeUp
  <2>1. "check" \in PCs \ {"flush", "insert"} /\ pc[Flusher] \notin {"flush", "insert"}
    BY <1>8 DEF WakeUp, WakeUpOr, PCs
  <2> QED
    BY <1>0, <1>8, <2>1, FlushBufferTyped DEF WakeUp, WakeUpOr, TypeInv, TypeOK, settled
<1>9. CASE StartDrain \/ StopFlusher
  BY <1>0, <1>9, MoveTyped DEF StartDrain, StopFlusher, ClearAndJoin, PCs, TypeInv, TypeOK
<1>10. CASE flush_and_stop
  <2>1. "stopped" \in PCs \ {"flush", "insert"} /\ pc[Main] \notin {"flush", "insert"}
    BY <1>10 DEF flush_and_stop, PCs
  <2> QED
    BY <1>0, <1>10, <2>1, FlushBufferTyped DEF flush_and_stop, TypeInv, TypeOK, settled
<1>11. CASE JoinFlusher
  <2>1. "destroyed" \in PCs \ {"flush", "insert"} /\ pc[Main] \notin {"flush", "insert"}
    BY <1>11 DEF JoinFlusher, FlushAfter, PCs
  <2> QED
    BY <1>0, <1>11, <2>1, FlushBufferTyped DEF JoinFlusher, FlushAfter, TypeInv, TypeOK, settled
<1>12. CASE UNCHANGED vars
  BY <1>12 DEF vars, TypeInv, TypeOK, FlushShape, settled
<1> QED
  BY <1>1, <1>2, <1>3, <1>4, <1>5, <1>6, <1>7, <1>8, <1>9, <1>10, <1>11, <1>12
  DEF Next, FlushStep, Shutdown, Destroyed

LEMMA TypeInvInit == Init => TypeInv
BY DEF Init, TypeInv, TypeOK, FlushShape, PCs, Attempts

(***************************************************************************)
(* The types of Storage's variables are kept by every interleaving of      *)
(* save, the flush thread and the shutdown.                                *)
(***************************************************************************)
THEOREM TypeCorrect == Spec => []TypeOK
<1>1. Spec => []TypeInv
  BY TypeInvInit, TypeInvStep, PTL DEF Spec
<1>2. TypeInv => TypeOK
  BY DEF TypeInv
<1> QED
  BY <1>1, <1>2, PTL

-----------------------------------------------------------------------------
(***************************************************************************)
(* Conservation.  A step moves events between the stages in one of four    *)
(* ways; a lemma for each shows that no event is lost, duplicated or in    *)
(* two places afterwards.                                                  *)
(***************************************************************************)

(* Nothing moves. *)
LEMMA NothingMoves ==
  ASSUME Conservation, UNCHANGED <<buffer_, batch, saved, acked, dead, unwritten, lost>>
  PROVE  Conservation'
BY DEF Conservation, NothingMissing, OneBatchEach, StagesDisjoint, InFlight, GivenUp

(* A new event enters the buffer. *)
LEMMA EventBuffered ==
  ASSUME Conservation, NEW e, e \notin saved,
         buffer_' = buffer_ \cup {e}, saved' = saved \cup {e},
         UNCHANGED <<batch, acked, dead, unwritten, lost>>
  PROVE  Conservation'
<1>1. InFlight' = InFlight /\ GivenUp' = GivenUp
  BY DEF InFlight, GivenUp
<1>2. OneBatchEach'
  BY DEF Conservation, OneBatchEach
<1> QED
  BY <1>1, <1>2 DEF Conservation, NothingMissing, StagesDisjoint

(* The buffer, with the new events n if any, becomes the batch of t. *)
LEMMA BufferTaken ==
  ASSUME TypeInv, Conservation, NEW t \in Threads, batch[t] = {},
         NEW n, n \cap saved = {},
         batch' = [batch EXCEPT ![t] = buffer_ \cup n], buffer_' = {},
         saved' = saved \cup n, UNCHANGED <<acked, dead, unwritten, lost>>
  PROVE  Conservation'
<1>0. batch \in [Threads -> SUBSET Events]
  BY DEF TypeInv, TypeOK
<1>1. InFlight' = InFlight \cup buffer_ \cup n
  BY <1>0 DEF InFlight
<1>2. OneBatchEach'
  <2>1. \A s \in Threads : batch[s] \subseteq InFlight
    BY DEF InFlight
  <2>2. \A s \in Threads : batch[s] \cap (buffer_ \cup n) = {}
    BY <2>1 DEF Conservation, NothingMissing, StagesDisjoint
  <2> QED
    BY <1>0, <2>2 DEF Conservation, OneBatchEach
<1>3. GivenUp' = GivenUp
  BY DEF GivenUp
<1> QED
  BY <1>1, <1>2, <1>3 DEF Conservation, NothingMissing, StagesDisjoint

(* The batch of t is settled: a acknowledged, d logged, u unwritten, l lost. *)
LEMMA BatchSettled ==
  ASSUME TypeInv, Conservation, NEW t \in Threads,
         NEW a, NEW d, NEW u, NEW l, batch[t] = a \cup d \cup u \cup l,
         a \cap (d \cup u \cup l) = {}, d \cap (u \cup l) = {}, u \cap l = {},
         acked' = acked \cup a, dead' = dead \cup d,
         unwritten' = unwritten \cup u, lost' = lost \cup l,
         batch' = [batch EXCEPT ![t] = {}], UNCHANGED <<buffer_, saved>>
  PROVE  Conservation'
<1>0. batch \in [Threads -> SUBSET Events]
  BY DEF TypeInv, TypeOK
<1>1. batch[t] \subseteq InFlight
  BY DEF InFlight
<1>2. InFlight' = InFlight \ batch[t]
  BY <1>0 DEF InFlight, Conservation, OneBatchEach
<1>3. OneBatchEach'
  BY <1>0 DEF Conservation, OneBatchEach
<1>4. GivenUp' = GivenUp \cup d \cup u \cup l
  BY DEF GivenUp
<1>5. NothingMissing'
  BY <1>1, <1>2, <1>4 DEF Conservation, NothingMissing
<1>6. StagesDisjoint'
  BY <1>1, <1>2, <1>4 DEF Conservation, StagesDisjoint, GivenUp
<1> QED
  BY <1>3, <1>5, <1>6 DEF Conservation

LEMMA FlushBufferConserves ==
  ASSUME TypeInv, Conservation, NEW t \in Threads, pc[t] \notin {"flush", "insert"},
         NEW back, FlushBuffer(t, back), UNCHANGED <<saved, settled>>
  PROVE  Conservation'
<1>1. CASE UNCHANGED <<buffer_, batch>>
  BY <1>1, NothingMoves DEF settled
<1>2. CASE Swap(t, buffer_, back)
  <2>1. batch[t] = {}
    BY DEF TypeInv, FlushShape
  <2>2. batch' = [batch EXCEPT ![t] = buffer_ \cup {}] /\ buffer_' = {}
    BY <1>2 DEF Swap, TakeBatch
  <2> QED
    BY <2>1, <2>2, BufferTaken DEF settled
<1> QED
  BY <1>1, <1>2 DEF FlushBuffer

LEMMA ConservationStep == TypeInv /\ Conservation /\ [Next]_vars => Conservation'
<1> SUFFICES ASSUME TypeInv, Conservation, [Next]_vars
             PROVE  Conservation'
  OBVIOUS
<1>0. Main \in Threads /\ Flusher \in Threads /\ Workers \subseteq Threads
  BY DEF Threads
<1>1. ASSUME NEW t \in Workers \cup {Main}, NEW e \in Events, save(t, e)
      PROVE  Conservation'
  <2>1. CASE Keep(buffer_ \cup {e})
    BY <1>1, <2>1, EventBuffered DEF save, Keep, settled
  <2>2. CASE Swap(t, buffer_ \cup {e}, pc[t])
    <3>1. t \in Threads /\ batch[t] = {}
      BY <1>0, <1>1 DEF save, TypeInv, FlushShape
    <3>2. {e} \cap saved = {}
      BY <1>1 DEF save
    <3> QED
      BY <1>1, <2>2, <3>1, <3>2, BufferTaken DEF save, Swap, TakeBatch, settled
  <2> QED
    BY <1>1, <2>1, <2>2 DEF save, PushBack, PushBackUpTo
<1>2. ASSUME NEW t \in Threads, Insert(t) \/ InsertThrows(t)
      PROVE  Conservation'
  BY <1>2, NothingMoves DEF Insert, InsertUpTo, InsertThrows, ThrowAndSet, settled
<1>3. ASSUME NEW t \in Threads, InsertReturns(t)
      PROVE  Conservation'
  <2>1. /\ acked' = acked \cup batch[t] /\ dead' = dead \cup {}
        /\ unwritten' = unwritten \cup {} /\ lost' = lost \cup {}
        /\ batch' = [batch EXCEPT ![t] = {}] /\ UNCHANGED <<buffer_, saved>>
    BY <1>3 DEF InsertReturns, ReturnCounting, Return
  <2>2. batch[t] = batch[t] \cup {} \cup {} \cup {}
    OBVIOUS
  <2> QED
    BY <2>1, <2>2, BatchSettled
<1>4. ASSUME NEW t \in Threads, write_dead_letter(t)
      PROVE  Conservation'
  <2>0. acked' = acked \cup {} /\ batch' = [batch EXCEPT ![t] = {}] /\ UNCHANGED <<buffer_, saved>>
    BY <1>4 DEF write_dead_letter, Return
  <2>1. CASE LogOpened(t)
    <3>1. PICK w \in SUBSET batch[t] : /\ dead' = dead \cup w
                                      /\ unwritten' = unwritten \cup (batch[t] \ w)
      BY <2>1 DEF LogOpened
    <3>2. lost' = lost \cup {}
      BY <2>1 DEF LogOpened
    <3>3. batch[t] = {} \cup w \cup (batch[t] \ w) \cup {}
      OBVIOUS
    <3> QED
      BY <2>0, <3>1, <3>2, <3>3, BatchSettled
  <2>2. CASE LogNotOpened(t)
    <3>1. lost' = lost \cup batch[t] /\ dead' = dead \cup {} /\ unwritten' = unwritten \cup {}
      BY <2>2 DEF LogNotOpened
    <3>2. batch[t] = {} \cup {} \cup {} \cup batch[t]
      OBVIOUS
    <3> QED
      BY <2>0, <3>1, <3>2, BatchSettled
  <2> QED
    BY <1>4, <2>1, <2>2 DEF write_dead_letter
<1>5. ASSUME NEW t \in Workers, WorkerExits(t)
      PROVE  Conservation'
  BY <1>5, NothingMoves DEF WorkerExits, settled
<1>6. CASE CheckRunning \/ StartDrain \/ StopFlusher
  BY <1>6, NothingMoves DEF CheckRunning, StartDrain, StopFlusher, ClearAndJoin, settled
<1>7. CASE WakeUp
  BY <1>0, <1>7, FlushBufferConserves DEF WakeUp, WakeUpOr
<1>8. CASE flush_and_stop \/ JoinFlusher
  BY <1>0, <1>8, FlushBufferConserves DEF flush_and_stop, JoinFlusher, FlushAfter
<1>9. CASE UNCHANGED vars
  BY <1>9, NothingMoves DEF vars, settled
<1> QED
  BY <1>1, <1>2, <1>3, <1>4, <1>5, <1>6, <1>7, <1>8, <1>9
  DEF Next, FlushStep, Shutdown, Destroyed

(***************************************************************************)
(* Each saved event is in exactly one place at every moment, for any       *)
(* number of threads that save, flush and shut down concurrently.          *)
(***************************************************************************)
THEOREM EventsConserved == Spec => []Conservation
<1>1. Init => Conservation
  BY DEF Init, Conservation, NothingMissing, OneBatchEach, StagesDisjoint, InFlight, GivenUp
<1> QED
  BY <1>1, TypeInvInit, TypeInvStep, ConservationStep, PTL DEF Spec

-----------------------------------------------------------------------------
(***************************************************************************)
(* The counters.  CountersExact is inductive given Conservation, by which  *)
(* a batch that is settled is disjoint from what was settled before.       *)
(***************************************************************************)

(* Adding a batch of new events to a set of events adds their number. *)
LEMMA DisjointSum ==
  ASSUME NEW A \in SUBSET Events, NEW B \in SUBSET Events, A \cap B = {}
  PROVE  /\ Cardinality(A \cup B) = Cardinality(A) + Cardinality(B)
         /\ Cardinality(A) \in Nat /\ Cardinality(B) \in Nat
<1>1. IsFiniteSet(A) /\ IsFiniteSet(B)
  BY StorageAssumption, FS_Subset
<1>2. Cardinality(A) \in Nat /\ Cardinality(B) \in Nat
  BY <1>1, FS_CardinalityType
<1>3. Cardinality(A \cup B) = Cardinality(A) + Cardinality(B) - Cardinality(A \cap B)
  BY <1>1, FS_Union
<1>4. Cardinality(A \cap B) = 0
  BY FS_EmptySet
<1> QED
  BY <1>2, <1>3, <1>4

LEMMA BatchIsNew ==
  ASSUME TypeInv, Conservation, NEW t \in Threads
  PROVE  /\ batch[t] \in SUBSET Events
         /\ batch[t] \cap acked = {} /\ batch[t] \cap dead = {}
         /\ batch[t] \cap unwritten = {}
<1>1. batch[t] \subseteq InFlight
  BY DEF InFlight
<1> QED
  BY <1>1 DEF TypeInv, TypeOK, Conservation, StagesDisjoint, GivenUp

LEMMA CountersStep ==
  TypeInv /\ Conservation /\ CountersExact /\ [Next]_vars => CountersExact'
<1> SUFFICES ASSUME TypeInv, Conservation, CountersExact, [Next]_vars
             PROVE  CountersExact'
  OBVIOUS
<1>0. /\ metrics_ \in [total_stored : Nat, total_store_fail : Nat, total_store_dead : Nat]
      /\ acked \in SUBSET Events /\ dead \in SUBSET Events /\ unwritten \in SUBSET Events
  BY DEF TypeInv, TypeOK
<1>1. ASSUME UNCHANGED <<acked, dead, unwritten, metrics_>>
      PROVE  CountersExact'
  BY <1>1 DEF CountersExact
<1>2. ASSUME NEW t \in Threads, InsertReturns(t)
      PROVE  CountersExact'
  <2>1. acked' = acked \cup batch[t] /\ UNCHANGED <<dead, unwritten>>
    BY <1>2 DEF InsertReturns, ReturnCounting
  <2>2. Cardinality(acked') = Cardinality(acked) + Cardinality(batch[t])
    BY <1>0, <2>1, BatchIsNew, DisjointSum
  <2>3. /\ metrics_'.total_stored = metrics_.total_stored + Cardinality(batch[t])
        /\ metrics_'.total_store_dead = metrics_.total_store_dead
    BY <1>0, <1>2 DEF InsertReturns, ReturnCounting
  <2> QED
    BY <2>1, <2>2, <2>3 DEF CountersExact
<1>3. ASSUME NEW t \in Threads, LogOpened(t), UNCHANGED acked
      PROVE  CountersExact'
  <2>1. PICK w \in SUBSET batch[t] : /\ dead' = dead \cup w
                                    /\ unwritten' = unwritten \cup (batch[t] \ w)
    BY <1>3 DEF LogOpened
  <2>2. w \in SUBSET Events /\ batch[t] \ w \in SUBSET Events /\ w \cap (batch[t] \ w) = {}
    BY BatchIsNew
  <2>3. w \cap dead = {} /\ (batch[t] \ w) \cap unwritten = {}
    BY BatchIsNew
  <2>4. /\ Cardinality(dead') = Cardinality(dead) + Cardinality(w)
        /\ Cardinality(dead) \in Nat /\ Cardinality(w) \in Nat
    BY <1>0, <2>1, <2>2, <2>3, DisjointSum
  <2>5. /\ Cardinality(unwritten') = Cardinality(unwritten) + Cardinality(batch[t] \ w)
        /\ Cardinality(unwritten) \in Nat /\ Cardinality(batch[t] \ w) \in Nat
    BY <1>0, <2>1, <2>2, <2>3, DisjointSum
  <2>6. Cardinality(batch[t]) = Cardinality(w) + Cardinality(batch[t] \ w)
    <3>1. batch[t] = w \cup (batch[t] \ w)
      OBVIOUS
    <3> QED
      BY <2>2, <3>1, DisjointSum
  <2>7. /\ metrics_'.total_store_dead = metrics_.total_store_dead + Cardinality(batch[t])
        /\ metrics_'.total_stored = metrics_.total_stored
    BY <1>0, <1>3 DEF LogOpened
  <2> QED
    BY <1>3, <2>4, <2>5, <2>6, <2>7 DEF CountersExact
<1>4. ASSUME NEW t \in Threads, write_dead_letter(t)
      PROVE  CountersExact'
  BY <1>1, <1>3, <1>4 DEF write_dead_letter, LogNotOpened
<1>5. ASSUME NEW t \in Threads, Insert(t) \/ InsertThrows(t)
      PROVE  CountersExact'
  BY <1>1, <1>5 DEF Insert, InsertUpTo, InsertThrows, ThrowAndSet, settled
<1>6. CASE \/ \E t \in Workers \cup {Main}, e \in Events : save(t, e)
           \/ \E t \in Workers : WorkerExits(t)
           \/ CheckRunning \/ WakeUp \/ Shutdown \/ UNCHANGED vars
  BY <1>1, <1>6
  DEF save, WorkerExits, CheckRunning, WakeUp, WakeUpOr, Shutdown, StartDrain, flush_and_stop,
      StopFlusher, ClearAndJoin, JoinFlusher, FlushAfter, settled, vars
<1> QED
  BY <1>2, <1>4, <1>5, <1>6 DEF Next, FlushStep, Destroyed

(***************************************************************************)
(* total_stored and total_store_dead count each settled event exactly      *)
(* once, over all concurrent flushes and retries.                          *)
(***************************************************************************)
THEOREM CountersAreExact == Spec => []CountersExact
<1>1. Init => Conservation
  BY DEF Init, Conservation, NothingMissing, OneBatchEach, StagesDisjoint, InFlight, GivenUp
<1>2. Init => CountersExact
  BY FS_EmptySet DEF Init, CountersExact
<1> QED
  BY <1>1, <1>2, TypeInvInit, TypeInvStep, ConservationStep, CountersStep, PTL DEF Spec

-----------------------------------------------------------------------------
(***************************************************************************)
(* The shutdown.  Once the main thread has left "serve" every worker is    *)
(* joined; the last flush of ~Storage starts with the flush thread ended,  *)
(* and leaves a buffer that nobody can fill again.                         *)
(***************************************************************************)
Flushing(t) == pc[t] \in {"flush", "insert"}

ShutdownShape ==
  /\ pc[Main] \in {"serve", "drain", "stopped", "join", "destroyed", "flush", "insert"}
  /\ Flushing(Main) => ret[Main] \in {"drain", "stopped", "destroyed"}
  /\ pc[Main] # "serve" => \A w \in Workers : pc[w] = "joined"
  /\ pc[Flusher] \in {"check", "sleep", "done", "flush", "insert"}
  /\ Flushing(Flusher) => ret[Flusher] = "check"
  /\ pc[Main] = "destroyed" \/ (Flushing(Main) /\ ret[Main] = "destroyed") =>
       pc[Flusher] = "done" /\ buffer_ = {}

LEMMA ShutdownStep == TypeInv /\ ShutdownShape /\ [Next]_vars => ShutdownShape'
<1> SUFFICES ASSUME TypeInv, ShutdownShape, [Next]_vars
             PROVE  ShutdownShape'
  OBVIOUS
<1>0. /\ Main \in Threads /\ Flusher \in Threads /\ Workers \subseteq Threads
      /\ Main \notin Workers /\ Flusher \notin Workers /\ Main # Flusher
  BY StorageAssumption DEF Threads
<1>a. pc \in [Threads -> PCs] /\ ret \in [Threads -> PCs]
  BY DEF TypeInv, TypeOK
<1> USE <1>0, <1>a DEF ShutdownShape, Flushing, Goto
<1>1. ASSUME NEW t \in Workers \cup {Main}, NEW e \in Events, save(t, e)
      PROVE  ShutdownShape'
  <2>1. CASE Keep(buffer_ \cup {e})
    BY <1>1, <2>1 DEF save, Keep
  <2>2. CASE Swap(t, buffer_ \cup {e}, pc[t])
    BY <1>1, <2>2 DEF save, Swap, TakeBatch
  <2> QED
    BY <1>1, <2>1, <2>2 DEF save, PushBack, PushBackUpTo
<1>2. ASSUME NEW t \in Threads, Insert(t) \/ InsertThrows(t)
      PROVE  ShutdownShape'
  BY <1>2 DEF Insert, InsertUpTo, InsertThrows, ThrowAndSet
<1>3. ASSUME NEW t \in Threads, InsertReturns(t) \/ write_dead_letter(t)
      PROVE  ShutdownShape'
  BY <1>3 DEF InsertReturns, ReturnCounting, write_dead_letter, Return
<1>4. ASSUME NEW t \in Workers, WorkerExits(t)
      PROVE  ShutdownShape'
  BY <1>4 DEF WorkerExits
<1>5. CASE CheckRunning \/ StartDrain \/ StopFlusher
  BY <1>5 DEF CheckRunning, StartDrain, StopFlusher, ClearAndJoin
<1>6. CASE WakeUp
  BY <1>6 DEF WakeUp, WakeUpOr, FlushBuffer, Swap, TakeBatch
<1>7. CASE flush_and_stop \/ JoinFlusher
  BY <1>7 DEF flush_and_stop, JoinFlusher, FlushAfter, FlushBuffer, Swap, TakeBatch
<1>8. CASE UNCHANGED vars
  BY <1>8 DEF vars
<1> QED
  BY <1>1, <1>2, <1>3, <1>4, <1>5, <1>6, <1>7, <1>8 DEF Next, FlushStep, Shutdown, Destroyed

LEMMA DestroyedSettled ==
  TypeInv /\ Conservation /\ ShutdownShape => DestroyedIsSettled
<1> SUFFICES ASSUME TypeInv, Conservation, ShutdownShape, pc[Main] = "destroyed"
             PROVE  saved = acked \cup GivenUp
  BY DEF DestroyedIsSettled
<1>1. \A t \in Threads : pc[t] \in {"joined", "done", "destroyed"}
  BY DEF ShutdownShape, Threads
<1>2. \A t \in Threads : batch[t] = {}
  BY <1>1 DEF TypeInv, FlushShape
<1>3. InFlight = {}
  BY <1>2 DEF InFlight
<1>4. buffer_ = {}
  BY DEF ShutdownShape
<1> QED
  BY <1>3, <1>4 DEF Conservation, NothingMissing

LEMMA StorageInvariant == Spec => [](TypeInv /\ Conservation /\ ShutdownShape)
<1>1. Init => Conservation
  BY DEF Init, Conservation, NothingMissing, OneBatchEach, StagesDisjoint, InFlight, GivenUp
<1>2. Init => ShutdownShape
  BY StorageAssumption DEF Init, ShutdownShape, Flushing, Threads
<1> QED
  BY <1>1, <1>2, TypeInvInit, TypeInvStep, ConservationStep, ShutdownStep, PTL DEF Spec

(***************************************************************************)
(* When ~Storage has returned, every event ever saved is acknowledged or   *)
(* given up: none is left in the buffer or with any thread.                *)
(***************************************************************************)
THEOREM NothingLeftBehind == Spec => []DestroyedIsSettled
BY StorageInvariant, DestroyedSettled, PTL

-----------------------------------------------------------------------------
(***************************************************************************)
(* Duplicate rows.  RowsBounded alone is not inductive: an event may be    *)
(* given another row by the next attempt.  RowInv ties the rows of an      *)
(* event to the attempts its batch has used up, and with Conservation no   *)
(* other thread's attempts add to them.                                    *)
(***************************************************************************)
RowInv ==
  /\ RowsBounded
  /\ \A t \in Threads : \A e \in batch[t] : table[e] <= retry[t]

(* Nothing happens to the rows, the batches and the attempts. *)
LEMMA RowsFrame ==
  ASSUME RowInv, UNCHANGED <<buffer_, saved, batch, retry, table>>
  PROVE  RowInv'
BY DEF RowInv, RowsBounded

(* A batch of events that have no row yet begins its attempts. *)
LEMMA RowsTaken ==
  ASSUME TypeInv, RowInv, NEW t \in Threads, NEW n \in SUBSET Events, n \cap saved = {},
         batch' = [batch EXCEPT ![t] = buffer_ \cup n], buffer_' = {},
         retry' = [retry EXCEPT ![t] = 0],
         saved' = saved \cup n, UNCHANGED table
  PROVE  RowInv'
<1>0. /\ batch \in [Threads -> SUBSET Events] /\ retry \in [Threads -> 0..Attempts]
      /\ table \in [Events -> Nat] /\ buffer_ \subseteq Events
  BY DEF TypeInv, TypeOK
<1>1. \A e \in buffer_ \cup n : table[e] = 0
  BY <1>0 DEF RowInv, RowsBounded
<1>2. RowsBounded'
  BY DEF RowInv, RowsBounded
<1>3. ASSUME NEW s \in Threads, NEW e \in batch'[s]
      PROVE  table'[e] <= retry'[s]
  <2>1. CASE s = t
    BY <1>0, <1>1, <1>3, <2>1
  <2>2. CASE s # t
    BY <1>0, <1>3, <2>2 DEF RowInv
  <2> QED
    BY <2>1, <2>2
<1> QED
  BY <1>2, <1>3 DEF RowInv

LEMMA FlushBufferRows ==
  ASSUME TypeInv, RowInv, NEW t \in Threads, NEW back, FlushBuffer(t, back),
         UNCHANGED <<saved, settled>>
  PROVE  RowInv'
<1>1. CASE UNCHANGED <<buffer_, batch, retry>>
  BY <1>1, RowsFrame DEF settled
<1>2. CASE Swap(t, buffer_, back)
  <2>1. /\ batch' = [batch EXCEPT ![t] = buffer_ \cup {}] /\ buffer_' = {}
        /\ retry' = [retry EXCEPT ![t] = 0] /\ saved' = saved \cup {} /\ UNCHANGED table
    BY <1>2 DEF Swap, TakeBatch, settled
  <2>2. {} \in SUBSET Events /\ {} \cap saved = {}
    OBVIOUS
  <2> QED
    BY <2>1, <2>2, RowsTaken
<1> QED
  BY <1>1, <1>2 DEF FlushBuffer

(***************************************************************************)
(* An attempt of t ends: its events have at most one row more, so at most  *)
(* as many as attempts were begun, and no other event has a new row.       *)
(***************************************************************************)
LEMMA RowsOfAttempt ==
  ASSUME TypeInv, Conservation, RowInv, NEW t \in Threads, pc[t] = "insert",
         NEW applied \in BOOLEAN, Rows(t, applied), UNCHANGED <<buffer_, saved>>
  PROVE  /\ RowsBounded'
         /\ \A e \in batch[t] : table'[e] <= retry[t] + 1
         /\ \A s \in Threads \ {t} : \A e \in batch[s] : table'[e] <= retry[s]
<1>0. /\ batch \in [Threads -> SUBSET Events] /\ retry \in [Threads -> 0..Attempts]
      /\ table \in [Events -> Nat] /\ retry[t] < Attempts
  BY DEF TypeInv, TypeOK, FlushShape
<1>1. \A e \in Events : table'[e] = table[e] + (IF applied /\ e \in batch[t] THEN 1 ELSE 0)
  BY DEF Rows
<1>2. \A e \in batch[t] : e \in Events /\ table[e] \in Nat /\ table[e] <= retry[t]
  BY <1>0 DEF RowInv
<1>3. \A e \in batch[t] : table'[e] <= retry[t] + 1
  BY <1>0, <1>1, <1>2
<1>4. \A e \in Events \ batch[t] : table'[e] = table[e]
  BY <1>0, <1>1
<1>5. \A s \in Threads \ {t} : \A e \in batch[s] : table'[e] <= retry[s]
  BY <1>0, <1>4 DEF Conservation, OneBatchEach, RowInv
<1>6. batch[t] \subseteq saved \ buffer_
  BY DEF Conservation, NothingMissing, StagesDisjoint, InFlight
<1>7. RowsBounded'
  <2> SUFFICES ASSUME NEW e \in Events
               PROVE  table'[e] <= Attempts /\ (table'[e] > 0 => e \in saved \ buffer_)
    BY DEF RowsBounded
  <2>1. CASE e \in batch[t]
    BY <1>0, <1>2, <1>1, <1>6, <2>1 DEF Attempts
  <2>2. CASE e \notin batch[t]
    BY <1>4, <2>2 DEF RowInv, RowsBounded
  <2> QED
    BY <2>1, <2>2
<1> QED
  BY <1>3, <1>5, <1>7

LEMMA RowsStep == TypeInv /\ Conservation /\ RowInv /\ [Next]_vars => RowInv'
<1> SUFFICES ASSUME TypeInv, Conservation, RowInv, [Next]_vars
             PROVE  RowInv'
  OBVIOUS
<1>0. Main \in Threads /\ Flusher \in Threads /\ Workers \subseteq Threads
  BY DEF Threads
<1>a. /\ batch \in [Threads -> SUBSET Events] /\ retry \in [Threads -> 0..Attempts]
      /\ table \in [Events -> Nat]
  BY DEF TypeInv, TypeOK
<1>1. ASSUME NEW t \in Workers \cup {Main}, NEW e \in Events, save(t, e)
      PROVE  RowInv'
  <2>0. e \notin saved /\ saved' = saved \cup {e} /\ table' = table
    BY <1>1 DEF save, settled
  <2>1. CASE Keep(buffer_ \cup {e})
    <3>1. UNCHANGED <<batch, retry>> /\ buffer_' = buffer_ \cup {e}
      BY <2>1 DEF Keep
    <3> QED
      BY <2>0, <3>1, <1>a DEF RowInv, RowsBounded
  <2>2. CASE Swap(t, buffer_ \cup {e}, pc[t])
    <3>1. /\ batch' = [batch EXCEPT ![t] = buffer_ \cup {e}] /\ buffer_' = {}
          /\ retry' = [retry EXCEPT ![t] = 0]
      BY <2>2 DEF Swap, TakeBatch
    <3>2. t \in Threads /\ {e} \in SUBSET Events /\ {e} \cap saved = {} /\ UNCHANGED table
      BY <1>0, <2>0
    <3>3. saved' = saved \cup {e}
      BY <2>0
    <3> QED
      BY <3>1, <3>2, <3>3, RowsTaken
  <2> QED
    BY <1>1, <2>1, <2>2 DEF save, PushBack, PushBackUpTo
<1>2. ASSUME NEW t \in Threads, Insert(t)
      PROVE  RowInv'
  BY <1>2, RowsFrame DEF Insert, InsertUpTo, settled
<1>3. ASSUME NEW t \in Threads, InsertThrows(t)
      PROVE  RowInv'
  <2>1. PICK applied \in BOOLEAN : Rows(t, applied)
    BY <1>3 DEF InsertThrows, ThrowAndSet
  <2>2. pc[t] = "insert" /\ UNCHANGED <<buffer_, saved, batch>>
    BY <1>3 DEF InsertThrows, ThrowAndSet
  <2>3. retry'[t] = retry[t] + 1 /\ \A s \in Threads \ {t} : retry'[s] = retry[s]
    BY <1>3, <1>a DEF InsertThrows, ThrowAndSet
  <2> QED
    BY <2>1, <2>2, <2>3, RowsOfAttempt DEF RowInv
<1>4. ASSUME NEW t \in Threads, InsertReturns(t)
      PROVE  RowInv'
  <2>1. PICK applied \in {TRUE, t \notin raced} : Rows(t, applied)
    BY <1>4 DEF InsertReturns, ReturnCounting
  <2>2. pc[t] = "insert" /\ UNCHANGED <<buffer_, saved, retry>>
    BY <1>4 DEF InsertReturns, ReturnCounting
  <2>3. batch'[t] = {} /\ \A s \in Threads \ {t} : batch'[s] = batch[s]
    BY <1>4, <1>a DEF InsertReturns, ReturnCounting, Return
  <2>4. applied \in BOOLEAN
    BY Zenon
  <2> QED
    BY <2>1, <2>2, <2>3, <2>4, RowsOfAttempt DEF RowInv
<1>5. ASSUME NEW t \in Threads, write_dead_letter(t)
      PROVE  RowInv'
  <2>1. UNCHANGED <<buffer_, saved, retry, table>>
    BY <1>5 DEF write_dead_letter
  <2>2. batch'[t] = {} /\ \A s \in Threads \ {t} : batch'[s] = batch[s]
    BY <1>5, <1>a DEF write_dead_letter, Return
  <2> QED
    BY <2>1, <2>2 DEF RowInv, RowsBounded
<1>6. ASSUME NEW t \in Workers, WorkerExits(t)
      PROVE  RowInv'
  BY <1>6, RowsFrame DEF WorkerExits, settled
<1>7. CASE CheckRunning \/ StartDrain \/ StopFlusher
  BY <1>7, RowsFrame DEF CheckRunning, StartDrain, StopFlusher, ClearAndJoin, settled
<1>8. CASE WakeUp
  BY <1>0, <1>8, FlushBufferRows DEF WakeUp, WakeUpOr
<1>9. CASE flush_and_stop \/ JoinFlusher
  BY <1>0, <1>9, FlushBufferRows DEF flush_and_stop, JoinFlusher, FlushAfter
<1>10. CASE UNCHANGED vars
  BY <1>10, RowsFrame DEF vars, settled
<1> QED
  BY <1>1, <1>2, <1>3, <1>4, <1>5, <1>6, <1>7, <1>8, <1>9, <1>10
  DEF Next, FlushStep, Shutdown, Destroyed

(***************************************************************************)
(* An event never has more rows in the table than do_flush has attempts,   *)
(* and none before it has left the buffer, for any number of threads that  *)
(* insert at once and whatever each failed attempt did on the server.      *)
(***************************************************************************)
THEOREM DuplicatesBounded == Spec => []RowsBounded
<1>1. Init => Conservation
  BY DEF Init, Conservation, NothingMissing, OneBatchEach, StagesDisjoint, InFlight, GivenUp
<1>2. Init => RowInv
  BY DEF Init, RowInv, RowsBounded, Attempts
<1>3. RowInv => RowsBounded
  BY DEF RowInv
<1> QED
  BY <1>1, <1>2, <1>3, TypeInvInit, TypeInvStep, ConservationStep, RowsStep, PTL DEF Spec
=============================================================================
