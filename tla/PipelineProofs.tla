---------------------------- MODULE PipelineProofs ----------------------------
(***************************************************************************)
(* Proofs about Pipeline for every number of workers and events and every  *)
(* batch size.  The composition is shown to run each of its components     *)
(* according to that component's specification, so that the theorems of    *)
(* ProcessorProofs and StorageProofs hold in it; what remains is to relate *)
(* the state of one component to that of the other.                        *)
(***************************************************************************)
EXTENDS Pipeline, FiniteSetTheorems, TLAPS

(* The theorems about the two components. *)
PP == INSTANCE ProcessorProofs
SP == INSTANCE StorageProofs WITH running_ <- flushing_, pc <- at, metrics_ <- store_metrics_

LEMMA ProcessorFits == PP!ProcessorAssumption
BY PipelineAssumption
DEF PP!ProcessorAssumption, P!ProcessorAssumption, PP!IsFiniteSet, P!IsFiniteSet

LEMMA StorageFits == SP!StorageAssumption
BY PipelineAssumption
DEF SP!StorageAssumption, S!StorageAssumption, SP!IsFiniteSet, S!IsFiniteSet

(***************************************************************************)
(* An instance of a component and the instance of its proofs agree.        *)
(***************************************************************************)
LEMMA SameThreadStep == ASSUME NEW t PROVE P!ThreadStep(t) <=> PP!ThreadStep(t)
BY DEF P!ThreadStep, P!CheckRunning, P!LoopOr, P!Pop, P!PopOr, P!EventStep, P!Received,
       P!Parse, P!Validate, P!Allow, P!RateLimited, P!Produce, P!Retry, P!Save, P!SaveIf,
       P!PollReturns, P!Count, P!Drop, P!Skip, P!ProduceOk, P!KafkaOn, P!Note, P!Goto,
       P!fetch_add, P!Again, P!env, P!kafka, P!Cardinality,
       PP!ThreadStep, PP!CheckRunning, PP!LoopOr, PP!Pop, PP!PopOr, PP!EventStep, PP!Received,
       PP!Parse, PP!Validate, PP!Allow, PP!RateLimited, PP!Produce, PP!Retry, PP!Save, PP!SaveIf,
       PP!PollReturns, PP!Count, PP!Drop, PP!Skip, PP!ProduceOk, PP!KafkaOn, PP!Note, PP!Goto,
       PP!fetch_add, PP!Again, PP!env, PP!kafka, PP!Cardinality

LEMMA SameStopStep == P!StopStep <=> PP!StopStep
BY DEF P!StopStep, P!JoinThreads, P!JoinAll, P!Drain, P!FlushStorage, P!FlushDone,
       P!FlushTimeout, P!Destroy, P!Skip, P!PopOr, P!Goto, P!env, P!kafka,
       PP!StopStep, PP!JoinThreads, PP!JoinAll, PP!Drain, PP!FlushStorage, PP!FlushDone,
       PP!FlushTimeout, PP!Destroy, PP!Skip, PP!PopOr, PP!Goto, PP!env, PP!kafka

LEMMA SameEvent ==
  ASSUME NEW e
  PROVE  /\ P!Enqueue(e) <=> PP!Enqueue(e)
         /\ P!Deliver(e) <=> PP!Deliver(e)
         /\ P!DeliveryFails(e) <=> PP!DeliveryFails(e)
BY DEF P!Enqueue, PP!Enqueue, P!Deliver, PP!Deliver, P!DeliveryFails, PP!DeliveryFails,
       P!Note, PP!Note, P!env, PP!env, P!kafka, PP!kafka

LEMMA SameServe == ASSUME NEW t PROVE P!ServeReport(t) <=> PP!ServeReport(t)
BY DEF P!ServeReport, P!ServeAt, P!dr_msg_cb, P!fetch_add,
       PP!ServeReport, PP!ServeAt, PP!dr_msg_cb, PP!fetch_add

LEMMA SameProcessor ==
  /\ P!Init <=> PP!Init
  /\ P!Threads = PP!Threads
  /\ P!vars = PP!vars
  /\ P!Next <=> PP!Next
<1>1. P!Init <=> PP!Init
  BY DEF P!Init, PP!Init, P!Configs, PP!Configs, P!Threads, PP!Threads, P!Counters, PP!Counters
<1>2. P!Threads = PP!Threads /\ P!vars = PP!vars
  BY DEF P!Threads, PP!Threads, P!vars, PP!vars, P!env, PP!env, P!kafka, PP!kafka
<1>3. (P!StopBegins <=> PP!StopBegins) /\ (P!Ended <=> PP!Ended)
  BY DEF P!StopBegins, PP!StopBegins, P!Ended, PP!Ended, P!Goto, PP!Goto,
         P!vars, PP!vars, P!env, PP!env, P!kafka, PP!kafka
<1> QED
  BY <1>1, <1>2, <1>3, SameThreadStep, SameStopStep, SameEvent, SameServe DEF P!Next, PP!Next

LEMMA SameFlush == ASSUME NEW t PROVE S!FlushStep(t) <=> SP!FlushStep(t)
BY DEF S!FlushStep, S!Insert, S!InsertUpTo, S!InsertReturns, S!ReturnCounting, S!InsertThrows,
       S!ThrowAndSet, S!write_dead_letter, S!LogOpened, S!LogNotOpened, S!Rows, S!Return,
       S!Inserting, S!Threads, S!Attempts, S!Goto, S!settled, S!Cardinality,
       SP!FlushStep, SP!Insert, SP!InsertUpTo, SP!InsertReturns, SP!ReturnCounting,
       SP!InsertThrows, SP!ThrowAndSet, SP!write_dead_letter, SP!LogOpened, SP!LogNotOpened,
       SP!Rows, SP!Return, SP!Inserting, SP!Threads, SP!Attempts, SP!Goto, SP!settled,
       SP!Cardinality

LEMMA SameSave == ASSUME NEW t, NEW e PROVE S!save(t, e) <=> SP!save(t, e)
BY DEF S!save, S!PushBack, S!PushBackUpTo, S!Keep, S!Swap, S!TakeBatch, S!Goto, S!settled,
       S!Cardinality, SP!save, SP!PushBack, SP!PushBackUpTo, SP!Keep, SP!Swap, SP!TakeBatch,
       SP!Goto, SP!settled, SP!Cardinality

LEMMA SameShutdown ==
  /\ S!StartDrain <=> SP!StartDrain
  /\ S!flush_and_stop <=> SP!flush_and_stop
  /\ S!StopFlusher <=> SP!StopFlusher
  /\ S!JoinFlusher <=> SP!JoinFlusher
BY DEF S!StartDrain, S!flush_and_stop, S!StopFlusher, S!ClearAndJoin, S!JoinFlusher,
       S!FlushAfter, S!FlushBuffer, S!Swap, S!TakeBatch, S!Goto, S!settled,
       SP!StartDrain, SP!flush_and_stop, SP!StopFlusher, SP!ClearAndJoin, SP!JoinFlusher,
       SP!FlushAfter, SP!FlushBuffer, SP!Swap, SP!TakeBatch, SP!Goto, SP!settled

LEMMA SameStorage ==
  /\ S!Init <=> SP!Init
  /\ S!Threads = SP!Threads
  /\ S!vars = SP!vars
  /\ S!Next <=> SP!Next
<1>1. S!Init <=> SP!Init
  BY DEF S!Init, SP!Init, S!Threads, SP!Threads
<1>2. S!Threads = SP!Threads /\ S!vars = SP!vars
  BY DEF S!Threads, SP!Threads, S!vars, SP!vars, S!settled, SP!settled
<1>3. /\ S!CheckRunning <=> SP!CheckRunning
      /\ S!WakeUp <=> SP!WakeUp
      /\ \A t : S!WorkerExits(t) <=> SP!WorkerExits(t)
  BY DEF S!CheckRunning, SP!CheckRunning, S!WakeUp, SP!WakeUp, S!WakeUpOr, SP!WakeUpOr,
         S!WorkerExits, SP!WorkerExits, S!FlushBuffer, SP!FlushBuffer, S!Swap, SP!Swap,
         S!TakeBatch, SP!TakeBatch, S!Goto, SP!Goto, S!settled, SP!settled
<1>4. S!Destroyed <=> SP!Destroyed
  BY DEF S!Destroyed, SP!Destroyed, S!vars, SP!vars, S!settled, SP!settled
<1> QED
  BY <1>1, <1>2, <1>3, <1>4, SameFlush, SameSave, SameShutdown
  DEF S!Next, SP!Next, S!Shutdown, SP!Shutdown

-----------------------------------------------------------------------------
(***************************************************************************)
(* The processor in the composition: ClickHouse on, Kafka off, no crash.   *)
(***************************************************************************)
Config == cfg.storage_ /\ ~cfg.producer_ /\ ~crashed

LEMMA ProcessorSame == UNCHANGED processor => UNCHANGED P!vars /\ UNCHANGED PP!vars
BY DEF processor, P!vars, P!env, P!kafka, PP!vars, PP!env, PP!kafka

LEMMA StorageSame == UNCHANGED storage => UNCHANGED S!vars /\ UNCHANGED SP!vars
BY DEF storage, S!vars, S!settled, SP!vars, SP!settled

(* No thread of Processor changes the configuration or crashes. *)
LEMMA EnvSame ==
  ASSUME NEW t, P!ThreadStep(t) \/ P!StopStep \/ P!StopBegins \/ \E e \in Events : P!Enqueue(e)
  PROVE  UNCHANGED <<cfg, crashed>>
<1>1. CASE P!ThreadStep(t)
  BY <1>1 DEF P!ThreadStep, P!CheckRunning, P!LoopOr, P!Pop, P!PopOr, P!EventStep, P!Received,
       P!Parse, P!Validate, P!Allow, P!RateLimited, P!Produce, P!Retry, P!Save, P!SaveIf,
       P!PollReturns, P!Count, P!Drop, P!Skip, P!ProduceOk, P!env
<1>2. CASE P!StopStep
  BY <1>2 DEF P!StopStep, P!JoinThreads, P!JoinAll, P!Drain, P!FlushStorage, P!FlushDone,
       P!FlushTimeout, P!Destroy, P!Skip, P!PopOr, P!env
<1>3. CASE P!StopBegins \/ \E e \in Events : P!Enqueue(e)
  BY <1>3 DEF P!StopBegins, P!Enqueue, P!env
<1> QED
  BY <1>1, <1>2, <1>3

LEMMA ProcessorStep ==
  Config /\ [Next]_vars => Config' /\ [P!Next]_(P!vars) /\ [PP!Next]_(PP!vars)
<1> SUFFICES ASSUME Config, [Next]_vars
             PROVE  Config' /\ [P!Next]_(P!vars) /\ [PP!Next]_(PP!vars)
  OBVIOUS
<1>1. ASSUME P!Next, UNCHANGED <<cfg, crashed>>
      PROVE  Config' /\ [P!Next]_(P!vars) /\ [PP!Next]_(PP!vars)
  BY <1>1, SameProcessor DEF Config
<1>2. ASSUME UNCHANGED processor
      PROVE  Config' /\ [P!Next]_(P!vars) /\ [PP!Next]_(PP!vars)
  BY <1>2, ProcessorSame DEF Config, processor
<1>3. ASSUME NEW t \in P!Threads, ThreadStep(t)
      PROVE  P!Next /\ UNCHANGED <<cfg, crashed>>
  BY <1>3, EnvSame DEF ThreadStep, P!Next, Config
<1>4. ASSUME Around
      PROVE  P!Next /\ UNCHANGED <<cfg, crashed>>
  BY <1>4, EnvSame DEF Around, P!Next, Config
<1> QED
  BY <1>1, <1>2, <1>3, <1>4
  DEF Next, FlushStep, PeriodicFlush, DestroyStorage, Ended, vars

LEMMA ConfigInit == Init => Config
BY DEF Init, Config, P!Init

(***************************************************************************)
(* In the composition Processor behaves as specified: waiting for do_flush *)
(* only delays its threads.                                                *)
(***************************************************************************)
THEOREM ProcessorRuns == Spec => P!Spec
<1>1. Init => P!Init
  BY DEF Init
<1> QED
  BY <1>1, ConfigInit, ProcessorStep, PTL DEF Spec, P!Spec

LEMMA ProcessorHolds ==
  Spec => []Config /\ [](PP!Shape /\ PP!Places /\ PP!StoreInv) /\ []PP!KafkaNeverCostsStorage
            /\ []PP!StopLeavesNothing
<1>1. Init => PP!Init
  BY SameProcessor DEF Init
<1>2. Spec => PP!Spec
  BY <1>1, ConfigInit, ProcessorStep, PTL DEF Spec, PP!Spec
<1>3. PP!Spec => [](PP!Shape /\ PP!Places /\ PP!StoreInv)
  BY ProcessorFits, PP!StoreHolds
<1>4. PP!Spec => []PP!KafkaNeverCostsStorage
  BY ProcessorFits, PP!StorageGetsEverything
<1>5. PP!Spec => []PP!StopLeavesNothing
  BY ProcessorFits, PP!StopIsComplete
<1> QED
  BY <1>2, <1>3, <1>4, <1>5, ConfigInit, ProcessorStep, PTL DEF Spec

-----------------------------------------------------------------------------
(***************************************************************************)
(* The storage in the composition.                                         *)
(***************************************************************************)

(* A thread of Processor calls save with the event it holds. *)
LEMMA SaveCall ==
  ASSUME PP!Shape, NEW t \in P!Threads, pc[t] = "save"
  PROVE  t \in Workers \cup {Main} /\ data[t] \in Events
BY DEF PP!Shape, PP!TypeOK, PP!ThreadShape, PP!Working, P!Threads, PP!Threads

(* The call that a step makes into the storage. *)
LEMMA Calls ==
  ASSUME NEW t, StorageCall(t)
  PROVE  \/ pc[t] = "save" /\ S!save(t, data[t])
         \/ pc[t] # "save" /\ (\/ t \in Workers /\ S!WorkerExits(t)
                              \/ S!StartDrain
                              \/ S!flush_and_stop
                              \/ UNCHANGED storage)
<1>1. CASE pc[t] = "save"
  BY <1>1 DEF StorageCall
<1>2. CASE pc[t] = "loop"
  BY <1>2 DEF StorageCall
<1>3. CASE pc[t] = "join"
  BY <1>3 DEF StorageCall
<1>4. CASE pc[t] = "flush_storage"
  BY <1>4 DEF StorageCall
<1>5. CASE pc[t] \notin {"save", "loop", "join", "flush_storage"}
  BY <1>5 DEF StorageCall
<1> QED
  BY <1>1, <1>2, <1>3, <1>4, <1>5

LEMMA StorageStep ==
  PP!Shape /\ [Next]_vars => [S!Next]_(S!vars) /\ [SP!Next]_(SP!vars)
<1> SUFFICES ASSUME PP!Shape, [Next]_vars
             PROVE  [S!Next]_(S!vars) /\ [SP!Next]_(SP!vars)
  OBVIOUS
<1>1. ASSUME S!Next
      PROVE  [S!Next]_(S!vars) /\ [SP!Next]_(SP!vars)
  BY <1>1, SameStorage
<1>2. ASSUME UNCHANGED storage
      PROVE  [S!Next]_(S!vars) /\ [SP!Next]_(SP!vars)
  BY <1>2, StorageSame
<1>3. ASSUME NEW t \in P!Threads, ThreadStep(t)
      PROVE  S!Next \/ UNCHANGED storage
  BY <1>3, Calls, SaveCall DEF ThreadStep, S!Next, S!Shutdown
<1>4. ASSUME NEW t \in S!Threads, FlushStep(t)
      PROVE  S!Next
  BY <1>4 DEF FlushStep, S!Next
<1>5. ASSUME PeriodicFlush \/ DestroyStorage
      PROVE  S!Next
  BY <1>5 DEF PeriodicFlush, DestroyStorage, S!Next, S!Shutdown
<1> QED
  BY <1>1, <1>2, <1>3, <1>4, <1>5 DEF Next, Around, Ended, vars

(***************************************************************************)
(* In the composition Storage is called as its specification expects: only *)
(* by workers and the main thread, with each event once, and destroyed in  *)
(* the order in which the shutdown of Processor goes.                      *)
(***************************************************************************)
THEOREM StorageRuns == Spec => S!Spec
<1>1. Init => S!Init
  BY DEF Init
<1>2. Spec => []PP!Shape
  BY ProcessorHolds, PTL
<1> QED
  BY <1>1, <1>2, StorageStep, PTL DEF Spec, S!Spec

LEMMA StorageHolds ==
  Spec => [](SP!TypeInv /\ SP!Conservation /\ SP!ShutdownShape) /\ []SP!CountersExact
            /\ []SP!DestroyedIsSettled
<1>1. Init => SP!Init
  BY SameStorage DEF Init
<1>2. Spec => []PP!Shape
  BY ProcessorHolds, PTL
<1>3. Spec => SP!Spec
  BY <1>1, <1>2, StorageStep, PTL DEF Spec, SP!Spec
<1>4. SP!Spec => [](SP!TypeInv /\ SP!Conservation /\ SP!ShutdownShape)
  BY StorageFits, SP!StorageInvariant
<1>5. SP!Spec => []SP!CountersExact
  BY StorageFits, SP!CountersAreExact
<1>6. SP!Spec => []SP!DestroyedIsSettled
  BY StorageFits, SP!NothingLeftBehind
<1> QED
  BY <1>3, <1>4, <1>5, <1>6, PTL

-----------------------------------------------------------------------------
(***************************************************************************)
(* How the two components are related: Storage has been given exactly what *)
(* Processor has saved, and ~Storage begins after the body of ~Processor.  *)
(***************************************************************************)
Destroying ==
  \/ at[Main] \in {"join", "destroyed"}
  \/ at[Main] \in {"flush", "insert"} /\ ret[Main] = "destroyed"

Link ==
  /\ saved = hist.saved
  /\ Destroying => pc[Main] = "destroyed"

LEMMA SavedStep ==
  ASSUME PP!Shape, Config, NEW t \in P!Threads, ThreadStep(t)
  PROVE  hist'.saved = IF pc[t] = "save" THEN hist.saved \cup {data[t]} ELSE hist.saved
<1>0. t \in PP!Threads /\ (PP!ThreadStep(t) \/ (t = Main /\ PP!StopStep))
  BY SameThreadStep, SameStopStep, SameProcessor DEF ThreadStep
<1>1. CASE PP!EventStep(t)
  <2>1. CASE pc[t] = "save"
    <3>1. PP!Save(t)
      BY <1>1, <2>1 DEF PP!EventStep, PP!Received, PP!Parse, PP!Validate, PP!Allow,
                        PP!RateLimited, PP!Produce, PP!Retry
    <3> QED
      BY <1>0, <2>1, <3>1, ProcessorFits, PP!SaveFinishes DEF Config
  <2>2. CASE pc[t] # "save"
    <3>1. ~PP!Save(t)
      BY <2>2 DEF PP!Save, PP!SaveIf
    <3>2. PP!Kept \/ \E c \in PP!Drops : PP!Drop(t, c) /\ pc[t] \in PP!Working
      BY <1>0, <1>1, <3>1, ProcessorFits, PP!HeldSteps
    <3> QED
      BY <1>0, <2>2, <3>2, ProcessorFits, PP!DropFinishes DEF PP!Kept
  <2> QED
    BY <2>1, <2>2
<1>2. CASE PP!CheckRunning(t) \/ PP!Pop(t) \/ PP!PollReturns(t)
  BY <1>2 DEF PP!CheckRunning, PP!LoopOr, PP!Pop, PP!PopOr, PP!PollReturns, PP!Skip
<1>3. CASE t = Main /\ PP!Drain
  BY <1>3 DEF PP!Drain, PP!PopOr
<1>4. CASE t = Main /\ PP!StopStep /\ ~PP!Drain
  <2>1. pc[t] # "save"
    BY <1>4 DEF PP!StopStep, PP!JoinThreads, PP!JoinAll, PP!FlushStorage, PP!FlushDone,
                PP!FlushTimeout, PP!Destroy
  <2>2. hist'.saved = hist.saved
    BY <1>4, ProcessorFits, PP!StopSteps DEF PP!StopStep, PP!Kept
  <2> QED
    BY <2>1, <2>2
<1> QED
  BY <1>0, <1>1, <1>2, <1>3, <1>4 DEF PP!ThreadStep

(* ~Processor is over: its threads have ended. *)
LEMMA DestroyedRests ==
  ASSUME PP!Shape, pc[Main] = "destroyed", NEW t \in P!Threads
  PROVE  ~ThreadStep(t) /\ ~Around
<1>1. t # Main => pc[t] = "joined"
  BY DEF PP!Shape, PP!ThreadShape, PP!Joined, P!Threads
<1>2. ~P!ThreadStep(t)
  BY <1>1 DEF P!ThreadStep, P!CheckRunning, P!LoopOr, P!Pop, P!EventStep, P!Received,
       P!Parse, P!Validate, P!Allow, P!RateLimited, P!Produce, P!Retry, P!Save, P!SaveIf,
       P!PollReturns
<1>3. ~P!StopStep
  BY DEF P!StopStep, P!JoinThreads, P!JoinAll, P!Drain, P!FlushStorage, P!FlushDone,
       P!FlushTimeout, P!Destroy
<1> QED
  BY <1>2, <1>3 DEF ThreadStep, Around, P!StopBegins, P!Enqueue

(* No call of Processor starts the destructor of Storage ... *)
LEMMA CallsDoNotDestroy ==
  ASSUME SP!TypeInv, NEW t, StorageCall(t), ~Destroying
  PROVE  ~Destroying'
<1>0. at \in [S!Threads -> SP!PCs] /\ ret \in [S!Threads -> SP!PCs] /\ Main \in S!Threads
  BY SameStorage DEF SP!TypeInv, SP!TypeOK, S!Threads
<1> USE <1>0 DEF Destroying
<1>1. CASE UNCHANGED storage
  BY <1>1 DEF storage
<1>2. CASE S!StartDrain \/ S!WorkerExits(t)
  BY <1>2 DEF S!StartDrain, S!WorkerExits, S!Goto
<1>3. CASE S!flush_and_stop
  BY <1>3 DEF S!flush_and_stop, S!FlushBuffer, S!Swap, S!TakeBatch, S!Goto
<1>4. CASE S!save(t, data[t])
  <2>1. CASE UNCHANGED <<at, ret>>
    BY <2>1
  <2>2. CASE \E b : S!Swap(t, b, at[t])
    BY <1>4, <2>2 DEF S!save, S!Swap, S!TakeBatch, S!Goto
  <2> QED
    BY <1>4, <2>1, <2>2 DEF S!save, S!PushBack, S!PushBackUpTo, S!Keep
<1> QED
  BY <1>1, <1>2, <1>3, <1>4, Calls

(* ... nor does a flush, or the flush thread. *)
LEMMA FlushDoesNotDestroy ==
  ASSUME SP!TypeInv, SP!ShutdownShape, ~Destroying,
         PeriodicFlush \/ \E t \in S!Threads : FlushStep(t)
  PROVE  ~Destroying'
<1>0. /\ at \in [S!Threads -> SP!PCs] /\ ret \in [S!Threads -> SP!PCs]
      /\ Main \in S!Threads /\ Main # Flusher
      /\ at[Main] \in {"flush", "insert"} => ret[Main] \in {"drain", "stopped", "destroyed"}
  BY SameStorage, StorageFits
  DEF SP!TypeInv, SP!TypeOK, S!Threads, SP!ShutdownShape, SP!Flushing, SP!StorageAssumption
<1> USE <1>0 DEF Destroying
<1>1. CASE PeriodicFlush
  BY <1>1 DEF PeriodicFlush, S!CheckRunning, S!WakeUp, S!WakeUpOr, S!FlushBuffer, S!Swap,
              S!TakeBatch, S!Goto
<1>2. ASSUME NEW t \in S!Threads, S!Insert(t) \/ S!InsertThrows(t)
      PROVE  ~Destroying'
  BY <1>2 DEF S!Insert, S!InsertUpTo, S!InsertThrows, S!ThrowAndSet, S!Goto
<1>3. ASSUME NEW t \in S!Threads, S!InsertReturns(t) \/ S!write_dead_letter(t)
      PROVE  ~Destroying'
  <2>1. at[t] \in {"flush", "insert"} /\ at' = [at EXCEPT ![t] = ret[t]] /\ ret' = ret
    BY <1>3 DEF S!InsertReturns, S!ReturnCounting, S!write_dead_letter, S!Return, S!Goto
  <2> QED
    BY <2>1
<1> QED
  BY <1>1, <1>2, <1>3 DEF FlushStep, S!FlushStep

LEMMA LinkStep ==
  Config /\ PP!Shape /\ SP!TypeInv /\ SP!ShutdownShape /\ Link /\ [Next]_vars => Link'
<1> SUFFICES ASSUME Config, PP!Shape, SP!TypeInv, SP!ShutdownShape, Link, [Next]_vars
             PROVE  Link'
  OBVIOUS
<1>1. ASSUME NEW t \in P!Threads, ThreadStep(t)
      PROVE  Link'
  <2>1. saved' = IF pc[t] = "save" THEN saved \cup {data[t]} ELSE saved
    <3>1. StorageCall(t)
      BY <1>1 DEF ThreadStep
    <3> QED
      BY <3>1, Calls DEF S!save, S!WorkerExits, S!StartDrain, S!flush_and_stop, storage
  <2>2. saved' = hist'.saved
    BY <1>1, <2>1, SavedStep DEF Link
  <2>3. ~Destroying
    BY <1>1, DestroyedRests DEF Link
  <2>4. ~Destroying'
    BY <1>1, <2>3, CallsDoNotDestroy DEF ThreadStep
  <2> QED
    BY <2>2, <2>4 DEF Link
<1>2. CASE Around
  <2>1. Main \in P!Threads
    BY DEF P!Threads
  <2>2. ~Destroying
    BY <1>2, <2>1, DestroyedRests DEF Link
  <2>3. hist'.saved = hist.saved
    BY <1>2 DEF Around, P!StopBegins, P!Enqueue, P!Note, PP!Shape, PP!TypeOK, PP!Histories
  <2> QED
    BY <1>2, <2>2, <2>3 DEF Link, Around, Destroying, storage
<1>3. CASE PeriodicFlush \/ \E t \in S!Threads : FlushStep(t)
  <2>1. saved' = saved
    BY <1>3 DEF PeriodicFlush, FlushStep, S!CheckRunning, S!WakeUp, S!WakeUpOr, S!FlushStep,
                S!Insert, S!InsertUpTo, S!InsertReturns, S!ReturnCounting, S!InsertThrows,
                S!ThrowAndSet, S!write_dead_letter
  <2>2. UNCHANGED <<hist, pc>>
    BY <1>3 DEF PeriodicFlush, FlushStep, processor
  <2>3. ~Destroying => ~Destroying'
    BY <1>3, FlushDoesNotDestroy
  <2> QED
    BY <2>1, <2>2, <2>3 DEF Link
<1>4. CASE DestroyStorage
  BY <1>4 DEF DestroyStorage, Link, processor, S!StopFlusher, S!ClearAndJoin, S!JoinFlusher,
              S!FlushAfter
<1>5. CASE UNCHANGED vars
  BY <1>5 DEF vars, processor, storage, Link, Destroying
<1> QED
  BY <1>1, <1>2, <1>3, <1>4, <1>5 DEF Next, Ended

LEMMA LinkHolds == Spec => []Link
<1>1. Init => Link
  <2> SUFFICES ASSUME Init PROVE Link
    OBVIOUS
  <2>1. saved = {} /\ hist.saved = {}
    BY DEF Init, P!Init, S!Init
  <2>2. at[Main] = "serve"
    BY StorageFits DEF Init, S!Init, S!Threads, SP!StorageAssumption
  <2> QED
    BY <2>1, <2>2 DEF Link, Destroying
<1> QED
  BY <1>1, LinkStep, ProcessorHolds, StorageHolds, PTL DEF Spec

-----------------------------------------------------------------------------
(* Each instance has its own name for Cardinality. *)
LEMMA Sizes ==
  ASSUME NEW X
  PROVE  /\ PP!Cardinality(X) = Cardinality(X) /\ P!Cardinality(X) = Cardinality(X)
         /\ SP!Cardinality(X) = Cardinality(X) /\ S!Cardinality(X) = Cardinality(X)
BY DEF PP!Cardinality, P!Cardinality, SP!Cardinality, S!Cardinality, Cardinality

LEMMA Together ==
  ASSUME NEW A \in SUBSET Events, NEW B \in SUBSET Events, A \cap B = {}
  PROVE  /\ Cardinality(A \cup B) = Cardinality(A) + Cardinality(B)
         /\ Cardinality(A) \in Nat /\ Cardinality(B) \in Nat
BY StorageFits, SP!DisjointSum, Sizes

(* What Storage was given is in it or settled. *)
LEMMA SavedCount ==
  ASSUME SP!TypeInv, SP!Conservation, SP!CountersExact
  PROVE  /\ Cardinality(saved) = Held + Settled
         /\ Held \in Nat /\ Settled \in Nat /\ Cardinality(lost) \in Nat
         /\ Settled = Cardinality(acked \cup S!GivenUp)
         /\ saved = acked \cup S!GivenUp => Held = 0
<1>0. /\ buffer_ \in SUBSET Events /\ acked \in SUBSET Events /\ dead \in SUBSET Events
      /\ unwritten \in SUBSET Events /\ lost \in SUBSET Events
      /\ batch \in [S!Threads -> SUBSET Events]
  BY SameStorage DEF SP!TypeInv, SP!TypeOK
<1>1. S!InFlight = SP!InFlight /\ S!GivenUp = SP!GivenUp /\ S!InFlight \in SUBSET Events
  BY <1>0, SameStorage DEF S!InFlight, SP!InFlight, S!GivenUp, SP!GivenUp
<1>2. /\ saved = (buffer_ \cup S!InFlight) \cup (acked \cup S!GivenUp)
      /\ buffer_ \cap S!InFlight = {}
      /\ (buffer_ \cup S!InFlight) \cap (acked \cup S!GivenUp) = {}
      /\ acked \cap S!GivenUp = {}
  BY <1>1 DEF SP!Conservation, SP!NothingMissing, SP!StagesDisjoint
<1>3. /\ S!GivenUp = (dead \cup unwritten) \cup lost
      /\ (dead \cup unwritten) \cap lost = {} /\ dead \cap unwritten = {}
  BY DEF S!GivenUp, SP!Conservation, SP!StagesDisjoint
<1>4. /\ Cardinality(dead \cup unwritten) = Cardinality(dead) + Cardinality(unwritten)
      /\ Cardinality(dead) \in Nat /\ Cardinality(unwritten) \in Nat
  BY <1>0, <1>3, Together
<1>5. /\ Cardinality(S!GivenUp) = Cardinality(dead \cup unwritten) + Cardinality(lost)
      /\ Cardinality(lost) \in Nat /\ S!GivenUp \in SUBSET Events
  <2>1. dead \cup unwritten \in SUBSET Events /\ S!GivenUp \in SUBSET Events
    BY <1>0, <1>3
  <2> QED
    BY <1>0, <1>3, <2>1, Together
<1>6. /\ Cardinality(acked \cup S!GivenUp) = Cardinality(acked) + Cardinality(S!GivenUp)
      /\ Cardinality(acked) \in Nat
  BY <1>0, <1>2, <1>5, Together
<1>7. Settled = Cardinality(acked \cup S!GivenUp) /\ Settled \in Nat
  <2>1. /\ store_metrics_.total_stored = Cardinality(acked)
        /\ store_metrics_.total_store_dead = Cardinality(dead) + Cardinality(unwritten)
    BY Sizes DEF SP!CountersExact
  <2> QED
    BY <1>4, <1>5, <1>6, <2>1 DEF Settled
<1>8. Held = Cardinality(buffer_ \cup S!InFlight) /\ Held \in Nat
  <2>1. /\ Cardinality(buffer_ \cup S!InFlight) = Cardinality(buffer_) + Cardinality(S!InFlight)
        /\ Cardinality(buffer_) \in Nat /\ Cardinality(S!InFlight) \in Nat
    BY <1>0, <1>1, <1>2, Together
  <2> QED
    BY <2>1 DEF Held
<1>9. Cardinality(saved) = Held + Settled
  <2>1. buffer_ \cup S!InFlight \in SUBSET Events /\ acked \cup S!GivenUp \in SUBSET Events
    BY <1>0, <1>1, <1>5
  <2> QED
    BY <1>2, <1>7, <1>8, <2>1, Together
<1> QED
  BY <1>5, <1>7, <1>8, <1>9

(***************************************************************************)
(* Between the two components no event is lost or counted twice, however   *)
(* workers, flush thread, drain and destructors interleave: a valid event  *)
(* that was not rate-limited is in the hands of one thread of Processor,   *)
(* in the buffer or a batch of Storage, or settled there.                  *)
(***************************************************************************)
THEOREM NothingBetween == Spec => []NoEventBetween
<1>1. Config /\ PP!Shape /\ PP!KafkaNeverCostsStorage /\ Link /\ SP!TypeInv /\ SP!Conservation
        /\ SP!CountersExact => NoEventBetween
  <2> SUFFICES ASSUME Config, PP!Shape, PP!KafkaNeverCostsStorage, Link, SP!TypeInv,
                      SP!Conservation, SP!CountersExact
               PROVE  NoEventBetween
    OBVIOUS
  <2> DEFINE L == {"limit", "produce", "poll", "retry", "save"}
  <2>1. P!At(L) = PP!At(L)
    BY Sizes, SameProcessor DEF P!At, PP!At
  <2>2. Cardinality(saved) + PP!At(L) = metrics_["valid"] - metrics_["rate_limited"]
    BY Sizes DEF PP!KafkaNeverCostsStorage, Config, Link
  <2>3. PP!At(L) \in Nat
    <3>1. PP!IsFiniteSet(PP!Threads)
      BY ProcessorFits, PP!ThreadsFinite
    <3>2. IsFiniteSet(PP!Threads)
      BY <3>1 DEF PP!IsFiniteSet, IsFiniteSet
    <3>3. IsFiniteSet({t \in PP!Threads : pc[t] \in L})
      BY <3>2, FS_Subset
    <3> QED
      BY <3>3, FS_CardinalityType, Sizes DEF PP!At
  <2> HIDE DEF L
  <2>4. metrics_["valid"] - metrics_["rate_limited"] = P!At(L) + Held + Settled
    BY <2>1, <2>2, <2>3, SavedCount
  <2> QED
    BY <2>4 DEF NoEventBetween, L
<1> QED
  BY <1>1, ProcessorHolds, StorageHolds, LinkHolds, PTL

(***************************************************************************)
(* After the shutdown of both components the counters and the lost events  *)
(* account for every event that was pushed, and nothing is left in either. *)
(***************************************************************************)
THEOREM ShutdownAccounts == Spec => []FinalAccount
<1>1. Config /\ PP!Shape /\ PP!StoreInv /\ PP!StopLeavesNothing /\ Link /\ SP!TypeInv
        /\ SP!Conservation /\ SP!CountersExact /\ SP!DestroyedIsSettled => FinalAccount
  <2> SUFFICES ASSUME Config, PP!Shape, PP!StoreInv, PP!StopLeavesNothing, Link, SP!TypeInv,
                      SP!Conservation, SP!CountersExact, SP!DestroyedIsSettled,
                      at[Main] = "destroyed"
               PROVE  /\ Held = 0
                      /\ Cardinality(hist.pushed) = metrics_["parse_fail"] + metrics_["invalid"]
                                    + metrics_["rate_limited"] + Settled
    BY DEF FinalAccount
  <2>1. pc[Main] = "destroyed"
    BY DEF Link, Destroying
  <2>2. Held = 0
    BY SavedCount DEF SP!DestroyedIsSettled, SP!GivenUp, S!GivenUp
  <2>3. PP!Sunk = saved
    BY DEF PP!StoreInv, Link, Config
  <2>4. Cardinality(PP!Sunk) = Settled
    BY <2>2, <2>3, SavedCount
  <2>5. Cardinality(hist.pushed) = metrics_["parse_fail"] + metrics_["invalid"]
                                    + metrics_["rate_limited"] + Cardinality(PP!Sunk)
    BY <2>1, Sizes DEF PP!StopLeavesNothing
  <2> QED
    BY <2>2, <2>4, <2>5
<1> QED
  BY <1>1, ProcessorHolds, StorageHolds, LinkHolds, PTL
===============================================================================
