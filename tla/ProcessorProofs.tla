--------------------------- MODULE ProcessorProofs ---------------------------
(***************************************************************************)
(* Proofs about Processor for any number of workers and events, any        *)
(* capacity of the producer's queue and every configuration of sinks.      *)
(***************************************************************************)
EXTENDS Processor, FiniteSetTheorems, SequenceTheorems, TLAPS

(* The labels of Main outside of the path of an event. *)
MainLabels == {"serve", "join", "drain", "flush_storage", "flush", "stopped", "destroyed"}

(* stop is past the join of the threads. *)
Joined == pc[Main] \notin {"serve", "join"}

(***************************************************************************)
(* Where the threads can be: only Main drains and flushes, only the poll   *)
(* thread polls for nothing, the others have ended when Main is past the   *)
(* join, and a message is retried only if there is a topic.                *)
(***************************************************************************)
ThreadShape ==
  /\ running_ <=> pc[Main] = "serve"
  /\ pc[Poller] \in {"loop", "polling", "joined"}
  /\ \A w \in Workers : pc[w] \in {"loop", "pop", "joined"} \cup Working
  /\ pc[Main] \in MainLabels \cup (Working \ {"limit"})
  /\ Joined => \A t \in Workers \cup {Poller} : pc[t] = "joined"
  /\ \A t \in Threads : pc[t] \in {"poll", "retry"} => KafkaOn

Shape == TypeOK /\ ThreadShape

-----------------------------------------------------------------------------
LEMMA ThreadSet ==
  /\ Main \in Threads /\ Poller \in Threads /\ Workers \subseteq Threads
  /\ Threads = Workers \cup {Poller, Main}
  /\ Main \notin Workers /\ Poller \notin Workers /\ Main # Poller
BY ProcessorAssumption DEF Threads

(* What the threads share, typed. *)
Bags ==
  /\ queue_ \in Seq(Events)
  /\ metrics_ \in [Counters -> Nat]
  /\ outq \subseteq Events /\ broker \subseteq Events /\ unreported \subseteq Events
  /\ reports \subseteq Events \X BOOLEAN
  /\ hist \in Histories
  /\ crashed \in BOOLEAN

(* A thread holds an event exactly while it works on one. *)
Hands ==
  /\ pc \in [Threads -> PCs]
  /\ data \in [Threads -> Events \cup {NoEvent}]
  /\ \A t \in Threads : data[t] \in Events <=> pc[t] \in Working

LEMMA ShapeParts ==
  Shape <=> /\ cfg \in Configs /\ opaque \in Opaques /\ running_ \in BOOLEAN
            /\ Bags /\ Hands /\ ThreadShape
BY DEF Shape, TypeOK, Bags, Hands

LEMMA InitShape == Init => Shape
<1> SUFFICES ASSUME Init PROVE Shape
  OBVIOUS
<1>1. \A t \in Threads : pc[t] = IF t = Main THEN "serve"
                                 ELSE IF t = Poller THEN IF cfg.producer_ THEN "loop" ELSE "joined"
                                 ELSE "loop"
  BY ThreadSet DEF Init
<1>2. pc \in [Threads -> PCs]
  BY <1>1 DEF Init, PCs
<1>3. hist \in Histories
  BY DEF Init, Histories, Fates
<1>4. Bags
  <2>1. queue_ \in Seq(Events) /\ outq = {} /\ reports = {} /\ broker = {} /\ unreported = {}
    BY DEF Init
  <2> QED
    BY <1>3, <2>1 DEF Init, Bags
<1>5. Hands
  BY <1>1, <1>2, ProcessorAssumption DEF Init, Hands, Working
<1>6. ThreadShape
  BY <1>1, ThreadSet DEF Init, ThreadShape, MainLabels, Working, Joined
<1> QED
  BY <1>4, <1>5, <1>6, ShapeParts DEF Init

(* The step of one thread, whatever it does to the shared state. *)
LEMMA MoveShape ==
  ASSUME Shape, NEW t \in Threads, NEW l \in PCs, Goto(t, l), Bags',
         NEW d \in Events \cup {NoEvent}, data' = [data EXCEPT ![t] = d],
         d \in Events <=> l \in Working,
         UNCHANGED <<cfg, opaque, running_>>,
         t = Main => /\ l \in (MainLabels \ {"serve", "join"}) \cup (Working \ {"limit"})
                     /\ pc[t] # "serve"
                     /\ \A u \in Workers \cup {Poller} : pc[u] = "joined",
         t = Poller => l \in {"loop", "polling", "joined"},
         t \in Workers => l \in {"loop", "pop", "joined"} \cup Working,
         t # Main => pc[t] # "joined",
         l \in {"poll", "retry"} => KafkaOn
  PROVE  Shape'
<1>0. pc'[t] = l /\ \A u \in Threads \ {t} : pc'[u] = pc[u]
  BY ShapeParts DEF Hands, Goto
<1>1. Hands'
  BY ShapeParts DEF Hands, Goto
<1>2. ThreadShape'
  <2>2. KafkaOn' = KafkaOn
    BY DEF KafkaOn
  <2>3. CASE t = Main
    <3>1. l # "serve"
      BY <2>3 DEF Working
    <3>2. \A u \in Workers \cup {Poller} : pc'[u] = "joined"
      BY <1>0, <2>3, ThreadSet
    <3> QED
      BY <1>0, <2>2, <2>3, <3>1, <3>2, ThreadSet DEF Shape, TypeOK, ThreadShape, Joined, Working
  <2>4. CASE t # Main
    BY <1>0, <2>2, <2>4, ThreadSet DEF Shape, ThreadShape, Joined
  <2> QED
    BY <2>3, <2>4
<1> QED
  BY <1>1, <1>2 DEF Shape, TypeOK, Bags, Hands

(* A step of no thread of this component, or of one inside of librdkafka. *)
LEMMA StayShape ==
  ASSUME Shape, Bags', UNCHANGED <<cfg, opaque, running_, pc, data>>
  PROVE  Shape'
<1>1. ThreadShape'
  BY DEF Shape, ThreadShape, Joined, KafkaOn
<1> QED
  BY <1>1 DEF Shape, TypeOK, Bags, Hands

(* A thread that works on an event: a worker, or Main in the drain. *)
LEMMA AtWork ==
  ASSUME Shape, NEW t \in Threads, pc[t] \in Working
  PROVE  /\ data[t] \in Events /\ t # Poller /\ (t = Main \/ t \in Workers)
         /\ t = Main => \A u \in Workers \cup {Poller} : pc[u] = "joined"
         /\ t = Main => pc[t] # "limit"
         /\ pc[t] \notin {"serve", "joined"}
<1>1. data[t] \in Events /\ pc[t] \notin MainLabels \cup {"joined", "polling", "loop"}
  BY DEF Shape, TypeOK, Working, MainLabels
<1>2. pc[Main] \in Working => Joined
  BY DEF Joined, Working
<1> QED
  BY <1>1, <1>2, ThreadSet DEF Shape, ThreadShape, MainLabels

(* A step on the path of an event ... *)
LEMMA WorkShape ==
  ASSUME Shape, NEW t \in Threads, pc[t] \in Working, NEW l \in Working, Goto(t, l),
         t = Main => l # "limit", Bags', UNCHANGED <<cfg, opaque, running_, data>>,
         l \in {"poll", "retry"} => KafkaOn
  PROVE  Shape'
<1>1. l \in PCs
  BY DEF Working, PCs
<1>2. data[t] \in Events /\ data' = [data EXCEPT ![t] = data[t]]
  BY AtWork DEF Shape, TypeOK
<1> QED
  BY <1>1, <1>2, AtWork, MoveShape

(* ... and its end. *)
LEMMA DoneShape ==
  ASSUME Shape, NEW t \in Threads, pc[t] \in Working, Goto(t, Again(t)), Bags',
         data' = [data EXCEPT ![t] = NoEvent], UNCHANGED <<cfg, opaque, running_>>
  PROVE  Shape'
<1>1. Again(t) \in PCs \ Working /\ Again(t) \notin {"poll", "retry"} /\ NoEvent \notin Events
  BY ProcessorAssumption DEF Again, PCs, Working
<1>2. /\ t = Main => Again(t) \in MainLabels \ {"serve", "join"}
      /\ t # Main => Again(t) = "loop"
  BY DEF Again, MainLabels
<1> QED
  BY <1>1, <1>2, AtWork, MoveShape

LEMMA CounterStep ==
  ASSUME Shape, NEW c \in Counters, fetch_add(c)
  PROVE  /\ metrics_' \in [Counters -> Nat]
         /\ metrics_'[c] = metrics_[c] + 1
         /\ \A k \in Counters \ {c} : metrics_'[k] = metrics_[k]
BY DEF Shape, TypeOK, fetch_add

(* What a step can do to the history. *)
LEMMA HistStep ==
  ASSUME Shape, NEW e \in Events, NEW F \in Fates, NEW b \in BOOLEAN
  PROVE  /\ [hist EXCEPT !["pushed"] = @ \cup {e}] \in Histories
         /\ [hist EXCEPT !["accepted"] = @ \cup {e}] \in Histories
         /\ [hist EXCEPT !.fate[e] = F] \in Histories
         /\ [hist EXCEPT !.fate[e] = F, !.saved = IF b THEN @ \cup {e} ELSE @] \in Histories
BY DEF Shape, TypeOK, Histories

LEMMA CountShape ==
  ASSUME Shape, NEW t \in Threads, pc[t] \in Working, NEW c \in Counters, NEW l \in Working,
         t = Main => l # "limit", l \notin {"poll", "retry"}, Count(t, c, l)
  PROVE  Shape'
<1>1. Bags'
  BY CounterStep DEF Shape, TypeOK, Bags, Count, kafka, env
<1> QED
  BY <1>1, WorkShape DEF Count, env

LEMMA DropShape ==
  ASSUME Shape, NEW t \in Threads, pc[t] \in Working,
         NEW c \in {"parse_fail", "invalid", "rate_limited"}, Drop(t, c)
  PROVE  Shape'
<1>1. c \in Counters /\ c \in Fates
  BY DEF Counters, Fates
<1>2. hist' \in Histories
  BY <1>1, AtWork, HistStep DEF Drop
<1>3. Bags'
  BY <1>1, <1>2, CounterStep DEF Shape, TypeOK, Bags, Drop, kafka, env
<1> QED
  BY <1>3, DoneShape DEF Drop, env

LEMMA SkipShape ==
  ASSUME Shape, NEW t \in Threads, pc[t] \in Working, NEW l \in Working,
         t = Main => l # "limit", l \in {"poll", "retry"} => KafkaOn, Skip(t, l)
  PROVE  Shape'
<1>1. Bags'
  BY DEF Shape, TypeOK, Bags, Skip, kafka, env
<1> QED
  BY <1>1, WorkShape DEF Skip, env

LEMMA ProduceOkShape ==
  ASSUME Shape, NEW t \in Threads, pc[t] \in Working, ProduceOk(t), UNCHANGED metrics_
  PROVE  Shape'
<1>1. hist' \in Histories /\ data[t] \in Events
  <2>1. data[t] \in Events /\ "sunk" \in Fates /\ TRUE \in BOOLEAN
    BY AtWork DEF Fates
  <2> QED
    BY <2>1, HistStep DEF ProduceOk, Note
<1>2. Bags'
  BY <1>1 DEF Shape, TypeOK, Bags, ProduceOk, env
<1> QED
  BY <1>2, WorkShape DEF ProduceOk, env, Working

LEMMA EventStepShape ==
  ASSUME Shape, NEW t \in Threads, EventStep(t)
  PROVE  Shape'
<1> USE DEF Working, Counters
<1>1. CASE Received(t)
  BY <1>1, CountShape DEF Received
<1>2. CASE Parse(t)
  BY <1>2, CountShape, DropShape DEF Parse
<1>3. CASE Validate(t)
  <2>1. CASE Drop(t, "invalid")
    BY <1>3, <2>1, DropShape DEF Validate
  <2>2. CASE Count(t, "valid", IF t = Main THEN "produce" ELSE "limit")
    BY <1>3, <2>2, CountShape DEF Validate
  <2> QED
    BY <1>3, <2>1, <2>2 DEF Validate
<1>4. CASE Allow(t)
  BY <1>4, SkipShape DEF Allow
<1>5. CASE RateLimited(t)
  BY <1>5, DropShape DEF RateLimited
<1>6. CASE Produce(t)
  BY <1>6, SkipShape, ProduceOkShape DEF Produce
<1>7. CASE Retry(t)
  BY <1>7, CountShape, ProduceOkShape DEF Retry
<1>8. CASE Save(t)
  <2>1. pc[t] \in Working /\ data[t] \in Events /\ "sunk" \in Fates /\ cfg.storage_ \in BOOLEAN
    BY <1>8, AtWork DEF Save, SaveIf, Fates, Shape, TypeOK, Configs
  <2>2. hist' \in Histories
    BY <1>8, <2>1, HistStep DEF Save, SaveIf
  <2>3. Bags'
    BY <1>8, <2>2 DEF Save, SaveIf, Shape, TypeOK, Bags, kafka, env
  <2> QED
    BY <1>8, <2>1, <2>3, DoneShape DEF Save, SaveIf, env
<1> QED
  BY <1>1, <1>2, <1>3, <1>4, <1>5, <1>6, <1>7, <1>8 DEF EventStep

(* A pop, in the loop of a worker and in the drain of stop. *)
LEMMA PopShape ==
  ASSUME Shape, NEW t \in Threads, NEW l \in {"loop", "flush_storage"}, PopOr(t, l),
         \/ t \in Workers /\ pc[t] = "pop" /\ l = "loop"
         \/ t = Main /\ pc[t] = "drain" /\ l = "flush_storage"
  PROVE  Shape'
<1> USE ThreadSet
<1>0. /\ t # Poller /\ pc[t] \notin Working
      /\ t = Main => \A u \in Workers \cup {Poller} : pc[u] = "joined"
  BY DEF Shape, ThreadShape, Joined, Working
<1>1. CASE queue_ = <<>>
  <2>1. l \in PCs /\ l \notin Working /\ "received" # l
    BY DEF PCs, Working
  <2>2. Bags' /\ UNCHANGED data /\ Goto(t, l)
    BY <1>1 DEF PopOr, Shape, TypeOK, Bags, env, kafka
  <2>3. data[t] \in Events \cup {NoEvent} /\ data[t] \notin Events
        /\ data' = [data EXCEPT ![t] = data[t]]
    BY <1>0, <2>2 DEF Shape, TypeOK
  <2> QED
    BY <1>0, <2>1, <2>2, <2>3, MoveShape DEF PopOr, env, MainLabels
<1>2. CASE queue_ # <<>>
  <2>1. Head(queue_) \in Events /\ Tail(queue_) \in Seq(Events)
    BY <1>2 DEF Shape, TypeOK
  <2>2. Bags' /\ data' = [data EXCEPT ![t] = Head(queue_)] /\ Goto(t, "received")
    BY <1>2, <2>1 DEF PopOr, Shape, TypeOK, Bags, env, kafka
  <2> QED
    BY <1>0, <2>1, <2>2, MoveShape DEF PopOr, env, Working, PCs
<1> QED
  BY <1>1, <1>2

(* The step of a thread that has no event and takes none. *)
LEMMA IdleShape ==
  ASSUME Shape, NEW t \in Threads, NEW l \in PCs, Goto(t, l), Bags',
         pc[t] \notin Working, l \notin Working,
         UNCHANGED <<cfg, opaque, running_, data>>,
         t = Main => /\ l \in MainLabels \ {"serve", "join"}
                     /\ pc[t] # "serve"
                     /\ \A u \in Workers \cup {Poller} : pc[u] = "joined",
         t = Poller => l \in {"loop", "polling", "joined"},
         t \in Workers => l \in {"loop", "pop", "joined"},
         t # Main => pc[t] # "joined"
  PROVE  Shape'
<1>1. data[t] \in Events \cup {NoEvent} /\ data[t] \notin Events
      /\ data' = [data EXCEPT ![t] = data[t]]
  BY DEF Shape, TypeOK
<1>2. l \notin {"poll", "retry"}
  BY DEF Working
<1> QED
  BY <1>1, <1>2, MoveShape

(* The two calls of rd_kafka_poll are told apart by the thread. *)
LEMMA PollAt ==
  ASSUME Shape, NEW t \in Threads, pc[t] \in {"poll", "polling"}
  PROVE  IF t = Poller THEN pc[t] = "polling" ELSE pc[t] = "poll"
<1>1. CASE t = Poller
  BY <1>1 DEF Shape, ThreadShape
<1>2. CASE t # Poller
  BY <1>2, ThreadSet DEF Shape, ThreadShape, Working, MainLabels
<1> QED
  BY <1>1, <1>2

LEMMA ThreadStepShape ==
  ASSUME Shape, NEW t \in Threads, ThreadStep(t)
  PROVE  Shape'
<1>1. CASE CheckRunning(t)
  <2> DEFINE l == IF ~running_ THEN "joined" ELSE IF t = Poller THEN "polling" ELSE "pop"
  <2>1. Bags' /\ Goto(t, l) /\ t # Main /\ pc[t] = "loop"
    BY <1>1 DEF CheckRunning, LoopOr, Shape, TypeOK, Bags, env, kafka
  <2>2. l \in PCs /\ l \notin Working /\ pc[t] \notin Working
    BY <2>1 DEF PCs, Working
  <2>3. t = Poller => l \in {"loop", "polling", "joined"}
    OBVIOUS
  <2>4. t \in Workers => l \in {"loop", "pop", "joined"}
    BY ThreadSet
  <2> HIDE DEF l
  <2> QED
    BY <1>1, <2>1, <2>2, <2>3, <2>4, IdleShape DEF CheckRunning, LoopOr, env
<1>2. CASE Pop(t)
  BY <1>2, PopShape DEF Pop
<1>3. CASE EventStep(t)
  BY <1>3, EventStepShape
<1>4. CASE PollReturns(t)
  <2>1. CASE t = Poller
    <3>1. pc[t] = "polling"
      BY <1>4, <2>1, PollAt DEF PollReturns
    <3>2. Bags'
      BY <1>4 DEF PollReturns, Skip, Shape, TypeOK, Bags, env, kafka
    <3> QED
      BY <1>4, <2>1, <3>1, <3>2, IdleShape, ThreadSet DEF PollReturns, Skip, env, PCs, Working
  <2>2. CASE t # Poller
    <3>1. pc[t] = "poll"
      BY <1>4, <2>2, PollAt DEF PollReturns
    <3>2. KafkaOn
      BY <3>1 DEF Shape, ThreadShape
    <3> QED
      BY <1>4, <2>2, <3>1, <3>2, SkipShape DEF PollReturns, Working
  <2> QED
    BY <2>1, <2>2
<1> QED
  BY <1>1, <1>2, <1>3, <1>4 DEF ThreadStep

(* The sessions, the broker, and a thread inside of librdkafka. *)
LEMMA OutsideShape ==
  ASSUME Shape,
         \/ \E e \in Events : Enqueue(e) \/ Deliver(e) \/ DeliveryFails(e)
         \/ \E t \in Threads : ServeReport(t)
  PROVE  Shape'
<1>1. ASSUME NEW e \in Events, Enqueue(e)
      PROVE  Bags' /\ UNCHANGED <<cfg, opaque, running_, pc, data>>
  <2>1. "sunk" \in Fates /\ TRUE \in BOOLEAN
    BY DEF Fates
  <2>2. hist' \in Histories
    BY <1>1, <2>1, HistStep DEF Enqueue, Note
  <2>3. queue_' \in Seq(Events)
    BY <1>1 DEF Enqueue, Shape, TypeOK
  <2> QED
    BY <1>1, <2>2, <2>3 DEF Enqueue, Shape, TypeOK, Bags, env, kafka
<1>2. ASSUME NEW e \in Events, Deliver(e) \/ DeliveryFails(e)
      PROVE  Bags' /\ UNCHANGED <<cfg, opaque, running_, pc, data>>
  <2>1. /\ outq' \subseteq Events /\ broker' \subseteq Events
        /\ reports' \subseteq Events \X BOOLEAN
    <3>1. /\ outq \subseteq Events /\ broker \subseteq Events
          /\ reports \subseteq Events \X BOOLEAN
      BY DEF Shape, TypeOK
    <3>2. /\ outq' = outq \ {e} /\ broker' \in {broker, broker \cup {e}}
          /\ \E b \in BOOLEAN : reports' = reports \cup {<<e, b>>}
      BY <1>2 DEF Deliver, DeliveryFails
    <3> QED
      BY <3>1, <3>2
  <2>2. UNCHANGED <<env, queue_, pc, data, metrics_, unreported, hist>>
    BY <1>2 DEF Deliver, DeliveryFails
  <2> QED
    BY <2>1, <2>2 DEF Shape, TypeOK, Bags, env
<1>3. ASSUME NEW t \in Threads, ServeReport(t)
      PROVE  Bags' /\ UNCHANGED <<cfg, opaque, running_, pc, data>>
  <2>1. metrics_' \in [Counters -> Nat] /\ crashed' \in BOOLEAN
    BY <1>3, CounterStep DEF ServeReport, ServeAt, dr_msg_cb, Counters, Shape, TypeOK
  <2> QED
    BY <1>3, <2>1 DEF ServeReport, ServeAt, Shape, TypeOK, Bags
<1> QED
  BY <1>1, <1>2, <1>3, StayShape

LEMMA StopShape ==
  ASSUME Shape, StopBegins \/ StopStep
  PROVE  Shape'
<1> USE ThreadSet
<1>0. /\ pc[Main] \notin {"serve", "join"} => \A u \in Workers \cup {Poller} : pc[u] = "joined"
      /\ Main \notin Workers /\ Main # Poller
  BY DEF Shape, ThreadShape, Joined
<1>1. ASSUME NEW l \in MainLabels \ {"serve", "join"}, Goto(Main, l), Bags',
             pc[Main] \in MainLabels \ {"serve"}, UNCHANGED <<cfg, opaque, running_, data>>,
             \A u \in Workers \cup {Poller} : pc[u] = "joined"
      PROVE  Shape'
  <2>1. l \in PCs /\ l \notin Working /\ pc[Main] \notin Working /\ pc[Main] # "serve"
    BY <1>1 DEF MainLabels, PCs, Working
  <2> QED
    BY <1>0, <1>1, <2>1, IdleShape
<1>2. CASE StopBegins
  <2>1. pc'[Main] = "join" /\ \A u \in Threads \ {Main} : pc'[u] = pc[u]
    BY <1>2 DEF StopBegins, Goto, Shape, TypeOK
  <2>2. Hands'
    BY <1>2, ShapeParts DEF Hands, StopBegins, Goto, PCs, Working
  <2>3. ThreadShape'
    BY <1>2, <2>1 DEF StopBegins, Shape, ThreadShape, Joined, MainLabels, KafkaOn
  <2> QED
    BY <1>2, <2>2, <2>3 DEF StopBegins, Shape, TypeOK, Hands, kafka
<1>3. CASE JoinThreads
  <2>1. Bags'
    BY <1>3 DEF JoinThreads, JoinAll, Skip, Shape, TypeOK, Bags, env, kafka
  <2> QED
    BY <1>1, <1>3, <2>1 DEF JoinThreads, JoinAll, Skip, env, MainLabels
<1>4. CASE Drain
  BY <1>4, PopShape DEF Drain
<1>5. CASE FlushStorage
  <2>1. hist' \in Histories
    BY <1>5 DEF FlushStorage, Shape, TypeOK, Histories
  <2>2. Bags'
    BY <1>5, <2>1 DEF FlushStorage, Shape, TypeOK, Bags, env, kafka
  <2> QED
    BY <1>0, <1>1, <1>5, <2>2 DEF FlushStorage, env, MainLabels
<1>6. CASE FlushDone
  <2>1. hist' \in Histories
    BY <1>6 DEF FlushDone, Shape, TypeOK, Histories
  <2>2. Bags'
    BY <1>6, <2>1 DEF FlushDone, Shape, TypeOK, Bags, env, kafka
  <2> QED
    BY <1>0, <1>1, <1>6, <2>2 DEF FlushDone, env, MainLabels
<1>7. CASE FlushTimeout
  <2>1. hist' \in Histories
    BY <1>7 DEF FlushTimeout, Shape, TypeOK, Histories
  <2>2. Bags'
    BY <1>7, <2>1 DEF FlushTimeout, Shape, TypeOK, Bags, env
  <2> QED
    BY <1>0, <1>1, <1>7, <2>2 DEF FlushTimeout, env, MainLabels
<1>8. CASE Destroy
  <2>1. {r[1] : r \in reports} \subseteq Events
    BY DEF Shape, TypeOK
  <2>2. Bags'
    BY <1>8, <2>1 DEF Destroy, Shape, TypeOK, Bags, env
  <2> QED
    BY <1>0, <1>1, <1>8, <2>2 DEF Destroy, env, MainLabels
<1> QED
  BY <1>2, <1>3, <1>4, <1>5, <1>6, <1>7, <1>8 DEF StopStep

LEMMA NextShape == Shape /\ [Next]_vars => Shape'
<1> SUFFICES ASSUME Shape, [Next]_vars PROVE Shape'
  OBVIOUS
<1>1. CASE UNCHANGED vars
  <2>1. Bags'
    BY <1>1 DEF vars, env, kafka, Shape, TypeOK, Bags
  <2> QED
    BY <1>1, <2>1, StayShape DEF vars, env
<1>2. CASE Ended
  BY <1>1, <1>2 DEF Ended
<1> QED
  BY <1>1, <1>2, OutsideShape, ThreadStepShape, StopShape DEF Next

LEMMA ShapeHolds == Spec => []Shape
BY InitShape, NextShape, PTL DEF Spec

(***************************************************************************)
(* TypeOK holds in every reachable state of the Processor; with it, a      *)
(* thread holds an event exactly while it is on the path of one.           *)
(***************************************************************************)
THEOREM TypeCorrect == Spec => []TypeOK
<1>1. Shape => TypeOK
  BY DEF Shape
<1> QED
  BY <1>1, ShapeHolds, PTL

-----------------------------------------------------------------------------
(* The counters of events that end before the sinks. *)
Drops == {"parse_fail", "invalid", "rate_limited"}

(***************************************************************************)
(* No event is in two places: it is in the queue once, or held by one      *)
(* thread, or has its fate; and none of that before it was pushed.         *)
(***************************************************************************)
Places ==
  /\ \A i \in 1..Len(queue_) : queue_[i] \in hist.pushed /\ hist.fate[queue_[i]] = "none"
  /\ \A i, j \in 1..Len(queue_) : queue_[i] = queue_[j] => i = j
  /\ \A t \in Threads : data[t] \in Events =>
       /\ data[t] \in hist.pushed /\ hist.fate[data[t]] = "none"
       /\ \A i \in 1..Len(queue_) : queue_[i] # data[t]
       /\ \A u \in Threads : data[u] = data[t] => u = t
  /\ \A e \in Events \ hist.pushed : hist.fate[e] = "none"

(* The threads that hold an event. *)
Holders == {t \in Threads : data[t] \in Events}

Dropped == metrics_["parse_fail"] + metrics_["invalid"] + metrics_["rate_limited"]

(* Every event pushed is queued, held, counted as dropped, or sunk. *)
Account ==
  Cardinality(hist.pushed) = Len(queue_) + Cardinality(Holders) + Dropped + Cardinality(Sunk)

(* What a step does to the events' places: nothing, *)
Kept ==
  /\ UNCHANGED <<queue_, data>>
  /\ hist'.pushed = hist.pushed /\ hist'.fate = hist.fate /\ hist'.saved = hist.saved
  /\ \A c \in Drops : metrics_'[c] = metrics_[c]

(* or thread t takes the front of the queue, *)
Takes(t) ==
  /\ queue_ # <<>> /\ data[t] \notin Events /\ pc[t] \in {"pop", "drain"}
  /\ data' = [data EXCEPT ![t] = Head(queue_)]
  /\ queue_' = Tail(queue_)
  /\ Goto(t, "received")
  /\ UNCHANGED <<metrics_, hist>>

(* or thread t is done with its event, whose fate is f. *)
Finishes(t, f) ==
  /\ data[t] \in Events
  /\ data' = [data EXCEPT ![t] = NoEvent]
  /\ hist'.fate = [hist.fate EXCEPT ![data[t]] = f]
  /\ hist'.pushed = hist.pushed
  /\ UNCHANGED queue_

(* What such a step does to the fates. *)
LEMMA FinishedFates ==
  ASSUME Shape, NEW t \in Threads, NEW f, Finishes(t, f)
  PROVE  \A e \in Events : hist'.fate[e] = IF e = data[t] THEN f ELSE hist.fate[e]
<1>1. hist.fate \in [Events -> Fates]
  BY DEF Shape, TypeOK, Histories
<1> QED
  BY <1>1 DEF Finishes

(* The steps on the path of an event that leave it with its thread. *)
LEMMA HeldSteps ==
  ASSUME Shape, NEW t \in Threads, EventStep(t)
  PROVE  \/ Kept
         \/ \E c \in Drops : Drop(t, c) /\ pc[t] \in Working
         \/ Save(t)
<1>1. CASE \E c \in Counters \ Drops, l \in PCs : Count(t, c, l)
  BY <1>1, CounterStep DEF Count, Kept, Drops, Counters
<1>2. CASE \E l \in PCs : Skip(t, l)
  BY <1>2 DEF Skip, Kept
<1>3. CASE ProduceOk(t) /\ UNCHANGED metrics_
  <2>1. hist' = [hist EXCEPT !["accepted"] = @ \cup {data[t]}] /\ UNCHANGED <<queue_, data>>
    BY <1>3 DEF ProduceOk, Note
  <2>2. hist'.pushed = hist.pushed /\ hist'.fate = hist.fate /\ hist'.saved = hist.saved
    BY <2>1 DEF Shape, TypeOK, Histories
  <2> QED
    BY <1>3, <2>1, <2>2 DEF Kept
<1> QED
  BY <1>1, <1>2, <1>3
  DEF EventStep, Received, Parse, Validate, Allow, RateLimited, Produce, Retry, Drops, Counters,
      PCs, Working

LEMMA PopSteps ==
  ASSUME Shape, NEW t \in Threads, Pop(t) \/ (t = Main /\ Drain)
  PROVE  Kept \/ Takes(t)
<1>1. /\ pc[t] \in {"pop", "drain"} /\ data[t] \notin Events
      /\ \E l \in PCs : PopOr(t, l)
  BY DEF Pop, Drain, Shape, TypeOK, Working, PCs
<1> QED
  BY <1>1 DEF PopOr, Takes, Kept

(* The steps of stop other than the drain. *)
LEMMA StopSteps ==
  ASSUME Shape, StopBegins \/ JoinThreads \/ FlushStorage \/ FlushDone \/ FlushTimeout \/ Destroy
  PROVE  Kept
<1>1. UNCHANGED <<queue_, data, metrics_>>
  BY DEF StopBegins, JoinThreads, JoinAll, Skip, FlushStorage, FlushDone, FlushTimeout, Destroy
<1>2. hist'.pushed = hist.pushed /\ hist'.fate = hist.fate /\ hist'.saved = hist.saved
  BY DEF StopBegins, JoinThreads, JoinAll, Skip, FlushStorage, FlushDone, FlushTimeout, Destroy,
         Shape, TypeOK, Histories
<1> QED
  BY <1>1, <1>2 DEF Kept

(* All that can happen to the places of the events. *)
LEMMA Effects ==
  ASSUME Shape, [Next]_vars
  PROVE  \/ Kept
         \/ \E e \in Events : Enqueue(e)
         \/ \E t \in Threads : Takes(t)
         \/ \E t \in Threads, c \in Drops : Drop(t, c) /\ pc[t] \in Working
         \/ \E t \in Threads : Save(t)
<1>1. CASE UNCHANGED vars
  BY <1>1 DEF vars, Kept
<1>2. CASE Ended
  BY <1>1, <1>2 DEF Ended
<1>3. ASSUME NEW e \in Events, Deliver(e) \/ DeliveryFails(e)
      PROVE  Kept
  BY <1>3 DEF Deliver, DeliveryFails, Kept
<1>4. ASSUME NEW t \in Threads, ServeReport(t)
      PROVE  Kept
  BY <1>4, CounterStep DEF ServeReport, ServeAt, dr_msg_cb, Kept, Drops, Counters
<1>5. ASSUME NEW t \in Threads, CheckRunning(t) \/ PollReturns(t)
      PROVE  Kept
  BY <1>5 DEF CheckRunning, LoopOr, PollReturns, Skip, Kept
<1> QED
  BY <1>1, <1>2, <1>3, <1>4, <1>5, HeldSteps, PopSteps, StopSteps, ThreadSet
  DEF Next, ThreadStep, StopStep

LEMMA DropFinishes ==
  ASSUME Shape, NEW t \in Threads, pc[t] \in Working, NEW c \in Drops, Drop(t, c)
  PROVE  /\ Finishes(t, c) /\ hist'.saved = hist.saved
         /\ metrics_'[c] = metrics_[c] + 1
         /\ \A k \in Counters \ {c} : metrics_'[k] = metrics_[k]
<1>1. data[t] \in Events
  BY AtWork
<1>2. c \in Counters
  BY DEF Drops, Counters
<1>3. /\ hist'.fate = [hist.fate EXCEPT ![data[t]] = c]
      /\ hist'.pushed = hist.pushed /\ hist'.saved = hist.saved
  BY DEF Drop, Shape, TypeOK, Histories
<1> QED
  BY <1>1, <1>2, <1>3, CounterStep DEF Drop, Finishes

LEMMA SaveFinishes ==
  ASSUME Shape, NEW t \in Threads, Save(t)
  PROVE  /\ Finishes(t, "sunk") /\ UNCHANGED metrics_
         /\ hist'.saved = IF cfg.storage_ THEN hist.saved \cup {data[t]} ELSE hist.saved
<1>1. data[t] \in Events
  BY AtWork DEF Save, SaveIf, Working
<1>2. /\ hist'.fate = [hist.fate EXCEPT ![data[t]] = "sunk"]
      /\ hist'.pushed = hist.pushed
      /\ hist'.saved = IF cfg.storage_ THEN hist.saved \cup {data[t]} ELSE hist.saved
  BY DEF Save, SaveIf, Shape, TypeOK, Histories
<1> QED
  BY <1>1, <1>2 DEF Save, SaveIf, Finishes

(* The front of the queue and what is left of it. *)
LEMMA QueueParts ==
  ASSUME Shape, queue_ # <<>>
  PROVE  /\ Len(queue_) \in Nat /\ Len(queue_) > 0 /\ Head(queue_) = queue_[1]
         /\ Head(queue_) \in Events
         /\ Len(Tail(queue_)) = Len(queue_) - 1
         /\ \A i \in 1..(Len(queue_) - 1) : Tail(queue_)[i] = queue_[i + 1]
BY DEF Shape, TypeOK

LEMMA TakesPlaces ==
  ASSUME Shape, Places, NEW t \in Threads, Takes(t)
  PROVE  Places'
<1> DEFINE n == Len(queue_) - 1
<1>1. /\ n \in Nat /\ Head(queue_) = queue_[1] /\ queue_[1] \in Events
      /\ Len(queue_') = n
      /\ \A i \in 1..n : queue_'[i] = queue_[i + 1] /\ i + 1 \in 1..Len(queue_)
      /\ 1 \in 1..Len(queue_)
  BY QueueParts DEF Takes
<1>2. data'[t] = queue_[1] /\ \A u \in Threads \ {t} : data'[u] = data[u]
  BY <1>1 DEF Takes, Shape, TypeOK
<1>3. hist' = hist
  BY DEF Takes
<1> HIDE DEF n
<1>4. \A i \in 1..Len(queue_) : queue_[i] \in hist.pushed /\ hist.fate[queue_[i]] = "none"
  BY DEF Places
<1>5. \A i, j \in 1..Len(queue_) : queue_[i] = queue_[j] => i = j
  BY DEF Places
<1>6. \A i \in 1..n : queue_'[i] \in hist.pushed /\ hist.fate[queue_'[i]] = "none"
  BY <1>1, <1>4
<1>7. \A i, j \in 1..n : queue_'[i] = queue_'[j] => i = j
  <2> SUFFICES ASSUME NEW i \in 1..n, NEW j \in 1..n, queue_'[i] = queue_'[j] PROVE i = j
    OBVIOUS
  <2>1. i + 1 = j + 1
    <3>1. /\ queue_'[i] = queue_[i + 1] /\ i + 1 \in 1..Len(queue_)
          /\ queue_'[j] = queue_[j + 1] /\ j + 1 \in 1..Len(queue_)
      BY <1>1
    <3> QED
      BY ONLY <1>5, <3>1, queue_'[i] = queue_'[j]
  <2> QED
    BY <1>1, <2>1
<1>8. \A i \in 1..n : queue_'[i] # queue_[1]
  <2> SUFFICES ASSUME NEW i \in 1..n, queue_'[i] = queue_[1] PROVE FALSE
    OBVIOUS
  <2>1. i + 1 = 1
    BY <1>1, <1>5
  <2> QED
    BY <1>1, <2>1
<1>9. ASSUME NEW u \in Threads, data'[u] \in Events
      PROVE  /\ data'[u] \in hist.pushed /\ hist.fate[data'[u]] = "none"
             /\ \A i \in 1..n : queue_'[i] # data'[u]
             /\ \A v \in Threads : data'[v] = data'[u] => v = u
  <2>1. CASE u = t
    <3>1. \A v \in Threads \ {t} : data[v] # queue_[1]
      BY <1>1 DEF Places
    <3> QED
      BY <1>1, <1>2, <1>4, <1>8, <2>1, <3>1
  <2>2. CASE u # t
    <3>1. data[u] \in hist.pushed /\ hist.fate[data[u]] = "none"
      BY <1>2, <1>9, <2>2 DEF Places
    <3>2. \A i \in 1..Len(queue_) : queue_[i] # data[u]
      BY <1>2, <1>9, <2>2 DEF Places
    <3>3. \A v \in Threads : data[v] = data[u] => v = u
      BY <1>2, <1>9, <2>2 DEF Places
    <3>4. data'[u] = data[u] /\ \A i \in 1..n : queue_'[i] # data[u]
      BY <1>1, <1>2, <2>2, <3>2
    <3>5. ASSUME NEW v \in Threads, data'[v] = data'[u]
          PROVE  v = u
      <4>1. v # t
        BY <1>1, <1>2, <3>2, <3>4, <3>5
      <4> QED
        BY <1>2, <3>3, <3>4, <3>5, <4>1
    <3> QED
      BY <3>1, <3>4, <3>5
  <2> QED
    BY <2>1, <2>2
<1> QED
  BY <1>1, <1>3, <1>6, <1>7, <1>9 DEF Places

LEMMA FinishPlaces ==
  ASSUME Shape, Places, NEW t \in Threads, NEW f \in Fates, Finishes(t, f)
  PROVE  Places'
<1>1. data'[t] = NoEvent /\ \A u \in Threads \ {t} : data'[u] = data[u]
  BY DEF Finishes, Shape, TypeOK
<1>2. \A e \in Events \ {data[t]} : hist'.fate[e] = hist.fate[e]
  BY FinishedFates
<1>3. queue_' = queue_ /\ hist'.pushed = hist.pushed /\ hist.pushed \subseteq Events
      /\ data[t] \in hist.pushed
  BY DEF Finishes, Shape, TypeOK, Histories, Places
<1>4. \A u \in Threads \ {t} : data[u] # data[t]
  BY DEF Places, Finishes
<1>5. \A i \in 1..Len(queue_) : queue_[i] # data[t] /\ queue_[i] \in Events
  BY DEF Places, Finishes, Shape, TypeOK
<1> QED
  BY <1>1, <1>2, <1>3, <1>4, <1>5, ProcessorAssumption DEF Places

LEMMA EnqueuePlaces ==
  ASSUME Shape, Places, NEW e \in Events, Enqueue(e)
  PROVE  Places' /\ hist'.pushed = hist.pushed \cup {e} /\ e \notin hist.pushed
         /\ Len(queue_') = Len(queue_) + 1 /\ hist'.fate = hist.fate /\ hist'.saved = hist.saved
<1>1. /\ hist'.pushed = hist.pushed \cup {e} /\ hist'.fate = hist.fate
      /\ hist'.saved = hist.saved /\ e \notin hist.pushed
      /\ UNCHANGED data
  BY DEF Enqueue, Note, Shape, TypeOK, Histories
<1>2. /\ Len(queue_) \in Nat /\ Len(queue_') = Len(queue_) + 1
      /\ queue_'[Len(queue_) + 1] = e
      /\ \A i \in 1..Len(queue_) : queue_'[i] = queue_[i]
  BY DEF Enqueue, Shape, TypeOK
<1>3. \A i \in 1..Len(queue_') : i \in 1..Len(queue_) \/ i = Len(queue_) + 1
  BY <1>2
<1> QED
  BY <1>1, <1>2, <1>3 DEF Places

LEMMA InitPlaces == Init => Places
BY ProcessorAssumption DEF Init, Places

LEMMA NextPlaces == Shape /\ Places /\ [Next]_vars => Places'
<1> SUFFICES ASSUME Shape, Places, [Next]_vars PROVE Places'
  OBVIOUS
<1>1. CASE Kept
  BY <1>1 DEF Kept, Places
<1>2. Drops \cup {"sunk"} \subseteq Fates
  BY DEF Drops, Fates
<1> QED
  BY <1>1, <1>2, Effects, EnqueuePlaces, TakesPlaces, DropFinishes, SaveFinishes, FinishPlaces

LEMMA ThreadsFinite == IsFiniteSet(Threads)
<1>1. Threads = (Workers \cup {Poller}) \cup {Main}
  BY DEF Threads
<1> QED
  BY <1>1, ProcessorAssumption, FS_AddElement

LEMMA EventSets == \A S \in SUBSET Events : IsFiniteSet(S) /\ Cardinality(S) \in Nat
BY ProcessorAssumption, FS_Subset, FS_CardinalityType

LEMMA AccountTyped ==
  ASSUME Shape
  PROVE  /\ hist.pushed \subseteq Events /\ Sunk \subseteq Events /\ hist.saved \subseteq Events
         /\ IsFiniteSet(Holders) /\ Cardinality(Holders) \in Nat /\ Len(queue_) \in Nat
         /\ Dropped \in Nat
<1>1. IsFiniteSet(Holders) /\ Cardinality(Holders) \in Nat
  <2>1. Holders \subseteq Threads
    BY DEF Holders
  <2> QED
    BY <2>1, ThreadsFinite, FS_Subset, FS_CardinalityType
<1>2. hist.pushed \subseteq Events /\ Sunk \subseteq Events /\ hist.saved \subseteq Events
  BY DEF Shape, TypeOK, Histories, Sunk
<1>3. Len(queue_) \in Nat /\ Dropped \in Nat
  BY DEF Shape, TypeOK, Dropped, Counters
<1> QED
  BY <1>1, <1>2, <1>3

LEMMA HoldersStep ==
  ASSUME Shape, NEW t \in Threads, NEW d \in Events \cup {NoEvent}, data' = [data EXCEPT ![t] = d]
  PROVE  /\ data[t] \notin Events /\ d \in Events => Cardinality(Holders)' = Cardinality(Holders) + 1
         /\ data[t] \in Events /\ d \notin Events => Cardinality(Holders)' = Cardinality(Holders) - 1
<1>1. CASE data[t] \notin Events /\ d \in Events
  <2>1. Holders' = Holders \cup {t} /\ t \notin Holders
    BY <1>1 DEF Holders, Shape, TypeOK
  <2> QED
    BY <1>1, <2>1, AccountTyped, FS_AddElement
<1>2. CASE data[t] \in Events /\ d \notin Events
  <2>1. Holders' = Holders \ {t} /\ t \in Holders
    BY <1>2 DEF Holders, Shape, TypeOK
  <2> QED
    BY <1>2, <2>1, AccountTyped, FS_RemoveElement
<1> QED
  BY <1>1, <1>2

LEMMA SunkStep ==
  ASSUME Shape, Places, NEW t \in Threads, NEW f \in Fates, Finishes(t, f)
  PROVE  /\ f # "sunk" => Sunk' = Sunk
         /\ f = "sunk" => Sunk' = Sunk \cup {data[t]} /\ data[t] \notin Sunk
<1>1. hist.fate[data[t]] = "none"
  BY DEF Places, Finishes
<1>2. \A e \in Events : hist'.fate[e] = IF e = data[t] THEN f ELSE hist.fate[e]
  BY FinishedFates
<1> QED
  BY <1>1, <1>2 DEF Sunk, Finishes

(* The sum of the drops follows from the counters. *)
LEMMA DroppedSame ==
  ASSUME \A c \in Drops : metrics_'[c] = metrics_[c]
  PROVE  Dropped' = Dropped
BY DEF Dropped, Drops

LEMMA DroppedMore ==
  ASSUME Shape, NEW c \in Drops, metrics_'[c] = metrics_[c] + 1,
         \A k \in Drops \ {c} : metrics_'[k] = metrics_[k]
  PROVE  Dropped' = Dropped + 1
<1>1. \A k \in Drops : metrics_[k] \in Nat
  BY DEF Shape, TypeOK, Drops, Counters
<1>2. CASE c = "parse_fail"
  BY <1>1, <1>2 DEF Drops, Dropped
<1>3. CASE c = "invalid"
  BY <1>1, <1>3 DEF Drops, Dropped
<1>4. CASE c = "rate_limited"
  BY <1>1, <1>4 DEF Drops, Dropped
<1> QED
  BY <1>2, <1>3, <1>4 DEF Drops

LEMMA InitAccount == Init => Account
<1> SUFFICES ASSUME Init PROVE Account
  OBVIOUS
<1>1. hist.pushed = {} /\ Sunk = {} /\ Holders = {} /\ Len(queue_) = 0
  BY ProcessorAssumption DEF Init, Sunk, Holders
<1>2. Dropped = 0
  BY DEF Init, Counters, Dropped
<1> QED
  BY <1>1, <1>2, FS_EmptySet DEF Account

LEMMA NextAccount == Shape /\ Places /\ Account /\ [Next]_vars => Account'
<1> SUFFICES ASSUME Shape, Places, Account, [Next]_vars PROVE Account'
  OBVIOUS
<1>0. Drops \subseteq Counters /\ Drops \subseteq Fates \ {"sunk"} /\ "sunk" \in Fates
      /\ NoEvent \notin Events
  BY ProcessorAssumption DEF Drops, Counters, Fates
<1>n. /\ Cardinality(hist.pushed) \in Nat /\ Cardinality(Sunk) \in Nat /\ Dropped \in Nat
      /\ Cardinality(Holders) \in Nat /\ Len(queue_) \in Nat
      /\ Cardinality(hist.pushed)
           = Len(queue_) + Cardinality(Holders) + Dropped + Cardinality(Sunk)
  BY AccountTyped, EventSets DEF Account
<1>1. CASE Kept
  <2>1. Holders' = Holders /\ Sunk' = Sunk /\ Dropped' = Dropped
    BY <1>1, DroppedSame DEF Kept, Holders, Sunk
  <2> QED
    BY <1>1, <2>1 DEF Kept, Account
<1>2. ASSUME NEW e \in Events, Enqueue(e)
      PROVE  Account'
  <2>1. Cardinality(hist'.pushed) = Cardinality(hist.pushed) + 1
    BY <1>2, EnqueuePlaces, AccountTyped, EventSets, FS_AddElement
  <2>2. Holders' = Holders /\ Sunk' = Sunk /\ Dropped' = Dropped
    BY <1>2, EnqueuePlaces DEF Enqueue, Holders, Sunk, Dropped
  <2>3. Len(queue_') = Len(queue_) + 1
    BY <1>2, EnqueuePlaces
  <2> QED
    BY <1>n, <2>1, <2>2, <2>3 DEF Account
<1>3. ASSUME NEW t \in Threads, Takes(t)
      PROVE  Account'
  <2>1. Len(queue_') = Len(queue_) - 1 /\ Cardinality(Holders)' = Cardinality(Holders) + 1
    BY <1>3, QueueParts, HoldersStep DEF Takes
  <2>2. Sunk' = Sunk /\ Dropped' = Dropped /\ hist' = hist
    BY <1>3 DEF Takes, Sunk, Dropped
  <2> QED
    BY <1>n, <2>1, <2>2 DEF Account
<1>4. ASSUME NEW t \in Threads, NEW f \in Fates, Finishes(t, f)
      PROVE  /\ Cardinality(Holders)' = Cardinality(Holders) - 1
             /\ Cardinality(Sunk)' = IF f = "sunk" THEN Cardinality(Sunk) + 1 ELSE Cardinality(Sunk)
             /\ hist'.pushed = hist.pushed /\ queue_' = queue_
  <2>1. Cardinality(Holders)' = Cardinality(Holders) - 1
    BY <1>0, <1>4, HoldersStep DEF Finishes
  <2>2. IsFiniteSet(Sunk)
    BY AccountTyped, EventSets
  <2>3. Cardinality(Sunk)' = IF f = "sunk" THEN Cardinality(Sunk) + 1 ELSE Cardinality(Sunk)
    <3>1. CASE f = "sunk"
      <4>1. Sunk' = Sunk \cup {data[t]} /\ data[t] \notin Sunk
        BY <1>4, <3>1, SunkStep
      <4> QED
        BY <2>2, <3>1, <4>1, FS_AddElement
    <3>2. CASE f # "sunk"
      BY <1>4, <3>2, SunkStep
    <3> QED
      BY <3>1, <3>2
  <2> QED
    BY <1>4, <2>1, <2>3 DEF Finishes
<1>5. ASSUME NEW t \in Threads, NEW c \in Drops, Drop(t, c), pc[t] \in Working
      PROVE  Account'
  <2>1. /\ Cardinality(Holders)' = Cardinality(Holders) - 1 /\ Cardinality(Sunk)' = Cardinality(Sunk)
        /\ hist'.pushed = hist.pushed /\ queue_' = queue_
    BY <1>0, <1>4, <1>5, DropFinishes
  <2>2. Dropped' = Dropped + 1
    BY <1>0, <1>5, DropFinishes, DroppedMore
  <2> QED
    BY <1>n, <2>1, <2>2 DEF Account
<1>6. ASSUME NEW t \in Threads, Save(t)
      PROVE  Account'
  <2>1. /\ Cardinality(Holders)' = Cardinality(Holders) - 1
        /\ Cardinality(Sunk)' = Cardinality(Sunk) + 1
        /\ hist'.pushed = hist.pushed /\ queue_' = queue_
    BY <1>0, <1>4, <1>6, SaveFinishes
  <2>2. Dropped' = Dropped
    BY <1>6, SaveFinishes DEF Dropped
  <2> QED
    BY <1>n, <2>1, <2>2 DEF Account
<1> QED
  BY <1>1, <1>2, <1>3, <1>5, <1>6, Effects

-----------------------------------------------------------------------------
(* From when on stop has emptied the queue, and flushed the storage. *)
Drained == {"flush_storage", "flush", "stopped", "destroyed"}
Flushed == {"flush", "stopped", "destroyed"}

(* What stop has done stays done: nobody pushes, pops or saves any more. *)
StopInv ==
  /\ pc[Main] \in Drained => queue_ = <<>>
  /\ pc[Main] \in Flushed => hist.flushed = hist.saved

LEMMA InitStop == Init => StopInv
<1> SUFFICES ASSUME Init PROVE pc[Main] = "serve"
  BY DEF StopInv, Drained, Flushed
<1> QED
  BY ThreadSet DEF Init

LEMMA NextStop == Shape /\ StopInv /\ [Next]_vars => StopInv'
<1> SUFFICES ASSUME Shape, StopInv, [Next]_vars PROVE StopInv'
  OBVIOUS
<1> USE ThreadSet DEF Drained, Flushed
<1>0. ASSUME NEW t \in Threads, NEW l, Goto(t, l)
      PROVE  /\ pc'[t] = l
             /\ t # Main => pc'[Main] = pc[Main]
             /\ t # Main /\ pc[t] # "joined" => pc[Main] \in {"serve", "join"}
  BY <1>0 DEF Goto, Shape, TypeOK, ThreadShape, Joined
<1>1. ASSUME NEW t \in Threads, EventStep(t)
      PROVE  StopInv'
  <2>1. PICK l \in PCs : Goto(t, l) /\ l \notin Drained /\ pc[t] \in Working
    BY <1>1 DEF EventStep, Received, Parse, Validate, Allow, RateLimited, Produce, ProduceOk, Retry,
                Save, SaveIf, Count, Drop, Skip, Again, Working, PCs
  <2> QED
    BY <1>0, <2>1, AtWork DEF StopInv
<1>2. ASSUME NEW t \in Threads, CheckRunning(t) \/ Pop(t)
      PROVE  StopInv'
  BY <1>0, <1>2 DEF CheckRunning, LoopOr, Pop, PopOr, StopInv
<1>3. ASSUME NEW t \in Threads, PollReturns(t)
      PROVE  StopInv'
  BY <1>0, <1>3 DEF PollReturns, Skip, StopInv
<1>4. CASE UNCHANGED <<pc, queue_, hist>> \/ \E e \in Events : Enqueue(e)
  BY <1>4 DEF Enqueue, StopInv
<1>5. CASE StopBegins \/ JoinThreads \/ Drain
  BY <1>0, <1>5 DEF StopBegins, JoinThreads, JoinAll, Skip, Drain, PopOr, StopInv
<1>6. CASE FlushStorage
  <2>1. hist'.flushed = hist.saved /\ hist'.saved = hist.saved /\ UNCHANGED queue_
    BY <1>6 DEF FlushStorage, Shape, TypeOK, Histories
  <2> QED
    BY <1>6, <2>1 DEF FlushStorage, StopInv
<1>7. CASE FlushDone \/ FlushTimeout
  <2>1. hist'.flushed = hist.flushed /\ hist'.saved = hist.saved /\ UNCHANGED queue_
        /\ pc[Main] = "flush"
    BY <1>7 DEF FlushDone, FlushTimeout, Shape, TypeOK, Histories
  <2> QED
    BY <2>1 DEF StopInv
<1>8. CASE Destroy
  BY <1>8 DEF Destroy, StopInv
<1>9. ASSUME NEW e \in Events, Deliver(e) \/ DeliveryFails(e)
      PROVE  UNCHANGED <<pc, queue_, hist>>
  BY <1>9 DEF Deliver, DeliveryFails
<1>10. ASSUME NEW t \in Threads, ServeReport(t)
       PROVE  UNCHANGED <<pc, queue_, hist>>
  BY <1>10 DEF ServeReport, ServeAt
<1>11. CASE UNCHANGED vars \/ Ended
  BY <1>4, <1>11 DEF Ended, vars
<1> QED
  BY <1>1, <1>2, <1>3, <1>4, <1>5, <1>6, <1>7, <1>8, <1>9, <1>10, <1>11
  DEF Next, ThreadStep, StopStep

(***************************************************************************)
(* When stop has returned, the queue is empty, everything saved has been   *)
(* flushed, and every event pushed is counted as dropped or has passed the *)
(* sinks.                                                                  *)
(***************************************************************************)
THEOREM StopIsComplete == Spec => []StopLeavesNothing
<1> DEFINE I == Shape /\ Places /\ Account /\ StopInv
<1>1. Init => I
  BY InitShape, InitPlaces, InitAccount, InitStop
<1>2. I /\ [Next]_vars => I'
  BY NextShape, NextPlaces, NextAccount, NextStop
<1>3. I => StopLeavesNothing
  <2> SUFFICES ASSUME I, pc[Main] \in {"stopped", "destroyed"}
               PROVE  /\ queue_ = <<>> /\ hist.flushed = hist.saved
                      /\ Cardinality(hist.pushed) = Dropped + Cardinality(Sunk)
    BY DEF StopLeavesNothing, Dropped
  <2>1. queue_ = <<>> /\ hist.flushed = hist.saved
    BY DEF StopInv, Drained, Flushed
  <2>2. Holders = {}
    BY ThreadSet DEF Holders, Shape, TypeOK, ThreadShape, Joined, Working
  <2>3. Len(queue_) = 0 /\ Cardinality(Holders) = 0
    BY <2>1, <2>2, FS_EmptySet
  <2> QED
    BY <2>1, <2>3, AccountTyped, EventSets DEF Account
<1> QED
  BY <1>1, <1>2, <1>3, PTL DEF Spec

-----------------------------------------------------------------------------
(* The threads at one of the labels L, counted: what a move does to it. *)
LEMMA AtStep ==
  ASSUME Shape, NEW L, NEW t \in Threads, NEW l \in PCs, Goto(t, l)
  PROVE  /\ At(L) \in Nat
         /\ pc[t] \notin L /\ l \in L => At(L)' = At(L) + 1
         /\ pc[t] \in L /\ l \notin L => At(L)' = At(L) - 1
         /\ (pc[t] \in L <=> l \in L) => At(L)' = At(L)
<1> DEFINE T == {u \in Threads : pc[u] \in L}
<1>1. IsFiniteSet(T) /\ Cardinality(T) \in Nat /\ At(L) = Cardinality(T)
      /\ At(L)' = Cardinality(T')
  BY ThreadsFinite, FS_Subset, FS_CardinalityType DEF At
<1>2. /\ pc[t] \notin L /\ l \in L => T' = T \cup {t} /\ t \notin T
      /\ pc[t] \in L /\ l \notin L => T' = T \ {t} /\ t \in T
      /\ (pc[t] \in L <=> l \in L) => T' = T
  BY DEF Goto, Shape, TypeOK
<1> HIDE DEF T
<1> QED
  BY <1>1, <1>2, FS_AddElement, FS_RemoveElement

(* The labels of a thread whose event is valid. *)
Passing == {"limit", "produce", "poll", "retry", "save"}

(***************************************************************************)
(* Every valid event that the limiter let pass is with its thread or       *)
(* saved; with a storage, exactly what has passed the sinks is saved, so   *)
(* none is saved twice.                                                    *)
(***************************************************************************)
StoreInv ==
  /\ hist.saved = IF cfg.storage_ THEN Sunk ELSE {}
  /\ cfg.storage_ =>
       Cardinality(hist.saved) + At(Passing) + metrics_["rate_limited"] = metrics_["valid"]

(* The steps that matter to the storage: an event is valid, *)
Validates(t) == pc[t] = "validate" /\ \E l \in Passing : Count(t, "valid", l)

(* or none of the sets and counters of StoreInv changes. *)
StoreKept ==
  /\ At(Passing)' = At(Passing)
  /\ metrics_'["valid"] = metrics_["valid"]
  /\ metrics_'["rate_limited"] = metrics_["rate_limited"]
  /\ hist'.saved = hist.saved /\ Sunk' = Sunk /\ cfg' = cfg

LEMMA StoreEventSteps ==
  ASSUME Shape, Places, NEW t \in Threads, EventStep(t)
  PROVE  StoreKept \/ Validates(t) \/ RateLimited(t) \/ Save(t)
<1> USE DEF Passing
<1>1. ASSUME NEW c \in Counters \ {"valid", "rate_limited"}, NEW l \in PCs, Count(t, c, l),
             pc[t] \in Passing <=> l \in Passing
      PROVE  StoreKept
  <2>1. At(Passing)' = At(Passing)
    BY <1>1, AtStep DEF Count
  <2>2. UNCHANGED <<cfg, hist>>
    BY <1>1 DEF Count, env
  <2>3. \A k \in {"valid", "rate_limited"} : metrics_'[k] = metrics_[k]
    BY <1>1, CounterStep DEF Count, Counters
  <2> QED
    BY <2>1, <2>2, <2>3 DEF StoreKept, Sunk
<1>2. ASSUME NEW l \in PCs, Goto(t, l), pc[t] \in Passing <=> l \in Passing,
             UNCHANGED <<cfg, metrics_>>, hist'.saved = hist.saved, hist'.fate = hist.fate
      PROVE  StoreKept
  BY <1>2, AtStep DEF StoreKept, Sunk
<1>3. ASSUME NEW c \in {"parse_fail", "invalid"}, Drop(t, c), pc[t] \in {"parse", "validate"}
      PROVE  StoreKept
  <2>1. c \in Drops /\ c \in Fates \ {"sunk"} /\ pc[t] \in Working
    BY <1>3 DEF Drops, Fates, Working
  <2>2. At(Passing)' = At(Passing)
    BY <1>3, AtStep DEF Drop, Again, PCs
  <2>3. Sunk' = Sunk /\ hist'.saved = hist.saved
    BY <1>3, <2>1, DropFinishes, SunkStep
  <2>4. metrics_'["valid"] = metrics_["valid"] /\ metrics_'["rate_limited"] = metrics_["rate_limited"]
    BY <1>3, <2>1, DropFinishes DEF Counters
  <2> QED
    BY <1>3, <2>2, <2>3, <2>4 DEF StoreKept, Drop, env
<1>4. CASE Received(t)
  BY <1>1, <1>4 DEF Received, Counters, PCs
<1>5. CASE Parse(t)
  BY <1>1, <1>3, <1>5 DEF Parse, Counters, PCs
<1>6. CASE Validate(t)
  BY <1>3, <1>6 DEF Validate, Validates
<1>7. CASE Allow(t)
  BY <1>2, <1>7 DEF Allow, Skip, PCs, env
<1>8. ASSUME ProduceOk(t), UNCHANGED metrics_, pc[t] \in Passing
      PROVE  StoreKept
  <2>1. hist'.saved = hist.saved /\ hist'.fate = hist.fate
    BY <1>8 DEF ProduceOk, Note, Shape, TypeOK, Histories
  <2> QED
    BY <1>2, <1>8, <2>1 DEF ProduceOk, PCs, env
<1>9. CASE Produce(t)
  BY <1>2, <1>8, <1>9 DEF Produce, Skip, PCs, env
<1>10. CASE Retry(t)
  BY <1>1, <1>8, <1>10 DEF Retry, Counters, PCs
<1> QED
  BY <1>4, <1>5, <1>6, <1>7, <1>9, <1>10 DEF EventStep

LEMMA StoreSteps ==
  ASSUME Shape, Places, [Next]_vars
  PROVE  StoreKept \/ \E t \in Threads : Validates(t) \/ RateLimited(t) \/ Save(t)
<1> USE ThreadSet DEF Passing
<1>1. ASSUME UNCHANGED <<pc, cfg>>, hist'.saved = hist.saved, hist'.fate = hist.fate,
             \A k \in {"valid", "rate_limited"} : metrics_'[k] = metrics_[k]
      PROVE  StoreKept
  BY <1>1 DEF StoreKept, Sunk, At
<1>2. ASSUME NEW t \in Threads, NEW l \in PCs, Goto(t, l), pc[t] \in Passing <=> l \in Passing,
             UNCHANGED <<cfg, metrics_>>, hist'.saved = hist.saved, hist'.fate = hist.fate
      PROVE  StoreKept
  BY <1>2, AtStep DEF StoreKept, Sunk
<1>3. CASE UNCHANGED vars \/ Ended
  BY <1>1, <1>3 DEF Ended, vars, env
<1>4. ASSUME NEW e \in Events, Enqueue(e)
      PROVE  StoreKept
  <2>1. hist'.saved = hist.saved /\ hist'.fate = hist.fate
    BY <1>4, EnqueuePlaces
  <2> QED
    BY <1>1, <1>4, <2>1 DEF Enqueue, env
<1>5. ASSUME NEW e \in Events, Deliver(e) \/ DeliveryFails(e)
      PROVE  StoreKept
  BY <1>1, <1>5 DEF Deliver, DeliveryFails, env
<1>6. ASSUME NEW t \in Threads, ServeReport(t)
      PROVE  StoreKept
  <2>1. \A k \in {"valid", "rate_limited"} : metrics_'[k] = metrics_[k]
    BY <1>6, CounterStep DEF ServeReport, ServeAt, dr_msg_cb, Counters
  <2> QED
    BY <1>1, <1>6, <2>1 DEF ServeReport, ServeAt
<1>7. ASSUME NEW t \in Threads, CheckRunning(t)
      PROVE  StoreKept
  BY <1>2, <1>7 DEF CheckRunning, LoopOr, PCs, env
<1>8. ASSUME NEW t \in Threads, Pop(t) \/ (t = Main /\ Drain)
      PROVE  StoreKept
  BY <1>2, <1>8 DEF Pop, Drain, PopOr, PCs, env
<1>9. ASSUME NEW t \in Threads, PollReturns(t)
      PROVE  StoreKept
  <2>1. IF t = Poller THEN pc[t] = "polling" ELSE pc[t] = "poll"
    BY <1>9, PollAt DEF PollReturns
  <2> QED
    BY <1>2, <1>9, <2>1 DEF PollReturns, Skip, PCs, env
<1>10. CASE StopBegins \/ JoinThreads \/ FlushStorage \/ FlushDone \/ FlushTimeout \/ Destroy
  <2>1. hist'.saved = hist.saved /\ hist'.fate = hist.fate
    BY <1>10, StopSteps DEF Kept
  <2>2. PICK l \in PCs : Goto(Main, l) /\ pc[Main] \notin Passing /\ l \notin Passing
    BY <1>10 DEF StopBegins, JoinThreads, JoinAll, Skip, FlushStorage, FlushDone, FlushTimeout,
                 Destroy, PCs
  <2>3. UNCHANGED <<cfg, metrics_>>
    BY <1>10 DEF StopBegins, JoinThreads, JoinAll, Skip, FlushStorage, FlushDone, FlushTimeout,
                 Destroy, env
  <2> QED
    BY <1>2, <2>1, <2>2, <2>3
<1> QED
  BY <1>3, <1>4, <1>5, <1>6, <1>7, <1>8, <1>9, <1>10, StoreEventSteps
  DEF Next, ThreadStep, StopStep

LEMMA InitStore == Init => StoreInv
<1> SUFFICES ASSUME Init PROVE StoreInv
  OBVIOUS
<1>1. hist.saved = {} /\ metrics_["rate_limited"] = 0 /\ metrics_["valid"] = 0
  BY DEF Init, Counters
<1>a. Sunk = {}
  BY DEF Init, Sunk
<1>2. \A t \in Threads : pc[t] \notin Passing
  BY ThreadSet DEF Init, Passing
<1>3. At(Passing) = 0
  BY <1>2, FS_EmptySet DEF At
<1> QED
  BY <1>1, <1>a, <1>3, FS_EmptySet DEF StoreInv

LEMMA NextStore == Shape /\ Places /\ StoreInv /\ [Next]_vars => StoreInv'
<1> SUFFICES ASSUME Shape, Places, StoreInv, [Next]_vars PROVE StoreInv'
  OBVIOUS
<1>0. /\ IsFiniteSet(hist.saved) /\ Cardinality(hist.saved) \in Nat
      /\ metrics_["valid"] \in Nat /\ metrics_["rate_limited"] \in Nat
  BY AccountTyped, EventSets DEF Shape, TypeOK, Counters
<1>1. CASE StoreKept
  BY <1>1 DEF StoreKept, StoreInv
<1>2. ASSUME NEW t \in Threads, Validates(t)
      PROVE  StoreInv'
  <2>1. At(Passing) \in Nat /\ At(Passing)' = At(Passing) + 1
    BY <1>2, AtStep DEF Validates, Count, Passing, PCs
  <2>2. /\ metrics_'["valid"] = metrics_["valid"] + 1
        /\ metrics_'["rate_limited"] = metrics_["rate_limited"]
    BY <1>2, CounterStep DEF Validates, Count, Counters
  <2>3. hist' = hist /\ cfg' = cfg
    BY <1>2 DEF Validates, Count, env
  <2>4. Sunk' = Sunk
    BY <2>3 DEF Sunk
  <2> QED
    BY <1>0, <2>1, <2>2, <2>3, <2>4 DEF StoreInv
<1>3. ASSUME NEW t \in Threads, RateLimited(t)
      PROVE  StoreInv'
  <2>1. At(Passing) \in Nat /\ At(Passing)' = At(Passing) - 1
    BY <1>3, AtStep DEF RateLimited, Drop, Again, Passing, PCs
  <2>2. "rate_limited" \in Drops /\ "rate_limited" \in Fates \ {"sunk"} /\ pc[t] \in Working
    BY <1>3 DEF RateLimited, Drops, Fates, Working
  <2>3. /\ metrics_'["rate_limited"] = metrics_["rate_limited"] + 1
        /\ metrics_'["valid"] = metrics_["valid"]
    BY <1>3, <2>2, DropFinishes DEF RateLimited, Counters
  <2>4. hist'.saved = hist.saved /\ Sunk' = Sunk /\ cfg' = cfg
    BY <1>3, <2>2, DropFinishes, SunkStep DEF RateLimited, Drop, env
  <2> QED
    BY <1>0, <2>1, <2>3, <2>4 DEF StoreInv
<1>4. ASSUME NEW t \in Threads, Save(t)
      PROVE  StoreInv'
  <2>1. At(Passing) \in Nat /\ At(Passing)' = At(Passing) - 1
    BY <1>4, AtStep DEF Save, SaveIf, Again, Passing, PCs
  <2>2. Sunk' = Sunk \cup {data[t]} /\ data[t] \notin Sunk /\ "sunk" \in Fates
    BY <1>4, SaveFinishes, SunkStep DEF Fates
  <2>3. /\ metrics_' = metrics_ /\ cfg' = cfg
        /\ hist'.saved = IF cfg.storage_ THEN hist.saved \cup {data[t]} ELSE hist.saved
    BY <1>4, SaveFinishes DEF Save, SaveIf, env
  <2>4. cfg.storage_ => Cardinality(hist'.saved) = Cardinality(hist.saved) + 1
    <3>1. data[t] \notin hist.saved
      BY <2>2 DEF StoreInv
    <3> QED
      BY <1>0, <2>3, <3>1, FS_AddElement
  <2>5. hist'.saved = IF cfg'.storage_ THEN Sunk' ELSE {}
    BY <2>2, <2>3 DEF StoreInv
  <2> QED
    BY <1>0, <2>1, <2>3, <2>4, <2>5 DEF StoreInv
<1> QED
  BY <1>1, <1>2, <1>3, <1>4, StoreSteps

LEMMA StoreHolds == Spec => [](Shape /\ Places /\ StoreInv)
<1> DEFINE I == Shape /\ Places /\ StoreInv
<1>1. Init => I
  BY InitShape, InitPlaces, InitStore
<1>2. I /\ [Next]_vars => I'
  BY NextShape, NextPlaces, NextStore
<1> QED
  BY <1>1, <1>2, PTL DEF Spec

(***************************************************************************)
(* Whatever Kafka does to a produce, an event that passed the limiter is   *)
(* in the hands of its thread or has been saved, exactly once, if there is *)
(* a storage.                                                              *)
(***************************************************************************)
THEOREM StorageGetsEverything == Spec => []KafkaNeverCostsStorage
<1> DEFINE I == Shape /\ Places /\ StoreInv
<1>1. Spec => []I
  BY StoreHolds
<1>2. I => KafkaNeverCostsStorage
  <2> SUFFICES ASSUME I, cfg.storage_
               PROVE  Cardinality(hist.saved) + At(Passing)
                        = metrics_["valid"] - metrics_["rate_limited"]
    BY DEF KafkaNeverCostsStorage, Passing
  <2>1. /\ Cardinality(hist.saved) \in Nat /\ At(Passing) \in Nat
        /\ metrics_["valid"] \in Nat /\ metrics_["rate_limited"] \in Nat
    <3>1. At(Passing) \in Nat
      BY ThreadsFinite, FS_Subset, FS_CardinalityType DEF At
    <3> QED
      BY <3>1, AccountTyped, EventSets DEF Shape, TypeOK, Counters
  <2> QED
    BY <2>1 DEF StoreInv
<1> QED
  BY <1>1, <1>2, PTL

-----------------------------------------------------------------------------
(* The events that have passed produce_to_kafka. *)
Saving == {t \in Threads : pc[t] \in {"save"}}
Offered == Sunk \cup {data[t] : t \in Saving}

(* The events of the delivery reports, and the reports of a success. *)
Reported == {r[1] : r \in reports}
Good == {r \in reports : r[2]}

(***************************************************************************)
(* Kafka knows only events that were offered, each once: on its way and    *)
(* not yet with the broker, or reported once.  Nothing is unreported for   *)
(* good before the producer is destroyed.                                  *)
(***************************************************************************)
KafkaPlaces ==
  /\ outq \subseteq Offered /\ Reported \subseteq Offered /\ broker \subseteq Offered
  /\ outq \cap Reported = {} /\ outq \cap broker = {}
  /\ \A r, s \in reports : r[1] = s[1] => r = s
  /\ unreported # {} => pc[Main] = "destroyed"

(* The delivery reports counted. *)
Confirmed == metrics_["kafka_ok"] + metrics_["kafka_fail"]

(* The number of events that Kafka was offered. *)
Owed == IF KafkaOn THEN Cardinality(Offered) ELSE 0

Ledger ==
  ~crashed =>
    Confirmed + Cardinality(outq) + Cardinality(reports) + Cardinality(unreported) = Owed

LEMMA OneToOne ==
  ASSUME NEW S, NEW T, IsFiniteSet(S), NEW f \in [S -> T],
         \A x, y \in S : f[x] = f[y] => x = y,
         \A z \in T : \E x \in S : f[x] = z
  PROVE  IsFiniteSet(T) /\ Cardinality(T) = Cardinality(S)
<1>1. f \in Bijection(S, T)
  BY DEF Bijection, Injection, Surjection, IsInjective
<1> QED
  BY <1>1, FS_Bijection DEF ExistsBijection

LEMMA KafkaTyped ==
  ASSUME Shape
  PROVE  /\ Offered \subseteq Events /\ outq \subseteq Events /\ broker \subseteq Events
         /\ unreported \subseteq Events /\ reports \subseteq Events \X BOOLEAN
         /\ IsFiniteSet(reports) /\ Cardinality(reports) \in Nat
         /\ IsFiniteSet(Good) /\ Cardinality(Good) \in Nat
         /\ Confirmed \in Nat /\ metrics_["kafka_ok"] \in Nat /\ metrics_["kafka_fail"] \in Nat
<1>1. Offered \subseteq Events
  BY DEF Offered, Saving, Sunk, Shape, TypeOK, Working
<1>2. reports \subseteq Events \X BOOLEAN /\ Good \subseteq reports
  BY DEF Shape, TypeOK, Good
<1>3. IsFiniteSet(BOOLEAN)
  <2>1. BOOLEAN = {TRUE} \cup {FALSE}
    OBVIOUS
  <2>2. IsFiniteSet({TRUE})
    BY FS_Singleton, Zenon
  <2>3. IsFiniteSet({TRUE} \cup {FALSE})
    BY <2>2, FS_AddElement, Zenon
  <2> QED
    BY <2>1, <2>3, Zenon
<1>4. IsFiniteSet(reports) /\ Cardinality(reports) \in Nat
  BY <1>2, <1>3, ProcessorAssumption, FS_Product, FS_Subset, FS_CardinalityType
<1>5. IsFiniteSet(Good) /\ Cardinality(Good) \in Nat
  BY <1>2, <1>4, FS_Subset, FS_CardinalityType
<1>6. metrics_["kafka_ok"] \in Nat /\ metrics_["kafka_fail"] \in Nat
  BY DEF Shape, TypeOK, Counters
<1> QED
  BY <1>1, <1>2, <1>4, <1>5, <1>6 DEF Shape, TypeOK, Confirmed

(* A thread at save holds an event that has no fate, and no two the same. *)
LEMMA SavingEvents ==
  ASSUME Shape, Places
  PROVE  /\ \A t \in Saving : data[t] \in Events \ Sunk
         /\ \A t, u \in Saving : data[t] = data[u] => t = u
         /\ \A t \in Threads \ Saving, u \in Saving : data[t] # data[u]
<1>1. \A t \in Saving : t \in Threads /\ data[t] \in Events
  BY DEF Saving, Shape, TypeOK, Working
<1> QED
  BY <1>1 DEF Places, Sunk

LEMMA OfferedCount ==
  ASSUME Shape, Places
  PROVE  Cardinality(Offered) = Cardinality(Sunk) + At({"save"})
<1> DEFINE H == {data[t] : t \in Saving}
<1>1. IsFiniteSet(Saving) /\ At({"save"}) = Cardinality(Saving)
  <2>1. Saving \subseteq Threads /\ At({"save"}) = Cardinality(Saving)
    BY DEF Saving, At
  <2> QED
    BY <2>1, ThreadsFinite, FS_Subset
<1>2. IsFiniteSet(H) /\ Cardinality(H) = Cardinality(Saving)
  <2> DEFINE f == [t \in Saving |-> data[t]]
  <2>1. f \in [Saving -> H] /\ (\A x, y \in Saving : f[x] = f[y] => x = y)
        /\ \A z \in H : \E x \in Saving : f[x] = z
    BY SavingEvents
  <2> HIDE DEF f, H
  <2> QED
    BY <1>1, <2>1, OneToOne
<1>3. Sunk \cap H = {} /\ Offered = Sunk \cup H
  BY SavingEvents DEF Offered
<1>4. IsFiniteSet(Sunk) /\ Cardinality(Sunk) \in Nat /\ Cardinality(H) \in Nat
  BY <1>2, AccountTyped, EventSets, FS_CardinalityType
<1> HIDE DEF H
<1>5. Cardinality(Offered) = Cardinality(Sunk) + Cardinality(H) - Cardinality(Sunk \cap H)
  BY <1>2, <1>3, <1>4, FS_Union
<1>6. Cardinality(Sunk \cap H) = 0
  BY <1>3, FS_EmptySet
<1> QED
  BY <1>1, <1>2, <1>4, <1>5, <1>6

(* A thread moves and is not at save, before or after. *)
LEMMA OfferedSame ==
  ASSUME Shape, NEW t \in Threads, NEW l, Goto(t, l), pc[t] # "save", l # "save", Sunk' = Sunk,
         \A u \in Threads \ {t} : data'[u] = data[u]
  PROVE  Offered' = Offered
<1>1. Saving' = Saving /\ t \notin Saving /\ Saving \subseteq Threads
  BY DEF Saving, Goto, Shape, TypeOK
<1> QED
  BY <1>1 DEF Offered

(* A thread is past produce_to_kafka. *)
LEMMA OfferedMore ==
  ASSUME Shape, Places, NEW t \in Threads, pc[t] \in {"produce", "retry"}, Goto(t, "save"),
         Sunk' = Sunk, data' = data
  PROVE  Offered' = Offered \cup {data[t]} /\ data[t] \notin Offered /\ data[t] \in Events
<1>1. Saving' = Saving \cup {t} /\ t \notin Saving
  BY DEF Saving, Goto, Shape, TypeOK
<1>2. data[t] \in Events /\ data[t] \notin Sunk
  <2>1. data[t] \in Events
    BY AtWork DEF Working
  <2> QED
    BY <2>1 DEF Places, Sunk
<1>3. Offered' = Offered \cup {data[t]}
  BY <1>1 DEF Offered
<1>4. data[t] \notin {data[u] : u \in Saving}
  BY <1>1, SavingEvents
<1> QED
  BY <1>2, <1>3, <1>4 DEF Offered

(* Storage::save returns. *)
LEMMA OfferedSaved ==
  ASSUME Shape, Places, NEW t \in Threads, Save(t)
  PROVE  Offered' = Offered
<1>1. Sunk' = Sunk \cup {data[t]} /\ "sunk" \in Fates
  BY SaveFinishes, SunkStep DEF Fates
<1>2. Saving' = Saving \ {t} /\ t \in Saving
  BY DEF Save, SaveIf, Saving, Goto, Again, Shape, TypeOK
<1>3. \A u \in Saving \ {t} : data'[u] = data[u]
  BY DEF Save, SaveIf, Shape, TypeOK, Saving
<1> QED
  BY <1>1, <1>2, <1>3 DEF Offered

(* What a step does to Kafka: nothing, *)
KafkaKept ==
  /\ UNCHANGED <<outq, reports, broker, unreported, cfg, crashed>>
  /\ metrics_'["kafka_ok"] = metrics_["kafka_ok"]
  /\ metrics_'["kafka_fail"] = metrics_["kafka_fail"]
  /\ Offered' = Offered
  /\ pc[Main] = "destroyed" => pc'[Main] = "destroyed"

(* or the event of thread t is offered: accepted, refused, or not wanted. *)
Offers(t) ==
  /\ pc[t] \in {"produce", "retry"} /\ Goto(t, "save") /\ Sunk' = Sunk
  /\ UNCHANGED <<data, reports, broker, unreported, cfg, crashed>>
  /\ metrics_'["kafka_ok"] = metrics_["kafka_ok"]
  /\ \/ /\ KafkaOn /\ outq' = outq \cup {data[t]}
        /\ metrics_'["kafka_fail"] = metrics_["kafka_fail"]
     \/ /\ KafkaOn /\ outq' = outq
        /\ metrics_'["kafka_fail"] = metrics_["kafka_fail"] + 1
     \/ /\ ~KafkaOn /\ outq' = outq
        /\ metrics_'["kafka_fail"] = metrics_["kafka_fail"]

LEMMA KafkaEventSteps ==
  ASSUME Shape, Places, NEW t \in Threads, EventStep(t)
  PROVE  KafkaKept \/ Offers(t)
<1>0. pc[t] \in Working => pc[Main] # "destroyed"
  <2>1. ASSUME pc[t] \in Working, pc[Main] = "destroyed" PROVE FALSE
    BY <2>1, AtWork, ThreadSet DEF Shape, ThreadShape, Joined, Working
  <2> QED
    BY <2>1
<1>1. ASSUME NEW c \in Counters \ {"kafka_ok", "kafka_fail"}, NEW l, l # "save", Count(t, c, l),
             pc[t] \in Working \ {"save"}
      PROVE  KafkaKept
  <2>1. Offered' = Offered
    BY <1>1, OfferedSame DEF Count, Sunk
  <2>2. \A k \in {"kafka_ok", "kafka_fail"} : metrics_'[k] = metrics_[k]
    BY <1>1, CounterStep DEF Count, Counters
  <2> QED
    BY <1>0, <1>1, <2>1, <2>2 DEF KafkaKept, Count, kafka, env
<1>2. ASSUME NEW l, l # "save", Skip(t, l), pc[t] \in Working \ {"save"}
      PROVE  KafkaKept
  <2>1. Offered' = Offered
    BY <1>2, OfferedSame DEF Skip, Sunk
  <2> QED
    BY <1>0, <1>2, <2>1 DEF KafkaKept, Skip, kafka, env
<1>3. ASSUME NEW c \in Drops, Drop(t, c), pc[t] \in Working \ {"save"}
      PROVE  KafkaKept
  <2>1. c \in Fates \ {"sunk"} /\ Sunk' = Sunk
    BY <1>3, DropFinishes, SunkStep DEF Drops, Fates
  <2>2. Offered' = Offered
    BY <1>3, <2>1, OfferedSame DEF Drop, Again, Shape, TypeOK
  <2>3. \A k \in {"kafka_ok", "kafka_fail"} : metrics_'[k] = metrics_[k]
    BY <1>3, DropFinishes DEF Drops, Counters
  <2> QED
    BY <1>0, <1>3, <2>2, <2>3 DEF KafkaKept, Drop, kafka, env
<1>4. ASSUME ProduceOk(t), UNCHANGED metrics_, pc[t] \in {"produce", "retry"}, KafkaOn
      PROVE  Offers(t)
  <2>1. hist'.fate = hist.fate
    BY <1>4 DEF ProduceOk, Note, Shape, TypeOK, Histories
  <2> QED
    BY <1>4, <2>1 DEF Offers, ProduceOk, Sunk, env
<1>5. CASE Received(t)
  BY <1>1, <1>5 DEF Received, Counters, Working
<1>6. CASE Parse(t)
  BY <1>1, <1>3, <1>6 DEF Parse, Counters, Drops, Working
<1>7. CASE Validate(t)
  BY <1>1, <1>3, <1>7 DEF Validate, Counters, Drops, Working
<1>8. CASE Allow(t)
  BY <1>2, <1>8 DEF Allow, Working
<1>9. CASE RateLimited(t)
  BY <1>3, <1>9 DEF RateLimited, Drops, Working
<1>10. CASE Produce(t)
  <2>1. CASE ~KafkaOn /\ Skip(t, "save")
    BY <1>10, <2>1 DEF Produce, Skip, Offers, Sunk, kafka, env
  <2>2. CASE KafkaOn /\ Skip(t, "poll")
    BY <1>2, <1>10, <2>2 DEF Produce, Working
  <2> QED
    BY <1>4, <1>10, <2>1, <2>2 DEF Produce
<1>11. CASE Retry(t)
  <2>1. KafkaOn
    BY <1>11 DEF Retry, Shape, ThreadShape
  <2>2. CASE Count(t, "kafka_fail", "save")
    <3>1. /\ metrics_'["kafka_fail"] = metrics_["kafka_fail"] + 1
          /\ metrics_'["kafka_ok"] = metrics_["kafka_ok"]
      BY <2>2, CounterStep DEF Count, Counters
    <3> QED
      BY <1>11, <2>1, <2>2, <3>1 DEF Retry, Count, Offers, Sunk, kafka, env
  <2> QED
    BY <1>4, <1>11, <2>1, <2>2 DEF Retry
<1>12. CASE Save(t)
  <2>1. Offered' = Offered /\ pc[t] \in Working
    BY <1>12, OfferedSaved DEF Save, SaveIf, Working
  <2> QED
    BY <1>0, <1>12, <2>1 DEF KafkaKept, Save, SaveIf, kafka, env
<1> QED
  BY <1>5, <1>6, <1>7, <1>8, <1>9, <1>10, <1>11, <1>12 DEF EventStep

LEMMA KafkaSteps ==
  ASSUME Shape, Places, [Next]_vars
  PROVE  \/ KafkaKept
         \/ \E t \in Threads : Offers(t)
         \/ \E e \in Events : Deliver(e) \/ DeliveryFails(e)
         \/ \E t \in Threads : ServeReport(t)
         \/ FlushTimeout \/ Destroy
<1> USE ThreadSet
<1>1. ASSUME UNCHANGED <<kafka, cfg, crashed, pc, data, metrics_>>, hist'.fate = hist.fate
      PROVE  KafkaKept
  BY <1>1 DEF KafkaKept, kafka, Offered, Saving, Sunk
<1>2. ASSUME NEW t \in Threads, NEW l, Goto(t, l), pc[t] # "save", l # "save",
             UNCHANGED <<kafka, cfg, crashed, metrics_>>, hist'.fate = hist.fate,
             \A u \in Threads \ {t} : data'[u] = data[u],
             t = Main => pc[t] # "destroyed"
      PROVE  KafkaKept
  <2>1. Offered' = Offered
    BY <1>2, OfferedSame DEF Sunk
  <2>2. pc[Main] = "destroyed" => pc'[Main] = "destroyed"
    BY <1>2 DEF Goto, Shape, TypeOK
  <2> QED
    BY <1>2, <2>1, <2>2 DEF KafkaKept, kafka
<1>3. CASE UNCHANGED vars \/ Ended
  BY <1>1, <1>3 DEF Ended, vars, env
<1>4. ASSUME NEW e \in Events, Enqueue(e)
      PROVE  KafkaKept
  <2>1. hist'.fate = hist.fate
    BY <1>4, EnqueuePlaces
  <2> QED
    BY <1>1, <1>4, <2>1 DEF Enqueue, env
<1>5. ASSUME NEW t \in Threads, CheckRunning(t)
      PROVE  KafkaKept
  BY <1>2, <1>5 DEF CheckRunning, LoopOr, env
<1>6. ASSUME NEW t \in Threads, Pop(t) \/ (t = Main /\ Drain)
      PROVE  KafkaKept
  <2>1. \A u \in Threads \ {t} : data'[u] = data[u]
    BY <1>6 DEF Pop, Drain, PopOr, Shape, TypeOK
  <2> QED
    BY <1>2, <1>6, <2>1 DEF Pop, Drain, PopOr, env
<1>7. ASSUME NEW t \in Threads, PollReturns(t)
      PROVE  KafkaKept
  BY <1>2, <1>7 DEF PollReturns, Skip, env
<1>8. CASE StopBegins \/ JoinThreads \/ FlushStorage \/ FlushDone
  <2>1. hist'.fate = hist.fate
    BY <1>8, StopSteps DEF Kept
  <2>2. PICK l : Goto(Main, l) /\ l # "save" /\ pc[Main] \notin {"save", "destroyed"}
    BY <1>8 DEF StopBegins, JoinThreads, JoinAll, Skip, FlushStorage, FlushDone
  <2>3. UNCHANGED <<kafka, cfg, crashed, metrics_, data>>
    BY <1>8 DEF StopBegins, JoinThreads, JoinAll, Skip, FlushStorage, FlushDone, env
  <2> QED
    BY <1>2, <2>1, <2>2, <2>3
<1> QED
  BY <1>3, <1>4, <1>5, <1>6, <1>7, <1>8, KafkaEventSteps DEF Next, ThreadStep, StopStep

(* Purging fails the messages it removes, one report each. *)
LEMMA Purged ==
  ASSUME NEW S, IsFiniteSet(S)
  PROVE  /\ \A x \in S : \E r \in S \X {FALSE} : r[1] = x
         /\ \A r \in S \X {FALSE} : r[1] \in S /\ ~r[2]
         /\ \A r, s \in S \X {FALSE} : r[1] = s[1] => r = s
         /\ IsFiniteSet(S \X {FALSE}) /\ Cardinality(S \X {FALSE}) = Cardinality(S)
<1>1. \A T : \A r \in S \X T : r = <<r[1], r[2]>> /\ r[1] \in S /\ r[2] \in T
  OBVIOUS
<1>2. \A T : \A x \in S, y \in T : <<x, y>> \in S \X T /\ <<x, y>>[1] = x
  OBVIOUS
<1>3. \A x \in S : \E r \in S \X {FALSE} : r[1] = x
  BY <1>2, Zenon
<1>4. \A r \in S \X {FALSE} : r[1] \in S /\ r[2] = FALSE /\ r = <<r[1], r[2]>>
  BY <1>1, Zenon
<1>5. \A r, s \in S \X {FALSE} : r[1] = s[1] => r = s
  <2>1. \A c : \A r, s \in S \X {c} : r[1] = s[1] => r = s
    OBVIOUS
  <2> QED
    BY <2>1, Zenon
<1>6. IsFiniteSet({FALSE}) /\ Cardinality({FALSE}) = 1 /\ Cardinality(S) \in Nat
  BY FS_Singleton, FS_CardinalityType
<1>7. IsFiniteSet(S \X {FALSE}) /\ Cardinality(S \X {FALSE}) = Cardinality(S) * Cardinality({FALSE})
  BY <1>6, FS_Product
<1>8. Cardinality(S \X {FALSE}) = Cardinality(S)
  BY <1>6, <1>7
<1>9. \A r \in S \X {FALSE} : r[1] \in S /\ ~r[2]
  BY <1>4, Zenon
<1> QED
  BY <1>3, <1>5, <1>7, <1>8, <1>9, Zenon

LEMMA InitKafka == Init => KafkaPlaces
<1> SUFFICES ASSUME Init PROVE KafkaPlaces
  OBVIOUS
<1> QED
  BY DEF Init, KafkaPlaces, Reported

LEMMA NextKafka == Shape /\ Places /\ KafkaPlaces /\ [Next]_vars => KafkaPlaces'
<1> SUFFICES ASSUME Shape, Places, KafkaPlaces, [Next]_vars PROVE KafkaPlaces'
  OBVIOUS
<1>1. CASE KafkaKept
  BY <1>1 DEF KafkaKept, KafkaPlaces, Reported
<1>2. ASSUME NEW t \in Threads, Offers(t)
      PROVE  KafkaPlaces'
  <2>1. Offered' = Offered \cup {data[t]} /\ data[t] \notin Offered
    BY <1>2, OfferedMore DEF Offers
  <2>2. outq' \in {outq, outq \cup {data[t]}} /\ UNCHANGED <<reports, broker, unreported>>
        /\ Reported' = Reported
    BY <1>2 DEF Offers, Reported
  <2>3. pc[Main] = "destroyed" => pc'[Main] = "destroyed"
    BY <1>2, ThreadSet DEF Offers, Goto, Shape, TypeOK
  <2> QED
    BY <2>1, <2>2, <2>3 DEF KafkaPlaces
<1>3. ASSUME NEW e \in Events, Deliver(e) \/ DeliveryFails(e)
      PROVE  KafkaPlaces'
  <2>1. PICK b \in BOOLEAN : reports' = reports \cup {<<e, b>>}
    BY <1>3 DEF Deliver, DeliveryFails
  <2>2. /\ e \in outq /\ outq' = outq \ {e} /\ broker' \in {broker, broker \cup {e}}
        /\ UNCHANGED <<pc, data, hist, unreported>>
    BY <1>3 DEF Deliver, DeliveryFails
  <2>3. Reported' = Reported \cup {e}
    <3>1. <<e, b>>[1] = e
      OBVIOUS
    <3>2. {r[1] : r \in reports \cup {<<e, b>>}} = {r[1] : r \in reports} \cup {e}
      BY <3>1, Zenon
    <3> QED
      BY <2>1, <3>2 DEF Reported
  <2>4. Offered' = Offered
    BY <2>2 DEF Offered, Saving, Sunk
  <2>5. \A r, s \in reports' : r[1] = s[1] => r = s
    BY <2>1, <2>2 DEF KafkaPlaces, Reported
  <2> QED
    BY <2>2, <2>3, <2>4, <2>5 DEF KafkaPlaces
<1>4. ASSUME NEW t \in Threads, ServeReport(t)
      PROVE  KafkaPlaces'
  <2>1. reports' \subseteq reports /\ UNCHANGED <<pc, data, hist, outq, broker, unreported>>
    BY <1>4 DEF ServeReport, ServeAt
  <2>2. Offered' = Offered /\ Reported' \subseteq Reported
    BY <2>1 DEF Offered, Saving, Sunk, Reported
  <2> QED
    BY <2>1, <2>2 DEF KafkaPlaces
<1>5. CASE FlushTimeout
  <2>1. PICK purged \in SUBSET outq :
             outq' = outq \ purged /\ reports' = reports \cup (purged \X {FALSE})
    BY <1>5 DEF FlushTimeout
  <2>2. UNCHANGED <<data, broker, unreported>> /\ Goto(Main, "stopped") /\ pc[Main] = "flush"
        /\ hist'.fate = hist.fate
    BY <1>5, StopSteps DEF FlushTimeout, Kept
  <2>3. Offered' = Offered
    BY <2>2, OfferedSame, ThreadSet DEF Sunk
  <2> DEFINE P == purged \X {FALSE}
  <2>p. /\ \A x \in purged : \E r \in P : r[1] = x
        /\ \A r \in P : r[1] \in purged
        /\ \A r, s \in P : r[1] = s[1] => r = s
    <3>1. IsFiniteSet(purged)
      BY EventSets, KafkaTyped
    <3> QED
      BY <3>1, Purged, Zenon
  <2>r. reports' = reports \cup P
    BY <2>1
  <2> HIDE DEF P
  <2>4. Reported' = Reported \cup purged
    <3>1. {r[1] : r \in reports \cup P} = {r[1] : r \in reports} \cup purged
      BY <2>p
    <3> QED
      BY <2>r, <3>1 DEF Reported
  <2>5. \A r, s \in reports' : r[1] = s[1] => r = s
    <3>1. \A r \in reports : r[1] \notin purged
      BY <2>1 DEF KafkaPlaces, Reported
    <3>2. \A r, s \in reports : r[1] = s[1] => r = s
      BY DEF KafkaPlaces
    <3> QED
      BY <2>r, <2>p, <3>1, <3>2
  <2> QED
    BY <2>1, <2>2, <2>3, <2>4, <2>5 DEF KafkaPlaces
<1>6. CASE Destroy
  <2>1. outq' = {} /\ reports' = {} /\ Reported' = {} /\ UNCHANGED <<data, broker, hist>>
        /\ Goto(Main, "destroyed") /\ pc[Main] = "stopped"
    BY <1>6 DEF Destroy, Reported
  <2>2. Offered' = Offered /\ pc'[Main] = "destroyed"
    BY <2>1, OfferedSame, ThreadSet DEF Sunk, Goto, Shape, TypeOK
  <2> QED
    BY <2>1, <2>2 DEF KafkaPlaces
<1> QED
  BY <1>1, <1>2, <1>3, <1>4, <1>5, <1>6, KafkaSteps

(* One report per event: as many reports as events reported. *)
LEMMA ReportedCount ==
  ASSUME Shape, KafkaPlaces
  PROVE  IsFiniteSet(Reported) /\ Cardinality(Reported) = Cardinality(reports)
<1> DEFINE f == [r \in reports |-> r[1]]
<1>1. f \in [reports -> Reported] /\ (\A x, y \in reports : f[x] = f[y] => x = y)
      /\ \A z \in Reported : \E x \in reports : f[x] = z
  BY DEF KafkaPlaces, Reported
<1> HIDE DEF f
<1> QED
  BY <1>1, KafkaTyped, OneToOne

(* What is served, delivered or dropped is neither lost nor doubled. *)
LEMMA SetSteps ==
  ASSUME NEW S, IsFiniteSet(S), NEW x
  PROVE  /\ Cardinality(S) \in Nat
         /\ x \notin S => Cardinality(S \cup {x}) = Cardinality(S) + 1
         /\ x \in S => Cardinality(S \ {x}) = Cardinality(S) - 1 /\ Cardinality(S) > 0
<1>1. Cardinality(S) \in Nat /\ Cardinality(S \ {x}) \in Nat
  BY FS_CardinalityType, FS_RemoveElement
<1> QED
  BY <1>1, FS_AddElement, FS_RemoveElement

LEMMA InitLedger == Init => Ledger
<1> SUFFICES ASSUME Init PROVE Ledger
  OBVIOUS
<1>1. outq = {} /\ reports = {} /\ unreported = {} /\ Confirmed = 0
  BY DEF Init, Counters, Confirmed
<1>2. Offered = {}
  <2>1. Saving = {} /\ Sunk = {}
    BY ThreadSet DEF Init, Saving, Sunk
  <2> QED
    BY <2>1 DEF Offered
<1> QED
  BY <1>1, <1>2, FS_EmptySet DEF Ledger, Owed

LEMMA NextLedger == Shape /\ Places /\ KafkaPlaces /\ Ledger /\ [Next]_vars => Ledger'
<1> SUFFICES ASSUME Shape, Places, KafkaPlaces, Ledger, [Next]_vars, ~crashed'
             PROVE  (Confirmed + Cardinality(outq) + Cardinality(reports)
                       + Cardinality(unreported) = Owed)'
  BY DEF Ledger
<1>0. /\ IsFiniteSet(outq) /\ IsFiniteSet(reports) /\ IsFiniteSet(unreported)
      /\ IsFiniteSet(Offered)
      /\ Cardinality(outq) \in Nat /\ Cardinality(reports) \in Nat
      /\ Cardinality(unreported) \in Nat /\ Cardinality(Offered) \in Nat /\ Confirmed \in Nat
  BY KafkaTyped, EventSets
<1>n. Owed \in Nat
  BY <1>0 DEF Owed
<1>l. ~crashed => Confirmed + Cardinality(outq) + Cardinality(reports)
                    + Cardinality(unreported) = Owed
  BY DEF Ledger
<1>1. CASE KafkaKept
  <2>1. Confirmed' = Confirmed /\ Owed' = Owed
    BY <1>1 DEF KafkaKept, Confirmed, Owed, KafkaOn
  <2> QED
    BY <1>1, <1>l, <2>1 DEF KafkaKept
<1>2. ASSUME NEW t \in Threads, Offers(t)
      PROVE  (Confirmed + Cardinality(outq) + Cardinality(reports)
                + Cardinality(unreported) = Owed)'
  <2>1. Offered' = Offered \cup {data[t]} /\ data[t] \notin Offered /\ data[t] \notin outq
    BY <1>2, OfferedMore DEF Offers, KafkaPlaces
  <2>2. UNCHANGED <<reports, unreported, crashed>> /\ KafkaOn' = KafkaOn
    BY <1>2 DEF Offers, KafkaOn
  <2>3. Cardinality(Offered)' = Cardinality(Offered) + 1
    BY <1>0, <2>1, SetSteps
  <2>4. CASE KafkaOn /\ outq' = outq \cup {data[t]} /\ Confirmed' = Confirmed
    <3>1. Cardinality(outq)' = Cardinality(outq) + 1
      BY <1>0, <2>1, <2>4, SetSteps
    <3>2. Owed' = Owed + 1
      BY <2>2, <2>3, <2>4 DEF Owed
    <3> QED
      BY <1>0, <1>l, <1>n, <2>2, <2>4, <3>1, <3>2
  <2>5. CASE KafkaOn /\ outq' = outq /\ Confirmed' = Confirmed + 1
    <3>1. Owed' = Owed + 1
      BY <2>2, <2>3, <2>5 DEF Owed
    <3> QED
      BY <1>0, <1>l, <1>n, <2>2, <2>5, <3>1
  <2>6. CASE ~KafkaOn /\ outq' = outq /\ Confirmed' = Confirmed
    <3>1. Owed' = Owed
      BY <2>2, <2>6 DEF Owed
    <3> QED
      BY <1>0, <1>l, <1>n, <2>2, <2>6, <3>1
  <2>7. /\ metrics_["kafka_ok"] \in Nat /\ metrics_["kafka_fail"] \in Nat
        /\ metrics_'["kafka_ok"] = metrics_["kafka_ok"]
        /\ \/ KafkaOn /\ outq' = outq \cup {data[t]}
              /\ metrics_'["kafka_fail"] = metrics_["kafka_fail"]
           \/ KafkaOn /\ outq' = outq /\ metrics_'["kafka_fail"] = metrics_["kafka_fail"] + 1
           \/ ~KafkaOn /\ outq' = outq /\ metrics_'["kafka_fail"] = metrics_["kafka_fail"]
    BY <1>2, KafkaTyped DEF Offers
  <2> QED
    BY <2>4, <2>5, <2>6, <2>7 DEF Confirmed
<1>3. ASSUME UNCHANGED <<pc, data, hist, cfg>>
      PROVE  Owed' = Owed
  BY <1>3 DEF Owed, KafkaOn, Offered, Saving, Sunk
<1>4. ASSUME NEW e \in Events, Deliver(e) \/ DeliveryFails(e)
      PROVE  (Confirmed + Cardinality(outq) + Cardinality(reports)
                + Cardinality(unreported) = Owed)'
  <2>1. PICK b \in BOOLEAN : reports' = reports \cup {<<e, b>>}
    BY <1>4 DEF Deliver, DeliveryFails
  <2>2. /\ e \in outq /\ outq' = outq \ {e}
        /\ UNCHANGED <<pc, data, hist, unreported, metrics_, cfg, crashed>>
    BY <1>4 DEF Deliver, DeliveryFails, env
  <2>3. <<e, b>> \notin reports
    BY <2>2 DEF KafkaPlaces, Reported
  <2>4. Cardinality(reports)' = Cardinality(reports) + 1
    BY <1>0, <2>1, <2>3, SetSteps
  <2>5. Cardinality(outq)' = Cardinality(outq) - 1
    BY <1>0, <2>2, SetSteps
  <2>6. Confirmed' = Confirmed /\ Owed' = Owed
    BY <1>3, <2>2 DEF Confirmed
  <2> QED
    BY <1>0, <1>l, <1>n, <2>2, <2>4, <2>5, <2>6
<1>5. ASSUME NEW t \in Threads, ServeReport(t)
      PROVE  (Confirmed + Cardinality(outq) + Cardinality(reports)
                + Cardinality(unreported) = Owed)'
  <2>1. PICK r \in reports : reports' = reports \ {r} /\ dr_msg_cb(r)
    BY <1>5 DEF ServeReport, ServeAt
  <2>2. UNCHANGED <<pc, data, hist, outq, unreported, cfg>>
    BY <1>5 DEF ServeReport, ServeAt
  <2>3. UNCHANGED crashed /\ \E c \in {"kafka_ok", "kafka_fail"} : fetch_add(c)
    BY <2>1 DEF dr_msg_cb
  <2>4. Confirmed' = Confirmed + 1
    <3>1. metrics_["kafka_ok"] \in Nat /\ metrics_["kafka_fail"] \in Nat
      BY KafkaTyped
    <3>2. CASE fetch_add("kafka_ok")
      BY <3>1, <3>2, CounterStep DEF Confirmed, Counters
    <3>3. CASE fetch_add("kafka_fail")
      BY <3>1, <3>3, CounterStep DEF Confirmed, Counters
    <3> QED
      BY <2>3, <3>2, <3>3
  <2>5. Cardinality(reports)' = Cardinality(reports) - 1
    BY <1>0, <2>1, SetSteps
  <2>6. Owed' = Owed
    BY <1>3, <2>2
  <2> QED
    BY <1>0, <1>l, <1>n, <2>2, <2>3, <2>4, <2>5, <2>6
<1>6. CASE FlushTimeout
  <2>1. PICK purged \in SUBSET outq :
             outq' = outq \ purged /\ reports' = reports \cup (purged \X {FALSE})
    BY <1>6 DEF FlushTimeout
  <2> DEFINE P == purged \X {FALSE}
  <2>p. /\ IsFiniteSet(P) /\ Cardinality(P) = Cardinality(purged) /\ Cardinality(purged) \in Nat
        /\ \A r \in P : r[1] \in purged
    <3>1. IsFiniteSet(purged) /\ Cardinality(purged) \in Nat
      BY EventSets, KafkaTyped
    <3> QED
      BY <3>1, Purged, Zenon
  <2>r. reports' = reports \cup P
    BY <2>1
  <2> HIDE DEF P
  <2>2. /\ UNCHANGED <<data, unreported, metrics_, cfg, crashed>> /\ Goto(Main, "stopped")
        /\ pc[Main] = "flush" /\ hist'.fate = hist.fate
    BY <1>6, StopSteps DEF FlushTimeout, Kept, env
  <2>3. Owed' = Owed /\ Confirmed' = Confirmed
    <3>1. Offered' = Offered
      BY <2>2, OfferedSame, ThreadSet DEF Sunk
    <3> QED
      BY <2>2, <3>1 DEF Owed, KafkaOn, Confirmed
  <2>4. Cardinality(outq)' = Cardinality(outq) - Cardinality(purged)
    <3>1. outq \cap purged = purged
      BY <2>1
    <3>2. IsFiniteSet(outq) /\ IsFiniteSet(purged)
      BY <1>0, EventSets, KafkaTyped
    <3>3. Cardinality(outq \ purged) = Cardinality(outq) - Cardinality(purged)
      BY ONLY <3>1, <3>2, FS_Difference
    <3> QED
      BY <2>1, <3>3
  <2>5. Cardinality(reports)' = Cardinality(reports) + Cardinality(purged)
    <3>1. reports \cap P = {}
      BY <2>1, <2>p DEF KafkaPlaces, Reported
    <3>2. Cardinality(reports \cap P) = 0
      BY <3>1, FS_EmptySet
    <3>3. Cardinality(reports \cup P)
            = Cardinality(reports) + Cardinality(P) - Cardinality(reports \cap P)
      BY <1>0, <2>p, FS_Union
    <3> QED
      BY <1>0, <2>p, <2>r, <3>2, <3>3
  <2> QED
    BY <1>0, <1>l, <1>n, <2>2, <2>p, <2>3, <2>4, <2>5
<1>7. CASE Destroy
  <2>1. /\ outq' = {} /\ reports' = {} /\ unreported' = outq \cup Reported
        /\ UNCHANGED <<data, hist, metrics_, cfg, crashed>>
        /\ Goto(Main, "destroyed") /\ pc[Main] = "stopped"
    BY <1>7 DEF Destroy, Reported, env
  <2>2. Owed' = Owed /\ Confirmed' = Confirmed
    <3>1. Offered' = Offered
      BY <2>1, OfferedSame, ThreadSet DEF Sunk
    <3> QED
      BY <2>1, <3>1 DEF Owed, KafkaOn, Confirmed
  <2>3. unreported = {} /\ outq \cap Reported = {}
    BY <2>1 DEF KafkaPlaces
  <2>4. Cardinality(unreported)' = Cardinality(outq) + Cardinality(reports)
    <3>1. Cardinality(outq \cap Reported) = 0
      BY <2>3, FS_EmptySet
    <3>2. IsFiniteSet(Reported) /\ Cardinality(Reported) = Cardinality(reports)
      BY ReportedCount
    <3>3. Cardinality(outq \cup Reported)
            = Cardinality(outq) + Cardinality(Reported) - Cardinality(outq \cap Reported)
      BY <1>0, <3>2, FS_Union
    <3> QED
      BY <1>0, <2>1, <3>1, <3>2, <3>3
  <2>5. Cardinality(outq)' = 0 /\ Cardinality(reports)' = 0 /\ Cardinality(unreported) = 0
    BY <2>1, <2>3, FS_EmptySet
  <2> QED
    BY <1>0, <1>l, <1>n, <2>1, <2>2, <2>4, <2>5
<1> QED
  BY <1>1, <1>2, <1>4, <1>5, <1>6, <1>7, KafkaSteps

(***************************************************************************)
(* Every event offered to Kafka is on its way, in a report not yet served, *)
(* counted as ok or as failed exactly once, or gone with the producer,     *)
(* whatever the order in which workers, poll thread and stop serve reports.*)
(***************************************************************************)
THEOREM KafkaAccounted == Spec => []KafkaLedger
<1> DEFINE I == Shape /\ Places /\ KafkaPlaces /\ Ledger
<1>1. Init => I
  BY InitShape, InitPlaces, InitKafka, InitLedger
<1>2. I /\ [Next]_vars => I'
  BY NextShape, NextPlaces, NextKafka, NextLedger
<1>3. I => KafkaLedger
  BY OfferedCount DEF KafkaLedger, Ledger, Owed, Confirmed
<1> QED
  BY <1>1, <1>2, <1>3, PTL DEF Spec

(* A success is reported only of a message the broker has. *)
LEMMA NextOk == Shape /\ Places /\ KafkaPlaces /\ KafkaOkDelivered /\ [Next]_vars
                  => KafkaOkDelivered'
<1> SUFFICES ASSUME Shape, Places, KafkaPlaces, [Next]_vars,
                    metrics_["kafka_ok"] + Cardinality(Good) <= Cardinality(broker)
             PROVE  (metrics_["kafka_ok"] + Cardinality(Good) <= Cardinality(broker))'
  BY DEF KafkaOkDelivered, Good
<1>0. /\ IsFiniteSet(Good) /\ IsFiniteSet(broker) /\ Cardinality(broker) \in Nat
      /\ Cardinality(Good) \in Nat /\ metrics_["kafka_ok"] \in Nat
  BY KafkaTyped, EventSets
<1>1. ASSUME metrics_'["kafka_ok"] = metrics_["kafka_ok"], Good' = Good, broker' = broker
      PROVE  (metrics_["kafka_ok"] + Cardinality(Good) <= Cardinality(broker))'
  BY <1>1
<1>2. CASE KafkaKept
  BY <1>1, <1>2 DEF KafkaKept, Good
<1>3. ASSUME NEW t \in Threads, Offers(t)
      PROVE  (metrics_["kafka_ok"] + Cardinality(Good) <= Cardinality(broker))'
  BY <1>1, <1>3 DEF Offers, Good
<1>4. ASSUME NEW e \in Events, Deliver(e)
      PROVE  (metrics_["kafka_ok"] + Cardinality(Good) <= Cardinality(broker))'
  <2>1. /\ e \notin broker /\ broker' = broker \cup {e} /\ metrics_' = metrics_
        /\ reports' = reports \cup {<<e, TRUE>>}
    BY <1>4 DEF Deliver, KafkaPlaces
  <2>2. Cardinality(broker)' = Cardinality(broker) + 1
    BY <1>0, <2>1, SetSteps
  <2>3. Good' \subseteq Good \cup {<<e, TRUE>>}
    BY <2>1 DEF Good
  <2>4. IsFiniteSet(Good \cup {<<e, TRUE>>})
        /\ Cardinality(Good \cup {<<e, TRUE>>}) <= Cardinality(Good) + 1
    <3>1. IsFiniteSet(Good \cup {<<e, TRUE>>})
          /\ Cardinality(Good \cup {<<e, TRUE>>}) \in {Cardinality(Good), Cardinality(Good) + 1}
      BY <1>0, FS_AddElement
    <3> QED
      BY <1>0, <3>1
  <2>5. Cardinality(Good') \in Nat
        /\ Cardinality(Good') <= Cardinality(Good \cup {<<e, TRUE>>})
        /\ Cardinality(Good \cup {<<e, TRUE>>}) \in Nat
    BY <2>3, <2>4, FS_Subset, FS_CardinalityType
  <2> QED
    BY <1>0, <2>1, <2>2, <2>4, <2>5
<1>5. ASSUME NEW e \in Events, DeliveryFails(e)
      PROVE  (metrics_["kafka_ok"] + Cardinality(Good) <= Cardinality(broker))'
  <2>1. /\ broker' \in {broker, broker \cup {e}} /\ metrics_' = metrics_
        /\ reports' = reports \cup {<<e, FALSE>>}
    BY <1>5 DEF DeliveryFails
  <2>2. Cardinality(broker)' \in Nat /\ Cardinality(broker)' >= Cardinality(broker)
    <3>1. CASE broker' = broker
      BY <1>0, <3>1
    <3>2. CASE broker' = broker \cup {e}
      <4>1. Cardinality(broker)' \in {Cardinality(broker), Cardinality(broker) + 1}
        BY <1>0, <3>2, FS_AddElement
      <4> QED
        BY <1>0, <4>1
    <3> QED
      BY <2>1, <3>1, <3>2
  <2>3. Good' = Good
    <3>1. ~(<<e, FALSE>>[2])
      OBVIOUS
    <3> QED
      BY <2>1, <3>1, Zenon DEF Good
  <2> QED
    BY <1>0, <2>1, <2>2, <2>3
<1>6. ASSUME NEW t \in Threads, ServeReport(t)
      PROVE  (metrics_["kafka_ok"] + Cardinality(Good) <= Cardinality(broker))'
  <2>1. PICK r \in reports : reports' = reports \ {r} /\ dr_msg_cb(r) /\ broker' = broker
    BY <1>6 DEF ServeReport, ServeAt
  <2>2. CASE opaque = "metrics" /\ r[2]
    <3>1. Good' = Good \ {r} /\ r \in Good
      BY <2>1, <2>2 DEF Good
    <3>2. Cardinality(Good)' = Cardinality(Good) - 1
      BY <1>0, <3>1, SetSteps
    <3>3. metrics_'["kafka_ok"] = metrics_["kafka_ok"] + 1
      BY <2>1, <2>2, CounterStep DEF dr_msg_cb, Counters
    <3> QED
      BY <1>0, <2>1, <3>2, <3>3
  <2>3. CASE opaque = "metrics" /\ ~r[2]
    <3>1. Good' = Good
      BY <2>1, <2>3 DEF Good
    <3>2. metrics_'["kafka_ok"] = metrics_["kafka_ok"]
      BY <2>1, <2>3, CounterStep DEF dr_msg_cb, Counters
    <3> QED
      BY <1>1, <2>1, <3>1, <3>2
  <2>4. CASE opaque # "metrics"
    <3>1. metrics_' = metrics_
      BY <2>1, <2>4 DEF dr_msg_cb
    <3>2. Good' \subseteq Good
      BY <2>1 DEF Good
    <3>3. Cardinality(Good') \in Nat /\ Cardinality(Good') <= Cardinality(Good)
      BY <1>0, <3>2, FS_Subset, FS_CardinalityType
    <3> QED
      BY <1>0, <2>1, <3>1, <3>3
  <2> QED
    BY <2>2, <2>3, <2>4
<1>7. CASE FlushTimeout
  <2>1. PICK purged \in SUBSET outq : reports' = reports \cup (purged \X {FALSE})
    BY <1>7 DEF FlushTimeout
  <2>2. \A r \in purged \X {FALSE} : ~r[2]
    <3>1. IsFiniteSet(purged)
      BY EventSets, KafkaTyped
    <3> QED
      BY <3>1, Purged, Zenon
  <2>3. Good' = Good
    BY <2>1, <2>2, Zenon DEF Good
  <2> QED
    BY <1>1, <1>7, <2>3 DEF FlushTimeout
<1>8. CASE Destroy
  <2>1. Good' = {} /\ metrics_' = metrics_ /\ broker' = broker
    BY <1>8 DEF Destroy, Good
  <2>2. Cardinality(Good)' = 0
    BY <2>1, FS_EmptySet
  <2> QED
    BY <1>0, <2>1, <2>2
<1> QED
  BY <1>2, <1>3, <1>4, <1>5, <1>6, <1>7, <1>8, KafkaSteps

(***************************************************************************)
(* total_kafka_ok never exceeds the messages the broker has: dr_msg_cb     *)
(* counts a success only when one was delivered, once, whatever failed.    *)
(***************************************************************************)
THEOREM OkMeansDelivered == Spec => []KafkaOkDelivered
<1> DEFINE I == Shape /\ Places /\ KafkaPlaces /\ KafkaOkDelivered
<1>1. Init => I
  <2>1. Init => KafkaOkDelivered
    <3> SUFFICES ASSUME Init PROVE KafkaOkDelivered
      OBVIOUS
    <3>1. Good = {} /\ broker = {} /\ metrics_["kafka_ok"] = 0
      BY DEF Init, Counters, Good
    <3>2. Cardinality(Good) = 0 /\ Cardinality(broker) = 0
      BY <3>1, FS_EmptySet
    <3>3. metrics_["kafka_ok"] + Cardinality(Good) <= Cardinality(broker)
      BY <3>1, <3>2
    <3> QED
      BY <3>3 DEF KafkaOkDelivered, Good
  <2> QED
    BY <2>1, InitShape, InitPlaces, InitKafka
<1>2. I /\ [Next]_vars => I'
  BY NextShape, NextPlaces, NextKafka, NextOk
<1> QED
  BY <1>1, <1>2, PTL DEF Spec

-----------------------------------------------------------------------------
(* The pool implements EventLifecycle. *)

Queued(e) == \E i \in 1..Len(queue_) : queue_[i] = e

(* The stage of an event at each of its places. *)
LEMMA StageHeld ==
  ASSUME Places, NEW t \in Threads, data[t] \in Events
  PROVE  Stage(data[t]) = HeldStage(pc[t])
<1> DEFINE holders == {u \in Threads : data[u] = data[t]}
<1>1. holders = {t}
  BY DEF Places
<1>2. (CHOOSE u \in holders : TRUE) = t
  BY <1>1
<1> QED
  BY <1>1, <1>2 DEF Stage

LEMMA StageFree ==
  ASSUME NEW e \in Events, \A t \in Threads : data[t] # e
  PROVE  Stage(e) = IF Queued(e) THEN "queued"
                    ELSE IF e \in hist.pushed THEN hist.fate[e] ELSE "new"
<1>1. {t \in Threads : data[t] = e} = {}
  OBVIOUS
<1> QED
  BY <1>1 DEF Stage, Queued

(* An event that a step does not touch stays where it is. *)
LEMMA StageFrame ==
  ASSUME Shape, Places, Places', NEW e \in Events,
         \A t \in Threads : data'[t] = e <=> data[t] = e,
         \A t \in Threads : data[t] = e => pc'[t] = pc[t],
         Queued(e)' <=> Queued(e), e \in hist'.pushed <=> e \in hist.pushed,
         hist'.fate[e] = hist.fate[e]
  PROVE  Stage(e)' = Stage(e)
<1>1. CASE \E t \in Threads : data[t] = e
  <2>1. PICK t \in Threads : data[t] = e /\ data'[t] = e /\ pc'[t] = pc[t]
    BY <1>1
  <2> DEFINE holders == {u \in Threads : data[u] = e}
  <2>2. holders = {t} /\ holders' = {t}
    BY <2>1 DEF Places
  <2>3. (CHOOSE u \in holders : TRUE) = t /\ (CHOOSE u \in holders' : TRUE) = t
    BY <2>2
  <2>4. Stage(e) = HeldStage(pc[t])
    BY <2>2, <2>3 DEF Stage
  <2>5. Stage(e)' = HeldStage(pc'[t])
    BY <2>2, <2>3 DEF Stage, HeldStage
  <2> QED
    BY <2>1, <2>4, <2>5
<1>2. CASE \A t \in Threads : data[t] # e
  <2>1. {t \in Threads : data[t] = e} = {} /\ {t \in Threads : data'[t] = e} = {}
    BY <1>2
  <2>2. Stage(e)' = IF Queued(e)' THEN "queued"
                    ELSE IF e \in hist'.pushed THEN hist'.fate[e] ELSE "new"
    BY <2>1 DEF Stage, Queued
  <2> QED
    BY <1>2, <2>2, StageFree
<1> QED
  BY <1>1, <1>2

(* The same in the next state. *)
LEMMA StageHeldNext ==
  ASSUME Places', NEW t \in Threads, NEW e \in Events, data'[t] = e
  PROVE  Stage(e)' = HeldStage(pc'[t])
<1> DEFINE holders == {u \in Threads : data'[u] = e}
<1>1. holders = {t}
  BY DEF Places
<1>2. (CHOOSE u \in holders : TRUE) = t
  BY <1>1
<1> QED
  BY <1>1, <1>2 DEF Stage, HeldStage

LEMMA StageFreeNext ==
  ASSUME NEW e \in Events, \A t \in Threads : data'[t] # e
  PROVE  Stage(e)' = IF Queued(e)' THEN "queued"
                     ELSE IF e \in hist'.pushed THEN hist'.fate[e] ELSE "new"
<1>1. {t \in Threads : data'[t] = e} = {}
  OBVIOUS
<1> QED
  BY <1>1 DEF Stage, Queued

(* The counters that EventLifecycle sees. *)
Seen == {"received", "parsed", "parse_fail", "valid", "invalid", "rate_limited"}

LEMMA SameCardinality == \A S : Lifecycle!Cardinality(S) = Cardinality(S)
BY DEF Lifecycle!Cardinality, Cardinality

(* A step of the pool that is a step of the lifecycle of event e. *)
LEMMA LifecycleMove ==
  ASSUME NEW e \in Events, NEW s \in Lifecycle!Stages, s \in Lifecycle!After(Stage(e)),
         s = "taken" => Cardinality(Lifecycle!Busy) < Cardinality(Workers),
         \A x \in Events : Stage(x)' = IF x = e THEN s ELSE Stage(x),
         \A c \in Seen : metrics_'[c] = metrics_[c] + (IF c = s THEN 1 ELSE 0)
  PROVE  Lifecycle!Next
<1>1. Lifecycle!Move(e, s)
  <2>1. [x \in Events |-> Stage(x)'] = [[x \in Events |-> Stage(x)] EXCEPT ![e] = s]
    OBVIOUS
  <2>2. [c \in Seen |-> metrics_'[c]]
          = [c \in Seen |-> [k \in Seen |-> metrics_[k]][c] + (IF c = s THEN 1 ELSE 0)]
    OBVIOUS
  <2>3. Lifecycle!Counted = Seen
    BY DEF Lifecycle!Counted, Seen
  <2>4. [x \in Events |-> Stage(x)][e] = Stage(e)
    OBVIOUS
  <2> QED
    BY <2>1, <2>2, <2>3, <2>4, SameCardinality DEF Lifecycle!Move, Seen
<1> QED
  BY <1>1 DEF Lifecycle!Next

(* A step that the lifecycle does not see. *)
LEMMA LifecycleStutter ==
  ASSUME \A x \in Events : Stage(x)' = Stage(x), \A c \in Seen : metrics_'[c] = metrics_[c]
  PROVE  UNCHANGED <<[e \in Events |-> Stage(e)],
                     [c \in {"received", "parsed", "parse_fail", "valid", "invalid", "rate_limited"}
                        |-> metrics_[c]]>>
<1>1. [x \in Events |-> Stage(x)'] = [x \in Events |-> Stage(x)]
  OBVIOUS
<1>2. [c \in Seen |-> metrics_'[c]] = [c \in Seen |-> metrics_[c]]
  OBVIOUS
<1> QED
  BY <1>1, <1>2 DEF Seen

(* A thread moves and keeps what it has. *)
LEMMA MoveStage ==
  ASSUME Shape, Places, Places', NEW t \in Threads, NEW l, Goto(t, l), UNCHANGED <<data, queue_>>,
         hist'.pushed = hist.pushed, hist'.fate = hist.fate
  PROVE  \A x \in Events : Stage(x)' = IF x = data[t] THEN HeldStage(l) ELSE Stage(x)
<1> TAKE x \in Events
<1>0. pc'[t] = l /\ \A u \in Threads \ {t} : pc'[u] = pc[u]
  BY DEF Goto, Shape, TypeOK
<1>1. CASE x = data[t]
  BY <1>0, <1>1, StageHeldNext
<1>2. CASE x # data[t]
  <2>1. \A u \in Threads : data[u] = x => pc'[u] = pc[u]
    BY <1>0, <1>2
  <2>2. Queued(x)' <=> Queued(x)
    BY DEF Queued
  <2> QED
    BY <1>2, <2>1, <2>2, StageFrame
<1> QED
  BY <1>1, <1>2

(* A thread is done with its event. *)
LEMMA FinishStage ==
  ASSUME Shape, Places, Places', NEW t \in Threads, NEW l, Goto(t, l), NEW f \in Fates,
         Finishes(t, f)
  PROVE  \A x \in Events : Stage(x)' = IF x = data[t] THEN f ELSE Stage(x)
<1> TAKE x \in Events
<1>0. /\ \A u \in Threads \ {t} : pc'[u] = pc[u] /\ data'[u] = data[u]
      /\ data'[t] = NoEvent /\ NoEvent \notin Events
      /\ \A e \in Events : hist'.fate[e] = IF e = data[t] THEN f ELSE hist.fate[e]
      /\ hist'.pushed = hist.pushed /\ (Queued(x)' <=> Queued(x))
  <2>1. \A u \in Threads \ {t} : pc'[u] = pc[u]
    BY DEF Goto, Shape, TypeOK
  <2>2. data'[t] = NoEvent /\ \A u \in Threads \ {t} : data'[u] = data[u]
    BY DEF Finishes, Shape, TypeOK
  <2>3. \A e \in Events : hist'.fate[e] = IF e = data[t] THEN f ELSE hist.fate[e]
    BY FinishedFates
  <2>4. hist'.pushed = hist.pushed
    BY DEF Finishes
  <2>5. Queued(x)' <=> Queued(x)
    BY DEF Finishes, Queued
  <2> QED
    BY <2>1, <2>2, <2>3, <2>4, <2>5, ProcessorAssumption
<1>1. CASE x = data[t]
  <2>1. \A u \in Threads : data'[u] # x
    BY <1>0, <1>1 DEF Places
  <2>2. x \in hist.pushed /\ ~Queued(x)
    BY <1>1 DEF Places, Queued
  <2> QED
    BY <1>0, <1>1, <2>1, <2>2, StageFreeNext
<1>2. CASE x # data[t]
  BY <1>0, <1>2, StageFrame
<1> QED
  BY <1>1, <1>2

(* A thread takes the front of the queue. *)
LEMMA TakeStage ==
  ASSUME Shape, Places, Places', NEW t \in Threads, Takes(t)
  PROVE  /\ \A x \in Events : Stage(x)' = IF x = queue_[1] THEN "taken" ELSE Stage(x)
         /\ queue_[1] \in Events /\ Stage(queue_[1]) = "queued"
<1>0. /\ Len(queue_) \in Nat /\ Len(queue_) > 0 /\ queue_[1] \in Events
      /\ Len(queue_') = Len(queue_) - 1
      /\ \A i \in 1..(Len(queue_) - 1) : queue_'[i] = queue_[i + 1]
      /\ Head(queue_) = queue_[1]
  BY QueueParts DEF Takes
<1>1. /\ pc'[t] = "received" /\ data'[t] = queue_[1] /\ hist' = hist /\ data[t] \notin Events
      /\ \A u \in Threads \ {t} : pc'[u] = pc[u] /\ data'[u] = data[u]
  BY <1>0 DEF Takes, Goto, Shape, TypeOK
<1>2. Stage(queue_[1]) = "queued"
  <2>1. Queued(queue_[1])
    BY <1>0 DEF Queued
  <2>2. \A u \in Threads : data[u] # queue_[1]
    BY <1>0 DEF Places
  <2> QED
    BY <1>0, <2>1, <2>2, StageFree
<1>3. ASSUME NEW x \in Events, x # queue_[1]
      PROVE  Stage(x)' = Stage(x)
  <2>1. Queued(x)' => Queued(x)
    BY <1>0 DEF Queued
  <2>2. Queued(x) => Queued(x)'
    <3> SUFFICES ASSUME NEW i \in 1..Len(queue_), queue_[i] = x
                 PROVE  \E j \in 1..Len(queue_') : queue_'[j] = x
      BY DEF Queued
    <3>1. i # 1 /\ i - 1 \in 1..(Len(queue_) - 1) /\ (i - 1) + 1 = i
      BY <1>0, <1>3
    <3> QED
      BY <1>0, <3>1
  <2> QED
    BY <1>1, <1>3, <2>1, <2>2, StageFrame
<1>4. ASSUME NEW x \in Events, x = queue_[1]
      PROVE  Stage(x)' = "taken"
  BY <1>1, <1>4, StageHeldNext DEF HeldStage
<1> QED
  BY <1>0, <1>2, <1>3, <1>4

(* A session pushes an event. *)
LEMMA EnqueueStage ==
  ASSUME Shape, Places, Places', NEW e \in Events, Enqueue(e)
  PROVE  /\ \A x \in Events : Stage(x)' = IF x = e THEN "queued" ELSE Stage(x)
         /\ Stage(e) = "new"
<1>0. /\ Len(queue_) \in Nat /\ Len(queue_') = Len(queue_) + 1
      /\ queue_'[Len(queue_) + 1] = e
      /\ \A i \in 1..Len(queue_) : queue_'[i] = queue_[i]
  BY DEF Enqueue, Shape, TypeOK
<1>1. /\ UNCHANGED <<pc, data>> /\ hist'.fate = hist.fate /\ hist'.pushed = hist.pushed \cup {e}
      /\ e \notin hist.pushed
  BY EnqueuePlaces DEF Enqueue
<1>2. \A t \in Threads : data[t] # e
  BY <1>1 DEF Places
<1>3. ~Queued(e)
  BY <1>1 DEF Places, Queued
<1>4. Stage(e) = "new"
  BY <1>1, <1>2, <1>3, StageFree
<1>5. Stage(e)' = "queued"
  <2>1. Queued(e)'
    BY <1>0 DEF Queued
  <2> QED
    BY <1>1, <1>2, <2>1, StageFreeNext
<1>6. ASSUME NEW x \in Events, x # e
      PROVE  Stage(x)' = Stage(x)
  <2>1. \A i \in 1..Len(queue_') : i \in 1..Len(queue_) \/ i = Len(queue_) + 1
    BY <1>0
  <2>2. Queued(x)' <=> Queued(x)
    BY <1>0, <1>6, <2>1 DEF Queued
  <2> QED
    BY <1>1, <1>6, <2>2, StageFrame
<1> QED
  BY <1>4, <1>5, <1>6

(* No more events are in hand than there are workers; a pop finds one less. *)
LEMMA BusyBound ==
  ASSUME Shape, Places, NEW t \in Threads, Takes(t)
  PROVE  Cardinality(Lifecycle!Busy) < Cardinality(Workers)
<1> DEFINE H == {data[u] : u \in Holders}
<1>1. Lifecycle!Busy \subseteq H
  <2> SUFFICES ASSUME NEW e \in Events, e \notin H
               PROVE  Stage(e) \notin {"taken", "received", "parsed", "valid"}
    BY DEF Lifecycle!Busy
  <2>1. \A u \in Threads : data[u] # e
    BY DEF Holders
  <2>2. hist.fate[e] \in Fates
    BY DEF Shape, TypeOK, Histories
  <2> QED
    BY <2>1, <2>2, StageFree DEF Fates
<1>2. IsFiniteSet(Holders) /\ Cardinality(Holders) \in Nat
  BY AccountTyped
<1>3. IsFiniteSet(H) /\ Cardinality(H) = Cardinality(Holders)
  <2> DEFINE f == [u \in Holders |-> data[u]]
  <2>1. f \in [Holders -> H] /\ (\A x, y \in Holders : f[x] = f[y] => x = y)
        /\ \A z \in H : \E x \in Holders : f[x] = z
    BY DEF Places, Holders
  <2> HIDE DEF f, H
  <2> QED
    BY <1>2, <2>1, OneToOne
<1> HIDE DEF H
<1>4. Cardinality(Lifecycle!Busy) \in Nat /\ Cardinality(Lifecycle!Busy) <= Cardinality(Holders)
  BY <1>1, <1>2, <1>3, FS_Subset, FS_CardinalityType
<1>5. Cardinality(Workers) \in Nat /\ IsFiniteSet(Workers) /\ Cardinality(Workers) > 0
  <2>1. Cardinality(Workers) \in Nat /\ Cardinality(Workers) # 0
    BY ProcessorAssumption, FS_CardinalityType, FS_EmptySet
  <2> QED
    BY <2>1, ProcessorAssumption
<1>6. \A u \in Holders : u \in Threads /\ pc[u] \in Working /\ u # Poller
  BY AtWork DEF Holders, Shape, TypeOK
<1>7. CASE t = Main
  <2>1. Holders = {}
    <3>1. \A u \in Workers : pc[u] = "joined"
      BY <1>7 DEF Takes, Shape, ThreadShape, Joined
    <3>2. t \notin Holders
      BY DEF Takes, Holders
    <3> QED
      BY <1>6, <1>7, <3>1, <3>2, ThreadSet DEF Working
  <2>2. Cardinality(Holders) = 0
    BY <2>1, FS_EmptySet
  <2> QED
    BY <1>4, <1>5, <2>2
<1>8. CASE t # Main
  <2>1. t \in Workers /\ t \notin Holders
    BY <1>8, ThreadSet DEF Takes, Holders, Shape, ThreadShape
  <2>2. Main \notin Holders
    <3>1. pc[t] # "joined"
      BY DEF Takes
    <3>2. pc[Main] \in {"serve", "join"}
      BY <2>1, <3>1 DEF Shape, ThreadShape, Joined
    <3> QED
      BY <1>6, <3>2 DEF Working
  <2>3. Holders \subseteq Workers \ {t}
    BY <1>6, <2>1, <2>2, ThreadSet
  <2>4. IsFiniteSet(Workers \ {t}) /\ Cardinality(Workers \ {t}) = Cardinality(Workers) - 1
    BY <1>5, <2>1, FS_RemoveElement
  <2>5. Cardinality(Holders) <= Cardinality(Workers) - 1
    BY <2>3, <2>4, FS_Subset
  <2> QED
    BY <1>2, <1>4, <1>5, <2>5
<1> QED
  BY <1>7, <1>8

(* What EventLifecycle sees of the state, and its step relation. *)
Abstract == <<[e \in Events |-> Stage(e)],
              [c \in {"received", "parsed", "parse_fail", "valid", "invalid", "rate_limited"}
                 |-> metrics_[c]]>>

LifecycleStep == Lifecycle!Next \/ UNCHANGED Abstract

(* One counter more, and the event of the thread enters the stage of that name. *)
LEMMA CountedMove ==
  ASSUME Shape, Places, Places', NEW t \in Threads, data[t] \in Events,
         NEW s \in Seen, s \in Lifecycle!After(HeldStage(pc[t])), fetch_add(s),
         \A x \in Events : Stage(x)' = IF x = data[t] THEN s ELSE Stage(x)
  PROVE  Lifecycle!Next
<1>1. PICK e \in Events : e = data[t]
  OBVIOUS
<1>2. Stage(e) = HeldStage(pc[t])
  BY <1>1, StageHeld
<1>3. s \in Lifecycle!Stages /\ s # "taken"
  BY DEF Seen, Lifecycle!Stages, Lifecycle!Counted
<1>4. \A c \in Seen : metrics_'[c] = metrics_[c] + (IF c = s THEN 1 ELSE 0)
  <2>1. \A c \in Seen : c \in Counters /\ metrics_[c] \in Nat
    BY DEF Seen, Counters, Shape, TypeOK
  <2>2. metrics_'[s] = metrics_[s] + 1 /\ \A c \in Seen \ {s} : metrics_'[c] = metrics_[c]
    BY <2>1, CounterStep
  <2> QED
    BY <2>1, <2>2
<1> QED
  BY <1>1, <1>2, <1>3, <1>4, LifecycleMove

LEMMA LifecycleEventStep ==
  ASSUME Shape, Places, Places', NEW t \in Threads, EventStep(t)
  PROVE  LifecycleStep
<1>0. pc[t] \in Working /\ data[t] \in Events
  <2>1. pc[t] \in Working
    BY DEF EventStep, Received, Parse, Validate, Allow, RateLimited, Produce, Retry, Save, SaveIf,
           Working
  <2> QED
    BY <2>1, AtWork
<1>1. ASSUME NEW s \in Seen, NEW l, s = HeldStage(l), Count(t, s, l),
             s \in Lifecycle!After(HeldStage(pc[t]))
      PROVE  LifecycleStep
  <2>1. \A x \in Events : Stage(x)' = IF x = data[t] THEN s ELSE Stage(x)
    BY <1>1, MoveStage DEF Count
  <2> QED
    BY <1>0, <1>1, <2>1, CountedMove DEF Count, LifecycleStep
<1>2. ASSUME NEW c \in Drops, Drop(t, c), c \in Lifecycle!After(HeldStage(pc[t]))
      PROVE  LifecycleStep
  <2>1. c \in Seen /\ c \in Fates
    BY DEF Drops, Seen, Fates
  <2>2. \A x \in Events : Stage(x)' = IF x = data[t] THEN c ELSE Stage(x)
    BY <1>0, <1>2, <2>1, DropFinishes, FinishStage DEF Drop
  <2> QED
    BY <1>0, <1>2, <2>1, <2>2, CountedMove DEF Drop, LifecycleStep
<1>3. ASSUME NEW l, HeldStage(l) = HeldStage(pc[t]), Goto(t, l), UNCHANGED <<data, queue_>>,
             hist'.pushed = hist.pushed, hist'.fate = hist.fate,
             \A c \in Seen : metrics_'[c] = metrics_[c]
      PROVE  LifecycleStep
  <2>1. \A x \in Events : Stage(x)' = IF x = data[t] THEN HeldStage(pc[t]) ELSE Stage(x)
    BY <1>3, MoveStage
  <2>2. \A x \in Events : Stage(x)' = Stage(x)
    BY <1>0, <2>1, StageHeld
  <2> QED
    BY <1>3, <2>2, LifecycleStutter DEF LifecycleStep, Abstract
<1>4. CASE Received(t)
  BY <1>1, <1>4 DEF Received, Seen, HeldStage, Lifecycle!After
<1>5. CASE Parse(t)
  <2>1. HeldStage(pc[t]) = "received" /\ HeldStage("validate") = "parsed"
    BY <1>5 DEF Parse, HeldStage
  <2>2. Lifecycle!After("received") = {"parsed", "parse_fail"}
    BY DEF Lifecycle!After
  <2> QED
    BY <1>1, <1>2, <1>5, <2>1, <2>2 DEF Parse, Seen, Drops
<1>6. CASE Validate(t)
  <2>1. HeldStage(pc[t]) = "parsed" /\ HeldStage("limit") = "valid" /\ HeldStage("produce") = "valid"
    BY <1>6 DEF Validate, HeldStage
  <2>2. Lifecycle!After("parsed") = {"valid", "invalid"}
    BY DEF Lifecycle!After
  <2> QED
    BY <1>1, <1>2, <1>6, <2>1, <2>2 DEF Validate, Seen, Drops
<1>7. CASE RateLimited(t)
  BY <1>2, <1>7 DEF RateLimited, Drops, HeldStage, Lifecycle!After
<1>8. CASE Allow(t)
  BY <1>3, <1>8 DEF Allow, Skip, HeldStage
<1>9. ASSUME ProduceOk(t), UNCHANGED metrics_, pc[t] \in {"produce", "retry"}
      PROVE  LifecycleStep
  <2>1. hist'.pushed = hist.pushed /\ hist'.fate = hist.fate
    BY <1>9 DEF ProduceOk, Note, Shape, TypeOK, Histories
  <2> QED
    BY <1>3, <1>9, <2>1 DEF ProduceOk, HeldStage
<1>10. CASE Produce(t)
  BY <1>3, <1>9, <1>10 DEF Produce, Skip, HeldStage
<1>11. CASE Retry(t)
  <2>1. CASE Count(t, "kafka_fail", "save")
    <3>1. \A c \in Seen : metrics_'[c] = metrics_[c]
      BY <2>1, CounterStep DEF Count, Seen, Counters
    <3> QED
      BY <1>3, <1>11, <2>1, <3>1 DEF Retry, Count, HeldStage
  <2> QED
    BY <1>9, <1>11, <2>1 DEF Retry
<1>12. CASE Save(t)
  <2>1. PICK e \in Events : e = data[t]
    BY <1>0
  <2>2. Stage(e) = "valid"
    BY <1>12, <2>1, StageHeld DEF Save, SaveIf, HeldStage
  <2>3. "sunk" \in Fates /\ "sunk" \in Lifecycle!Stages /\ "sunk" \in Lifecycle!After("valid")
        /\ "sunk" \notin Seen
    BY DEF Fates, Lifecycle!Stages, Lifecycle!After, Seen
  <2>4. \A x \in Events : Stage(x)' = IF x = e THEN "sunk" ELSE Stage(x)
    BY <1>12, <2>1, <2>3, SaveFinishes, FinishStage DEF Save, SaveIf
  <2>5. \A c \in Seen : metrics_'[c] = metrics_[c] + (IF c = "sunk" THEN 1 ELSE 0)
    BY <1>12, <2>3 DEF Save, SaveIf, Shape, TypeOK, Seen, Counters
  <2> QED
    BY <2>2, <2>3, <2>4, <2>5, LifecycleMove DEF LifecycleStep
<1> QED
  BY <1>4, <1>5, <1>6, <1>7, <1>8, <1>10, <1>11, <1>12 DEF EventStep

LEMMA NextLifecycle ==
  ASSUME Shape, Places, Places', [Next]_vars
  PROVE  LifecycleStep
<1> USE ThreadSet
<1>1. ASSUME UNCHANGED <<pc, data, queue_, hist>>, \A c \in Seen : metrics_'[c] = metrics_[c]
      PROVE  LifecycleStep
  <2>1. \A x \in Events : Stage(x)' = Stage(x)
    BY <1>1 DEF Stage, HeldStage
  <2> QED
    BY <1>1, <2>1, LifecycleStutter DEF LifecycleStep, Abstract
<1>2. ASSUME NEW t \in Threads, NEW l, Goto(t, l), pc[t] \notin Working, UNCHANGED <<data, queue_>>,
             hist'.pushed = hist.pushed, hist'.fate = hist.fate, UNCHANGED metrics_
      PROVE  LifecycleStep
  <2>1. data[t] \notin Events
    BY <1>2 DEF Shape, TypeOK
  <2>2. \A x \in Events : Stage(x)' = Stage(x)
    BY <1>2, <2>1, MoveStage
  <2> QED
    BY <1>2, <2>2, LifecycleStutter DEF LifecycleStep, Abstract
<1>3. ASSUME NEW e \in Events, Enqueue(e)
      PROVE  LifecycleStep
  <2>1. "queued" \in Lifecycle!Stages /\ "queued" \in Lifecycle!After("new") /\ "queued" \notin Seen
    BY DEF Lifecycle!Stages, Lifecycle!After, Seen
  <2>2. \A c \in Seen : metrics_'[c] = metrics_[c] + (IF c = "queued" THEN 1 ELSE 0)
    BY <1>3, <2>1 DEF Enqueue, Shape, TypeOK, Seen, Counters
  <2> QED
    BY <1>3, <2>1, <2>2, EnqueueStage, LifecycleMove DEF LifecycleStep
<1>4. ASSUME NEW t \in Threads, Takes(t)
      PROVE  LifecycleStep
  <2>1. PICK e \in Events : e = queue_[1]
    BY <1>4, TakeStage
  <2>2. "taken" \in Lifecycle!Stages /\ "taken" \in Lifecycle!After("queued") /\ "taken" \notin Seen
    BY DEF Lifecycle!Stages, Lifecycle!After, Seen
  <2>3. \A c \in Seen : metrics_'[c] = metrics_[c] + (IF c = "taken" THEN 1 ELSE 0)
    BY <1>4, <2>2 DEF Takes, Shape, TypeOK, Seen, Counters
  <2>4. Stage(e) = "queued" /\ \A x \in Events : Stage(x)' = IF x = e THEN "taken" ELSE Stage(x)
    BY <1>4, <2>1, TakeStage
  <2>5. Cardinality(Lifecycle!Busy) < Cardinality(Workers)
    BY <1>4, BusyBound
  <2> QED
    BY <2>2, <2>3, <2>4, <2>5, LifecycleMove DEF LifecycleStep
<1>5. ASSUME NEW t \in Threads, Pop(t) \/ (t = Main /\ Drain)
      PROVE  LifecycleStep
  <2>1. /\ pc[t] \in {"pop", "drain"} /\ data[t] \notin Events
        /\ \E l \in PCs : PopOr(t, l)
    BY <1>5 DEF Pop, Drain, Shape, TypeOK, Working, PCs
  <2>2. CASE queue_ = <<>>
    BY <1>2, <2>1, <2>2 DEF PopOr, Working
  <2>3. CASE queue_ # <<>>
    BY <1>4, <2>1, <2>3 DEF PopOr, Takes
  <2> QED
    BY <2>2, <2>3
<1>6. ASSUME NEW t \in Threads, CheckRunning(t)
      PROVE  LifecycleStep
  BY <1>2, <1>6 DEF CheckRunning, LoopOr, Working
<1>7. ASSUME NEW t \in Threads, PollReturns(t)
      PROVE  LifecycleStep
  <2>1. CASE t = Poller
    <3>1. pc[t] = "polling"
      BY <1>7, <2>1, PollAt DEF PollReturns
    <3> QED
      BY <1>2, <1>7, <3>1 DEF PollReturns, Skip, Working
  <2>2. CASE t # Poller
    <3>1. pc[t] = "poll" /\ Skip(t, "retry")
      BY <1>7, <2>2, PollAt DEF PollReturns
    <3>2. data[t] \in Events /\ HeldStage("poll") = HeldStage("retry")
      BY <3>1, AtWork DEF Working, HeldStage
    <3>3. \A x \in Events : Stage(x)' = IF x = data[t] THEN HeldStage("retry") ELSE Stage(x)
      BY <3>1, MoveStage DEF Skip
    <3>4. \A x \in Events : Stage(x)' = Stage(x)
      BY <3>1, <3>2, <3>3, StageHeld
    <3> QED
      BY <3>1, <3>4, LifecycleStutter DEF Skip, LifecycleStep, Abstract
  <2> QED
    BY <2>1, <2>2
<1>8. CASE StopBegins \/ JoinThreads \/ FlushStorage \/ FlushDone \/ FlushTimeout \/ Destroy
  <2>1. PICK l : Goto(Main, l) /\ pc[Main] \notin Working
    BY <1>8 DEF StopBegins, JoinThreads, JoinAll, Skip, FlushStorage, FlushDone, FlushTimeout,
                Destroy, Working
  <2>2. UNCHANGED metrics_
    BY <1>8 DEF StopBegins, JoinThreads, JoinAll, Skip, FlushStorage, FlushDone, FlushTimeout,
                Destroy
  <2> QED
    BY <1>2, <1>8, <2>1, <2>2, StopSteps DEF Kept
<1>9. ASSUME NEW t \in Threads, ServeReport(t)
      PROVE  LifecycleStep
  <2>1. \A c \in Seen : metrics_'[c] = metrics_[c]
    BY <1>9, CounterStep DEF ServeReport, ServeAt, dr_msg_cb, Counters, Seen
  <2> QED
    BY <1>1, <1>9, <2>1 DEF ServeReport, ServeAt
<1>10. ASSUME NEW e \in Events, Deliver(e) \/ DeliveryFails(e)
       PROVE  LifecycleStep
  BY <1>1, <1>10 DEF Deliver, DeliveryFails
<1>11. CASE UNCHANGED vars \/ Ended
  BY <1>1, <1>11 DEF Ended, vars
<1> QED
  BY <1>3, <1>5, <1>6, <1>7, <1>8, <1>9, <1>10, <1>11, LifecycleEventStep
  DEF Next, ThreadStep, StopStep

LEMMA InitLifecycle == Init => Lifecycle!Init
<1> SUFFICES ASSUME Init PROVE Lifecycle!Init
  OBVIOUS
<1>1. \A e \in Events : Stage(e) = "new"
  <2> TAKE e \in Events
  <2>1. (\A t \in Threads : data[t] # e) /\ ~Queued(e) /\ e \notin hist.pushed
    BY ProcessorAssumption DEF Init, Queued
  <2> QED
    BY <2>1, StageFree
<1>2. \A c \in Seen : metrics_[c] = 0
  BY DEF Init, Seen, Counters
<1>3. [e \in Events |-> Stage(e)] = [e \in Events |-> "new"]
  BY <1>1
<1>4. [c \in Seen |-> metrics_[c]] = [c \in Seen |-> 0]
  BY <1>2
<1> QED
  BY <1>3, <1>4 DEF Lifecycle!Init, Lifecycle!Counted, Seen

(***************************************************************************)
(* The worker pool, the drain of stop and a crash in dr_msg_cb together    *)
(* implement EventLifecycle, for any number of workers: every event takes  *)
(* its stages in order and once, each is counted in the step that enters   *)
(* it, and no more events are in hand than there are workers.              *)
(***************************************************************************)
THEOREM PoolImplementsLifecycle == Spec => ImplementsLifecycle
<1> DEFINE I == Shape /\ Places
<1>1. Init => I /\ Lifecycle!Init
  BY InitShape, InitPlaces, InitLifecycle
<1>2. I /\ [Next]_vars => I'
  BY NextShape, NextPlaces
<1>3. I /\ I' /\ [Next]_vars => [Lifecycle!Next]_Abstract
  BY NextLifecycle DEF LifecycleStep
<1> QED
  BY <1>1, <1>2, <1>3, PTL DEF Spec, ImplementsLifecycle, Lifecycle!Spec, Abstract
==============================================================================
