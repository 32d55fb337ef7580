------------------------ MODULE ThreadSafeQueueProofs ------------------------
(***************************************************************************)
(* Proofs about ThreadSafeQueue for every set of consumers, every capacity *)
(* and every number of pushes.  TypeOK, WithinCapacity, Fifo and           *)
(* NoLostWakeup are each inductive relative to TypeOK.                     *)
(***************************************************************************)
EXTENDS ThreadSafeQueue, FiniteSetTheorems, SequenceTheorems, TLAPS

(* The sets of consumers in a given state are finite. *)
LEMMA InFinite ==
  ASSUME NEW s
  PROVE  IsFiniteSet(In(s)) /\ Cardinality(In(s)) \in Nat
<1>1. In(s) \in SUBSET Consumers
  BY DEF In
<1>2. IsFiniteSet(In(s))
  BY <1>1, QueueAssumption, FS_Subset
<1> QED
  BY <1>2, FS_CardinalityType

(***************************************************************************)
(* Every operation of the queue keeps the types of its variables.          *)
(***************************************************************************)
THEOREM TypeCorrect == Spec => []TypeOK
<1>1. Init => TypeOK
  BY DEF Init, TypeOK, States
<1>2. TypeOK /\ [Next]_vars => TypeOK'
  <2> SUFFICES ASSUME TypeOK, [Next]_vars
               PROVE  TypeOK'
    OBVIOUS
  <2> USE DEF TypeOK, States
  <2>1. ASSUME NEW v \in Values, try_push(v)
        PROVE  TypeOK'
    <3>1. CASE Refuse
      BY <3>1 DEF Refuse
    <3>2. CASE Accept(v)
      <4>1. state' \in [Consumers -> States]
        BY <3>2 DEF Accept, notify_one, In
      <4>2. queue_' \in Seq(Values) /\ pushed' \in Seq(Values) /\ popped' \in Seq(Values) /\ refused' \in Nat
        BY <3>2 DEF Accept
      <4> QED
        BY <4>1, <4>2
    <3> QED
      BY <2>1, <3>1, <3>2 DEF try_push
  <2>2. ASSUME NEW c \in Consumers, TakeFront(c)
        PROVE  TypeOK'
    BY <2>2 DEF TakeFront
  <2>3. ASSUME NEW c \in Consumers,
               Sleep(c) \/ GiveUp(c) \/ Timeout(c) \/ Spurious(c)
        PROVE  TypeOK'
    BY <2>3 DEF Sleep, GiveUp, Timeout, Spurious, LeaveWait
  <2>4. CASE UNCHANGED vars
    BY <2>4 DEF vars
  <2> QED
    BY <2>1, <2>2, <2>3, <2>4 DEF Next, try_pop, try_pop_for, Resume, Expire
<1> QED
  BY <1>1, <1>2, PTL DEF Spec

(***************************************************************************)
(* The queue never holds more than capacity_ values.                       *)
(***************************************************************************)
THEOREM CapacityRespected == Spec => []WithinCapacity
<1>1. Init => WithinCapacity
  BY QueueAssumption DEF Init, WithinCapacity
<1>2. TypeOK /\ WithinCapacity /\ [Next]_vars => WithinCapacity'
  <2> SUFFICES ASSUME TypeOK, WithinCapacity, [Next]_vars
               PROVE  WithinCapacity'
    OBVIOUS
  <2> USE QueueAssumption DEF TypeOK, WithinCapacity
  <2>1. ASSUME NEW v \in Values, try_push(v)
        PROVE  WithinCapacity'
    BY <2>1 DEF try_push, Refuse, Accept
  <2>2. ASSUME NEW c \in Consumers, TakeFront(c)
        PROVE  WithinCapacity'
    BY <2>2 DEF TakeFront
  <2>3. ASSUME NEW c \in Consumers,
               Sleep(c) \/ GiveUp(c) \/ Timeout(c) \/ Spurious(c)
        PROVE  WithinCapacity'
    BY <2>3 DEF Sleep, GiveUp, Timeout, Spurious, LeaveWait
  <2>4. CASE UNCHANGED vars
    BY <2>4 DEF vars
  <2> QED
    BY <2>1, <2>2, <2>3, <2>4 DEF Next, try_pop, try_pop_for, Resume, Expire
<1> QED
  BY <1>1, <1>2, TypeCorrect, PTL DEF Spec

(***************************************************************************)
(* What was accepted is, in order, what was popped followed by what is     *)
(* still queued.                                                           *)
(***************************************************************************)
THEOREM FifoOrder == Spec => []Fifo
<1>1. Init => Fifo
  BY DEF Init, Fifo
<1>2. TypeOK /\ Fifo /\ [Next]_vars => Fifo'
  <2> SUFFICES ASSUME TypeOK, Fifo, [Next]_vars
               PROVE  Fifo'
    OBVIOUS
  <2> USE DEF TypeOK, Fifo
  <2>1. ASSUME NEW v \in Values, try_push(v)
        PROVE  Fifo'
    <3>1. CASE Refuse
      BY <3>1 DEF Refuse
    <3>2. CASE Accept(v)
      <4>1. pushed' = Append(popped \o queue_, v) /\ queue_' = Append(queue_, v) /\ popped' = popped
        BY <3>2 DEF Accept
      <4>2. Append(popped \o queue_, v) = popped \o Append(queue_, v)
        <5>1. /\ Append(popped \o queue_, v) = (popped \o queue_) \o <<v>>
              /\ Append(queue_, v) = queue_ \o <<v>>
          BY ConcatProperties, AppendIsConcat
        <5>2. (popped \o queue_) \o <<v>> = popped \o (queue_ \o <<v>>)
          BY ConcatAssociative
        <5> QED
          BY <5>1, <5>2
      <4> QED
        BY <4>1, <4>2
    <3> QED
      BY <2>1, <3>1, <3>2 DEF try_push
  <2>2. ASSUME NEW c \in Consumers, TakeFront(c)
        PROVE  Fifo'
    <3>1. queue_ # <<>> /\ popped' = Append(popped, Head(queue_)) /\ queue_' = Tail(queue_) /\ pushed' = pushed
      BY <2>2 DEF TakeFront
    <3>2. popped \o queue_ = Append(popped, Head(queue_)) \o Tail(queue_)
      BY <3>1
    <3> QED
      BY <3>1, <3>2
  <2>3. ASSUME NEW c \in Consumers,
               Sleep(c) \/ GiveUp(c) \/ Timeout(c) \/ Spurious(c)
        PROVE  Fifo'
    BY <2>3 DEF Sleep, GiveUp, Timeout, Spurious, LeaveWait
  <2>4. CASE UNCHANGED vars
    BY <2>4 DEF vars
  <2> QED
    BY <2>1, <2>2, <2>3, <2>4 DEF Next, try_pop, try_pop_for, Resume, Expire
<1> QED
  BY <1>1, <1>2, TypeCorrect, PTL DEF Spec

(***************************************************************************)
(* One notify_one per push is enough: no worker sleeps while a queued      *)
(* value has no woken worker coming for it.                                *)
(***************************************************************************)
THEOREM WakeupsSuffice == Spec => []NoLostWakeup
<1>1. Init => NoLostWakeup
  BY DEF Init, NoLostWakeup, In
<1>2. TypeOK /\ NoLostWakeup /\ [Next]_vars => NoLostWakeup'
  <2> SUFFICES ASSUME TypeOK, NoLostWakeup, [Next]_vars
               PROVE  NoLostWakeup'
    OBVIOUS
  <2>w. DEFINE W == In("woken")
  <2>0. IsFiniteSet(W) /\ Cardinality(W) \in Nat /\ Cardinality(W') \in Nat
    <3>1. IsFiniteSet(W) /\ Cardinality(W) \in Nat
      BY InFinite
    <3>2. W' \in SUBSET Consumers
      BY DEF In
    <3>3. Cardinality(W') \in Nat
      BY <3>2, QueueAssumption, FS_Subset, FS_CardinalityType
    <3> QED
      BY <3>1, <3>3
  <2>1. ASSUME NEW v \in Values, try_push(v)
        PROVE  NoLostWakeup'
    <3>1. CASE Refuse
      BY <3>1 DEF Refuse, NoLostWakeup, In
    <3>2. CASE Accept(v)
      <4>1. CASE In("waiting") = {} /\ UNCHANGED state
        BY <4>1 DEF NoLostWakeup, In
      <4>2. ASSUME NEW c \in In("waiting"), state' = [state EXCEPT ![c] = "woken"]
            PROVE  NoLostWakeup'
        <5>1. W' = W \cup {c} /\ c \notin W
          BY <4>2 DEF In, TypeOK
        <5>2. Cardinality(W') = Cardinality(W) + 1
          BY <5>1, <2>0, FS_AddElement
        <5>3. Len(queue_) <= Cardinality(W)
          BY <4>2 DEF NoLostWakeup
        <5>4. Len(queue_') = Len(queue_) + 1
          BY <3>2 DEF Accept, TypeOK
        <5>5. Len(queue_) \in Nat
          BY DEF TypeOK
        <5>6. Len(queue_') <= Cardinality(W')
          BY <5>2, <5>3, <5>4, <5>5, <2>0
        <5> QED
          BY <5>6 DEF NoLostWakeup
      <4> QED
        BY <3>2, <4>1, <4>2 DEF Accept, notify_one
    <3> QED
      BY <2>1, <3>1, <3>2 DEF try_push
  <2>2. ASSUME NEW c \in Consumers, state[c] # "waiting", TakeFront(c)
        PROVE  NoLostWakeup'
    <3>1. In("waiting")' = In("waiting")
      BY <2>2 DEF TakeFront, In, TypeOK
    <3>2. Len(queue_') = Len(queue_) - 1 /\ Len(queue_) \in Nat
      BY <2>2 DEF TakeFront, TypeOK
    <3>3. W' = W \ {c}
      BY <2>2 DEF TakeFront, In, TypeOK
    <3>4. Cardinality(W') >= Cardinality(W) - 1
      <4>1. Cardinality(W \ {c}) \in {Cardinality(W), Cardinality(W) - 1}
        BY <2>0, FS_RemoveElement
      <4>2. Cardinality(W') \in {Cardinality(W), Cardinality(W) - 1}
        BY <3>3, <4>1
      <4> HIDE DEF W
      <4> QED
        BY <4>2, <2>0
    <3> QED
      BY <3>1, <3>2, <3>4, <2>0 DEF NoLostWakeup
  <2>3. ASSUME NEW c \in Consumers, Sleep(c) \/ GiveUp(c)
        PROVE  NoLostWakeup'
    <3>1. Len(queue_') = 0
      BY <2>3 DEF Sleep, GiveUp
    <3> QED
      BY <3>1, <2>0 DEF NoLostWakeup
  <2>4. ASSUME NEW c \in Consumers, Timeout(c) \/ Spurious(c)
        PROVE  NoLostWakeup'
    <3>1. In("waiting") # {} /\ queue_' = queue_
      BY <2>4 DEF Timeout, Spurious, LeaveWait, In
    <3>2. W' = W \/ W' = W \cup {c}
      BY <2>4 DEF Timeout, Spurious, LeaveWait, In, TypeOK
    <3>3. Cardinality(W') >= Cardinality(W)
      BY <3>2, <2>0, FS_AddElement
    <3>4. Len(queue_) \in Nat
      BY DEF TypeOK
    <3> QED
      BY <3>1, <3>3, <3>4, <2>0 DEF NoLostWakeup
  <2>5. CASE UNCHANGED vars
    BY <2>5 DEF vars, NoLostWakeup, In
  <2> QED
    BY <2>1, <2>2, <2>3, <2>4, <2>5 DEF Next, try_pop, try_pop_for, Resume, Expire
<1> QED
  BY <1>1, <1>2, TypeCorrect, PTL DEF Spec
(***************************************************************************)
(* Every step of the threads, their sleeps and wake-ups included, is an    *)
(* atomic put, an atomic take or no step at all of BoundedQueue: try_push, *)
(* try_pop and try_pop_for are linearizable.  The liveness of BoundedQueue *)
(* is left to the model checker.                                           *)
(***************************************************************************)
THEOREM QueueIsAtomic == Spec => Atomic!Safe
<1>1. Init => Atomic!Init
  BY DEF Init, Atomic!Init
<1>2. [Next]_vars => [Atomic!Next]_<<queue_, popped>>
  <2> SUFFICES ASSUME [Next]_vars
               PROVE  Atomic!Next \/ UNCHANGED <<queue_, popped>>
    OBVIOUS
  <2>1. ASSUME NEW v \in Values, try_push(v)
        PROVE  Atomic!Next \/ UNCHANGED <<queue_, popped>>
    BY <2>1 DEF try_push, Refuse, Accept, Atomic!Next, Atomic!Put
  <2>2. ASSUME NEW c \in Consumers, TakeFront(c)
        PROVE  Atomic!Next
    BY <2>2 DEF TakeFront, Atomic!Next, Atomic!Take
  <2>3. ASSUME NEW c \in Consumers,
               Sleep(c) \/ GiveUp(c) \/ Timeout(c) \/ Spurious(c)
        PROVE  UNCHANGED <<queue_, popped>>
    BY <2>3 DEF Sleep, GiveUp, Timeout, Spurious, LeaveWait
  <2>4. CASE UNCHANGED vars
    BY <2>4 DEF vars
  <2> QED
    BY <2>1, <2>2, <2>3, <2>4 DEF Next, try_pop, try_pop_for, Resume, Expire
<1> QED
  BY <1>1, <1>2, PTL DEF Spec, Atomic!Safe
=============================================================================
