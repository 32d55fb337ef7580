--------------------------- MODULE ThreadSafeQueue ---------------------------
(***************************************************************************)
(* include/queue.h: the bounded FIFO between the session handlers (which   *)
(* call try_push) and the worker threads (which call try_pop_for, and      *)
(* try_pop in the final drain).                                            *)
(*                                                                         *)
(* Every member function holds mtx_ from its first to its last statement,  *)
(* except while a thread sleeps in not_empty_.wait_for.  One action is     *)
(* therefore one critical section: an operation that does not sleep is one *)
(* action; a try_pop_for that sleeps is one action up to the sleep and one *)
(* after it.  What a thread does between notify, wake-up and re-locking    *)
(* mtx_ is kept, because other threads run in that gap.                    *)
(***************************************************************************)
EXTENDS Naturals, Sequences, FiniteSets

CONSTANTS
  Consumers,   \* the threads that pop (the Processor's workers)
  Values,      \* the serialized events that may be pushed
  Capacity,    \* capacity_
  MaxPushes    \* bound: calls of try_push in a behaviour

ASSUME QueueAssumption ==
  /\ IsFiniteSet(Consumers)
  /\ Capacity \in Nat
  /\ MaxPushes \in Nat

VARIABLES
  queue_,      \* the std::queue
  state,       \* where each consumer is with respect to not_empty_
  pushed,      \* history: values accepted by try_push, in order
  popped,      \* history: values returned by a pop, in order
  refused      \* number of try_push calls that returned false

vars == <<queue_, state, pushed, popped, refused>>

(***************************************************************************)
(* "running": outside the queue.  "waiting": asleep in wait_for.           *)
(* "woken": notified or spuriously woken, has yet to re-lock mtx_ and      *)
(* evaluate the predicate.  "expired": its 500 ms are over, has yet to     *)
(* re-lock mtx_ and evaluate the predicate one last time.                  *)
(***************************************************************************)
States == {"running", "waiting", "woken", "expired"}

In(s) == {c \in Consumers : state[c] = s}

Init ==
  /\ queue_ = <<>>
  /\ state = [c \in Consumers |-> "running"]
  /\ pushed = <<>>
  /\ popped = <<>>
  /\ refused = 0

-----------------------------------------------------------------------------
(* Mutant of notify_one: the call is forgotten. *)
NotifyForgotten == UNCHANGED state

(* not_empty_.notify_one(): one sleeping thread, if there is one, is woken. *)
notify_one ==
  \/ \E c \in In("waiting") : state' = [state EXCEPT ![c] = "woken"]
  \/ In("waiting") = {} /\ UNCHANGED state

Refuse ==
  /\ Len(queue_) >= Capacity
  /\ refused' = refused + 1
  /\ UNCHANGED <<queue_, state, pushed, popped>>

Accept(v) ==
  /\ Len(queue_) < Capacity
  /\ queue_' = Append(queue_, v)
  /\ pushed' = Append(pushed, v)
  /\ notify_one
  /\ UNCHANGED <<popped, refused>>

(* Mutant of try_push: accepts one value too many. *)
PushOneTooMany(v) ==
  /\ Len(pushed) + refused < MaxPushes
  /\ IF Len(queue_) > Capacity
     THEN Refuse
     ELSE /\ queue_' = Append(queue_, v)
          /\ pushed' = Append(pushed, v)
          /\ notify_one
          /\ UNCHANGED <<popped, refused>>

(* Both overloads of try_push: false on a full queue, else push and notify. *)
try_push(v) ==
  /\ Len(pushed) + refused < MaxPushes
  /\ Refuse \/ Accept(v)

-----------------------------------------------------------------------------
(* Mutant of TakeFront: reads the front without popping it. *)
FrontNotPopped(c) ==
  /\ queue_ # <<>>
  /\ popped' = Append(popped, Head(queue_))
  /\ state' = [state EXCEPT ![c] = "running"]
  /\ UNCHANGED <<queue_, pushed, refused>>

(* Mutant of TakeFront: reads the front after popping it. *)
FrontReadAfterPop(c) ==
  /\ queue_ # <<>>
  /\ popped' = Append(popped, IF Len(queue_) = 1 THEN "freed" ELSE queue_[2])
  /\ queue_' = Tail(queue_)
  /\ state' = [state EXCEPT ![c] = "running"]
  /\ UNCHANGED <<pushed, refused>>

(* Moves the front out, pops it and returns it to c. *)
TakeFront(c) ==
  /\ queue_ # <<>>
  /\ popped' = Append(popped, Head(queue_))
  /\ queue_' = Tail(queue_)
  /\ state' = [state EXCEPT ![c] = "running"]
  /\ UNCHANGED <<pushed, refused>>

(* try_pop; on an empty queue it returns false and changes nothing. *)
try_pop(c) ==
  /\ state[c] = "running"
  /\ TakeFront(c)

(* wait_for puts c to sleep and releases mtx_: the predicate was false. *)
Sleep(c) ==
  /\ queue_ = <<>>
  /\ state' = [state EXCEPT ![c] = "waiting"]
  /\ UNCHANGED <<queue_, pushed, popped, refused>>

(* The call of try_pop_for, up to the value or the sleep. *)
try_pop_for(c) ==
  /\ state[c] = "running"
  /\ TakeFront(c) \/ Sleep(c)

(* A woken thread re-locks mtx_ and evaluates the predicate again. *)
Resume(c) ==
  /\ state[c] = "woken"
  /\ TakeFront(c) \/ Sleep(c)

(* The deadline passes, or the wake-up is spurious: c leaves the wait set *)
(* without having been notified.                                          *)
LeaveWait(c, s) ==
  /\ state[c] = "waiting"
  /\ state' = [state EXCEPT ![c] = s]
  /\ UNCHANGED <<queue_, pushed, popped, refused>>

Timeout(c)  == LeaveWait(c, "expired")
Spurious(c) == LeaveWait(c, "woken")

(* After the deadline wait_for returns the predicate's value: a last look. *)
GiveUp(c) ==
  /\ queue_ = <<>>
  /\ state' = [state EXCEPT ![c] = "running"]
  /\ UNCHANGED <<queue_, pushed, popped, refused>>

Expire(c) ==
  /\ state[c] = "expired"
  /\ TakeFront(c) \/ GiveUp(c)

-----------------------------------------------------------------------------
Next ==
  \/ \E v \in Values : try_push(v)
  \/ \E c \in Consumers :
       \/ try_pop(c)
       \/ try_pop_for(c)
       \/ Resume(c)
       \/ Timeout(c)
       \/ Spurious(c)
       \/ Expire(c)

Spec == Init /\ [][Next]_vars

(***************************************************************************)
(* The workers loop on try_pop_for and a woken thread gets the mutex: each *)
(* is weakly fair.  The deadline is deliberately NOT fair, so that what is *)
(* shown below does not depend on the 500 ms timeout.                      *)
(***************************************************************************)
Fairness ==
  \A c \in Consumers : WF_vars(try_pop_for(c)) /\ WF_vars(Resume(c)) /\ WF_vars(Expire(c))

FairSpec == Spec /\ Fairness

-----------------------------------------------------------------------------
TypeOK ==
  /\ queue_ \in Seq(Values)
  /\ state \in [Consumers -> States]
  /\ pushed \in Seq(Values)
  /\ popped \in Seq(Values)
  /\ refused \in Nat

(***************************************************************************)
(* try_push's guard keeps the queue within capacity_ in every interleaving *)
(* of pushes, pops, wake-ups and timeouts.                                 *)
(***************************************************************************)
WithinCapacity == Len(queue_) <= Capacity

(***************************************************************************)
(* No value accepted by try_push is lost, duplicated or reordered by       *)
(* try_pop or try_pop_for, whichever threads take them.                    *)
(***************************************************************************)
Fifo == pushed = popped \o queue_

(***************************************************************************)
(* No lost wake-up: a worker sleeps in wait_for only while each queued     *)
(* value has a woken worker on its way to it.  This is what one notify_one *)
(* per push, under mtx_, has to achieve although running workers may take  *)
(* the value a woken one was notified for.                                 *)
(***************************************************************************)
NoLostWakeup ==
  In("waiting") # {} => Len(queue_) <= Cardinality(In("woken"))

Atomic == INSTANCE BoundedQueue WITH contents <- queue_, given <- popped

(***************************************************************************)
(* The queue implements BoundedQueue: sleeping, waking up, timing out and  *)
(* re-checking the predicate never show as anything but an atomic put or   *)
(* take, and takes go on as long as there are values.  This is the queue   *)
(* that Collector and Processor use.                                       *)
(***************************************************************************)
ImplementsBoundedQueue == Atomic!Spec
=============================================================================
