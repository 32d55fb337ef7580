---------------------------- MODULE EventLifecycle ----------------------------
(***************************************************************************)
(* What the service does with an event, seen through the counters of       *)
(* include/metrics.h: an event moves from stage to stage, and every stage  *)
(* that has a counter is counted when it is entered, in the same step.     *)
(* There are no threads here; that at most MaxBusy events are between the  *)
(* queue and their end is all that is left of the worker pool.             *)
(*                                                                         *)
(* Processor implements this specification, and Monitor reads the counters *)
(* of any implementation of it.                                            *)
(***************************************************************************)
EXTENDS Naturals, FiniteSets

CONSTANTS Events, MaxBusy

VARIABLES
  stage,       \* how far each event has come
  count        \* the counters total_* that the stages have

Counted == {"received", "parsed", "parse_fail", "valid", "invalid", "rate_limited"}

Stages == Counted \cup {"new", "queued", "taken", "sunk"}

(* The stages an event can enter from stage s. *)
After(s) ==
  CASE s = "new" -> {"queued"}
    [] s = "queued" -> {"taken"}
    [] s = "taken" -> {"received"}
    [] s = "received" -> {"parsed", "parse_fail"}
    [] s = "parsed" -> {"valid", "invalid"}
    [] s = "valid" -> {"rate_limited", "sunk"}
    [] OTHER -> {}

(* The events in the hands of the pool. *)
Busy == {e \in Events : stage[e] \in {"taken", "received", "parsed", "valid"}}

Init ==
  /\ stage = [e \in Events |-> "new"]
  /\ count = [c \in Counted |-> 0]

Move(e, s) ==
  /\ s \in After(stage[e])
  /\ s = "taken" => Cardinality(Busy) < MaxBusy
  /\ stage' = [stage EXCEPT ![e] = s]
  /\ count' = [c \in Counted |-> count[c] + (IF c = s THEN 1 ELSE 0)]

Next == \E e \in Events, s \in Stages : Move(e, s)

Spec == Init /\ [][Next]_<<stage, count>>
===============================================================================
