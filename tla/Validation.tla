------------------------------ MODULE Validation ------------------------------
(***************************************************************************)
(* src/processor/validation.cpp.  Of the strings of an event only the      *)
(* sizes matter: evt.user_id is the size of user_id.  Times are in ticks   *)
(* of the clock (milliseconds in the code), SECOND of them to a second.    *)
(***************************************************************************)
EXTENDS Integers

CONSTANTS
  MAX_NAME,         \* 256, of user_id and event_type
  MAX_PLATFORM,     \* 64
  MAX_PAYLOAD,      \* 65536
  MAX_AGE,          \* 30 days
  MAX_AHEAD,        \* 1 day
  SECOND

ASSUME ValidationAssumption ==
  /\ {MAX_NAME, MAX_PLATFORM, MAX_PAYLOAD, MAX_AGE, MAX_AHEAD} \subseteq Nat
  /\ SECOND \in Nat \ {0}

(* std::time(nullptr) * 1000: the clock, to the second. *)
Now(clock) == (clock \div SECOND) * SECOND

(* The tests of the sizes; event_id is not tested. *)
FieldsOk(evt) ==
  /\ evt.user_id \in 1..MAX_NAME /\ evt.event_type \in 1..MAX_NAME
  /\ evt.platform <= MAX_PLATFORM /\ evt.payload <= MAX_PAYLOAD

(* Mutant of TimeOk: the clock is rounded up. *)
NowRoundedUp(ts, clock) ==
  ts > 0 /\ ts >= Now(clock) + SECOND - MAX_AGE /\ ts <= Now(clock) + SECOND + MAX_AHEAD

(* The tests of the timestamp. *)
TimeOk(ts, clock) ==
  ts > 0 /\ ts >= Now(clock) - MAX_AGE /\ ts <= Now(clock) + MAX_AHEAD

validate_event(evt, clock) == FieldsOk(evt) /\ TimeOk(evt.ts, clock)
===============================================================================
