----------------------------- MODULE BoundedQueue -----------------------------
(***************************************************************************)
(* What ThreadSafeQueue promises to its callers: a bounded queue on which  *)
(* each operation is one atomic step, and on which a value that can be     *)
(* taken does not stay for ever.  There are no threads, no mutex and no    *)
(* condition variable here.                                                *)
(***************************************************************************)
EXTENDS Naturals, Sequences

CONSTANTS Values, Capacity

VARIABLES
  contents,    \* the values in the queue
  given        \* the values handed out, in order

Init == contents = <<>> /\ given = <<>>

Put(v) ==
  /\ Len(contents) < Capacity
  /\ contents' = Append(contents, v)
  /\ UNCHANGED given

Take ==
  /\ contents # <<>>
  /\ given' = Append(given, Head(contents))
  /\ contents' = Tail(contents)

Next == Take \/ \E v \in Values : Put(v)

Safe == Init /\ [][Next]_<<contents, given>>

Spec == Safe /\ WF_<<contents, given>>(Take)
===============================================================================
