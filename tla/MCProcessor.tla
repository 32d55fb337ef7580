----------------------------- MODULE MCProcessor -----------------------------
(* Model-checking instances of Processor. *)
EXTENDS Processor, TLC

(* Worker threads are interchangeable, and so are the events. *)
Symmetry == Permutations(Workers) \cup Permutations(Events)
=============================================================================
