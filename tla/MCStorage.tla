------------------------------ MODULE MCStorage ------------------------------
(* Model-checking instances of Storage. *)
EXTENDS Storage, TLC

(* Worker threads are interchangeable, and so are the events. *)
Symmetry == Permutations(Workers) \cup Permutations(Events)
=============================================================================
