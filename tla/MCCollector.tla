----------------------------- MODULE MCCollector -----------------------------
(* Model-checking instances of Collector. *)
EXTENDS Collector, TLC

(* Connections are interchangeable. *)
Symmetry == Permutations(Conns)
=============================================================================
