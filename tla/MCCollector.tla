----------------------------- MODULE MCCollector -----------------------------
EXTENDS Collector, TLC

(* Launches are interchangeable. *)
Symmetry == Permutations(Launches)
=============================================================================
