---------------------------- MODULE MCGRPOTrainer ----------------------------
EXTENDS GRPOTrainer, TLC

(* Groups are taken in any order and differ only in their spread. *)
Symmetry == Permutations(Groups)
=============================================================================
