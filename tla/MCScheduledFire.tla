-------------------------- MODULE MCScheduledFire ---------------------------
(* ScheduledFire for TLC. *)
EXTENDS ScheduledFire, TLC

Symmetry == Permutations(Workers)
=============================================================================
