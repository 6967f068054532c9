-------------------------- MODULE MCScheduleLeases --------------------------
(* ScheduleLeases for TLC. *)
EXTENDS ScheduleLeases, TLC

Symmetry == Permutations(Workers) \cup Permutations(Schedules)
=============================================================================
