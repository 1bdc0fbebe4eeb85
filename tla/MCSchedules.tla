---------------------------- MODULE MCSchedules ----------------------------
(* Schedules on a small instance: the editors are alike. *)
EXTENDS Schedules, TLC

Symmetry == Permutations(Editors)

=============================================================================
