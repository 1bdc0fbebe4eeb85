------------------------- MODULE MCMaterialization -------------------------
(* TLC instances of Materialization: interchangeable candidates and         *)
(* requests; an invalid candidate beside the good ones.                     *)
EXTENDS Materialization, TLC

Symmetry == Permutations(Candidates \ Invalid) \cup Permutations(Attempts)

=============================================================================
