--------------------------- MODULE MCTaskClaims ---------------------------
(* The TLC instance of TaskClaims.  "round" is a step of the investigation  *)
(* that proposes hypotheses: as `follow_ups` it adds rows both ways, under  *)
(* the run's lock and after an unlocked read.  One dynamic row, "next",     *)
(* stands for the tests and for the round that follows.                     *)
EXTENDS TaskClaims, TLC

MCKeys == {"round", "next"}
MCDynamic == {"next"}
MCExpands == [k \in Keys |-> IF k = "round" THEN {"next"} ELSE {}]
MCFollows == MCExpands
MCResetFull == {"round"}
MCResetPartial == {}

Symmetry == Permutations(Workers)

=============================================================================
