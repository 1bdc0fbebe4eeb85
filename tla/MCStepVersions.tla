--------------------------- MODULE MCStepVersions ---------------------------
(* TLC instance of StepVersions: a thread of three steps, a step that is    *)
(* added to it and one that is added in a fork.                             *)
EXTENDS StepVersions

MCSteps == 1..5
\* query -> method -> claim; a recipe of the method; a chart of the query, in the fork
MCDeps == <<{}, {1}, {2}, {2}, {1}>>
MCBranch == <<"main", "main", "main", "main", "fork">>
MCLater == {4, 5}

=============================================================================
