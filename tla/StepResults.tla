---------------------------- MODULE StepResults ----------------------------
(***************************************************************************)
(* What the run engine promises about the results of a plan's base steps   *)
(* (runtime/engine.py), without rows, claims or workers: a step has no     *)
(* result or one, stored under the plan version in force when it landed;   *)
(* nothing replaces a result and nothing takes it back, except a replan,   *)
(* which forgets the results of exactly the steps it resets.               *)
(* TaskClaims, with all of its racing attempts, implements it.             *)
(***************************************************************************)
EXTENDS Naturals

CONSTANTS
    Steps,      \* the base steps of the plan
    Forgets     \* Forgets: for each kind of replan, the steps it resets

VARIABLES
    plan,       \* the plan version in force
    done        \* by step: 0, or the plan version its result was stored under

resultVars == <<plan, done>>

Init ==
    /\ plan = 1
    /\ done = [s \in Steps |-> 0]

\* The report of an attempt at the step s lands: the first result of s since it was reset.
Land(s) ==
    /\ done[s] = 0
    /\ done' = [done EXCEPT ![s] = plan]
    /\ UNCHANGED plan

\* The next plan: the results of the steps it resets are gone, every other result is kept.
Replan(resets) ==
    /\ plan' = plan + 1
    /\ done' = [s \in Steps |-> IF s \in resets THEN 0 ELSE done[s]]

Next ==
    \/ \E s \in Steps : Land(s)
    \/ \E resets \in Forgets : Replan(resets)

Spec == Init /\ [][Next]_resultVars

=============================================================================
