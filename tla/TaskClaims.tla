---------------------------- MODULE TaskClaims ----------------------------
(***************************************************************************)
(* The task claims of one analysis run (runtime/engine.py): how workers    *)
(* take, execute and report the rows of run_task while replans reset,      *)
(* remove and re-create those rows underneath them.                        *)
(*                                                                         *)
(* A worker thread executes `execute_task`: it reads the row without a     *)
(* lock, claims it with a compare-and-set, loads its context, runs, and    *)
(* reports in one transaction that locks the row again.  Between any two   *)
(* of these steps anything else may happen: a replan, a second claimer, a  *)
(* released claim, the death of the worker.  An attempt whose claim was    *)
(* released keeps running (nothing kills a Python thread), so several      *)
(* attempts at one key can be in flight.                                   *)
(***************************************************************************)
EXTENDS Naturals

CONSTANTS
    Keys,           \* the task keys of the run
    Dynamic,        \* keys added at runtime (is_dynamic: `test:*`, `followups:*`)
    Expands,        \* Expands[k]: the dynamic keys the step k adds holding the run's row lock
    Follows,        \* Follows[k]: those it adds after an unlocked read of the run (follow_ups)
    ResetFull,      \* static keys a redirect resets; it also removes Dynamic
    ResetPartial,   \* static keys a rejected finding resets
    Workers,        \* threads that may be inside execute_task at the same time
    MaxTries,       \* max_attempts of _is_last_attempt
    MaxPlan,        \* bound: last plan version
    MaxClaims,      \* bound: last claim version of a row
    MaxRows         \* bound: rows ever created

Static == Keys \ Dynamic

ASSUME ClaimsAssumption ==
    /\ Keys # {} /\ Dynamic \subseteq Keys
    /\ Expands \in [Keys -> SUBSET Dynamic] /\ Follows \in [Keys -> SUBSET Dynamic]
    /\ ResetFull \subseteq Static
    /\ ResetPartial \subseteq Static
    /\ MaxTries \in Nat /\ MaxPlan \in Nat /\ MaxClaims \in Nat /\ MaxRows \in Nat

VARIABLES
    task,           \* run_task by key
    attempt,        \* what each worker thread holds in its local variables
    planVersion,    \* analysis_run.plan_version
    control,        \* analysis_run.control
    wsEnabled,      \* the workspace is active and not deleted
    nextRow         \* primary keys handed out so far, plus one

vars == <<task, attempt, planVersion, control, wsEnabled, nextRow>>

TaskStatus == {"NEW", "RUNNING", "WAITING_USER", "COMPLETED", "FAILED", "SKIPPED", "CANCELLED"}
Controls == {"run", "pause", "cancel"}
Phases == {"idle", "claiming", "claimed", "running", "extending", "stopped"}

\* A run_task row.  `fresh`: RUNNING, with a started_at younger than CLAIM_TTL_SECONDS.
\* History, read by no action: `since`, the plan version that created or last reset
\* the row; `by`, the plan version its stored result was claimed under.
Row == [status : TaskStatus \cup {"ABSENT"}, id : Nat, claim : Nat, version : Nat, tries : Nat,
        fresh : BOOLEAN, since : Nat, by : Nat]

NoRow == [status |-> "ABSENT", id |-> 0, claim |-> 0, version |-> 0, tries |-> 0,
          fresh |-> FALSE, since |-> 0, by |-> 0]

\* The row add_task inserts into the plan of version v.
NewRow(id, v) ==
    [NoRow EXCEPT !.status = "NEW", !.id = id, !.version = v, !.since = v]

\* The locals of execute_task: the row read or claimed, and the plan version of ctx.task.
Attempt == [pc : Phases, key : Keys, row : Nat, claim : Nat, version : Nat,
            seen : TaskStatus, ctx : Nat]

Exists(k) == task[k].status # "ABSENT"
InFlight(w) == attempt[w].pc \in {"claimed", "running", "extending", "stopped"}
Blank == [pc |-> "idle", key |-> CHOOSE k \in Keys : TRUE, row |-> 0, claim |-> 0,
          version |-> 0, seen |-> "NEW", ctx |-> 0]
Idle(w) == attempt' = [attempt EXCEPT ![w] = Blank]
SetRow(k, r) == task' = [task EXCEPT ![k] = r]

\* The row t out of RUNNING: in status st; with the result of an attempt of plan v.
Settle(t, st) == [t EXCEPT !.status = st, !.fresh = FALSE]
Landed(t, st, v) == [t EXCEPT !.status = st, !.fresh = FALSE, !.by = v]

Init ==
    /\ task = [k \in Keys |-> IF k \in Static THEN NewRow(1, 1) ELSE NoRow]
    /\ attempt = [w \in Workers |-> Blank]
    /\ planVersion = 1
    /\ control = "run"
    /\ wsEnabled = TRUE
    /\ nextRow = 2

-----------------------------------------------------------------------------
(* Claiming *)

\* _claim, the unlocked read: a finished row, a live claim or a disabled workspace ends it.
ReadClaim(w, k) ==
    /\ attempt[w].pc = "idle"
    /\ wsEnabled
    /\ Exists(k)
    /\ task[k].status \notin {"COMPLETED", "SKIPPED"}
    /\ ~(task[k].status = "RUNNING" /\ task[k].fresh)
    /\ attempt' = [attempt EXCEPT ![w] = [pc |-> "claiming", key |-> k, row |-> task[k].id,
                                          claim |-> task[k].claim, version |-> task[k].version,
                                          seen |-> task[k].status, ctx |-> 0]]
    /\ UNCHANGED <<task, planVersion, control, wsEnabled, nextRow>>

\* Mutant of ClaimMatches: the compare-and-set without its claim version.
ClaimMatchesStatus(w) ==
    LET a == attempt[w]
        t == task[a.key]
    IN  t.id = a.row /\ t.status = a.seen /\ t.version = a.version

\* The WHERE clause of the guarded UPDATE.
ClaimMatches(w) ==
    LET a == attempt[w]
        t == task[a.key]
    IN  t.id = a.row /\ t.claim = a.claim /\ t.status = a.seen /\ t.version = a.version

\* The row t under the claim version c, and the attempt that holds it.
ClaimedRow(t, c) == [t EXCEPT !.status = "RUNNING", !.claim = c, !.tries = @ + 1, !.fresh = TRUE]
ClaimedBy(a, c) == [a EXCEPT !.pc = "claimed", !.claim = c, !.seen = "RUNNING"]

\* The UPDATE changed one row: this worker holds the task under the next claim version.
WinClaim(w) ==
    LET a == attempt[w]
    IN  /\ a.pc = "claiming"
        /\ ClaimMatches(w)
        /\ a.claim < MaxClaims
        /\ SetRow(a.key, ClaimedRow(task[a.key], a.claim + 1))
        /\ attempt' = [attempt EXCEPT ![w] = ClaimedBy(a, a.claim + 1)]
        /\ UNCHANGED <<planVersion, control, wsEnabled, nextRow>>

\* The UPDATE changed none: another claimer, a replan or a release moved the row first.
LoseClaim(w) ==
    /\ attempt[w].pc = "claiming"
    /\ ~ClaimMatches(w)
    /\ Idle(w)
    /\ UNCHANGED <<task, planVersion, control, wsEnabled, nextRow>>

-----------------------------------------------------------------------------
(* Executing *)

\* RunContext.load reads the row again: a replan since the claim is not noticed here.
LoadContext(w) ==
    /\ attempt[w].pc = "claimed"
    /\ attempt' = [attempt EXCEPT ![w].pc = "running", ![w].ctx = task[attempt[w].key].version]
    /\ UNCHANGED <<task, planVersion, control, wsEnabled, nextRow>>

\* add_task with from_version: a step extends the plan its context belongs to.
Extend(w, d) ==
    LET a == attempt[w]
    IN  /\ a.pc = "running"
        /\ d \in Expands[a.key]
        /\ a.ctx = planVersion
        /\ ~Exists(d)
        /\ nextRow <= MaxRows
        /\ SetRow(d, NewRow(nextRow, planVersion))
        /\ nextRow' = nextRow + 1
        /\ UNCHANGED <<attempt, planVersion, control, wsEnabled>>

\* follow_ups reads the run without its lock, passes the version check on what it read ...
ReadPlan(w) ==
    LET a == attempt[w]
    IN  /\ a.pc = "running"
        /\ Follows[a.key] # {}
        /\ a.ctx = planVersion
        /\ attempt' = [attempt EXCEPT ![w].pc = "extending"]
        /\ UNCHANGED <<task, planVersion, control, wsEnabled, nextRow>>

\* ... and adds the next round to the plan it read, unless the row is there already.
FollowUp(w, d) ==
    LET a == attempt[w]
    IN  /\ a.pc = "extending"
        /\ d \in Follows[a.key]
        /\ attempt' = [attempt EXCEPT ![w].pc = "running"]
        /\ IF Exists(d) THEN UNCHANGED <<task, nextRow>>
           ELSE /\ nextRow <= MaxRows
                /\ SetRow(d, NewRow(nextRow, a.ctx))
                /\ nextRow' = nextRow + 1
        /\ UNCHANGED <<planVersion, control, wsEnabled>>

\* check_control (and the version checks of add_task) raise RunCancelled.
StopTask(w) ==
    /\ attempt[w].pc = "running" /\ attempt[w].ctx # 0
    /\ control = "cancel" \/ planVersion # attempt[w].ctx
    /\ attempt' = [attempt EXCEPT ![w].pc = "stopped"]
    /\ UNCHANGED <<task, planVersion, control, wsEnabled, nextRow>>

\* The process running the attempt dies; its claim stays on the row.
WorkerDies(w) ==
    /\ InFlight(w)
    /\ Idle(w)
    /\ UNCHANGED <<task, planVersion, control, wsEnabled, nextRow>>

-----------------------------------------------------------------------------
(* Reporting: the last transaction of execute_task, on the row locked by key *)

\* Mutant of Holds: a report that only looks for the row.
HoldsAnyClaim(w) == Exists(attempt[w].key)

\* No row, or a later claim holds it: nothing is written.
Holds(w) == Exists(attempt[w].key) /\ task[attempt[w].key].claim = attempt[w].claim

Superseded(w) ==
    /\ attempt[w].pc \in {"running", "stopped"}
    /\ ~Holds(w)
    /\ Idle(w)
    /\ UNCHANGED <<task, planVersion, control, wsEnabled, nextRow>>

\* Mutant of OfCurrentPlan: a report of an older plan is taken for a current one.
OfAnyPlan(w) == planVersion >= attempt[w].version

OfCurrentPlan(w) ==
    /\ planVersion = attempt[w].version
    /\ task[attempt[w].key].version = attempt[w].version

ReportDisabled(w) ==
    /\ attempt[w].pc \in {"running", "stopped"}
    /\ Holds(w)
    /\ ~wsEnabled
    /\ SetRow(attempt[w].key, Settle(task[attempt[w].key], "CANCELLED"))
    /\ Idle(w)
    /\ UNCHANGED <<planVersion, control, wsEnabled, nextRow>>

\* Replanned while running: a dynamic row is deleted, a base row runs again.
Discard(w) ==
    LET k == attempt[w].key
    IN  /\ attempt[w].pc \in {"running", "stopped"}
        /\ Holds(w)
        /\ wsEnabled
        /\ ~OfCurrentPlan(w)
        /\ SetRow(k, IF k \in Dynamic THEN NoRow ELSE Settle(task[k], "NEW"))
        /\ Idle(w)
        /\ UNCHANGED <<planVersion, control, wsEnabled, nextRow>>

\* Stopped by a cancel that was taken back meanwhile.
Requeue(w) ==
    /\ attempt[w].pc = "stopped"
    /\ Holds(w) /\ wsEnabled /\ OfCurrentPlan(w)
    /\ control # "cancel"
    /\ SetRow(attempt[w].key, Settle(task[attempt[w].key], "NEW"))
    /\ Idle(w)
    /\ UNCHANGED <<planVersion, control, wsEnabled, nextRow>>

\* The result lands.  A context that found no row (ctx = 0) can only fail.
Land(w, outcome) ==
    LET k == attempt[w].key
    IN  /\ \/ attempt[w].pc = "stopped" /\ control = "cancel" /\ outcome = "CANCELLED"
           \/ attempt[w].pc = "running" /\ attempt[w].ctx # 0 /\ outcome = "COMPLETED"
           \/ attempt[w].pc = "running" /\ outcome = "FAILED"
        /\ Holds(w) /\ wsEnabled /\ OfCurrentPlan(w)
        /\ SetRow(k, Landed(task[k], outcome, attempt[w].version))
        /\ Idle(w)
        /\ UNCHANGED <<planVersion, control, wsEnabled, nextRow>>

\* An unexpected exception before the last attempt: _reset hands the row back, whatever
\* its plan version, if the claim is still this attempt's.
CrashReset(w) ==
    LET k == attempt[w].key
    IN  /\ attempt[w].pc = "running"
        /\ Exists(k) /\ task[k].tries < MaxTries
        /\ SetRow(k, IF Holds(w) THEN Settle(task[k], "NEW") ELSE task[k])
        /\ Idle(w)
        /\ UNCHANGED <<planVersion, control, wsEnabled, nextRow>>

-----------------------------------------------------------------------------
(* Releasing claims, replanning, controls *)

\* A claim reaches CLAIM_TTL_SECONDS, or release_timed_out_claim clears started_at.
ReleaseTimedOutClaim(k) ==
    /\ task[k].status = "RUNNING" /\ task[k].fresh
    /\ task' = [task EXCEPT ![k].fresh = FALSE]
    /\ UNCHANGED <<attempt, planVersion, control, wsEnabled, nextRow>>

\* The row t given back under a claim version no attempt holds.
Released(t) == [t EXCEPT !.status = "NEW", !.fresh = FALSE, !.claim = @ + 1]

\* release_orphaned_claims: a restarted local orchestrator takes every claim back.
ReleaseOrphanedClaims ==
    /\ \E k \in Keys : task[k].status = "RUNNING"
    /\ \A k \in Keys : task[k].status = "RUNNING" => task[k].claim < MaxClaims
    /\ task' = [k \in Keys |-> IF task[k].status = "RUNNING" THEN Released(task[k]) ELSE task[k]]
    /\ UNCHANGED <<attempt, planVersion, control, wsEnabled, nextRow>>

\* apply_replan over the task rows: removed, reset, or kept under the new version.  (It reads them
\* without their locks: what a step does between that and its commit is left out.)
ResetRow(t, v) == [t EXCEPT !.status = "NEW", !.fresh = FALSE, !.version = v, !.since = v, !.by = 0]
KeptRow(t, v) == [t EXCEPT !.version = v]

ReplanRow(k, resets, removes, v) ==
    IF ~Exists(k) \/ k \in removes THEN NoRow
    ELSE IF k \in resets THEN ResetRow(task[k], v) ELSE KeptRow(task[k], v)

Replan(full) ==
    /\ planVersion < MaxPlan
    /\ planVersion' = planVersion + 1
    /\ task' = [k \in Keys |-> ReplanRow(k, IF full THEN ResetFull ELSE ResetPartial,
                                         IF full THEN Dynamic ELSE {}, planVersion + 1)]
    /\ UNCHANGED <<attempt, control, wsEnabled, nextRow>>

\* A user's pause, resume or cancel, and an administrator disabling the workspace.
SetControl(c) ==
    /\ control # c
    /\ control' = c
    /\ UNCHANGED <<task, attempt, planVersion, wsEnabled, nextRow>>

DisableWorkspace ==
    /\ wsEnabled
    /\ wsEnabled' = FALSE
    /\ UNCHANGED <<task, attempt, planVersion, control, nextRow>>

Work(w) ==
    \/ \E k \in Keys : ReadClaim(w, k)
    \/ WinClaim(w)
    \/ LoseClaim(w)
    \/ LoadContext(w)
    \/ \E d \in Dynamic : Extend(w, d) \/ FollowUp(w, d)
    \/ ReadPlan(w)
    \/ StopTask(w)
    \/ WorkerDies(w)
    \/ Superseded(w)
    \/ ReportDisabled(w)
    \/ Discard(w)
    \/ Requeue(w)
    \/ \E outcome \in {"COMPLETED", "FAILED", "CANCELLED"} : Land(w, outcome)
    \/ CrashReset(w)

Environment ==
    \/ \E k \in Keys : ReleaseTimedOutClaim(k)
    \/ ReleaseOrphanedClaims
    \/ \E full \in BOOLEAN : Replan(full)
    \/ \E c \in Controls : SetControl(c)
    \/ DisableWorkspace

Next == (\E w \in Workers : Work(w)) \/ Environment

Spec == Init /\ [][Next]_vars

-----------------------------------------------------------------------------
(* Properties *)

TypeOK ==
    /\ task \in [Keys -> Row]
    /\ attempt \in [Workers -> Attempt]
    /\ planVersion \in Nat
    /\ control \in Controls
    /\ wsEnabled \in BOOLEAN
    /\ nextRow \in Nat

\* "Of two concurrent claimers exactly one updates the row": no two attempts in
\* flight ever hold the same claim version of the same row, however often the
\* claim was released, orphaned or retaken.
ClaimedOnce ==
    \A w1, w2 \in Workers :
        /\ w1 # w2 /\ InFlight(w1) /\ InFlight(w2)
        /\ attempt[w1].key = attempt[w2].key /\ attempt[w1].row = attempt[w2].row
        => attempt[w1].claim # attempt[w2].claim

\* A result that is stored was claimed under the plan that last created or reset
\* its row: a replan never keeps the answer of an attempt it interrupted.
ResultOfItsPlan ==
    \A k \in Keys : task[k].status = "COMPLETED" => task[k].by >= task[k].since

\* A completed base step keeps its result until a replan: no late, released or
\* crashed attempt overwrites it or hands it out again.
StableResult ==
    [][\A k \in Static :
          task[k].status = "COMPLETED" => task'[k] = task[k] \/ planVersion' # planVersion]_vars

\* The result of each base step as a reader of the plan sees it: 0 while it has none.
ResultOf(k) == IF task[k].status = "COMPLETED" THEN task[k].by ELSE 0

Results == INSTANCE StepResults WITH
    Steps <- Static,
    Forgets <- {ResetFull, ResetPartial},
    plan <- planVersion,
    done <- [k \in Static |-> ResultOf(k)]

\* "Each task has a stable key (idempotency) and a plan_version (stale results are
\* dropped)" (engine.py:3): seen from the results alone, however its attempts are
\* claimed, released, superseded or crash, a base step gets one result, under the plan
\* in force, and loses it only to a replan that resets the step.
ImplementsStepResults == Results!Spec

-----------------------------------------------------------------------------
(* The inductive invariant behind ClaimedOnce, ResultOfItsPlan and StableResult *)

Busy(w) == attempt[w].pc # "idle"

\* Row ids are never used twice, and a base step keeps its first row.
RowIds ==
    /\ nextRow >= 2
    /\ \A k \in Keys : Exists(k) => task[k].id >= 1 /\ task[k].id < nextRow
    /\ \A k \in Keys : ~Exists(k) => task[k].id = 0
    /\ \A k \in Static : Exists(k) /\ task[k].id = 1

\* An attempt holds a row that existed; the row it reads for a claim was not completed.
AttemptRows ==
    \A w \in Workers : Busy(w) =>
        /\ attempt[w].row >= 1 /\ attempt[w].row < nextRow
        /\ attempt[w].key \in Static => attempt[w].row = 1
        /\ attempt[w].pc = "claiming" => attempt[w].seen # "COMPLETED"

\* Nothing belongs to a plan that is still to come.
PastPlans ==
    /\ \A k \in Keys : task[k].version <= planVersion /\ task[k].since <= planVersion
    /\ \A w \in Workers : attempt[w].ctx <= planVersion

\* The row's claim version is at least that of every attempt still in flight on it.
NewestClaim ==
    \A w \in Workers :
        InFlight(w) /\ attempt[w].row = task[attempt[w].key].id
        => attempt[w].claim <= task[attempt[w].key].claim

\* No attempt still in flight holds a completed base step.
CompletedUnheld ==
    \A w \in Workers :
        InFlight(w) /\ attempt[w].key \in Static /\ task[attempt[w].key].status = "COMPLETED"
        => attempt[w].claim # task[attempt[w].key].claim

\* The claim protocol: what TypeOK, ClaimedOnce and ResultOfItsPlan need to be kept by
\* every step of `execute_task`, of a release and of a replan.
ClaimsInv ==
    /\ TypeOK
    /\ RowIds
    /\ AttemptRows
    /\ PastPlans
    /\ NewestClaim
    /\ CompletedUnheld
    /\ ClaimedOnce
    /\ ResultOfItsPlan

=============================================================================
