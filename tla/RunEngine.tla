----------------------------- MODULE RunEngine -----------------------------
(***************************************************************************)
(* One analysis run under its orchestrator (runtime/engine.py, driven by   *)
(* workflows/analysis_workflow.py or the local orchestrator of             *)
(* workflows/orchestrator.py).                                             *)
(*                                                                         *)
(* The driver is a loop: it reads the run (`get_state`), which tells it    *)
(* what to do, and then does it in another transaction (`execute_task`,    *)
(* `finish_run`, `plan_run`).  Users write to the same rows from their     *)
(* requests: controls, feedback that replans the run, approval decisions.  *)
(* Whatever they commit between the driver's read and its next write, the  *)
(* driver acts on what it read.                                            *)
(*                                                                         *)
(* The claim of a task row, its retries and its zombies are in TaskClaims; *)
(* here a started step is one attempt of the plan version it was claimed   *)
(* under.                                                                  *)
(***************************************************************************)
EXTENDS Naturals, FiniteSets

CONSTANTS
    Keys,           \* the task keys of the playbook and its expansions
    Deps,           \* Deps[k]: the steps k comes after
    Awaits,         \* Awaits[k]: the dynamic keys k's pattern dependencies match
    Dynamic,        \* keys added at runtime
    Expands,        \* Expands[k]: the dynamic keys step k adds while it runs
    Optional,       \* steps whose failure the run survives
    Skippable,      \* steps whose skip_when may hold, or whose capability may be missing
    PlanGates,      \* approval_gate steps with payload `plan`
    SideEffects,    \* side_effect steps
    Requests,       \* Requests[k]: the side effects whose approval step k requests
    Finds,          \* steps that record findings a user can reject
    ResetFull,      \* steps a redirect resets; it also removes Dynamic
    ResetPartial,   \* steps a rejected finding resets
    Gather,         \* TRUE: Temporal, the loop waits for the steps it started before it reads again
    Batch,          \* how many ready steps get_state returns at most
    Controls,       \* which of pause, resume, cancel users send
    MayAbandon,     \* steps of which every attempt Temporal (or the local pool) makes may be lost
    MayGiveUp,      \* an activity of the workflow itself may fail until its retries are used up
    MayDisable,     \* an administrator may disable the workspace
    MaxPlan         \* bound: last plan version

Static == Keys \ Dynamic
Gated == PlanGates \cup SideEffects

ASSUME PlaybookAssumption ==
    /\ IsFiniteSet(Keys) /\ Dynamic \subseteq Keys
    /\ Deps \in [Keys -> SUBSET Keys] /\ Awaits \in [Keys -> SUBSET Dynamic]
    /\ Expands \in [Keys -> SUBSET Dynamic] /\ Requests \in [Keys -> SUBSET SideEffects]
    /\ Gated \subseteq Static /\ PlanGates \cap SideEffects = {}
    /\ \A k \in Gated : Deps[k] \cap Gated = {}
    /\ Batch \in Nat \ {0} /\ MaxPlan \in Nat
    /\ Controls \subseteq {"pause", "resume", "cancel"}
    /\ MayAbandon \subseteq Keys /\ MayGiveUp \in BOOLEAN

VARIABLES
    status,         \* analysis_run.status
    control,        \* analysis_run.control
    planVersion,    \* analysis_run.plan_version
    wsEnabled,      \* the workspace is active and not deleted
    task,           \* run_task.status by key, ABSENT where there is no row
    approval,       \* status of the approval a gated row names in its input
    attempt,        \* execute_task in flight, by key
    driver,         \* where the orchestrator's loop is
    startDue,       \* feedback on a completed run still has to call start_run
    resuming,       \* the status a resume request read before it writes
    found,          \* findings exist: a user may reject one
    stranded,       \* history: what left the run without a loop, since a loop was last started
    overtaken,      \* history: a replan committed since the loop read what it now acts on
    abandoned       \* history: steps whose last claim ended without a report

vars == <<status, control, planVersion, wsEnabled, task, approval, attempt, driver,
          startDue, resuming, found, stranded, overtaken, abandoned>>

Terminal == {"COMPLETED", "FAILED", "CANCELLED"}
RunStatus == {"NEW", "PLANNING", "READY", "RUNNING", "PAUSED", "WAITING_USER"} \cup Terminal
Over == {"COMPLETED", "SKIPPED", "FAILED", "CANCELLED"}
TaskStatus == {"ABSENT", "NEW", "RUNNING", "WAITING_USER"} \cup Over
ApprovalStatus == {"none", "pending", "approved", "rejected", "invalidated", "executed"}
DriverPhases == {"plan", "planning", "poll", "start", "finish", "waiting", "returning", "returned"}

NoAttempt == [pc |-> "none", plan |-> 0, lost |-> FALSE]
Causes == {"revived", "nudged", "gave up"}
Attempt == [pc : {"none", "running", "verified", "stopped"}, plan : Nat, lost : BOOLEAN]

Driver == [pc : DriverPhases, keys : SUBSET Keys, outcome : {"none"} \cup Terminal]

InFlight(k) == attempt[k].pc # "none"
Idle == \A k \in Keys : ~InFlight(k)
Loop(phase) == [pc |-> phase, keys |-> {}, outcome |-> "none"]
At(phase) == driver.pc = phase

Init ==
    /\ status = "NEW" /\ control = "run" /\ planVersion = 0 /\ wsEnabled = TRUE
    /\ task = [k \in Keys |-> "ABSENT"]
    /\ approval = [k \in Gated |-> "none"]
    /\ attempt = [k \in Keys |-> NoAttempt]
    /\ driver = Loop("plan")
    /\ startDue = FALSE /\ resuming = "no" /\ found = FALSE
    /\ stranded = {} /\ overtaken = FALSE /\ abandoned = {}

userVars == <<startDue, resuming, found, stranded, overtaken, abandoned>>

-----------------------------------------------------------------------------
(* plan_run: two transactions around the model call that frames the plan *)

\* Mutant of Planned: an unplanned run counts as planned.
PlannedAtZero == planVersion >= 0

Planned == planVersion > 0

\* The first transaction: already planned, finished, disabled, or PLANNING.
BeginPlan ==
    /\ At("plan")
    /\ IF Planned \/ status \in Terminal
       THEN driver' = Loop("poll") /\ UNCHANGED <<status, control>>
       ELSE IF ~wsEnabled
       THEN driver' = Loop("poll") /\ control' = "cancel" /\ status' = "CANCELLED"
       ELSE driver' = Loop("planning") /\ status' = "PLANNING" /\ UNCHANGED control
    /\ UNCHANGED <<planVersion, wsEnabled, task, approval, attempt, userVars>>

\* A required capability is missing: finish_run(FAILED), unless the run ended meanwhile.
BindingFails ==
    /\ At("planning")
    /\ status' = IF status \in Terminal THEN status ELSE "FAILED"
    /\ driver' = Loop("poll")
    /\ UNCHANGED <<control, planVersion, wsEnabled, task, approval, attempt, userVars>>

\* The second transaction, under the row lock: materialize the plan and ask for its
\* approval, unless another planner (or a replan) already raised the version.
FinishPlan(skipped) ==
    /\ At("planning")
    /\ driver' = Loop("poll")
    /\ IF Planned THEN UNCHANGED <<status, planVersion, task, approval>>
       ELSE /\ planVersion' = 1
            /\ status' = "READY"
            /\ task' = [k \in Keys |-> IF k \in Dynamic THEN "ABSENT"
                                       ELSE IF k \in skipped THEN "SKIPPED" ELSE "NEW"]
            /\ approval' = [k \in Gated |-> IF k \in PlanGates THEN "pending" ELSE "none"]
    /\ UNCHANGED <<control, wsEnabled, attempt, userVars>>

-----------------------------------------------------------------------------
(* get_state: what the driver should do next *)

\* Mutant of DepSatisfied: a skipped step is not done.
DepCompleted(st, d) == st[d] = "COMPLETED" \/ (st[d] = "FAILED" /\ d \in Optional)

\* dep_satisfied for a step; a pattern is satisfied once every matching row is over.
DepSatisfied(st, d) == st[d] \in {"COMPLETED", "SKIPPED"} \/ (st[d] = "FAILED" /\ d \in Optional)
PatternDone(st, d, k) == d = k \/ k \in Deps[d] \/ st[d] \in Over \cup {"ABSENT"}

\* The rows that wait for nothing but, perhaps, a person.
Open(st) ==
    {k \in Keys : /\ st[k] \in {"NEW", "WAITING_USER"}
                  /\ \A d \in Deps[k] : DepSatisfied(st, d)
                  /\ \A d \in Awaits[k] : PatternDone(st, d, k)}

\* _approval_gate, and a side effect nobody asked approval for.
GateWaits(k) == k \in Gated /\ approval[k] = "pending"
GateShut(k) ==
    \/ k \in Gated /\ approval[k] \in {"rejected", "invalidated"}
    \/ k \in SideEffects /\ approval[k] = "none" /\ task[k] = "NEW"

\* The rows after the pass over the open ones: shut gates are skipped, waiting ones parked.
AfterGates ==
    [k \in Keys |-> IF k \notin Open(task) THEN task[k]
                    ELSE IF GateShut(k) THEN "SKIPPED"
                    ELSE IF GateWaits(k) THEN "WAITING_USER"
                    ELSE task[k]]

Waiting(st) == {k \in Open(st) : GateWaits(k)}
Ready(st) == Open(st) \ Waiting(st)
Running(st) == {k \in Keys : st[k] = "RUNNING"}
RequiredFailed(st) == \E k \in Keys \ Optional : st[k] = "FAILED"
AllOver(st) == \A k \in Keys : st[k] \in Over \cup {"ABSENT"}

\* "no runnable task (dependency deadlock)"
Deadlocked(st) ==
    ~RequiredFailed(st) /\ ~AllOver(st) /\ Ready(st) \cup Waiting(st) \cup Running(st) = {}

Polls == At("poll") /\ (Gather => Idle)

\* Mutant of CancelAsked: the user's cancel is not looked at.
CancelAskedByAdmin == ~wsEnabled

CancelAsked == ~wsEnabled \/ control = "cancel"
Finishing(outcome) == [pc |-> "finish", keys |-> {}, outcome |-> outcome]
Starting(keys) == [pc |-> "start", keys |-> keys, outcome |-> "none"]

PollStops ==
    /\ Polls
    /\ \/ status \in Terminal /\ driver' = Loop("returning")
       \/ status \notin Terminal /\ CancelAsked /\ driver' = Finishing("CANCELLED")
    /\ UNCHANGED <<status, control, planVersion, wsEnabled, task, approval, attempt, userVars>>

PollPauses ==
    /\ Polls /\ status \notin Terminal /\ ~CancelAsked
    /\ control = "pause"
    /\ status' = "PAUSED"
    /\ driver' = Loop("waiting")
    /\ UNCHANGED <<control, planVersion, wsEnabled, task, approval, attempt, userVars>>

PollNeedsPlan ==
    /\ Polls /\ status \notin Terminal /\ ~CancelAsked /\ control # "pause"
    /\ \A k \in Keys : task[k] = "ABSENT"
    /\ driver' = Loop("plan")
    /\ UNCHANGED <<status, control, planVersion, wsEnabled, task, approval, attempt, userVars>>

\* What the rows say once the gates are settled, in the order _decide looks.
PollTasks ==
    LET st == AfterGates
        ready == Ready(st)
    IN  /\ Polls /\ status \notin Terminal /\ ~CancelAsked /\ control # "pause"
        /\ \E k \in Keys : task[k] # "ABSENT"
        /\ task' = st
        /\ overtaken' = FALSE
        /\ IF RequiredFailed(st) \/ Deadlocked(st)
           THEN driver' = Finishing("FAILED") /\ UNCHANGED status
           ELSE IF AllOver(st)
           THEN driver' = Finishing("COMPLETED") /\ UNCHANGED status
           ELSE IF ready # {}
           THEN /\ \E keys \in SUBSET ready :
                       /\ Cardinality(keys) = IF Cardinality(ready) < Batch THEN Cardinality(ready) ELSE Batch
                       /\ driver' = Starting({k \in keys : ~InFlight(k)})
                /\ status' = "RUNNING"
           ELSE /\ driver' = Loop("waiting")
                /\ status' = IF Running(st) = {} THEN "WAITING_USER" ELSE status
        /\ UNCHANGED <<control, planVersion, wsEnabled, approval, attempt,
                       startDue, resuming, found, stranded, abandoned>>

GetState == PollStops \/ PollPauses \/ PollNeedsPlan \/ PollTasks

\* Mutant of Wake: only an approval wakes the loop.
WakeWhenApproved ==
    /\ At("waiting")
    /\ \E g \in Gated : approval[g] = "approved"
    /\ driver' = Loop("poll")
    /\ UNCHANGED <<status, control, planVersion, wsEnabled, task, approval, attempt, userVars>>

\* A nudge, or the periodic re-check.
Wake ==
    /\ At("waiting")
    /\ driver' = Loop("poll")
    /\ UNCHANGED <<status, control, planVersion, wsEnabled, task, approval, attempt, userVars>>

-----------------------------------------------------------------------------
(* Carrying out the decision *)

Handled(k) == driver' = IF driver.keys = {k} THEN Loop("poll") ELSE Starting(driver.keys \ {k})

\* No step of the decision is left to start (all of them are in flight already).
NothingToStart ==
    /\ At("start") /\ driver.keys = {}
    /\ driver' = Loop("poll")
    /\ UNCHANGED <<status, control, planVersion, wsEnabled, task, approval, attempt, userVars>>

\* execute_task claims the row in whatever state it is now: neither the run nor the
\* dependencies are looked at again.
StartTask(k) ==
    /\ At("start") /\ k \in driver.keys
    /\ wsEnabled /\ task[k] \notin {"ABSENT", "COMPLETED", "SKIPPED", "RUNNING"}
    /\ task' = [task EXCEPT ![k] = "RUNNING"]
    /\ attempt' = [attempt EXCEPT ![k] = [pc |-> "running", plan |-> planVersion, lost |-> FALSE]]
    /\ Handled(k)
    /\ abandoned' = abandoned \ {k}
    /\ UNCHANGED <<status, control, planVersion, wsEnabled, approval, startDue, resuming, found, stranded, overtaken>>

\* The row is gone or finished, or the workspace is disabled: nothing runs.
SkipTask(k) ==
    /\ At("start") /\ k \in driver.keys
    /\ ~wsEnabled \/ task[k] \in {"ABSENT", "COMPLETED", "SKIPPED", "RUNNING"}
    /\ Handled(k)
    /\ UNCHANGED <<status, control, planVersion, wsEnabled, task, approval, attempt, userVars>>

\* Mutant of Cancelled: rows that wait for a person are forgotten.
CancelledNew(st) == IF st = "NEW" THEN "CANCELLED" ELSE st

\* What finish_run makes of a row and of an approval of a cancelled run.
Cancelled(st) == IF st \in {"NEW", "WAITING_USER"} THEN "CANCELLED" ELSE st
Invalidated(st) == IF st \in {"pending", "approved"} THEN "invalidated" ELSE st

\* finish_run takes the row lock and asks only whether the run has ended already.
FinishRun ==
    /\ At("finish") /\ Idle
    /\ driver' = Loop("returning")
    /\ IF status \in Terminal THEN UNCHANGED <<status, task, approval>>
       ELSE /\ status' = driver.outcome
            /\ IF driver.outcome # "CANCELLED" THEN UNCHANGED <<task, approval>>
               ELSE /\ task' = [k \in Keys |-> Cancelled(task[k])]
                    /\ approval' = [g \in Gated |-> Invalidated(approval[g])]
    /\ UNCHANGED <<control, planVersion, wsEnabled, attempt, userVars>>

\* The workflow (or the driver thread) ends.
Return ==
    /\ At("returning") /\ Idle
    /\ driver' = Loop("returned")
    /\ UNCHANGED <<status, control, planVersion, wsEnabled, task, approval, attempt, userVars>>

\* plan_run, get_state or finish_run has failed as often as Temporal retries it: the error
\* leaves AnalysisWorkflow.run, and the workflow has failed whatever the run says.  (A local
\* driver that crashes is driven again by the sweep: see LocalRuntime.)
GiveUp ==
    /\ MayGiveUp /\ Gather
    /\ At("plan") \/ At("planning") \/ Polls \/ At("finish")
    /\ driver' = Loop("returned")
    /\ stranded' = stranded \cup {"gave up"}
    /\ UNCHANGED <<status, control, planVersion, wsEnabled, task, approval, attempt,
                   startDue, resuming, found, overtaken, abandoned>>

\* The sweeper of the local orchestrator drives a run that has not ended and has no driver.
Sweep ==
    /\ ~Gather /\ At("returned") /\ status \notin Terminal
    /\ driver' = Loop("plan")
    /\ stranded' = {}
    /\ UNCHANGED <<status, control, planVersion, wsEnabled, task, approval, attempt,
                   startDue, resuming, found, overtaken, abandoned>>

-----------------------------------------------------------------------------
(* A step in flight *)

Current(k) == attempt[k].plan = planVersion

\* add_task from_version, under the row lock: only the current plan is extended.
Expand(k, d) ==
    /\ attempt[k].pc = "running" /\ d \in Expands[k]
    /\ Current(k) /\ task[d] = "ABSENT"
    /\ task' = [task EXCEPT ![d] = "NEW"]
    /\ UNCHANGED <<status, control, planVersion, wsEnabled, approval, attempt, driver, userVars>>

\* request_publication reads the run without a lock and names a new approval on the row.
RequestApproval(k, e) ==
    /\ attempt[k].pc = "running" /\ e \in Requests[k]
    /\ task[e] # "ABSENT" /\ approval[e] \notin {"pending", "approved"}
    /\ approval' = [approval EXCEPT ![e] = "pending"]
    /\ UNCHANGED <<status, control, planVersion, wsEnabled, task, attempt, driver, userVars>>

\* check_control raises RunCancelled.
StopTask(k) ==
    /\ attempt[k].pc = "running"
    /\ control = "cancel" \/ ~Current(k)
    /\ attempt' = [attempt EXCEPT ![k].pc = "stopped"]
    /\ UNCHANGED <<status, control, planVersion, wsEnabled, task, approval, driver, userVars>>

\* verify_for_execution of the step's approval, then the side effect.
Verify(k) ==
    /\ attempt[k].pc = "running" /\ k \in SideEffects
    /\ approval[k] = "approved"
    /\ attempt' = [attempt EXCEPT ![k].pc = "verified"]
    /\ UNCHANGED <<status, control, planVersion, wsEnabled, task, approval, driver, userVars>>

Ends(k) == attempt' = [attempt EXCEPT ![k] = NoAttempt]

\* The report of an attempt whose row is gone, or whose plan or workspace is not current.
ReportStale(k) ==
    /\ InFlight(k)
    /\ attempt[k].lost \/ ~wsEnabled \/ ~Current(k)
    /\ task' = IF attempt[k].lost THEN task
               ELSE [task EXCEPT ![k] = IF ~wsEnabled THEN "CANCELLED"
                                        ELSE IF k \in Dynamic THEN "ABSENT" ELSE "NEW"]
    /\ Ends(k)
    /\ UNCHANGED <<status, control, planVersion, wsEnabled, approval, driver, userVars>>

\* A stopped attempt: CANCELLED, or handed back when the cancel was taken back.
ReportStopped(k) ==
    /\ attempt[k].pc = "stopped" /\ ~attempt[k].lost /\ wsEnabled /\ Current(k)
    /\ task' = [task EXCEPT ![k] = IF control = "cancel" THEN "CANCELLED" ELSE "NEW"]
    /\ Ends(k)
    /\ UNCHANGED <<status, control, planVersion, wsEnabled, approval, driver, userVars>>

\* The result of a step.  plan_approved and publish mark their approval executed; a
\* side effect completes only after it verified its approval.
Report(k, outcome) ==
    /\ attempt[k].pc \in {"running", "verified"} /\ ~attempt[k].lost /\ wsEnabled /\ Current(k)
    /\ outcome = "COMPLETED" /\ k \in SideEffects => attempt[k].pc = "verified"
    /\ task' = [task EXCEPT ![k] = outcome]
    /\ approval' = [g \in Gated |-> IF g = k /\ outcome = "COMPLETED" /\ (g \in SideEffects \/ approval[g] = "approved")
                                    THEN "executed" ELSE approval[g]]
    /\ found' = (found \/ (k \in Finds /\ outcome = "COMPLETED"))
    /\ Ends(k)
    /\ UNCHANGED <<status, control, planVersion, wsEnabled, driver, startDue, resuming,
                   stranded, overtaken, abandoned>>

\* The last attempt dies, times out, or fails to report and to reset its row (the retries before
\* it claim the row anew): the row stays as it is, and _decide never calls a RUNNING row ready.
Abandon(k) ==
    /\ k \in MayAbandon /\ InFlight(k)
    /\ Ends(k)
    /\ abandoned' = IF task[k] = "RUNNING" /\ ~attempt[k].lost THEN abandoned \cup {k} ELSE abandoned
    /\ UNCHANGED <<status, control, planVersion, wsEnabled, task, approval, driver, startDue, resuming, found,
                   stranded, overtaken>>

-----------------------------------------------------------------------------
(* Users *)

\* Mutant of AskControl: the request pauses the run itself.
PauseNow(c) ==
    /\ c \in Controls \ {"resume"} /\ status \notin Terminal /\ control # c
    /\ control' = c
    /\ status' = IF c = "pause" THEN "PAUSED" ELSE status
    /\ UNCHANGED <<planVersion, wsEnabled, task, approval, attempt, driver, userVars>>

\* control(): pause and cancel write one column.
AskControl(c) ==
    /\ c \in Controls \ {"resume"} /\ status \notin Terminal /\ control # c
    /\ control' = c
    /\ UNCHANGED <<status, planVersion, wsEnabled, task, approval, attempt, driver, userVars>>

\* A resume reads the run, without its lock, ...  (One request at a time is between its two halves.)
ReadResume ==
    /\ "resume" \in Controls /\ resuming = "no"
    /\ status \notin Terminal /\ control # "run"
    /\ resuming' = IF status = "PAUSED" THEN "PAUSED" ELSE "other"
    /\ UNCHANGED <<status, control, planVersion, wsEnabled, task, approval, attempt, driver, startDue, found,
                   stranded, overtaken, abandoned>>

\* ... and writes the control, and RUNNING over the status if it read PAUSED.
WriteResume ==
    /\ resuming # "no"
    /\ control' = "run"
    /\ status' = IF resuming = "PAUSED" THEN "RUNNING" ELSE status
    /\ resuming' = "no"
    /\ stranded' = IF resuming = "PAUSED" /\ status \in Terminal /\ (At("returning") \/ At("returned"))
                   THEN stranded \cup {"revived"} ELSE stranded
    /\ UNCHANGED <<planVersion, wsEnabled, task, approval, attempt, driver, startDue, found, overtaken, abandoned>>

\* Mutants of Reopened: a completed run stays completed; a failed one is reopened too.
ReopenedParked(st) == IF st \in {"WAITING_USER", "PAUSED"} THEN "RUNNING" ELSE st
ReopenedAny(st) == IF st \in {"WAITING_USER", "PAUSED"} \cup Terminal THEN "RUNNING" ELSE st

\* The status of a run that was replanned.
Reopened(st) == IF st \in {"WAITING_USER", "COMPLETED", "PAUSED"} THEN "RUNNING" ELSE st

\* apply_replan on the rows: removed, reset or kept; every open approval is invalidated.
Replan(full) ==
    LET removed == IF full THEN Dynamic ELSE {}
        resets == IF full THEN ResetFull ELSE ResetPartial
    IN  /\ planVersion < MaxPlan
        /\ planVersion' = planVersion + 1
        /\ task' = [k \in Keys |-> IF task[k] = "ABSENT" \/ k \in removed THEN "ABSENT"
                                   ELSE IF k \in resets THEN "NEW" ELSE task[k]]
        /\ attempt' = [k \in Keys |-> [attempt[k] EXCEPT !.lost = @ \/ (k \in removed /\ InFlight(k))]]
        /\ approval' = [g \in Gated |-> Invalidated(approval[g])]
        /\ status' = Reopened(status)

\* Feedback that replans, wherever the loop is: the request holds the run's row lock.  A
\* completed run is started again once the transaction has committed.
Feedback(full) ==
    /\ IF full THEN status \notin {"FAILED", "CANCELLED"} ELSE found
    /\ Replan(full)
    /\ startDue' = (startDue \/ status = "COMPLETED")
    /\ overtaken' = (overtaken \/ At("start") \/ At("finish"))
    /\ UNCHANGED <<control, wsEnabled, driver, resuming, found, stranded, abandoned>>

\* Mutant of StartRun: the request only signals the run.
OnlySignal ==
    /\ startDue
    /\ startDue' = FALSE
    /\ UNCHANGED <<status, control, planVersion, wsEnabled, task, approval, attempt, driver, resuming, found,
                   stranded, overtaken, abandoned>>

\* start_run: a new workflow, or a nudge to the one that has not returned yet, which is of no use
\* to a loop that is returning.
StartRun ==
    /\ startDue
    /\ startDue' = FALSE
    /\ driver' = IF At("returned") THEN Loop("plan") ELSE driver
    /\ stranded' = IF At("returned") THEN {} ELSE IF At("returning") THEN stranded \cup {"nudged"} ELSE stranded
    /\ UNCHANGED <<status, control, planVersion, wsEnabled, task, approval, attempt, resuming, found, overtaken,
                   abandoned>>

DecideApproval(g, verdict) ==
    /\ approval[g] = "pending"
    /\ approval' = [approval EXCEPT ![g] = verdict]
    /\ UNCHANGED <<status, control, planVersion, wsEnabled, task, attempt, driver, userVars>>

DisableWorkspace ==
    /\ MayDisable /\ wsEnabled
    /\ wsEnabled' = FALSE
    /\ UNCHANGED <<status, control, planVersion, task, approval, attempt, driver, userVars>>

-----------------------------------------------------------------------------

Drive ==
    \/ BeginPlan \/ BindingFails \/ (\E skipped \in SUBSET Skippable : FinishPlan(skipped))
    \/ GetState \/ Wake
    \/ NothingToStart \/ (\E k \in Keys : StartTask(k) \/ SkipTask(k))
    \/ FinishRun \/ Return \/ Sweep

EndTask(k) ==
    \/ ReportStale(k) \/ ReportStopped(k) \/ (\E outcome \in {"COMPLETED", "FAILED"} : Report(k, outcome))
    \/ Abandon(k)

Execute(k) ==
    \/ EndTask(k)
    \/ \E d \in Dynamic : Expand(k, d)
    \/ \E e \in SideEffects : RequestApproval(k, e)
    \/ StopTask(k) \/ Verify(k)

Users ==
    \/ \E c \in Controls : AskControl(c)
    \/ ReadResume \/ WriteResume
    \/ \E full \in BOOLEAN : Feedback(full)
    \/ StartRun
    \/ \E g \in Gated, verdict \in {"approved", "rejected"} : DecideApproval(g, verdict)
    \/ DisableWorkspace

Done == At("returned") /\ (status \in Terminal \/ stranded # {}) /\ UNCHANGED vars

Next == Drive \/ GiveUp \/ (\E k \in Keys : Execute(k)) \/ Users \/ Done

Spec == Init /\ [][Next]_vars

\* The loop keeps running (its waits time out) unless it gives up, a started step ends, with a
\* report or abandoned (the time-outs of its activity), and a request that has begun finishes.
\* Nothing makes a person answer, resume or cancel.
Fairness ==
    /\ WF_vars(Drive)
    /\ \A k \in Keys : WF_vars(EndTask(k))
    /\ WF_vars(WriteResume) /\ WF_vars(StartRun)

FairSpec == Spec /\ Fairness

-----------------------------------------------------------------------------
(* Properties *)

TypeOK ==
    /\ status \in RunStatus /\ control \in {"run", "pause", "cancel"}
    /\ planVersion \in Nat /\ wsEnabled \in BOOLEAN
    /\ task \in [Keys -> TaskStatus]
    /\ approval \in [Gated -> ApprovalStatus]
    /\ attempt \in [Keys -> Attempt]
    /\ driver \in Driver
    /\ startDue \in BOOLEAN /\ resuming \in {"no", "PAUSED", "other"} /\ found \in BOOLEAN
    /\ stranded \subseteq Causes /\ overtaken \in BOOLEAN /\ abandoned \subseteq Keys

\* What the loop relies on between a decision and its execution: the run it plans has not
\* ended, the run it starts steps of is RUNNING, a run it ends has an outcome, and a step it
\* starts is not in flight.
LoopInv ==
    /\ TypeOK
    /\ At("planning") => status \notin Terminal
    /\ At("start") => status = "RUNNING" /\ (\A k \in driver.keys : ~InFlight(k))
    /\ At("finish") => driver.outcome \in Terminal

\* A run that is COMPLETED has no row left to run.  The one exception is the code's: feedback
\* that commits between the poll that found the run done and finish_run, which asks only
\* whether the run has ended already (`overtaken`).
CompletedMeansDone ==
    status = "COMPLETED" => overtaken \/ \A k \in Keys : task[k] \in Over \cup {"ABSENT"}

\* Why that holds when the loop waits for the steps it started.
GatheredInv ==
    /\ LoopInv
    /\ driver.pc \notin {"start", "poll"} => Idle
    /\ At("finish") /\ driver.outcome = "COMPLETED" => overtaken \/ AllOver(task)
    /\ status = "COMPLETED" =>
          /\ Idle /\ driver.pc \in {"returning", "returned", "plan", "poll"}
          /\ overtaken \/ AllOver(task)

\* A run that is CANCELLED has no step in flight, and nothing is open but what a rejected
\* finding reset (that replan does not ask whether the run is over, and nobody runs its rows)
\* and the row of an abandoned step, which finish_run leaves RUNNING.
CancelledMeansStopped ==
    status = "CANCELLED" =>
        /\ Idle
        /\ \A k \in Keys : \/ task[k] \in Over \cup {"ABSENT"}
                           \/ task[k] = "NEW" /\ k \in ResetPartial /\ found
                           \/ task[k] = "RUNNING" /\ k \in abandoned

\* How the rows and the attempts belong together: a plan has all its base rows or none; a
\* step in flight has its row, running, until a replan takes it for another plan.
NoRows == \A k \in Keys : task[k] = "ABSENT"
RowsInv ==
    /\ (Idle /\ NoRows) \/ (planVersion > 0 /\ \A k \in Static : task[k] # "ABSENT")
    /\ \A k \in Keys :
          /\ attempt[k].plan <= planVersion
          /\ attempt[k].lost => attempt[k].plan < planVersion
          /\ task[k] = "RUNNING" => (InFlight(k) \/ k \in abandoned) /\ ~attempt[k].lost
          /\ InFlight(k) /\ Current(k) => task[k] = "RUNNING"

\* Why a cancelled run stays stopped: the loop has left, or never had anything to run.
RunInv ==
    /\ LoopInv /\ RowsInv /\ CancelledMeansStopped
    /\ status = "CANCELLED" => driver.pc \in {"plan", "poll", "returning", "returned"}

\* A run that has not ended has somebody to drive it: its loop, or a request that will start one.
\* Three things in the code leave it without: a resume that brings it back to life after it has
\* ended, a nudge in the place of a start to a loop that is returning, and an activity that fails for good.
Driven ==
    status \notin Terminal => ~At("returned") \/ startDue \/ stranded # {}

\* "run is {status}": FAILED and CANCELLED are final and COMPLETED is left only by a replan,
\* except by the resume of a run that was PAUSED when it was read, and then ended.
EndIsFinal ==
    [][status' # status /\ status \in Terminal =>
         \/ status = "COMPLETED" /\ planVersion' > planVersion
         \/ resuming = "PAUSED" /\ status' = "RUNNING" /\ planVersion' = planVersion]_vars

\* A paused run, and one that has ended, starts no step.
StartsOnlyWhenDriven ==
    [][\A k \in Keys : task[k] # "RUNNING" /\ task'[k] = "RUNNING"
                       => status \notin Terminal \cup {"PAUSED"}]_vars

\* Whatever fails, is skipped, refused, reset or removed, the rows that are left can
\* always go on: the engine's "no runnable task (dependency deadlock)" is never reached.
\* Except where a cancel was taken back after a step had reported CANCELLED, or a row
\* outlives the dynamic step it comes after.
Orphaned ==
    \E k \in Keys : task[k] \notin Over \cup {"ABSENT"} /\ \E d \in Deps[k] \cap Dynamic : task[d] = "ABSENT"
NoDependencyDeadlock ==
    Polls /\ (\E k \in Keys : task[k] # "ABSENT") /\ (\A k \in Keys : task[k] # "CANCELLED") /\ ~Orphaned
        => ~Deadlocked(AfterGates)

\* A step that waits, itself or by its patterns, for every step that may add a row its
\* patterns match.  (followups:1 does not: its own creator adds the tests it waits for.)
SeesExpanders(k) ==
    \A d \in Awaits[k], j \in Keys :
        d \in Expands[j] => d = k \/ k \in Deps[d] \/ j \in Deps[k] \/ (j \in Awaits[k] \ {k} /\ k \notin Deps[j])

\* "'insights' waits for every test and follow-up round, including ones added later":
\* while a step runs in the current plan, everything it depends on is done.  The exception is the
\* code's: a redirect between the poll that found it ready and its claim, which asks for neither
\* the plan nor the dependencies again (`overtaken`, until the loop reads the rows again).
DepsDone(k) ==
    /\ \A d \in Deps[k] : DepSatisfied(task, d)
    /\ SeesExpanders(k) => \A d \in Awaits[k] : PatternDone(task, d, k)
DepsBeforeTask == overtaken \/ \A k \in Keys : InFlight(k) /\ ~attempt[k].lost /\ Current(k) => DepsDone(k)

\* Why, when the loop waits for the steps it started: they are all of one plan, and what it
\* is about to start is still as ready as when the rows were read.
OrderInv ==
    /\ LoopInv /\ RowsInv /\ DepsBeforeTask
    /\ driver.pc \notin {"start", "poll"} => Idle
    /\ \A j, k \in Keys : ~overtaken /\ InFlight(j) /\ InFlight(k) => attempt[j].plan = attempt[k].plan
    /\ At("start") /\ ~overtaken =>
          /\ \A k \in Keys : InFlight(k) => Current(k)
          /\ \A k \in driver.keys : task[k] \in {"NEW", "WAITING_USER"} /\ DepsDone(k)

\* The run never hangs: it ends, or it waits for a person, or one cancels it (CancelEnds is about
\* that).  Unless it lost its driver (`stranded`), a step in it was abandoned, or a redirect raised its
\* plan version while the plan was being built: plan_run then takes it for planned, without rows.
Unplanned == planVersion > 0 /\ \A k \in Keys : task[k] = "ABSENT"
Stuck == \E k \in abandoned : task[k] = "RUNNING"
NeverHangs ==
    status \notin Terminal ~>
        status \in Terminal \cup {"WAITING_USER", "PAUSED"} \/ control = "cancel" \/ stranded # {} \/ Stuck \/ Unplanned

\* A cancel ends the run (as cancelled, or as what the driver had decided already),
\* unless it is taken back, or the run has lost its driver.  An abandoned step does not keep it.
CancelEnds ==
    (control = "cancel") ~> (status \in Terminal \/ control # "cancel" \/ stranded # {})

\* A decision about a waiting step takes effect without anybody else's help, unless the
\* run is paused, stopped or without a driver first.
DecisionTakesEffect ==
    \A g \in Gated :
        (task[g] = "WAITING_USER" /\ approval[g] \in {"approved", "rejected"})
            ~> (task[g] # "WAITING_USER" \/ control # "run" \/ status \in Terminal \/ stranded # {})

\* What the loop read is still so where it acts on it, and a run that is not over is driven:
\* a loop returns from a run that has ended, unless a request has reopened it since.
DriverInv ==
    /\ LoopInv /\ Driven
    /\ At("returning") => status \in Terminal \/ startDue \/ stranded # {}

\* The steps go on, and in the order of their dependencies.
DependenciesHold == NoDependencyDeadlock /\ OrderInv

\* The playbook has an order: a step ranks above what it comes after, and above the rows
\* its patterns match but for those it does not wait for.
Ordered(rank) ==
    \A k \in Keys : /\ \A d \in Deps[k] : rank[d] < rank[k]
                    /\ \A d \in Awaits[k] : d = k \/ k \in Deps[d] \/ rank[d] < rank[k]

=============================================================================
