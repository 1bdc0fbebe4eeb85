-------------------------- MODULE RunEngine_proofs --------------------------
(* What every run of RunEngine keeps, for any playbook and any users.      *)
EXTENDS RunEngine, WellFoundedInduction, TLAPS

-----------------------------------------------------------------------------
(* The values the steps write *)

LEMMA DriverValues ==
  /\ \A p \in DriverPhases : Loop(p) \in Driver /\ Loop(p).pc = p
  /\ \A o \in Terminal : /\ Finishing(o) \in Driver
                         /\ Finishing(o).pc = "finish" /\ Finishing(o).outcome = o
  /\ \A keys \in SUBSET Keys : /\ Starting(keys) \in Driver
                               /\ Starting(keys).pc = "start" /\ Starting(keys).keys = keys
  BY DEF Loop, Finishing, Starting, Driver, DriverPhases, Terminal

LEMMA LoopValues ==
  \A p \in {"plan", "planning", "poll", "waiting", "returning", "returned"} :
      Loop(p) \in Driver /\ Loop(p).pc = p /\ p # "start" /\ p # "finish"
  BY DriverValues DEF DriverPhases

LEMMA AttemptValues ==
  /\ NoAttempt \in Attempt /\ NoAttempt.pc = "none"
  /\ \A n \in Nat : [pc |-> "running", plan |-> n, lost |-> FALSE] \in Attempt
  BY DEF NoAttempt, Attempt

LEMMA StatusValues ==
  /\ \A st \in RunStatus : Reopened(st) \in RunStatus
  /\ \A st \in TaskStatus : Cancelled(st) \in TaskStatus
  /\ \A st \in ApprovalStatus : Invalidated(st) \in ApprovalStatus
  BY DEF RunStatus, TaskStatus, ApprovalStatus, Reopened, Cancelled, Invalidated, Terminal, Over

LEMMA GatesType == TypeOK => AfterGates \in [Keys -> TaskStatus]
  BY DEF TypeOK, AfterGates, TaskStatus, Over

\* What PollTasks decides, in the order it looks.
LEMMA PollTasksDecides ==
  ASSUME PollTasks
  PROVE  /\ task' = AfterGates
         /\ \/ driver' = Finishing("FAILED") /\ status' = status
            \/ driver' = Finishing("COMPLETED") /\ status' = status /\ AllOver(AfterGates)
            \/ /\ status' = "RUNNING"
               /\ \E keys \in SUBSET Keys : driver' = Starting(keys) /\ \A k \in keys : ~InFlight(k)
            \/ driver' = Loop("waiting") /\ status' \in {"WAITING_USER", status}
  <1> DEFINE st == AfterGates
  <1>1. task' = st
    BY DEF PollTasks
  <1>2. CASE RequiredFailed(st) \/ Deadlocked(st)
    BY <1>1, <1>2 DEF PollTasks
  <1>3. CASE ~(RequiredFailed(st) \/ Deadlocked(st)) /\ AllOver(st)
    BY <1>1, <1>3 DEF PollTasks
  <1>4. CASE ~(RequiredFailed(st) \/ Deadlocked(st)) /\ ~AllOver(st) /\ Ready(st) # {}
    <2>1. PICK keys \in SUBSET Ready(st) : driver' = Starting({k \in keys : ~InFlight(k)})
      BY <1>4 DEF PollTasks
    <2>2. {k \in keys : ~InFlight(k)} \in SUBSET Keys
      BY <2>1 DEF Ready, Open
    <2>3. status' = "RUNNING"
      BY <1>4 DEF PollTasks
    <2> QED BY <1>1, <2>1, <2>2, <2>3
  <1>5. CASE ~(RequiredFailed(st) \/ Deadlocked(st)) /\ ~AllOver(st) /\ Ready(st) = {}
    BY <1>1, <1>5 DEF PollTasks
  <1> QED BY <1>2, <1>3, <1>4, <1>5

-----------------------------------------------------------------------------
(* LoopInv is inductive *)

LEMMA InitLoop == Init => LoopInv
  <1> SUFFICES ASSUME Init PROVE LoopInv OBVIOUS
  <1>1. driver \in Driver /\ driver.pc = "plan"
    BY LoopValues DEF Init
  <1>2. attempt \in [Keys -> Attempt]
    BY AttemptValues DEF Init
  <1> QED BY <1>1, <1>2 DEF Init, LoopInv, At, TypeOK, RunStatus, TaskStatus, ApprovalStatus

LEMMA PlanLoop ==
  ASSUME LoopInv, BeginPlan \/ BindingFails \/ (\E skipped \in SUBSET Skippable : FinishPlan(skipped))
  PROVE  LoopInv'
  <1>1. CASE BeginPlan
    BY <1>1, LoopValues DEF BeginPlan, LoopInv, At, TypeOK, userVars, RunStatus, Terminal
  <1>2. CASE BindingFails
    BY <1>2, LoopValues DEF BindingFails, LoopInv, At, TypeOK, userVars, RunStatus, Terminal
  <1>3. ASSUME NEW skipped \in SUBSET Skippable, FinishPlan(skipped) PROVE LoopInv'
    <2>1. task' \in [Keys -> TaskStatus] /\ approval' \in [Gated -> ApprovalStatus]
      BY <1>3 DEF FinishPlan, LoopInv, TypeOK, TaskStatus, ApprovalStatus, Over
    <2>2. driver' \in Driver /\ driver'.pc = "poll"
      BY <1>3, LoopValues DEF FinishPlan
    <2> QED BY <1>3, <2>1, <2>2 DEF FinishPlan, LoopInv, At, TypeOK, userVars, RunStatus
  <1> QED BY <1>1, <1>2, <1>3

LEMMA PollLoop ==
  ASSUME LoopInv, GetState \/ Wake
  PROVE  LoopInv'
  <1>1. CASE PollStops
    <2>1. /\ driver' \in Driver /\ ~At("start")' /\ ~At("planning")'
          /\ At("finish")' => driver'.outcome \in Terminal
      BY <1>1, LoopValues, DriverValues DEF PollStops, At, Terminal
    <2> QED BY <1>1, <2>1 DEF PollStops, LoopInv, At, TypeOK, userVars
  <1>2. CASE PollPauses
    BY <1>2, LoopValues DEF PollPauses, LoopInv, At, TypeOK, userVars, RunStatus
  <1>3. CASE PollNeedsPlan
    BY <1>3, LoopValues DEF PollNeedsPlan, LoopInv, At, TypeOK, userVars
  <1>4. CASE PollTasks
    <2>1. task' \in [Keys -> TaskStatus]
      BY <1>4, PollTasksDecides, GatesType DEF LoopInv
    <2>2. status' \in RunStatus
      BY <1>4, PollTasksDecides DEF LoopInv, TypeOK, RunStatus
    <2>3. attempt' = attempt
      BY <1>4 DEF PollTasks
    <2>4. /\ driver' \in Driver /\ ~At("planning")'
          /\ At("start")' => status' = "RUNNING" /\ (\A k \in driver'.keys : ~InFlight(k))
          /\ At("finish")' => driver'.outcome \in Terminal
      <3>1. CASE driver' = Finishing("FAILED") \/ driver' = Finishing("COMPLETED")
        BY <3>1, DriverValues DEF At, Terminal
      <3>2. ASSUME status' = "RUNNING",
                   NEW keys \in SUBSET Keys, driver' = Starting(keys), \A k \in keys : ~InFlight(k)
            PROVE  <2>4
        BY <3>2, DriverValues DEF At
      <3>3. CASE driver' = Loop("waiting")
        BY <3>3, LoopValues DEF At
      <3> QED BY <1>4, <3>1, <3>2, <3>3, PollTasksDecides
    <2> QED BY <1>4, <2>1, <2>2, <2>3, <2>4 DEF PollTasks, LoopInv, At, TypeOK, InFlight, userVars
  <1>5. CASE Wake
    BY <1>5, LoopValues DEF Wake, LoopInv, At, TypeOK, userVars
  <1> QED BY <1>1, <1>2, <1>3, <1>4, <1>5 DEF GetState

\* Once a step of the decision is dealt with, the loop starts the others or polls.
LEMMA HandledLoop ==
  ASSUME LoopInv, NEW k \in Keys, Handled(k)
  PROVE  /\ driver' \in Driver /\ ~At("finish")' /\ ~At("planning")'
         /\ At("start")' => driver'.keys = driver.keys \ {k}
  <1>1. CASE driver.keys = {k}
    BY <1>1, LoopValues DEF Handled, At
  <1>2. CASE driver.keys # {k}
    <2>1. driver.keys \ {k} \in SUBSET Keys
      BY DEF LoopInv, TypeOK, Driver
    <2> QED BY <1>2, <2>1, DriverValues DEF Handled, At
  <1> QED BY <1>1, <1>2

LEMMA CarryOutLoop ==
  ASSUME LoopInv,
         \/ NothingToStart \/ FinishRun \/ Return
         \/ \E k \in Keys : StartTask(k) \/ SkipTask(k)
  PROVE  LoopInv'
  <1>1. CASE NothingToStart
    BY <1>1, LoopValues DEF NothingToStart, LoopInv, At, TypeOK, userVars
  <1>2. CASE Return
    BY <1>2, LoopValues DEF Return, LoopInv, At, TypeOK, userVars
  <1>3. CASE FinishRun
    <2>1. status' \in RunStatus
      BY <1>3 DEF FinishRun, LoopInv, TypeOK, RunStatus, At
    <2>2. task' \in [Keys -> TaskStatus] /\ approval' \in [Gated -> ApprovalStatus]
      BY <1>3, StatusValues DEF FinishRun, LoopInv, TypeOK
    <2>3. driver' \in Driver /\ driver'.pc = "returning"
      BY <1>3, LoopValues DEF FinishRun
    <2> QED BY <1>3, <2>1, <2>2, <2>3 DEF FinishRun, LoopInv, At, TypeOK, userVars
  <1>4. ASSUME NEW k \in Keys, StartTask(k) PROVE LoopInv'
    <2>1. /\ driver' \in Driver /\ ~At("finish")' /\ ~At("planning")'
          /\ At("start")' => driver'.keys = driver.keys \ {k}
      BY <1>4, HandledLoop DEF StartTask
    <2>2. task' \in [Keys -> TaskStatus]
      BY <1>4 DEF StartTask, LoopInv, TypeOK, TaskStatus
    <2>3. attempt' \in [Keys -> Attempt] /\ \A j \in Keys : j # k => attempt'[j] = attempt[j]
      BY <1>4, AttemptValues DEF StartTask, LoopInv, TypeOK
    <2>4. driver.keys \subseteq Keys
      BY DEF LoopInv, TypeOK, Driver
    <2>5. At("start")' => \A j \in driver'.keys : ~InFlight(j)'
      BY <1>4, <2>1, <2>3, <2>4 DEF StartTask, LoopInv, InFlight
    <2> QED BY <1>4, <2>1, <2>2, <2>3, <2>5 DEF StartTask, LoopInv, At, TypeOK, userVars
  <1>5. ASSUME NEW k \in Keys, SkipTask(k) PROVE LoopInv'
    <2>1. /\ driver' \in Driver /\ ~At("finish")' /\ ~At("planning")'
          /\ At("start")' => driver'.keys = driver.keys \ {k}
      BY <1>5, HandledLoop DEF SkipTask
    <2> QED BY <1>5, <2>1 DEF SkipTask, LoopInv, At, InFlight, TypeOK, userVars
  <1> QED BY <1>1, <1>2, <1>3, <1>4, <1>5

\* A step in flight changes neither the loop nor the run, and only ends.
LEMMA ExecuteFrame ==
  ASSUME NEW k \in Keys, Execute(k)
  PROVE  UNCHANGED <<status, planVersion, driver, overtaken>>
  BY DEF Execute, EndTask, ReportStale, ReportStopped, Report, Abandon, Expand, RequestApproval, StopTask, Verify, userVars

LEMMA EndsType ==
  ASSUME TypeOK, NEW k \in Keys, Ends(k)
  PROVE  attempt' \in [Keys -> Attempt] /\ \A j \in Keys : ~InFlight(j) => ~InFlight(j)'
  BY AttemptValues DEF Ends, TypeOK, InFlight

LEMMA ExecuteLoop ==
  ASSUME LoopInv, NEW k \in Keys, Execute(k)
  PROVE  LoopInv'
  <1>1. TypeOK /\ driver' = driver /\ status' = status
    BY ExecuteFrame DEF LoopInv
  <1>2. attempt[k] \in Attempt /\ task[k] \in TaskStatus
    BY <1>1 DEF TypeOK
  <1>3. /\ attempt' \in [Keys -> Attempt]
        /\ \A j \in Keys : ~InFlight(j) => ~InFlight(j)'
    <2>1. CASE EndTask(k)
      BY <1>1, <2>1, EndsType DEF EndTask, ReportStale, ReportStopped, Report, Abandon
    <2>2. CASE StopTask(k) \/ Verify(k)
      BY <1>1, <1>2, <2>2 DEF StopTask, Verify, TypeOK, Attempt, InFlight
    <2>3. CASE (\E d \in Dynamic : Expand(k, d)) \/ (\E e \in SideEffects : RequestApproval(k, e))
      BY <1>1, <2>3 DEF Expand, RequestApproval, TypeOK, InFlight
    <2> QED BY <2>1, <2>2, <2>3 DEF Execute
  <1>4. task' \in [Keys -> TaskStatus]
    <2>1. CASE EndTask(k)
      BY <1>1, <1>2, <2>1 DEF EndTask, ReportStale, ReportStopped, Report, Abandon, TypeOK, TaskStatus, Over
    <2>2. CASE StopTask(k) \/ Verify(k)
      BY <1>1, <2>2 DEF StopTask, Verify, TypeOK
    <2>3. CASE (\E d \in Dynamic : Expand(k, d)) \/ (\E e \in SideEffects : RequestApproval(k, e))
      BY <1>1, <2>3 DEF Expand, RequestApproval, TypeOK, TaskStatus
    <2> QED BY <2>1, <2>2, <2>3 DEF Execute
  <1>5. approval' \in [Gated -> ApprovalStatus]
    <2>1. CASE \E outcome \in {"COMPLETED", "FAILED"} : Report(k, outcome)
      BY <1>1, <2>1 DEF Report, TypeOK, ApprovalStatus
    <2>2. CASE ReportStale(k) \/ ReportStopped(k) \/ Abandon(k) \/ StopTask(k) \/ Verify(k)
      BY <1>1, <2>2 DEF ReportStale, ReportStopped, Abandon, StopTask, Verify, TypeOK
    <2>3. CASE \E d \in Dynamic : Expand(k, d)
      BY <1>1, <2>3 DEF Expand, TypeOK
    <2>4. CASE \E e \in SideEffects : RequestApproval(k, e)
      BY <1>1, <2>4 DEF RequestApproval, TypeOK, ApprovalStatus
    <2> QED BY <2>1, <2>2, <2>3, <2>4 DEF Execute, EndTask
  <1>6. TypeOK'
    <2>1. UNCHANGED <<planVersion, control, wsEnabled, startDue, resuming, stranded, overtaken>>
      BY DEF Execute, EndTask, ReportStale, ReportStopped, Report, Abandon, Expand, RequestApproval, StopTask, Verify, userVars
    <2>2. found' \in BOOLEAN
      BY <1>1 DEF Execute, EndTask, ReportStale, ReportStopped, Report, Abandon, Expand, RequestApproval, StopTask, Verify,
                  userVars, TypeOK
    <2>3. abandoned' \in {abandoned, abandoned \cup {k}}
      BY DEF Execute, EndTask, ReportStale, ReportStopped, Report, Abandon, Expand, RequestApproval, StopTask, Verify, userVars
    <2> QED BY <1>1, <1>3, <1>4, <1>5, <2>1, <2>2, <2>3 DEF TypeOK
  <1>7. driver.keys \subseteq Keys
    BY <1>1 DEF TypeOK, Driver
  <1> QED BY <1>1, <1>3, <1>6, <1>7 DEF LoopInv, At

LEMMA ReplanType ==
  ASSUME TypeOK, NEW full \in BOOLEAN, Replan(full)
  PROVE  /\ status' \in RunStatus /\ planVersion' \in Nat
         /\ task' \in [Keys -> TaskStatus]
         /\ approval' \in [Gated -> ApprovalStatus]
         /\ attempt' \in [Keys -> Attempt]
         /\ \A j \in Keys : attempt'[j].pc = attempt[j].pc
  <1>1. status' \in RunStatus /\ planVersion' \in Nat
    BY StatusValues DEF Replan, TypeOK
  <1>2. task' \in [Keys -> TaskStatus]
    BY DEF Replan, TypeOK, TaskStatus
  <1>3. approval' \in [Gated -> ApprovalStatus]
    BY StatusValues DEF Replan, TypeOK
  <1>4. /\ attempt' \in [Keys -> Attempt]
        /\ \A j \in Keys : attempt'[j].pc = attempt[j].pc
    <2>1. \A j \in Keys : attempt[j] \in Attempt
      BY DEF TypeOK
    <2>2. \A j \in Keys, lost \in BOOLEAN :
             [attempt[j] EXCEPT !.lost = lost] \in Attempt /\ [attempt[j] EXCEPT !.lost = lost].pc = attempt[j].pc
      BY <2>1 DEF Attempt
    <2>3. \A j \in Keys : \E lost \in BOOLEAN : attempt'[j] = [attempt[j] EXCEPT !.lost = lost]
      BY <2>1 DEF Replan, Attempt
    <2>4. attempt' = [j \in Keys |-> attempt'[j]]
      BY DEF Replan
    <2>5. \A j \in Keys : attempt'[j] \in Attempt /\ attempt'[j].pc = attempt[j].pc
      BY <2>2, <2>3
    <2> QED BY <2>4, <2>5
  <1> QED BY <1>1, <1>2, <1>3, <1>4

LEMMA UsersLoop ==
  ASSUME LoopInv, Users
  PROVE  LoopInv'
  <1>1. ASSUME NEW c \in Controls, AskControl(c) PROVE LoopInv'
    BY <1>1, PlaybookAssumption DEF AskControl, LoopInv, At, InFlight, TypeOK, userVars
  <1>2. CASE ReadResume
    BY <1>2 DEF ReadResume, LoopInv, At, InFlight, TypeOK
  <1>3. CASE WriteResume
    BY <1>3 DEF WriteResume, LoopInv, At, InFlight, TypeOK, RunStatus, Terminal, Causes
  <1>4. ASSUME NEW full \in BOOLEAN, Feedback(full) PROVE LoopInv'
    <2>1. /\ status' \in RunStatus /\ planVersion' \in Nat
          /\ task' \in [Keys -> TaskStatus]
          /\ approval' \in [Gated -> ApprovalStatus]
          /\ attempt' \in [Keys -> Attempt]
          /\ \A j \in Keys : attempt'[j].pc = attempt[j].pc
      BY <1>4, ReplanType DEF Feedback, LoopInv
    <2>2. TypeOK'
      BY <1>4, <2>1 DEF Feedback, LoopInv, TypeOK
    <2>3. driver' = driver /\ driver.keys \subseteq Keys
      BY <1>4 DEF Feedback, LoopInv, TypeOK, Driver
    <2>4. /\ status = "RUNNING" => status' = "RUNNING"
          /\ status \notin Terminal => status' \notin Terminal
      BY <1>4 DEF Feedback, Replan, Reopened, Terminal
    <2> QED BY <2>1, <2>2, <2>3, <2>4 DEF LoopInv, At, InFlight
  <1>5. CASE StartRun
    BY <1>5, LoopValues DEF StartRun, LoopInv, At, InFlight, TypeOK, Causes
  <1>6. ASSUME NEW g \in Gated, NEW verdict \in {"approved", "rejected"}, DecideApproval(g, verdict) PROVE LoopInv'
    BY <1>6 DEF DecideApproval, LoopInv, At, InFlight, TypeOK, ApprovalStatus, userVars
  <1>7. CASE DisableWorkspace
    BY <1>7 DEF DisableWorkspace, LoopInv, At, InFlight, TypeOK, userVars
  <1> QED BY <1>1, <1>2, <1>3, <1>4, <1>5, <1>6, <1>7 DEF Users

\* The two steps that leave a run without its loop, or give it one again.
LEMMA StrandsLoop ==
  ASSUME LoopInv, GiveUp \/ Sweep
  PROVE  LoopInv'
  BY LoopValues DEF GiveUp, Sweep, LoopInv, At, TypeOK, Causes

LEMMA NextLoop == LoopInv /\ [Next]_vars => LoopInv'
  <1> SUFFICES ASSUME LoopInv, [Next]_vars PROVE LoopInv' OBVIOUS
  <1>1. CASE Drive \/ GiveUp
    BY <1>1, PlanLoop, PollLoop, CarryOutLoop, StrandsLoop DEF Drive
  <1>2. CASE \E k \in Keys : Execute(k)
    BY <1>2, ExecuteLoop
  <1>3. CASE Users
    BY <1>3, UsersLoop
  <1>4. CASE UNCHANGED vars
    BY <1>4 DEF vars, LoopInv, At, InFlight, TypeOK
  <1> QED BY <1>1, <1>2, <1>3, <1>4 DEF Next, Done

\* The loop's own invariant holds in every run: what the driver acts on was true when it
\* decided (engine.get_state) and no user can change it before it acts.
THEOREM LoopInvariance == Spec => []LoopInv
  BY InitLoop, NextLoop, PTL DEF Spec

\* Every reachable state is well typed.
THEOREM TypeCorrect == Spec => []TypeOK
  <1>1. LoopInv => TypeOK
    BY DEF LoopInv
  <1> QED BY <1>1, LoopInvariance, PTL

-----------------------------------------------------------------------------
(* Which steps start, and when *)

\* A row becomes RUNNING only in StartTask.
LEMMA OnlyStartTaskStarts ==
  ASSUME TypeOK, Next, NEW k \in Keys, task[k] # "RUNNING", task'[k] = "RUNNING"
  PROVE  At("start")
  <1>1. CASE UNCHANGED task
    BY <1>1
  <1>2. ASSUME NEW skipped \in SUBSET Skippable, FinishPlan(skipped) PROVE FALSE
    BY <1>2 DEF FinishPlan
  <1>3. CASE PollTasks
    <2>1. task'[k] = AfterGates[k]
      BY <1>3, PollTasksDecides
    <2>2. AfterGates[k] \in {"SKIPPED", "WAITING_USER", task[k]}
      BY DEF AfterGates
    <2> QED BY <2>1, <2>2
  <1>4. CASE FinishRun
    BY <1>4 DEF FinishRun, Cancelled
  <1>5. ASSUME NEW j \in Keys, StartTask(j) PROVE At("start")
    BY <1>5 DEF StartTask
  <1>6. ASSUME NEW j \in Keys, Execute(j) PROVE FALSE
    BY <1>6 DEF Execute, EndTask, ReportStale, ReportStopped, Report, Abandon, Expand, RequestApproval, StopTask, Verify, TypeOK
  <1>7. ASSUME NEW full \in BOOLEAN, Feedback(full) PROVE FALSE
    BY <1>7 DEF Feedback, Replan
  <1>8. CASE Drive
    <2>1. CASE BeginPlan \/ BindingFails \/ Wake \/ NothingToStart \/ Return \/ Sweep
               \/ \E j \in Keys : SkipTask(j)
      BY <2>1, <1>1 DEF BeginPlan, BindingFails, Wake, NothingToStart, Return, Sweep, SkipTask
    <2>2. CASE PollStops \/ PollPauses \/ PollNeedsPlan
      BY <2>2, <1>1 DEF PollStops, PollPauses, PollNeedsPlan
    <2> QED BY <1>2, <1>3, <1>4, <1>5, <1>8, <2>1, <2>2 DEF Drive, GetState
  <1>9. CASE Users
    <2>1. CASE (\E c \in Controls : AskControl(c)) \/ ReadResume \/ WriteResume \/ StartRun \/ DisableWorkspace
      BY <2>1, <1>1 DEF AskControl, ReadResume, WriteResume, StartRun, DisableWorkspace
    <2>2. CASE \E g \in Gated, verdict \in {"approved", "rejected"} : DecideApproval(g, verdict)
      BY <2>2, <1>1 DEF DecideApproval
    <2> QED BY <1>7, <1>9, <2>1, <2>2 DEF Users
  <1> QED BY <1>1, <1>6, <1>8, <1>9 DEF Next, GiveUp, Done, vars

\* No step starts in a run that is paused or has ended, whatever users commit between
\* get_state and execute_task: only the loop itself writes those states.
THEOREM StartsOnlyWhenDrivenAlways == Spec => StartsOnlyWhenDriven
  <1> DEFINE A == \A k \in Keys : task[k] # "RUNNING" /\ task'[k] = "RUNNING"
                                  => status \notin Terminal \cup {"PAUSED"}
  <1>1. LoopInv /\ [Next]_vars => [A]_vars
    <2> SUFFICES ASSUME LoopInv, Next, NEW k \in Keys, task[k] # "RUNNING", task'[k] = "RUNNING"
                 PROVE  status \notin Terminal \cup {"PAUSED"}
      OBVIOUS
    <2>1. At("start")
      BY OnlyStartTaskStarts DEF LoopInv
    <2> QED BY <2>1 DEF LoopInv, Terminal
  <1> QED BY <1>1, LoopInvariance, PTL DEF Spec, StartsOnlyWhenDriven

-----------------------------------------------------------------------------
(* A completed run has nothing left to run *)

LEMMA InitGathered == Init => GatheredInv
  <1> SUFFICES ASSUME Init PROVE GatheredInv OBVIOUS
  <1>1. LoopInv
    BY InitLoop
  <1>2. driver.pc = "plan" /\ Idle
    BY LoopValues, AttemptValues DEF Init, Idle, InFlight
  <1> QED BY <1>1, <1>2 DEF Init, GatheredInv, At

\* What the loop does keeps the invariant.
LEMMA DriveGathered ==
  ASSUME Gather, GatheredInv, LoopInv', Drive
  PROVE  GatheredInv'
  <1> USE DEF GatheredInv, At
  <1>1. CASE BeginPlan
    BY <1>1, LoopValues DEF BeginPlan, Idle, InFlight, userVars, AllOver
  <1>2. CASE BindingFails
    BY <1>2, LoopValues DEF BindingFails, Idle, InFlight, userVars
  <1>3. ASSUME NEW skipped \in SUBSET Skippable, FinishPlan(skipped) PROVE GatheredInv'
    BY <1>3, LoopValues DEF FinishPlan, Idle, InFlight, userVars
  <1>4. CASE PollStops
    <2>1. Finishing("CANCELLED").pc = "finish" /\ Finishing("CANCELLED").outcome = "CANCELLED"
      BY DriverValues DEF Terminal
    <2> QED BY <1>4, <2>1, LoopValues DEF PollStops, Polls, Idle, InFlight, Terminal, AllOver, userVars
  <1>5. CASE PollPauses
    BY <1>5, LoopValues DEF PollPauses, Polls, Idle, InFlight, Terminal
  <1>6. CASE PollNeedsPlan
    BY <1>6, LoopValues DEF PollNeedsPlan, Polls, Idle, InFlight, Terminal
  <1>7. CASE PollTasks
    <2>1. Idle /\ Idle' /\ status \notin Terminal
      BY <1>7 DEF PollTasks, Polls, Idle, InFlight
    <2>2. status' # "COMPLETED"
      BY <1>7, <2>1, PollTasksDecides DEF Terminal
    <2>3. At("finish")' /\ driver'.outcome = "COMPLETED" => AllOver(task')
      <3>1. CASE driver' = Finishing("FAILED")
        BY <3>1, DriverValues DEF Terminal
      <3>2. CASE driver' = Finishing("COMPLETED") /\ AllOver(AfterGates)
        BY <1>7, <3>2, PollTasksDecides
      <3>3. CASE driver' = Loop("waiting") \/ \E keys \in SUBSET Keys : driver' = Starting(keys)
        BY <3>3, LoopValues, DriverValues
      <3> QED BY <1>7, <3>1, <3>2, <3>3, PollTasksDecides
    <2> QED BY <2>1, <2>2, <2>3 DEF AllOver
  <1>8. CASE Wake
    BY <1>8, LoopValues DEF Wake, Idle, InFlight
  <1>9. CASE NothingToStart
    BY <1>9, LoopValues DEF NothingToStart, Idle, InFlight
  <1>10. ASSUME NEW k \in Keys, StartTask(k) \/ SkipTask(k) PROVE GatheredInv'
    <2>1. driver'.pc \in {"start", "poll"}
      <3>1. CASE driver.keys = {k}
        BY <1>10, <3>1, LoopValues DEF StartTask, SkipTask, Handled
      <3>2. CASE driver.keys # {k}
        <4>1. driver.keys \ {k} \in SUBSET Keys
          BY DEF LoopInv, TypeOK, Driver
        <4> QED BY <1>10, <3>2, <4>1, DriverValues DEF StartTask, SkipTask, Handled
      <3> QED BY <3>1, <3>2
    <2>2. status # "COMPLETED" /\ status' = status
      BY <1>10 DEF StartTask, SkipTask
    <2> QED BY <2>1, <2>2
  <1>11. CASE FinishRun
    <2>1. Idle /\ Idle' /\ driver'.pc = "returning"
      BY <1>11, LoopValues DEF FinishRun, Idle, InFlight
    <2>2. status' = "COMPLETED" => overtaken' \/ AllOver(task')
      BY <1>11 DEF FinishRun, Terminal, AllOver, userVars
    <2> QED BY <2>1, <2>2 DEF AllOver
  <1>12. CASE Return
    BY <1>12, LoopValues DEF Return, Idle, InFlight, userVars, AllOver
  <1>13. CASE Sweep
    BY <1>13 DEF Sweep
  <1> QED BY <1>1, <1>2, <1>3, <1>4, <1>5, <1>6, <1>7, <1>8, <1>9, <1>10, <1>11, <1>12, <1>13 DEF Drive, GetState

\* A step in flight: the run is neither being ended nor completed.
LEMMA ExecuteGathered ==
  ASSUME GatheredInv, LoopInv', NEW k \in Keys, Execute(k)
  PROVE  GatheredInv'
  <1>1. UNCHANGED <<status, driver>>
    BY ExecuteFrame
  <1>2. InFlight(k)
    BY DEF Execute, EndTask, ReportStale, ReportStopped, Report, Abandon, Expand, RequestApproval, StopTask, Verify, InFlight
  <1>3. ~Idle
    BY <1>2 DEF Idle
  <1> QED BY <1>1, <1>3 DEF GatheredInv, At

LEMMA UsersGathered ==
  ASSUME Gather, GatheredInv, LoopInv', Users
  PROVE  GatheredInv'
  <1>1. CASE (\E c \in Controls : AskControl(c)) \/ ReadResume \/ DisableWorkspace
             \/ \E g \in Gated, verdict \in {"approved", "rejected"} : DecideApproval(g, verdict)
    BY <1>1 DEF AskControl, ReadResume, DisableWorkspace, DecideApproval, userVars,
                GatheredInv, At, Idle, InFlight, AllOver
  <1>2. CASE WriteResume
    BY <1>2 DEF WriteResume, GatheredInv, At, Idle, InFlight, AllOver
  <1>3. ASSUME NEW full \in BOOLEAN, Feedback(full) PROVE GatheredInv'
    <2>1. driver' = driver /\ (At("finish") => overtaken')
      BY <1>3 DEF Feedback
    <2>2. status' # "COMPLETED"
      BY <1>3 DEF Feedback, Replan, Reopened
    <2>3. Idle => Idle'
      BY <1>3, ReplanType DEF Feedback, GatheredInv, LoopInv, Idle, InFlight
    <2> QED BY <2>1, <2>2, <2>3 DEF GatheredInv, At
  <1>4. CASE StartRun
    BY <1>4, LoopValues DEF StartRun, GatheredInv, At, Idle, InFlight, AllOver
  <1> QED BY <1>1, <1>2, <1>3, <1>4 DEF Users

LEMMA NextGathered == Gather /\ GatheredInv /\ [Next]_vars => GatheredInv'
  <1> SUFFICES ASSUME Gather, GatheredInv, [Next]_vars PROVE GatheredInv' OBVIOUS
  <1>1. LoopInv'
    BY NextLoop DEF GatheredInv
  <1>2. CASE UNCHANGED vars
    BY <1>1, <1>2 DEF vars, GatheredInv, At, Idle, InFlight, AllOver
  <1>3. CASE GiveUp
    <2>1. Idle /\ Idle' /\ driver'.pc = "returned"
      BY <1>3, LoopValues DEF GiveUp, GatheredInv, At, Polls, Idle, InFlight
    <2> QED BY <1>1, <1>3, <2>1 DEF GiveUp, GatheredInv, At, AllOver
  <1> QED BY <1>1, <1>2, <1>3, DriveGathered, ExecuteGathered, UsersGathered DEF Next, Done

\* A run that is COMPLETED has no row left to run, when the loop waits for the steps it
\* started (Temporal's gather), but for a redirect that commits between `done` and finish_run:
\* that window, which finish_run leaves open, is the only way to lose one.
THEOREM CompletedMeansDoneAlways ==
  ASSUME Gather PROVE Spec => []CompletedMeansDone
  <1>1. Gather OBVIOUS
  <1>2. GatheredInv /\ [Next]_vars => GatheredInv'
    BY <1>1, NextGathered
  <1>3. GatheredInv => CompletedMeansDone
    BY DEF GatheredInv, CompletedMeansDone, AllOver
  <1> QED BY <1>2, <1>3, InitGathered, PTL DEF Spec

-----------------------------------------------------------------------------
(* The rows and the attempts *)

\* The steps that touch neither a row nor an attempt nor the plan.
Bystands ==
    \/ BeginPlan \/ BindingFails \/ PollStops \/ PollPauses \/ PollNeedsPlan \/ Wake \/ NothingToStart
    \/ Return \/ Sweep \/ GiveUp \/ (\E k \in Keys : SkipTask(k))
    \/ (\E k \in Keys, e \in SideEffects : RequestApproval(k, e))
    \/ (\E c \in Controls : AskControl(c)) \/ ReadResume \/ WriteResume \/ StartRun
    \/ (\E g \in Gated, verdict \in {"approved", "rejected"} : DecideApproval(g, verdict))
    \/ DisableWorkspace \/ UNCHANGED vars

LEMMA BystandsKeeps ==
  ASSUME Bystands
  PROVE  UNCHANGED <<task, attempt, planVersion, found, abandoned, overtaken>>
  <1>1. CASE BeginPlan \/ BindingFails \/ PollStops \/ PollPauses \/ PollNeedsPlan \/ Wake \/ NothingToStart
             \/ Return \/ Sweep \/ GiveUp \/ (\E k \in Keys : SkipTask(k))
    BY <1>1 DEF BeginPlan, BindingFails, PollStops, PollPauses, PollNeedsPlan, Wake, NothingToStart, Return, Sweep, GiveUp,
                SkipTask, userVars
  <1>2. CASE \/ (\E k \in Keys, e \in SideEffects : RequestApproval(k, e))
             \/ (\E c \in Controls : AskControl(c)) \/ ReadResume \/ WriteResume \/ StartRun
             \/ (\E g \in Gated, verdict \in {"approved", "rejected"} : DecideApproval(g, verdict))
             \/ DisableWorkspace
    BY <1>2 DEF RequestApproval, AskControl, ReadResume, WriteResume, StartRun, DecideApproval,
                DisableWorkspace, userVars
  <1> QED BY <1>1, <1>2 DEF Bystands, vars

\* Every step is one of those, or one of these seven.
LEMMA StepCases ==
  ASSUME [Next]_vars
  PROVE  \/ Bystands \/ PollTasks \/ FinishRun
         \/ \E skipped \in SUBSET Skippable : FinishPlan(skipped)
         \/ \E k \in Keys : \/ StartTask(k) \/ EndTask(k) \/ StopTask(k) \/ Verify(k)
                            \/ \E d \in Dynamic : Expand(k, d)
         \/ \E full \in BOOLEAN : Feedback(full)
  BY DEF Next, Drive, GetState, Execute, Users, Done, Bystands

\* The pass over the gates and the end of a run settle rows that were open, and no others.
Settles ==
    \A k \in Keys : \/ task'[k] = task[k]
                    \/ task[k] \in {"NEW", "WAITING_USER"} /\ task'[k] \in {"SKIPPED", "WAITING_USER", "CANCELLED"}

LEMMA PollSettles ==
  ASSUME TypeOK, PollTasks
  PROVE  Settles /\ UNCHANGED <<attempt, planVersion, found, abandoned>>
  <1>1. task' = AfterGates /\ UNCHANGED <<attempt, planVersion, found, abandoned>>
    BY PollTasksDecides DEF PollTasks, userVars
  <1>2. \A k \in Keys : \/ AfterGates[k] = task[k]
                        \/ task[k] \in {"NEW", "WAITING_USER"} /\ AfterGates[k] \in {"SKIPPED", "WAITING_USER"}
    BY DEF AfterGates, Open
  <1> QED BY <1>1, <1>2 DEF Settles

LEMMA FinishSettles ==
  ASSUME TypeOK, FinishRun
  PROVE  Settles /\ UNCHANGED <<attempt, planVersion, found, abandoned>>
  BY DEF FinishRun, Cancelled, Settles, userVars

\* What the end of an attempt makes of its row: abandoned, it stays as it is.
LEMMA EndTaskMoves ==
  ASSUME LoopInv, NEW k \in Keys, EndTask(k)
  PROVE  /\ InFlight(k) /\ attempt' = [attempt EXCEPT ![k] = NoAttempt]
         /\ UNCHANGED <<planVersion, driver, status, overtaken>>
         /\ \A j \in Keys : j # k => task'[j] = task[j]
         /\ attempt[k].lost => task' = task
         /\ ~attempt[k].lost =>
               \/ task'[k] \in {"NEW", "COMPLETED", "FAILED", "CANCELLED"}
               \/ k \in Dynamic /\ task'[k] = "ABSENT" /\ ~Current(k)
               \/ task' = task /\ (task[k] = "RUNNING" => k \in abandoned')
         /\ found => found'
         /\ abandoned \subseteq abandoned'
  <1>1. task \in [Keys -> TaskStatus] /\ attempt \in [Keys -> Attempt]
    BY DEF LoopInv, TypeOK
  <1>2. CASE ReportStale(k)
    BY <1>1, <1>2 DEF ReportStale, Ends, userVars
  <1>3. CASE ReportStopped(k)
    BY <1>1, <1>3 DEF ReportStopped, Ends, InFlight, userVars
  <1>4. ASSUME NEW outcome \in {"COMPLETED", "FAILED"}, Report(k, outcome)
        PROVE  /\ InFlight(k) /\ attempt' = [attempt EXCEPT ![k] = NoAttempt]
               /\ UNCHANGED <<planVersion, driver, status, overtaken, abandoned>>
               /\ \A j \in Keys : j # k => task'[j] = task[j]
               /\ ~attempt[k].lost /\ task'[k] = outcome /\ (found => found')
    BY <1>1, <1>4 DEF Report, Ends, InFlight
  <1>5. CASE Abandon(k)
    BY <1>1, <1>5 DEF Abandon, Ends
  <1> QED BY <1>2, <1>3, <1>4, <1>5 DEF EndTask

LEMMA InitRows == Init => RowsInv
  <1> SUFFICES ASSUME Init PROVE RowsInv OBVIOUS
  <1>1. \A k \in Keys : attempt[k] = NoAttempt
    BY DEF Init
  <1> QED BY <1>1 DEF Init, RowsInv, Idle, InFlight, NoRows, NoAttempt

LEMMA NextRows ==
  ASSUME LoopInv, LoopInv', RowsInv, [Next]_vars
  PROVE  RowsInv'
  <1>0. /\ task \in [Keys -> TaskStatus] /\ attempt \in [Keys -> Attempt] /\ planVersion \in Nat
        /\ \A k \in Keys : attempt[k].plan \in Nat
    BY DEF LoopInv, TypeOK, Attempt
  <1>1. CASE Bystands
    BY <1>1, BystandsKeeps DEF RowsInv, Idle, NoRows, InFlight, Current
  <1>2. CASE PollTasks \/ FinishRun
    <2>1. Settles /\ UNCHANGED <<attempt, planVersion, abandoned>>
      BY <1>2, PollSettles, FinishSettles DEF LoopInv
    <2> QED BY <2>1 DEF Settles, RowsInv, Idle, NoRows, InFlight, Current, Static
  <1>3. ASSUME NEW skipped \in SUBSET Skippable, FinishPlan(skipped)
        PROVE  RowsInv'
    <2>1. CASE Planned
      BY <1>3, <2>1 DEF FinishPlan, RowsInv, Idle, NoRows, InFlight, Current, userVars
    <2>2. CASE ~Planned
      <3>1. Idle /\ planVersion = 0
        BY <1>0, <2>2 DEF Planned, RowsInv
      <3>2. /\ planVersion' = 1 /\ attempt' = attempt
            /\ \A k \in Keys : task'[k] # "RUNNING"
            /\ \A k \in Static : task'[k] # "ABSENT"
        BY <1>3, <2>2 DEF FinishPlan, Static
      <3> QED BY <1>0, <3>1, <3>2 DEF RowsInv, Idle, InFlight, Current
    <2> QED BY <2>1, <2>2
  <1>4. ASSUME NEW k \in Keys, StartTask(k)
        PROVE  RowsInv'
    <2>1. /\ task[k] # "ABSENT" /\ ~InFlight(k) /\ planVersion' = planVersion /\ abandoned' = abandoned \ {k}
          /\ task' = [task EXCEPT ![k] = "RUNNING"]
          /\ attempt' = [attempt EXCEPT ![k] = [pc |-> "running", plan |-> planVersion, lost |-> FALSE]]
      BY <1>4 DEF StartTask, LoopInv
    <2>2. planVersion > 0 /\ \A j \in Static : task'[j] # "ABSENT"
      BY <1>0, <2>1 DEF RowsInv, NoRows, Static
    <2>3. ASSUME NEW j \in Keys
          PROVE  /\ attempt'[j].plan <= planVersion'
                 /\ attempt'[j].lost => attempt'[j].plan < planVersion'
                 /\ task'[j] = "RUNNING" => (InFlight(j)' \/ j \in abandoned') /\ ~attempt'[j].lost
                 /\ InFlight(j)' /\ attempt'[j].plan = planVersion' => task'[j] = "RUNNING"
      BY <1>0, <2>1 DEF RowsInv, InFlight, Current
    <2> QED BY <2>1, <2>2, <2>3 DEF RowsInv, Current
  <1>5. ASSUME NEW k \in Keys, EndTask(k)
        PROVE  RowsInv'
    <2>1. /\ InFlight(k) /\ attempt' = [attempt EXCEPT ![k] = NoAttempt] /\ planVersion' = planVersion
          /\ \A j \in Keys : j # k => task'[j] = task[j]
          /\ attempt[k].lost => task' = task
          /\ ~attempt[k].lost => \/ task'[k] \in {"NEW", "COMPLETED", "FAILED", "CANCELLED"}
                                 \/ k \in Dynamic /\ task'[k] = "ABSENT"
                                 \/ task' = task /\ (task[k] = "RUNNING" => k \in abandoned')
          /\ abandoned \subseteq abandoned'
      BY <1>5, EndTaskMoves
    <2>2. planVersion > 0 /\ \A j \in Static : task'[j] # "ABSENT"
      BY <1>0, <2>1 DEF RowsInv, Idle, Static
    <2>3. task'[k] = "RUNNING" => k \in abandoned'
      BY <2>1 DEF RowsInv
    <2>4. ASSUME NEW j \in Keys
          PROVE  /\ attempt'[j].plan <= planVersion'
                 /\ attempt'[j].lost => attempt'[j].plan < planVersion'
                 /\ task'[j] = "RUNNING" => (InFlight(j)' \/ j \in abandoned') /\ ~attempt'[j].lost
                 /\ InFlight(j)' /\ attempt'[j].plan = planVersion' => task'[j] = "RUNNING"
      <3>1. CASE j = k
        BY <1>0, <2>1, <2>3, <3>1 DEF NoAttempt, InFlight
      <3>2. CASE j # k
        BY <1>0, <2>1, <3>2 DEF RowsInv, InFlight, Current
      <3> QED BY <3>1, <3>2
    <2> QED BY <2>1, <2>2, <2>4 DEF RowsInv, Current
  <1>6. ASSUME NEW k \in Keys, StopTask(k) \/ Verify(k)
        PROVE  RowsInv'
    <2>1. \A j \in Keys : /\ attempt'[j].plan = attempt[j].plan /\ attempt'[j].lost = attempt[j].lost
                          /\ InFlight(j)' <=> InFlight(j)
      BY <1>0, <1>6 DEF StopTask, Verify, Attempt, InFlight
    <2>2. UNCHANGED <<task, planVersion, abandoned>>
      BY <1>6 DEF StopTask, Verify, userVars
    <2> QED BY <2>1, <2>2 DEF RowsInv, Idle, NoRows, Current
  <1>7. ASSUME NEW k \in Keys, NEW d \in Dynamic, Expand(k, d)
        PROVE  RowsInv'
    <2>1. /\ InFlight(k) /\ Current(k) /\ task[d] = "ABSENT"
          /\ task' = [task EXCEPT ![d] = "NEW"] /\ UNCHANGED <<attempt, planVersion, abandoned>>
      BY <1>7 DEF Expand, InFlight, userVars
    <2>2. d \in Keys /\ d \notin Static
      BY PlaybookAssumption DEF Static
    <2>3. planVersion > 0 /\ \A j \in Static : task'[j] # "ABSENT"
      BY <1>0, <2>1, <2>2 DEF RowsInv, Idle, Static
    <2>4. \A j \in Keys : task'[j] = "RUNNING" <=> task[j] = "RUNNING"
      BY <1>0, <2>1, <2>2
    <2> QED BY <2>1, <2>3, <2>4 DEF RowsInv, InFlight, Current
  <1>8. ASSUME NEW full \in BOOLEAN, Feedback(full)
        PROVE  RowsInv'
    <2> DEFINE removed == IF full THEN Dynamic ELSE {}
    <2>1. /\ planVersion' = planVersion + 1 /\ abandoned' = abandoned
          /\ \A j \in Keys : /\ j \in removed => task'[j] = "ABSENT"
                             /\ task[j] = "ABSENT" <=> (task'[j] = "ABSENT" /\ (task[j] = "ABSENT" \/ j \notin removed))
                             /\ task'[j] = "RUNNING" => task[j] = "RUNNING"
          /\ attempt' = [j \in Keys |-> [attempt[j] EXCEPT !.lost = @ \/ (j \in removed /\ InFlight(j))]]
      BY <1>0, <1>8 DEF Feedback, Replan
    <2>2. ASSUME NEW j \in Keys
          PROVE  /\ attempt'[j].plan = attempt[j].plan /\ attempt'[j].pc = attempt[j].pc
                 /\ attempt'[j].lost = (attempt[j].lost \/ (j \in removed /\ InFlight(j)))
      <3> DEFINE lost == attempt[j].lost \/ (j \in removed /\ InFlight(j))
      <3>1. attempt'[j] = [attempt[j] EXCEPT !.lost = lost] /\ attempt[j] \in Attempt
        BY <1>0, <2>1
      <3> HIDE DEF lost
      <3>2. attempt'[j].plan = attempt[j].plan /\ attempt'[j].pc = attempt[j].pc /\ attempt'[j].lost = lost
        BY <3>1 DEF Attempt
      <3> QED BY <3>2, Zenon DEF lost
    <2>3. \A j \in Static : j \notin removed
      BY DEF Static
    <2>4. \/ Idle' /\ NoRows'
          \/ planVersion' > 0 /\ \A j \in Static : task'[j] # "ABSENT"
      <3>1. planVersion' > 0
        BY <1>0, <2>1
      <3>2. CASE Idle /\ NoRows
        <4>1. Idle'
          BY <2>2, <3>2 DEF Idle, InFlight
        <4>2. NoRows'
          BY <2>1, <3>2 DEF NoRows
        <4> QED BY <4>1, <4>2
      <3>3. CASE \A j \in Static : task[j] # "ABSENT"
        BY <2>1, <2>3, <3>1, <3>3 DEF Static
      <3> QED BY <3>2, <3>3 DEF RowsInv
    <2> HIDE DEF removed
    <2>5. ASSUME NEW j \in Keys
          PROVE  /\ attempt'[j].plan <= planVersion'
                 /\ attempt'[j].lost => attempt'[j].plan < planVersion'
                 /\ task'[j] = "RUNNING" => (InFlight(j)' \/ j \in abandoned') /\ ~attempt'[j].lost
                 /\ attempt'[j].plan # planVersion'
      <3>1. attempt[j].plan \in Nat /\ attempt[j].plan <= planVersion
        BY <1>0 DEF RowsInv
      <3>2. /\ attempt'[j].plan <= planVersion' /\ attempt'[j].plan < planVersion'
            /\ attempt'[j].plan # planVersion'
        <4>1. attempt'[j].plan = attempt[j].plan
          BY <2>2
        <4>2. planVersion' = planVersion + 1
          BY <2>1
        <4> QED BY <1>0, <3>1, <4>1, <4>2
      <3>3. ASSUME task'[j] = "RUNNING" PROVE (InFlight(j)' \/ j \in abandoned') /\ ~attempt'[j].lost
        <4>1. task[j] = "RUNNING" /\ j \notin removed
          BY <2>1, <3>3
        <4> QED BY <2>1, <2>2, <4>1 DEF RowsInv, InFlight
      <3> QED BY <3>2, <3>3
    <2> QED BY <2>4, <2>5 DEF RowsInv, Current
  <1> QED BY <1>1, <1>2, <1>3, <1>4, <1>5, <1>6, <1>7, <1>8, StepCases

-----------------------------------------------------------------------------
(* A cancelled run stays stopped *)

\* Only the loop cancels a run: before its first plan, or when it ends it.
LEMMA WhoCancels ==
  ASSUME LoopInv, [Next]_vars, status # "CANCELLED", status' = "CANCELLED"
  PROVE  (BeginPlan /\ ~Planned) \/ FinishRun
  <1>1. CASE UNCHANGED status
    BY <1>1
  <1>2. CASE PollTasks
    BY <1>2, PollTasksDecides
  <1>3. CASE BeginPlan
    BY <1>3 DEF BeginPlan
  <1>4. CASE BindingFails \/ PollPauses \/ \E skipped \in SUBSET Skippable : FinishPlan(skipped)
    BY <1>4 DEF BindingFails, PollPauses, FinishPlan
  <1>5. CASE WriteResume \/ \E full \in BOOLEAN : Feedback(full)
    BY <1>5 DEF WriteResume, Feedback, Replan, Reopened
  <1>6. ASSUME NEW k \in Keys, Execute(k) PROVE UNCHANGED status
    BY <1>6, ExecuteFrame
  <1>7. CASE PollStops \/ PollNeedsPlan \/ Wake \/ NothingToStart \/ Return \/ Sweep \/ GiveUp
             \/ \E k \in Keys : StartTask(k) \/ SkipTask(k)
    BY <1>7 DEF PollStops, PollNeedsPlan, Wake, NothingToStart, Return, Sweep, GiveUp, StartTask, SkipTask
  <1>8. CASE (\E c \in Controls : AskControl(c)) \/ ReadResume \/ StartRun
             \/ (\E g \in Gated, verdict \in {"approved", "rejected"} : DecideApproval(g, verdict))
             \/ DisableWorkspace \/ UNCHANGED vars
    BY <1>8 DEF AskControl, ReadResume, StartRun, DecideApproval, DisableWorkspace, vars
  <1> QED BY <1>1, <1>2, <1>3, <1>4, <1>5, <1>6, <1>7, <1>8 DEF Next, Drive, GetState, Users, Done

\* Where the loop goes once the run is cancelled.
LEMMA CancelledGoes ==
  ASSUME LoopInv, [Next]_vars, status = "CANCELLED", driver.pc \in {"plan", "poll", "returning", "returned"}, Idle
  PROVE  /\ driver'.pc \in {"plan", "poll", "returning", "returned"}
         /\ Bystands \/ Feedback(FALSE)
  <1> USE DEF At, Terminal
  <1>1. ASSUME NEW k \in Keys, Execute(k) PROVE FALSE
    BY <1>1 DEF Execute, EndTask, ReportStale, ReportStopped, Report, Abandon, Expand, RequestApproval, StopTask, Verify,
                Idle, InFlight
  <1>2. CASE BeginPlan \/ PollStops \/ Return \/ GiveUp \/ StartRun
    BY <1>2, LoopValues DEF BeginPlan, PollStops, Return, GiveUp, StartRun, Bystands
  <1>3. CASE BindingFails \/ PollPauses \/ PollNeedsPlan \/ PollTasks \/ Wake \/ NothingToStart \/ FinishRun \/ Sweep
             \/ (\E skipped \in SUBSET Skippable : FinishPlan(skipped))
             \/ \E k \in Keys : StartTask(k) \/ SkipTask(k)
    BY <1>3 DEF BindingFails, PollPauses, PollNeedsPlan, PollTasks, Wake, NothingToStart, FinishRun, Sweep, FinishPlan,
                StartTask, SkipTask
  <1>4. ASSUME NEW full \in BOOLEAN, Feedback(full)
        PROVE  Feedback(FALSE) /\ driver' = driver
    BY <1>4 DEF Feedback
  <1>5. CASE (\E c \in Controls : AskControl(c)) \/ ReadResume \/ WriteResume
             \/ (\E g \in Gated, verdict \in {"approved", "rejected"} : DecideApproval(g, verdict))
             \/ DisableWorkspace \/ UNCHANGED vars
    BY <1>5 DEF AskControl, ReadResume, WriteResume, DecideApproval, DisableWorkspace, vars, Bystands
  <1> QED BY <1>1, <1>2, <1>3, <1>4, <1>5 DEF Next, Drive, GetState, Users, Done

LEMMA InitRun == Init => RunInv
  <1> SUFFICES ASSUME Init PROVE RunInv OBVIOUS
  <1> QED BY InitLoop, InitRows DEF Init, RunInv, CancelledMeansStopped

LEMMA NextRun == RunInv /\ [Next]_vars => RunInv'
  <1> SUFFICES ASSUME RunInv, [Next]_vars PROVE RunInv' OBVIOUS
  <1>1. LoopInv' /\ RowsInv'
    BY NextLoop, NextRows DEF RunInv
  <1>2. ASSUME status' = "CANCELLED"
        PROVE  /\ driver'.pc \in {"plan", "poll", "returning", "returned"} /\ Idle'
               /\ \A k \in Keys : \/ task'[k] \in Over \cup {"ABSENT"}
                                  \/ task'[k] = "NEW" /\ k \in ResetPartial /\ found'
                                  \/ task'[k] = "RUNNING" /\ k \in abandoned'
    <2>0. task \in [Keys -> TaskStatus] /\ planVersion \in Nat
      BY DEF RunInv, LoopInv, TypeOK
    <2>1. CASE BeginPlan /\ ~Planned
      <3>1. Idle /\ NoRows
        BY <2>0, <2>1 DEF RunInv, RowsInv, Planned
      <3> QED BY <1>2, <2>1, <3>1, LoopValues DEF BeginPlan, Idle, InFlight, NoRows
    <2>2. CASE FinishRun /\ status # "CANCELLED"
      <3>1. Idle /\ Idle' /\ driver'.pc = "returning"
        BY <2>2, LoopValues DEF FinishRun, Idle, InFlight
      <3>2. \A k \in Keys : task'[k] = Cancelled(task[k]) /\ (task[k] = "RUNNING" => k \in abandoned')
        BY <1>2, <2>2, <3>1 DEF FinishRun, RunInv, RowsInv, Idle, userVars
      <3>3. \A k \in Keys : task'[k] \in Over \cup {"ABSENT"} \/ (task'[k] = "RUNNING" /\ k \in abandoned')
        BY <2>0, <3>2 DEF Cancelled, TaskStatus, Over
      <3> QED BY <3>1, <3>3
    <2>3. CASE status = "CANCELLED"
      <3>1. /\ driver'.pc \in {"plan", "poll", "returning", "returned"}
            /\ Bystands \/ Feedback(FALSE)
        BY <2>3, CancelledGoes DEF RunInv, CancelledMeansStopped
      <3>2. CASE Bystands
        BY <2>3, <3>1, <3>2, BystandsKeeps DEF RunInv, CancelledMeansStopped, Idle, InFlight
      <3>3. CASE Feedback(FALSE)
        <4>1. found /\ found' /\ Replan(FALSE) /\ abandoned' = abandoned
          BY <3>3 DEF Feedback
        <4>2. Idle'
          BY <2>3, <4>1, ReplanType DEF RunInv, LoopInv, CancelledMeansStopped, Idle, InFlight
        <4>3. \A k \in Keys : task'[k] \in {"ABSENT", task[k]} \/ (task'[k] = "NEW" /\ k \in ResetPartial)
          BY <4>1 DEF Replan
        <4> QED BY <2>3, <3>1, <4>1, <4>2, <4>3 DEF RunInv, CancelledMeansStopped
      <3> QED BY <3>1, <3>2, <3>3
    <2> QED BY <1>2, <2>1, <2>2, <2>3, WhoCancels DEF RunInv
  <1> QED BY <1>1, <1>2 DEF RunInv, CancelledMeansStopped

\* finish_run(CANCELLED) and the redirects, resumes and reports around it: a run that is
\* cancelled has no step in flight and nothing open but what a rejected finding reset and the
\* row of a step whose attempts were all lost.
THEOREM RunInvariance == Spec => []RunInv
  BY InitRun, NextRun, PTL DEF Spec

-----------------------------------------------------------------------------
(* Ends are final, and a run that has not ended is driven *)

\* FAILED and CANCELLED are final and COMPLETED is left only by a replan, except by the resume
\* of a run that was PAUSED when the request read it.
THEOREM EndIsFinalAlways == Spec => EndIsFinal
  <1> DEFINE A == status' # status /\ status \in Terminal =>
                    \/ status = "COMPLETED" /\ planVersion' > planVersion
                    \/ resuming = "PAUSED" /\ status' = "RUNNING" /\ planVersion' = planVersion
  <1>1. LoopInv /\ [Next]_vars => [A]_vars
    <2> SUFFICES ASSUME LoopInv, Next, status' # status, status \in Terminal
                 PROVE  \/ status = "COMPLETED" /\ planVersion' > planVersion
                        \/ resuming = "PAUSED" /\ status' = "RUNNING" /\ planVersion' = planVersion
      OBVIOUS
    <2>1. planVersion \in Nat
      BY DEF LoopInv, TypeOK
    <2>2. CASE WriteResume
      BY <2>2 DEF WriteResume
    <2>3. ASSUME NEW full \in BOOLEAN, Feedback(full)
          PROVE  status = "COMPLETED" /\ planVersion' > planVersion
      BY <2>1, <2>3 DEF Feedback, Replan, Reopened, Terminal
    <2>4. CASE Drive
      <3>1. CASE BeginPlan \/ BindingFails \/ \E skipped \in SUBSET Skippable : FinishPlan(skipped)
        BY <3>1 DEF BeginPlan, BindingFails, FinishPlan, LoopInv
      <3>2. CASE GetState
        BY <3>2 DEF GetState, PollStops, PollPauses, PollNeedsPlan, PollTasks
      <3>3. CASE Wake \/ NothingToStart \/ FinishRun \/ Return \/ Sweep \/ \E k \in Keys : StartTask(k) \/ SkipTask(k)
        BY <3>3 DEF Wake, NothingToStart, FinishRun, Return, Sweep, StartTask, SkipTask
      <3> QED BY <2>4, <3>1, <3>2, <3>3 DEF Drive
    <2>5. ASSUME NEW k \in Keys, Execute(k) PROVE FALSE
      BY <2>5, ExecuteFrame
    <2>6. CASE (\E c \in Controls : AskControl(c)) \/ ReadResume \/ StartRun
               \/ (\E g \in Gated, verdict \in {"approved", "rejected"} : DecideApproval(g, verdict))
               \/ DisableWorkspace \/ GiveUp \/ Done
      BY <2>6 DEF AskControl, ReadResume, StartRun, DecideApproval, DisableWorkspace, GiveUp, Done, vars
    <2> QED BY <2>2, <2>3, <2>4, <2>5, <2>6 DEF Next, Users
  <1> QED BY <1>1, LoopInvariance, PTL DEF Spec, EndIsFinal

LEMMA InitDriver == Init => DriverInv
  <1> SUFFICES ASSUME Init PROVE DriverInv OBVIOUS
  <1>1. driver.pc = "plan"
    BY LoopValues DEF Init
  <1> QED BY <1>1, InitLoop DEF DriverInv, Driven, At

\* Feedback that commits while the loop returns from a completed run is a nudge nobody hears
\* (start_run finds the workflow still alive): it is owed until then, and counted afterwards.
LEMMA NextDriver ==
  ASSUME DriverInv, [Next]_vars
  PROVE  DriverInv'
  <1>1. LoopInv'
    BY NextLoop DEF DriverInv
  <1>2. /\ status' \notin Terminal => ~At("returned")' \/ startDue' \/ stranded' # {}
        /\ At("returning")' => status' \in Terminal \/ startDue' \/ stranded' # {}
    <2> USE DEF DriverInv, Driven, At
    <2>1. CASE BeginPlan \/ BindingFails \/ (\E skipped \in SUBSET Skippable : FinishPlan(skipped)) \/ Wake
               \/ NothingToStart
      BY <2>1, LoopValues DEF BeginPlan, BindingFails, FinishPlan, Wake, NothingToStart
    <2>2. CASE PollStops
      <3>1. Finishing("CANCELLED").pc = "finish"
        BY DriverValues DEF Terminal
      <3> QED BY <2>2, <3>1, LoopValues DEF PollStops
    <2>3. CASE PollPauses \/ PollNeedsPlan
      BY <2>3, LoopValues DEF PollPauses, PollNeedsPlan
    <2>4. CASE PollTasks
      <3>1. driver'.pc \in {"finish", "start", "waiting"}
        BY <2>4, PollTasksDecides, DriverValues, LoopValues DEF Terminal
      <3> QED BY <3>1
    <2>5. CASE FinishRun
      BY <2>5, LoopValues DEF FinishRun, LoopInv, userVars
    <2>6. CASE Return
      BY <2>6, LoopValues DEF Return, userVars
    <2>7. ASSUME NEW k \in Keys, StartTask(k) \/ SkipTask(k) PROVE driver'.pc \in {"start", "poll"}
      <3>1. driver.keys \ {k} \in SUBSET Keys
        BY DEF LoopInv, TypeOK, Driver
      <3> QED BY <2>7, <3>1, LoopValues, DriverValues DEF StartTask, SkipTask, Handled
    <2>8. ASSUME NEW k \in Keys, Execute(k) PROVE UNCHANGED <<status, driver, startDue, stranded>>
      BY <2>8 DEF Execute, EndTask, ReportStale, ReportStopped, Report, Abandon, Expand, RequestApproval, StopTask, Verify,
                  userVars
    <2>9. CASE WriteResume
      BY <2>9 DEF WriteResume
    <2>10. ASSUME NEW full \in BOOLEAN, Feedback(full)
           PROVE  /\ status' \notin Terminal => ~At("returned")' \/ startDue' \/ stranded' # {}
                  /\ At("returning")' => status' \in Terminal \/ startDue' \/ stranded' # {}
      <3>1. /\ driver' = driver /\ stranded' = stranded /\ startDue' = (startDue \/ status = "COMPLETED")
            /\ status' = Reopened(status)
        BY <2>10 DEF Feedback, Replan
      <3> QED BY <3>1 DEF Reopened, Terminal
    <2>11. CASE StartRun
      BY <2>11, LoopValues DEF StartRun
    <2>12. CASE (\E c \in Controls : AskControl(c)) \/ ReadResume
                \/ (\E g \in Gated, verdict \in {"approved", "rejected"} : DecideApproval(g, verdict))
                \/ DisableWorkspace \/ UNCHANGED vars
      BY <2>12 DEF AskControl, ReadResume, DecideApproval, DisableWorkspace, vars, userVars
    <2>13. CASE GiveUp \/ Sweep
      BY <2>13, LoopValues DEF GiveUp, Sweep
    <2> QED BY <2>1, <2>2, <2>3, <2>4, <2>5, <2>6, <2>7, <2>8, <2>9, <2>10, <2>11, <2>12, <2>13
            DEF Next, Drive, GetState, Users, Done
  <1> QED BY <1>1, <1>2 DEF DriverInv, Driven

\* "A run that has not ended has somebody to drive it", whatever users do in any phase of the
\* loop, or it is known what left it without: a resume after its end, a nudge to a returning
\* loop, an activity that failed for good.
THEOREM DrivenAlways == Spec => []DriverInv
  BY InitDriver, NextDriver, PTL DEF Spec

-----------------------------------------------------------------------------
(* The order of the steps *)

\* Rows that are not done are all that moves: what was done stays done, and no row a
\* pattern of k may match turns up unfinished.
KeepsDone(k) ==
    /\ \A d \in Deps[k] : DepSatisfied(task, d) => DepSatisfied(task', d)
    /\ \A d \in Awaits[k] : PatternDone(task, d, k) => PatternDone(task', d, k)

LEMMA KeptDone ==
  ASSUME NEW k \in Keys, DepsDone(k), KeepsDone(k)
  PROVE  DepsDone(k)'
  BY DEF DepsDone, KeepsDone

\* Steps nobody has finished may change without anybody noticing.
LEMMA UnfinishedMoves ==
  ASSUME NEW d \in Keys, task[d] \in {"NEW", "WAITING_USER", "RUNNING"},
         \A j \in Keys : j # d => task'[j] = task[j]
  PROVE  \A k \in Keys : KeepsDone(k)
  <1>1. ~DepSatisfied(task, d)
    BY DEF DepSatisfied
  <1>2. ASSUME NEW k \in Keys, PatternDone(task, d, k) PROVE d = k \/ k \in Deps[d]
    BY <1>2 DEF PatternDone, Over
  <1>3. ASSUME NEW k \in Keys, NEW e \in Deps[k], DepSatisfied(task, e) PROVE DepSatisfied(task', e)
    BY <1>1, <1>3, PlaybookAssumption DEF DepSatisfied
  <1>4. ASSUME NEW k \in Keys, NEW e \in Awaits[k], PatternDone(task, e, k) PROVE PatternDone(task', e, k)
    BY <1>2, <1>4, PlaybookAssumption DEF PatternDone
  <1> QED BY <1>3, <1>4 DEF KeepsDone

LEMMA InitOrder == Init => OrderInv
  <1> SUFFICES ASSUME Init PROVE OrderInv OBVIOUS
  <1>1. Idle /\ ~At("start")
    BY LoopValues DEF Init, Idle, InFlight, NoAttempt, At
  <1> QED BY <1>1, InitLoop, InitRows DEF OrderInv, DepsBeforeTask, Idle

\* Where nothing is in flight and nothing is about to start there is nothing to order.
LEMMA IdleOrder ==
  ASSUME LoopInv, RowsInv, Idle, ~At("start")
  PROVE  OrderInv
  BY DEF OrderInv, DepsBeforeTask, Idle

\* The loop reads the rows only once nothing runs; what it starts was open then.
LEMMA PollOrder ==
  ASSUME Gather, OrderInv, LoopInv', RowsInv', GetState
  PROVE  OrderInv'
  <1>1. Idle /\ Idle'
    BY DEF GetState, PollStops, PollPauses, PollNeedsPlan, PollTasks, Polls, Idle, InFlight
  <1>2. CASE ~PollTasks
    <2>1. ~At("start")'
      BY <1>2, LoopValues, DriverValues DEF GetState, PollStops, PollPauses, PollNeedsPlan, At, Terminal
    <2> QED BY <1>1, <2>1 DEF OrderInv, DepsBeforeTask, Idle
  <1>3. CASE PollTasks /\ At("start")'
    <2> DEFINE st == AfterGates
    <2>1. task' = st
      BY <1>3 DEF PollTasks
    <2>2. \A k \in driver'.keys : k \in Ready(st)
      <3>1. CASE RequiredFailed(st) \/ Deadlocked(st) \/ AllOver(st) \/ Ready(st) = {}
        <4>1. driver' \in {Finishing("FAILED"), Finishing("COMPLETED"), Loop("waiting")}
          BY <1>3, <3>1 DEF PollTasks
        <4>2. driver'.pc \in {"finish", "waiting"}
          BY <4>1, DriverValues, LoopValues DEF Terminal
        <4> QED BY <1>3, <4>2 DEF At
      <3>2. CASE ~(RequiredFailed(st) \/ Deadlocked(st) \/ AllOver(st) \/ Ready(st) = {})
        <4>1. PICK keys \in SUBSET Ready(st) : driver' = Starting({k \in keys : ~InFlight(k)})
          BY <1>3, <3>2 DEF PollTasks
        <4>2. {k \in keys : ~InFlight(k)} \in SUBSET Keys
          BY <4>1 DEF Ready, Open
        <4>3. driver'.keys = {k \in keys : ~InFlight(k)}
          BY <4>1, <4>2, DriverValues
        <4> QED BY <4>1, <4>3
      <3> QED BY <3>1, <3>2
    <2>3. ASSUME NEW k \in Ready(st)
          PROVE  st[k] \in {"NEW", "WAITING_USER"} /\ (\A d \in Deps[k] : DepSatisfied(st, d))
                 /\ (\A d \in Awaits[k] : PatternDone(st, d, k))
      <3> HIDE DEF st
      <3> QED BY DEF Ready, Open
    <2> HIDE DEF st
    <2>4. \A k \in driver'.keys : task'[k] \in {"NEW", "WAITING_USER"} /\ DepsDone(k)'
      BY <2>1, <2>2, <2>3 DEF DepsDone
    <2> QED BY <1>1, <1>3, <2>4 DEF OrderInv, DepsBeforeTask, Idle, At
  <1>4. CASE PollTasks /\ ~At("start")'
    BY <1>1, <1>4 DEF OrderInv, DepsBeforeTask, Idle
  <1> QED BY <1>2, <1>3, <1>4

\* A started step leaves what the others rely on: nobody relied on a row that was open.
LEMMA StartOrder ==
  ASSUME OrderInv, LoopInv', RowsInv', NEW k \in Keys, StartTask(k) \/ SkipTask(k)
  PROVE  OrderInv'
  <1>0. /\ task \in [Keys -> TaskStatus] /\ attempt \in [Keys -> Attempt] /\ planVersion \in Nat
        /\ driver.keys \subseteq Keys
    BY DEF OrderInv, LoopInv, TypeOK, Driver
  <1>1. /\ driver'.pc \in {"start", "poll"} /\ UNCHANGED <<planVersion, overtaken>>
        /\ At("start")' => driver'.keys = driver.keys \ {k}
    <2>1. Handled(k) /\ UNCHANGED <<planVersion, overtaken>>
      BY DEF StartTask, SkipTask, userVars
    <2>2. driver.keys \ {k} \in SUBSET Keys
      BY <1>0
    <2>3. driver'.pc \in {"start", "poll"}
      BY <2>1, <2>2, LoopValues, DriverValues DEF Handled
    <2> QED BY <2>1, <2>3, HandledLoop DEF OrderInv
  <1>4. CASE overtaken
    BY <1>1, <1>4 DEF OrderInv, DepsBeforeTask
  <1>2. CASE ~overtaken /\ SkipTask(k)
    <2>1. UNCHANGED <<task, attempt>>
      BY <1>2 DEF SkipTask
    <2>2. At("start")
      BY <1>2 DEF SkipTask
    <2>3. DepsBeforeTask'
      BY <2>1, <1>1 DEF OrderInv, DepsBeforeTask, DepsDone, InFlight, Current
    <2>4. \A i, j \in Keys : InFlight(i)' /\ InFlight(j)' => attempt'[i].plan = attempt'[j].plan
      BY <1>2, <2>1 DEF OrderInv, InFlight
    <2>5. \A j \in Keys : InFlight(j)' => Current(j)'
      BY <1>1, <1>2, <2>1, <2>2 DEF OrderInv, InFlight, Current
    <2>6. At("start")' => \A j \in driver'.keys : task'[j] \in {"NEW", "WAITING_USER"} /\ DepsDone(j)'
      BY <1>0, <1>1, <1>2, <2>1, <2>2 DEF OrderInv, DepsDone
    <2> QED BY <1>1, <2>3, <2>4, <2>5, <2>6 DEF OrderInv
  <1>3. CASE ~overtaken /\ StartTask(k)
    <2>1. /\ At("start") /\ k \in driver.keys
          /\ task' = [task EXCEPT ![k] = "RUNNING"]
          /\ attempt' = [attempt EXCEPT ![k] = [pc |-> "running", plan |-> planVersion, lost |-> FALSE]]
          /\ ~overtaken
      BY <1>3 DEF StartTask
    <2>2. /\ task[k] \in {"NEW", "WAITING_USER"} /\ DepsDone(k)
          /\ \A j \in Keys : InFlight(j) => Current(j)
      BY <2>1 DEF OrderInv
    <2>3. \A j \in Keys : KeepsDone(j)
      BY <1>0, <2>1, <2>2, UnfinishedMoves
    <2>4. \A j \in Keys : DepsDone(j) => DepsDone(j)'
      BY <2>3, KeptDone
    <2>5. ASSUME NEW j \in Keys, InFlight(j)' PROVE Current(j)' /\ DepsDone(j)'
      <3>1. CASE j = k
        BY <1>0, <1>1, <2>1, <2>2, <2>4, <3>1 DEF Current
      <3>2. CASE j # k
        <4>1. attempt'[j] = attempt[j]
          BY <1>0, <2>1, <3>2
        <4>2. InFlight(j) /\ Current(j) /\ Current(j)'
          BY <1>1, <2>2, <2>5, <4>1 DEF InFlight, Current
        <4>3. ~attempt[j].lost
          <5>1. attempt[j].lost => attempt[j].plan < planVersion
            BY DEF OrderInv, RowsInv
          <5>2. attempt[j].plan = planVersion
            BY <4>2 DEF Current
          <5> QED BY <1>0, <5>1, <5>2
        <4> QED BY <2>1, <2>4, <4>2, <4>3 DEF OrderInv, DepsBeforeTask
      <3> QED BY <3>1, <3>2
    <2>6. ASSUME At("start")', NEW j \in driver'.keys
          PROVE  task'[j] \in {"NEW", "WAITING_USER"} /\ DepsDone(j)'
      BY <1>0, <1>1, <2>1, <2>4, <2>6 DEF OrderInv
    <2>7. DepsBeforeTask'
      BY <2>5 DEF DepsBeforeTask
    <2>8. \A i, j \in Keys : InFlight(i)' /\ InFlight(j)' => attempt'[i].plan = attempt'[j].plan
      BY <2>5 DEF Current
    <2> QED BY <1>1, <2>5, <2>6, <2>7, <2>8 DEF OrderInv
  <1> QED BY <1>2, <1>3, <1>4

\* What a step in flight does to the rows, none that it has not finished was relied on, and
\* whoever would have to wait for a row it adds was waiting for it.
LEMMA ExecuteOrder ==
  ASSUME OrderInv, LoopInv', RowsInv', NEW k \in Keys, Execute(k)
  PROVE  OrderInv'
  <1>0. /\ task \in [Keys -> TaskStatus] /\ attempt \in [Keys -> Attempt] /\ planVersion \in Nat
        /\ driver.keys \subseteq Keys
    BY DEF OrderInv, LoopInv, TypeOK, Driver
  <1>1. UNCHANGED <<status, planVersion, driver, overtaken>>
    BY ExecuteFrame
  <1>2. InFlight(k)
    BY DEF Execute, EndTask, ReportStale, ReportStopped, Report, Abandon, Expand, RequestApproval, StopTask, Verify, InFlight
  <1>3. \A j \in Keys : attempt'[j].pc # "none" =>
                           /\ InFlight(j) /\ attempt'[j].plan = attempt[j].plan
                           /\ attempt'[j].lost = attempt[j].lost
    <2>1. CASE EndTask(k)
      <3>1. attempt' = [attempt EXCEPT ![k] = NoAttempt]
        BY <2>1, EndTaskMoves DEF OrderInv
      <3> QED BY <1>0, <3>1, AttemptValues DEF InFlight
    <2>2. CASE StopTask(k) \/ Verify(k)
      BY <1>0, <1>2, <2>2 DEF StopTask, Verify, InFlight, Attempt
    <2>3. CASE (\E d \in Dynamic : Expand(k, d)) \/ (\E e \in SideEffects : RequestApproval(k, e))
      BY <2>3 DEF Expand, RequestApproval, InFlight
    <2> QED BY <2>1, <2>2, <2>3 DEF Execute
  <1>4. ASSUME Current(k) PROVE \A j \in Keys : DepsDone(j) => DepsDone(j)'
    <2>1. task[k] = "RUNNING" /\ ~attempt[k].lost
      BY <1>2, <1>4 DEF OrderInv, RowsInv
    <2>2. CASE EndTask(k)
      <3>1. \A j \in Keys : j # k => task'[j] = task[j]
        BY <2>2, EndTaskMoves DEF OrderInv
      <3>2. \A j \in Keys : KeepsDone(j)
        BY <2>1, <3>1, UnfinishedMoves
      <3> QED BY <3>2, KeptDone
    <2>3. CASE StopTask(k) \/ Verify(k) \/ (\E e \in SideEffects : RequestApproval(k, e))
      BY <2>3 DEF StopTask, Verify, RequestApproval, DepsDone
    <2>4. ASSUME NEW d \in Dynamic, Expand(k, d), NEW j \in Keys, DepsDone(j)
          PROVE  DepsDone(j)'
      <3>1. task[d] = "ABSENT" /\ d \in Expands[k] /\ d \in Keys /\ task' = [task EXCEPT ![d] = "NEW"]
        BY <2>4, PlaybookAssumption DEF Expand
      <3>2. ASSUME NEW e \in Deps[j] PROVE DepSatisfied(task', e)
        <4>1. DepSatisfied(task, e) /\ e \in Keys
          BY <2>4, PlaybookAssumption DEF DepsDone
        <4>2. e # d
          BY <3>1, <4>1 DEF DepSatisfied
        <4> QED BY <1>0, <3>1, <4>1, <4>2 DEF DepSatisfied
      <3>3. ASSUME SeesExpanders(j), NEW e \in Awaits[j] PROVE PatternDone(task', e, j)
        <4>1. PatternDone(task, e, j) /\ e \in Keys
          BY <2>4, <3>3, PlaybookAssumption DEF DepsDone
        <4>2. CASE e # d
          BY <1>0, <3>1, <4>1, <4>2 DEF PatternDone
        <4>3. CASE e = d
          <5>1. \/ d = j \/ j \in Deps[d] \/ k \in Deps[j]
                \/ k \in Awaits[j] /\ k # j /\ j \notin Deps[k]
            BY <3>1, <3>3, <4>3 DEF SeesExpanders
          <5>2. k \notin Deps[j]
            BY <2>1, <2>4 DEF DepsDone, DepSatisfied
          <5>3. ~(k \in Awaits[j] /\ k # j /\ j \notin Deps[k])
            BY <2>1, <2>4, <3>3 DEF DepsDone, PatternDone, Over
          <5> QED BY <4>3, <5>1, <5>2, <5>3 DEF PatternDone
        <4> QED BY <4>2, <4>3
      <3> QED BY <3>2, <3>3 DEF DepsDone
    <2> QED BY <2>2, <2>3, <2>4 DEF Execute
  <1>5. ASSUME ~overtaken, NEW j \in Keys, InFlight(j)', ~attempt'[j].lost, Current(j)' PROVE DepsDone(j)'
    <2>1. InFlight(j) /\ ~attempt[j].lost /\ Current(j)
      BY <1>1, <1>3, <1>5 DEF InFlight, Current
    <2>2. Current(k)
      BY <1>2, <1>5, <2>1 DEF OrderInv, Current
    <2> QED BY <1>4, <1>5, <2>1, <2>2 DEF OrderInv, DepsBeforeTask
  <1>6. ASSUME ~overtaken, At("start")', NEW j \in driver'.keys
        PROVE  task'[j] \in {"NEW", "WAITING_USER"} /\ DepsDone(j)'
    <2>1. At("start") /\ j \in Keys /\ j \in driver.keys /\ task[j] \in {"NEW", "WAITING_USER"} /\ DepsDone(j)
      BY <1>0, <1>1, <1>6 DEF OrderInv, At
    <2>2. Current(k) /\ task[k] = "RUNNING"
      BY <1>2, <1>6, <2>1 DEF OrderInv, RowsInv
    <2>3. task'[j] = task[j]
      <3>1. j # k
        BY <2>1, <2>2
      <3>2. CASE EndTask(k)
        BY <2>1, <3>1, <3>2, EndTaskMoves DEF OrderInv
      <3>3. CASE StopTask(k) \/ Verify(k) \/ (\E e \in SideEffects : RequestApproval(k, e))
        BY <3>3 DEF StopTask, Verify, RequestApproval
      <3>4. ASSUME NEW d \in Dynamic, Expand(k, d) PROVE task'[j] = task[j]
        BY <1>0, <2>1, <3>4 DEF Expand
      <3> QED BY <3>2, <3>3, <3>4 DEF Execute
    <2> QED BY <1>4, <2>1, <2>2, <2>3
  <1>7. /\ driver'.pc \notin {"start", "poll"} => Idle'
        /\ \A i, j \in Keys : ~overtaken' /\ InFlight(i)' /\ InFlight(j)' => attempt'[i].plan = attempt'[j].plan
        /\ At("start")' /\ ~overtaken' => \A j \in Keys : InFlight(j)' => Current(j)'
    BY <1>1, <1>3 DEF OrderInv, Idle, InFlight, Current, At
  <1> QED BY <1>1, <1>5, <1>6, <1>7 DEF OrderInv, DepsBeforeTask

\* A replan takes the current plan from everything in flight; what the loop was about to start
\* it starts all the same.
LEMMA FeedbackOrder ==
  ASSUME OrderInv, LoopInv', RowsInv', NEW full \in BOOLEAN, Feedback(full)
  PROVE  OrderInv'
  <1>1. /\ driver' = driver /\ (At("start") \/ overtaken => overtaken') /\ Replan(full) /\ planVersion' = planVersion + 1
        /\ planVersion \in Nat
    BY DEF Feedback, Replan, OrderInv, LoopInv, TypeOK
  <1>2. \A j \in Keys : attempt'[j].pc = attempt[j].pc
    BY <1>1, ReplanType DEF OrderInv, LoopInv
  <1>3. ASSUME NEW j \in Keys
        PROVE  attempt'[j].plan = attempt[j].plan /\ attempt[j].plan \in Nat /\ attempt[j].plan <= planVersion
    <2>1. attempt[j] \in Attempt
      BY DEF OrderInv, LoopInv, TypeOK
    <2>2. \E lost \in BOOLEAN : attempt'[j] = [attempt[j] EXCEPT !.lost = lost]
      BY <1>1, <2>1 DEF Replan, Attempt
    <2> QED BY <2>1, <2>2 DEF Attempt, OrderInv, RowsInv
  <1>4. \A j \in Keys : ~Current(j)'
    <2> TAKE j \in Keys
    <2>1. attempt'[j].plan <= planVersion /\ attempt'[j].plan \in Nat
      BY <1>3
    <2> QED BY <1>1, <2>1 DEF Current
  <1> QED BY <1>1, <1>2, <1>3, <1>4 DEF OrderInv, DepsBeforeTask, Idle, InFlight, At

LEMMA NextOrder ==
  ASSUME Gather, OrderInv, [Next]_vars
  PROVE  OrderInv'
  <1>1. LoopInv' /\ RowsInv'
    BY NextLoop, NextRows DEF OrderInv
  <1>2. CASE BeginPlan \/ BindingFails \/ (\E skipped \in SUBSET Skippable : FinishPlan(skipped)) \/ Wake
             \/ FinishRun \/ Return \/ GiveUp \/ Sweep
    <2>1. Idle
      BY <1>2 DEF BeginPlan, BindingFails, FinishPlan, Wake, FinishRun, Return, GiveUp, Sweep, Polls, OrderInv, At
    <2>2. attempt' = attempt /\ driver'.pc # "start"
      BY <1>2, LoopValues DEF BeginPlan, BindingFails, FinishPlan, Wake, FinishRun, Return, GiveUp, Sweep
    <2> QED BY <1>1, <2>1, <2>2 DEF OrderInv, DepsBeforeTask, Idle, InFlight, At
  <1>3. CASE GetState
    BY <1>1, <1>3, PollOrder
  <1>4. CASE NothingToStart
    <2>1. UNCHANGED <<task, attempt, planVersion, overtaken>> /\ driver'.pc = "poll"
      BY <1>4, LoopValues DEF NothingToStart, userVars
    <2> QED BY <1>1, <2>1 DEF OrderInv, DepsBeforeTask, DepsDone, Current, InFlight, Idle, At
  <1>5. ASSUME NEW k \in Keys, StartTask(k) \/ SkipTask(k) PROVE OrderInv'
    BY <1>1, <1>5, StartOrder
  <1>6. ASSUME NEW k \in Keys, Execute(k) PROVE OrderInv'
    BY <1>1, <1>6, ExecuteOrder
  <1>7. ASSUME NEW full \in BOOLEAN, Feedback(full) PROVE OrderInv'
    BY <1>1, <1>7, FeedbackOrder
  <1>8. CASE StartRun
    <2>1. /\ UNCHANGED <<task, attempt, planVersion, overtaken>>
          /\ driver' = driver \/ (At("returned") /\ driver'.pc = "plan")
      BY <1>8, LoopValues DEF StartRun
    <2> QED BY <1>1, <2>1 DEF OrderInv, DepsBeforeTask, DepsDone, Current, InFlight, Idle, At
  <1>9. CASE (\E c \in Controls : AskControl(c)) \/ ReadResume \/ WriteResume
             \/ (\E g \in Gated, verdict \in {"approved", "rejected"} : DecideApproval(g, verdict))
             \/ DisableWorkspace \/ UNCHANGED vars
    <2>1. UNCHANGED <<task, attempt, planVersion, driver, overtaken>>
      BY <1>9 DEF AskControl, ReadResume, WriteResume, DecideApproval, DisableWorkspace, userVars, vars
    <2> QED BY <1>1, <2>1 DEF OrderInv, DepsBeforeTask, DepsDone, Current, InFlight, Idle, At
  <1> QED BY <1>2, <1>3, <1>4, <1>5, <1>6, <1>7, <1>8, <1>9 DEF Next, Drive, Users, Done

-----------------------------------------------------------------------------
(* No dependency deadlock *)

\* Of the rows that are left, one ranks lowest.
LEMMA LowestRank ==
  ASSUME NEW rank \in [Keys -> Nat], NEW S \in SUBSET Keys, S # {}
  PROVE  \E k \in S : \A j \in S : rank[k] <= rank[j]
  <1> DEFINE R == {rank[k] : k \in S}
             Less == OpToRel(<, Nat)
  <1>1. R \subseteq Nat /\ R # {} /\ IsWellFoundedOn(Less, Nat)
    <2>1. IsWellFoundedOn(Less, Nat)
      BY NatLessThanWellFounded
    <2> HIDE DEF Less
    <2> QED BY <2>1
  <1>0. \A m, n \in Nat : m < n => <<m, n>> \in Less
    BY DEF OpToRel
  <1> HIDE DEF Less
  <1>2. PICK n \in R : \A m \in R : ~(<<m, n>> \in Less)
    BY <1>1, WFMin
  <1>3. PICK k \in S : rank[k] = n
    BY <1>2
  <1>4. \A j \in S : rank[k] <= rank[j]
    <2> TAKE j \in S
    <2>1. rank[j] \in R /\ rank[j] \in Nat /\ rank[k] \in Nat
      BY <1>1
    <2>2. ~(rank[j] < rank[k])
      BY <1>0, <1>2, <1>3, <2>1
    <2> QED BY <2>1, <2>2
  <1> QED BY <1>4

\* The lowest of the rows that are not over waits for nothing.
LEMMA NoDeadlock ==
  ASSUME NEW rank \in [Keys -> Nat], Ordered(rank), LoopInv, RowsInv
  PROVE  NoDependencyDeadlock
  <1> DEFINE st == AfterGates
  <1> SUFFICES ASSUME \E k \in Keys : task[k] # "ABSENT", \A k \in Keys : task[k] # "CANCELLED", ~Orphaned,
                      Deadlocked(st)
               PROVE  FALSE
    BY DEF NoDependencyDeadlock
  <1>1. /\ st \in [Keys -> TaskStatus] /\ task \in [Keys -> TaskStatus]
        /\ \A k \in Keys : \/ st[k] = task[k]
                           \/ task[k] \in {"NEW", "WAITING_USER"} /\ st[k] \in {"SKIPPED", "WAITING_USER"}
    BY GatesType DEF LoopInv, TypeOK, AfterGates, Open
  <1>2. \A k \in Static : st[k] # "ABSENT"
    BY <1>1 DEF RowsInv, NoRows, Static
  <1>3. /\ \A k \in Keys : st[k] # "RUNNING" /\ st[k] # "CANCELLED" /\ k \notin Open(st)
        /\ \A k \in Keys \ Optional : st[k] # "FAILED"
        /\ \E k \in Keys : st[k] \notin Over \cup {"ABSENT"}
    <2>1. \A k \in Keys : st[k] # "CANCELLED"
      BY <1>1
    <2> HIDE DEF st
    <2> QED BY <2>1 DEF Deadlocked, Ready, Running, RequiredFailed, AllOver
  <1> HIDE DEF st
  <1>4. ASSUME NEW k \in Keys, st[k] \in {"NEW", "WAITING_USER"}, NEW d \in Deps[k] \cap Dynamic
        PROVE  st[d] # "ABSENT"
    <2>1. d \in Keys /\ task[k] \in {"NEW", "WAITING_USER"}
      BY <1>1, <1>4, PlaybookAssumption
    <2>2. task[d] # "ABSENT"
      BY <2>1 DEF Orphaned, Over
    <2> QED BY <1>1, <2>1, <2>2
  <1> DEFINE Left == {k \in Keys : st[k] \in {"NEW", "WAITING_USER"}}
  <1>5. \A k \in Keys : st[k] \notin Over \cup {"ABSENT"} => k \in Left
    BY <1>1, <1>3 DEF TaskStatus
  <1>6. PICK k \in Left : \A j \in Left : rank[k] <= rank[j]
    BY <1>3, <1>5, LowestRank
  <1>7. \A d \in Keys : rank[d] \in Nat /\ (rank[d] < rank[k] => d \notin Left)
    BY <1>6
  <1>8. ASSUME NEW d \in Deps[k] PROVE DepSatisfied(st, d)
    <2>1. d \in Keys /\ d \notin Left
      BY <1>7, PlaybookAssumption DEF Ordered
    <2>2. st[d] # "ABSENT"
      BY <1>2, <1>4, <2>1 DEF Static
    <2> QED BY <1>1, <1>3, <2>1, <2>2 DEF TaskStatus, Over, DepSatisfied
  <1>9. ASSUME NEW d \in Awaits[k] PROVE PatternDone(st, d, k)
    <2>1. d \in Keys /\ (d = k \/ k \in Deps[d] \/ d \notin Left)
      BY <1>7, PlaybookAssumption DEF Ordered
    <2> QED BY <1>5, <2>1 DEF PatternDone
  <1>10. k \in Open(st)
    BY <1>8, <1>9 DEF Open
  <1> QED BY <1>3, <1>10

\* "'insights' waits for every test and follow-up round, including ones added later", and the
\* engine never gives up on rows that wait for each other: under the Temporal loop, if the
\* playbook has an order.  From a redirect between the loop's decision and what it starts until it
\* reads the rows again (`overtaken`), a step may start before its dependencies.
THEOREM DependenciesHoldAlways ==
  ASSUME Gather, NEW rank \in [Keys -> Nat], Ordered(rank)
  PROVE  Spec => []DependenciesHold
  <1>1. OrderInv /\ [Next]_vars => OrderInv'
    BY NextOrder
  <1>2. OrderInv => DependenciesHold
    BY NoDeadlock DEF DependenciesHold, OrderInv
  <1> QED BY <1>1, <1>2, InitOrder, PTL DEF Spec

=============================================================================
