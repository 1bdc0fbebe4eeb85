----------------------------- MODULE LocalRuntime -----------------------------
(***************************************************************************)
(* The local orchestrator of one API process (workflows/orchestrator.py,   *)
(* class LocalRuntime): short-lived driver threads, the registry and the   *)
(* nudges under one lock, the bounded pool of task workers, the sweep and  *)
(* the restart.  The lite profile: resume and sweeper are on.              *)
(*                                                                         *)
(* A run is abstracted to what the loop asks of it; planning, expansion    *)
(* and failures of steps are in RunEngine, claims in TaskClaims.  A run    *)
(* that fails ends like one that completes.                                *)
(***************************************************************************)
EXTENDS Naturals, FiniteSets

CONSTANTS
    Runs, Steps,
    Gated,          \* the steps that wait for a person
    Threads,        \* driver threads that can exist at once
    Workers,        \* ANALYSTOS_LOCAL_WORKERS
    MaxEvents       \* bound: controls, crashes, restarts, failed attempts and feedback

ASSUME RuntimeAssumption ==
    /\ Gated \subseteq Steps /\ IsFiniteSet(Threads)
    /\ Workers \in Nat \ {0} /\ MaxEvents \in Nat
    /\ "none" \notin Threads \cup Runs

VARIABLES
    status,         \* run: live, completed or cancelled
    control,        \* run: none, pause or cancel
    decided,        \* run: its person has decided
    row,            \* run, step: new, running, done or cancelled
    signal,         \* runs whose change has committed and whose signal is not yet sent
    swept,          \* runs the sweep or the restart is about to submit
    drivers,        \* _drivers: the thread registered for a run
    nudged,         \* _nudged
    thread,         \* threads: the run, where the thread is and what it will return
    job,            \* thread, step: its future in the pool
    irregular,      \* history, for the properties: runs that had two drivers at once, or one that
                    \* crashed and left steps in the pool
    lost,           \* history, for the properties: claims whose attempt ended without giving them back
    events          \* how many of MaxEvents have happened

database == <<status, control, decided, row>>
vars == <<database, signal, swept, drivers, nudged, thread, job, irregular, lost, events>>

Idle == [run |-> "none", pc |-> "free", outcome |-> "none"]
NoJobs == [k \in Steps |-> "none"]

Init ==
    /\ status = [r \in Runs |-> "live"]
    /\ control = [r \in Runs |-> "none"]
    /\ decided = [r \in Runs |-> FALSE]
    /\ row = [r \in Runs |-> [k \in Steps |-> "new"]]
    /\ signal = Runs /\ swept = {} /\ irregular = {} /\ lost = {}
    /\ drivers = [r \in Runs |-> "none"] /\ nudged = {}
    /\ thread = [t \in Threads |-> Idle]
    /\ job = [t \in Threads |-> NoJobs]
    /\ events = 0

Event == events < MaxEvents /\ events' = events + 1

-----------------------------------------------------------------------------
(* What get_state answers *)

Ready(r) == {k \in Steps : row[r][k] = "new" /\ (k \in Gated => decided[r])}
Running(r) == {k \in Steps : row[r][k] = "running"}
Done(r) == \A k \in Steps : row[r][k] \in {"done", "cancelled"}
WaitsForUser(r) == Ready(r) = {} /\ Running(r) = {} /\ ~Done(r)
Waiting(r) == status[r] = "live" /\ (control[r] = "pause" \/ (control[r] = "none" /\ WaitsForUser(r)))
HasWork(r) == status[r] = "live" /\ ~Waiting(r)

-----------------------------------------------------------------------------
(* Requests: a change is committed, and then the run is signalled *)

\* The approval is there once the steps before the gate are done.
Decide(r) ==
    /\ status[r] = "live" /\ ~decided[r] /\ \A k \in Steps \ Gated : row[r][k] = "done"
    /\ decided' = [decided EXCEPT ![r] = TRUE]
    /\ signal' = signal \cup {r}
    /\ UNCHANGED <<status, control, row, swept, drivers, nudged, thread, job, irregular, lost, events>>

\* A resume or a pause after a cancel takes its place.
Control(r, c) ==
    /\ Event /\ status[r] = "live"
    /\ control' = [control EXCEPT ![r] = c]
    /\ signal' = signal \cup {r}
    /\ UNCHANGED <<status, decided, row, swept, drivers, nudged, thread, job, irregular, lost>>

\* Feedback on a completed run: apply_replan resets its rows, which supersedes the claims of
\* attempts that still run, and start_run follows.
Reopen(r) ==
    /\ Event /\ status[r] = "completed"
    /\ status' = [status EXCEPT ![r] = "live"]
    /\ row' = [row EXCEPT ![r] = [k \in Steps |-> "new"]]
    /\ decided' = [decided EXCEPT ![r] = FALSE]
    /\ signal' = signal \cup {r}
    /\ job' = [t \in Threads |-> [k \in Steps |->
                  IF thread[t].run = r /\ job[t][k] = "running" THEN "superseded" ELSE job[t][k]]]
    /\ lost' = {c \in lost : c[1] # r}
    /\ UNCHANGED <<control, swept, drivers, nudged, thread, irregular>>

-----------------------------------------------------------------------------
(* submit *)

Started(t) == thread[t].pc \notin {"free", "registered"}  \* Thread.is_alive
Alive(r) == drivers[r] # "none" /\ Started(drivers[r])
Drivers(r) == {t \in Threads : thread[t].run = r /\ Started(t)}
Free(t) == thread[t] = Idle /\ job[t] = NoJobs
Spare == CHOOSE t \in Threads : Free(t)  \* which thread is new is all one

\* Under the lock: nudge the driver of the run, or register a new one.  The thread is
\* started after the lock is released.
Submit(r) ==
    \/ Alive(r) /\ nudged' = nudged \cup {r} /\ UNCHANGED <<drivers, thread>>
    \/ /\ ~Alive(r)
       /\ \E t \in {u \in Threads : Free(u)} :
             /\ t = Spare
             /\ thread' = [thread EXCEPT ![t] = [run |-> r, pc |-> "registered", outcome |-> "none"]]
             /\ drivers' = [drivers EXCEPT ![r] = t]
       /\ UNCHANGED nudged

Signal(r) ==
    /\ r \in signal /\ Submit(r)
    /\ signal' = signal \ {r}
    /\ UNCHANGED <<database, swept, job, irregular, lost, events>>

StartThread(t) ==
    /\ thread[t].pc = "registered"
    /\ thread' = [thread EXCEPT ![t].pc = "polling"]
    /\ irregular' = IF Drivers(thread[t].run) = {} THEN irregular ELSE irregular \cup {thread[t].run}
    /\ UNCHANGED <<database, signal, swept, drivers, nudged, job, lost, events>>

\* Mutant of Neglected: the sweep looks only for parked runs.
NeglectedParked == {r \in Runs : status[r] = "live" /\ ~Alive(r) /\ Waiting(r)}

\* Runs that are not over and that no thread drives.
Neglected == {r \in Runs : status[r] = "live" /\ ~Alive(r)}

SweepReads ==
    /\ swept = {} /\ Neglected # {}
    /\ swept' = Neglected
    /\ UNCHANGED <<database, signal, drivers, nudged, thread, job, irregular, lost, events>>

SweepSubmits(r) ==
    /\ r \in swept /\ Submit(r)
    /\ swept' = swept \ {r}
    /\ UNCHANGED <<database, signal, job, irregular, lost, events>>

-----------------------------------------------------------------------------
(* _drive and drive *)

Finished(t) == {k \in Steps : job[t][k] = "done"}
Inflight(t) == {k \in Steps : job[t][k] \notin {"none", "done"}}
Goes(t, pc, outcome) == thread' = [thread EXCEPT ![t].pc = pc, ![t].outcome = outcome]

\* get_state and what follows from it: end the run, park, or hand the ready steps to the pool.
Poll(t) ==
    /\ thread[t].pc = "polling"
    /\ LET r == thread[t].run
           ready == IF control[r] = "none" THEN Ready(r) \ Inflight(t) ELSE {}
           ends == status[r] # "live" \/ control[r] = "cancel" \/ (control[r] = "none" /\ Done(r))
       IN \/ /\ ends
             /\ Goes(t, "draining", IF status[r] # "live" THEN status[r]
                                    ELSE IF control[r] = "cancel" THEN "cancelled" ELSE "completed")
             /\ UNCHANGED job
          \/ /\ ~ends /\ Waiting(r) /\ Inflight(t) = {}
             /\ Goes(t, "leaving", "parked")
             /\ job' = [job EXCEPT ![t] = NoJobs]
          \/ /\ ~ends /\ ~(Waiting(r) /\ Inflight(t) = {})
             /\ ready \cup Finished(t) # {}
             /\ job' = [job EXCEPT ![t] = [k \in Steps |-> IF k \in ready THEN "queued"
                                                           ELSE IF k \in Finished(t) THEN "none" ELSE @[k]]]
             /\ UNCHANGED thread
    /\ UNCHANGED <<database, signal, swept, drivers, nudged, irregular, lost, events>>

\* _drain its own futures, then finish_run, unless the run is over already.
Finish(t) ==
    /\ thread[t].pc = "draining" /\ Inflight(t) = {}
    /\ LET r == thread[t].run IN
          IF status[r] # "live" THEN UNCHANGED <<status, row>>
          ELSE /\ status' = [status EXCEPT ![r] = thread[t].outcome]
               /\ row' = IF thread[t].outcome # "cancelled" THEN row
                         ELSE [row EXCEPT ![r] = [k \in Steps |-> IF @[k] = "new" THEN "cancelled" ELSE @[k]]]
    /\ job' = [job EXCEPT ![t] = NoJobs]
    /\ Goes(t, "leaving", thread[t].outcome)
    /\ UNCHANGED <<control, decided, signal, swept, drivers, nudged, irregular, lost, events>>

Release(t) == drivers' = [r \in Runs |-> IF drivers[r] = t THEN "none" ELSE drivers[r]]

\* Mutant of Leave: a parked run is left without a look at the nudges.
LeaveBlind(t) ==
    /\ thread[t].pc = "leaving"
    /\ nudged' = nudged \ {thread[t].run}
    /\ thread' = [thread EXCEPT ![t] = Idle] /\ Release(t)
    /\ UNCHANGED <<database, signal, swept, job, irregular, lost, events>>

\* Under the lock: a nudge that came while the thread was about to park is taken and the run
\* driven on; otherwise the thread gives the run up, and the nudge is dropped.
Leave(t) ==
    /\ thread[t].pc = "leaving"
    /\ nudged' = nudged \ {thread[t].run}
    /\ IF thread[t].run \in nudged /\ thread[t].outcome = "parked"
       THEN Goes(t, "polling", "none") /\ UNCHANGED drivers
       ELSE thread' = [thread EXCEPT ![t] = Idle] /\ Release(t)
    /\ UNCHANGED <<database, signal, swept, job, irregular, lost, events>>

\* drive raises: the registry is cleaned up; steps already in the pool go on, unawaited.
Crash(t) ==
    /\ Event /\ thread[t].pc \in {"polling", "draining"}
    /\ thread' = [thread EXCEPT ![t] = [Idle EXCEPT !.run = thread[t].run]]
    /\ Release(t)
    /\ irregular' = IF Inflight(t) = {} THEN irregular ELSE irregular \cup {thread[t].run}
    /\ UNCHANGED <<database, signal, swept, nudged, job, lost>>

-----------------------------------------------------------------------------
(* The pool of workers *)

Busy == {p \in Threads \X Steps : job[p[1]][p[2]] \in {"running", "superseded"}}
Job(t, k, pc) == job' = [job EXCEPT ![t][k] = pc]
Row(r, k, s) == row' = [row EXCEPT ![r][k] = s]

\* Mutant of Claims: a step is executed whatever its row says.
ClaimsAny(t, k) == row[thread[t].run][k] # "cancelled"

\* engine._claim: the row is free.
Claims(t, k) == row[thread[t].run][k] = "new"

Work(t, k) ==
    /\ job[t][k] = "queued" /\ Cardinality(Busy) < Workers
    /\ IF Claims(t, k)
       THEN Row(thread[t].run, k, "running") /\ Job(t, k, "running")
       ELSE Job(t, k, "done") /\ UNCHANGED row
    /\ UNCHANGED <<status, control, decided, signal, swept, drivers, nudged, thread, irregular, lost, events>>

\* The step reports; check_control stops it, now and then, once a cancel is asked for.
Report(t, k) ==
    /\ job[t][k] = "running"
    /\ \/ Row(thread[t].run, k, "done")
       \/ control[thread[t].run] = "cancel" /\ Row(thread[t].run, k, "cancelled")
    /\ Job(t, k, "done")
    /\ UNCHANGED <<status, control, decided, signal, swept, drivers, nudged, thread, irregular, lost, events>>

\* The report of a superseded claim is discarded.
Discard(t, k) ==
    /\ job[t][k] = "superseded"
    /\ Job(t, k, "done")
    /\ UNCHANGED <<database, signal, swept, drivers, nudged, thread, irregular, lost, events>>

\* An attempt fails and its worker retries (queued) or gives up (done).  The row is free again:
\* _reset asks for the claim of the attempt, so that of a superseded one stays as it is.
FailAttempt(t, k, pc) ==
    /\ Event /\ job[t][k] \in {"queued", "running", "superseded"}
    /\ IF job[t][k] = "running" THEN Row(thread[t].run, k, "new") ELSE UNCHANGED row
    /\ Job(t, k, pc)
    /\ UNCHANGED <<status, control, decided, signal, swept, drivers, nudged, thread, irregular, lost>>

\* The transaction that should report or reset it raises: the row stays RUNNING, which the
\* retry takes for another's claim.
LoseClaim(t, k, pc) ==
    /\ Event /\ job[t][k] = "running"
    /\ lost' = lost \cup {<<thread[t].run, k>>}
    /\ Job(t, k, pc)
    /\ UNCHANGED <<database, signal, swept, drivers, nudged, thread, irregular>>

\* Nobody awaits the futures of a thread that crashed.
Forget(t) ==
    /\ thread[t].pc = "free" /\ thread[t] # Idle /\ Inflight(t) = {}
    /\ thread' = [thread EXCEPT ![t] = Idle] /\ job' = [job EXCEPT ![t] = NoJobs]
    /\ UNCHANGED <<database, signal, swept, drivers, nudged, irregular, lost, events>>

-----------------------------------------------------------------------------
(* Restart *)

\* Claims that nobody can still be executing.
Orphans == {c \in Runs \X Steps : status[c[1]] = "live" /\ row[c[1]][c[2]] = "running"}

\* The process dies.  Its successor releases the orphaned claims and resumes every run that is not
\* over; if that fails ("local resume skipped") its first sweep does, and the claims stay.
Restart(resumed) ==
    /\ Event
    /\ row' = IF resumed THEN [r \in Runs |-> [k \in Steps |-> IF <<r, k>> \in Orphans THEN "new" ELSE row[r][k]]]
              ELSE row
    /\ lost' = IF resumed THEN {} ELSE Orphans
    /\ swept' = {r \in Runs : status[r] = "live"}
    /\ thread' = [t \in Threads |-> Idle] /\ job' = [t \in Threads |-> NoJobs]
    /\ drivers' = [r \in Runs |-> "none"] /\ nudged' = {} /\ signal' = {}
    /\ irregular' = {}
    /\ UNCHANGED <<status, control, decided>>

-----------------------------------------------------------------------------

Drive(t) == StartThread(t) \/ Poll(t) \/ Finish(t) \/ Leave(t)
Execute(t, k) == Work(t, k) \/ Report(t, k) \/ Discard(t, k)

Next ==
    \/ \E r \in Runs : Decide(r) \/ Reopen(r) \/ Signal(r) \/ SweepSubmits(r)
    \/ \E r \in Runs, c \in {"none", "pause", "cancel"} : Control(r, c)
    \/ SweepReads
    \/ \E t \in Threads : Drive(t) \/ Crash(t) \/ Forget(t)
    \/ \E t \in Threads, k \in Steps : Execute(t, k)
    \/ \E t \in Threads, k \in Steps, pc \in {"queued", "done"} : FailAttempt(t, k, pc) \/ LoseClaim(t, k, pc)
    \/ \E resumed \in BOOLEAN : Restart(resumed)

Spec == Init /\ [][Next]_vars

\* Threads that can run do run; the sweeper wakes up again and again.  Nobody has to decide.
Fairness ==
    /\ \A r \in Runs : WF_vars(Signal(r)) /\ WF_vars(SweepSubmits(r))
    /\ WF_vars(SweepReads)
    /\ \A t \in Threads : WF_vars(Drive(t)) /\ WF_vars(Forget(t))
    /\ \A t \in Threads, k \in Steps : WF_vars(Execute(t, k))

FairSpec == Spec /\ Fairness

-----------------------------------------------------------------------------
(* Properties *)

ThreadRows == [run : Runs \cup {"none"}, pc : {"free", "registered", "polling", "draining", "leaving"},
               outcome : {"none", "parked", "completed", "cancelled"}]
JobStates == {"none", "queued", "running", "superseded", "done"}

TypeOK ==
    /\ status \in [Runs -> {"live", "completed", "cancelled"}]
    /\ control \in [Runs -> {"none", "pause", "cancel"}]
    /\ decided \in [Runs -> BOOLEAN]
    /\ row \in [Runs -> [Steps -> {"new", "running", "done", "cancelled"}]]
    /\ signal \in SUBSET Runs /\ swept \in SUBSET Runs /\ nudged \in SUBSET Runs /\ irregular \in SUBSET Runs
    /\ lost \in SUBSET (Runs \X Steps)
    /\ drivers \in [Runs -> Threads \cup {"none"}]
    /\ thread \in [Threads -> ThreadRows]
    /\ job \in [Threads -> [Steps -> JobStates]]
    /\ events \in 0..MaxEvents

Executing(r, k) == {t \in Threads : thread[t].run = r /\ job[t][k] = "running"}
Claimed(r, k) == row[r][k] = "running" /\ <<r, k>> \notin lost

\* However many threads drive a run, however they crash and the process restarts, a step of
\* a live run is claimed exactly when one worker executes it: no step is executed twice at once,
\* and no claim is without a worker but one that its own attempt, or a failed resume, did not give
\* back.
ClaimHasWorker ==
    \A r \in Runs, k \in Steps : status[r] = "live" =>
        /\ Cardinality(Executing(r, k)) = (IF Claimed(r, k) THEN 1 ELSE 0)
        /\ <<r, k>> \in lost => row[r][k] = "running"

Attended(r) ==
    \/ r \in signal \cup swept
    \/ \E t \in Threads : thread[t].run = r /\ thread[t].pc \in {"registered", "polling", "draining"}

\* "A signal that lands while the driver is deciding to park is not lost": when the driver of
\* a run parks it, there is nothing to do for the run, or a signal, the sweep or another
\* driver is on its way.  (Two drivers of one run can lose it: one takes the other's nudge;
\* and nobody watches the steps that a crashed driver left in the pool.)
ParkLosesNothing ==
    [][\A r \in Runs \ irregular : LET t == drivers[r] IN
          (t # "none" /\ thread[t].outcome = "parked" /\ thread'[t].pc = "free" /\ HasWork(r)) => Attended(r)']_vars

\* Whatever happens to its drivers, a run that can go on does, until it ends or waits for a
\* person.  (A lost claim holds it up until a restart releases it.)
Held(r) == \E k \in Steps : <<r, k>> \in lost
WorkIsDone == \A r \in Runs : HasWork(r) ~> (~HasWork(r) \/ Held(r))

\* "A run that waits for a person parks": its driver does not hold its thread, however long
\* the wait.
ParkedHoldsNoThread ==
    \A r \in Runs : (Waiting(r) /\ r \notin irregular) ~> (~Waiting(r) \/ r \in irregular \/ Drivers(r) = {})

\* What the registry names is a thread of that run.
Registry == \A r \in Runs : drivers[r] # "none" => thread[drivers[r]].run = r /\ thread[drivers[r]].pc # "free"

\* A thread without a run, or one that has not begun or is about to leave, has nothing in
\* the pool.
Unburdened ==
    \A t \in Threads :
        /\ thread[t].run = "none" => thread[t] = Idle
        /\ thread[t].run = "none" \/ thread[t].pc \in {"registered", "leaving"} => job[t] = NoJobs
        /\ thread[t].outcome = "parked" => thread[t].pc = "leaving"
        /\ thread[t].pc = "draining" => thread[t].outcome \in {"completed", "cancelled"}

\* A run that is not irregular has one driver, and only that driver has steps in the pool.
DrivenAlone ==
    \A r \in Runs \ irregular :
        /\ \A t, u \in Drivers(r) : t = u
        /\ \A t \in Threads : thread[t].run = r /\ ~Started(t) => Inflight(t) = {}

\* Between the poll that parks a run and the look at the nudges, whatever gives the run work
\* leaves a nudge, a signal to be sent or a new thread.
WakeUpKept ==
    \A r \in Runs \ irregular : LET t == drivers[r] IN
        t # "none" /\ thread[t].outcome = "parked" /\ HasWork(r) => r \in nudged \/ Attended(r)

\* No claim is orphaned or doubled, and no wake-up lost.
RuntimeInv == TypeOK /\ ClaimHasWorker /\ Registry /\ Unburdened /\ DrivenAlone /\ WakeUpKept

\* Parking loses no signal and keeps no thread.
Parking == ParkLosesNothing /\ ParkedHoldsNoThread

=============================================================================
