----------------------------- MODULE RunRequests -----------------------------
(***************************************************************************)
(* Asking for a run, exactly once, over processes that die: the            *)
(* Idempotency-Key of the request (services/idempotency.py), the run and   *)
(* its outbox row written in one transaction (services/runs.py), the       *)
(* delivery of that row to Temporal and its relay (services/dispatch.py).  *)
(*                                                                         *)
(* A process is an API request or a scheduler.  The row lock of an outbox  *)
(* row is held from dispatch's read of the row until its commit; the       *)
(* unique index on the key makes a second insert wait for the first        *)
(* transaction to end.  Keys past their retention are left out.            *)
(***************************************************************************)
EXTENDS Naturals

CONSTANTS
    Keys,           \* idempotency keys, each with one body
    Runs,           \* run ids that can be drawn
    Legacy,         \* runs from before the outbox: no row, no workflow
    Callers,        \* API requests alive at once
    Schedulers,     \* scheduler processes
    None,           \* no run, no key
    MaxEvents       \* bound: processes that die and starts that fail

ASSUME RequestAssumption ==
    /\ None \notin Keys \cup Runs /\ Legacy \subseteq Runs
    /\ Callers \cap Schedulers = {} /\ MaxEvents \in Nat

VARIABLES
    record,         \* the completed idempotency record of a key: its run
    madeFor,        \* the key a run was created under
    status,         \* run status
    cancelled,      \* runs whose control says cancel
    outbox,         \* the run's outbox row
    due,            \* rows whose available_at has passed
    workflow,       \* the Temporal workflow of the run's stable id
    proc,           \* where each process is: for which key, with which run
    events,         \* how many of MaxEvents have happened
    stranded        \* history: runs whose delivery died between the cancelled row and finish_run

vars == <<record, madeFor, status, cancelled, outbox, due, workflow, proc, events, stranded>>

Procs == Callers \cup Schedulers
Status == {"absent", "NEW", "RUNNING", "COMPLETED", "CANCELLED"}
Terminal == {"COMPLETED", "CANCELLED"}
Idle == [pc |-> "idle", key |-> None, run |-> None]
At(p, pc, i) == proc' = [proc EXCEPT ![p] = [pc |-> pc, key |-> None, run |-> i]]
Ends(p) == proc' = [proc EXCEPT ![p] = Idle]

Init ==
    /\ record = [k \in Keys |-> None]
    /\ madeFor = [i \in Runs |-> None]
    /\ status = [i \in Runs |-> IF i \in Legacy THEN "NEW" ELSE "absent"]
    /\ cancelled = {}
    /\ outbox = [i \in Runs |-> "none"]
    /\ due = {}
    /\ workflow = [i \in Runs |-> "none"]
    /\ proc = [p \in Procs |-> Idle]
    /\ events = 0 /\ stranded = {}

Event == events < MaxEvents /\ events' = events + 1

-----------------------------------------------------------------------------
(* start_run_request *)

\* Mutant of MayClaim: the record is looked for and then inserted, as on SQLite.
MayClaimUnlocked(k) == record[k] = None

\* The insert of the claim waits for any transaction that inserted the same key, and
\* succeeds if that one was rolled back.
MayClaim(k) == record[k] = None /\ \A q \in Procs : proc[q].key # k

ClaimKey(p, k) ==
    /\ proc[p] = Idle /\ MayClaim(k)
    /\ proc' = [proc EXCEPT ![p] = [pc |-> "claimed", key |-> k, run |-> None]]
    /\ UNCHANGED <<record, madeFor, status, cancelled, outbox, due, workflow, events, stranded>>

\* The request is refused (role, objective, scope, policy): the claim is rolled back.
Refuse(p) ==
    /\ proc[p].pc = "claimed"
    /\ Ends(p)
    /\ UNCHANGED <<record, madeFor, status, cancelled, outbox, due, workflow, events, stranded>>

\* One commit: the run, its outbox row and the completed record of the key.
CreateRun(p, i) ==
    /\ proc[p].pc = "claimed" /\ status[i] = "absent"
    /\ status' = [status EXCEPT ![i] = "NEW"]
    /\ madeFor' = [madeFor EXCEPT ![i] = proc[p].key]
    /\ record' = [record EXCEPT ![proc[p].key] = i]
    /\ outbox' = [outbox EXCEPT ![i] = "pending"]
    /\ due' = due \cup {i}
    /\ At(p, "delivering", i)
    /\ UNCHANGED <<cancelled, workflow, events, stranded>>

-----------------------------------------------------------------------------
(* dispatch *)

\* Mutant of RowIsFree: dispatch reads the row without its lock.
RowIsFreeAlways(i) == TRUE

RowIsFree(i) == \A q \in Procs : proc[q].run = i => proc[q].pc \notin {"locked", "started"}

Start(i) == workflow' = [workflow EXCEPT ![i] = "open"]

\* Nothing to deliver any more: "skipped".
Skip(p) ==
    LET i == proc[p].run IN
    /\ proc[p].pc = "delivering" /\ RowIsFree(i) /\ outbox[i] # "pending"
    /\ Ends(p)
    /\ UNCHANGED <<record, madeFor, status, cancelled, outbox, due, workflow, events, stranded>>

\* The run was cancelled, or is over: it is not started, and the row says so.
CancelRow(p) ==
    LET i == proc[p].run IN
    /\ proc[p].pc = "delivering" /\ RowIsFree(i) /\ outbox[i] = "pending"
    /\ status[i] \in Terminal \/ i \in cancelled
    /\ outbox' = [outbox EXCEPT ![i] = "cancelled"]
    /\ IF status[i] \in Terminal THEN Ends(p) ELSE At(p, "cancelling", i)
    /\ UNCHANGED <<record, madeFor, status, cancelled, due, workflow, events, stranded>>

\* After that commit, finish_run(CANCELLED).
FinishCancelled(p) ==
    LET i == proc[p].run IN
    /\ proc[p].pc = "cancelling"
    /\ status' = [status EXCEPT ![i] = IF @ \in Terminal THEN @ ELSE "CANCELLED"]
    /\ Ends(p)
    /\ UNCHANGED <<record, madeFor, cancelled, outbox, due, workflow, events, stranded>>

LockRow(p) ==
    LET i == proc[p].run IN
    /\ proc[p].pc = "delivering" /\ RowIsFree(i) /\ outbox[i] = "pending"
    /\ status[i] \notin Terminal /\ i \notin cancelled
    /\ At(p, "locked", i)
    /\ UNCHANGED <<record, madeFor, status, cancelled, outbox, due, workflow, events, stranded>>

\* Mutant of StartRun: the row is marked before the workflow is started.
StartRunMarked(p) ==
    LET i == proc[p].run IN
    /\ proc[p].pc = "locked"
    /\ outbox' = [outbox EXCEPT ![i] = "dispatched"]
    /\ At(p, "started", i)
    /\ UNCHANGED <<record, madeFor, status, cancelled, due, workflow, events, stranded>>

\* start_run: the workflow of this id is started, or nudged if it is open.
StartRun(p) ==
    LET i == proc[p].run IN
    /\ proc[p].pc = "locked"
    /\ Start(i) /\ At(p, "started", i)
    /\ UNCHANGED <<record, madeFor, status, cancelled, outbox, due, events, stranded>>

\* Mutant of Backoff: the row of a start that failed is given up.
BackoffNever(i) == outbox' = [outbox EXCEPT ![i] = "cancelled"] /\ UNCHANGED due

\* The row stays pending, for later.
Backoff(i) == due' = due \ {i} /\ UNCHANGED outbox

\* start_run raises, although (a timeout) Temporal may have started the workflow.
StartFails(p, delivered) ==
    LET i == proc[p].run IN
    /\ Event /\ proc[p].pc = "locked"
    /\ IF delivered THEN Start(i) ELSE UNCHANGED workflow
    /\ Backoff(i)
    /\ Ends(p)
    /\ UNCHANGED <<record, madeFor, status, cancelled, stranded>>

MarkDispatched(p) ==
    /\ proc[p].pc = "started"
    /\ outbox' = [outbox EXCEPT ![proc[p].run] = "dispatched"]
    /\ Ends(p)
    /\ UNCHANGED <<record, madeFor, status, cancelled, due, workflow, events, stranded>>

\* The process dies, wherever it is: its open transaction is rolled back.
Die(p) ==
    /\ Event /\ proc[p] # Idle
    /\ stranded' = IF proc[p].pc = "cancelling" THEN stranded \cup {proc[p].run} ELSE stranded
    /\ Ends(p)
    /\ UNCHANGED <<record, madeFor, status, cancelled, outbox, due, workflow>>

-----------------------------------------------------------------------------
(* relay and reconcile: the scheduler's housekeeping *)

Available(i) ==
    /\ i \notin due /\ outbox[i] = "pending"
    /\ due' = due \cup {i}
    /\ UNCHANGED <<record, madeFor, status, cancelled, outbox, workflow, proc, events, stranded>>

\* FOR UPDATE SKIP LOCKED: rows that nobody is delivering.
Relay(p, i) ==
    /\ proc[p] = Idle /\ outbox[i] = "pending" /\ i \in due /\ RowIsFree(i)
    /\ At(p, "delivering", i)
    /\ UNCHANGED <<record, madeFor, status, cancelled, outbox, due, workflow, events, stranded>>

\* A NEW run without a row and without a workflow gets a row.
Reconcile(i) ==
    /\ status[i] = "NEW" /\ outbox[i] = "none"
    /\ outbox' = [outbox EXCEPT ![i] = "pending"]
    /\ due' = due \cup {i}
    /\ UNCHANGED <<record, madeFor, status, cancelled, workflow, proc, events, stranded>>

-----------------------------------------------------------------------------
(* Around it *)

Cancel(i) ==
    /\ status[i] \in {"NEW", "RUNNING"} /\ i \notin cancelled
    /\ cancelled' = cancelled \cup {i}
    /\ UNCHANGED <<record, madeFor, status, outbox, due, workflow, proc, events, stranded>>

\* What the workflow does to the run: it takes it up, ends it, and returns.
Work(i) ==
    /\ workflow[i] = "open"
    /\ status' = [status EXCEPT ![i] = IF @ \in Terminal THEN @
                                       ELSE IF i \in cancelled THEN "CANCELLED"
                                       ELSE IF @ = "NEW" THEN "RUNNING" ELSE "COMPLETED"]
    /\ workflow' = IF status'[i] \in Terminal THEN [workflow EXCEPT ![i] = "closed"] ELSE workflow
    /\ UNCHANGED <<record, madeFor, cancelled, outbox, due, proc, events, stranded>>

Dispatch(p) ==
    \/ Skip(p) \/ CancelRow(p) \/ FinishCancelled(p) \/ LockRow(p) \/ StartRun(p) \/ MarkDispatched(p)

Next ==
    \/ \E p \in Callers, k \in Keys : ClaimKey(p, k)
    \/ \E p \in Callers, i \in Runs : CreateRun(p, i)
    \/ \E p \in Callers : Refuse(p)
    \/ \E p \in Procs : Dispatch(p) \/ Die(p)
    \/ \E p \in Procs, delivered \in BOOLEAN : StartFails(p, delivered)
    \/ \E p \in Schedulers, i \in Runs : Relay(p, i)
    \/ \E i \in Runs : Available(i) \/ Reconcile(i) \/ Cancel(i) \/ Work(i)

Spec == Init /\ [][Next]_vars

\* A process that lives goes on with its delivery, time passes, a scheduler comes back to
\* every row, and Temporal runs what it has started.  Nobody has to ask for a run.
Fairness ==
    /\ \A p \in Procs : WF_vars(Dispatch(p))
    /\ \A i \in Runs : /\ WF_vars(Available(i)) /\ WF_vars(Reconcile(i)) /\ WF_vars(Work(i))
                       /\ SF_vars(\E p \in Schedulers : Relay(p, i))

FairSpec == Spec /\ Fairness

-----------------------------------------------------------------------------
(* Properties *)

Phases == {"idle", "claimed", "delivering", "locked", "started", "cancelling"}

TypeOK ==
    /\ record \in [Keys -> Runs \cup {None}]
    /\ madeFor \in [Runs -> Keys \cup {None}]
    /\ status \in [Runs -> Status]
    /\ cancelled \in SUBSET Runs /\ due \in SUBSET Runs
    /\ outbox \in [Runs -> {"none", "pending", "dispatched", "cancelled"}]
    /\ workflow \in [Runs -> {"none", "open", "closed"}]
    /\ proc \in [Procs -> [pc : Phases, key : Keys \cup {None}, run : Runs \cup {None}]]
    /\ events \in 0..MaxEvents /\ stranded \in SUBSET Runs

\* "The same key and body after completion -> replay": however often a request is repeated,
\* by however many callers at once, and wherever they die, one run is created under a key,
\* and it is the run a repetition is answered with.
OneRunPerKey == \A i \in Runs, k \in Keys : madeFor[i] = k => record[k] = i

\* A row is marked dispatched only for a run whose workflow was started: no order of deaths,
\* failures and deliveries leaves a run that nobody will start.
DispatchedMeansStarted == \A i \in Runs : outbox[i] = "dispatched" => workflow[i] # "none"

\* "Cancelled before dispatch: the relay never starts it": once a row is cancelled no
\* delivery, not even one that read the run before it was cancelled, opens a workflow.
CancelledNeverStarts ==
    [][\A i \in Runs : outbox[i] = "cancelled" /\ workflow[i] # "open" => workflow'[i] # "open"]_vars

\* "The row is the durable intent": a run that was created is taken up, and one cancelled
\* before that is CANCELLED, unless its process died between the cancelled row and
\* finish_run: nothing comes back to such a run.
EveryRunIsTakenUp == \A i \in Runs : status[i] = "NEW" ~> status[i] # "NEW" \/ i \in stranded

\* The inductive invariant.  A claim is held by one request, of a key nobody has completed; ...
ClaimsHeld ==
    /\ \A p \in Procs : /\ proc[p].pc = "claimed" => proc[p].key \in Keys
                        /\ proc[p].key # None => proc[p].pc = "claimed" /\ record[proc[p].key] = None
    /\ \A p, q \in Procs : proc[p].key # None /\ proc[p].key = proc[q].key => p = q

\* ... a delivery that holds the lock holds it alone, of a row that is still pending.
Holding == {"locked", "started"}
RowsHeld ==
    /\ \A p \in Procs : /\ proc[p].pc \in Holding \cup {"delivering", "cancelling"} => proc[p].run \in Runs
                        /\ proc[p].pc \in Holding => outbox[proc[p].run] = "pending"
                        /\ proc[p].pc = "started" => workflow[proc[p].run] # "none"
    /\ \A p, q \in Procs :
          proc[p].pc \in Holding /\ proc[q].pc \in Holding /\ proc[p].run = proc[q].run => p = q

RequestInv == TypeOK /\ OneRunPerKey /\ DispatchedMeansStarted /\ ClaimsHeld /\ RowsHeld

=============================================================================
