-------------------------- MODULE Materialization --------------------------
(* One destination table of the managed writer (services/pipelines.py,      *)
(* pipelines/writer.py): a dry run's candidate is approved, claimed, staged *)
(* as a version table, validated there and promoted by re-pointing a view.  *)
(* Every transaction of a request is an action: the control-plane database  *)
(* and the analytics database commit separately, and a request may die      *)
(* between any two of them.                                                 *)
(*                                                                          *)
(* A candidate stands for its dry run, for the materialization row (one per *)
(* dry run, by its idempotency key) and for its version table. The payload  *)
(* an approval binds is reduced to what may change: the rollback pointer.   *)
EXTENDS Integers, FiniteSets

CONSTANTS
    Candidates,     \* dry runs of pipelines that write this table
    Invalid,        \* candidates whose keys fail the checks in the database
    Attempts,       \* materialize requests that may be open at a time
    Rollbacks,      \* rollback requests that may be open at a time
    None,
    KeepVersions,   \* writer_keep_versions
    MaxEvents       \* bound: requests that die and statements that fail

ASSUME ConstantsAssumption ==
    /\ Invalid \subseteq Candidates
    /\ None \notin Candidates
    /\ IsFiniteSet(Candidates)
    /\ KeepVersions \in Nat \ {0, 1}
    /\ MaxEvents \in Nat

VARIABLES
    approval,   \* the approval of a candidate and the pointer it binds
    mat,        \* the materialization row
    tables,     \* candidates whose version table exists
    view,       \* the candidate whose version table the view reads
    attempt,    \* open materialize requests
    rollback,   \* open rollback requests
    events

vars == <<approval, mat, tables, view, attempt, rollback, events>>

Pointer == Candidates \cup {None}
ApprovalStatus == {"none", "pending", "approved", "executed", "invalidated"}
MatStatus == {"none", "approved", "staged", "promoted", "superseded", "rolled_back", "failed"}
AttemptAt == {"idle", "stage", "checkpoint", "mark", "validate", "drop", "unstage",
              "promote", "record", "fail", "retire", "flag"}
RollbackAt == {"idle", "promote", "record"}

NoRow == [status |-> "none", version |-> 0, previous |-> None, staged |-> FALSE, dropped |-> FALSE]
NoAttempt == [at |-> "idle", of |-> None, old |-> {}]
NoRollback == [at |-> "idle", current |-> None, previous |-> None]

Init ==
    /\ approval = [c \in Candidates |-> [status |-> "none", previous |-> None]]
    /\ mat = [c \in Candidates |-> NoRow]
    /\ tables = {}
    /\ view = None
    /\ attempt = [a \in Attempts |-> NoAttempt]
    /\ rollback = [r \in Rollbacks |-> NoRollback]
    /\ events = 0

----------------------------------------------------------------------------
(* The rows a transaction reads. *)

Promoted == {c \in Candidates : mat[c].status = "promoted"}

\* What the query for the promoted row may return: one of them when there are several.
Current == IF Promoted = {} THEN {None} ELSE Promoted

\* One more than the highest: rows are never deleted, so one more than there are.
NextVersion == 1 + Cardinality({c \in Candidates : mat[c].version > 0})

\* The versions beyond the kept ones, newest first, that recording c finds.
Old(row, c) ==
    LET past == {d \in Candidates \ {c, row[c].previous} :
                    row[d].status \in {"superseded", "rolled_back", "failed"}}
        newer(d) == {e \in past : row[e].version > row[d].version}
    IN {d \in past : Cardinality(newer(d)) >= KeepVersions - 2}

SetStatus(c, status) == mat' = [mat EXCEPT ![c].status = status]

Go(a, at) == attempt' = [attempt EXCEPT ![a].at = at]
Done(a) == attempt' = [attempt EXCEPT ![a] = NoAttempt]

----------------------------------------------------------------------------
(* Before the request: the dry run and the person who approves. *)

DryRun(c) ==
    /\ approval[c].status = "none"
    /\ \E p \in Current : approval' = [approval EXCEPT ![c] = [status |-> "pending", previous |-> p]]
    /\ UNCHANGED <<mat, tables, view, attempt, rollback, events>>

Approve(c) ==
    /\ approval[c].status = "pending"
    /\ approval' = [approval EXCEPT ![c].status = "approved"]
    /\ UNCHANGED <<mat, tables, view, attempt, rollback, events>>

----------------------------------------------------------------------------
(* The claim: verification and the use of the approval, in one transaction. *)

PointerHolds(c, p) == p = approval[c].previous

ClaimNew(a, c) ==
    /\ attempt[a].at = "idle"
    /\ mat[c].status = "none" /\ approval[c].status = "approved"
    /\ \E p \in Current :
        IF PointerHolds(c, p)
        THEN /\ approval' = [approval EXCEPT ![c].status = "executed"]
             /\ mat' = [mat EXCEPT ![c] = [NoRow EXCEPT !.status = "approved", !.version = NextVersion,
                                                         !.previous = p]]
             /\ attempt' = [attempt EXCEPT ![a] = [at |-> "stage", of |-> c, old |-> {}]]
        ELSE /\ approval' = [approval EXCEPT ![c].status = "invalidated"]
             /\ UNCHANGED <<mat, attempt>>
    /\ UNCHANGED <<tables, view, rollback, events>>

\* A retry resumes from the checkpoint under the approval it consumed.
ClaimRetry(a, c) ==
    /\ attempt[a].at = "idle"
    /\ mat[c].status \in {"approved", "staged", "failed"}
    /\ \E p \in Current : PointerHolds(c, p) /\ p = mat[c].previous
    /\ attempt' = [attempt EXCEPT ![a] =
                      [at |-> IF mat[c].staged THEN "validate" ELSE "stage", of |-> c, old |-> {}]]
    /\ UNCHANGED <<approval, mat, tables, view, rollback, events>>

----------------------------------------------------------------------------
(* The write. The analytics database refuses to drop a table a view reads.  *)

Stage(a) ==
    /\ attempt[a].at = "stage"
    /\ LET c == attempt[a].of IN
        IF view = c
        THEN Go(a, "fail") /\ UNCHANGED tables
        ELSE Go(a, "checkpoint") /\ tables' = tables \cup {c}
    /\ UNCHANGED <<approval, mat, view, rollback, events>>

Checkpoint(a) ==
    /\ attempt[a].at = "checkpoint"
    /\ mat' = [mat EXCEPT ![attempt[a].of].staged = TRUE]
    /\ Go(a, "mark")
    /\ UNCHANGED <<approval, tables, view, rollback, events>>

MarkStaged(a) ==
    /\ attempt[a].at = "mark"
    /\ SetStatus(attempt[a].of, "staged")
    /\ Go(a, "validate")
    /\ UNCHANGED <<approval, tables, view, rollback, events>>

Passes(c) == c \notin Invalid

Validate(a) ==
    /\ attempt[a].at = "validate"
    /\ LET c == attempt[a].of IN
        Go(a, IF c \notin tables THEN "fail" ELSE IF Passes(c) THEN "promote" ELSE "drop")
    /\ UNCHANGED <<approval, mat, tables, view, rollback, events>>

\* Mutant of Droppable: retention drops the version whatever reads it.
DroppableAny(cs) == cs

\* drop_versions: a version the view reads is skipped.
Droppable(cs) == cs \ {view}

DropInvalid(a) ==
    /\ attempt[a].at = "drop"
    /\ tables' = tables \ Droppable({attempt[a].of})
    /\ Go(a, "unstage")
    /\ UNCHANGED <<approval, mat, view, rollback, events>>

Unstage(a) ==
    /\ attempt[a].at = "unstage"
    /\ mat' = [mat EXCEPT ![attempt[a].of].staged = FALSE]
    /\ Go(a, "fail")
    /\ UNCHANGED <<approval, tables, view, rollback, events>>

Promotable(c) == c \in tables

Promote(a) ==
    /\ attempt[a].at = "promote"
    /\ LET c == attempt[a].of IN
        IF Promotable(c)
        THEN view' = c /\ Go(a, "record")
        ELSE Go(a, "fail") /\ UNCHANGED view
    /\ UNCHANGED <<approval, mat, tables, rollback, events>>

Record(a) ==
    /\ attempt[a].at = "record"
    /\ LET c == attempt[a].of
           p == mat[c].previous
           row == [d \in Candidates |->
                      IF d = c THEN [mat[d] EXCEPT !.status = "promoted"]
                      ELSE IF d = p /\ mat[d].status = "promoted"
                           THEN [mat[d] EXCEPT !.status = "superseded"]
                           ELSE mat[d]]
       IN /\ mat' = row
          /\ attempt' = [attempt EXCEPT ![a] =
                IF Old(row, c) = {} THEN NoAttempt
                ELSE [at |-> "retire", of |-> c, old |-> Old(row, c)]]
    /\ UNCHANGED <<approval, tables, view, rollback, events>>

Retire(a) ==
    /\ attempt[a].at = "retire"
    /\ LET gone == Droppable(attempt[a].old) IN
        /\ tables' = tables \ gone
        /\ attempt' = [attempt EXCEPT ![a].at = "flag", ![a].old = gone]
    /\ UNCHANGED <<approval, mat, view, rollback, events>>

Flag(a) ==
    /\ attempt[a].at = "flag"
    /\ mat' = [c \in Candidates |->
                  IF c \in attempt[a].old THEN [mat[c] EXCEPT !.dropped = TRUE] ELSE mat[c]]
    /\ Done(a)
    /\ UNCHANGED <<approval, tables, view, rollback, events>>

\* The error path of the write, whatever became of the row meanwhile.
Fail(a) ==
    /\ attempt[a].at = "fail"
    /\ SetStatus(attempt[a].of, "failed")
    /\ Done(a)
    /\ UNCHANGED <<approval, tables, view, rollback, events>>

----------------------------------------------------------------------------
(* Rollback: read, re-point, record. *)

ReadRollback(r, c) ==
    /\ rollback[r].at = "idle"
    /\ mat[c].status = "promoted"
    /\ mat[c].previous # None
    /\ ~mat[mat[c].previous].dropped
    /\ rollback' = [rollback EXCEPT ![r] = [at |-> "promote", current |-> c, previous |-> mat[c].previous]]
    /\ UNCHANGED <<approval, mat, tables, view, attempt, events>>

PromotePrevious(r) ==
    /\ rollback[r].at = "promote"
    /\ LET p == rollback[r].previous IN
        IF Promotable(p)
        THEN view' = p /\ rollback' = [rollback EXCEPT ![r].at = "record"]
        ELSE rollback' = [rollback EXCEPT ![r] = NoRollback] /\ UNCHANGED view
    /\ UNCHANGED <<approval, mat, tables, attempt, events>>

RecordRollback(r) ==
    /\ rollback[r].at = "record"
    /\ mat' = [mat EXCEPT ![rollback[r].current].status = "rolled_back",
                          ![rollback[r].previous].status = "promoted"]
    /\ rollback' = [rollback EXCEPT ![r] = NoRollback]
    /\ UNCHANGED <<approval, tables, view, attempt, events>>

----------------------------------------------------------------------------
(* A statement of the write fails, a process dies. *)

\* Where an exception leads to _fail; at "record" it is the promotion, committed, whose answer
\* was lost.
InTry == {"stage", "checkpoint", "mark", "validate", "drop", "unstage", "promote", "record"}

StatementFails(a) ==
    /\ events < MaxEvents
    /\ attempt[a].at \in InTry
    /\ Go(a, "fail")
    /\ events' = events + 1
    /\ UNCHANGED <<approval, mat, tables, view, rollback>>

AttemptDies(a) ==
    /\ events < MaxEvents
    /\ attempt[a].at # "idle"
    /\ Done(a)
    /\ events' = events + 1
    /\ UNCHANGED <<approval, mat, tables, view, rollback>>

RollbackDies(r) ==
    /\ events < MaxEvents
    /\ rollback[r].at # "idle"
    /\ rollback' = [rollback EXCEPT ![r] = NoRollback]
    /\ events' = events + 1
    /\ UNCHANGED <<approval, mat, tables, view, attempt>>

AttemptSteps(a) ==
    \/ \E c \in Candidates : ClaimNew(a, c) \/ ClaimRetry(a, c)
    \/ Stage(a) \/ Checkpoint(a) \/ MarkStaged(a)
    \/ Validate(a) \/ DropInvalid(a) \/ Unstage(a)
    \/ Promote(a) \/ Record(a) \/ Retire(a) \/ Flag(a)
    \/ Fail(a) \/ StatementFails(a) \/ AttemptDies(a)

RollbackSteps(r) ==
    \/ \E c \in Candidates : ReadRollback(r, c)
    \/ PromotePrevious(r) \/ RecordRollback(r) \/ RollbackDies(r)

Next ==
    \/ \E c \in Candidates : DryRun(c) \/ Approve(c)
    \/ \E a \in Attempts : AttemptSteps(a)
    \/ \E r \in Rollbacks : RollbackSteps(r)

Spec == Init /\ [][Next]_vars

----------------------------------------------------------------------------
TypeOK ==
    /\ approval \in [Candidates -> [status : ApprovalStatus, previous : Pointer]]
    /\ mat \in [Candidates -> [status : MatStatus, version : Nat, previous : Pointer,
                               staged : BOOLEAN, dropped : BOOLEAN]]
    /\ tables \subseteq Candidates
    /\ view \in Pointer
    /\ attempt \in [Attempts -> [at : AttemptAt, of : Pointer, old : SUBSET Candidates]]
    /\ rollback \in [Rollbacks -> [at : RollbackAt, current : Pointer, previous : Pointer]]
    /\ events \in 0..MaxEvents

\* Whatever requests race, fail or die, readers see a whole version: the view reads a table
\* that exists, whose candidate passed the checks in the database and was approved.
ViewIsGood ==
    view # None =>
        /\ view \in tables
        /\ Passes(view)
        /\ approval[view].status = "executed"
=============================================================================
