------------------------------ MODULE Schedules -----------------------------
(***************************************************************************)
(* One re-analysis schedule (services/schedules.py) and its pins           *)
(* (services/pins.py): schedulers claim its due fire times and execute     *)
(* them, people fire it by hand, edit it and accept upgrades of what it    *)
(* pins, and the runs its firings create complete them.                    *)
(*                                                                         *)
(* Time is the index of the cron expression's fire times.  Firings are     *)
(* numbered in the order they are claimed (started_at).  The analysis run  *)
(* itself is RunEngine: here it runs, ends, and runs again when feedback   *)
(* reopens it.                                                             *)
(***************************************************************************)
EXTENDS Integers

CONSTANTS
    MaxFires,       \* bound: firings
    MaxTime,        \* bound: the last fire time
    Editors,        \* clients that edit the schedule without If-Match
    Named,          \* bound: what a patched config may name as its baseline run
    MaxRev,         \* bound: pin revisions
    MaxEnds,        \* bound: how often one run ends
    MaxEvents,      \* bound: edits, and deaths, failures, retired pins, feedback on completed runs
    Weight          \* of which each of the latter takes so many

ASSUME SchedulesAssumption ==
    {MaxFires, MaxTime, MaxRev, MaxEnds, MaxEvents, Weight} \subseteq Nat /\ MaxRev # 0 /\ MaxEnds # 0

VARIABLES
    now,            \* the last fire time that has passed
    schedule,       \* the row: enabled, next_run_at (0: none), the pins' revision and baseline,
                    \* config.baseline_run_id;
                    \* `torn` is history: overlapping edits have left it disabled with a fire time
    retired,        \* something that is pinned was retired or rejected
    editor,         \* what each editor is about to write
    fire,           \* the schedule_run rows
    proc,           \* the process that executes each firing
    run,            \* the analysis run of each firing: `ends` counts its ends, `done` is history,
                    \* it has been COMPLETED
    completion,     \* how far complete_from_run is, for each end of each run
    events          \* how many of MaxEvents have happened

vars == <<now, schedule, retired, editor, fire, proc, run, completion, events>>

Fires == 1..MaxFires
Ends == 1..MaxEnds
Calls == Fires \X Ends          \* the calls of complete_from_run: the n-th end of a firing's run
None == 0
Other == -1             \* a run that no firing of this schedule created
Runs == Fires \cup {None, Other}
ASSUME NamedAssumption == Named \subseteq Runs

Unpinned == 0           \* the revision of no pins
NoRev == -1             \* no pin_revision in a firing's result
Same == -2              \* an attribute an edit leaves as it read it

NoFire == [status |-> "none", for |-> None, rev |-> NoRev]
NoProc == [pc |-> "none", rev |-> Unpinned, previous |-> None, moved |-> FALSE]
NoRun == [status |-> "none", rev |-> Unpinned, ends |-> 0, done |-> FALSE]
NoCompletion == [pc |-> "none", outcome |-> "none", seen |-> NoRev]
NoEdit == [pc |-> "idle", enabled |-> "same", next |-> Same, config |-> Same]

NextFire(t) == t + 1

\* create_schedule, _pin_baseline: config may name a run of the workspace; a COMPLETED one
\* is the baseline of revision 1 at once.  It may have been disabled since.
Init ==
    /\ now = 0 /\ retired = FALSE /\ events = 0
    /\ \E on, pinned \in BOOLEAN, config \in {None, Other} :
         /\ pinned => config = Other
         /\ schedule = [enabled |-> on, next |-> IF on THEN NextFire(now) ELSE None, rev |-> IF pinned THEN 1 ELSE Unpinned,
                        baseline |-> IF pinned THEN Other ELSE None, config |-> config, torn |-> FALSE]
    /\ editor = [e \in Editors |-> NoEdit]
    /\ fire = [f \in Fires |-> NoFire] /\ proc = [f \in Fires |-> NoProc]
    /\ run = [f \in Fires |-> NoRun]
    /\ completion = [c \in Calls |-> NoCompletion]

Count(n) == events' = events + n /\ events' <= MaxEvents
At(f, pc) == proc[f].pc = pc
Go(f, pc) == proc' = [proc EXCEPT ![f].pc = pc]
End(f, pc) == proc' = [proc EXCEPT ![f] = [NoProc EXCEPT !.pc = pc]]
Completing(c, pc) == completion' = [completion EXCEPT ![c] = [NoCompletion EXCEPT !.pc = pc]]

-----------------------------------------------------------------------------
(* Claiming and editing *)

New(f) == fire[f].status = "none" /\ \A g \in 1..(f - 1) : fire[g].status # "none"

\* Mutant of Inserted: the key is not unique.
InsertedAlways(t) == TRUE

\* fire_key, ON CONFLICT DO NOTHING
Inserted(t) == \A f \in Fires : fire[f].for # t

\* claim_due: one transaction, FOR UPDATE SKIP LOCKED.  Fire times missed since are skipped.
ClaimDue ==
    /\ schedule.enabled /\ schedule.next \in 1..now
    /\ schedule' = [schedule EXCEPT !.next = NextFire(now)]
    /\ IF Inserted(schedule.next)
       THEN \E f \in Fires : /\ New(f) /\ Go(f, "claimed")
                             /\ fire' = [fire EXCEPT ![f] = [NoFire EXCEPT !.status = "started", !.for = schedule.next]]
       ELSE UNCHANGED <<fire, proc>>
    /\ UNCHANGED <<now, retired, editor, run, completion, events>>

RunNow(f) ==
    /\ New(f) /\ Go(f, "claimed")
    /\ fire' = [fire EXCEPT ![f].status = "started"]
    /\ UNCHANGED <<now, schedule, retired, editor, run, completion, events>>

EditedNext(enabled) == IF enabled THEN NextFire(now) ELSE None

\* update_schedule reads the row without a lock: only what differs from what it read is
\* written.  Which run a patched config names is not looked at.
StartEdit(e, patch, config) ==
    LET enabled == CASE patch = "enable" -> TRUE [] patch = "disable" -> FALSE
                     [] OTHER -> schedule.enabled
        next == EditedNext(enabled)
    IN  /\ editor[e] = NoEdit /\ Count(1)
        /\ config \in Fires => run[config].status # "none"
        /\ editor' = [editor EXCEPT ![e] =
               [pc |-> "read",
                enabled |-> IF enabled = schedule.enabled THEN "same" ELSE patch,
                next |-> IF next = schedule.next THEN Same ELSE next,
                config |-> IF config = schedule.config THEN Same ELSE config]]
        /\ UNCHANGED <<now, schedule, retired, fire, proc, run, completion>>

EndEdit(e) ==
    LET enabled == IF editor[e].enabled = "same" THEN schedule.enabled ELSE editor[e].enabled = "enable"
        next == IF editor[e].next = Same THEN schedule.next ELSE editor[e].next
        config == IF editor[e].config = Same THEN schedule.config ELSE editor[e].config
    IN
    /\ editor[e].pc = "read"
    /\ schedule' = [schedule EXCEPT !.enabled = enabled, !.next = next, !.config = config,
                                    !.torn = @ \/ (~enabled /\ next # None)]
    /\ editor' = [editor EXCEPT ![e] = NoEdit]
    /\ UNCHANGED <<now, retired, fire, proc, run, completion, events>>

-----------------------------------------------------------------------------
(* Pins *)

Retire ==
    /\ schedule.rev # Unpinned /\ ~retired /\ Count(Weight)
    /\ retired' = TRUE
    /\ UNCHANGED <<now, schedule, editor, fire, proc, run, completion>>

\* accept_upgrade, under the row's lock, once something newer is published or a pin is
\* retired: a new revision, runnable, without a baseline.
AcceptUpgrade ==
    /\ schedule.rev # Unpinned /\ schedule.rev < MaxRev
    /\ schedule' = [schedule EXCEPT !.rev = @ + 1, !.baseline = None]
    /\ retired' = FALSE
    /\ UNCHANGED <<now, editor, fire, proc, run, completion, events>>

-----------------------------------------------------------------------------
(* Executing a firing *)

Blocked == schedule.rev # Unpinned /\ retired

\* The owner's permissions and the pins are looked at.
Check(f) ==
    /\ At(f, "claimed")
    /\ IF Blocked THEN Go(f, "blocked") /\ UNCHANGED fire
       ELSE Go(f, "checked") /\ fire' = [fire EXCEPT ![f].status = "running"]
    /\ UNCHANGED <<now, schedule, retired, editor, run, completion, events>>

Finished == {"succeeded", "failed", "skipped"}

Skip(f) ==
    /\ At(f, "blocked") /\ End(f, "done")
    /\ fire' = [fire EXCEPT ![f].status = "skipped"]
    /\ UNCHANGED <<now, schedule, retired, editor, run, completion, events>>

\* No permission, a failed refresh, a run that cannot be created.
FailFiring(f) ==
    /\ proc[f].pc \in {"claimed", "checked", "pinned", "compared"} /\ Count(Weight)
    /\ End(f, "done")
    /\ fire' = [fire EXCEPT ![f].status = "failed"]
    /\ UNCHANGED <<now, schedule, retired, editor, run, completion>>

\* for_run
ReadPins(f) ==
    /\ At(f, "checked")
    /\ proc' = [proc EXCEPT ![f].pc = "pinned", ![f].rev = schedule.rev]
    /\ UNCHANGED <<now, schedule, retired, editor, fire, run, completion, events>>

\* Mutant of Comparable: the pin revision is not compared.
ComparableAny(g) == fire[g].status = "succeeded" /\ run[g].status = "COMPLETED"

Comparable(g) ==
    /\ fire[g].status = "succeeded" /\ run[g].status = "COMPLETED"
    /\ schedule.rev # Unpinned => fire[g].rev = schedule.rev

\* _previous_run: the last of them, else the revision's baseline, else what the config of a
\* schedule without pins names.
Previous ==
    IF \E g \in Fires : Comparable(g)
    THEN CHOOSE g \in Fires : Comparable(g) /\ \A h \in (g + 1)..MaxFires : ~Comparable(h)
    ELSE IF schedule.rev # Unpinned THEN schedule.baseline ELSE schedule.config

\* It reads the schedule again: `moved` is history, the pins are not those of ReadPins.
ReadPrevious(f) ==
    /\ At(f, "pinned")
    /\ proc' = [proc EXCEPT ![f].pc = "compared", ![f].previous = Previous, ![f].moved = schedule.rev # proc[f].rev]
    /\ UNCHANGED <<now, schedule, retired, editor, fire, run, completion, events>>

CreateRun(f) ==
    /\ At(f, "compared") /\ End(f, "created")
    /\ run' = [run EXCEPT ![f] = [NoRun EXCEPT !.status = "RUNNING", !.rev = proc[f].rev]]
    /\ UNCHANGED <<now, schedule, retired, editor, fire, completion, events>>

\* execute, _pending: the result is written, whatever the run has written meanwhile.
WritePending(f) ==
    /\ At(f, "created") /\ End(f, "done")
    /\ fire' = [fire EXCEPT ![f].rev = run[f].rev]
    /\ UNCHANGED <<now, schedule, retired, editor, run, completion, events>>

\* The process dies, or something outside execute's `try` raises (the database fails while the
\* pins are looked at or the result is written): the firing is not executed again.
Die(f) ==
    /\ proc[f].pc \notin {"none", "done", "dead"} /\ Count(Weight)
    /\ End(f, "dead")
    /\ UNCHANGED <<now, schedule, retired, editor, fire, run, completion>>

-----------------------------------------------------------------------------
(* The run and complete_from_run *)

\* Mutant of CallsBack: only a completed run.
CallsBackCompleted(outcome) == outcome = "COMPLETED"

\* finish_run's notify_needed: every outcome of a scheduled run.
CallsBack(outcome) == TRUE

\* finish_run commits the status, then calls complete_from_run.
RunEnds(f, outcome) ==
    /\ run[f].status = "RUNNING"
    /\ run' = [run EXCEPT ![f].status = outcome, ![f].ends = @ + 1, ![f].done = @ \/ outcome = "COMPLETED"]
    /\ Completing(<<f, run[f].ends + 1>>, IF CallsBack(outcome) THEN "due" ELSE "none")
    /\ UNCHANGED <<now, schedule, retired, editor, fire, proc, events>>

\* submit_feedback replans a completed run: it runs again, also while its end is being told,
\* and may end otherwise.
Reopen(f) ==
    /\ run[f].status = "COMPLETED" /\ run[f].ends < MaxEnds /\ Count(Weight)
    /\ run' = [run EXCEPT ![f].status = "RUNNING"]
    /\ UNCHANGED <<now, schedule, retired, editor, fire, proc, completion>>

\* complete_from_run reads the run's status: what it is by now.
ReadOutcome(c) ==
    LET completed == run[c[1]].status = "COMPLETED"
    IN  /\ completion[c].pc = "due"
        /\ completion' = [completion EXCEPT ![c].pc = IF completed THEN "completed" ELSE "recorded",
                                            ![c].outcome = IF completed THEN "succeeded" ELSE "failed"]
        /\ UNCHANGED <<now, schedule, retired, editor, fire, proc, run, events>>

\* Mutant of BecomesBaseline: the last run of the revision is its baseline.
BecomesBaselineLast(f) == schedule.rev # Unpinned /\ run[f].rev = schedule.rev

BecomesBaseline(f) == schedule.rev # Unpinned /\ run[f].rev = schedule.rev /\ schedule.baseline = None

\* _record_baseline, under the row's lock: an unpinned schedule is pinned to this run.
RecordBaseline(c) ==
    LET f == c[1]
    IN  /\ completion[c].pc = "completed"
        /\ completion' = [completion EXCEPT ![c].pc = "recorded"]
        /\ schedule' = IF schedule.rev = Unpinned THEN [schedule EXCEPT !.rev = 1, !.baseline = f]
                       ELSE IF BecomesBaseline(f) THEN [schedule EXCEPT !.baseline = f]
                       ELSE schedule
        /\ UNCHANGED <<now, retired, editor, fire, proc, run, events>>

\* _finish reads the firing without a lock ...
ReadFiring(c) ==
    /\ completion[c].pc = "recorded"
    /\ IF fire[c[1]].status \in Finished THEN Completing(c, "done")
       ELSE completion' = [completion EXCEPT ![c].pc = "finish", ![c].seen = fire[c[1]].rev]
    /\ UNCHANGED <<now, schedule, retired, editor, fire, proc, run, events>>

\* ... and writes the result it merged.
Finish(c) ==
    /\ completion[c].pc = "finish"
    /\ Completing(c, "done")
    /\ fire' = [fire EXCEPT ![c[1]].status = completion[c].outcome, ![c[1]].rev = completion[c].seen]
    /\ UNCHANGED <<now, schedule, retired, editor, proc, run, events>>

Telling == {"due", "completed", "recorded", "finish"}

\* The worker dies, or complete_from_run raises: finish_run, tried again, finds the run
\* terminal and returns.
LoseCompletion(c) ==
    /\ completion[c].pc \in Telling /\ Count(Weight)
    /\ Completing(c, "lost")
    /\ UNCHANGED <<now, schedule, retired, editor, fire, proc, run>>

-----------------------------------------------------------------------------

Tick ==
    /\ now < MaxTime /\ now' = now + 1
    /\ UNCHANGED <<schedule, retired, editor, fire, proc, run, completion, events>>

Execute(f) ==
    Check(f) \/ Skip(f) \/ ReadPins(f) \/ ReadPrevious(f) \/ CreateRun(f) \/ WritePending(f)

RunMoves(f) == (\E outcome \in {"COMPLETED", "FAILED"} : RunEnds(f, outcome)) \/ Reopen(f)

Complete(c) == ReadOutcome(c) \/ RecordBaseline(c) \/ ReadFiring(c) \/ Finish(c)

Edit(e) ==
    \/ \E patch \in {"enable", "disable"} : StartEdit(e, patch, schedule.config)
    \/ \E config \in Named \cup {schedule.config} : StartEdit(e, "other", config)
    \/ EndEdit(e)

Next ==
    \/ Tick \/ ClaimDue \/ Retire \/ AcceptUpgrade
    \/ \E e \in Editors : Edit(e)
    \/ \E f \in Fires : RunNow(f) \/ Execute(f) \/ RunMoves(f) \/ FailFiring(f) \/ Die(f)
    \/ \E c \in Calls : Complete(c) \/ LoseCompletion(c)

Spec == Init /\ [][Next]_vars

-----------------------------------------------------------------------------
(* Properties *)

Preparing == {"none", "claimed", "blocked", "checked", "pinned", "compared"}

Revs == Unpinned..MaxRev
Times == 0..(MaxTime + 1)

ScheduleRows == [enabled : BOOLEAN, next : Times, rev : Revs, baseline : Runs, config : Runs, torn : BOOLEAN]
EditRows == [pc : {"idle", "read"}, enabled : {"same", "enable", "disable"}, next : Times \cup {Same},
             config : Runs \cup {Same}]
FireRows == [status : Finished \cup {"none", "started", "running"}, for : Times, rev : Revs \cup {NoRev}]
ProcRows == [pc : Preparing \cup {"created", "done", "dead"}, rev : Revs, previous : Runs, moved : BOOLEAN]
RunRows == [status : {"none", "RUNNING", "COMPLETED", "FAILED"}, rev : Revs,
            ends : 0..MaxEnds, done : BOOLEAN]
CompletionRows == [pc : Telling \cup {"none", "done", "lost"}, outcome : {"none", "succeeded", "failed"},
                   seen : Revs \cup {NoRev}]

TypeOK ==
    /\ now \in 0..MaxTime /\ events \in 0..MaxEvents /\ retired \in BOOLEAN
    /\ schedule \in ScheduleRows
    /\ editor \in [Editors -> EditRows]
    /\ fire \in [Fires -> FireRows]
    /\ proc \in [Fires -> ProcRows]
    /\ run \in [Fires -> RunRows]
    /\ completion \in [Calls -> CompletionRows]

\* The baseline of revision 1 is the run its pins are taken from, which had none.
SamePins(rev, previous) == previous = rev \/ (rev = 1 /\ previous = Unpinned)

\* An edit that was read from a row where enabled and next_run_at agree.
WritesBoth(e) ==
    /\ editor[e].enabled = "disable" => editor[e].next = None
    /\ editor[e].enabled = "enable" => editor[e].next \notin {None, Same}
    /\ editor[e].enabled = "same" => editor[e].next # None

\* "`fire_key` makes concurrent schedulers and retries idempotent": a fire time fires once,
\* also when an edit that read the schedule before it was claimed puts its time back.
FiresOnce ==
    \A f, g \in Fires : fire[f].for = fire[g].for /\ fire[f].for # None => f = g

\* Edits that overlap, without If-Match and without a lock, leave a schedule enabled and
\* without a next fire time, which silently ends it, only after an earlier pair of them has
\* left it disabled with one: until then a claim, an edit or both never do.
EnabledFires ==
    ~schedule.torn => /\ schedule.enabled <=> schedule.next # None
                      /\ \A e \in Editors : editor[e].pc = "read" => WritesBoth(e)

\* "its first completed run becomes the baseline its pins are taken from"; "the first fire
\* after an accepted upgrade becomes that revision's baseline": a baseline is a run that has
\* completed, of its own revision (of no pins, for the first), whatever runs of older pins end
\* or are reopened meanwhile; only revision 1 may have one from elsewhere.  Feedback may have
\* reopened it since, and it may then have failed: it stays the baseline.
BaselineOfRevision ==
    /\ schedule.baseline \in Fires =>
         /\ run[schedule.baseline].done
         /\ run[schedule.baseline].rev = IF schedule.rev = 1 THEN Unpinned ELSE schedule.rev
    /\ schedule.baseline = Other => schedule.rev = 1

\* It stays until the next upgrade is accepted, although overlapping firings complete after it.
BaselineStays ==
    [][schedule'.rev = schedule.rev /\ schedule.baseline # None
         => schedule'.baseline = schedule.baseline]_vars

\* "the run this fire's deltas compare against: the last completed fire of the same pin
\* revision, else that revision's baseline": a pinned firing compares with a run that has
\* completed; the run before is one of the same pins, unless the pins moved between the two
\* reads; and a run from elsewhere is only what config names for no pins, or revision 1's.
ComparesSamePins ==
    \A f \in Fires : LET previous == proc[f].previous
                     IN  /\ previous \in Fires =>
                              /\ run[previous].status # "none"
                              /\ proc[f].rev # Unpinned => run[previous].done
                              /\ ~proc[f].moved => SamePins(proc[f].rev, run[previous].rev)
                         /\ previous = Other => proc[f].rev \in {Unpinned, 1}

\* "Never raises: failures are recorded on the schedule_run", "Called when a scheduled run
\* reaches a terminal state": a firing that has not ended is being executed, or its run is
\* running or being completed, unless its process died before the run was created, or the
\* one that ended the run died before it said so: those two stay as they are for ever.
FiringsEnd ==
    \A f \in Fires : fire[f].status \in {"started", "running"} =>
        \/ proc[f].pc \in {"claimed", "blocked", "checked", "pinned", "compared"}
        \/ run[f].status = "RUNNING" \/ \E n \in Ends : completion[<<f, n>>].pc \in Telling
        \/ At(f, "dead") /\ run[f].status = "none"
        \/ \E n \in Ends : completion[<<f, n>>].pc = "lost"

\* Runs and firings are of revisions the schedule has had; revision 1 is born with its
\* baseline, and a result names the pins of its own run or none.  A run that config names,
\* or an editor is about to name there, exists.
RevisionsFollow ==
    /\ schedule.rev = Unpinned => schedule.baseline = None
    /\ schedule.rev = 1 => schedule.baseline # None
    /\ schedule.config \in Fires => run[schedule.config].status # "none"
    /\ \A e \in Editors : editor[e].config \in Fires => run[editor[e].config].status # "none"
    /\ \A f \in Fires : /\ proc[f].rev <= schedule.rev /\ run[f].rev <= schedule.rev
                        /\ fire[f].rev # NoRev => run[f].status # "none" /\ fire[f].rev = run[f].rev
    /\ \A c \in Calls : completion[c].seen # NoRev =>
                         run[c[1]].status # "none" /\ completion[c].seen = run[c[1]].rev

\* Where the process, the firing and its run are together: the run starts in a firing that
\* is `running`, one that ends it owes its completion, and a completion ends the firing.
StagesAgree ==
    \A f \in Fires :
        /\ At(f, "none") <=> fire[f].status = "none"
        /\ proc[f].pc \in {"claimed", "blocked"} => fire[f].status = "started"
        /\ proc[f].pc \in {"checked", "pinned", "compared"} => fire[f].status = "running"
        /\ At(f, "created") => run[f].status # "none"
        /\ proc[f].pc \in Preparing => run[f].status = "none"
        /\ proc[f].previous # None => At(f, "compared")
        /\ At(f, "done") /\ run[f].status = "none" => fire[f].status \in Finished
        /\ run[f].status # "none" => fire[f].status \in {"running", "succeeded", "failed"}
        /\ run[f].status = "none" => run[f].ends = 0 /\ ~run[f].done
        /\ run[f].status = "RUNNING" => run[f].ends < MaxEnds
        /\ run[f].status \in {"COMPLETED", "FAILED"} => run[f].ends # 0
        /\ run[f].status = "COMPLETED" => run[f].done
        /\ \A n \in Ends : LET c == completion[<<f, n>>]
                           IN  /\ c.pc = "none" <=> n > run[f].ends
                               /\ c.pc \in {"recorded", "finish"} => c.outcome # "none"
                               /\ c.pc = "completed" => c.outcome = "succeeded" /\ run[f].done
                               /\ c.pc = "done" => fire[f].status \in Finished

\* The schedule, its fire times, its baseline and what its firings compare with, whatever
\* edits overlap with them.
ScheduleInv ==
    /\ TypeOK /\ FiresOnce /\ EnabledFires /\ BaselineOfRevision
    /\ RevisionsFollow /\ StagesAgree /\ ComparesSamePins

=============================================================================
