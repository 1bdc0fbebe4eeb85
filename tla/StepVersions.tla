---------------------------- MODULE StepVersions ----------------------------
(* The steps of a data thread (services/steps.py) and the verdicts on them  *)
(* (evidence/verification.py).  A step has versions; editing or re-running  *)
(* it adds one, voids in the same transaction every verdict that depended   *)
(* on the version before, and then re-runs, one after the other, the steps  *)
(* of the same branch that depend on it.  Each of these is a transaction of *)
(* its own, of a request that other requests overlap with and that may die. *)
(*                                                                          *)
(* Steps are numbered in dependency order.  `ok` stands for ok, flagged and *)
(* recorded; a fork is a branch whose steps may depend on another's.        *)
EXTENDS Naturals, FiniteSets

CONSTANTS
    Steps,      \* numbers from 1
    Deps,       \* Deps[s]: the steps s depends on, all of smaller number
    Branch,     \* Branch[s]: the branch s is in
    Later,      \* steps that do not exist at the start
    Recorded,   \* steps that are recorded and not executed: plans, recipes, claims on nothing
    Editors,    \* requests that edit, re-run or create
    MaxDeaths   \* bound on the requests that die

ASSUME StepsAssumption ==
    /\ Steps \subseteq Nat \ {0} /\ Later \subseteq Steps /\ Recorded \subseteq Steps /\ MaxDeaths \in Nat
    /\ \A s \in Steps : Deps[s] \subseteq Steps \cap 1..(s - 1)
    /\ \A s \in Steps \ Later : Deps[s] \cap Later = {}

Original == "original"
None == "none"
NoInputs == [d \in Steps |-> 0]

VARIABLES
    current,    \* current[s]: AnalysisStep.current_version, 0 before the step exists
    status,     \* status[s]: AnalysisStep.status
    version,    \* version[s][n]: the AnalysisStepVersion rows, and as history `from`, what the
                \* result of a row was computed from
    live,       \* live[s]: the live verification record of s, if any
    editor,     \* editor[e]: where the request is; as history `unseen`, steps created since it
                \* listed what is downstream of the step it revises
    deaths,
    broken      \* history: steps that a request had to re-run and did not: it died, or failed, or
                \* they did not exist when it listed what is downstream

stepsVars == <<current, status, version, live, editor, deaths, broken>>
rows == <<current, status, version, live>>

Doing(e, pc) == editor[e].pc = pc
Exists(s) == current[s] # 0
Shown(s) == version[s][current[s]]
CurrentOf(s) == [d \in Steps |-> IF d \in Deps[s] THEN current[d] ELSE 0]
Blank == [pc |-> "idle", step |-> 0, first |-> 0, todo |-> {}, read |-> 0, from |-> NoInputs, missing |-> FALSE,
          unseen |-> {}]
Over == [Blank EXCEPT !.pc = "done"]

Row(spec, st, inputs) == [status |-> st, spec |-> spec, inputs |-> inputs, from |-> inputs]
FirstInputs(s) == [d \in Steps |-> IF d \in Deps[s] THEN 1 ELSE 0]
FirstRow(s) == Row(Original, "ok", FirstInputs(s))

StepsInit ==
    /\ current = [s \in Steps |-> IF s \in Later THEN 0 ELSE 1]
    /\ status = [s \in Steps |-> IF s \in Later THEN None ELSE "ok"]
    /\ version = [s \in Steps |-> [n \in 1..current[s] |-> FirstRow(s)]]
    /\ live = [s \in Steps |->
                  IF s \in Later \cup Recorded THEN {} ELSE {[version |-> 1, inputs |-> FirstInputs(s), late |-> FALSE]}]
    /\ editor = [e \in Editors |-> Blank]
    /\ deaths = 0 /\ broken = {}

-----------------------------------------------------------------------------
(* Operators of the code *)

\* `downstream`: the steps of the same branch that depend on this one, transitively: what
\* is in every set that holds all that it and s feed.
Feeds(s, D) == {t \in Steps : Branch[t] = Branch[s] /\ Exists(t) /\ Deps[t] \cap (D \cup {s}) # {}}
Downstream(s) == {t \in Steps : \A D \in SUBSET Steps : Feeds(s, D) \subseteq D => t \in D}

\* Mutant of DependsOn: only the verdicts on the step itself.
DependsOnOwn(t, r, s, n) == t = s /\ r.version # n

\* The live records that `void_dependents` finds: those with step s among their
\* dependencies, at any version but the new one.
DependsOn(t, r, s, n) ==
    \/ t = s /\ r.version # n
    \/ s \in Deps[t] /\ r.inputs[s] # n

\* The rows of a step whose version after n is this one.
WithRow(s, n, row) == [i \in 1..(n + 1) |-> IF i = n + 1 THEN row ELSE version[s][i]]

\* `new_version` and what it voids, of a step whose version before was n.
NewVersion(s, n, spec) ==
    /\ version' = [version EXCEPT ![s] = WithRow(s, n, Row(spec, "pending", NoInputs))]
    /\ current' = [current EXCEPT ![s] = n + 1]
    /\ status' = [status EXCEPT ![s] = "pending"]
    /\ live' = [t \in Steps |-> {r \in live[t] : ~DependsOn(t, r, s, n + 1)}]

\* Mutant of Conflicts: the versions of a step are not unique.
ConflictsNever(s, n) == FALSE

\* uq_analysis_step_version: the version a request would add to the one it read.
Conflicts(s, n) == n + 1 \in DOMAIN version[s]

\* Mutant of Rest: only what reads the step directly is re-run.
RestDirect(e, s) ==
    IF s = editor[e].first THEN {t \in Downstream(s) : s \in Deps[t]} ELSE editor[e].todo

\* The steps a request goes on with, once the revised step has its new version.
Rest(e, s) == IF s = editor[e].first THEN Downstream(s) ELSE editor[e].todo

\* A dependency that changed since the record was made.
Outdated(s, r) == r.version # current[s] \/ (\E d \in Deps[s] : r.inputs[d] # current[d])

-----------------------------------------------------------------------------
(* A request: `edit`, `rerun` or `create`, then `execute`, then each step downstream *)

Goes(e, changes) == editor' = [editor EXCEPT ![e] = changes]
Starts(e, s, pc, todo) == Goes(e, [Blank EXCEPT !.pc = pc, !.step = s, !.first = s, !.todo = todo])

\* An edit, with If-Match: the row is locked from the comparison to the commit.
Edit(e, s) ==
    /\ Doing(e, "idle") /\ Exists(s)
    /\ NewVersion(s, current[s], e)
    /\ Starts(e, s, "committed", Downstream(s))
    /\ broken' = broken \ {s}
    /\ UNCHANGED deaths

\* What a request has listed and has still to add a version to.
Waiting(e) ==
    editor[e].todo \cup (IF Doing(e, "begun") /\ editor[e].step # editor[e].first THEN {editor[e].step} ELSE {})

\* The first version of a step, in a branch that shows what it depends on.
Create(e, s) ==
    /\ Doing(e, "idle") /\ ~Exists(s) /\ \A d \in Deps[s] : Exists(d)
    /\ current' = [current EXCEPT ![s] = 1]
    /\ status' = [status EXCEPT ![s] = "pending"]
    /\ version' = [version EXCEPT ![s] = WithRow(s, 0, Row(e, "pending", NoInputs))]
    /\ editor' = [x \in Editors |->
                     IF x = e THEN [Blank EXCEPT !.pc = "committed", !.step = s, !.first = s]
                     ELSE IF Waiting(x) # {} THEN [editor[x] EXCEPT !.unseen = @ \cup {s}] ELSE editor[x]]
    /\ UNCHANGED <<live, deaths, broken>>

\* A re-run, and later each step downstream: the version to add to is read without a lock.
BeginRerun(e, s) ==
    /\ Doing(e, "idle") /\ Exists(s)
    /\ Goes(e, [Blank EXCEPT !.pc = "begun", !.step = s, !.first = s, !.read = current[s]])
    /\ UNCHANGED <<rows, deaths, broken>>

BeginNext(e, s) ==
    /\ Doing(e, "next") /\ s \in editor[e].todo /\ Deps[s] \cap editor[e].todo = {}
    /\ Goes(e, [editor[e] EXCEPT !.pc = "begun", !.step = s, !.todo = @ \ {s}, !.read = current[s]])
    /\ UNCHANGED <<rows, deaths, broken>>

\* The new version is inserted, with the spec of the version that was read; a step that was
\* created after the request had listed what is downstream is not re-run by it ...
CommitVersion(e) ==
    LET s == editor[e].step
        n == editor[e].read
    IN  /\ Doing(e, "begun") /\ ~Conflicts(s, n)
        /\ NewVersion(s, n, version[s][n].spec)
        /\ Goes(e, [editor[e] EXCEPT !.pc = "committed", !.todo = Rest(e, s)])
        /\ broken' = (broken \ {s}) \cup (editor[e].unseen \cap Downstream(s))
        /\ UNCHANGED deaths

\* ... or another request has added that version: the error ends this one, and what it had
\* still to re-run stays as it is, but for what the other one re-runs itself.
CommitFails(e) ==
    LET s == editor[e].step
    IN  /\ Doing(e, "begun") /\ Conflicts(s, editor[e].read)
        /\ Goes(e, Over)
        /\ broken' = broken \cup (editor[e].todo \ Downstream(s))
        /\ UNCHANGED <<rows, deaths>>

\* `execute` and `_upstream`: the version that is current now, whoever added it, on the
\* current versions of what it depends on, in whatever branch; they are written on it.
\* (Its queries, one for each of these, are one read here.)
ReadInputs(e) ==
    LET s == editor[e].step
        n == current[s]
    IN  /\ Doing(e, "committed")
        /\ version' = [version EXCEPT ![s][n].inputs = CurrentOf(s)]
        /\ Goes(e, [editor[e] EXCEPT !.pc = "executing", !.read = n, !.from = CurrentOf(s),
                                     !.missing = \E d \in Deps[s] : Shown(d).status # "ok"])
        /\ UNCHANGED <<current, status, live, deaths, broken>>

\* `_finish`: the status of the version that was executed, and of its step.
Finish(e, st) ==
    LET s == editor[e].step
    IN  /\ Doing(e, "executing")
        /\ version' = [version EXCEPT ![s][editor[e].read].status = st,
                                      ![s][editor[e].read].from = IF st = "ok" THEN editor[e].from ELSE @]
        /\ status' = [status EXCEPT ![s] = st]
        /\ Goes(e, IF editor[e].todo = {} THEN Over
                   ELSE [Blank EXCEPT !.pc = "next", !.first = editor[e].first, !.todo = editor[e].todo,
                                      !.unseen = editor[e].unseen])
        /\ UNCHANGED <<current, deaths, broken>>

\* With a verdict: its record is the one of the step that is live.  A late one depends on
\* something that was replaced while the step ran.
FinishVerified(e) ==
    LET s == editor[e].step
        r == [version |-> editor[e].read, inputs |-> version[s][editor[e].read].inputs]
    IN  /\ s \notin Recorded /\ ~editor[e].missing
        /\ Finish(e, "ok")
        /\ live' = [live EXCEPT ![s] = {[version |-> r.version, inputs |-> r.inputs, late |-> Outdated(s, r)]}]

\* Without one: the step fails (an input has no result, the query is refused, the code
\* raises), or it is only recorded, whether its inputs have a result or not.
FinishFailed(e) == Finish(e, "failed") /\ UNCHANGED live
FinishRecorded(e) == editor[e].step \in Recorded /\ Finish(e, "ok") /\ UNCHANGED live

\* What a request has started to replace, or has still to re-run.
Left(e) ==
    Waiting(e) \cup (IF Doing(e, "committed") \/ Doing(e, "executing") THEN {editor[e].step} ELSE {})

\* The request dies: that stays as it is.
RequestDies(e) ==
    /\ ~Doing(e, "idle") /\ ~Doing(e, "done") /\ deaths < MaxDeaths
    /\ Goes(e, Over)
    /\ broken' = broken \cup Left(e)
    /\ deaths' = deaths + 1
    /\ UNCHANGED rows

\* Mutant of Recheck: only the step's own version is compared.
RecheckOwn ==
    /\ \E s \in Steps : \E r \in live[s] : r.version # current[s]
    /\ live' = [s \in Steps |-> {r \in live[s] : r.version = current[s]}]
    /\ UNCHANGED <<current, status, version, editor, deaths, broken>>

\* The nightly `sweep`: every live record is compared with its dependencies.
Recheck ==
    /\ \E s \in Steps : \E r \in live[s] : Outdated(s, r)
    /\ live' = [s \in Steps |-> {r \in live[s] : ~Outdated(s, r)}]
    /\ UNCHANGED <<current, status, version, editor, deaths, broken>>

Goon(e) ==
    \/ CommitVersion(e) \/ CommitFails(e) \/ ReadInputs(e)
    \/ FinishVerified(e) \/ FinishFailed(e) \/ FinishRecorded(e)
    \/ \E s \in Steps : BeginNext(e, s)

StepsNext ==
    \/ \E e \in Editors :
          \/ Goon(e) \/ RequestDies(e)
          \/ \E s \in Steps : Edit(e, s) \/ Create(e, s) \/ BeginRerun(e, s)
    \/ Recheck

StepsSpec == StepsInit /\ [][StepsNext]_stepsVars

\* A request that has begun goes on, and the sweep runs every night.
StepsFairSpec == StepsSpec /\ (\A e \in Editors : WF_stepsVars(Goon(e))) /\ WF_stepsVars(Recheck)

-----------------------------------------------------------------------------
(* Properties *)

Inputs == [Steps -> Nat]
Rows == [status : {"pending", "ok", "failed"}, spec : Editors \cup {Original}, inputs : Inputs, from : Inputs]
Verdicts == [version : Nat, inputs : Inputs, late : BOOLEAN]
Requests == [pc : {"idle", "begun", "committed", "executing", "next", "done"}, step : Nat, first : Nat,
             todo : SUBSET Steps, read : Nat, from : Inputs, missing : BOOLEAN, unseen : SUBSET Steps]

StepsTypeOK ==
    /\ current \in [Steps -> Nat]
    /\ status \in [Steps -> {None, "pending", "ok", "failed"}]
    /\ version = [s \in Steps |-> [n \in 1..current[s] |-> version[s][n]]]
    /\ \A s \in Steps : \A n \in 1..current[s] : version[s][n] \in Rows
    /\ live \in [Steps -> SUBSET Verdicts] /\ \A s \in Steps : \A r, q \in live[s] : r = q
    /\ editor \in [Editors -> Requests]
    /\ deaths \in 0..MaxDeaths /\ broken \subseteq Steps

\* "void every verdict that depended on the previous version": no verdict stays live on a
\* version that was replaced, of the step itself or of any step it was computed from, in its
\* own branch or another, unless it was given after the replacement.
LiveIsFresh == \A s \in Steps : \A r \in live[s] : Outdated(s, r) => r.late

\* `current_version` is "the one shown and the one dependents were computed from": once no
\* request is at work, what is shown of a step has a result or an error, and a result was
\* computed from what is shown of the same branch, whichever edits and re-runs overlapped.
\* Except where a request died, or failed on another's version, before it re-ran the step, or
\* had listed what it re-runs before the step was created.
AtRest == \A e \in Editors : Doing(e, "idle") \/ Doing(e, "done")
ComputedFromCurrent ==
    AtRest =>
        \A s \in Steps \ broken : Exists(s) =>
            /\ Shown(s).status # "pending"
            /\ Shown(s).status = "ok" =>
                  \A d \in Deps[s] : Branch[d] = Branch[s] => Shown(s).from[d] = current[d]

\* A step is there before what depends on it, and before a verdict on it.
StepsFollow ==
    \A s \in Steps : /\ Exists(s) => \A d \in Deps[s] : Exists(d)
                     /\ ~Exists(s) => live[s] = {}

\* What a request reads and writes exists.
RequestsFollow ==
    \A e \in Editors :
        LET a == editor[e]
        IN  /\ a.pc \in {"begun", "committed", "executing"} => a.step \in Steps /\ Exists(a.step)
            /\ a.pc \in {"begun", "executing"} => a.read \in 1..current[a.step]
            /\ a.pc \in {"idle", "done"} \/ (a.pc = "begun" /\ a.step = a.first) => a.todo = {} /\ a.unseen = {}
            /\ \A t \in Waiting(e) : a.first \in Steps /\ t \in Downstream(a.first)

\* What reads a step that a request has to re-run is re-run by it after that, unless it was
\* created since; and what reads such a step was created since, too.
ListsHold ==
    \A e \in Editors : \A t \in Steps : Exists(t) =>
        /\ \A u \in Deps[t] : u \in Waiting(e) /\ Branch[t] = Branch[u] => t \in editor[e].todo \cup editor[e].unseen
        /\ Waiting(e) # {} /\ Deps[t] \cap editor[e].unseen # {} => t \in editor[e].unseen

\* Another request has added the version this one is about to add.
Beaten(e) == Doing(e, "begun") /\ editor[e].read # current[editor[e].step]

\* A request will add a version to t: not what another one re-runs that got ahead of it.
Owes(e, t) == t \in Waiting(e) /\ ~(Beaten(e) /\ t \in Downstream(editor[e].step) \cup {editor[e].step})

\* A request will write, or is about to read, the version shown.
Computes(e, t) ==
    /\ editor[e].step = t
    /\ Doing(e, "committed") \/ (Doing(e, "executing") /\ editor[e].read = current[t])

\* Why a step is computed from what is shown in the end: somebody has still to re-run it, or
\* those that compute it, and its result, read what is shown.
Settled(t) ==
    /\ Shown(t).status = "pending" => \E e \in Editors : Computes(e, t)
    /\ \A d \in Deps[t] : Branch[d] = Branch[t] =>
          /\ Shown(t).status = "ok" => Shown(t).from[d] = current[d]
          /\ \A e \in Editors : Computes(e, t) /\ Doing(e, "executing") => editor[e].from[d] = current[d]
NothingForgotten ==
    \A t \in Steps \ broken : Exists(t) => Settled(t) \/ \E e \in Editors : Owes(e, t)

\* The inductive invariant; ComputedFromCurrent is what NothingForgotten says at rest.
StepsInv ==
    StepsTypeOK /\ StepsFollow /\ RequestsFollow /\ ListsHold /\ LiveIsFresh /\ NothingForgotten /\ ComputedFromCurrent

\* What a user wrote is what is shown: re-runs, which copy the spec of a version they read
\* before, never bring back the one from before an edit.
EditStays ==
    [][\A s \in Steps : Exists(s) /\ Shown(s).spec # (Shown(s).spec)'
                           => \E e \in Editors : (Shown(s).spec)' = e /\ Edit(e, s)]_stepsVars

\* "anything voided here was missed by its event": a verdict that came late does not stay.
SweepVoids == <>[](\A s \in Steps : \A r \in live[s] : ~Outdated(s, r))

=============================================================================
