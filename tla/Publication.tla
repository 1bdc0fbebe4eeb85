----------------------------- MODULE Publication -----------------------------
(***************************************************************************)
(* The publication of one run: the approval its bundle needs               *)
(* (governance/approvals.py) and the two steps that ask for it and use it  *)
(* (agents/publisher.py).                                                  *)
(*                                                                         *)
(* Every arrow between the phases of a request, a decision or a            *)
(* publication is a transaction boundary: a redirect, an edit, a policy    *)
(* change, a cancel, another decision or a later attempt of the same step  *)
(* can commit there.  A transaction that raises is rolled back, with what  *)
(* it had written.                                                         *)
(***************************************************************************)
EXTENDS Naturals, FiniteSets

CONSTANTS
    Bundles,        \* what the run's artifacts can say (a bundle and its payload hash)
    People,         \* users of the workspace
    Requester,      \* the person who owns the run, and proposed its KPIs
    Unapproved,     \* bundles with KPI definitions the policy wants approved, and nobody has yet
    Requests,       \* attempts of the step publish_request that can be alive at once
    Attempts,       \* attempts of the step publish that can be alive at once
    MaxApprovals,   \* bound: approvals ever requested
    MaxPlan,        \* bound: last plan version
    MaxEvents       \* bound: edits, policy changes, revocations, expiries, cancels and events

ASSUME PublicationAssumption ==
    /\ Bundles # {} /\ Requester \in People /\ Unapproved \subseteq Bundles
    /\ MaxApprovals \in Nat /\ MaxPlan \in Nat \ {0} /\ MaxEvents \in Nat
    /\ "none" \notin Bundles \cup People \cup Attempts

VARIABLES
    approvals,      \* the approval rows, by id
    linked,         \* the approval the publish row names in its input, 0 for none
    row,            \* the publish row: open (it runs, or will) or over
    holder,         \* the attempt that holds the row's claim
    plan,           \* analysis_run.plan_version, which its plan hash covers
    policy,         \* workspace.policy_version; the run keeps the version 0 it started under
    separate,       \* what that version says of separation_of_duties (FALSE is its default)
    run,            \* active, cancelling (its control says so) or cancelled
    content,        \* the bundle the artifacts amount to now
    approvers,      \* people who may approve
    editor,         \* the requester still holds publish rights
    asked,          \* the plan for which publish_request has completed
    request,        \* publish_request in flight
    decision,       \* decisions in flight, by person
    attempt,        \* publish in flight
    kpis,           \* who approved a bundle's KPI definitions, "none" while they are proposed
    publications,   \* the publication row by idempotency key, that is, by bundle
    external,       \* the bundle last written to the BI tool
    events          \* how many of MaxEvents have happened

vars == <<approvals, linked, row, holder, plan, policy, separate, run, content, approvers, editor,
          asked, request, decision, attempt, kpis, publications, external, events>>

Ids == 1..MaxApprovals
ApprovalStatus == {"absent", "pending", "approved", "rejected", "invalidated", "executed"}
Approval == [status : ApprovalStatus, payload : Bundles \cup {"none"}, plan : 0..MaxPlan,
             policy : 0..MaxEvents, lapsed : BOOLEAN, by : People \cup {"none"}]
NoApproval == [status |-> "absent", payload |-> "none", plan |-> 0, policy |-> 0,
               lapsed |-> FALSE, by |-> "none"]
NewApproval(b, v) == [NoApproval EXCEPT !.status = "pending", !.payload = b, !.plan = v]

NoRequest == [pc |-> "idle", started |-> 0, payload |-> "none", plan |-> 0, found |-> 0]
NoDecision == [id |-> 0, verdict |-> "none"]
NoAttempt == [pc |-> "idle", approval |-> 0, plan |-> 0]
Free(slots) == CHOOSE x \in DOMAIN slots : slots[x].pc = "idle"  \* where the next attempt goes
Requested == {a \in Ids : approvals[a].status # "absent"}

Init ==
    /\ approvals = [a \in Ids |-> NoApproval]
    /\ linked = 0 /\ row = "open" /\ holder = "none" /\ plan = 1 /\ policy = 0 /\ separate \in BOOLEAN /\ run = "active"
    /\ kpis = [b \in Unapproved |-> "none"]
    /\ content \in Bundles
    /\ approvers = People /\ editor = TRUE
    /\ asked = 0 /\ request = [r \in Requests |-> NoRequest]
    /\ decision = [u \in People |-> NoDecision]
    /\ attempt = [p \in Attempts |-> NoAttempt]
    /\ publications = [b \in Bundles |-> "none"]
    /\ external = "none" /\ events = 0

duties == <<separate, kpis>>
runVars == <<row, holder, plan, policy, duties, run, content, approvers, editor>>
toolVars == <<publications, external, events>>

-----------------------------------------------------------------------------
(* publish_request *)

Event == events < MaxEvents /\ events' = events + 1

\* The step runs once per plan: the bundle is built and reviewed.  An attempt started
\* before a redirect may still be going on.
BuildBundle(r) ==
    /\ request[r].pc = "idle" /\ r = Free(request) /\ asked # plan /\ run = "active"
    /\ \A q \in Requests : request[q].pc # "idle" => request[q].started # plan
    /\ request' = [request EXCEPT ![r] = [NoRequest EXCEPT !.pc = "built", !.started = plan, !.payload = content]]
    /\ UNCHANGED <<approvals, linked, asked, decision, attempt, runVars, toolVars>>

\* "A retry reuses the open request for the same payload": the newest one.
Reusable(b, v) ==
    {a \in Ids : /\ approvals[a].status \in {"pending", "approved"} /\ ~approvals[a].lapsed
                 /\ approvals[a].payload = b /\ approvals[a].plan = v}
Newest(ids) == IF ids = {} THEN 0 ELSE CHOOSE a \in ids : \A c \in ids : c <= a

\* The run's plan hash and the open requests are read, without a lock, ...
ReadRun(r) ==
    /\ request[r].pc = "built"
    /\ request' = [request EXCEPT ![r].pc = "read", ![r].plan = plan,
                                  ![r].found = Newest(Reusable(request[r].payload, plan))]
    /\ UNCHANGED <<approvals, linked, asked, decision, attempt, runVars, toolVars>>

\* ... and the approval found, or a new one, is named on the publish row.
CommitRequest(r) ==
    /\ request[r].pc = "read"
    /\ \/ /\ request[r].found # 0
          /\ linked' = request[r].found
          /\ UNCHANGED approvals
       \/ /\ request[r].found = 0
          /\ \E a \in Ids \ Requested :
                /\ Requested = 1..(a - 1)
                /\ approvals' = [approvals EXCEPT ![a] = NewApproval(request[r].payload, request[r].plan)]
                /\ linked' = a
    /\ request' = [request EXCEPT ![r].pc = "committed"]
    /\ UNCHANGED <<asked, decision, attempt, runVars, toolVars>>

\* The step's report, which counts for the plan it ran under.
ReportRequest(r) ==
    /\ request[r].pc = "committed"
    /\ request' = [request EXCEPT ![r] = NoRequest]
    /\ asked' = IF request[r].started = plan THEN plan ELSE asked
    /\ UNCHANGED <<approvals, linked, decision, attempt, runVars, toolVars>>

\* The attempt dies, even after it has committed: a retry follows.
LoseRequest(r) ==
    /\ Event /\ request[r].pc # "idle"
    /\ request' = [request EXCEPT ![r] = NoRequest]
    /\ UNCHANGED <<approvals, linked, asked, decision, attempt, runVars, publications, external>>

-----------------------------------------------------------------------------
(* decide *)

\* Mutant of MayDecide: whoever asked may approve, whatever the policy says.
MayDecideOwn(u, a) ==
    /\ approvals[a].status = "pending" /\ u \in approvers
    /\ ~approvals[a].lapsed /\ policy = approvals[a].policy

\* Separation of duties is the policy's to ask for: publish_dashboard is not among the actions
\* that always need it.
Own(u) == separate /\ u = Requester

\* The checks before the claim: role, status, expiry, separation of duties, and the policy, which
\* is the one the run started under or the decision is refused.
MayDecide(u, a) ==
    /\ approvals[a].status = "pending" /\ u \in approvers /\ ~Own(u)
    /\ ~approvals[a].lapsed /\ policy = approvals[a].policy

ReadDecision(u, a, verdict) ==
    /\ decision[u] = NoDecision /\ MayDecide(u, a)
    /\ decision' = [decision EXCEPT ![u] = [id |-> a, verdict |-> verdict]]
    /\ UNCHANGED <<approvals, linked, asked, request, attempt, runVars, toolVars>>

\* decide() marks a lapsed approval expired, or one of an older policy invalidated, and
\* raises Conflict: the request's session is rolled back and nothing is written.
RefuseDecision(u, a) ==
    /\ decision[u] = NoDecision /\ u \in approvers
    /\ approvals[a].status = "pending"
    /\ approvals[a].lapsed \/ Own(u) \/ policy # approvals[a].policy
    /\ UNCHANGED vars

\* Mutant of Claim: the update does not ask for the status it was read in.
ClaimAny(a, to, u) == approvals' = [approvals EXCEPT ![a].status = to, ![a].by = u]

\* claim(expect=pending): a compare-and-set; whoever comes second changes nothing.
Claim(a, to, u) ==
    IF approvals[a].status = "pending"
    THEN approvals' = [approvals EXCEPT ![a].status = to, ![a].by = u]
    ELSE UNCHANGED approvals

WriteDecision(u) ==
    /\ decision[u] # NoDecision
    /\ Claim(decision[u].id, decision[u].verdict, u)
    /\ decision' = [decision EXCEPT ![u] = NoDecision]
    /\ UNCHANGED <<linked, asked, request, attempt, runVars, toolVars>>

-----------------------------------------------------------------------------
(* publish *)

Phase(p, pc) == attempt' = [attempt EXCEPT ![p].pc = pc]
Bundle(p) == approvals[attempt[p].approval].payload

\* Its report counts: nobody took the claim since, and the plan is the same.
Settled(p) == holder = p /\ attempt[p].plan = plan

\* Mutant of Ends: a refused publication is put back for another attempt.
EndsOpen(p) ==
    /\ attempt' = [attempt EXCEPT ![p] = NoAttempt]
    /\ row' = row
    /\ holder' = IF holder = p THEN "none" ELSE holder

\* The attempt ends, well or not; with its report its row is over.
Ends(p) ==
    /\ attempt' = [attempt EXCEPT ![p] = NoAttempt]
    /\ row' = IF Settled(p) THEN "over" ELSE row
    /\ holder' = IF holder = p THEN "none" ELSE holder

Continues(p, pc) == Phase(p, pc) /\ UNCHANGED <<row, holder>>

userState == <<plan, policy, separate, run, content, approvers, editor>>

Gated == row = "open" /\ run = "active" /\ holder = "none" /\ asked = plan /\ linked # 0

\* _approval_gate gives up the row of an approval that was rejected or invalidated, ...
SkipPublish ==
    /\ Gated /\ approvals[linked].status \in {"rejected", "invalidated"}
    /\ row' = "over"
    /\ UNCHANGED <<approvals, linked, holder, asked, request, decision, attempt, kpis, userState, toolVars>>

\* ... and lets the row of an approved one run: the loop starts it.
StartPublish(p) ==
    /\ attempt[p].pc = "idle" /\ p = Free(attempt) /\ Gated
    /\ approvals[linked].status \in {"approved", "executed"}
    /\ attempt' = [attempt EXCEPT ![p] = [pc |-> "started", approval |-> linked, plan |-> plan]]
    /\ holder' = p
    /\ UNCHANGED <<approvals, linked, row, asked, request, decision, kpis, userState, toolVars>>

\* verify_for_execution; the payload is the approval's own.
Verified(a) ==
    /\ a.status = "approved" /\ ~a.lapsed
    /\ a.plan = plan /\ a.policy = policy
    /\ editor /\ a.by \in approvers

\* Any mismatch blocks execution; what the check wrote on the approval is rolled back.
Verify(p) ==
    /\ attempt[p].pc = "started"
    /\ IF Verified(approvals[attempt[p].approval])
       THEN Continues(p, "verified")
       ELSE Ends(p)
    /\ UNCHANGED <<approvals, linked, asked, request, decision, kpis, userState, toolVars>>

\* The bundle is built again; if it changed, the approval is invalidated (and committed).
CompareBundle(p) ==
    /\ attempt[p].pc = "verified"
    /\ IF content = Bundle(p)
       THEN Continues(p, "compared") /\ UNCHANGED approvals
       ELSE Ends(p) /\ approvals' = [approvals EXCEPT ![attempt[p].approval].status = "invalidated"]
    /\ UNCHANGED <<linked, asked, request, decision, kpis, userState, toolVars>>

\* check_control.
Stopped(p) == run # "active" \/ attempt[p].plan # plan

CheckControl(p) ==
    /\ attempt[p].pc = "compared"
    /\ IF Stopped(p) THEN Ends(p) ELSE Continues(p, "cleared")
    /\ UNCHANGED <<approvals, linked, asked, request, decision, kpis, userState, toolVars>>

\* approve_bundled_metrics: the definitions in the bundle that are still proposed are approved in
\* the name of whoever approved it.  There the requester never may, and what cannot be approved
\* stops the publication.
ApproveMetrics(p) ==
    LET b == Bundle(p)
        approver == approvals[attempt[p].approval].by
    IN  /\ attempt[p].pc = "cleared"
        /\ \/ /\ b \in Unapproved => kpis[b] # "none"
              /\ Continues(p, "ready") /\ UNCHANGED kpis
           \/ /\ b \in Unapproved /\ kpis[b] = "none"
              /\ approver \in approvers \ {Requester}
              /\ kpis' = [kpis EXCEPT ![b] = approver]
              /\ Continues(p, "ready")
           \/ /\ b \in Unapproved /\ kpis[b] = "none"
              /\ Ends(p) /\ UNCHANGED kpis
        /\ UNCHANGED <<approvals, linked, asked, request, decision, userState, toolVars>>

\* The publication row of this key: a success is reused, otherwise publish again.
OpenPublication(p) ==
    /\ attempt[p].pc = "ready"
    /\ IF publications[Bundle(p)] = "succeeded"
       THEN Ends(p) /\ UNCHANGED publications
       ELSE /\ Continues(p, "publishing")
            /\ publications' = [publications EXCEPT ![Bundle(p)] = IF @ = "none" THEN "started" ELSE @]
    /\ UNCHANGED <<approvals, linked, asked, request, decision, kpis, userState, external, events>>

\* The BI tool is written: completely, or until something fails.
CallTool(p, result) ==
    /\ attempt[p].pc = "publishing"
    /\ external' = Bundle(p)
    /\ Continues(p, result)
    /\ UNCHANGED <<approvals, linked, asked, request, decision, kpis, userState, publications, events>>

\* The result is recorded, whatever the rows say by now; a success executes the approval.
RecordPublication(p) ==
    /\ attempt[p].pc \in {"succeeded", "partial", "failed"}
    /\ publications' = [publications EXCEPT ![Bundle(p)] = attempt[p].pc]
    /\ approvals' = IF attempt[p].pc = "succeeded"
                    THEN [approvals EXCEPT ![attempt[p].approval].status = "executed"] ELSE approvals
    /\ Ends(p)
    /\ UNCHANGED <<linked, asked, request, decision, kpis, userState, external, events>>

\* The attempt is given up, as dead or as timed out, and its claim released: the step is
\* retried.  One that only timed out goes on.
GiveUp(p, dead) ==
    /\ Event /\ holder = p
    /\ holder' = "none"
    /\ attempt' = IF dead THEN [attempt EXCEPT ![p] = NoAttempt] ELSE attempt
    /\ UNCHANGED <<approvals, linked, row, asked, request, decision, kpis, userState, publications, external>>

-----------------------------------------------------------------------------
(* What happens around it *)

\* invalidate_run_approvals: every open approval of the run.
InvalidateApprovals ==
    approvals' = [a \in Ids |-> IF approvals[a].status \in {"pending", "approved"}
                                THEN [approvals[a] EXCEPT !.status = "invalidated"] ELSE approvals[a]]

\* apply_replan: the steps from the dataset on run again and may build another bundle.
Replan ==
    /\ plan < MaxPlan /\ run # "cancelled"
    /\ plan' = plan + 1 /\ row' = "open"
    /\ InvalidateApprovals
    /\ UNCHANGED <<linked, holder, policy, duties, run, content, approvers, editor, asked, request, decision, attempt, toolVars>>

EditContent(b) ==
    /\ Event /\ b # content
    /\ content' = b
    /\ UNCHANGED <<approvals, linked, row, holder, plan, policy, duties, run, approvers, editor,
                   asked, request, decision, attempt, publications, external>>

ChangePolicy ==
    /\ Event
    /\ policy' = policy + 1
    /\ UNCHANGED <<approvals, linked, row, holder, plan, duties, run, content, approvers, editor,
                   asked, request, decision, attempt, publications, external>>

\* expires_at passes.
Lapse(a) ==
    /\ Event /\ approvals[a].status \in {"pending", "approved"} /\ ~approvals[a].lapsed
    /\ approvals' = [approvals EXCEPT ![a].lapsed = TRUE]
    /\ UNCHANGED <<linked, asked, request, decision, attempt, runVars, publications, external>>

Revoke(u) ==
    /\ Event /\ u \in approvers
    /\ approvers' = approvers \ {u}
    /\ editor' = (editor /\ u # Requester)
    /\ UNCHANGED <<approvals, linked, row, holder, plan, policy, duties, run, content, asked, request, decision, attempt, publications, external>>

\* The user cancels; finish_run(CANCELLED) follows and invalidates the open approvals.
AskCancel ==
    /\ Event /\ run = "active"
    /\ run' = "cancelling"
    /\ UNCHANGED <<approvals, linked, row, holder, plan, policy, duties, content, approvers, editor,
                   asked, request, decision, attempt, publications, external>>

FinishCancelled ==
    /\ run = "cancelling"
    /\ run' = "cancelled" /\ row' = "over"
    /\ InvalidateApprovals
    /\ UNCHANGED <<linked, holder, plan, policy, duties, content, approvers, editor, asked, request, decision, attempt, toolVars>>

-----------------------------------------------------------------------------

Request(r) == BuildBundle(r) \/ ReadRun(r) \/ CommitRequest(r) \/ ReportRequest(r)

Decide(u) ==
    \/ \E a \in Ids, verdict \in {"approved", "rejected"} : ReadDecision(u, a, verdict)
    \/ \E a \in Ids : RefuseDecision(u, a)
    \/ WriteDecision(u)

Publish(p) ==
    \/ StartPublish(p) \/ Verify(p) \/ CompareBundle(p) \/ CheckControl(p) \/ ApproveMetrics(p) \/ OpenPublication(p)
    \/ \E result \in {"succeeded", "partial", "failed"} : CallTool(p, result)
    \/ RecordPublication(p)

Environment ==
    \/ \E r \in Requests : LoseRequest(r)
    \/ \E p \in Attempts, dead \in BOOLEAN : GiveUp(p, dead)
    \/ Replan \/ (\E b \in Bundles : EditContent(b)) \/ ChangePolicy
    \/ (\E a \in Ids : Lapse(a)) \/ (\E u \in People : Revoke(u))
    \/ AskCancel \/ FinishCancelled

Next ==
    \/ \E r \in Requests : Request(r)
    \/ \E u \in People : Decide(u)
    \/ \E p \in Attempts : Publish(p)
    \/ SkipPublish
    \/ Environment

Spec == Init /\ [][Next]_vars

\* The loop starts what the gate lets run and its attempts go on; approvers answer (again
\* and again, if they are refused).
Fairness ==
    /\ \A r \in Requests : WF_vars(Request(r))
    /\ \A p \in Attempts : WF_vars(Publish(p))
    /\ \A u \in People : WF_vars(Decide(u))

FairSpec == Spec /\ Fairness

-----------------------------------------------------------------------------
(* Properties *)

TypeOK ==
    /\ approvals \in [Ids -> Approval]
    /\ linked \in 0..MaxApprovals /\ row \in {"open", "over"} /\ holder \in Attempts \cup {"none"}
    /\ plan \in 1..MaxPlan /\ policy \in Nat /\ separate \in BOOLEAN /\ run \in {"active", "cancelling", "cancelled"}
    /\ content \in Bundles /\ approvers \in SUBSET People /\ editor \in BOOLEAN
    /\ asked \in 0..MaxPlan
    /\ request \in [Requests -> [pc : {"idle", "built", "read", "committed"}, started : 0..MaxPlan, payload : Bundles \cup {"none"},
                                 plan : 0..MaxPlan, found : 0..MaxApprovals]]
    /\ decision \in [People -> [id : 0..MaxApprovals, verdict : {"none", "approved", "rejected"}]]
    /\ attempt \in [Attempts -> [pc : {"idle", "started", "verified", "compared", "cleared", "ready", "publishing",
                                       "succeeded", "partial", "failed"},
                                 approval : 0..MaxApprovals, plan : 0..MaxPlan]]
    /\ kpis \in [Unapproved -> People \cup {"none"}]
    /\ publications \in [Bundles -> {"none", "started", "succeeded", "partial", "failed"}]
    /\ external \in Bundles \cup {"none"} /\ events \in 0..MaxEvents

\* Who may have decided: anybody, or anybody else, as the policy asks.
Deciders == IF separate THEN People \ {Requester} ELSE People

\* Somebody who may decide approved it, and it has not been rejected.
Sanctioned(a) ==
    /\ approvals[a].by \in Deciders
    /\ approvals[a].status \in {"approved", "invalidated", "executed"}

\* "Nothing is published until a person approves": whatever reaches the BI tool is, to the
\* byte, a bundle that somebody approved and has not rejected; under separation of duties that is
\* not the requester, and the KPI definitions it publishes are never approved by the requester.
KpisApproved(b) == b \in Unapproved => kpis[b] \in People \ {Requester}
PublishesApproved ==
    external # "none" =>
        /\ \E a \in Requested : approvals[a].payload = external /\ Sanctioned(a)
        /\ KpisApproved(external)

\* "Two deciders that both read `pending` cannot both win": an approval is decided once, by
\* one person; no decision in flight brings back one that a redirect invalidated.
DecisionIsFinal ==
    [][\A a \in Ids :
           /\ approvals[a].by # "none" => approvals'[a].by = approvals[a].by
           /\ approvals[a].status = "rejected" => approvals'[a].status = "rejected"
           /\ approvals[a].status \in {"approved", "invalidated", "executed"} =>
                 approvals'[a].status \notin {"pending", "rejected"}
           /\ approvals[a].status \in {"invalidated", "executed"} => approvals'[a].status # "approved"]_vars

\* An attempt cleared to write holds an approval of the plan it runs under, although an
\* attempt of publish_request from before a redirect may name its approval, of the old
\* plan, on the row of the new one.
ClearedForItsPlan ==
    \A p \in Attempts : attempt[p].pc \in {"cleared", "ready", "publishing"} =>
        approvals[attempt[p].approval].plan = attempt[p].plan

\* An approved publication is acted on: it is published, or its row ends, or the approval
\* is no longer open.
Approved == asked = plan /\ linked # 0 /\ approvals[linked].status = "approved" /\ row = "open" /\ run = "active"
ApprovedIsActedOn == Approved ~> ~Approved

\* An approval is open until somebody who may decides it, and whoever is about to write a
\* decision is such a person, whatever became of the approval since.
DecidedByDeciders ==
    /\ \A a \in Ids : /\ approvals[a].status \in {"absent", "pending"} => approvals[a].by = "none"
                      /\ approvals[a].status \in {"approved", "rejected", "executed"} =>
                            approvals[a].by \in Deciders
    /\ \A u \in People : decision[u] # NoDecision =>
          u \in Deciders /\ decision[u].id \in Ids /\ decision[u].verdict \in {"approved", "rejected"}
    /\ \A b \in Unapproved : kpis[b] # Requester

\* What an attempt has established when it goes on: verify saw an approval of the plan in
\* force, no older than the attempt's own; check_control saw the attempt's own in force; and the
\* definitions of its bundle are approved before the publication is opened.
AttemptsSanctioned ==
    \A p \in Attempts : attempt[p].pc # "idle" =>
        LET a == attempt[p].approval IN
        /\ a \in Ids /\ Sanctioned(a) /\ attempt[p].plan <= plan
        /\ attempt[p].pc # "started" => attempt[p].plan <= approvals[a].plan /\ approvals[a].plan <= plan
        /\ attempt[p].pc \notin {"started", "verified", "compared"} => approvals[a].plan = attempt[p].plan
        /\ attempt[p].pc \notin {"started", "verified", "compared", "cleared"} => KpisApproved(approvals[a].payload)

\* The approvals, the attempts and the BI tool together: the inductive invariant.
PublicationInv ==
    TypeOK /\ PublishesApproved /\ ClearedForItsPlan /\ DecidedByDeciders /\ AttemptsSanctioned

=============================================================================
