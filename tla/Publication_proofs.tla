-------------------------- MODULE Publication_proofs --------------------------
(* Proofs that nothing reaches the BI tool that nobody who may has         *)
(* approved, and that a decision is final.                                 *)
(*                                                                         *)
(* What the invariant needs of a step is what it does to one approval, to  *)
(* one attempt, to one decision in flight and to the BI tool: every action *)
(* is shown to be such a step, and such steps keep the invariant.          *)
EXTENDS Publication, WellFoundedInduction, TLAPS

USE PublicationAssumption

LEMMA InitInv == Init => PublicationInv
  <1> SUFFICES ASSUME Init PROVE PublicationInv OBVIOUS
  <1>1. TypeOK
    BY DEF Init, TypeOK, Approval, NoApproval, ApprovalStatus, NoRequest, NoDecision, NoAttempt
  <1>2. PublishesApproved
    BY DEF Init, PublishesApproved
  <1>3. DecidedByDeciders
    BY DEF Init, DecidedByDeciders, NoApproval, NoDecision
  <1>4. ClearedForItsPlan /\ AttemptsSanctioned
    BY DEF Init, ClearedForItsPlan, AttemptsSanctioned, NoAttempt
  <1> QED BY <1>1, <1>2, <1>3, <1>4 DEF PublicationInv

-----------------------------------------------------------------------------
(* What a step may do *)

\* The approval keeps who decided it, what it covers and under which plan.
KeepsTerms(a) ==
    /\ approvals'[a].by = approvals[a].by
    /\ approvals'[a].payload = approvals[a].payload
    /\ approvals'[a].plan = approvals[a].plan

Moves(a) ==
    \/ KeepsTerms(a) /\ approvals'[a].status = approvals[a].status
    \/ /\ approvals[a].status = "absent"
       /\ approvals'[a].status = "pending" /\ approvals'[a].by = "none"
    \/ /\ approvals[a].status = "pending"
       /\ approvals'[a].status \in {"approved", "rejected"}
       /\ approvals'[a].by \in Deciders
    \/ /\ KeepsTerms(a)
       /\ approvals[a].status \in {"pending", "approved", "invalidated", "executed"}
       /\ approvals'[a].status = "invalidated"
    \/ KeepsTerms(a) /\ Sanctioned(a) /\ approvals'[a].status = "executed"

Written == {"ready", "publishing", "succeeded", "partial", "failed"}
Late == {"cleared"} \cup Written

GoesOn(p) ==
    /\ attempt'[p].approval = attempt[p].approval /\ attempt'[p].plan = attempt[p].plan
    /\ \/ /\ attempt[p].pc = "started" /\ attempt'[p].pc = "verified"
          /\ approvals[attempt[p].approval].plan = plan
       \/ attempt[p].pc = "verified" /\ attempt'[p].pc = "compared"
       \/ attempt[p].pc = "compared" /\ attempt'[p].pc = "cleared" /\ attempt[p].plan = plan
       \/ attempt[p].pc = "cleared" /\ attempt'[p].pc = "ready" /\ KpisApproved(Bundle(p))'
       \/ attempt[p].pc \in Written /\ attempt'[p].pc \in Written

Advances(p) ==
    \/ attempt'[p] = attempt[p]
    \/ attempt'[p].pc = "idle"
    \/ /\ attempt'[p].pc = "started" /\ attempt'[p].approval \in Ids
       /\ approvals[attempt'[p].approval].status \in {"approved", "executed"}
       /\ attempt'[p].plan = plan
    \/ GoesOn(p)

DecisionMoves(u) ==
    \/ decision'[u] = decision[u]
    \/ decision'[u] = NoDecision
    \/ u \in Deciders /\ decision'[u].id \in Ids /\ decision'[u].verdict \in {"approved", "rejected"}

ToolMoves ==
    \/ external' = external
    \/ \E p \in Attempts : attempt[p].pc = "publishing" /\ external' = Bundle(p)

\* The definitions of a bundle are approved once, by somebody other than their proposer.
KpisMove ==
    \A b \in Unapproved : \/ kpis'[b] = kpis[b]
                          \/ kpis[b] = "none" /\ kpis'[b] \in People \ {Requester}

Step ==
    /\ TypeOK' /\ separate' = separate /\ KpisMove
    /\ \A a \in Ids : Moves(a)
    /\ \A p \in Attempts : Advances(p)
    /\ \A u \in People : DecisionMoves(u)
    /\ plan <= plan' /\ ToolMoves

\* A sanctioned approval stays so, for the same bundle and plan.
LEMMA SanctionedStays ==
  ASSUME PublicationInv, separate' = separate, NEW a \in Ids, Sanctioned(a), Moves(a)
  PROVE  Sanctioned(a)' /\ KeepsTerms(a)
  <1>1. Deciders' = Deciders
    BY DEF Deciders
  <1> QED BY <1>1 DEF PublicationInv, DecidedByDeciders, Sanctioned, Moves, KeepsTerms

LEMMA StepInv ==
  ASSUME PublicationInv, Step
  PROVE  PublicationInv'
  <1>1. TypeOK' /\ separate' = separate /\ Deciders' = Deciders
    BY DEF Step, Deciders
  <1>2. DecidedByDeciders'
    <2>1. \A a \in Ids : /\ approvals'[a].status \in {"absent", "pending"} => approvals'[a].by = "none"
                         /\ approvals'[a].status \in {"approved", "rejected", "executed"} =>
                              approvals'[a].by \in Deciders
      BY DEF PublicationInv, DecidedByDeciders, Step, Moves, KeepsTerms, Sanctioned
    <2>2. \A u \in People : decision'[u] # NoDecision =>
            u \in Deciders /\ decision'[u].id \in Ids /\ decision'[u].verdict \in {"approved", "rejected"}
      BY DEF PublicationInv, DecidedByDeciders, Step, DecisionMoves
    <2>3. \A b \in Unapproved : kpis'[b] # Requester
      BY DEF PublicationInv, DecidedByDeciders, Step, KpisMove
    <2> QED BY <1>1, <2>1, <2>2, <2>3 DEF DecidedByDeciders, Ids, NoDecision
  <1>3. AttemptsSanctioned'
    <2> SUFFICES ASSUME NEW p \in Attempts, attempt'[p].pc # "idle", NEW a, a = attempt'[p].approval
                 PROVE  /\ a \in Ids /\ Sanctioned(a)' /\ attempt'[p].plan <= plan'
                        /\ attempt'[p].pc # "started" =>
                             attempt'[p].plan <= approvals'[a].plan /\ approvals'[a].plan <= plan'
                        /\ attempt'[p].pc \notin {"started", "verified", "compared"} =>
                             approvals'[a].plan = attempt'[p].plan
                        /\ attempt'[p].pc \notin {"started", "verified", "compared", "cleared"} =>
                             KpisApproved(approvals[a].payload)'
      BY DEF AttemptsSanctioned, Sanctioned, Ids, KpisApproved, Deciders
    <2>1. plan \in Nat /\ plan' \in Nat /\ plan <= plan' /\ attempt[p].plan \in Nat /\ attempt'[p].plan \in Nat
      BY DEF PublicationInv, TypeOK, Step
    <2>2. a \in Ids => Moves(a) /\ approvals[a].plan \in Nat
      BY DEF PublicationInv, TypeOK, Step, Approval
    <2>6. ASSUME a \in Ids, Sanctioned(a), KpisApproved(approvals[a].payload)
          PROVE  KpisApproved(approvals[a].payload)'
      <3>1. approvals'[a].payload = approvals[a].payload
        BY <1>1, <2>2, <2>6, SanctionedStays DEF KeepsTerms
      <3>2. KpisApproved(approvals[a].payload) => kpis' = kpis' /\ KpisMove
        BY DEF Step
      <3>3. \A b : KpisApproved(b) => (b \in Unapproved => kpis'[b] \in People \ {Requester})
        BY <3>2, <2>6 DEF KpisApproved, KpisMove, PublicationInv
      <3> QED BY <2>6, <3>1, <3>3 DEF KpisApproved
    <2>3. CASE attempt'[p] = attempt[p]
      BY <1>1, <2>1, <2>2, <2>3, <2>6, SanctionedStays DEF PublicationInv, AttemptsSanctioned, KeepsTerms
    <2>4. CASE /\ attempt'[p].pc = "started" /\ a \in Ids
               /\ approvals[a].status \in {"approved", "executed"} /\ attempt'[p].plan = plan
      <3>1. Sanctioned(a)
        BY <2>4 DEF PublicationInv, DecidedByDeciders, Sanctioned
      <3> QED BY <1>1, <2>1, <2>2, <2>4, <3>1, SanctionedStays
    <2>5. CASE GoesOn(p)
      <3>1. attempt[p].pc # "idle" /\ a = attempt[p].approval
        BY <2>5 DEF GoesOn, Late, Written
      <3>2. a \in Ids /\ Sanctioned(a) /\ Sanctioned(a)' /\ approvals'[a].plan = approvals[a].plan
        BY <1>1, <2>2, <3>1, SanctionedStays DEF PublicationInv, AttemptsSanctioned, KeepsTerms
      <3>3. attempt'[p].pc \notin {"started", "verified", "compared", "cleared"} =>
              KpisApproved(approvals[a].payload)'
        <4>1. CASE attempt[p].pc = "cleared" /\ attempt'[p].pc = "ready" /\ KpisApproved(Bundle(p))'
          BY <3>1, <2>5, <4>1 DEF Bundle, GoesOn
        <4>2. CASE attempt[p].pc \in Written
          <5>1. KpisApproved(approvals[a].payload)
            BY <3>1, <4>2 DEF PublicationInv, AttemptsSanctioned, Written
          <5> QED BY <2>6, <3>2, <5>1
        <4> QED BY <2>5, <4>1, <4>2 DEF GoesOn
      <3> QED BY <2>1, <2>2, <2>5, <3>1, <3>2, <3>3 DEF PublicationInv, AttemptsSanctioned, GoesOn, Late, Written
    <2> QED BY <2>3, <2>4, <2>5 DEF Step, Advances
  <1>4. ClearedForItsPlan'
    BY <1>3 DEF ClearedForItsPlan, AttemptsSanctioned
  <1>5. PublishesApproved'
    <2> SUFFICES ASSUME external' # "none"
                 PROVE  /\ \E a \in Ids : Sanctioned(a)' /\ approvals'[a].payload = external'
                        /\ KpisApproved(external)'
      BY DEF PublishesApproved, Requested, Sanctioned, Ids, KpisApproved
    <2>1. PICK a \in Ids : Sanctioned(a) /\ approvals[a].payload = external' /\ KpisApproved(external')
      <3>1. CASE external' = external
        BY <3>1 DEF PublicationInv, PublishesApproved, Requested
      <3>2. ASSUME NEW p \in Attempts, attempt[p].pc = "publishing", external' = Bundle(p)
            PROVE  \E a \in Ids : Sanctioned(a) /\ approvals[a].payload = external' /\ KpisApproved(external')
        BY <3>2 DEF PublicationInv, AttemptsSanctioned, Bundle
      <3> QED BY <3>1, <3>2 DEF Step, ToolMoves
    <2>2. external' \in Unapproved => kpis'[external'] \in People \ {Requester}
      BY <2>1 DEF Step, KpisMove, KpisApproved
    <2>3. KpisApproved(external)'
      BY <2>2 DEF KpisApproved
    <2> QED BY <1>1, <2>1, <2>3, SanctionedStays DEF Step, KeepsTerms
  <1> QED BY <1>1, <1>2, <1>3, <1>4, <1>5 DEF PublicationInv

-----------------------------------------------------------------------------
(* Every action is such a step *)

LEMMA SameApprovals ==
  ASSUME UNCHANGED approvals
  PROVE  \A a \in Ids : Moves(a)
  BY DEF Moves, KeepsTerms

LEMMA SameAttempts ==
  ASSUME UNCHANGED attempt
  PROVE  \A p \in Attempts : Advances(p)
  BY DEF Advances

LEMMA SameDecisions ==
  ASSUME UNCHANGED decision
  PROVE  \A u \in People : DecisionMoves(u)
  BY DEF DecisionMoves

LEMMA StutterStep ==
  ASSUME PublicationInv, UNCHANGED vars
  PROVE  Step
  BY SameApprovals, SameAttempts, SameDecisions
     DEF vars, Step, PublicationInv, TypeOK, ToolMoves, KpisMove

(* publish_request *)

\* The newest of some approvals is one of them.
LEMMA NewestIsOne ==
  ASSUME NEW ids \in SUBSET Ids
  PROVE  Newest(ids) \in 0..MaxApprovals
  <1>1. CASE ids = {}
    BY <1>1 DEF Newest
  <1>2. CASE ids # {}
    <2> DEFINE Room == {MaxApprovals - a : a \in ids}
               Less == OpToRel(<, Nat)
    <2>1. Room \subseteq Nat /\ Room # {}
      <3>1. \A a \in ids : MaxApprovals - a \in Nat
        BY DEF Ids
      <3> QED BY <1>2, <3>1
    <2>2. IsWellFoundedOn(Less, Nat)
      BY NatLessThanWellFounded
    <2>3. \A m, n \in Nat : m < n => <<m, n>> \in Less
      BY DEF OpToRel
    <2> HIDE DEF Less
    <2>4. PICK least \in Room : \A n \in Room : ~(<<n, least>> \in Less)
      BY <2>1, <2>2, WFMin
    <2>5. PICK a \in ids : least = MaxApprovals - a
      BY <2>4
    <2>6. ASSUME NEW c \in ids PROVE c <= a
      <3>1. MaxApprovals - c \in Room /\ c \in Nat /\ a \in Nat
        BY DEF Ids
      <3>2. ~(MaxApprovals - c < least)
        BY <2>1, <2>3, <2>4, <3>1
      <3> QED BY <2>5, <3>1, <3>2
    <2>7. Newest(ids) \in ids
      BY <1>2, <2>6 DEF Newest
    <2>8. Newest(ids) \in Ids
      BY <2>7
    <2> QED BY <2>8 DEF Ids
  <1> QED BY <1>1, <1>2

LEMMA RequestStep ==
  ASSUME PublicationInv, NEW r \in Requests, Request(r) \/ LoseRequest(r)
  PROVE  Step
  <1>1. UNCHANGED <<decision, attempt, runVars, publications, external>>
    BY DEF Request, BuildBundle, ReadRun, CommitRequest, ReportRequest, LoseRequest, toolVars
  <1>2. \A a \in Ids : Moves(a)
    <2>1. CASE UNCHANGED approvals
      BY <2>1, SameApprovals
    <2>2. ASSUME NEW b \in Ids \ Requested, NEW n,
                 approvals' = [approvals EXCEPT ![b] = n], n.status = "pending", n.by = "none"
          PROVE  \A a \in Ids : Moves(a)
      BY <2>2 DEF PublicationInv, TypeOK, Requested, Moves, KeepsTerms
    <2> QED BY <2>1, <2>2 DEF Request, BuildBundle, ReadRun, CommitRequest, ReportRequest, LoseRequest,
                              NewApproval, NoApproval
  <1> DEFINE Record == [pc : {"idle", "built", "read", "committed"}, started : 0..MaxPlan,
                        payload : Bundles \cup {"none"}, plan : 0..MaxPlan, found : 0..MaxApprovals]
  <1>3. /\ request \in [Requests -> Record] /\ plan \in 0..MaxPlan /\ content \in Bundles
        /\ approvals \in [Ids -> Approval] /\ linked \in 0..MaxApprovals
        /\ asked \in 0..MaxPlan /\ events \in 0..MaxEvents
    BY DEF PublicationInv, TypeOK
  <1>4. NoRequest \in Record /\ request[r] \in Record
    BY <1>3 DEF NoRequest
  <1>5. /\ events' \in 0..MaxEvents /\ asked' \in 0..MaxPlan /\ request' \in [Requests -> Record]
        /\ linked' \in 0..MaxApprovals /\ approvals' \in [Ids -> Approval]
    <2>1. CASE BuildBundle(r)
      <3>1. [NoRequest EXCEPT !.pc = "built", !.started = plan, !.payload = content] \in Record
        BY <1>3, <1>4
      <3> DEFINE built == [NoRequest EXCEPT !.pc = "built", !.started = plan, !.payload = content]
      <3>2. /\ request' = [request EXCEPT ![r] = built]
            /\ UNCHANGED <<approvals, linked, asked, events>>
        BY <2>1 DEF BuildBundle, toolVars
      <3> HIDE DEF Record, built
      <3>3. built \in Record
        BY <3>1 DEF built
      <3> QED BY <1>3, <3>2, <3>3
    <2>2. CASE ReadRun(r)
      <3>1. Newest(Reusable(request[r].payload, plan)) \in 0..MaxApprovals
        BY NewestIsOne DEF Reusable
      <3> QED BY <1>3, <1>4, <2>2, <3>1 DEF ReadRun, toolVars
    <2>3. CASE CommitRequest(r)
      <3>1. request[r].payload \in Bundles \cup {"none"} /\ request[r].plan \in 0..MaxPlan
            /\ request[r].found \in 0..MaxApprovals
        BY <1>4
      <3>2. ASSUME NEW b \in Bundles \cup {"none"}, NEW v \in 0..MaxPlan
            PROVE  NewApproval(b, v) \in Approval
        <4>1. NoApproval \in Approval
          BY DEF NoApproval, Approval, ApprovalStatus
        <4> QED BY <4>1 DEF NewApproval, Approval, ApprovalStatus
      <3>3. NewApproval(request[r].payload, request[r].plan) \in Approval
        BY <3>1, <3>2
      <3>4. \A a \in Ids : a \in 0..MaxApprovals
        BY DEF Ids
      <3>5. request' = [request EXCEPT ![r].pc = "committed"] /\ UNCHANGED <<asked, events>>
        BY <2>3 DEF CommitRequest, toolVars
      <3>6. request' \in [Requests -> Record]
        BY <1>3, <1>4, <3>5
      <3>7. approvals' \in [Ids -> Approval] /\ linked' \in 0..MaxApprovals
        <4>1. CASE request[r].found # 0 /\ linked' = request[r].found /\ UNCHANGED approvals
          BY <1>3, <3>1, <4>1
        <4>2. CASE \E a \in Ids :
                     /\ approvals' = [approvals EXCEPT ![a] = NewApproval(request[r].payload, request[r].plan)]
                     /\ linked' = a
          BY <1>3, <3>3, <3>4, <4>2
        <4> QED BY <2>3, <4>1, <4>2 DEF CommitRequest
      <3> QED BY <1>3, <3>5, <3>6, <3>7
    <2>4. CASE ReportRequest(r)
      BY <1>3, <1>4, <2>4 DEF ReportRequest, toolVars
    <2>5. CASE LoseRequest(r)
      BY <1>3, <1>4, <2>5 DEF LoseRequest, Event
    <2> QED BY <2>1, <2>2, <2>3, <2>4, <2>5 DEF Request
  <1>6. TypeOK'
    BY <1>1, <1>5 DEF PublicationInv, TypeOK, runVars, duties
  <1> QED BY <1>1, <1>2, <1>6, SameAttempts, SameDecisions
          DEF Step, ToolMoves, KpisMove, runVars, duties, PublicationInv, TypeOK

(* decide *)

LEMMA DecideStep ==
  ASSUME PublicationInv, NEW u \in People, Decide(u)
  PROVE  Step
  <1>1. CASE \E a \in Ids, verdict \in {"approved", "rejected"} : ReadDecision(u, a, verdict)
    <2>1. PICK a \in Ids, verdict \in {"approved", "rejected"} : ReadDecision(u, a, verdict)
      BY <1>1
    <2>2. /\ u \in Deciders /\ decision' = [decision EXCEPT ![u] = [id |-> a, verdict |-> verdict]]
          /\ UNCHANGED <<approvals, linked, asked, request, attempt, runVars, toolVars>>
      BY <2>1 DEF ReadDecision, MayDecide, Own, Deciders
    <2>3. TypeOK'
      BY <2>2 DEF PublicationInv, TypeOK, Ids, runVars, duties, toolVars
    <2>4. \A w \in People : DecisionMoves(w)
      BY <2>2 DEF DecisionMoves, PublicationInv, TypeOK
    <2> QED BY <2>2, <2>3, <2>4, SameApprovals, SameAttempts
            DEF Step, ToolMoves, KpisMove, runVars, duties, toolVars, PublicationInv, TypeOK
  <1>2. CASE \E a \in Ids : RefuseDecision(u, a)
    BY <1>2, StutterStep DEF RefuseDecision
  <1>3. CASE WriteDecision(u)
    <2> DEFINE d == decision[u]
    <2>1. /\ u \in Deciders /\ d.id \in Ids /\ d.verdict \in {"approved", "rejected"}
          /\ Claim(d.id, d.verdict, u)
          /\ decision' = [decision EXCEPT ![u] = NoDecision]
          /\ UNCHANGED <<linked, asked, request, attempt, runVars, toolVars>>
      BY <1>3 DEF WriteDecision, PublicationInv, DecidedByDeciders
    <2> HIDE DEF d
    <2>2. approvals' = approvals \/ /\ approvals[d.id].status = "pending"
                                    /\ approvals' = [approvals EXCEPT ![d.id].status = d.verdict, ![d.id].by = u]
      BY <2>1 DEF Claim
    <2>3. approvals' \in [Ids -> Approval] /\ \A a \in Ids : Moves(a)
      <3>1. approvals \in [Ids -> Approval] /\ approvals[d.id] \in Approval
        BY <2>1 DEF PublicationInv, TypeOK
      <3> QED BY <2>1, <2>2, <3>1 DEF Moves, KeepsTerms, Approval, ApprovalStatus
    <2>5. TypeOK'
      BY <2>1, <2>3 DEF PublicationInv, TypeOK, NoDecision, runVars, duties, toolVars
    <2>4. \A w \in People : DecisionMoves(w)
      BY <2>1 DEF DecisionMoves, PublicationInv, TypeOK
    <2> QED BY <2>1, <2>3, <2>4, <2>5, SameAttempts
            DEF Step, ToolMoves, KpisMove, runVars, duties, toolVars, PublicationInv, TypeOK
  <1> QED BY <1>1, <1>2, <1>3 DEF Decide

(* publish *)

Phases == {"idle", "started", "verified", "compared", "cleared", "ready", "publishing", "succeeded", "partial", "failed"}
InFlight == [pc : Phases, approval : 0..MaxApprovals, plan : 0..MaxPlan]

\* An attempt that ends leaves the others where they are.
LEMMA EndsMoves ==
  ASSUME PublicationInv, NEW p \in Attempts, Ends(p)
  PROVE  /\ attempt' \in [Attempts -> InFlight] /\ row' \in {"open", "over"} /\ holder' \in Attempts \cup {"none"}
         /\ \A q \in Attempts : Advances(q)
  <1>1. NoAttempt \in InFlight /\ NoAttempt.pc = "idle"
    BY DEF NoAttempt, InFlight, Phases
  <1>2. /\ attempt \in [Attempts -> InFlight] /\ row \in {"open", "over"} /\ holder \in Attempts \cup {"none"}
        /\ attempt' = [attempt EXCEPT ![p] = NoAttempt]
        /\ row' \in {row, "over"} /\ holder' \in {holder, "none"}
    BY DEF PublicationInv, TypeOK, InFlight, Phases, Ends
  <1>3. \A q \in Attempts : attempt'[q] = NoAttempt \/ attempt'[q] = attempt[q]
    BY <1>2
  <1> QED BY <1>1, <1>2, <1>3 DEF Advances

\* So does one that goes on.
LEMMA ContinuesMoves ==
  ASSUME PublicationInv, NEW p \in Attempts, NEW pc \in Phases, Continues(p, pc)
  PROVE  /\ attempt' \in [Attempts -> InFlight] /\ row' \in {"open", "over"} /\ holder' \in Attempts \cup {"none"}
         /\ attempt'[p].pc = pc /\ attempt'[p].approval = attempt[p].approval
         /\ attempt'[p].plan = attempt[p].plan
         /\ GoesOn(p) => \A q \in Attempts : Advances(q)
  <1>1. /\ attempt \in [Attempts -> InFlight] /\ row \in {"open", "over"} /\ holder \in Attempts \cup {"none"}
        /\ attempt' = [attempt EXCEPT ![p].pc = pc] /\ UNCHANGED <<row, holder>>
    BY DEF PublicationInv, TypeOK, InFlight, Phases, Continues, Phase
  <1>2. \A q \in Attempts : q # p => attempt'[q] = attempt[q]
    BY <1>1
  <1> QED BY <1>1, <1>2 DEF InFlight, Advances

\* A new status for the approval of an attempt in flight.
LEMMA SettlesMoves ==
  ASSUME PublicationInv, NEW p \in Attempts, attempt[p].pc # "idle", NEW to \in {"invalidated", "executed"},
         approvals' = [approvals EXCEPT ![attempt[p].approval].status = to]
  PROVE  approvals' \in [Ids -> Approval] /\ \A a \in Ids : Moves(a)
  <1>1. /\ approvals \in [Ids -> Approval] /\ attempt[p].approval \in Ids /\ Sanctioned(attempt[p].approval)
    BY DEF PublicationInv, TypeOK, AttemptsSanctioned
  <1> QED BY <1>1 DEF Approval, ApprovalStatus, Moves, KeepsTerms, Sanctioned

\* What a publication leaves alone.
LEMMA PublishKeeps ==
  ASSUME PublicationInv, NEW p \in Attempts, Publish(p)
  PROVE  UNCHANGED <<linked, plan, policy, separate, run, content, approvers, editor, asked, request, decision, events>>
  BY DEF Publish, StartPublish, Verify, CompareBundle, CheckControl, ApproveMetrics, OpenPublication, CallTool,
         RecordPublication, Ends, Continues, userState, toolVars

\* The rest of a publication's step, from what it does to the approvals, the attempts and the tool.
LEMMA PublishIsStep ==
  ASSUME PublicationInv, NEW p \in Attempts, Publish(p),
         approvals' \in [Ids -> Approval], \A a \in Ids : Moves(a),
         attempt' \in [Attempts -> InFlight], \A q \in Attempts : Advances(q),
         row' \in {"open", "over"}, holder' \in Attempts \cup {"none"},
         publications' \in [Bundles -> {"none", "started", "succeeded", "partial", "failed"}],
         external' \in Bundles \cup {"none"}, ToolMoves,
         kpis' \in [Unapproved -> People \cup {"none"}], KpisMove
  PROVE  Step
  <1>1. UNCHANGED <<linked, plan, policy, separate, run, content, approvers, editor, asked, request, decision, events>>
    BY PublishKeeps
  <1>2. TypeOK'
    BY <1>1 DEF PublicationInv, TypeOK, InFlight, Phases
  <1> QED BY <1>1, <1>2, SameDecisions DEF Step, PublicationInv, TypeOK

LEMMA PublishStep ==
  ASSUME PublicationInv, NEW p \in Attempts, Publish(p)
  PROVE  Step
  <1> DEFINE Results == {"none", "started", "succeeded", "partial", "failed"}
  <1>0. /\ approvals \in [Ids -> Approval] /\ publications \in [Bundles -> Results]
        /\ external \in Bundles \cup {"none"} /\ kpis \in [Unapproved -> People \cup {"none"}]
    BY DEF PublicationInv, TypeOK
  <1>1. CASE StartPublish(p)
    <2> DEFINE started == [pc |-> "started", approval |-> linked, plan |-> plan]
    <2>1. /\ linked \in Ids /\ approvals[linked].status \in {"approved", "executed"}
          /\ attempt' = [attempt EXCEPT ![p] = started]
          /\ holder' = p /\ UNCHANGED <<approvals, row, publications, external, kpis>>
      BY <1>1 DEF StartPublish, Gated, PublicationInv, TypeOK, Ids, toolVars
    <2>2. /\ attempt \in [Attempts -> InFlight] /\ row \in {"open", "over"} /\ started \in InFlight
          /\ started.pc = "started" /\ started.approval = linked /\ started.plan = plan
      BY DEF PublicationInv, TypeOK, InFlight, Phases
    <2> HIDE DEF started
    <2>3. attempt' \in [Attempts -> InFlight] /\ \A q \in Attempts : Advances(q)
      BY <2>1, <2>2 DEF Advances
    <2> QED BY <1>0, <2>1, <2>2, <2>3, SameApprovals, PublishIsStep DEF ToolMoves, KpisMove
  <1>2. CASE Verify(p)
    <2>1. /\ attempt[p].pc = "started" /\ UNCHANGED <<approvals, publications, external, kpis>>
          /\ Ends(p) \/ (Continues(p, "verified") /\ approvals[attempt[p].approval].plan = plan)
      BY <1>2 DEF Verify, Verified, toolVars
    <2>2. "verified" \in Phases
      BY DEF Phases
    <2>3. CASE Ends(p)
      BY <1>0, <2>1, <2>3, EndsMoves, SameApprovals, PublishIsStep DEF ToolMoves, KpisMove
    <2>4. CASE Continues(p, "verified") /\ approvals[attempt[p].approval].plan = plan
      <3>1. GoesOn(p)
        BY <2>1, <2>2, <2>4, ContinuesMoves DEF GoesOn
      <3> QED BY <1>0, <2>1, <2>2, <2>4, <3>1, ContinuesMoves, SameApprovals, PublishIsStep DEF ToolMoves, KpisMove
    <2> QED BY <2>1, <2>3, <2>4
  <1>3. CASE CompareBundle(p)
    <2>1. /\ attempt[p].pc = "verified" /\ UNCHANGED <<publications, external, kpis>>
          /\ \/ Continues(p, "compared") /\ UNCHANGED approvals
             \/ Ends(p) /\ approvals' = [approvals EXCEPT ![attempt[p].approval].status = "invalidated"]
      BY <1>3 DEF CompareBundle, toolVars
    <2>2. "compared" \in Phases
      BY DEF Phases
    <2>3. CASE Ends(p) /\ approvals' = [approvals EXCEPT ![attempt[p].approval].status = "invalidated"]
      BY <1>0, <2>1, <2>3, EndsMoves, SettlesMoves, PublishIsStep DEF ToolMoves, KpisMove
    <2>4. CASE Continues(p, "compared") /\ UNCHANGED approvals
      <3>1. GoesOn(p)
        BY <2>1, <2>2, <2>4, ContinuesMoves DEF GoesOn
      <3> QED BY <1>0, <2>1, <2>2, <2>4, <3>1, ContinuesMoves, SameApprovals, PublishIsStep DEF ToolMoves, KpisMove
    <2> QED BY <2>1, <2>3, <2>4
  <1>4. CASE CheckControl(p)
    <2>1. /\ attempt[p].pc = "compared" /\ UNCHANGED <<approvals, publications, external, kpis>>
          /\ Ends(p) \/ (Continues(p, "cleared") /\ attempt[p].plan = plan)
      BY <1>4 DEF CheckControl, Stopped, toolVars
    <2>2. "cleared" \in Phases
      BY DEF Phases
    <2>3. CASE Ends(p)
      BY <1>0, <2>1, <2>3, EndsMoves, SameApprovals, PublishIsStep DEF ToolMoves, KpisMove
    <2>4. CASE Continues(p, "cleared") /\ attempt[p].plan = plan
      <3>1. GoesOn(p)
        BY <2>1, <2>2, <2>4, ContinuesMoves DEF GoesOn
      <3> QED BY <1>0, <2>1, <2>2, <2>4, <3>1, ContinuesMoves, SameApprovals, PublishIsStep DEF ToolMoves, KpisMove
    <2> QED BY <2>1, <2>3, <2>4
  <1>5. CASE OpenPublication(p)
    <2>1. /\ attempt[p].pc = "ready" /\ UNCHANGED <<approvals, external, kpis>>
          /\ Ends(p) \/ Continues(p, "publishing")
          /\ UNCHANGED publications \/
                publications' = [publications EXCEPT ![Bundle(p)] = IF @ = "none" THEN "started" ELSE @]
      BY <1>5 DEF OpenPublication
    <2>2. "publishing" \in Phases
      BY DEF Phases
    <2>3. publications' \in [Bundles -> Results]
      BY <1>0, <2>1
    <2>4. CASE Ends(p)
      BY <1>0, <2>1, <2>3, <2>4, EndsMoves, SameApprovals, PublishIsStep DEF ToolMoves, KpisMove
    <2>5. CASE Continues(p, "publishing")
      <3>1. GoesOn(p)
        BY <2>1, <2>2, <2>5, ContinuesMoves DEF GoesOn, Late, Written
      <3> QED BY <1>0, <2>1, <2>2, <2>3, <2>5, <3>1, ContinuesMoves, SameApprovals, PublishIsStep DEF ToolMoves, KpisMove
    <2> QED BY <2>1, <2>4, <2>5
  <1>6. ASSUME NEW result \in {"succeeded", "partial", "failed"}, CallTool(p, result)
        PROVE  Step
    <2>1. /\ attempt[p].pc = "publishing" /\ UNCHANGED <<approvals, publications, kpis>>
          /\ external' = Bundle(p) /\ Continues(p, result)
      BY <1>6 DEF CallTool
    <2>2. result \in Phases
      BY DEF Phases
    <2>3. GoesOn(p)
      BY <2>1, <2>2, ContinuesMoves DEF GoesOn, Late, Written
    <2>4. external' \in Bundles \cup {"none"}
      BY <1>0, <2>1 DEF Bundle, PublicationInv, AttemptsSanctioned, Approval
    <2>5. ToolMoves
      BY <2>1 DEF ToolMoves
    <2> QED BY <1>0, <2>1, <2>2, <2>3, <2>4, <2>5, ContinuesMoves, SameApprovals, PublishIsStep DEF KpisMove
  <1>7. CASE RecordPublication(p)
    <2>1. /\ attempt[p].pc \in {"succeeded", "partial", "failed"} /\ UNCHANGED <<external, kpis>> /\ Ends(p)
          /\ publications' = [publications EXCEPT ![Bundle(p)] = attempt[p].pc]
          /\ UNCHANGED approvals \/ approvals' = [approvals EXCEPT ![attempt[p].approval].status = "executed"]
      BY <1>7 DEF RecordPublication
    <2>2. publications' \in [Bundles -> Results]
      BY <1>0, <2>1
    <2>3. approvals' \in [Ids -> Approval] /\ \A a \in Ids : Moves(a)
      BY <1>0, <2>1, SettlesMoves, SameApprovals
    <2> QED BY <1>0, <2>1, <2>2, <2>3, EndsMoves, PublishIsStep DEF ToolMoves, KpisMove
  <1>8. CASE ApproveMetrics(p)
    <2> DEFINE b == Bundle(p)
               approver == approvals[attempt[p].approval].by
    <2>1. /\ attempt[p].pc = "cleared" /\ UNCHANGED <<approvals, publications, external>>
          /\ \/ Continues(p, "ready") /\ UNCHANGED kpis /\ (b \in Unapproved => kpis[b] # "none")
             \/ /\ Continues(p, "ready") /\ b \in Unapproved /\ kpis[b] = "none"
                /\ approver \in People \ {Requester} /\ kpis' = [kpis EXCEPT ![b] = approver]
             \/ Ends(p) /\ UNCHANGED kpis
      BY <1>8 DEF ApproveMetrics, toolVars, PublicationInv, TypeOK
    <2> HIDE DEF b, approver
    <2>2. "ready" \in Phases
      BY DEF Phases
    <2>3. kpis' \in [Unapproved -> People \cup {"none"}] /\ KpisMove
      BY <1>0, <2>1 DEF KpisMove
    <2>4. CASE Ends(p)
      BY <1>0, <2>1, <2>3, <2>4, EndsMoves, SameApprovals, PublishIsStep DEF ToolMoves
    <2>5. CASE Continues(p, "ready") /\ (b \in Unapproved => kpis'[b] \in People \ {Requester})
      <3>1. /\ attempt'[p].approval = attempt[p].approval /\ attempt'[p].plan = attempt[p].plan
            /\ attempt'[p].pc = "ready" /\ Bundle(p)' = b
        BY <2>1, <2>2, <2>5, ContinuesMoves DEF b, Bundle
      <3>2. KpisApproved(Bundle(p))'
        BY <2>5, <3>1 DEF KpisApproved
      <3>3. GoesOn(p)
        BY <2>1, <3>1, <3>2 DEF GoesOn
      <3> QED BY <1>0, <2>1, <2>2, <2>3, <2>5, <3>3, ContinuesMoves, SameApprovals, PublishIsStep DEF ToolMoves
    <2>6. b \in Unapproved /\ kpis[b] # "none" => kpis[b] \in People \ {Requester}
      BY <1>0 DEF PublicationInv, DecidedByDeciders
    <2> QED BY <1>0, <2>1, <2>4, <2>5, <2>6
  <1> QED BY <1>1, <1>2, <1>3, <1>4, <1>5, <1>6, <1>7, <1>8 DEF Publish

(* What happens around it *)

\* invalidate_run_approvals moves open approvals only.
LEMMA InvalidateMoves ==
  ASSUME PublicationInv, InvalidateApprovals
  PROVE  approvals' \in [Ids -> Approval] /\ \A a \in Ids : Moves(a)
  <1>1. approvals \in [Ids -> Approval]
    BY DEF PublicationInv, TypeOK
  <1>2. ASSUME NEW a \in Ids
        PROVE  approvals'[a] \in Approval /\ Moves(a)
    BY <1>1 DEF InvalidateApprovals, Approval, ApprovalStatus, Moves, KeepsTerms
  <1>3. approvals' \in [Ids -> Approval]
    BY <1>2 DEF InvalidateApprovals
  <1> QED BY <1>2, <1>3

LEMMA EnvironmentStep ==
  ASSUME PublicationInv,
         Environment \/ SkipPublish, \A r \in Requests : ~LoseRequest(r)
  PROVE  Step
  <1>1. ASSUME NEW p \in Attempts, NEW dead \in BOOLEAN, GiveUp(p, dead)
        PROVE  Step
    <2>1. UNCHANGED attempt \/ attempt' = [attempt EXCEPT ![p] = NoAttempt]
      BY <1>1 DEF GiveUp
    <2>2. NoAttempt \in InFlight /\ NoAttempt.pc = "idle"
      BY DEF NoAttempt, InFlight, Phases
    <2>3. attempt \in [Attempts -> InFlight]
      BY DEF PublicationInv, TypeOK, InFlight, Phases
    <2>4. attempt' \in [Attempts -> InFlight] /\ \A q \in Attempts : Advances(q)
      BY <2>1, <2>2, <2>3 DEF Advances
    <2>5. /\ UNCHANGED <<approvals, linked, row, asked, request, decision, kpis, userState, publications, external>>
          /\ holder' = "none" /\ events' \in 0..MaxEvents
      BY <1>1 DEF GiveUp, Event, PublicationInv, TypeOK
    <2>6. TypeOK'
      BY <2>4, <2>5 DEF PublicationInv, TypeOK, InFlight, Phases, userState
    <2> QED BY <2>4, <2>5, <2>6, SameApprovals, SameDecisions
            DEF Step, ToolMoves, KpisMove, userState, PublicationInv, TypeOK
  <1>2. CASE Replan \/ FinishCancelled
    <2>1. /\ InvalidateApprovals /\ UNCHANGED <<attempt, decision, external, separate, kpis>>
          /\ plan <= plan' /\ plan' \in 1..MaxPlan
      BY <1>2 DEF Replan, FinishCancelled, PublicationInv, TypeOK, duties, toolVars
    <2>2. approvals' \in [Ids -> Approval] /\ \A a \in Ids : Moves(a)
      BY <2>1, InvalidateMoves
    <2>3. TypeOK'
      BY <1>2, <2>1, <2>2 DEF Replan, FinishCancelled, PublicationInv, TypeOK, toolVars
    <2> QED BY <2>1, <2>2, <2>3, SameAttempts, SameDecisions DEF Step, ToolMoves, KpisMove
  <1>3. ASSUME NEW b \in Ids, Lapse(b)
        PROVE  Step
    <2>1. /\ approvals' = [approvals EXCEPT ![b].lapsed = TRUE] /\ events' \in 0..MaxEvents
          /\ UNCHANGED <<linked, asked, request, decision, attempt, runVars, publications, external>>
      BY <1>3 DEF Lapse, Event, PublicationInv, TypeOK
    <2>2. approvals' \in [Ids -> Approval] /\ \A a \in Ids : Moves(a)
      <3>1. approvals \in [Ids -> Approval] /\ approvals[b] \in Approval
        BY DEF PublicationInv, TypeOK
      <3>2. approvals' \in [Ids -> Approval]
        BY <2>1, <3>1 DEF Approval
      <3>3. \A a \in Ids : KeepsTerms(a) /\ approvals'[a].status = approvals[a].status
        BY <2>1, <3>1 DEF KeepsTerms, Approval
      <3> QED BY <3>2, <3>3 DEF Moves
    <2>3. TypeOK'
      BY <2>1, <2>2 DEF PublicationInv, TypeOK, runVars, duties
    <2> QED BY <2>1, <2>2, <2>3, SameAttempts, SameDecisions
            DEF Step, ToolMoves, KpisMove, runVars, duties, PublicationInv, TypeOK
  <1>4. CASE (\E b \in Bundles : EditContent(b)) \/ ChangePolicy \/ (\E u \in People : Revoke(u)) \/ AskCancel
             \/ SkipPublish
    <2>1. UNCHANGED <<approvals, decision, attempt, plan, external, separate, kpis>>
      BY <1>4 DEF EditContent, ChangePolicy, Revoke, AskCancel, SkipPublish, duties, userState, toolVars
    <2>2. TypeOK'
      <3>1. CASE SkipPublish
        BY <3>1 DEF SkipPublish, userState, toolVars, PublicationInv, TypeOK
      <3>2. CASE ChangePolicy
        BY <3>2 DEF ChangePolicy, Event, duties, PublicationInv, TypeOK
      <3>3. CASE AskCancel
        BY <3>3 DEF AskCancel, Event, duties, PublicationInv, TypeOK
      <3>4. ASSUME NEW b \in Bundles, EditContent(b) PROVE TypeOK'
        BY <3>4 DEF EditContent, Event, duties, PublicationInv, TypeOK
      <3>5. ASSUME NEW u \in People, Revoke(u) PROVE TypeOK'
        <4>1. approvers' \in SUBSET People /\ editor' \in BOOLEAN /\ events' \in 0..MaxEvents
          BY <3>5 DEF Revoke, Event, PublicationInv, TypeOK
        <4> QED BY <3>5, <4>1 DEF Revoke, duties, PublicationInv, TypeOK
      <3> QED BY <1>4, <3>1, <3>2, <3>3, <3>4, <3>5
    <2> QED BY <2>1, <2>2, SameApprovals, SameAttempts, SameDecisions
            DEF Step, ToolMoves, KpisMove, PublicationInv, TypeOK
  <1> QED BY <1>1, <1>2, <1>3, <1>4 DEF Environment

LEMMA NextStep ==
  ASSUME PublicationInv, [Next]_vars
  PROVE  Step
  <1>1. CASE \E r \in Requests : Request(r) \/ LoseRequest(r)
    BY <1>1, RequestStep
  <1>2. CASE \E u \in People : Decide(u)
    BY <1>2, DecideStep
  <1>3. CASE \E p \in Attempts : Publish(p)
    BY <1>3, PublishStep
  <1>4. CASE (Environment \/ SkipPublish) /\ \A r \in Requests : ~LoseRequest(r)
    BY <1>4, EnvironmentStep
  <1>5. CASE UNCHANGED vars
    BY <1>5, StutterStep
  <1> QED BY <1>1, <1>2, <1>3, <1>4, <1>5 DEF Next

-----------------------------------------------------------------------------

\* Whatever redirects, edits, policy changes, revocations, cancels and retries commit
\* between the steps of a decision or a publication, the invariant holds.
THEOREM Invariance == Spec => []PublicationInv
  <1>1. PublicationInv /\ [Next]_vars => PublicationInv'
    BY NextStep, StepInv
  <1> QED BY <1>1, InitInv, PTL DEF Spec

\* Every reachable state is well typed.
THEOREM TypeCorrect == Spec => []TypeOK
  <1>1. PublicationInv => TypeOK
    BY DEF PublicationInv
  <1> QED BY <1>1, Invariance, PTL

\* "Nothing is published until a person approves": what the BI tool shows was approved, as it is,
\* by a person: under separation of duties somebody other than the requester, who never approves
\* its KPI definitions either way.
THEOREM PublishesApprovedAlways == Spec => []PublishesApproved
  <1>1. PublicationInv => PublishesApproved
    BY DEF PublicationInv
  <1> QED BY <1>1, Invariance, PTL

\* The claim of decide is a compare-and-set: whoever comes second changes nothing, and what is
\* invalidated, executed or rejected is never open again.
THEOREM DecisionIsFinalAlways == Spec => DecisionIsFinal
  <1>1. ASSUME PublicationInv, [Next]_vars, NEW a \in Ids
        PROVE  /\ approvals[a].by # "none" => approvals'[a].by = approvals[a].by
               /\ approvals[a].status = "rejected" => approvals'[a].status = "rejected"
               /\ approvals[a].status \in {"approved", "invalidated", "executed"} =>
                     approvals'[a].status \notin {"pending", "rejected"}
               /\ approvals[a].status \in {"invalidated", "executed"} => approvals'[a].status # "approved"
    <2>1. Moves(a)
      BY <1>1, NextStep DEF Step
    <2> QED BY <1>1, <2>1 DEF PublicationInv, DecidedByDeciders, Moves, KeepsTerms, Sanctioned
  <1>2. PublicationInv /\ [Next]_vars =>
          [\A a \in Ids :
             /\ approvals[a].by # "none" => approvals'[a].by = approvals[a].by
             /\ approvals[a].status = "rejected" => approvals'[a].status = "rejected"
             /\ approvals[a].status \in {"approved", "invalidated", "executed"} =>
                   approvals'[a].status \notin {"pending", "rejected"}
             /\ approvals[a].status \in {"invalidated", "executed"} => approvals'[a].status # "approved"]_vars
    BY <1>1
  <1> QED BY <1>2, Invariance, PTL DEF Spec, DecisionIsFinal

=============================================================================
