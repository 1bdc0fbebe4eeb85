------------------------ MODULE TaskClaims_proofs ------------------------
(* Proofs that every run keeps the claim protocol of TaskClaims.           *)
EXTENDS TaskClaims, TLAPS

LEMMA BlankType == Blank \in Attempt /\ Blank.pc = "idle" /\ Blank.ctx = 0
  BY ClaimsAssumption DEF Blank, Attempt, Phases, TaskStatus

LEMMA NoRowType == NoRow \in Row /\ NoRow.status = "ABSENT" /\ NoRow.id = 0
                   /\ NoRow.version = 0 /\ NoRow.since = 0 /\ NoRow.by = 0
  BY DEF NoRow, Row, TaskStatus

LEMMA NewRowType ==
  ASSUME NEW id \in Nat, NEW v \in Nat
  PROVE  /\ NewRow(id, v) \in Row
         /\ NewRow(id, v).status = "NEW"
         /\ NewRow(id, v).id = id
         /\ NewRow(id, v).claim = 0
         /\ NewRow(id, v).version = v
         /\ NewRow(id, v).since = v
  BY DEF NewRow, NoRow, Row, TaskStatus

LEMMA InitInv == Init => ClaimsInv
  <1> SUFFICES ASSUME Init PROVE ClaimsInv OBVIOUS
  <1>1. \A w \in Workers : attempt[w] = Blank
    BY DEF Init
  <1>2. \A k \in Static : task[k] = NewRow(1, 1)
    BY ClaimsAssumption DEF Init, Static
  <1>3. \A k \in Keys \ Static : task[k] = NoRow
    BY ClaimsAssumption DEF Init
  <1>4. TypeOK
    <2>1. task \in [Keys -> Row]
      BY <1>2, <1>3, NoRowType, NewRowType DEF Init
    <2>2. attempt \in [Workers -> Attempt]
      BY <1>1, BlankType DEF Init
    <2> QED BY <2>1, <2>2 DEF TypeOK, Init, Controls
  <1>5. RowIds
    BY <1>2, <1>3, NoRowType, NewRowType DEF RowIds, Init, Exists, Static
  <1>6. AttemptRows /\ NewestClaim /\ CompletedUnheld /\ ClaimedOnce
    BY <1>1, BlankType DEF AttemptRows, NewestClaim, CompletedUnheld, ClaimedOnce, Busy, InFlight
  <1>7. PastPlans
    BY <1>1, <1>2, <1>3, BlankType, NoRowType, NewRowType DEF PastPlans, Init, Static
  <1>8. ResultOfItsPlan
    BY <1>2, <1>3, NoRowType, NewRowType DEF ResultOfItsPlan, Static
  <1> QED BY <1>4, <1>5, <1>6, <1>7, <1>8 DEF ClaimsInv


-----------------------------------------------------------------------------
(* Steps of one worker *)

LEMMA ReadClaimInv ==
  ASSUME ClaimsInv, NEW w \in Workers, NEW k \in Keys, ReadClaim(w, k)
  PROVE  ClaimsInv'
  <1> DEFINE b == [pc |-> "claiming", key |-> k, row |-> task[k].id, claim |-> task[k].claim,
                   version |-> task[k].version, seen |-> task[k].status, ctx |-> 0]
  <1>1. /\ attempt' = [attempt EXCEPT ![w] = b]
        /\ UNCHANGED <<task, planVersion, control, wsEnabled, nextRow>>
        /\ Exists(k) /\ task[k].status # "COMPLETED"
    BY DEF ReadClaim
  <1>2. task[k] \in Row /\ attempt \in [Workers -> Attempt]
    BY DEF ClaimsInv, TypeOK
  <1>3. b \in Attempt
    BY <1>1, <1>2 DEF Attempt, Row, Phases, Exists, TaskStatus
  <1>4. /\ attempt' \in [Workers -> Attempt]
        /\ attempt'[w] = b
        /\ \A v \in Workers : v # w => attempt'[v] = attempt[v]
    BY <1>1, <1>2, <1>3
  <1> HIDE DEF b
  <1>5. b.pc = "claiming" /\ b.key = k /\ b.row = task[k].id /\ b.seen = task[k].status /\ b.ctx = 0
    BY DEF b
  <1>6. TypeOK'
    BY <1>1, <1>4 DEF ClaimsInv, TypeOK
  <1>7. RowIds'
    BY <1>1 DEF ClaimsInv, RowIds, Exists
  <1>8. AttemptRows'
    BY <1>1, <1>4, <1>5 DEF ClaimsInv, AttemptRows, RowIds, Busy, Exists
  <1>9. PastPlans'
    BY <1>1, <1>4, <1>5 DEF ClaimsInv, PastPlans, TypeOK
  <1>10. NewestClaim' /\ CompletedUnheld'
    BY <1>1, <1>4, <1>5 DEF ClaimsInv, NewestClaim, CompletedUnheld, InFlight
  <1>11. ClaimedOnce'
    BY <1>1, <1>4, <1>5 DEF ClaimsInv, ClaimedOnce, InFlight
  <1>12. ResultOfItsPlan'
    BY <1>1 DEF ClaimsInv, ResultOfItsPlan
  <1> QED BY <1>6, <1>7, <1>8, <1>9, <1>10, <1>11, <1>12 DEF ClaimsInv

LEMMA ClaimedRowType ==
  ASSUME NEW t \in Row, NEW c \in Nat
  PROVE  /\ ClaimedRow(t, c) \in Row /\ ClaimedRow(t, c).status = "RUNNING"
         /\ ClaimedRow(t, c).id = t.id /\ ClaimedRow(t, c).claim = c
         /\ ClaimedRow(t, c).version = t.version /\ ClaimedRow(t, c).since = t.since
  <1> DEFINE m == t.tries + 1
             r == [t EXCEPT !.status = "RUNNING", !.claim = c, !.tries = m, !.fresh = TRUE]
  <1>1. m \in Nat
    BY DEF Row
  <1>2. ClaimedRow(t, c) = r
    BY DEF ClaimedRow
  <1> HIDE DEF m
  <1>3. r \in Row /\ r.status = "RUNNING" /\ r.id = t.id /\ r.claim = c /\ r.version = t.version /\ r.since = t.since
    BY <1>1 DEF Row, TaskStatus
  <1> QED BY <1>2, <1>3

LEMMA ClaimedByType ==
  ASSUME NEW a \in Attempt, NEW c \in Nat
  PROVE  /\ ClaimedBy(a, c) \in Attempt /\ ClaimedBy(a, c).pc = "claimed"
         /\ ClaimedBy(a, c).key = a.key /\ ClaimedBy(a, c).row = a.row
         /\ ClaimedBy(a, c).claim = c /\ ClaimedBy(a, c).ctx = a.ctx
  BY DEF ClaimedBy, Attempt, Phases, TaskStatus

LEMMA WinClaimInv ==
  ASSUME ClaimsInv, NEW w \in Workers, WinClaim(w)
  PROVE  ClaimsInv'
  <1> DEFINE k == attempt[w].key
             r == ClaimedRow(task[k], attempt[w].claim + 1)
             b == ClaimedBy(attempt[w], attempt[w].claim + 1)
  <1>1. attempt \in [Workers -> Attempt] /\ task \in [Keys -> Row] /\ k \in Keys /\ attempt[w].claim + 1 \in Nat
    BY DEF ClaimsInv, TypeOK, Attempt
  <1>2. /\ attempt[w].pc = "claiming"
        /\ task[k].id = attempt[w].row /\ task[k].claim = attempt[w].claim
        /\ task[k].status = attempt[w].seen
        /\ task' = [task EXCEPT ![k] = r]
        /\ attempt' = [attempt EXCEPT ![w] = b]
        /\ UNCHANGED <<planVersion, control, wsEnabled, nextRow>>
    BY <1>1 DEF WinClaim, ClaimMatches, SetRow
  <1>3. /\ r \in Row /\ r.status = "RUNNING" /\ r.id = task[k].id /\ r.claim = task[k].claim + 1
        /\ r.version = task[k].version /\ r.since = task[k].since
    BY <1>1, <1>2, ClaimedRowType
  <1>4. /\ b \in Attempt /\ b.pc = "claimed" /\ b.key = k /\ b.row = attempt[w].row
        /\ b.claim = r.claim /\ b.ctx = attempt[w].ctx
    BY <1>1, <1>2, <1>3, ClaimedByType
  <1>5. /\ task'[k] = r /\ \A j \in Keys : j # k => task'[j] = task[j]
        /\ attempt'[w] = b /\ \A v \in Workers : v # w => attempt'[v] = attempt[v]
    BY <1>1, <1>2
  <1>6. task[k].claim \in Nat /\ \A v \in Workers : attempt[v].claim \in Nat /\ attempt[v].key \in Keys
    BY <1>1 DEF Attempt, Row
  <1>7. task[k].id >= 1 /\ task[k].id < nextRow /\ Exists(k)
    BY <1>1, <1>2 DEF ClaimsInv, AttemptRows, RowIds, Busy, Exists, TypeOK, Row
  <1> HIDE DEF r, b
  <1>8. TypeOK'
    BY <1>1, <1>2, <1>3, <1>4 DEF ClaimsInv, TypeOK
  <1>9. RowIds'
    BY <1>1, <1>2, <1>3, <1>5, <1>7 DEF ClaimsInv, RowIds, Exists, Static
  <1>10. AttemptRows'
    BY <1>2, <1>4, <1>5 DEF ClaimsInv, AttemptRows, Busy
  <1>11. PastPlans'
    BY <1>2, <1>3, <1>4, <1>5 DEF ClaimsInv, PastPlans
  <1>12. NewestClaim'
    BY <1>2, <1>3, <1>4, <1>5, <1>6 DEF ClaimsInv, NewestClaim, InFlight
  <1>13. CompletedUnheld'
    BY <1>2, <1>3, <1>4, <1>5, <1>6 DEF ClaimsInv, CompletedUnheld, InFlight
  <1>14. ClaimedOnce'
    <2>1. \A v \in Workers : InFlight(v) /\ attempt[v].key = k /\ attempt[v].row = attempt[w].row
                             => attempt[v].claim # b.claim
      BY <1>2, <1>3, <1>4, <1>6 DEF ClaimsInv, NewestClaim
    <2> QED BY <2>1, <1>2, <1>4, <1>5 DEF ClaimsInv, ClaimedOnce, InFlight
  <1>15. ResultOfItsPlan'
    BY <1>2, <1>3, <1>5 DEF ClaimsInv, ResultOfItsPlan
  <1> QED BY <1>8, <1>9, <1>10, <1>11, <1>12, <1>13, <1>14, <1>15 DEF ClaimsInv

\* A step that moves one attempt to another phase and touches nothing else.
LEMMA PhaseInv ==
  ASSUME ClaimsInv, NEW w \in Workers, InFlight(w), NEW b \in Attempt,
         b.pc \in {"claimed", "running", "extending", "stopped"},
         b.key = attempt[w].key, b.row = attempt[w].row, b.claim = attempt[w].claim,
         b.ctx <= planVersion,
         attempt' = [attempt EXCEPT ![w] = b],
         UNCHANGED <<task, planVersion, control, wsEnabled, nextRow>>
  PROVE  ClaimsInv'
  <1>1. attempt \in [Workers -> Attempt]
    BY DEF ClaimsInv, TypeOK
  <1>2. /\ attempt' \in [Workers -> Attempt] /\ attempt'[w] = b
        /\ \A v \in Workers : v # w => attempt'[v] = attempt[v]
    BY <1>1
  <1>3. TypeOK' /\ RowIds' /\ ResultOfItsPlan'
    BY <1>2 DEF ClaimsInv, TypeOK, RowIds, ResultOfItsPlan, Exists
  <1>4. AttemptRows' /\ PastPlans'
    BY <1>2 DEF ClaimsInv, AttemptRows, PastPlans, Busy, InFlight
  <1>5. NewestClaim' /\ CompletedUnheld'
    BY <1>2 DEF ClaimsInv, NewestClaim, CompletedUnheld, InFlight
  <1>6. ClaimedOnce'
    BY <1>2 DEF ClaimsInv, ClaimedOnce, InFlight
  <1> QED BY <1>3, <1>4, <1>5, <1>6 DEF ClaimsInv

LEMMA LoadContextInv ==
  ASSUME ClaimsInv, NEW w \in Workers, LoadContext(w)
  PROVE  ClaimsInv'
  <1> DEFINE b == [attempt[w] EXCEPT !.pc = "running", !.ctx = task[attempt[w].key].version]
  <1>1. attempt[w] \in Attempt /\ attempt \in [Workers -> Attempt] /\ task \in [Keys -> Row]
    BY DEF ClaimsInv, TypeOK
  <1>2. /\ b \in Attempt /\ b.pc = "running" /\ b.key = attempt[w].key /\ b.row = attempt[w].row
        /\ b.claim = attempt[w].claim /\ b.ctx <= planVersion
    BY <1>1 DEF Attempt, Phases, Row, ClaimsInv, PastPlans
  <1>3. attempt' = [attempt EXCEPT ![w] = b] /\ UNCHANGED <<task, planVersion, control, wsEnabled, nextRow>>
    BY <1>1 DEF LoadContext, Attempt
  <1>4. InFlight(w)
    BY DEF LoadContext, InFlight
  <1> HIDE DEF b
  <1> QED BY <1>2, <1>3, <1>4, PhaseInv

LEMMA ReadPlanInv ==
  ASSUME ClaimsInv, NEW w \in Workers, ReadPlan(w) \/ StopTask(w)
  PROVE  ClaimsInv'
  <1> DEFINE b(pc) == [attempt[w] EXCEPT !.pc = pc]
  <1>1. attempt[w] \in Attempt /\ attempt \in [Workers -> Attempt]
    BY DEF ClaimsInv, TypeOK
  <1>2. \A pc \in {"extending", "stopped"} :
            /\ b(pc) \in Attempt /\ b(pc).pc = pc /\ b(pc).key = attempt[w].key
            /\ b(pc).row = attempt[w].row
            /\ b(pc).claim = attempt[w].claim /\ b(pc).ctx <= planVersion
    BY <1>1 DEF Attempt, Phases, ClaimsInv, PastPlans
  <1>3. InFlight(w) /\ UNCHANGED <<task, planVersion, control, wsEnabled, nextRow>>
    BY DEF ReadPlan, StopTask, InFlight
  <1>4. CASE ReadPlan(w)
    <2>1. attempt' = [attempt EXCEPT ![w] = b("extending")]
      BY <1>1, <1>4 DEF ReadPlan, Attempt
    <2> HIDE DEF b
    <2> QED BY <2>1, <1>2, <1>3, PhaseInv
  <1>5. CASE StopTask(w)
    <2>1. attempt' = [attempt EXCEPT ![w] = b("stopped")]
      BY <1>1, <1>5 DEF StopTask, Attempt
    <2> HIDE DEF b
    <2> QED BY <2>1, <1>2, <1>3, PhaseInv
  <1> QED BY <1>4, <1>5

LEMMA SettledRowType ==
  ASSUME NEW t \in Row, NEW st \in TaskStatus, NEW v \in Nat
  PROVE  /\ Settle(t, st) \in Row /\ Landed(t, st, v) \in Row
         /\ Settle(t, st).status = st /\ Landed(t, st, v).status = st
         /\ Settle(t, st).id = t.id /\ Landed(t, st, v).id = t.id
         /\ Settle(t, st).claim = t.claim /\ Landed(t, st, v).claim = t.claim
         /\ Settle(t, st).version = t.version /\ Landed(t, st, v).version = t.version
         /\ Settle(t, st).since = t.since /\ Landed(t, st, v).since = t.since
         /\ Settle(t, st).by = t.by /\ Landed(t, st, v).by = v
  BY DEF Settle, Landed, Row, TaskStatus

\* A report: the attempt of w ends and the row of its key stays, settles or goes.
LEMMA ReportInv ==
  ASSUME ClaimsInv, NEW w \in Workers, Busy(w), NEW r \in Row,
         \/ r = task[attempt[w].key]
         \/ r = NoRow /\ attempt[w].key \in Dynamic
         \/ /\ Exists(attempt[w].key)
            /\ r.status # "ABSENT"
            /\ r.id = task[attempt[w].key].id /\ r.claim = task[attempt[w].key].claim
            /\ r.version = task[attempt[w].key].version /\ r.since = task[attempt[w].key].since
            /\ r.status = "COMPLETED" => InFlight(w) /\ Holds(w) /\ r.by >= r.since,
         task' = [task EXCEPT ![attempt[w].key] = r],
         Idle(w),
         UNCHANGED <<planVersion, control, wsEnabled, nextRow>>
  PROVE  ClaimsInv'
  <1> DEFINE k == attempt[w].key
  <1>1. /\ attempt \in [Workers -> Attempt] /\ task \in [Keys -> Row] /\ k \in Keys
        /\ planVersion \in Nat /\ nextRow \in Nat
    BY DEF ClaimsInv, TypeOK, Attempt
  <1>2. /\ task'[k] = r /\ \A j \in Keys : j # k => task'[j] = task[j]
        /\ attempt'[w] = Blank /\ \A v \in Workers : v # w => attempt'[v] = attempt[v]
    BY <1>1 DEF Idle
  <1>3. TypeOK'
    BY <1>1, BlankType DEF ClaimsInv, TypeOK, Idle
  <1>4. RowIds'
    BY <1>1, <1>2, NoRowType DEF ClaimsInv, RowIds, Exists, Static
  <1>5. AttemptRows'
    BY <1>1, <1>2, BlankType DEF ClaimsInv, AttemptRows, Busy
  <1>6. PastPlans'
    BY <1>1, <1>2, BlankType, NoRowType DEF ClaimsInv, PastPlans
  <1>7. NewestClaim'
    <2> SUFFICES ASSUME NEW v \in Workers, InFlight(v)', (attempt[v].row = task[attempt[v].key].id)'
                 PROVE  (attempt[v].claim <= task[attempt[v].key].claim)'
      BY DEF NewestClaim
    <2>1. v # w /\ attempt'[v] = attempt[v] /\ InFlight(v) /\ attempt[v].key \in Keys
      BY <1>1, <1>2, BlankType DEF InFlight, Attempt
    <2>2. attempt[v].row >= 1
      BY <2>1 DEF ClaimsInv, AttemptRows, Busy, InFlight
    <2> QED BY <1>2, <2>1, <2>2, NoRowType DEF ClaimsInv, NewestClaim
  <1>8. CompletedUnheld'
    <2> SUFFICES ASSUME NEW v \in Workers, InFlight(v)', (attempt[v].key \in Static)',
                        (task[attempt[v].key].status = "COMPLETED")'
                 PROVE  (attempt[v].claim # task[attempt[v].key].claim)'
      BY DEF CompletedUnheld
    <2>1. v # w /\ attempt'[v] = attempt[v] /\ InFlight(v) /\ attempt[v].key \in Keys
      BY <1>1, <1>2, BlankType DEF InFlight, Attempt
    <2>2. attempt[v].row = 1 /\ (attempt[w].key \in Static => attempt[w].row = 1)
      BY <2>1 DEF ClaimsInv, AttemptRows, Busy, InFlight
    <2>3. CASE attempt[v].key # k
      BY <1>2, <2>1, <2>3 DEF ClaimsInv, CompletedUnheld
    <2>4. CASE attempt[v].key = k /\ r = task[k]
      BY <1>2, <2>1, <2>4 DEF ClaimsInv, CompletedUnheld
    <2>5. CASE attempt[v].key = k /\ r # task[k]
      <3>1. r.status = "COMPLETED" /\ r # NoRow
        BY <1>2, <2>1, <2>5, NoRowType
      <3>2. InFlight(w) /\ attempt[w].claim = task[k].claim /\ r.claim = task[k].claim
        BY <3>1, <2>5 DEF Holds
      <3>3. attempt[v].claim # attempt[w].claim
        BY <2>1, <2>2, <2>5, <3>2 DEF ClaimsInv, ClaimedOnce
      <3> QED BY <1>2, <2>1, <2>5, <3>2, <3>3
    <2> QED BY <2>3, <2>4, <2>5
  <1>9. ClaimedOnce'
    BY <1>1, <1>2, BlankType DEF ClaimsInv, ClaimedOnce, InFlight
  <1>10. ResultOfItsPlan'
    BY <1>1, <1>2, NoRowType DEF ClaimsInv, ResultOfItsPlan
  <1> QED BY <1>3, <1>4, <1>5, <1>6, <1>7, <1>8, <1>9, <1>10 DEF ClaimsInv

LEMMA EndAttemptInv ==
  ASSUME ClaimsInv, NEW w \in Workers, LoseClaim(w) \/ WorkerDies(w) \/ Superseded(w)
  PROVE  ClaimsInv'
  <1>1. task \in [Keys -> Row] /\ attempt[w].key \in Keys /\ task[attempt[w].key] \in Row
    BY DEF ClaimsInv, TypeOK, Attempt
  <1>2. Busy(w) /\ Idle(w) /\ UNCHANGED <<task, planVersion, control, wsEnabled, nextRow>>
    BY DEF LoseClaim, WorkerDies, Superseded, Busy, InFlight
  <1>3. task' = [task EXCEPT ![attempt[w].key] = task[attempt[w].key]]
    BY <1>1, <1>2
  <1> QED BY <1>1, <1>2, <1>3, ReportInv

LEMMA SettleInv ==
  ASSUME ClaimsInv, NEW w \in Workers,
         ReportDisabled(w) \/ Discard(w) \/ Requeue(w) \/ CrashReset(w)
  PROVE  ClaimsInv'
  <1> DEFINE k == attempt[w].key
  <1>1. task \in [Keys -> Row] /\ k \in Keys /\ task[k] \in Row
    BY DEF ClaimsInv, TypeOK, Attempt
  <1>2. \A st \in {"NEW", "CANCELLED"} :
           /\ Settle(task[k], st) \in Row
           /\ Settle(task[k], st).status = st
           /\ Settle(task[k], st).id = task[k].id /\ Settle(task[k], st).claim = task[k].claim
           /\ Settle(task[k], st).version = task[k].version /\ Settle(task[k], st).since = task[k].since
    BY <1>1, SettledRowType DEF TaskStatus
  <1>3. /\ Busy(w) /\ Idle(w) /\ Exists(k)
        /\ UNCHANGED <<planVersion, control, wsEnabled, nextRow>>
    BY DEF ReportDisabled, Discard, Requeue, CrashReset, Busy, Holds
  <1>4. CASE ReportDisabled(w)
    BY <1>1, <1>2, <1>3, <1>4, ReportInv DEF ReportDisabled, SetRow
  <1>5. CASE Requeue(w)
    BY <1>1, <1>2, <1>3, <1>5, ReportInv DEF Requeue, SetRow
  <1>6. CASE Discard(w)
    <2>1. CASE k \in Dynamic
      BY <1>1, <1>3, <1>6, <2>1, NoRowType, ReportInv DEF Discard, SetRow
    <2>2. CASE k \notin Dynamic
      BY <1>1, <1>2, <1>3, <1>6, <2>2, ReportInv DEF Discard, SetRow
    <2> QED BY <2>1, <2>2
  <1>7. CASE CrashReset(w)
    <2>1. CASE Holds(w)
      BY <1>1, <1>2, <1>3, <1>7, <2>1, ReportInv DEF CrashReset, SetRow
    <2>2. CASE ~Holds(w)
      BY <1>1, <1>3, <1>7, <2>2, ReportInv DEF CrashReset, SetRow
    <2> QED BY <2>1, <2>2
  <1> QED BY <1>4, <1>5, <1>6, <1>7

LEMMA LandInv ==
  ASSUME ClaimsInv, NEW w \in Workers, NEW outcome \in {"COMPLETED", "FAILED", "CANCELLED"},
         Land(w, outcome)
  PROVE  ClaimsInv'
  <1> DEFINE k == attempt[w].key
             r == Landed(task[k], outcome, attempt[w].version)
  <1>1. /\ task \in [Keys -> Row] /\ k \in Keys /\ task[k] \in Row
        /\ attempt[w].version \in Nat /\ outcome \in TaskStatus
    BY DEF ClaimsInv, TypeOK, Attempt, TaskStatus
  <1>2. /\ InFlight(w) /\ Busy(w) /\ Idle(w) /\ Exists(k) /\ Holds(w)
        /\ task' = [task EXCEPT ![k] = r]
        /\ UNCHANGED <<planVersion, control, wsEnabled, nextRow>>
        /\ planVersion = attempt[w].version
    BY DEF Land, InFlight, Busy, Holds, SetRow, OfCurrentPlan
  <1>3. /\ r \in Row /\ r.status = outcome /\ r.id = task[k].id /\ r.claim = task[k].claim
        /\ r.version = task[k].version /\ r.since = task[k].since /\ r.by = attempt[w].version
    BY <1>1, SettledRowType
  <1>4. r.by >= r.since
    BY <1>1, <1>2, <1>3 DEF ClaimsInv, PastPlans
  <1> HIDE DEF r
  <1> QED BY <1>1, <1>2, <1>3, <1>4, ReportInv

\* A step that adds the row of a dynamic key, under an id no row has had.
LEMMA InsertInv ==
  ASSUME ClaimsInv, NEW w \in Workers, InFlight(w), NEW d \in Dynamic, ~Exists(d),
         NEW v \in Nat, v <= planVersion,
         NEW b \in Attempt, b.pc = "running", b.key = attempt[w].key, b.row = attempt[w].row,
         b.claim = attempt[w].claim, b.ctx = attempt[w].ctx,
         attempt' = [attempt EXCEPT ![w] = b],
         task' = [task EXCEPT ![d] = NewRow(nextRow, v)],
         nextRow' = nextRow + 1,
         UNCHANGED <<planVersion, control, wsEnabled>>
  PROVE  ClaimsInv'
  <1> DEFINE r == NewRow(nextRow, v)
  <1>1. /\ attempt \in [Workers -> Attempt] /\ task \in [Keys -> Row] /\ nextRow \in Nat
        /\ d \in Keys /\ d \notin Static
    BY ClaimsAssumption DEF ClaimsInv, TypeOK, Static
  <1>2. r \in Row /\ r.status = "NEW" /\ r.id = nextRow /\ r.claim = 0 /\ r.version = v /\ r.since = v
    BY <1>1, NewRowType
  <1> HIDE DEF r
  <1>3. /\ task'[d] = r /\ \A j \in Keys : j # d => task'[j] = task[j]
        /\ attempt'[w] = b /\ \A u \in Workers : u # w => attempt'[u] = attempt[u]
    BY <1>1 DEF r
  <1>4. TypeOK'
    <2>1. task' \in [Keys -> Row]
      BY <1>1, <1>2 DEF r
    <2> QED BY <2>1, <1>1 DEF ClaimsInv, TypeOK
  <1>5. RowIds'
    BY <1>1, <1>2, <1>3 DEF ClaimsInv, RowIds, Exists, Static, TypeOK, Row
  <1>6. AttemptRows'
    BY <1>1, <1>3 DEF ClaimsInv, AttemptRows, Busy, InFlight, Attempt
  <1>7. PastPlans'
    BY <1>1, <1>2, <1>3 DEF ClaimsInv, PastPlans
  <1>8. NewestClaim'
    <2> SUFFICES ASSUME NEW u \in Workers, InFlight(u)', (attempt[u].row = task[attempt[u].key].id)'
                 PROVE  (attempt[u].claim <= task[attempt[u].key].claim)'
      BY DEF NewestClaim
    <2>1. /\ InFlight(u) /\ attempt'[u].key = attempt[u].key /\ attempt'[u].row = attempt[u].row
          /\ attempt'[u].claim = attempt[u].claim /\ attempt[u].key \in Keys
      BY <1>1, <1>3 DEF InFlight, Attempt
    <2>2. attempt[u].row < nextRow
      BY <2>1 DEF ClaimsInv, AttemptRows, Busy, InFlight
    <2>3. attempt[u].key # d
      BY <1>1, <1>2, <1>3, <2>1, <2>2 DEF Attempt
    <2> QED BY <1>3, <2>1, <2>3 DEF ClaimsInv, NewestClaim
  <1>9. CompletedUnheld'
    BY <1>1, <1>3 DEF ClaimsInv, CompletedUnheld, InFlight, Attempt, Static
  <1>10. ClaimedOnce'
    BY <1>1, <1>3 DEF ClaimsInv, ClaimedOnce, InFlight
  <1>11. ResultOfItsPlan'
    BY <1>1, <1>2, <1>3 DEF ClaimsInv, ResultOfItsPlan
  <1> QED BY <1>4, <1>5, <1>6, <1>7, <1>8, <1>9, <1>10, <1>11 DEF ClaimsInv

LEMMA ExtendInv ==
  ASSUME ClaimsInv, NEW w \in Workers, NEW d \in Dynamic, Extend(w, d)
  PROVE  ClaimsInv'
  <1> DEFINE b == attempt[w]
  <1>1. /\ attempt \in [Workers -> Attempt] /\ b \in Attempt /\ attempt[w].version \in Nat
        /\ planVersion \in Nat /\ planVersion <= planVersion
    BY DEF ClaimsInv, TypeOK, Attempt
  <1>2. /\ attempt' = [attempt EXCEPT ![w] = b]
        /\ b.pc = "running" /\ b.key = attempt[w].key /\ b.row = attempt[w].row
        /\ b.claim = attempt[w].claim /\ b.ctx = attempt[w].ctx
    BY <1>1 DEF Extend
  <1>3. /\ InFlight(w) /\ ~Exists(d)
        /\ task' = [task EXCEPT ![d] = NewRow(nextRow, planVersion)]
        /\ nextRow' = nextRow + 1
        /\ UNCHANGED <<planVersion, control, wsEnabled>>
    BY DEF Extend, InFlight, SetRow
  <1> HIDE DEF b
  <1> QED BY <1>1, <1>2, <1>3, InsertInv

LEMMA FollowUpInv ==
  ASSUME ClaimsInv, NEW w \in Workers, NEW d \in Dynamic, FollowUp(w, d)
  PROVE  ClaimsInv'
  <1> DEFINE b == [attempt[w] EXCEPT !.pc = "running"]
  <1>1. /\ attempt \in [Workers -> Attempt] /\ attempt[w] \in Attempt /\ attempt[w].version \in Nat
        /\ attempt[w].ctx \in Nat /\ attempt[w].ctx <= planVersion
    BY DEF ClaimsInv, TypeOK, Attempt, PastPlans
  <1>2. /\ b \in Attempt /\ b.pc = "running" /\ b.key = attempt[w].key /\ b.row = attempt[w].row
        /\ b.claim = attempt[w].claim /\ b.ctx = attempt[w].ctx
    BY <1>1 DEF Attempt, Phases
  <1>3. InFlight(w) /\ UNCHANGED <<planVersion, control, wsEnabled>>
    BY DEF FollowUp, InFlight
  <1>4. attempt' = [attempt EXCEPT ![w] = b]
    BY <1>1 DEF FollowUp, Attempt
  <1> HIDE DEF b
  <1>5. CASE Exists(d)
    <2>1. UNCHANGED <<task, nextRow>>
      BY <1>5 DEF FollowUp
    <2> QED BY <1>1, <1>2, <1>3, <1>4, <2>1, PhaseInv
  <1>6. CASE ~Exists(d)
    <2>1. /\ task' = [task EXCEPT ![d] = NewRow(nextRow, attempt[w].ctx)]
          /\ nextRow' = nextRow + 1
      BY <1>6 DEF FollowUp, SetRow
    <2> QED BY <1>1, <1>2, <1>3, <1>4, <1>6, <2>1, InsertInv
  <1> QED BY <1>5, <1>6

-----------------------------------------------------------------------------
(* Steps on the rows from outside the workers *)

\* Rows that keep their id and do not go back to an older claim.
LEMMA RowsInv ==
  ASSUME ClaimsInv, task' \in [Keys -> Row], planVersion' \in Nat, planVersion' >= planVersion,
         UNCHANGED <<attempt, wsEnabled, nextRow>>, control' \in Controls,
         \A k \in Keys :
            \/ task'[k] = task[k]
            \/ task'[k] = NoRow /\ k \notin Static
            \/ /\ Exists(k) /\ Exists(k)'
               /\ task'[k].id = task[k].id /\ task'[k].claim >= task[k].claim
               /\ task'[k].version <= planVersion' /\ task'[k].since <= planVersion'
               /\ task'[k].status = "COMPLETED" =>
                     /\ task[k].status = "COMPLETED" /\ task'[k].claim = task[k].claim
                     /\ task'[k].by = task[k].by /\ task'[k].since = task[k].since
  PROVE  ClaimsInv'
  <1>1. /\ attempt \in [Workers -> Attempt] /\ task \in [Keys -> Row]
        /\ \A w \in Workers : attempt[w].key \in Keys
        /\ planVersion \in Nat
    BY DEF ClaimsInv, TypeOK, Attempt
  <1>2. TypeOK'
    BY DEF ClaimsInv, TypeOK
  <1>3. RowIds'
    BY NoRowType DEF ClaimsInv, RowIds, Exists, Static
  <1>4. AttemptRows' /\ ClaimedOnce'
    BY DEF ClaimsInv, AttemptRows, ClaimedOnce, Busy, InFlight
  <1>5. PastPlans'
    <2>1. \A w \in Workers : attempt'[w].ctx <= planVersion'
      BY <1>1 DEF ClaimsInv, PastPlans, Attempt
    <2>2. \A k \in Keys : task[k].version <= planVersion' /\ task[k].since <= planVersion'
      BY <1>1 DEF ClaimsInv, PastPlans, Row
    <2> QED BY <2>1, <2>2, NoRowType DEF PastPlans
  <1>6. NewestClaim'
    <2> SUFFICES ASSUME NEW w \in Workers, InFlight(w), attempt[w].row = task'[attempt[w].key].id
                 PROVE  attempt[w].claim <= task'[attempt[w].key].claim
      BY DEF NewestClaim, InFlight
    <2>1. attempt[w].row >= 1
      BY DEF ClaimsInv, AttemptRows, Busy, InFlight
    <2>2. /\ attempt[w].claim \in Nat /\ attempt[w].row \in Nat
          /\ task[attempt[w].key].claim \in Nat /\ task'[attempt[w].key].claim \in Nat
      BY <1>1 DEF Attempt, Row
    <2>3. task'[attempt[w].key] # NoRow
      BY <2>1, <2>2, NoRowType
    <2>4. attempt[w].row = task[attempt[w].key].id /\ task'[attempt[w].key].claim >= task[attempt[w].key].claim
      BY <1>1, <2>2, <2>3
    <2>5. attempt[w].claim <= task[attempt[w].key].claim
      BY <2>4 DEF ClaimsInv, NewestClaim
    <2> QED BY <2>2, <2>4, <2>5
  <1>7. \A k \in Keys : task'[k].status = "COMPLETED" =>
            /\ task[k].status = "COMPLETED" /\ task'[k].claim = task[k].claim
            /\ task'[k].by = task[k].by /\ task'[k].since = task[k].since
    BY NoRowType
  <1>8. CompletedUnheld' /\ ResultOfItsPlan'
    BY <1>1, <1>7 DEF ClaimsInv, CompletedUnheld, InFlight, ResultOfItsPlan
  <1> QED BY <1>2, <1>3, <1>4, <1>5, <1>6, <1>8 DEF ClaimsInv

LEMMA MovedRowType ==
  ASSUME NEW t \in Row, NEW v \in Nat
  PROVE  /\ Released(t) \in Row /\ Released(t).status = "NEW" /\ Released(t).id = t.id
         /\ Released(t).claim = t.claim + 1 /\ Released(t).version = t.version
         /\ Released(t).since = t.since
         /\ ResetRow(t, v) \in Row /\ ResetRow(t, v).status = "NEW" /\ ResetRow(t, v).id = t.id
         /\ ResetRow(t, v).claim = t.claim /\ ResetRow(t, v).version = v /\ ResetRow(t, v).since = v
         /\ KeptRow(t, v) \in Row /\ KeptRow(t, v).status = t.status /\ KeptRow(t, v).id = t.id
         /\ KeptRow(t, v).claim = t.claim /\ KeptRow(t, v).version = v
         /\ KeptRow(t, v).since = t.since /\ KeptRow(t, v).by = t.by
  <1> DEFINE c == t.claim + 1
             r == [t EXCEPT !.status = "NEW", !.fresh = FALSE, !.claim = c]
  <1>1. c \in Nat
    BY DEF Row
  <1>2. Released(t) = r
    BY DEF Released
  <1> HIDE DEF c
  <1>3. /\ r \in Row /\ r.status = "NEW" /\ r.id = t.id /\ r.claim = c /\ r.version = t.version
        /\ r.since = t.since
    BY <1>1 DEF Row, TaskStatus
  <1>4. /\ Released(t) \in Row /\ Released(t).status = "NEW" /\ Released(t).id = t.id
        /\ Released(t).claim = t.claim + 1 /\ Released(t).version = t.version
        /\ Released(t).since = t.since
    BY <1>2, <1>3 DEF c
  <1>5. /\ ResetRow(t, v) \in Row /\ ResetRow(t, v).status = "NEW" /\ ResetRow(t, v).id = t.id
        /\ ResetRow(t, v).claim = t.claim /\ ResetRow(t, v).version = v /\ ResetRow(t, v).since = v
    BY DEF ResetRow, Row, TaskStatus
  <1>6. /\ KeptRow(t, v) \in Row /\ KeptRow(t, v).status = t.status /\ KeptRow(t, v).id = t.id
        /\ KeptRow(t, v).claim = t.claim /\ KeptRow(t, v).version = v
        /\ KeptRow(t, v).since = t.since /\ KeptRow(t, v).by = t.by
    BY DEF KeptRow, Row
  <1> QED BY <1>4, <1>5, <1>6

LEMMA TimedOutInv ==
  ASSUME ClaimsInv, NEW k \in Keys, ReleaseTimedOutClaim(k)
  PROVE  ClaimsInv'
  <1> DEFINE r == [task[k] EXCEPT !.fresh = FALSE]
  <1>1. task \in [Keys -> Row] /\ task[k] \in Row /\ planVersion \in Nat /\ control \in Controls
    BY DEF ClaimsInv, TypeOK
  <1>2. /\ r \in Row /\ r.status = task[k].status /\ r.id = task[k].id /\ r.claim = task[k].claim
        /\ r.version = task[k].version /\ r.since = task[k].since /\ r.by = task[k].by
    BY <1>1 DEF Row
  <1>3. task' = [task EXCEPT ![k] = r] /\ task[k].status = "RUNNING"
        /\ UNCHANGED <<attempt, planVersion, control, wsEnabled, nextRow>>
    BY <1>1 DEF ReleaseTimedOutClaim
  <1> HIDE DEF r
  <1>4. task' \in [Keys -> Row] /\ task'[k] = r /\ \A j \in Keys : j # k => task'[j] = task[j]
    BY <1>1, <1>2, <1>3
  <1>5. /\ Exists(k) /\ Exists(k)' /\ task'[k].id = task[k].id /\ task'[k].claim >= task[k].claim
        /\ task'[k].version <= planVersion' /\ task'[k].since <= planVersion'
        /\ task'[k].status # "COMPLETED"
    BY <1>1, <1>2, <1>3, <1>4 DEF ClaimsInv, PastPlans, Exists, Row
  <1>6. planVersion' \in Nat /\ planVersion' >= planVersion /\ control' \in Controls
    BY <1>1, <1>3
  <1> QED
    BY <1>3, <1>4, <1>5, <1>6, RowsInv

LEMMA OrphanedInv ==
  ASSUME ClaimsInv, ReleaseOrphanedClaims
  PROVE  ClaimsInv'
  <1>1. task \in [Keys -> Row] /\ planVersion \in Nat /\ control \in Controls
    BY DEF ClaimsInv, TypeOK
  <1>2. /\ task' = [k \in Keys |-> IF task[k].status = "RUNNING" THEN Released(task[k]) ELSE task[k]]
        /\ UNCHANGED <<attempt, planVersion, control, wsEnabled, nextRow>>
    BY DEF ReleaseOrphanedClaims
  <1>3. task' \in [Keys -> Row]
    BY <1>1, <1>2, MovedRowType
  <1>4. ASSUME NEW k \in Keys, task[k].status = "RUNNING"
        PROVE  /\ Exists(k) /\ Exists(k)' /\ task'[k].id = task[k].id /\ task'[k].claim >= task[k].claim
               /\ task'[k].version <= planVersion' /\ task'[k].since <= planVersion'
               /\ task'[k].status # "COMPLETED"
    <2>1. task[k] \in Row /\ task[k].claim \in Nat
      BY <1>1 DEF Row
    <2>2. task'[k] = Released(task[k])
      BY <1>2, <1>4
    <2>3. /\ task'[k].status = "NEW" /\ task'[k].id = task[k].id /\ task'[k].claim = task[k].claim + 1
          /\ task'[k].version = task[k].version /\ task'[k].since = task[k].since
      BY <1>1, <2>1, <2>2, MovedRowType
    <2> QED BY <1>2, <1>4, <2>1, <2>3 DEF ClaimsInv, PastPlans, Exists
  <1>5. \A k \in Keys : task[k].status # "RUNNING" => task'[k] = task[k]
    BY <1>2
  <1>6. planVersion' \in Nat /\ planVersion' >= planVersion /\ control' \in Controls
    BY <1>1, <1>2
  <1> QED
    BY <1>2, <1>3, <1>4, <1>5, <1>6, RowsInv

LEMMA ReplanInv ==
  ASSUME ClaimsInv, NEW full \in BOOLEAN, Replan(full)
  PROVE  ClaimsInv'
  <1> DEFINE resets == IF full THEN ResetFull ELSE ResetPartial
             removes == IF full THEN Dynamic ELSE {}
             v == planVersion + 1
  <1>1. task \in [Keys -> Row] /\ planVersion \in Nat /\ v \in Nat /\ control \in Controls
    BY DEF ClaimsInv, TypeOK
  <1>2. /\ task' = [k \in Keys |-> ReplanRow(k, resets, removes, v)]
        /\ planVersion' = v
        /\ UNCHANGED <<attempt, control, wsEnabled, nextRow>>
    BY DEF Replan
  <1>9. \A n \in Nat : n <= planVersion => n <= v
    BY <1>1
  <1> HIDE DEF v
  <1>3. ASSUME NEW k \in Keys
        PROVE  /\ task'[k] \in Row
               /\ \/ task'[k] = NoRow /\ k \notin Static
                  \/ /\ Exists(k) /\ Exists(k)'
                     /\ task'[k].id = task[k].id /\ task'[k].claim >= task[k].claim
                     /\ task'[k].version <= planVersion' /\ task'[k].since <= planVersion'
                     /\ task'[k].status = "COMPLETED" =>
                           /\ task[k].status = "COMPLETED" /\ task'[k].claim = task[k].claim
                           /\ task'[k].by = task[k].by /\ task'[k].since = task[k].since
    <2>1. task[k] \in Row /\ task[k].claim \in Nat /\ task[k].since \in Nat /\ task[k].since <= planVersion
      BY <1>1 DEF Row, ClaimsInv, PastPlans
    <2>2. CASE ~Exists(k) \/ k \in removes
      <3>1. task'[k] = NoRow
        BY <1>2, <2>2 DEF ReplanRow
      <3>2. k \notin Static
        BY <2>2 DEF ClaimsInv, RowIds, Static
      <3> QED BY <3>1, <3>2, NoRowType
    <2>3. CASE Exists(k) /\ k \notin removes /\ k \in resets
      <3>1. task'[k] = ResetRow(task[k], v)
        BY <1>2, <2>3 DEF ReplanRow
      <3>2. /\ ResetRow(task[k], v) \in Row /\ ResetRow(task[k], v).status = "NEW"
            /\ ResetRow(task[k], v).id = task[k].id /\ ResetRow(task[k], v).claim = task[k].claim
            /\ ResetRow(task[k], v).version = v /\ ResetRow(task[k], v).since = v
        BY <1>1, <2>1, MovedRowType
      <3> QED BY <1>1, <1>2, <2>1, <2>3, <3>1, <3>2 DEF Exists
    <2>4. CASE Exists(k) /\ k \notin removes /\ k \notin resets
      <3>1. task'[k] = KeptRow(task[k], v)
        BY <1>2, <2>4 DEF ReplanRow
      <3>2. /\ KeptRow(task[k], v) \in Row /\ KeptRow(task[k], v).status = task[k].status
            /\ KeptRow(task[k], v).id = task[k].id /\ KeptRow(task[k], v).claim = task[k].claim
            /\ KeptRow(task[k], v).version = v /\ KeptRow(task[k], v).since = task[k].since
            /\ KeptRow(task[k], v).by = task[k].by
        BY <1>1, <2>1, MovedRowType
      <3> QED BY <1>1, <1>2, <1>9, <2>1, <2>4, <3>1, <3>2 DEF Exists
    <2> QED BY <2>2, <2>3, <2>4
  <1>4. task' \in [Keys -> Row]
    BY <1>2, <1>3
  <1>5. planVersion' \in Nat /\ planVersion' >= planVersion /\ control' \in Controls
    BY <1>1, <1>2 DEF v
  <1> QED
    BY <1>2, <1>3, <1>4, <1>5, RowsInv

LEMMA OutsideInv ==
  ASSUME ClaimsInv, (\E c \in Controls : SetControl(c)) \/ DisableWorkspace \/ UNCHANGED vars
  PROVE  ClaimsInv'
  <1>1. UNCHANGED <<task, attempt, planVersion, nextRow>> /\ control' \in Controls /\ wsEnabled' \in BOOLEAN
    BY DEF SetControl, DisableWorkspace, vars, ClaimsInv, TypeOK
  <1> QED
    BY <1>1 DEF ClaimsInv, TypeOK, RowIds, AttemptRows, PastPlans, NewestClaim, CompletedUnheld,
                ClaimedOnce, ResultOfItsPlan, Busy, InFlight, Exists

-----------------------------------------------------------------------------
(* Theorems *)

LEMMA NextInv == ClaimsInv /\ [Next]_vars => ClaimsInv'
  <1> SUFFICES ASSUME ClaimsInv, [Next]_vars PROVE ClaimsInv'
    OBVIOUS
  <1>1. CASE UNCHANGED vars
    BY <1>1, OutsideInv
  <1>2. ASSUME NEW w \in Workers, Work(w) PROVE ClaimsInv'
    <2>1. ASSUME NEW k \in Keys, ReadClaim(w, k) PROVE ClaimsInv'
      BY <2>1, ReadClaimInv
    <2>2. ASSUME NEW d \in Dynamic, Extend(w, d) \/ FollowUp(w, d) PROVE ClaimsInv'
      BY <2>2, ExtendInv, FollowUpInv
    <2>3. ASSUME NEW outcome \in {"COMPLETED", "FAILED", "CANCELLED"}, Land(w, outcome) PROVE ClaimsInv'
      BY <2>3, LandInv
    <2>4. CASE WinClaim(w)
      BY <2>4, WinClaimInv
    <2>5. CASE LoadContext(w)
      BY <2>5, LoadContextInv
    <2>6. CASE ReadPlan(w) \/ StopTask(w)
      BY <2>6, ReadPlanInv
    <2>7. CASE LoseClaim(w) \/ WorkerDies(w) \/ Superseded(w)
      BY <2>7, EndAttemptInv
    <2>8. CASE ReportDisabled(w) \/ Discard(w) \/ Requeue(w) \/ CrashReset(w)
      BY <2>8, SettleInv
    <2> QED BY <1>2, <2>1, <2>2, <2>3, <2>4, <2>5, <2>6, <2>7, <2>8 DEF Work
  <1>3. CASE Environment
    <2>1. ASSUME NEW k \in Keys, ReleaseTimedOutClaim(k) PROVE ClaimsInv'
      BY <2>1, TimedOutInv
    <2>2. CASE ReleaseOrphanedClaims
      BY <2>2, OrphanedInv
    <2>3. ASSUME NEW full \in BOOLEAN, Replan(full) PROVE ClaimsInv'
      BY <2>3, ReplanInv
    <2>4. CASE (\E c \in Controls : SetControl(c)) \/ DisableWorkspace
      BY <2>4, OutsideInv
    <2> QED BY <1>3, <2>1, <2>2, <2>3, <2>4 DEF Environment
  <1> QED BY <1>1, <1>2, <1>3 DEF Next

\* In every run of the claim protocol the invariant holds: whatever the workers, the
\* releases and the replans do, with any number of keys, workers and plan versions.
THEOREM Invariance == Spec => []ClaimsInv
  BY InitInv, NextInv, PTL DEF Spec

\* The state stays well typed.
THEOREM TypeCorrect == Spec => []TypeOK
  <1>1. ClaimsInv => TypeOK
    BY DEF ClaimsInv
  <1> QED BY <1>1, Invariance, PTL

\* `_claim` and the claim version checked by every report: no two attempts in flight ever
\* hold the same claim of the same row.
THEOREM ClaimedOnceAlways == Spec => []ClaimedOnce
  <1>1. ClaimsInv => ClaimedOnce
    BY DEF ClaimsInv
  <1> QED BY <1>1, Invariance, PTL

\* The plan version check of `execute_task`: no stored result is older than the last
\* replan that reset its row.
THEOREM ResultOfItsPlanAlways == Spec => []ResultOfItsPlan
  <1>1. ClaimsInv => ResultOfItsPlan
    BY DEF ClaimsInv
  <1> QED BY <1>1, Invariance, PTL

LEMMA StableStep ==
  ASSUME ClaimsInv, [Next]_vars, NEW k \in Static, task[k].status = "COMPLETED"
  PROVE  task'[k] = task[k] \/ planVersion' # planVersion
  <1>1. /\ k \in Keys /\ k \notin Dynamic /\ task \in [Keys -> Row]
        /\ \A w \in Workers : attempt[w].key \in Keys
    BY ClaimsAssumption DEF Static, ClaimsInv, TypeOK, Attempt
  <1>2. \A w \in Workers : InFlight(w) /\ attempt[w].key = k => ~Holds(w)
    BY <1>1 DEF ClaimsInv, CompletedUnheld, Holds, Static
  <1>3. CASE UNCHANGED vars
    BY <1>3 DEF vars
  <1>4. ASSUME NEW w \in Workers, Work(w) PROVE task'[k] = task[k]
    <2>1. CASE UNCHANGED task
      BY <2>1
    <2>2. CASE WinClaim(w)
      <3>1. attempt[w].key # k
        BY <2>2 DEF WinClaim, ClaimMatches, ClaimsInv, AttemptRows, Busy
      <3> QED BY <1>1, <2>2, <3>1 DEF WinClaim, SetRow
    <2>3. ASSUME NEW d \in Dynamic, Extend(w, d) \/ FollowUp(w, d) PROVE task'[k] = task[k]
      BY <1>1, <2>3 DEF Extend, FollowUp, SetRow
    <2>4. CASE ReportDisabled(w) \/ Discard(w) \/ Requeue(w)
      <3>1. attempt[w].key # k
        BY <1>2, <2>4 DEF ReportDisabled, Discard, Requeue, InFlight
      <3> QED BY <1>1, <2>4, <3>1 DEF ReportDisabled, Discard, Requeue, SetRow
    <2>5. ASSUME NEW outcome \in {"COMPLETED", "FAILED", "CANCELLED"}, Land(w, outcome)
          PROVE  task'[k] = task[k]
      <3>1. attempt[w].key # k
        BY <1>2, <2>5 DEF Land, InFlight
      <3> QED BY <1>1, <2>5, <3>1 DEF Land, SetRow
    <2>6. CASE CrashReset(w)
      <3>1. attempt[w].key = k => ~Holds(w)
        BY <1>2, <2>6 DEF CrashReset, InFlight
      <3> QED BY <1>1, <2>6, <3>1 DEF CrashReset, SetRow
    <2> QED
      BY <1>4, <2>1, <2>2, <2>3, <2>4, <2>5, <2>6
      DEF Work, ReadClaim, LoseClaim, LoadContext, ReadPlan, StopTask, WorkerDies, Superseded
  <1>5. CASE Environment
    <2>1. ASSUME NEW j \in Keys, ReleaseTimedOutClaim(j) PROVE task'[k] = task[k]
      BY <1>1, <2>1 DEF ReleaseTimedOutClaim
    <2>2. CASE ReleaseOrphanedClaims
      BY <1>1, <2>2 DEF ReleaseOrphanedClaims
    <2>3. ASSUME NEW full \in BOOLEAN, Replan(full) PROVE planVersion' # planVersion
      BY <2>3 DEF Replan, ClaimsInv, TypeOK
    <2>4. CASE (\E c \in Controls : SetControl(c)) \/ DisableWorkspace
      BY <2>4 DEF SetControl, DisableWorkspace
    <2> QED BY <1>5, <2>1, <2>2, <2>3, <2>4 DEF Environment
  <1> QED BY <1>3, <1>4, <1>5 DEF Next

\* A completed base step keeps its row until a replan: no late, released or crashed
\* attempt of `execute_task` writes over it.
THEOREM StableResultAlways == Spec => StableResult
  <1>1. ClaimsInv /\ [Next]_vars =>
          [\A k \in Static : task[k].status = "COMPLETED" => task'[k] = task[k] \/ planVersion' # planVersion]_vars
    BY StableStep
  <1> QED BY <1>1, Invariance, PTL DEF Spec, StableResult

-----------------------------------------------------------------------------
(* The claims implement StepResults *)

\* A step that keeps the plan version and the result of every base step is a stutter.
LEMMA SameResults ==
  ASSUME planVersion' = planVersion, \A k \in Static : ResultOf(k)' = ResultOf(k)
  PROVE  UNCHANGED Results!resultVars
  BY DEF Results!resultVars

\* Writing one row keeps every result, if it is no base step's or keeps that step's own.
LEMMA RowKeepsResults ==
  ASSUME task \in [Keys -> Row], NEW j \in Keys, NEW r, SetRow(j, r), planVersion' = planVersion,
         j \in Static => (IF r.status = "COMPLETED" THEN r.by ELSE 0) = ResultOf(j)
  PROVE  UNCHANGED Results!resultVars
  <1>1. ASSUME NEW k \in Static PROVE ResultOf(k)' = ResultOf(k)
    <2>1. k \in Keys
      BY DEF Static
    <2>2. CASE k = j
      BY <2>1, <2>2 DEF SetRow, ResultOf
    <2>3. CASE k # j
      BY <2>1, <2>3 DEF SetRow, ResultOf
    <2> QED BY <2>2, <2>3
  <1> QED BY <1>1, SameResults

\* The row of a base step that an attempt in flight holds has no result.
LEMMA HeldHasNoResult ==
  ASSUME ClaimsInv, NEW w \in Workers, InFlight(w), Holds(w), attempt[w].key \in Static
  PROVE  ResultOf(attempt[w].key) = 0
  BY DEF ClaimsInv, CompletedUnheld, Holds, ResultOf

LEMMA SettleHasNoResult ==
  ASSUME NEW t \in Row, NEW st \in TaskStatus, st # "COMPLETED"
  PROVE  Settle(t, st).status # "COMPLETED"
  BY DEF Settle, Row

\* A report that lands is the abstract Land of its base step, or keeps every result.
LEMMA LandIsLand ==
  ASSUME ClaimsInv, NEW w \in Workers, NEW outcome \in {"COMPLETED", "FAILED", "CANCELLED"},
         Land(w, outcome)
  PROVE  [Results!Next]_Results!resultVars
  <1> DEFINE j == attempt[w].key
             r == Landed(task[j], outcome, attempt[w].version)
  <1>1. /\ j \in Keys /\ task \in [Keys -> Row] /\ SetRow(j, r) /\ planVersion' = planVersion
        /\ attempt[w].version = planVersion /\ InFlight(w) /\ Holds(w)
    BY DEF Land, ClaimsInv, TypeOK, Attempt, OfCurrentPlan, InFlight
  <1>2. r.status = outcome /\ r.by = planVersion
    BY <1>1 DEF Landed, Row
  <1>3. j \in Static => ResultOf(j) = 0
    BY <1>1, HeldHasNoResult
  <1>4. CASE j \in Static /\ outcome = "COMPLETED"
    <2>1. ASSUME NEW k \in Static
          PROVE  ResultOf(k)' = IF k = j THEN planVersion ELSE ResultOf(k)
      BY <1>1, <1>2, <1>4 DEF SetRow, ResultOf, Static
    <2>2. [k \in Static |-> ResultOf(k)]'
            = [[k \in Static |-> ResultOf(k)] EXCEPT ![j] = planVersion]
      BY <1>4, <2>1
    <2>3. Results!Land(j)
      BY <1>1, <1>3, <1>4, <2>2 DEF Results!Land
    <2> QED BY <1>4, <2>3 DEF Results!Next
  <1>5. CASE ~(j \in Static /\ outcome = "COMPLETED")
    <2>1. j \in Static => (IF r.status = "COMPLETED" THEN r.by ELSE 0) = ResultOf(j)
      BY <1>2, <1>3, <1>5
    <2> HIDE DEF j, r
    <2> QED BY <1>1, <2>1, RowKeepsResults
  <1> QED BY <1>4, <1>5

\* apply_replan forgets exactly the results of the base steps it resets.
LEMMA ReplanIsReplan ==
  ASSUME ClaimsInv, NEW full \in BOOLEAN, Replan(full)
  PROVE  Results!Next
  <1> DEFINE resets == IF full THEN ResetFull ELSE ResetPartial
             removes == IF full THEN Dynamic ELSE {}
  <1>1. ASSUME NEW k \in Static
        PROVE  ResultOf(k)' = IF k \in resets THEN 0 ELSE ResultOf(k)
    <2>1. k \in Keys /\ k \notin removes /\ Exists(k) /\ task[k] \in Row
      BY DEF Static, ClaimsInv, RowIds, TypeOK
    <2>2. task'[k] = ReplanRow(k, resets, removes, planVersion + 1)
      BY <2>1 DEF Replan
    <2> HIDE DEF resets, removes
    <2>3. task'[k] = IF k \in resets THEN ResetRow(task[k], planVersion + 1)
                     ELSE KeptRow(task[k], planVersion + 1)
      BY <2>1, <2>2 DEF ReplanRow
    <2>4. ResetRow(task[k], planVersion + 1).status # "COMPLETED"
      BY <2>1 DEF ResetRow, Row
    <2>5. /\ KeptRow(task[k], planVersion + 1).status = task[k].status
          /\ KeptRow(task[k], planVersion + 1).by = task[k].by
      BY <2>1 DEF KeptRow, Row
    <2> QED BY <2>3, <2>4, <2>5 DEF ResultOf
  <1>2. planVersion' = planVersion + 1
    BY DEF Replan
  <1>3. Results!Replan(resets)
    BY <1>1, <1>2 DEF Results!Replan
  <1> QED BY <1>3 DEF Results!Next

\* Every other step of a worker keeps every result.
LEMMA WorkKeepsResults ==
  ASSUME ClaimsInv, NEW w \in Workers, Work(w)
  PROVE  [Results!Next]_Results!resultVars
  <1> DEFINE j == attempt[w].key
  <1>1. j \in Keys /\ task \in [Keys -> Row] /\ task[j] \in Row
    BY DEF ClaimsInv, TypeOK, Attempt
  <1>2. CASE UNCHANGED <<task, planVersion>>
    <2>1. \A k \in Static : ResultOf(k)' = ResultOf(k)
      BY <1>2 DEF ResultOf
    <2> QED BY <1>2, <2>1, SameResults
  <1>3. CASE WinClaim(w)
    <2> DEFINE r == ClaimedRow(task[j], attempt[w].claim + 1)
    <2>1. SetRow(j, r) /\ planVersion' = planVersion
      BY <1>3 DEF WinClaim
    <2>2. r.status = "RUNNING"
      BY <1>1 DEF ClaimedRow, Row
    <2>3. j \in Static => ResultOf(j) = 0
      BY <1>3 DEF WinClaim, ClaimMatches, ClaimsInv, AttemptRows, Busy, ResultOf
    <2> HIDE DEF j, r
    <2> QED BY <1>1, <2>1, <2>2, <2>3, RowKeepsResults
  <1>4. ASSUME NEW d \in Dynamic, Extend(w, d) \/ FollowUp(w, d)
        PROVE  UNCHANGED Results!resultVars
    <2>1. /\ d \in Keys /\ d \notin Static /\ planVersion' = planVersion
          /\ \/ UNCHANGED task
             \/ SetRow(d, NewRow(nextRow, planVersion)) \/ SetRow(d, NewRow(nextRow, attempt[w].ctx))
      BY <1>4, ClaimsAssumption DEF Extend, FollowUp, Static
    <2>2. CASE UNCHANGED task
      BY <1>2, <2>1, <2>2, SameResults DEF ResultOf
    <2> QED BY <1>1, <2>1, <2>2, RowKeepsResults
  <1>5. ASSUME NEW st \in {"NEW", "CANCELLED"}, InFlight(w), Holds(w), planVersion' = planVersion,
               SetRow(j, Settle(task[j], st)) \/ (j \in Dynamic /\ SetRow(j, NoRow))
        PROVE  UNCHANGED Results!resultVars
    <2>1. j \in Static => ResultOf(j) = 0
      BY <1>5, HeldHasNoResult
    <2>2. Settle(task[j], st).status # "COMPLETED"
      BY <1>1, SettleHasNoResult DEF TaskStatus
    <2>3. j \in Dynamic => j \notin Static
      BY DEF Static
    <2> HIDE DEF j
    <2> QED BY <1>1, <1>5, <2>1, <2>2, <2>3, RowKeepsResults
  <1>6. CASE ReportDisabled(w)
    BY <1>5, <1>6 DEF ReportDisabled, InFlight
  <1>7. CASE Discard(w)
    BY <1>5, <1>7 DEF Discard, InFlight
  <1>8. CASE Requeue(w)
    BY <1>5, <1>8 DEF Requeue, InFlight
  <1>9. CASE CrashReset(w)
    <2>1. CASE Holds(w)
      BY <1>5, <1>9, <2>1 DEF CrashReset, InFlight
    <2>2. CASE ~Holds(w)
      <3>1. SetRow(j, task[j]) /\ planVersion' = planVersion
        BY <1>9, <2>2 DEF CrashReset
      <3>2. (IF task[j].status = "COMPLETED" THEN task[j].by ELSE 0) = ResultOf(j)
        BY DEF ResultOf
      <3> HIDE DEF j
      <3> QED BY <1>1, <3>1, <3>2, RowKeepsResults
    <2> QED BY <2>1, <2>2
  <1> QED
    BY <1>2, <1>3, <1>4, <1>6, <1>7, <1>8, <1>9, LandIsLand
    DEF Work, ReadClaim, LoseClaim, LoadContext, ReadPlan, StopTask, WorkerDies, Superseded

\* Releases, controls and a disabled workspace keep every result; a replan is a replan.
LEMMA EnvironmentResults ==
  ASSUME ClaimsInv, Environment
  PROVE  [Results!Next]_Results!resultVars
  <1>1. task \in [Keys -> Row] /\ \A k \in Static : k \in Keys /\ task[k] \in Row
    BY DEF ClaimsInv, TypeOK, Static
  <1>2. ASSUME NEW j \in Keys, ReleaseTimedOutClaim(j) PROVE UNCHANGED Results!resultVars
    <2>1. ASSUME NEW k \in Static
          PROVE  task'[k].status = task[k].status /\ task'[k].by = task[k].by
      BY <1>1, <1>2, <2>1 DEF ReleaseTimedOutClaim, Row
    <2> QED BY <1>2, <2>1, SameResults DEF ReleaseTimedOutClaim, ResultOf
  <1>3. ASSUME ReleaseOrphanedClaims PROVE UNCHANGED Results!resultVars
    <2>1. ASSUME NEW k \in Static PROVE ResultOf(k)' = ResultOf(k)
      <3>1. Released(task[k]).status = "NEW"
        BY <1>1 DEF Released, Row
      <3> QED BY <1>1, <1>3, <3>1 DEF ReleaseOrphanedClaims, ResultOf
    <2> QED BY <1>3, <2>1, SameResults DEF ReleaseOrphanedClaims
  <1>4. ASSUME (\E c \in Controls : SetControl(c)) \/ DisableWorkspace
        PROVE  UNCHANGED Results!resultVars
    BY <1>4, SameResults DEF SetControl, DisableWorkspace, ResultOf
  <1> QED BY <1>2, <1>3, <1>4, ReplanIsReplan DEF Environment

LEMMA ResultsInit == Init => Results!Init
  <1> SUFFICES ASSUME Init PROVE Results!Init
    OBVIOUS
  <1>1. ASSUME NEW k \in Static PROVE ResultOf(k) = 0
    <2>1. task[k] = NewRow(1, 1)
      BY DEF Init, Static
    <2> QED BY <2>1 DEF ResultOf, NewRow, NoRow
  <1> QED BY <1>1 DEF Init, Results!Init

LEMMA ResultsNext == ClaimsInv /\ [Next]_vars => [Results!Next]_Results!resultVars
  <1> SUFFICES ASSUME ClaimsInv, [Next]_vars PROVE [Results!Next]_Results!resultVars
    OBVIOUS
  <1>1. CASE UNCHANGED vars
    BY <1>1, SameResults DEF vars, ResultOf
  <1> QED BY <1>1, WorkKeepsResults, EnvironmentResults DEF Next

\* execute_task, the releases and apply_replan implement StepResults: a base step gets one
\* result under the plan in force, and loses it only to a replan that resets the step.
THEOREM ClaimsImplementStepResults == Spec => ImplementsStepResults
  <1>1. Init => Results!Init
    BY ResultsInit
  <1>2. ClaimsInv /\ [Next]_vars => [Results!Next]_Results!resultVars
    BY ResultsNext
  <1> QED BY <1>1, <1>2, Invariance, PTL DEF Spec, ImplementsStepResults, Results!Spec

=============================================================================
