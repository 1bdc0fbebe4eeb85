---------------------- MODULE Materialization_proofs -----------------------
(* For any number of candidates, requests and rollbacks: readers of the     *)
(* destination see a whole, checked and approved version.                   *)
EXTENDS Materialization, FiniteSetTheorems, TLAPS

USE DEF Pointer

----------------------------------------------------------------------------
(* The inductive invariant. *)

Good(c) == Passes(c) /\ approval[c].status = "executed"

\* A row is written under an approval that was used for it, and what was ever recorded as
\* promoted, or is named as a pointer, passed the checks.
RowsAreGood ==
    \A c \in Candidates :
        /\ mat[c].status # "none" => approval[c].status = "executed"
        /\ mat[c].status = "promoted" => Good(c)
        /\ mat[c].previous # None => Good(mat[c].previous)

\* A request holds a candidate that was approved; past the checks it is one that passed.
AttemptsAreGood ==
    \A a \in Attempts :
        /\ attempt[a].at # "idle" => attempt[a].of \in Candidates
                                     /\ approval[attempt[a].of].status = "executed"
        /\ attempt[a].at \in {"promote", "record"} => Passes(attempt[a].of)

RollbacksAreGood ==
    \A r \in Rollbacks :
        rollback[r].at # "idle" => /\ rollback[r].current \in Candidates
                                   /\ rollback[r].previous \in Candidates
                                   /\ Good(rollback[r].current)
                                   /\ Good(rollback[r].previous)

WriterInv == TypeOK /\ ViewIsGood /\ RowsAreGood /\ AttemptsAreGood /\ RollbacksAreGood

----------------------------------------------------------------------------
(* What a step has to keep: approvals used stay used, a row gains no good   *)
(* name it has not earned, and whoever moves holds a candidate of its own.  *)

Row == [status : MatStatus, version : Nat, previous : Pointer, staged : BOOLEAN, dropped : BOOLEAN]
AttemptType == [at : AttemptAt, of : Pointer, old : SUBSET Candidates]
RollbackType == [at : RollbackAt, current : Pointer, previous : Pointer]

UsedStaysUsed ==
    /\ approval' \in [Candidates -> [status : ApprovalStatus, previous : Pointer]]
    /\ \A c \in Candidates : approval[c].status = "executed" => approval'[c].status = "executed"

RowsEarnIt ==
    /\ mat' \in [Candidates -> Row]
    /\ \A c \in Candidates :
        \/ mat'[c] = mat[c]
        \/ /\ mat'[c].previous # mat[c].previous =>
                 mat'[c].previous = None \/ (mat'[c].previous \in Candidates /\ Good(mat'[c].previous))
           /\ mat'[c].status # "none" => mat[c].status # "none" \/ approval'[c].status = "executed"
           /\ mat'[c].status = "promoted" => mat[c].status = "promoted" \/ Good(c)

ViewEarnsIt ==
    /\ tables' \subseteq Candidates
    /\ \/ view' = view /\ (view \in tables => view \in tables')
       \/ view' \in tables' /\ Good(view')

AttemptsEarnIt ==
    /\ attempt' \in [Attempts -> AttemptType]
    /\ \A a \in Attempts :
        \/ attempt'[a] = attempt[a]
        \/ attempt'[a].at = "idle"
        \/ /\ attempt'[a].of \in Candidates
           /\ approval'[attempt'[a].of].status = "executed"
           /\ attempt'[a].at \in {"promote", "record"} => Passes(attempt'[a].of)

RollbacksEarnIt ==
    /\ rollback' \in [Rollbacks -> RollbackType]
    /\ \A r \in Rollbacks :
        \/ rollback'[r] = rollback[r]
        \/ rollback'[r].at = "idle"
        \/ /\ rollback'[r].current \in Candidates /\ Good(rollback'[r].current)
           /\ rollback'[r].previous \in Candidates /\ Good(rollback'[r].previous)

LEMMA GoodStays ==
  ASSUME UsedStaysUsed, NEW c \in Candidates, Good(c)
  PROVE  Good(c)'
  BY DEF UsedStaysUsed, Good, Passes

LEMMA StepInv ==
  ASSUME WriterInv, UsedStaysUsed, RowsEarnIt, ViewEarnsIt, AttemptsEarnIt, RollbacksEarnIt,
         events' \in 0..MaxEvents
  PROVE  WriterInv'
  <1>1. view' \in Pointer
    BY DEF ViewEarnsIt, WriterInv, TypeOK
  <1>2. TypeOK'
    BY <1>1 DEF WriterInv, TypeOK, UsedStaysUsed, RowsEarnIt, ViewEarnsIt, AttemptsEarnIt,
                RollbacksEarnIt, Row, AttemptType, RollbackType
  <1>3. ViewIsGood'
    BY <1>1 DEF WriterInv, ViewIsGood, ViewEarnsIt, UsedStaysUsed, Good, Passes, TypeOK
  <1>4. RowsAreGood'
    <2> SUFFICES ASSUME NEW c \in Candidates
                 PROVE  /\ mat'[c].status # "none" => approval'[c].status = "executed"
                        /\ mat'[c].status = "promoted" => Good(c)'
                        /\ mat'[c].previous # None => Passes(mat'[c].previous)
                                                      /\ approval'[mat'[c].previous].status = "executed"
      BY DEF RowsAreGood, Good, Passes
    <2>1. \A d \in Candidates : Good(d) => Passes(d) /\ approval'[d].status = "executed"
      BY DEF Good, UsedStaysUsed
    <2>2. mat[c].previous \in Pointer /\ (mat[c].previous # None => Good(mat[c].previous))
      BY DEF WriterInv, TypeOK, RowsAreGood
    <2>3. mat'[c].status # "none" => approval'[c].status = "executed"
      BY DEF RowsEarnIt, UsedStaysUsed, WriterInv, RowsAreGood
    <2>4. mat'[c].status = "promoted" => Good(c)'
      BY GoodStays DEF RowsEarnIt, WriterInv, RowsAreGood
    <2>5. mat'[c].previous # None => Passes(mat'[c].previous)
                                    /\ approval'[mat'[c].previous].status = "executed"
      <3>1. \/ mat'[c].previous = mat[c].previous
            \/ mat'[c].previous = None
            \/ mat'[c].previous \in Candidates /\ Good(mat'[c].previous)
        BY DEF RowsEarnIt
      <3> QED BY <2>1, <2>2, <3>1
    <2> QED BY <2>3, <2>4, <2>5
  <1>5. AttemptsAreGood'
    BY DEF WriterInv, AttemptsAreGood, AttemptsEarnIt, UsedStaysUsed, Passes
  <1>6. RollbacksAreGood'
    BY GoodStays DEF WriterInv, RollbacksAreGood, RollbacksEarnIt, UsedStaysUsed, Good, Passes
  <1> QED BY <1>2, <1>3, <1>4, <1>5, <1>6 DEF WriterInv

----------------------------------------------------------------------------
(* The actions. *)

LEMMA Kept ==
  ASSUME WriterInv
  PROVE  /\ UNCHANGED approval => UsedStaysUsed
         /\ UNCHANGED mat => RowsEarnIt
         /\ UNCHANGED <<tables, view>> => ViewEarnsIt
         /\ UNCHANGED attempt => AttemptsEarnIt
         /\ UNCHANGED rollback => RollbacksEarnIt
         /\ UNCHANGED events => events' \in 0..MaxEvents
  BY DEF WriterInv, TypeOK, UsedStaysUsed, RowsEarnIt, ViewEarnsIt, AttemptsEarnIt, RollbacksEarnIt,
         Row, AttemptType, RollbackType

\* A request that goes on to another place with the candidate it has.
LEMMA GoEarnsIt ==
  ASSUME WriterInv, NEW a \in Attempts, attempt[a].at # "idle", NEW at \in AttemptAt, Go(a, at),
         UsedStaysUsed, at \in {"promote", "record"} => Passes(attempt[a].of)
  PROVE  AttemptsEarnIt /\ attempt[a].of \in Candidates
  <1>1. attempt[a].of \in Candidates /\ approval'[attempt[a].of].status = "executed"
    BY DEF WriterInv, AttemptsAreGood, UsedStaysUsed
  <1>2. attempt' \in [Attempts -> AttemptType]
    BY DEF WriterInv, TypeOK, Go, AttemptType
  <1>3. attempt'[a].at = at /\ attempt'[a].of = attempt[a].of
    BY DEF WriterInv, TypeOK, Go
  <1>4. \A b \in Attempts : b # a => attempt'[b] = attempt[b]
    BY DEF WriterInv, TypeOK, Go
  <1> QED BY <1>1, <1>2, <1>3, <1>4 DEF AttemptsEarnIt

LEMMA DoneEarnsIt ==
  ASSUME WriterInv, NEW a \in Attempts, Done(a)
  PROVE  AttemptsEarnIt
  <1>1. NoAttempt \in AttemptType /\ NoAttempt.at = "idle"
    BY DEF NoAttempt, AttemptType, AttemptAt
  <1>2. attempt' \in [Attempts -> AttemptType]
    BY <1>1 DEF WriterInv, TypeOK, Done, AttemptType
  <1>3. attempt'[a].at = "idle" /\ \A b \in Attempts : b # a => attempt'[b] = attempt[b]
    BY <1>1 DEF WriterInv, TypeOK, Done
  <1> QED BY <1>2, <1>3 DEF AttemptsEarnIt

\* A row whose checkpoint is set or taken back.
LEMMA StagedEarnsIt ==
  ASSUME WriterInv, NEW c \in Candidates, NEW b \in BOOLEAN, mat' = [mat EXCEPT ![c].staged = b]
  PROVE  RowsEarnIt
  <1>1. mat' \in [Candidates -> Row]
    BY DEF WriterInv, TypeOK, Row
  <1>2. /\ mat'[c].status = mat[c].status /\ mat'[c].previous = mat[c].previous
        /\ \A d \in Candidates : d # c => mat'[d] = mat[d]
    BY DEF WriterInv, TypeOK
  <1> QED BY <1>1, <1>2 DEF RowsEarnIt

\* A row whose status is written, under an approval that was used for it.
LEMMA StatusEarnsIt ==
  ASSUME WriterInv, NEW c \in Candidates, NEW st \in MatStatus, SetStatus(c, st),
         approval'[c].status = "executed", st # "promoted"
  PROVE  RowsEarnIt
  <1>1. mat' \in [Candidates -> Row]
    BY DEF WriterInv, TypeOK, Row, SetStatus
  <1>2. /\ mat'[c].status = st /\ mat'[c].previous = mat[c].previous
        /\ \A d \in Candidates : d # c => mat'[d] = mat[d]
    BY DEF WriterInv, TypeOK, SetStatus
  <1> QED BY <1>1, <1>2 DEF RowsEarnIt

LEMMA CurrentIsGood ==
  ASSUME WriterInv, NEW p \in Current
  PROVE  p = None \/ (p \in Candidates /\ Good(p))
  BY DEF WriterInv, RowsAreGood, Current, Promoted

LEMMA NextVersionIsNat ==
  NextVersion \in Nat
  <1>1. IsFiniteSet({c \in Candidates : mat[c].version > 0})
    BY ConstantsAssumption, FS_Subset
  <1> QED BY <1>1, FS_CardinalityType DEF NextVersion

LEMMA DryRunInv ==
  ASSUME WriterInv, NEW c \in Candidates, DryRun(c)
  PROVE  WriterInv'
  <1> PICK p \in Current : approval' = [approval EXCEPT ![c] = [status |-> "pending", previous |-> p]]
    BY DEF DryRun
  <1>1. p \in Pointer
    BY CurrentIsGood
  <1>2. UsedStaysUsed
    BY <1>1 DEF DryRun, WriterInv, TypeOK, UsedStaysUsed, ApprovalStatus
  <1> QED BY <1>2, Kept, StepInv DEF DryRun

LEMMA ApproveInv ==
  ASSUME WriterInv, NEW c \in Candidates, Approve(c)
  PROVE  WriterInv'
  <1>1. UsedStaysUsed
    BY DEF Approve, WriterInv, TypeOK, UsedStaysUsed, ApprovalStatus
  <1> QED BY <1>1, Kept, StepInv DEF Approve

LEMMA ClaimNewInv ==
  ASSUME WriterInv, NEW a \in Attempts, NEW c \in Candidates, ClaimNew(a, c)
  PROVE  WriterInv'
  <1> PICK p \in Current :
        IF PointerHolds(c, p)
        THEN /\ approval' = [approval EXCEPT ![c].status = "executed"]
             /\ mat' = [mat EXCEPT ![c] = [NoRow EXCEPT !.status = "approved", !.version = NextVersion,
                                                         !.previous = p]]
             /\ attempt' = [attempt EXCEPT ![a] = [at |-> "stage", of |-> c, old |-> {}]]
        ELSE /\ approval' = [approval EXCEPT ![c].status = "invalidated"]
             /\ UNCHANGED <<mat, attempt>>
    BY DEF ClaimNew
  <1>1. CASE ~PointerHolds(c, p)
    <2>1. UsedStaysUsed
      BY <1>1 DEF ClaimNew, WriterInv, TypeOK, UsedStaysUsed, ApprovalStatus
    <2> QED BY <1>1, <2>1, Kept, StepInv DEF ClaimNew
  <1>2. CASE PointerHolds(c, p)
    <2> DEFINE r == [NoRow EXCEPT !.status = "approved", !.version = NextVersion, !.previous = p]
    <2>1. p = None \/ (p \in Candidates /\ Good(p))
      BY CurrentIsGood
    <2>2. r \in Row /\ r.status = "approved" /\ r.previous = p
      BY <2>1, NextVersionIsNat DEF NoRow, Row, MatStatus
    <2> HIDE DEF r
    <2>3. UsedStaysUsed /\ approval'[c].status = "executed"
      <3>1. approval' = [approval EXCEPT ![c].status = "executed"]
        BY <1>2
      <3> QED BY <3>1 DEF WriterInv, TypeOK, UsedStaysUsed, ApprovalStatus
    <2>4. mat' = [mat EXCEPT ![c] = r]
      BY <1>2 DEF r
    <2>5. mat' \in [Candidates -> Row]
      BY <2>2, <2>4 DEF WriterInv, TypeOK, Row
    <2>6. mat'[c] = r /\ \A d \in Candidates : d # c => mat'[d] = mat[d]
      BY <2>4 DEF WriterInv, TypeOK
    <2>7. RowsEarnIt
      BY <2>1, <2>2, <2>3, <2>5, <2>6 DEF RowsEarnIt
    <2>8. attempt' \in [Attempts -> AttemptType]
      BY <1>2 DEF WriterInv, TypeOK, AttemptType, AttemptAt
    <2>9. /\ attempt'[a] = [at |-> "stage", of |-> c, old |-> {}]
          /\ \A b \in Attempts : b # a => attempt'[b] = attempt[b]
      BY <1>2 DEF WriterInv, TypeOK
    <2>10. AttemptsEarnIt
      BY <2>3, <2>8, <2>9 DEF AttemptsEarnIt
    <2> QED BY <2>3, <2>7, <2>10, Kept, StepInv DEF ClaimNew
  <1> QED BY <1>1, <1>2

LEMMA ClaimRetryInv ==
  ASSUME WriterInv, NEW a \in Attempts, NEW c \in Candidates, ClaimRetry(a, c)
  PROVE  WriterInv'
  <1>1. approval[c].status = "executed"
    BY DEF ClaimRetry, WriterInv, RowsAreGood
  <1>2. PICK at \in {"validate", "stage"} : attempt' = [attempt EXCEPT ![a] = [at |-> at, of |-> c, old |-> {}]]
    BY DEF ClaimRetry
  <1>3. attempt' \in [Attempts -> AttemptType]
    BY <1>2 DEF WriterInv, TypeOK, AttemptType, AttemptAt
  <1>4. /\ attempt'[a] = [at |-> at, of |-> c, old |-> {}]
        /\ \A b \in Attempts : b # a => attempt'[b] = attempt[b]
    BY <1>2 DEF WriterInv, TypeOK
  <1>5. AttemptsEarnIt
    BY <1>1, <1>3, <1>4 DEF AttemptsEarnIt, ClaimRetry
  <1> QED BY <1>5, Kept, StepInv DEF ClaimRetry

LEMMA StageInv ==
  ASSUME WriterInv, NEW a \in Attempts, Stage(a)
  PROVE  WriterInv'
  <1>1. PICK at \in {"fail", "checkpoint"} : Go(a, at)
    BY DEF Stage
  <1>2. AttemptsEarnIt /\ attempt[a].of \in Candidates
    BY <1>1, Kept, GoEarnsIt DEF Stage, AttemptAt
  <1>3. ViewEarnsIt
    BY <1>2 DEF Stage, WriterInv, TypeOK, ViewEarnsIt
  <1> QED BY <1>2, <1>3, Kept, StepInv DEF Stage

LEMMA CheckpointInv ==
  ASSUME WriterInv, NEW a \in Attempts, Checkpoint(a)
  PROVE  WriterInv'
  <1>1. AttemptsEarnIt /\ attempt[a].of \in Candidates
    BY Kept, GoEarnsIt DEF Checkpoint, AttemptAt
  <1>2. RowsEarnIt
    BY <1>1, StagedEarnsIt DEF Checkpoint
  <1> QED BY <1>1, <1>2, Kept, StepInv DEF Checkpoint

LEMMA MarkStagedInv ==
  ASSUME WriterInv, NEW a \in Attempts, MarkStaged(a)
  PROVE  WriterInv'
  <1>1. AttemptsEarnIt /\ attempt[a].of \in Candidates /\ approval'[attempt[a].of].status = "executed"
    BY Kept, GoEarnsIt DEF MarkStaged, AttemptAt, WriterInv, AttemptsAreGood
  <1>2. RowsEarnIt
    BY <1>1, StatusEarnsIt DEF MarkStaged, MatStatus
  <1> QED BY <1>1, <1>2, Kept, StepInv DEF MarkStaged

LEMMA ValidateInv ==
  ASSUME WriterInv, NEW a \in Attempts, Validate(a)
  PROVE  WriterInv'
  <1>1. PICK at \in {"fail", "promote", "drop"} :
            Go(a, at) /\ (at = "promote" => Passes(attempt[a].of))
    BY DEF Validate
  <1>2. AttemptsEarnIt
    BY <1>1, Kept, GoEarnsIt DEF Validate, AttemptAt
  <1> QED BY <1>2, Kept, StepInv DEF Validate

LEMMA DropInvalidInv ==
  ASSUME WriterInv, NEW a \in Attempts, DropInvalid(a)
  PROVE  WriterInv'
  <1>1. AttemptsEarnIt
    BY Kept, GoEarnsIt DEF DropInvalid, AttemptAt
  <1>2. ViewEarnsIt
    BY DEF DropInvalid, Droppable, WriterInv, TypeOK, ViewEarnsIt
  <1> QED BY <1>1, <1>2, Kept, StepInv DEF DropInvalid

LEMMA UnstageInv ==
  ASSUME WriterInv, NEW a \in Attempts, Unstage(a)
  PROVE  WriterInv'
  <1>1. AttemptsEarnIt /\ attempt[a].of \in Candidates
    BY Kept, GoEarnsIt DEF Unstage, AttemptAt
  <1>2. RowsEarnIt
    BY <1>1, StagedEarnsIt DEF Unstage
  <1> QED BY <1>1, <1>2, Kept, StepInv DEF Unstage

LEMMA PromoteInv ==
  ASSUME WriterInv, NEW a \in Attempts, Promote(a)
  PROVE  WriterInv'
  <1>1. Good(attempt[a].of)
    BY DEF Promote, WriterInv, AttemptsAreGood, Good
  <1>2. PICK at \in {"record", "fail"} : Go(a, at)
    BY DEF Promote
  <1>3. AttemptsEarnIt
    BY <1>1, <1>2, Kept, GoEarnsIt DEF Promote, AttemptAt, Good
  <1>4. ViewEarnsIt
    BY <1>1 DEF Promote, Promotable, WriterInv, TypeOK, ViewEarnsIt
  <1> QED BY <1>3, <1>4, Kept, StepInv DEF Promote

LEMMA RecordInv ==
  ASSUME WriterInv, NEW a \in Attempts, Record(a)
  PROVE  WriterInv'
  <1> DEFINE c == attempt[a].of
             p == mat[c].previous
             row == [d \in Candidates |->
                       IF d = c THEN [mat[d] EXCEPT !.status = "promoted"]
                       ELSE IF d = p /\ mat[d].status = "promoted"
                            THEN [mat[d] EXCEPT !.status = "superseded"]
                            ELSE mat[d]]
  <1>1. c \in Candidates /\ Good(c)
    BY DEF Record, WriterInv, AttemptsAreGood, Good
  <1>2. mat' = row
    BY DEF Record
  <1>3. \A d \in Candidates :
          /\ row[d] \in Row /\ row[d].previous = mat[d].previous
          /\ row[d].status # "none" => mat[d].status # "none" \/ d = c
          /\ row[d].status = "promoted" => mat[d].status = "promoted" \/ d = c
    BY DEF WriterInv, TypeOK, Row, MatStatus
  <1>4. attempt' = [attempt EXCEPT ![a] =
            IF Old(row, c) = {} THEN NoAttempt ELSE [at |-> "retire", of |-> c, old |-> Old(row, c)]]
    BY DEF Record
  <1>5. Old(row, c) \subseteq Candidates
    BY DEF Old
  <1> HIDE DEF c, row
  <1>6. RowsEarnIt
    <2>1. mat' \in [Candidates -> Row]
      BY <1>2, <1>3 DEF row
    <2>2. approval'[c].status = "executed"
      BY <1>1 DEF Record, Good
    <2> QED BY <1>1, <1>2, <1>3, <2>1, <2>2 DEF RowsEarnIt
  <1>7. AttemptsEarnIt
    <2>1. attempt' \in [Attempts -> AttemptType]
      BY <1>1, <1>4, <1>5 DEF WriterInv, TypeOK, AttemptType, AttemptAt, NoAttempt
    <2>2. /\ attempt'[a].at = "idle" \/ (attempt'[a].at = "retire" /\ attempt'[a].of = c)
          /\ \A b \in Attempts : b # a => attempt'[b] = attempt[b]
      BY <1>4 DEF WriterInv, TypeOK, NoAttempt
    <2>3. approval'[c].status = "executed"
      BY <1>1 DEF Record, Good
    <2> QED BY <1>1, <2>1, <2>2, <2>3 DEF AttemptsEarnIt
  <1> QED BY <1>6, <1>7, Kept, StepInv DEF Record

LEMMA RetireInv ==
  ASSUME WriterInv, NEW a \in Attempts, Retire(a)
  PROVE  WriterInv'
  <1> DEFINE gone == Droppable(attempt[a].old)
  <1>1. /\ gone \subseteq Candidates /\ view \notin gone
        /\ tables' = tables \ gone
        /\ attempt' = [attempt EXCEPT ![a].at = "flag", ![a].old = gone]
    BY DEF Retire, Droppable, WriterInv, TypeOK
  <1> HIDE DEF gone
  <1>2. ViewEarnsIt
    BY <1>1 DEF Retire, WriterInv, TypeOK, ViewEarnsIt
  <1>3. attempt' \in [Attempts -> AttemptType]
    <2>1. [attempt[a] EXCEPT !.at = "flag", !.old = gone] \in AttemptType
      BY <1>1 DEF WriterInv, TypeOK, AttemptType, AttemptAt
    <2>2. attempt' = [attempt EXCEPT ![a] = [attempt[a] EXCEPT !.at = "flag", !.old = gone]]
      BY <1>1 DEF WriterInv, TypeOK
    <2> QED BY <2>1, <2>2 DEF WriterInv, TypeOK, AttemptType
  <1>4. /\ attempt'[a].at = "flag" /\ attempt'[a].of = attempt[a].of
        /\ \A b \in Attempts : b # a => attempt'[b] = attempt[b]
    BY <1>1 DEF WriterInv, TypeOK
  <1>5. attempt[a].of \in Candidates /\ approval'[attempt[a].of].status = "executed"
    BY DEF Retire, WriterInv, AttemptsAreGood
  <1>6. AttemptsEarnIt
    BY <1>3, <1>4, <1>5 DEF AttemptsEarnIt
  <1> QED BY <1>2, <1>6, Kept, StepInv DEF Retire

LEMMA FlagInv ==
  ASSUME WriterInv, NEW a \in Attempts, Flag(a)
  PROVE  WriterInv'
  <1>1. \A c \in Candidates :
            mat'[c] = mat[c] \/ mat'[c] = [mat[c] EXCEPT !.dropped = TRUE]
    BY DEF Flag
  <1>2. ASSUME NEW c \in Candidates
        PROVE  mat'[c] \in Row /\ mat'[c].previous = mat[c].previous /\ mat'[c].status = mat[c].status
    <2>1. mat[c] \in Row
      BY DEF WriterInv, TypeOK, Row
    <2> QED BY <1>1, <2>1 DEF Row
  <1>3. mat' \in [Candidates -> Row]
    BY <1>2 DEF Flag
  <1>4. RowsEarnIt
    BY <1>2, <1>3 DEF RowsEarnIt
  <1> QED BY <1>4, Kept, DoneEarnsIt, StepInv DEF Flag

LEMMA FailInv ==
  ASSUME WriterInv, NEW a \in Attempts, Fail(a)
  PROVE  WriterInv'
  <1>1. attempt[a].of \in Candidates /\ approval'[attempt[a].of].status = "executed"
    BY DEF Fail, WriterInv, AttemptsAreGood
  <1>2. RowsEarnIt
    BY <1>1, StatusEarnsIt DEF Fail, MatStatus
  <1> QED BY <1>2, Kept, DoneEarnsIt, StepInv DEF Fail

LEMMA AttemptEventInv ==
  ASSUME WriterInv, NEW a \in Attempts, StatementFails(a) \/ AttemptDies(a)
  PROVE  WriterInv'
  <1>1. events' \in 0..MaxEvents
    BY ConstantsAssumption DEF WriterInv, TypeOK, StatementFails, AttemptDies
  <1>2. AttemptsEarnIt
    BY Kept, GoEarnsIt, DoneEarnsIt DEF StatementFails, AttemptDies, AttemptAt, InTry
  <1> QED BY <1>1, <1>2, Kept, StepInv DEF StatementFails, AttemptDies

LEMMA RollbackInv ==
  ASSUME WriterInv, NEW r \in Rollbacks, RollbackSteps(r)
  PROVE  WriterInv'
  <1>0. NoRollback \in RollbackType /\ NoRollback.at = "idle"
    BY DEF NoRollback, RollbackType, RollbackAt
  <1>1. ASSUME NEW c \in Candidates, ReadRollback(r, c) PROVE WriterInv'
    <2> DEFINE p == mat[c].previous
    <2>1. p \in Candidates /\ Good(p) /\ Good(c)
      BY <1>1 DEF ReadRollback, WriterInv, TypeOK, RowsAreGood
    <2>2. rollback' = [rollback EXCEPT ![r] = [at |-> "promote", current |-> c, previous |-> p]]
      BY <1>1 DEF ReadRollback
    <2> HIDE DEF p
    <2>3. rollback' \in [Rollbacks -> RollbackType]
      BY <2>1, <2>2 DEF WriterInv, TypeOK, RollbackType, RollbackAt
    <2>4. /\ rollback'[r] = [at |-> "promote", current |-> c, previous |-> p]
          /\ \A q \in Rollbacks : q # r => rollback'[q] = rollback[q]
      BY <2>2 DEF WriterInv, TypeOK
    <2>5. RollbacksEarnIt
      BY <2>1, <2>3, <2>4 DEF RollbacksEarnIt
    <2> QED BY <1>1, <2>5, Kept, StepInv DEF ReadRollback
  <1>2. ASSUME rollback[r].at # "idle", rollback' = [rollback EXCEPT ![r] = NoRollback]
        PROVE  RollbacksEarnIt
    <2>1. rollback' \in [Rollbacks -> RollbackType]
      BY <1>0, <1>2 DEF WriterInv, TypeOK, RollbackType
    <2>2. rollback'[r].at = "idle" /\ \A q \in Rollbacks : q # r => rollback'[q] = rollback[q]
      BY <1>0, <1>2 DEF WriterInv, TypeOK
    <2> QED BY <2>1, <2>2 DEF RollbacksEarnIt
  <1>3. ASSUME rollback[r].at # "idle"
        PROVE  /\ rollback[r].current \in Candidates /\ Good(rollback[r].current)
               /\ rollback[r].previous \in Candidates /\ Good(rollback[r].previous)
    BY <1>3 DEF WriterInv, RollbacksAreGood
  <1>4. CASE PromotePrevious(r)
    <2>1. ViewEarnsIt
      BY <1>3, <1>4 DEF PromotePrevious, Promotable, WriterInv, TypeOK, ViewEarnsIt
    <2>2. RollbacksEarnIt
      <3>1. CASE rollback' = [rollback EXCEPT ![r].at = "record"]
        <4>1. rollback' \in [Rollbacks -> RollbackType]
          BY <3>1 DEF WriterInv, TypeOK, RollbackType, RollbackAt
        <4>2. /\ rollback'[r].current = rollback[r].current /\ rollback'[r].previous = rollback[r].previous
              /\ \A q \in Rollbacks : q # r => rollback'[q] = rollback[q]
          BY <3>1 DEF WriterInv, TypeOK
        <4> QED BY <1>3, <1>4, <4>1, <4>2 DEF RollbacksEarnIt, PromotePrevious
      <3> QED BY <1>2, <1>4, <3>1 DEF PromotePrevious
    <2> QED BY <1>4, <2>1, <2>2, Kept, StepInv DEF PromotePrevious
  <1>5. CASE RecordRollback(r)
    <2> DEFINE c == rollback[r].current
               p == rollback[r].previous
    <2>1. c \in Candidates /\ p \in Candidates /\ Good(c) /\ Good(p)
      BY <1>3, <1>5 DEF RecordRollback
    <2>2. mat' = [mat EXCEPT ![c].status = "rolled_back", ![p].status = "promoted"]
      BY <1>5 DEF RecordRollback
    <2>3. approval'[c].status = "executed" /\ approval'[p].status = "executed"
      BY <1>5, <2>1 DEF RecordRollback, Good
    <2> HIDE DEF c, p
    <2>4. mat' \in [Candidates -> Row]
      BY <2>1, <2>2 DEF WriterInv, TypeOK, Row, MatStatus
    <2>5. \A d \in Candidates : /\ mat'[d].previous = mat[d].previous
                                /\ d # p => mat'[d] = mat[d] \/ (d = c /\ mat'[d].status = "rolled_back")
      BY <2>1, <2>2 DEF WriterInv, TypeOK
    <2>6. RowsEarnIt
      <3>1. \A d \in Candidates : d = p \/ d = c => Good(d) /\ approval'[d].status = "executed"
        BY <2>1, <2>3
      <3>2. \A d \in Candidates :
              \/ mat'[d] = mat[d]
              \/ /\ mat'[d].previous = mat[d].previous
                 /\ approval'[d].status = "executed" /\ Good(d)
        BY <2>5, <3>1
      <3> QED BY <2>4, <3>2 DEF RowsEarnIt
    <2>7. RollbacksEarnIt
      BY <1>2, <1>5 DEF RecordRollback
    <2> QED BY <1>5, <2>6, <2>7, Kept, StepInv DEF RecordRollback
  <1>6. CASE RollbackDies(r)
    <2>1. events' \in 0..MaxEvents
      BY <1>6, ConstantsAssumption DEF WriterInv, TypeOK, RollbackDies
    <2>2. RollbacksEarnIt
      BY <1>2, <1>6 DEF RollbackDies
    <2> QED BY <1>6, <2>1, <2>2, Kept, StepInv DEF RollbackDies
  <1> QED BY <1>1, <1>4, <1>5, <1>6 DEF RollbackSteps

----------------------------------------------------------------------------
(* The theorems. *)

LEMMA WriterInvInit ==
  Init => WriterInv
  BY ConstantsAssumption DEF Init, NoRow, NoAttempt, NoRollback, WriterInv, TypeOK, ViewIsGood, RowsAreGood,
     AttemptsAreGood, RollbacksAreGood, ApprovalStatus, MatStatus, AttemptAt, RollbackAt

LEMMA WriterInvStep ==
  WriterInv /\ [Next]_vars => WriterInv'
  <1> SUFFICES ASSUME WriterInv, [Next]_vars PROVE WriterInv'
    OBVIOUS
  <1>1. CASE UNCHANGED vars
    BY <1>1, Kept, StepInv DEF vars
  <1>2. ASSUME NEW c \in Candidates, DryRun(c) \/ Approve(c) PROVE WriterInv'
    BY <1>2, DryRunInv, ApproveInv
  <1>3. ASSUME NEW a \in Attempts, AttemptSteps(a) PROVE WriterInv'
    BY <1>3, ClaimNewInv, ClaimRetryInv, StageInv, CheckpointInv, MarkStagedInv, ValidateInv, DropInvalidInv,
       UnstageInv, PromoteInv, RecordInv, RetireInv, FlagInv, FailInv, AttemptEventInv DEF AttemptSteps
  <1> QED BY <1>1, <1>2, <1>3, RollbackInv DEF Next

\* The invariant of the managed writer holds in every run: what the rows, the open requests and the
\* open rollbacks name has been approved and, once it may be read, checked.
THEOREM WriterInvariance == Spec => []WriterInv
  BY WriterInvInit, WriterInvStep, PTL DEF Spec

\* Every reachable state of a destination and its requests is well typed.
THEOREM TypeCorrect == Spec => []TypeOK
  BY WriterInvariance, PTL DEF WriterInv

\* Readers never see a missing, unchecked or unapproved version, whichever requests race or die.
THEOREM ViewIsGoodAlways == Spec => []ViewIsGood
  BY WriterInvariance, PTL DEF WriterInv
=============================================================================
