------------------------------ MODULE AskTurns ------------------------------
(***************************************************************************)
(* Questions asked in a thread with an Idempotency-Key: the endpoint       *)
(* (api/routers/ask.py), the key's record and its lease                    *)
(* (services/idempotency.py: claim, complete, release), the turn the       *)
(* question is written to (services/ask.py: ask_in_thread) and the sweep   *)
(* that ends what a dead process left running (services/stale_work.py).    *)
(*                                                                         *)
(* An attempt is one HTTP request with the same key and body: the first    *)
(* one, its retries and its duplicates.  The request and the worker thread *)
(* that asks go their own ways once a stream is cut.  A claim is two or    *)
(* three statements, each seeing what was committed before it.             *)
(***************************************************************************)
EXTENDS Naturals

CONSTANTS
    Attempts,       \* requests with this key
    Nobody,         \* no attempt
    MaxEvents       \* bound: deaths, cut streams, failed writes, purges

ASSUME AskAssumption == Nobody \notin Attempts /\ MaxEvents \in Nat

VARIABLES
    key,            \* the idempotency record: its status, its turn, whether its lease is over
    request,        \* where each request is; for a replay, the turn it was served
    work,           \* the worker thread of each attempt
    turn,           \* the status of the turn an attempt created
    old,            \* turns created more than ASK_TURN_BOUND ago
    holder,         \* history: the attempt whose claim the record is
    given,          \* history: attempts whose claim was given up, or that never had one
    events          \* how many of MaxEvents have happened

vars == <<key, request, work, turn, old, holder, given, events>>

NoKey == [status |-> "none", turn |-> Nobody, lapsed |-> FALSE]
Claimed == [status |-> "in_progress", turn |-> Nobody, lapsed |-> FALSE]

Init ==
    /\ key = NoKey /\ holder = Nobody /\ given = {} /\ events = 0
    /\ request = [a \in Attempts |-> [pc |-> "idle", turn |-> Nobody]]
    /\ work = [a \in Attempts |-> "none"]
    /\ turn = [a \in Attempts |-> "none"]
    /\ old = [a \in Attempts |-> FALSE]

At(a, pc) == request[a].pc = pc
Go(a, pc) == request' = [request EXCEPT ![a].pc = pc]
Count == events < MaxEvents /\ events' = events + 1

-----------------------------------------------------------------------------
(* claim *)

\* INSERT .. ON CONFLICT DO NOTHING
Insert(a) ==
    /\ At(a, "idle")
    /\ IF key.status = "none"
       THEN key' = Claimed /\ holder' = a /\ Go(a, "claimed")
       ELSE UNCHANGED <<key, holder>> /\ Go(a, "found")
    /\ UNCHANGED <<work, turn, old, given, events>>

\* Mutant of MayTakeOver: the lease is not looked at.
MayTakeOverAny == key.status = "in_progress"
\* Mutant of MayTakeOver: nothing is taken over.
MayTakeOverNever == FALSE

MayTakeOver == key.status = "in_progress" /\ key.lapsed

\* _existing: FOR UPDATE.  The record can be gone again.
Gone(a) ==
    /\ At(a, "found") /\ key.status = "none"
    /\ Go(a, "again")
    /\ UNCHANGED <<key, work, turn, old, holder, given, events>>

\* Replay: the turn the record names.
Replay(a) ==
    /\ At(a, "found") /\ key.status = "completed"
    /\ request' = [request EXCEPT ![a] = [pc |-> "served", turn |-> key.turn]]
    /\ UNCHANGED <<key, work, turn, old, holder, given, events>>

TakeOver(a) ==
    /\ At(a, "found") /\ MayTakeOver
    /\ key' = Claimed /\ holder' = a
    /\ given' = IF key.lapsed THEN given \cup {holder} ELSE given
    /\ Go(a, "claimed")
    /\ UNCHANGED <<work, turn, old, events>>

\* 409: the client sends it again.
InProgress(a) ==
    /\ At(a, "found") /\ key.status = "in_progress" /\ ~MayTakeOver
    /\ Go(a, "idle")
    /\ UNCHANGED <<key, work, turn, old, holder, given, events>>

\* The record was gone: insert again.  Whether it was inserted is not looked at.
InsertAgain(a) ==
    /\ At(a, "again")
    /\ IF key.status = "none"
       THEN key' = Claimed /\ holder' = a /\ UNCHANGED given
       ELSE given' = given \cup {a} /\ UNCHANGED <<key, holder>>
    /\ Go(a, "claimed")
    /\ UNCHANGED <<work, turn, old, events>>

-----------------------------------------------------------------------------
(* The turn *)

\* The turn is created running, in a transaction of its own.
CreateTurn(a) ==
    /\ At(a, "claimed")
    /\ turn' = [turn EXCEPT ![a] = "running"]
    /\ work' = [work EXCEPT ![a] = "asking"]
    /\ Go(a, "asking")
    /\ UNCHANGED <<key, old, holder, given, events>>

\* The thread is gone, or the database is: no turn.
CreateFails(a) ==
    /\ At(a, "claimed") /\ Count
    /\ work' = [work EXCEPT ![a] = "failed"]
    /\ Go(a, "asking")
    /\ UNCHANGED <<key, turn, old, holder, given>>

\* _persist_turn: whatever the turn's status is by now.
Persist(a, outcome) ==
    /\ work[a] = "asking"
    /\ turn' = [turn EXCEPT ![a] = outcome]
    /\ work' = [work EXCEPT ![a] = "done"]
    /\ UNCHANGED <<key, request, old, holder, given, events>>

PersistFails(a) ==
    /\ work[a] = "asking" /\ Count
    /\ work' = [work EXCEPT ![a] = "failing"]
    /\ UNCHANGED <<key, request, turn, old, holder, given>>

\* _mark_failed; it may fail as well.
MarkFailed(a) ==
    /\ work[a] = "failing"
    /\ work' = [work EXCEPT ![a] = "failed"]
    /\ \/ turn' = [turn EXCEPT ![a] = IF @ = "running" THEN "refused" ELSE @] /\ UNCHANGED events
       \/ Count /\ UNCHANGED turn
    /\ UNCHANGED <<key, request, old, holder, given>>

-----------------------------------------------------------------------------
(* Settling the key *)

Ready(a) == At(a, "asking") /\ work[a] = "done"

CompletedBy(a) == [status |-> "completed", turn |-> a, lapsed |-> FALSE]

\* complete_in: by key alone, whoever holds it; nothing without a record.
Complete(a) ==
    /\ Ready(a)
    /\ key' = IF key.status = "none" THEN key ELSE CompletedBy(a)
    /\ Go(a, "answered")
    /\ UNCHANGED <<work, turn, old, holder, given, events>>

\* Mutant of Deleted: the status is not part of the WHERE.
DeletedAny == key.status # "none"

Deleted == key.status = "in_progress"

\* release: by key alone, if it is in progress.
Release(a) ==
    /\ \/ At(a, "asking") /\ work[a] = "failed"
       \/ At(a, "gone")
    /\ key' = IF Deleted THEN NoKey ELSE key
    /\ given' = IF Deleted THEN given \cup {IF a \in given THEN holder ELSE a} ELSE given
    /\ holder' = IF Deleted THEN Nobody ELSE holder
    /\ Go(a, "failed")
    /\ UNCHANGED <<work, turn, old, events>>

\* The record cannot be written: the key stays as it is.
SettleFails(a) ==
    /\ At(a, "gone") \/ (At(a, "asking") /\ work[a] \in {"done", "failed"})
    /\ Count /\ Go(a, "failed")
    /\ UNCHANGED <<key, work, turn, old, holder, given>>

\* The client leaves or loses access while its stream is open.  The thread goes on; the
\* key is released, or not at all when the cancellation also cuts the release.
Disconnect(a) ==
    /\ At(a, "asking") /\ Count
    /\ \E pc \in {"gone", "failed"} : Go(a, pc)
    /\ UNCHANGED <<key, work, turn, old, holder, given>>

Die(a) ==
    /\ request[a].pc \in {"claimed", "asking", "gone"} \/ work[a] \in {"asking", "failing"}
    /\ Count
    /\ Go(a, IF request[a].pc \in {"claimed", "asking", "gone"} THEN "failed" ELSE request[a].pc)
    /\ work' = [work EXCEPT ![a] = IF @ \in {"asking", "failing"} THEN "dead" ELSE @]
    /\ UNCHANGED <<key, turn, old, holder, given>>

-----------------------------------------------------------------------------
(* Time *)

\* LEASE, ten minutes after the claim.
LeaseRunsOut ==
    /\ key.status = "in_progress" /\ ~key.lapsed
    /\ key' = [key EXCEPT !.lapsed = TRUE]
    /\ UNCHANGED <<request, work, turn, old, holder, given, events>>

\* ASK_TURN_BOUND, thirty minutes: the lease it was created under is over.
Age(a) ==
    /\ turn[a] # "none" /\ ~old[a]
    /\ ~(key.status = "in_progress" /\ holder = a /\ ~key.lapsed)
    /\ old' = [old EXCEPT ![a] = TRUE]
    /\ UNCHANGED <<key, request, work, turn, holder, given, events>>

Stale(a) == old[a] /\ turn[a] = "running"

\* sweep, at start-up and in every iteration of the scheduler.
Sweep ==
    /\ \E a \in Attempts : Stale(a)
    /\ turn' = [a \in Attempts |-> IF Stale(a) THEN "refused" ELSE turn[a]]
    /\ UNCHANGED <<key, request, work, old, holder, given, events>>

\* purge_expired, after RETENTION: the key is free again.
Purge ==
    /\ key.status = "completed" /\ Count
    /\ key' = NoKey /\ holder' = Nobody
    /\ given' = given \cup ({key.turn, holder} \ {Nobody})
    /\ UNCHANGED <<request, work, turn, old>>

-----------------------------------------------------------------------------

Claim(a) == Insert(a) \/ Gone(a) \/ Replay(a) \/ TakeOver(a) \/ InProgress(a) \/ InsertAgain(a)

Step(a) == Claim(a) \/ CreateTurn(a) \/ Complete(a) \/ Release(a)

Work(a) == (\E outcome \in {"answered", "refused"} : Persist(a, outcome)) \/ MarkFailed(a)

Fault(a) == CreateFails(a) \/ PersistFails(a) \/ SettleFails(a) \/ Disconnect(a) \/ Die(a)

Next ==
    \/ LeaseRunsOut \/ Sweep \/ Purge
    \/ \E a \in Attempts : Step(a) \/ Work(a) \/ Age(a) \/ Fault(a)

Spec == Init /\ [][Next]_vars

\* A process that lives goes on, a client that got a 409 tries again, a question ends (its
\* model calls and queries have time-outs), time passes and the scheduler sweeps.
FairSpec ==
    /\ Spec
    /\ \A a \in Attempts : WF_vars(Step(a)) /\ WF_vars(Work(a)) /\ WF_vars(Age(a))
    /\ WF_vars(LeaseRunsOut) /\ WF_vars(Sweep)

-----------------------------------------------------------------------------
(* Properties *)

Ended == {"served", "answered", "failed"}

TypeOK ==
    /\ key \in [status : {"none", "in_progress", "completed"}, turn : Attempts \cup {Nobody}, lapsed : BOOLEAN]
    /\ request \in [Attempts -> [pc : Ended \cup {"idle", "found", "again", "claimed", "asking", "gone"},
                                 turn : Attempts \cup {Nobody}]]
    /\ work \in [Attempts -> {"none", "asking", "failing", "done", "failed", "dead"}]
    /\ turn \in [Attempts -> {"none", "running", "answered", "refused"}]
    /\ old \in [Attempts -> BOOLEAN]
    /\ holder \in Attempts \cup {Nobody} /\ given \in SUBSET Attempts /\ events \in 0..MaxEvents
    /\ key.status = "completed" <=> key.turn # Nobody
    /\ key.lapsed => key.status = "in_progress"

\* "a retry of the same question returns the turn the first request produced, 409 while that
\* one still runs": of two attempts that both asked, one had given up its claim: its lease
\* ran out and it was taken over, it released the key (or one that had given up its own
\* released it), its record was purged, or it never had a claim: the record it found was
\* gone when it looked again, and another request had inserted one before it did.
AskedOnce ==
    \A a, b \in Attempts :
        turn[a] # "none" /\ turn[b] # "none" /\ a # b => a \in given \/ b \in given

\* A completed key, and each replay of it, names a turn that was answered or refused: never
\* one still running, nor one that does not exist.
ReplayIsEnded ==
    LET named == ({key.turn} \cup {request[a].turn : a \in Attempts}) \ {Nobody}
    IN  \A a \in named : turn[a] \in {"answered", "refused"}

\* "the same key and body after completion -> replay (the original resource)": a completed
\* record is neither deleted before its retention ends nor moved to another turn, except by
\* or from an attempt that had given up its claim (complete asks for no holder).
CompletedStays ==
    [][key.status = "completed" =>
         \/ key' = key \/ Purge
         \/ key'.status = "completed" /\ (key.turn \in given \/ key'.turn \in given)]_vars

\* "it must never stay running"; "the row stays `running` forever and the UI spins": every
\* turn ends, whatever died, and an answer that was given is not taken back by the sweep.
TurnsEnd == <>[](\A a \in Attempts : turn[a] # "running")
AnsweredStays == [][\A a \in Attempts : turn[a] = "answered" => turn'[a] = "answered"]_vars

\* "a crash leaves it in progress until the lease passes, after which a retry with the same
\* body takes it over": no request is answered 409 for ever.
EveryRetryEnds == <>(\A a \in Attempts : request[a].pc \in Ended)

\* Why a question is asked once: whoever got past its claim and has not given it up is the one
\* the record was claimed by.
Claimants == {a \in Attempts : turn[a] # "none" \/ request[a].pc \in {"claimed", "asking", "gone", "answered", "failed"}}
HeldByOne ==
    /\ key.status = "none" <=> holder = Nobody
    /\ \A a \in Claimants \ given : holder = a

\* Why a replay is of a turn that ended: an attempt writes to its own turn only, once, and
\* not before it has its claim.
TurnFollowsWork ==
    \A a \in Attempts :
        /\ request[a].pc \in {"idle", "found", "again", "claimed", "served"} => work[a] = "none" /\ turn[a] = "none"
        /\ work[a] = "done" => turn[a] \in {"answered", "refused"}
        /\ turn[a] = "answered" => work[a] = "done"

\* The key and its turns together, who may ask and what a replay returns: the inductive
\* invariant.
AskInv == TypeOK /\ AskedOnce /\ ReplayIsEnded /\ HeldByOne /\ TurnFollowsWork

\* What was answered stays, in the record of the key and in the turn.
AnswersStay == CompletedStays /\ AnsweredStays

\* Every turn ends, and every request is answered.
EverythingEnds == TurnsEnd /\ EveryRetryEnds

=============================================================================
