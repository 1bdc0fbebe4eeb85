----------------------------- MODULE SpendCaps -----------------------------
(***************************************************************************)
(* The hard spend caps of model calls (runtime/budget_counters.py and      *)
(* usage.py, under ModelRouter._reserve and _record): a call reserves its  *)
(* estimate on the counter of the platform's day and on that of its        *)
(* workspace's month, is sent, is written to model_call, and settles the   *)
(* reservation to what it cost.                                            *)
(*                                                                         *)
(* Counters live in Redis (a script reserves, SET NX seeds) or in Postgres *)
(* (row locks and an upsert); the store is chosen once.  A counter that is *)
(* missing is seeded with the sum of the committed rows of its period.     *)
(* Only the day rolls over here: the month's key changes in the same way.  *)
(***************************************************************************)
EXTENDS Integers, FiniteSets, Functions

CONSTANTS
    Calls,          \* model calls; a retry of a call is another one
    Platform,       \* calls without a workspace: only the day's cap
    NoPrice,        \* calls of a model that the price table lacks
    Estimate,       \* what each call reserves
    DayLimit,       \* llm.daily_spend_cap_usd
    MonthLimit,     \* workspace_monthly_cost_budget_usd
    Costs,          \* what a call can cost; it may exceed the estimate
    MaxDay,         \* bound: last day
    MaxFaults       \* bound: deaths, lost answers, failed writes, flushes

ASSUME SpendAssumption ==
    /\ Platform \subseteq Calls /\ NoPrice \subseteq Calls /\ IsFiniteSet(Calls)
    /\ Estimate \in Nat \ {0} /\ DayLimit \in Nat /\ MonthLimit \in Nat
    /\ Costs \subseteq Nat /\ MaxDay \in Nat \ {0} /\ MaxFaults \in Nat

VARIABLES
    store,          \* "redis" or "postgres"
    today,
    live,           \* the counters that exist
    counter,        \* their values
    call,           \* the local variables of each call
    row,            \* the day its model_call row was committed, 0 for none
    flushed,        \* history: counters Redis has lost
    leaked,         \* history: counters that a death or a failed write left untrue
    faults          \* how many of MaxFaults have happened

spendVars == <<store, today, live, counter, call, row, flushed, leaked, faults>>

Month == <<"month", 0>>
Day(d) == <<"day", d>>
Counters == {Day(d) : d \in 1..MaxDay} \cup {Month}
Limit(k) == IF k = Month THEN MonthLimit ELSE DayLimit

\* `day` is the day cap_specs read; `todo` the counters to seed and `seed` the sums read for
\* them; `tries` the attempts of reserve; `open` the counters still to be settled; `cost` is
\* that of the row, which is 0 where cost_source is missing_price (`unpriced`).
NewCall == [pc |-> "new", day |-> 1, tries |-> 0, todo |-> {}, seed |-> [k \in Counters |-> -1],
            cost |-> 0, unpriced |-> FALSE, open |-> {}]

SpendInit ==
    /\ store \in {"redis", "postgres"} /\ today = 1
    /\ live = {} /\ counter = [k \in Counters |-> 0]
    /\ call = [c \in Calls |-> NewCall] /\ row = [c \in Calls |-> 0]
    /\ flushed = {} /\ leaked = {} /\ faults = 0

Set(c, r) == call' = [call EXCEPT ![c] = r]
CallAt(c, pc) == call[c].pc = pc

Caps(c) == {Day(call[c].day)} \cup (IF c \in Platform THEN {} ELSE {Month})

-----------------------------------------------------------------------------
(* reserve *)

\* cap_specs: the keys are those of now.
Begin(c) ==
    /\ CallAt(c, "new")
    /\ Set(c, [call[c] EXCEPT !.pc = "reserve", !.day = today])
    /\ UNCHANGED <<store, today, live, counter, row, flushed, leaked, faults>>

Exceeds(k) == counter[k] + Estimate > Limit(k)

\* What must be seeded first.  The script looks at the day's counter, its cap, then at the
\* month's; PgSpendStore seeds all that are missing.
Missing(c) ==
    LET missing == Caps(c) \ live
        day == Day(call[c].day)
    IN  IF store = "postgres" THEN missing
        ELSE IF day \in missing THEN {day}
        ELSE IF Exceeds(day) THEN {} ELSE missing

FindMissing(c) ==
    /\ CallAt(c, "reserve") /\ Missing(c) # {}
    /\ Set(c, [call[c] EXCEPT !.pc = "seed", !.todo = Missing(c), !.tries = @ + 1])
    /\ UNCHANGED <<store, today, live, counter, row, flushed, leaked, faults>>

\* Mutant of RefuseCall: only the first cap is refused.
RefuseDay(c) ==
    /\ CallAt(c, "reserve") /\ Missing(c) = {} /\ Exceeds(Day(call[c].day))
    /\ Set(c, [NewCall EXCEPT !.pc = "refused"])
    /\ UNCHANGED <<store, today, live, counter, row, flushed, leaked, faults>>

\* CapExceeded: nothing was added.
RefuseCall(c) ==
    /\ CallAt(c, "reserve") /\ Missing(c) = {} /\ \E k \in Caps(c) \cap live : Exceeds(k)
    /\ Set(c, [NewCall EXCEPT !.pc = "refused"])
    /\ UNCHANGED <<store, today, live, counter, row, flushed, leaked, faults>>

Fits(c) == CallAt(c, "reserve") /\ Caps(c) \subseteq live /\ \A k \in Caps(c) : ~Exceeds(k)
Add(keys, x) == counter' = [k \in Counters |-> IF k \in keys THEN counter[k] + x ELSE counter[k]]

\* The estimate is added to every counter or to none.
Reserve(c) ==
    /\ Fits(c)
    /\ Add(Caps(c), Estimate)
    /\ Set(c, [NewCall EXCEPT !.pc = "sent", !.day = call[c].day, !.open = Caps(c)])
    /\ UNCHANGED <<store, today, live, row, flushed, leaked, faults>>

\* Redis did it and its answer was lost: the call is refused, the estimate stays.
LoseAnswer(c) ==
    /\ store = "redis" /\ Fits(c) /\ faults < MaxFaults /\ faults' = faults + 1
    /\ Add(Caps(c), Estimate)
    /\ leaked' = leaked \cup Caps(c)
    /\ Set(c, [NewCall EXCEPT !.pc = "unavailable"])
    /\ UNCHANGED <<store, today, live, row, flushed>>

\* day_cost_sql has no end: later rows count too.
RowsOf(k) == {c \in Calls : /\ row[c] # 0
                            /\ IF k = Month THEN c \notin Platform ELSE row[c] >= k[2]}
Spent(calls) == SumFunctionOnSet([c \in Calls |-> call[c].cost], calls)

ReadSeed(c, k) ==
    /\ CallAt(c, "seed") /\ k \in call[c].todo /\ call[c].seed[k] = -1
    /\ k = Month => \A d \in call[c].todo \ {Month} : call[c].seed[d] # -1
    /\ Set(c, [call[c] EXCEPT !.seed[k] = Spent(RowsOf(k))])
    /\ UNCHANGED <<store, today, live, counter, row, flushed, leaked, faults>>

MaxTries(c) == Cardinality(Caps(c)) + 2

\* Mutant of Unseeded: SET without NX.
UnseededAll(c) == call[c].todo

\* SET NX, or the upsert that keeps a live row.
Unseeded(c) == call[c].todo \ live

SetSeed(c) ==
    /\ CallAt(c, "seed") /\ \A k \in call[c].todo : call[c].seed[k] # -1
    /\ counter' = [k \in Counters |-> IF k \in Unseeded(c) THEN call[c].seed[k] ELSE counter[k]]
    /\ live' = live \cup Unseeded(c)
    /\ Set(c, IF call[c].tries = MaxTries(c) THEN [NewCall EXCEPT !.pc = "unavailable"]
              ELSE [call[c] EXCEPT !.pc = "reserve", !.todo = {}, !.seed = NewCall.seed])
    /\ UNCHANGED <<store, today, row, flushed, leaked, faults>>

-----------------------------------------------------------------------------
(* The call, its row and its settlement *)

\* The provider answers, or fails and costs nothing; of a model without a price it may not say
\* what an answer cost.
Answer(c, cost, unpriced) ==
    /\ CallAt(c, "sent") /\ (unpriced => c \in NoPrice /\ cost = 0)
    /\ Set(c, [call[c] EXCEPT !.pc = "settle", !.cost = cost, !.unpriced = unpriced])

\* The row is committed.
Insert(c, cost, unpriced) ==
    /\ Answer(c, cost, unpriced)
    /\ row' = [row EXCEPT ![c] = today]
    /\ UNCHANGED <<store, today, live, counter, flushed, leaked, faults>>

\* "Settle even when the row could not be written."
InsertFails(c, cost, unpriced) ==
    /\ Answer(c, cost, unpriced)
    /\ faults < MaxFaults /\ faults' = faults + 1
    /\ leaked' = leaked \cup Caps(c)
    /\ UNCHANGED <<store, today, live, counter, row, flushed>>

\* "An unknown price keeps the reserved estimate instead of counting the call as free."
Delta(c) == IF call[c].unpriced THEN 0 ELSE call[c].cost - Estimate

\* Redis adjusts one counter after the other, Postgres all in one transaction.
SettledTogether(c) ==
    IF store = "postgres" THEN call[c].open
    ELSE IF Day(call[c].day) \in call[c].open THEN {Day(call[c].day)} ELSE {Month}

\* settle: only counters that exist.
Settle(c) ==
    LET keys == SettledTogether(c)
        left == call[c].open \ keys
    IN  /\ CallAt(c, "settle")
        /\ Add(keys \cap live, Delta(c))
        /\ Set(c, [call[c] EXCEPT !.open = left, !.pc = IF left = {} THEN "done" ELSE @])
        /\ UNCHANGED <<store, today, live, row, flushed, leaked, faults>>

\* The counter store answers with an error: it is logged and what is left stays reserved.
SettleFails(c) ==
    /\ CallAt(c, "settle") /\ faults < MaxFaults /\ faults' = faults + 1
    /\ leaked' = leaked \cup call[c].open
    /\ Set(c, [call[c] EXCEPT !.pc = "done"])
    /\ UNCHANGED <<store, today, live, counter, row, flushed>>

\* The process dies with a reservation.
CallDies(c) ==
    /\ call[c].pc \in {"sent", "settle"} /\ faults < MaxFaults /\ faults' = faults + 1
    /\ leaked' = leaked \cup call[c].open
    /\ Set(c, [call[c] EXCEPT !.pc = "dead"])
    /\ UNCHANGED <<store, today, live, counter, row, flushed>>

\* The store cannot be reached: fails closed.
Outage(c) ==
    /\ call[c].pc \in {"reserve", "seed"} /\ faults < MaxFaults /\ faults' = faults + 1
    /\ Set(c, [NewCall EXCEPT !.pc = "unavailable"])
    /\ UNCHANGED <<store, today, live, counter, row, flushed, leaked>>

Flush ==
    /\ store = "redis" /\ live # {} /\ faults < MaxFaults /\ faults' = faults + 1
    /\ flushed' = flushed \cup live /\ live' = {} /\ counter' = [k \in Counters |-> 0]
    /\ UNCHANGED <<store, today, call, row, leaked>>

NewDay ==
    /\ today < MaxDay /\ today' = today + 1
    /\ UNCHANGED <<store, live, counter, call, row, flushed, leaked, faults>>

-----------------------------------------------------------------------------

Step(c) ==
    \/ Begin(c) \/ FindMissing(c) \/ RefuseCall(c) \/ Reserve(c) \/ SetSeed(c)
    \/ \E k \in Counters : ReadSeed(c, k)
    \/ \E cost \in Costs \cup {0}, unpriced \in BOOLEAN : Insert(c, cost, unpriced)
    \/ Settle(c)

Fault(c) ==
    \/ LoseAnswer(c) \/ SettleFails(c) \/ CallDies(c) \/ Outage(c)
    \/ \E cost \in Costs \cup {0}, unpriced \in BOOLEAN : InsertFails(c, cost, unpriced)

SpendNext == NewDay \/ Flush \/ \E c \in Calls : Step(c) \/ Fault(c)

SpendSpec == SpendInit /\ [][SpendNext]_spendVars

\* As long as a call can go on some call does: a process that lives goes on, and a provider's
\* answer has a time-out.
SpendFairSpec == SpendSpec /\ WF_spendVars(\E c \in Calls : Step(c))

-----------------------------------------------------------------------------
(* Properties *)

Refused == {"refused", "unavailable"}
Reserved == {"sent", "settle", "done", "dead"}
Ended == Refused \cup {"done", "dead"}

Call == [pc : {"new", "reserve", "seed"} \cup Refused \cup Reserved, day : 1..MaxDay, tries : 0..4,
         todo : SUBSET Counters, seed : [Counters -> Nat \cup {-1}], cost : Costs \cup {0}, unpriced : BOOLEAN,
         open : SUBSET Counters]

SpendTypeOK ==
    /\ store \in {"redis", "postgres"} /\ today \in 1..MaxDay
    /\ live \in SUBSET Counters /\ counter \in [Counters -> Int]
    /\ call \in [Calls -> Call] /\ row \in [Calls -> 0..MaxDay]
    /\ flushed \in SUBSET Counters /\ leaked \in SUBSET Counters /\ faults \in 0..MaxFaults

\* The calls reserved under a cap.
Under(k) == {c \in Calls : call[c].pc \in Reserved /\ k \in Caps(c)}
Charges(k) == [c \in Calls |-> IF k \in call[c].open \/ call[c].unpriced THEN Estimate ELSE call[c].cost]

\* "a seed always includes every row committed before it", "Increments only touch counters
\* that already exist": whichever calls seed a counter at the same time, and whatever day
\* they end on, it holds at least the open estimates and the settled costs, or estimates where
\* no price is known, of every call reserved under it.  Not after Redis lost it: the estimates open then are in no row, and
\* their settlements are still subtracted from the counter seeded anew.
NeverUnderCounts ==
    \A k \in live \ flushed : counter[k] >= SumFunctionOnSet(Charges(k), Under(k))

Spending == [c \in Calls |-> IF CallAt(c, "sent") \/ call[c].unpriced THEN Estimate ELSE call[c].cost]
Excess == [c \in Calls |-> IF call[c].cost > Estimate THEN call[c].cost - Estimate ELSE 0]

\* "concurrent calls cannot overshoot a cap by more than the difference between one call's
\* estimate and its actual cost": what the calls of a period cost and may still cost (the
\* estimate, where no price is known) exceeds its cap at most by what they cost beyond their own estimates, one such difference for each.
WithinCap ==
    \A k \in Counters \ flushed :
        SumFunctionOnSet(Spending, Under(k)) <= Limit(k) + SumFunctionOnSet(Excess, Under(k))

\* The calls without a price under a cap, and what an estimate is above the cost in its row.
Unpriced(k) == {c \in Under(k) : call[c].unpriced}
AboveRow == [c \in Calls |-> Estimate - call[c].cost]

\* "a failed call settles to 0 = released": once every call under a cap has ended, its counter
\* is not above the rows of its period, but for the estimates that calls without a price keep
\* (their rows say 0).  Not after a death or a failed write: that estimate stays as well,
\* until the period ends.
NothingLeft ==
    \A k \in live \ (flushed \cup leaked) :
        (\A c \in Calls : k \in Caps(c) => call[c].pc \in Ended \cup {"new"})
            => counter[k] <= Spent(RowsOf(k)) + SumFunctionOnSet(AboveRow, Unpriced(k))

\* What a call still has to settle, and where its row is.
CallsFollow ==
    \A c \in Calls :
        LET a == call[c]
        IN  /\ a.day <= today
            /\ a.pc = "new" => a = NewCall
            /\ a.pc \in {"reserve", "seed"} => a.tries <= MaxTries(c)
            /\ a.pc = "reserve" => a.tries # MaxTries(c)
            /\ a.pc = "seed" => a.todo \subseteq Caps(c)
            /\ a.pc = "sent" => a.open = Caps(c) /\ a.cost = 0 /\ ~a.unpriced
            /\ a.unpriced => a.cost = 0
            /\ a.pc = "settle" => /\ a.open # {} /\ a.open \subseteq Caps(c)
                                  /\ row[c] = 0 => a.open \subseteq leaked
            /\ row[c] # 0 => a.pc \in {"settle", "done", "dead"} /\ row[c] >= a.day

\* A sum read for a seed only falls behind, since rows are only added; and nothing is
\* reserved under a counter before it exists.
SeedsFollow ==
    /\ \A k \in Counters : LET spent == Spent(RowsOf(k)) IN \A c \in Calls : call[c].seed[k] <= spent
    /\ \A k \in Counters \ (live \cup flushed) : Under(k) = {}

\* Until then, a counter is above the rows by no more than the calls that hold an estimate,
\* or keep it, have on it.
Holders(k) == {c \in Calls : call[c].pc \in {"sent", "settle"} /\ k \in call[c].open} \cup Unpriced(k)
HeldOnly ==
    \A k \in live \ (flushed \cup leaked) :
        counter[k] <= Spent(RowsOf(k)) + SumFunctionOnSet(AboveRow, Holders(k))

\* A counter is neither below what its calls hold nor, once they ended, above their rows and
\* the estimates without a price.
\* All but NothingLeft, with WithinCap, is inductive.
CountersInv == SpendTypeOK /\ CallsFollow /\ SeedsFollow /\ NeverUnderCounts /\ HeldOnly /\ NothingLeft

\* Every call is answered, refused or fails closed, although a counter can vanish again
\* while it is being seeded.
EveryCallEnds == <>(\A c \in Calls : call[c].pc \in Ended)

=============================================================================
