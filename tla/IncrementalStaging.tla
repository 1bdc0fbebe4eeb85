------------------------- MODULE IncrementalStaging -------------------------
(***************************************************************************)
(* One staged table refreshed by watermark (staging/incremental.py over    *)
(* staging/loader.py): several refreshes, by schedules and by users, read  *)
(* windows of a source that keeps changing, merge them on the key, move    *)
(* the watermark in the same transaction and reconcile deletes.            *)
(*                                                                         *)
(* The window is read page by page before the table's lock is taken; the   *)
(* keys of a reconcile are read while it is held.  A source row is its     *)
(* watermark and its version (a change number): two changes may carry the  *)
(* same watermark, and a change may become visible up to Late units after  *)
(* its watermark.  Keys are numbered in the order of keyset pagination.    *)
(* A key stands for a page of them, so the cap is no number here: a window *)
(* above it fails, and a read of the keys stops at any page without a word.*)
(* Modelled for `deletes: reconcile` without a backfill start.             *)
(***************************************************************************)
EXTENDS Integers, FiniteSets

CONSTANTS
    NumKeys,        \* the keys of the source, 1..NumKeys, one to a page
    Scheduled,      \* refreshes of a dataset_refresh schedule: mode auto
    Users,          \* refreshes a user asks for, in any mode
    Nobody,         \* nobody holds the lock
    Late,           \* late_window, in units of the watermark
    MaxDeletePct,   \* max_delete_pct
    MaxClock,       \* bound: last instant
    MaxChanges,     \* bound: changes of the source
    MaxFailures     \* bound: refreshes that fail or die

ASSUME StagingAssumption ==
    /\ NumKeys \in Nat \ {0} /\ Late \in Nat /\ MaxClock \in Nat \ {0}
    /\ MaxChanges \in Nat /\ MaxFailures \in Nat /\ MaxDeletePct \in 0..100
    /\ Scheduled \cap Users = {} /\ Nobody \notin Scheduled \cup Users

VARIABLES
    clock,          \* the source's time at its last change
    changes,        \* how many of MaxChanges have happened
    source,         \* the source's row by key
    table,          \* the staged row by key
    watermark,      \* of aos_load_state; 0 before the first load
    due,            \* the last reconcile is older than reconcile_every_hours
    load,           \* the local variables of each refresh
    lock,           \* the advisory lock of the table, while keys are read under it
    regressed,      \* history: keys set back behind every window, and not changed since
    failures        \* how many of MaxFailures have happened

world == <<clock, changes, source>>
staged == <<table, watermark, due, regressed>>
stagingVars == <<world, staged, load, lock, failures>>

Keys == 1..NumKeys
Loads == Scheduled \cup Users
NoRow == [wm |-> 0, ver |-> 0]
Rows == [wm : Nat, ver : Nat]
NoRows == [k \in Keys |-> NoRow]

\* `mode`, `stored`, `since`, `until` and `rows` are those of stage_incremental, `replace` its
\* load_mode; `next` is the page to be read, `keys` what a reconcile has received,
\* `cut` that its read stopped at the cap.
\* History: `overtaken`, another refresh committed after this one had read the state.
Idle == [pc |-> "idle", mode |-> "auto", stored |-> 0, since |-> 0, until |-> 0, replace |-> FALSE,
         next |-> 1, rows |-> NoRows, keys |-> {}, cut |-> FALSE, overtaken |-> FALSE]

\* The source is empty, or holds its keys in any order of their watermarks.
Permutations == {t \in [Keys -> Keys] : \A i, j \in Keys : t[i] = t[j] => i = j}

StagingInit ==
    /\ clock = NumKeys /\ changes = 1
    /\ source \in {NoRows} \cup {[k \in Keys |-> [wm |-> t[k], ver |-> 1]] : t \in Permutations}
    /\ table = NoRows /\ watermark = 0 /\ due = FALSE /\ regressed = {}
    /\ load = [l \in Loads |-> Idle] /\ lock = Nobody /\ failures = 0

-----------------------------------------------------------------------------
(* The source *)

SetSource(now, rows) ==
    /\ changes < MaxChanges
    /\ changes' = changes + 1 /\ clock' = now /\ source' = rows
    /\ regressed' = {k \in regressed : rows[k] = source[k]}
    /\ UNCHANGED <<table, watermark, due, load, lock, failures>>

\* A row is inserted or updated, and becomes visible d units after its watermark.
Change(now, k, d) ==
    /\ now - d >= 1 /\ now - d >= source[k].wm
    /\ SetSource(now, [source EXCEPT ![k] = [wm |-> now - d, ver |-> changes + 1]])

\* One transaction of the source may delete several rows.
Delete(gone) ==
    /\ \A k \in gone : source[k] # NoRow
    /\ SetSource(clock, [k \in Keys |-> IF k \in gone THEN NoRow ELSE source[k]])

\* reconcile_every_hours pass.
BecomesDue ==
    /\ ~due /\ due' = TRUE
    /\ UNCHANGED <<world, table, watermark, regressed, load, lock, failures>>

-----------------------------------------------------------------------------
(* stage_incremental up to the load *)

Set(l, r) == load' = [load EXCEPT ![l] = r]

\* read_state, without the lock.  A replay has its range from the user; without a state
\* it is refused.
ReadState(l, mode, since, until) ==
    /\ load[l].pc = "idle"
    /\ mode = "replay" => watermark # 0
    /\ Set(l, [Idle EXCEPT !.pc = "measure", !.mode = mode, !.stored = watermark,
                           !.since = since, !.until = until])
    /\ UNCHANGED <<world, staged, lock, failures>>

\* high_watermark: the newest watermark of the source, 0 if it is empty.
High == LET marks == {source[k].wm : k \in Keys} \cup {0}
        IN  CHOOSE m \in marks : \A n \in marks : n <= m

Shift(stored) == stored - Late

\* The fixed cursor and the window of this refresh.
Measure(l) ==
    LET a == [load[l] EXCEPT !.pc = "reading", !.stored = 0]
        full == a.mode = "full" \/ load[l].stored = 0
    IN  /\ load[l].pc = "measure"
        /\ Set(l, CASE a.mode = "replay" -> a
                    [] a.mode # "replay" /\ full -> [a EXCEPT !.until = High, !.replace = TRUE]
                    [] OTHER -> [a EXCEPT !.since = Shift(load[l].stored),
                                          !.until = IF High = 0 THEN load[l].stored ELSE High])
        /\ UNCHANGED <<world, staged, lock, failures>>

\* extract_window: both ends belong to it, and an end of None is no end.
InWindow(r, since, until) == r # NoRow /\ r.wm >= since /\ (until = 0 \/ r.wm <= until)

\* Keyset pagination: the page after the last key, as the source is now.
ReadPage(l) ==
    LET a == load[l]
        r == source[a.next]
    IN  /\ a.pc = "reading" /\ a.next \in Keys
        /\ Set(l, [a EXCEPT !.next = @ + 1,
                            !.rows[a.next] = IF InWindow(r, a.since, a.until) THEN r ELSE NoRow])
        /\ UNCHANGED <<world, staged, lock, failures>>

-----------------------------------------------------------------------------
(* StagingLoader.load and save_state: one transaction under the lock *)

\* merge replaces the rows of the window's keys; replace swaps the table.
Merged(a) == [k \in Keys |-> IF a.rows[k] # NoRow THEN a.rows[k] ELSE table[k]]
Loaded(a) == IF a.replace THEN a.rows ELSE Merged(a)

Later(x, y) == IF x >= y THEN x ELSE y

\* Mutant of NextMark: a replay moves the watermark to its own end.
NextMarkAlways(a) == IF a.replace THEN a.until ELSE Later(watermark, a.until)

\* next_state: a replay leaves it, a merge only moves it forward, a swap sets it.
NextMark(a) ==
    IF a.mode = "replay" THEN watermark
    ELSE IF a.replace THEN a.until ELSE Later(watermark, a.until)

\* Does a reconcile follow (reconcile_due of the state just written)?
Reconciles(a) == a.mode = "reconcile" \/ (a.mode = "auto" /\ ~a.replace /\ due)

Overtake(l) ==
    [m \in Loads |-> IF m # l /\ load[m].pc \in {"measure", "reading"}
                     THEN [load[m] EXCEPT !.overtaken = TRUE] ELSE load[m]]

CommitLoad(l) ==
    LET a == load[l]
    IN  /\ a.pc = "reading" /\ a.next \notin Keys /\ lock = Nobody
        /\ table' = Loaded(a)
        /\ watermark' = NextMark(a)
        /\ due' = (due /\ ~a.replace)
        /\ load' = [Overtake(l) EXCEPT ![l] = [Idle EXCEPT !.pc = IF Reconciles(a) THEN "reconcile" ELSE "idle"]]
        /\ regressed' = {k \in Keys : /\ Loaded(a)[k] # source[k]
                                      /\ k \in regressed \/ (a.overtaken /\ Loaded(a)[k].ver < table[k].ver)}
        /\ UNCHANGED <<world, lock, failures>>

-----------------------------------------------------------------------------
(* StagingLoader.reconcile: the keys are read while the lock is held *)

LockTable(l) ==
    /\ load[l].pc = "reconcile" /\ lock = Nobody
    /\ lock' = l
    /\ Set(l, [load[l] EXCEPT !.pc = "keys"])
    /\ UNCHANGED <<world, staged, failures>>

ReadKeys(l) ==
    LET a == load[l]
    IN  /\ a.pc = "keys" /\ ~a.cut /\ a.next \in Keys
        /\ Set(l, [a EXCEPT !.next = @ + 1,
                            !.keys = IF source[a.next] # NoRow THEN @ \cup {a.next} ELSE @])
        /\ UNCHANGED <<world, staged, lock, failures>>

\* extract_keys ends at cap + 1 keys: what comes after them is not read, nobody is told.
StopAtCap(l) ==
    LET a == load[l]
    IN  /\ a.pc = "keys" /\ ~a.cut /\ a.keys # {} /\ a.next \in Keys
        /\ Set(l, [a EXCEPT !.cut = TRUE])
        /\ UNCHANGED <<world, staged, lock, failures>>

KeysRead(a) == a.cut \/ a.next \notin Keys

Staged == {k \in Keys : table[k] # NoRow}
Gone(a) == Staged \ a.keys
Allowed == [n \in 0..NumKeys |-> (MaxDeletePct * n) \div 100]
Refused(gone) == Cardinality(gone) > Allowed[Cardinality(Staged)]

\* Mutant of Dropped: what the reconcile removes are the keys it was sent.
DroppedReceived(a) == [k \in Keys |-> IF k \in Gone(a) THEN table[k] ELSE NoRow]

Dropped(a) == [k \in Keys |-> IF k \in Gone(a) THEN NoRow ELSE table[k]]

Reconcile(l) ==
    LET a == load[l]
    IN  /\ a.pc = "keys" /\ KeysRead(a)
        /\ ~Refused(Gone(a))
        /\ table' = Dropped(a) /\ due' = FALSE /\ lock' = Nobody
        /\ Set(l, Idle)
        /\ regressed' = {k \in Keys : /\ Dropped(a)[k] # source[k]
                                      /\ k \in regressed \/ (k \in Gone(a) /\ k >= a.next)}
        /\ UNCHANGED <<world, watermark, failures>>

\* More than max_delete_pct would go: the transaction is rolled back and the refresh
\* raises, after its window was merged.
RefuseReconcile(l) ==
    /\ load[l].pc = "keys" /\ KeysRead(load[l])
    /\ Refused(Gone(load[l]))
    /\ lock' = Nobody /\ Set(l, Idle)
    /\ UNCHANGED <<world, staged, failures>>

\* The source answers with an error, the cap is exceeded or the process dies: the open
\* transaction is rolled back.
Fail(l) ==
    /\ load[l].pc # "idle" /\ failures < MaxFailures /\ failures' = failures + 1
    /\ Set(l, Idle)
    /\ lock' = IF lock = l THEN Nobody ELSE lock
    /\ UNCHANGED <<world, staged>>

-----------------------------------------------------------------------------

Step(l) ==
    \/ Measure(l) \/ ReadPage(l) \/ CommitLoad(l)
    \/ LockTable(l) \/ ReadKeys(l) \/ Reconcile(l) \/ RefuseReconcile(l)

Refresh(l) == ReadState(l, "auto", 0, 0)

Ask(l) ==
    \/ \E mode \in {"full", "reconcile"} : ReadState(l, mode, 0, 0)
    \/ \E since, until \in 1..MaxClock : since <= until /\ ReadState(l, "replay", since, until)

StagingNext ==
    \/ BecomesDue
    \/ \E k \in Keys, now \in clock..MaxClock, d \in 0..Late : Change(now, k, d)
    \/ \E gone \in SUBSET Keys \ {{}} : Delete(gone)
    \/ \E l \in Loads : Refresh(l) \/ Step(l) \/ StopAtCap(l) \/ Fail(l)
    \/ \E l \in Users : Ask(l)

StagingSpec == StagingInit /\ [][StagingNext]_stagingVars

\* A refresh that lives goes on, a schedule fires again, reconcile_every_hours pass.
Fairness ==
    /\ \A l \in Loads : WF_stagingVars(Step(l))
    /\ \A l \in Scheduled : WF_stagingVars(Refresh(l))
    /\ WF_stagingVars(BecomesDue)

StagingFairSpec == StagingSpec /\ Fairness

-----------------------------------------------------------------------------
(* Properties *)

Load == [pc : {"idle", "measure", "reading", "reconcile", "keys"}, mode : {"auto", "full", "reconcile", "replay"},
         stored : Nat, since : Int, until : Nat, replace : BOOLEAN, next : 1..(NumKeys + 1),
         rows : [Keys -> Rows], keys : SUBSET Keys, cut : BOOLEAN, overtaken : BOOLEAN]

StagingTypeOK ==
    /\ clock \in Nat /\ changes \in Nat /\ failures \in Nat /\ watermark \in Nat
    /\ source \in [Keys -> Rows] /\ table \in [Keys -> Rows]
    /\ due \in BOOLEAN /\ lock \in Loads \cup {Nobody} /\ regressed \subseteq Keys
    /\ load \in [Loads -> Load]
    /\ \A l \in Loads : load[l].pc = "keys" <=> lock = l

\* "Rows changing while the window is read are never skipped", "a crash ... re-reads the
\* window instead of skipping it": a change the table does not have lies inside the window
\* of the next refresh, whatever changed between the measurement, the pages and the commit,
\* whichever refreshes failed or overlapped.  Two things the code does are excepted by
\* `regressed`, and each only until the key changes again or a load brings it: a refresh
\* overtaken by another one merges (or swaps in) what it read before and puts older rows, or
\* none, in the place of newer ones, which "an overlapping schedule replaces the same keys
\* with the same rows" does not expect; and a reconcile whose keys were cut at the cap takes
\* the rows after the cut for deleted ones.  No window goes back for either.
WithinReach ==
    watermark # 0 =>
        \A k \in Keys \ regressed :
            source[k] # NoRow /\ table[k] # source[k] => InWindow(source[k], Shift(watermark), 0)

\* A key the next refresh has to bring.
Missing(k) == source[k] # NoRow /\ table[k] # source[k]

\* A refresh that will merge what lies above the watermark it has read, and where it begins.
Merges(l) ==
    LET a == load[l]
    IN  /\ a.mode # "replay"
        /\ (a.pc = "measure" /\ a.mode # "full" /\ a.stored # 0) \/ (a.pc = "reading" /\ ~a.replace)
Since(l) == IF load[l].pc = "measure" THEN Shift(load[l].stored) ELSE load[l].since

\* A source row that every window begins below: the next one, and those under way.
InEveryWindow(k) ==
    /\ source[k].wm >= Shift(watermark)
    /\ \A l \in Loads : Merges(l) => source[k].wm >= Since(l)

\* Versions tell the rows of a key apart, and the source has the newest one.
Held(k) == {table[k]} \cup {load[l].rows[k] : l \in Loads}
VersionsAgree ==
    \A k \in Keys :
        /\ source[k].ver <= changes
        /\ \A r \in Held(k) : r.ver <= changes /\ (source[k] # NoRow => r.ver <= source[k].ver)
        /\ \A r, q \in Held(k) \cup {source[k], NoRow} : r.ver = q.ver => r = q

\* Nothing that was read, but the range of a replay, is ahead of the source's clock.
InTime ==
    /\ watermark <= clock /\ \A k \in Keys : source[k].wm <= clock
    /\ \A l \in Loads : /\ load[l].mode # "replay" => load[l].until <= clock
                        /\ Merges(l) => Since(l) <= Shift(clock)

\* A refresh under way reaches, from the watermark it has read, what was missing then.
WindowsReach == \A l \in Loads, k \in Keys \ regressed : Merges(l) /\ Missing(k) => source[k].wm >= Since(l)

\* What changes behind a page is beyond the end of its window, less the lateness; unless
\* the refresh was overtaken, it is in every other window too.
PageFollows(l, k) ==
    LET a == load[l]
        read == k < a.next
        changed == source[k] # a.rows[k]
    IN  a.pc = "reading" /\ source[k] # NoRow =>
          /\ a.replace /\ ~a.overtaken /\ source[k].wm > a.until => InEveryWindow(k)
          /\ read /\ changed /\ (a.replace \/ a.rows[k] # NoRow) =>
                /\ a.mode # "replay" => source[k].wm >= Shift(a.until)
                /\ ~a.overtaken => InEveryWindow(k)
          /\ read /\ a.rows[k] = NoRow /\ a.mode # "replay" =>
                source[k].wm < a.since \/ source[k].wm >= Shift(a.until)

\* A key that a reconcile did not receive and the source has by now was added since.
KeyFollows(l, k) ==
    load[l].pc = "keys" /\ k < load[l].next /\ k \notin load[l].keys /\ source[k] # NoRow => InEveryWindow(k)

\* A refresh reads from the first page on, and a swap has no beginning.
WellBegun(l) ==
    /\ load[l].pc \in {"measure", "reconcile"} => load[l].next = 1 /\ ~load[l].replace
    /\ (load[l].pc = "measure" /\ load[l].mode # "replay") \/ load[l].replace => load[l].since = 0

ReadsFollow == \A l \in Loads : WellBegun(l) /\ \A k \in Keys : PageFollows(l, k) /\ KeyFollows(l, k)

\* The guard against a mass delete stands in the way of a reconcile.
Guarded == Refused({k \in Staged : source[k] = NoRow})

\* Refreshing again and again makes the table the source once the source is quiet, in
\* spite of failed, late, overlapping and replayed refreshes.  Not where a key was set back
\* behind every window, nor while the guard refuses every reconcile; and where the reads of
\* the keys go on being cut, the guard may refuse them for the keys they lack.
CaughtUp == \A k \in Keys \ regressed : table[k] = source[k]
Uncut == \A l \in Loads : ~load[l].cut
CatchesUp == <>[]Uncut => <>[](Guarded \/ CaughtUp)

\* Nothing is out of reach, and why: the inductive invariant.
StagingInv == StagingTypeOK /\ WithinReach /\ VersionsAgree /\ InTime /\ WindowsReach /\ ReadsFollow

=============================================================================
