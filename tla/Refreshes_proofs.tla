-------------------------- MODULE Refreshes_proofs --------------------------
(***************************************************************************)
(* Proofs about what a schedule refreshes.                                 *)
(*                                                                         *)
(* Of IncrementalStaging: StagingInv is inductive: whatever changes,       *)
(* whichever refreshes overlap, fail or are replayed, what the table lacks *)
(* is within reach.                                                        *)
(*                                                                         *)
(* Of Schedules, for every number of firings, editors, fire times and      *)
(* revisions: ScheduleInv (fire times fire once, an edit does not end the  *)
(* schedule silently, baselines and comparisons are of the right pins),    *)
(* BaselineStays, and that only a death leaves a firing open.              *)
(***************************************************************************)
EXTENDS IncrementalStaging, Schedules, WellFoundedInduction, TLAPS

USE StagingAssumption DEF StagingAssumption

-----------------------------------------------------------------------------
(* Rows and refreshes *)

LEMMA RowFacts == NoRow \in Rows /\ NoRow.wm = 0 /\ NoRow.ver = 0 /\ NoRows \in [Keys -> Rows]
BY DEF NoRow, NoRows, Rows

LEMMA IdleFacts ==
    /\ Idle \in Load /\ Idle.pc = "idle" /\ Idle.rows = NoRows /\ Idle.until = 0 /\ Idle.next = 1
    /\ Idle.overtaken = FALSE /\ Idle.keys = {} /\ Idle.replace = FALSE /\ Idle.cut = FALSE
<1>1. 1 \in 1..(NumKeys + 1) OBVIOUS
<1> QED BY <1>1, RowFacts DEF Idle, Load

\* The newest watermark of the source is one of its watermarks.
LEMMA HighIsNewest ==
    ASSUME StagingTypeOK, InTime
    PROVE  High \in Nat /\ High <= clock /\ \A k \in Keys : source[k].wm <= High
<1> DEFINE marks == {source[k].wm : k \in Keys} \cup {0}
           Room == {clock - m : m \in marks}
           Less == OpToRel(<, Nat)
<1>1. marks \subseteq 0..clock BY DEF StagingTypeOK, InTime, Rows
<1>2. Room \subseteq Nat /\ Room # {}
  <2>1. clock \in Nat BY DEF StagingTypeOK
  <2>2. \A m \in 0..clock : clock - m \in Nat BY <2>1
  <2> HIDE DEF marks
  <2>3. \A m \in marks : clock - m \in Nat BY <1>1, <2>2
  <2>4. 0 \in marks BY DEF marks
  <2> QED BY <2>3, <2>4
<1>3. IsWellFoundedOn(Less, Nat) BY NatLessThanWellFounded
<1>4. \A m, n \in Nat : m < n => <<m, n>> \in Less BY DEF OpToRel
<1> HIDE DEF Less
<1>5. PICK least \in Room : \A n \in Room : ~(<<n, least>> \in Less) BY <1>2, <1>3, WFMin
<1>6. PICK top \in marks : least = clock - top BY <1>5
<1>7. \A n \in marks : n <= top
  <2> TAKE n \in marks
  <2>1. clock - n \in Room /\ n \in Nat /\ top \in Nat /\ clock \in Nat BY <1>1 DEF StagingTypeOK
  <2>2. ~(clock - n < least) BY <1>2, <1>4, <1>5, <2>1
  <2> QED BY <1>6, <2>1, <2>2
<1>8. High \in marks /\ \A n \in marks : n <= High
  <2>1. High = CHOOSE m \in marks : \A n \in marks : n <= m BY DEF High
  <2> HIDE DEF marks
  <2> QED BY <1>7, <2>1
<1> QED BY <1>1, <1>8

\* What a source row must be after to be in every window is there when nothing but the rows
\* that are read move.
LEMMA SameWindows ==
    ASSUME NEW k \in Keys, source'[k] = source[k], watermark' = watermark,
           \A m \in Loads : Merges(m)' => (Merges(m) /\ Since(m)' = Since(m)) \/ Since(m)' = Shift(watermark)
    PROVE  InEveryWindow(k) => InEveryWindow(k)'
BY DEF InEveryWindow

LEMMA HeldKeeps ==
    ASSUME StagingInv, UNCHANGED world, \A k \in Keys : Held(k)' \subseteq Held(k) \cup {source[k], NoRow}
    PROVE  VersionsAgree'
<1>1. \A k \in Keys : source[k] \in Rows /\ changes \in Nat BY DEF StagingInv, StagingTypeOK
<1> SUFFICES ASSUME NEW k \in Keys
             PROVE  /\ source[k].ver <= changes
                    /\ \A r \in Held(k)' : r.ver <= changes /\ (source[k] # NoRow => r.ver <= source[k].ver)
                    /\ \A r, q \in Held(k)' \cup {source[k], NoRow} : r.ver = q.ver => r = q
  BY DEF VersionsAgree, world
<1>2. /\ source[k].ver <= changes
      /\ \A r \in Held(k) : r.ver <= changes /\ (source[k] # NoRow => r.ver <= source[k].ver)
      /\ \A r, q \in Held(k) \cup {source[k], NoRow} : r.ver = q.ver => r = q
  BY DEF StagingInv, VersionsAgree
<1>3. Held(k)' \cup {source[k], NoRow} \subseteq Held(k) \cup {source[k], NoRow} OBVIOUS
<1>4. \A r, q \in Held(k)' \cup {source[k], NoRow} : r.ver = q.ver => r = q BY <1>2, <1>3
<1>5. \A r \in Held(k)' : r.ver <= changes /\ (source[k] # NoRow => r.ver <= source[k].ver)
  <2> TAKE r \in Held(k)'
  <2>1. r \in Held(k) \/ r = source[k] \/ r = NoRow OBVIOUS
  <2>2. source[k].ver \in Nat BY <1>1 DEF Rows
  <2> QED BY <1>1, <1>2, <2>1, <2>2, RowFacts
<1> QED BY <1>2, <1>4, <1>5

-----------------------------------------------------------------------------
(* The initial states *)

LEMMA StagingInitInv == StagingInit => StagingInv
<1> SUFFICES ASSUME StagingInit PROVE StagingInv OBVIOUS
<1>1. /\ source \in [Keys -> Rows] /\ \A k \in Keys : source[k].wm <= clock
      /\ \A k \in Keys : source[k] = NoRow \/ source[k].ver = 1
  <2>1. CASE source = NoRows BY <2>1, RowFacts DEF StagingInit, NoRows
  <2>2. CASE \E t \in Permutations : source = [k \in Keys |-> [wm |-> t[k], ver |-> 1]]
    <3> PICK t \in Permutations : source = [k \in Keys |-> [wm |-> t[k], ver |-> 1]] BY <2>2
    <3>1. \A k \in Keys : t[k] \in 1..NumKeys BY DEF Permutations, Keys
    <3> QED BY <3>1 DEF StagingInit, Rows
  <2> QED BY <2>1, <2>2 DEF StagingInit
<1>2. \A l \in Loads : load[l] = Idle BY DEF StagingInit
<1>3. StagingTypeOK
  <2>1. load \in [Loads -> Load] BY IdleFacts DEF StagingInit
  <2>2. \A l \in Loads : load[l].pc = "keys" <=> lock = l BY <1>2, IdleFacts DEF StagingInit, Loads
  <2> QED BY <1>1, <2>1, <2>2, RowFacts DEF StagingInit, StagingTypeOK, Keys
<1>4. VersionsAgree
  <2>1. \A k \in Keys : Held(k) \subseteq {NoRow} BY <1>2, IdleFacts DEF Held, StagingInit, NoRows
  <2>2. changes = 1 BY DEF StagingInit
  <2> QED BY <1>1, <2>1, <2>2, RowFacts DEF VersionsAgree
<1>5. WithinReach BY DEF StagingInit, WithinReach
<1>6. InTime /\ WindowsReach /\ ReadsFollow
  <2>1. \A l \in Loads : ~Merges(l) BY <1>2, IdleFacts DEF Merges
  <2>2. watermark <= clock BY DEF StagingInit
  <2>3. \A l \in Loads : load[l].until <= clock BY <1>2, IdleFacts DEF StagingInit
  <2>4. ReadsFollow BY <1>2, IdleFacts DEF ReadsFollow, WellBegun, PageFollows, KeyFollows
  <2> QED BY <1>1, <2>1, <2>2, <2>3, <2>4 DEF InTime, WindowsReach
<1> QED BY <1>3, <1>4, <1>5, <1>6 DEF StagingInv

-----------------------------------------------------------------------------
(* The source *)

\* Whatever changes now is in every window that begins at a watermark already read.
LEMMA SourceMoves ==
    ASSUME StagingInv, UNCHANGED <<table, watermark, due, load, lock, failures>>,
           regressed' = {k \in regressed : source'[k] = source[k]},
           source' \in [Keys -> Rows], clock' \in Nat, clock <= clock', changes' = changes + 1,
           \A k \in Keys : \/ source'[k] = source[k] \/ source'[k] = NoRow
                           \/ /\ source'[k].wm >= Shift(clock') /\ source'[k].wm <= clock'
                              /\ source'[k].ver = changes'
    PROVE  StagingInv'
<1> DEFINE Fresh(k) == source'[k].wm >= Shift(clock') /\ source'[k].wm <= clock' /\ source'[k].ver = changes'
<1>0. /\ table' = table /\ watermark' = watermark /\ due' = due /\ regressed' \subseteq regressed
      /\ load' = load /\ lock' = lock /\ failures' = failures
      /\ \A k \in Keys \ regressed' : source'[k] = source[k] => k \notin regressed
  OBVIOUS
<1>1. /\ source \in [Keys -> Rows] /\ table \in [Keys -> Rows] /\ clock \in Nat /\ changes \in Nat
      /\ watermark \in Nat /\ load \in [Loads -> Load]
  BY DEF StagingInv, StagingTypeOK
<1>12. InTime /\ watermark <= clock BY DEF StagingInv, InTime
<1>2. StagingTypeOK' BY <1>0, <1>1 DEF StagingInv, StagingTypeOK
<1>3. \A k \in Keys : source[k].wm \in Nat /\ source'[k].wm \in Nat /\ source[k].ver \in Nat BY <1>1 DEF Rows
<1>4. \A l \in Loads : (Merges(l)' <=> Merges(l)) /\ Since(l)' = Since(l) BY <1>0 DEF Merges, Since
<1>5. \A l \in Loads : Merges(l) => Since(l) <= Shift(clock) /\ Since(l) \in Int
  <2>1. \A l \in Loads : Since(l) \in Int BY <1>1 DEF Since, Shift, Load
  <2> QED BY <1>12, <2>1 DEF InTime
<1>6. ASSUME NEW k \in Keys, Fresh(k) PROVE InEveryWindow(k)'
  <2>1. clock \in Int /\ clock' \in Int /\ watermark \in Int /\ Late \in Int BY <1>1
  <2>2. /\ clock - Late <= clock' - Late /\ watermark - Late <= clock - Late
        /\ clock - Late \in Int /\ clock' - Late \in Int /\ watermark - Late \in Int
    BY <1>12, <2>1
  <2> QED BY <1>0, <1>3, <1>4, <1>5, <1>6, <2>1, <2>2 DEF InEveryWindow, Shift
<1>7. VersionsAgree'
  <2> SUFFICES ASSUME NEW k \in Keys
               PROVE  /\ source'[k].ver <= changes'
                      /\ \A r \in Held(k) : r.ver <= changes' /\ (source'[k] # NoRow => r.ver <= source'[k].ver)
                      /\ \A r, q \in Held(k) \cup {source'[k], NoRow} : r.ver = q.ver => r = q
    BY <1>0 DEF VersionsAgree, Held
  <2>1. /\ source[k].ver <= changes
        /\ \A r \in Held(k) : r.ver <= changes /\ (source[k] # NoRow => r.ver <= source[k].ver)
        /\ \A r, q \in Held(k) \cup {source[k], NoRow} : r.ver = q.ver => r = q
    BY DEF StagingInv, VersionsAgree
  <2>2. \A r \in Held(k) : r.ver \in Nat BY <1>1 DEF Held, Load, Rows
  <2>3. CASE source'[k] = source[k] BY <1>1, <1>3, <2>1, <2>2, <2>3
  <2>4. CASE source'[k] = NoRow BY <1>1, <2>1, <2>2, <2>4, RowFacts
  <2>5. CASE Fresh(k)
    <3>1. source'[k].ver = changes + 1 BY <2>5
    <3>2. \A r \in Held(k) \cup {NoRow} : r.ver <= changes /\ r.ver \in Nat BY <1>1, <2>1, <2>2, RowFacts
    <3> QED BY <1>1, <2>1, <3>1, <3>2
  <2> QED BY <2>3, <2>4, <2>5
<1>8. WithinReach'
  <2> SUFFICES ASSUME watermark # 0, NEW k \in Keys \ regressed', source'[k] # NoRow, table[k] # source'[k]
               PROVE  source'[k].wm >= Shift(watermark)
    BY <1>0, <1>3 DEF WithinReach, InWindow
  <2>1. CASE source'[k] = source[k] BY <2>1, <1>0, <1>3 DEF StagingInv, WithinReach, InWindow
  <2>2. CASE Fresh(k) BY <1>0, <1>6, <2>2 DEF InEveryWindow
  <2> QED BY <2>1, <2>2
<1>9. InTime'
  <2>1. \A k \in Keys : source'[k].wm <= clock'
    <3> TAKE k \in Keys
    <3>1. CASE source'[k] = source[k] BY <1>1, <1>3, <3>1 DEF StagingInv, InTime
    <3>2. CASE source'[k] = NoRow BY <3>2, RowFacts
    <3>3. CASE Fresh(k) BY <3>3
    <3> QED BY <3>1, <3>2, <3>3
  <2>2. watermark <= clock' BY <1>1 DEF StagingInv, InTime
  <2>3. \A l \in Loads : load[l].mode # "replay" => load[l].until <= clock'
    <3>1. \A l \in Loads : load[l].until \in Nat BY <1>1 DEF Load
    <3> QED BY <1>1, <1>12, <3>1 DEF InTime
  <2>4. \A l \in Loads : Merges(l) => Since(l) <= Shift(clock')
    BY <1>1, <1>5 DEF Shift
  <2> QED BY <1>0, <1>4, <2>1, <2>2, <2>3, <2>4 DEF InTime, Shift
<1>10. WindowsReach'
  <2> SUFFICES ASSUME NEW l \in Loads, NEW k \in Keys \ regressed', Merges(l), source'[k] # NoRow, table[k] # source'[k]
               PROVE  source'[k].wm >= Since(l)
    BY <1>0, <1>4 DEF WindowsReach, Missing
  <2>1. CASE source'[k] = source[k] BY <1>0, <2>1 DEF StagingInv, WindowsReach, Missing
  <2>2. CASE Fresh(k) BY <1>4, <1>6, <2>2 DEF InEveryWindow
  <2> QED BY <2>1, <2>2
<1>11. ReadsFollow'
  <2> SUFFICES ASSUME NEW l \in Loads, NEW k \in Keys PROVE PageFollows(l, k)' /\ KeyFollows(l, k)'
    BY <1>0 DEF StagingInv, ReadsFollow, WellBegun
  <2>1. CASE source'[k] = source[k]
    <3>1. InEveryWindow(k) => InEveryWindow(k)' BY <1>0, <1>4, <2>1, SameWindows
    <3> QED BY <1>0, <2>1, <3>1 DEF StagingInv, ReadsFollow, PageFollows, KeyFollows, Shift
  <2>2. CASE source'[k] = NoRow BY <2>2 DEF PageFollows, KeyFollows
  <2>3. CASE Fresh(k)
    <3>1. load[l].mode # "replay" => source'[k].wm >= Shift(load[l].until)
      <4>1. load[l].until \in Nat /\ (load[l].mode # "replay" => load[l].until <= clock)
        <5>1. load[l].until \in Nat BY <1>1 DEF Load
        <5> QED BY <1>12, <5>1 DEF InTime
      <4> QED BY <1>1, <1>3, <2>3, <4>1 DEF Shift
    <3> QED BY <1>0, <1>6, <2>3, <3>1 DEF PageFollows, KeyFollows, Shift
  <2> QED BY <2>1, <2>2, <2>3
<1> QED BY <1>2, <1>7, <1>8, <1>9, <1>10, <1>11 DEF StagingInv

LEMMA ChangeInv ==
    ASSUME StagingInv, NEW k \in Keys, NEW time \in clock..MaxClock, NEW d \in 0..Late, Change(time, k, d)
    PROVE  StagingInv'
<1>1. clock \in Nat /\ time \in Nat /\ clock <= time /\ changes \in Nat /\ source \in [Keys -> Rows]
  BY DEF StagingInv, StagingTypeOK
<1>2. /\ time - d >= 1 /\ clock' = time /\ changes' = changes + 1
      /\ source' = [source EXCEPT ![k] = [wm |-> time - d, ver |-> changes + 1]]
      /\ UNCHANGED <<table, watermark, due, load, lock, failures>>
      /\ regressed' = {j \in regressed : source'[j] = source[j]}
  BY DEF Change, SetSource
<1>3. time - d \in Nat /\ time - d >= Shift(time) /\ time - d <= time BY <1>1, <1>2 DEF Shift
<1>4. [wm |-> time - d, ver |-> changes + 1] \in Rows BY <1>1, <1>3 DEF Rows
<1>5. source' \in [Keys -> Rows] BY <1>1, <1>2, <1>4
<1>6. /\ \A j \in Keys \ {k} : source'[j] = source[j]
      /\ source'[k].wm = time - d /\ source'[k].ver = changes + 1
  BY <1>1, <1>2
<1> QED BY <1>1, <1>2, <1>3, <1>5, <1>6, SourceMoves

LEMMA DeleteInv ==
    ASSUME StagingInv, NEW gone \in SUBSET Keys, Delete(gone)
    PROVE  StagingInv'
<1>1. clock \in Nat /\ source \in [Keys -> Rows] BY DEF StagingInv, StagingTypeOK
<1>2. /\ clock' = clock /\ changes' = changes + 1 /\ UNCHANGED <<table, watermark, due, load, lock, failures>>
      /\ regressed' = {k \in regressed : source'[k] = source[k]}
      /\ source' = [k \in Keys |-> IF k \in gone THEN NoRow ELSE source[k]]
  BY DEF Delete, SetSource
<1>3. source' \in [Keys -> Rows] BY <1>1, <1>2, RowFacts
<1> QED BY <1>1, <1>2, <1>3, SourceMoves

LEMMA BecomesDueInv == ASSUME StagingInv, BecomesDue PROVE StagingInv'
<1>1. /\ due' = TRUE /\ UNCHANGED <<clock, changes, source, table, watermark, regressed, load, lock, failures>>
  BY DEF BecomesDue, world
<1> QED BY <1>1 DEF StagingInv, StagingTypeOK, WithinReach, VersionsAgree, Held, InTime, Merges, Since, WindowsReach, Missing,
            ReadsFollow, WellBegun, PageFollows, KeyFollows, InEveryWindow, Shift, InWindow

-----------------------------------------------------------------------------
(* A refresh goes on, and the table stays as it is *)

\* What l does next: `new` are its variables.
Moves(l, new) ==
    /\ new \in Load /\ load' = [load EXCEPT ![l] = new] /\ UNCHANGED <<world, staged>>
    /\ Merges(l)' => (Merges(l) /\ Since(l)' = Since(l)) \/ (Since(l)' = Shift(watermark) /\ watermark # 0)

LEMMA MovesFacts ==
    ASSUME StagingInv, NEW l \in Loads, NEW new, Moves(l, new)
    PROVE  /\ load' \in [Loads -> Load] /\ load'[l] = new /\ \A m \in Loads \ {l} : load'[m] = load[m]
           /\ clock' = clock /\ changes' = changes /\ source' = source /\ table' = table /\ watermark' = watermark
           /\ due' = due /\ regressed' = regressed
           /\ \A m \in Loads \ {l} : (Merges(m)' <=> Merges(m)) /\ Since(m)' = Since(m)
           /\ \A k \in Keys : InEveryWindow(k) => InEveryWindow(k)'
<1>1. load \in [Loads -> Load] BY DEF StagingInv, StagingTypeOK
<1>2. load' \in [Loads -> Load] /\ load'[l] = new /\ \A m \in Loads \ {l} : load'[m] = load[m]
  BY <1>1 DEF Moves
<1>3. /\ clock' = clock /\ changes' = changes /\ source' = source /\ table' = table /\ watermark' = watermark
      /\ due' = due /\ regressed' = regressed
  BY DEF Moves, world, staged
<1>4. \A m \in Loads \ {l} : (Merges(m)' <=> Merges(m)) /\ Since(m)' = Since(m) BY <1>2 DEF Merges, Since
<1>5. \A m \in Loads : Merges(m)' => (Merges(m) /\ Since(m)' = Since(m)) \/ Since(m)' = Shift(watermark)
  BY <1>4 DEF Moves
<1> QED BY <1>2, <1>3, <1>4, <1>5, SameWindows

LEMMA LoadMoves ==
    ASSUME StagingInv, NEW l \in Loads, NEW new, Moves(l, new),
           lock' \in Loads \cup {Nobody}, failures' \in Nat, \A m \in Loads : load'[m].pc = "keys" <=> lock' = m,
           new.mode # "replay" => new.until <= clock,
           \A k \in Keys : new.rows[k] \in {load[l].rows[k], source[k], NoRow},
           WellBegun(l)', \A k \in Keys : PageFollows(l, k)' /\ KeyFollows(l, k)'
    PROVE  StagingInv'
<1>1. /\ load' \in [Loads -> Load] /\ load'[l] = new /\ \A m \in Loads \ {l} : load'[m] = load[m]
      /\ clock' = clock /\ changes' = changes /\ source' = source /\ table' = table /\ watermark' = watermark
      /\ due' = due /\ regressed' = regressed
      /\ \A m \in Loads \ {l} : (Merges(m)' <=> Merges(m)) /\ Since(m)' = Since(m)
      /\ \A k \in Keys : InEveryWindow(k) => InEveryWindow(k)'
  BY MovesFacts
<1>2. StagingTypeOK' BY <1>1 DEF StagingInv, StagingTypeOK
<1>3. VersionsAgree'
  <2>1. ASSUME NEW k \in Keys PROVE Held(k)' \subseteq Held(k) \cup {source[k], NoRow}
    <3> SUFFICES ASSUME NEW m \in Loads PROVE load'[m].rows[k] \in Held(k) \cup {source[k], NoRow}
      BY <1>1 DEF Held
    <3>1. CASE m = l BY <1>1, <3>1 DEF Held
    <3>2. CASE m # l BY <1>1, <3>2 DEF Held
    <3> QED BY <3>1, <3>2
  <2>2. UNCHANGED world BY DEF Moves
  <2> QED BY <2>1, <2>2, HeldKeeps
<1>4. WithinReach' BY <1>1 DEF StagingInv, WithinReach, InWindow, Shift
<1>5. Merges(l)' => (Merges(l) /\ Since(l)' = Since(l)) \/ (Since(l)' = Shift(watermark) /\ watermark # 0)
  BY DEF Moves
<1>6. InTime'
  <2>1. InTime BY DEF StagingInv
  <2>2. Shift(watermark) <= Shift(clock)
    <3>1. clock \in Int /\ watermark \in Int /\ Late \in Int BY DEF StagingInv, StagingTypeOK
    <3> QED BY <2>1, <3>1 DEF InTime, Shift
  <2>3. \A m \in Loads : Merges(m)' => Since(m)' <= Shift(clock)
    <3> TAKE m \in Loads
    <3>1. CASE m = l BY <1>5, <2>1, <2>2, <3>1 DEF InTime
    <3>2. CASE m # l BY <1>1, <2>1, <3>2 DEF InTime
    <3> QED BY <3>1, <3>2
  <2>4. \A m \in Loads : load'[m].mode # "replay" => load'[m].until <= clock
    <3> TAKE m \in Loads
    <3>1. CASE m = l BY <1>1, <3>1
    <3>2. CASE m # l BY <1>1, <2>1, <3>2 DEF InTime
    <3> QED BY <3>1, <3>2
  <2> QED BY <1>1, <2>1, <2>3, <2>4 DEF InTime, Shift
<1>7. WindowsReach'
  <2> SUFFICES ASSUME NEW m \in Loads, NEW k \in Keys \ regressed, Merges(m)', Missing(k)
               PROVE  source[k].wm >= Since(m)'
    BY <1>1 DEF WindowsReach, Missing
  <2>1. CASE Merges(m) /\ Since(m)' = Since(m) BY <2>1 DEF StagingInv, WindowsReach
  <2>2. CASE m = l /\ Since(l)' = Shift(watermark) /\ watermark # 0
    BY <2>2 DEF StagingInv, WithinReach, Missing, InWindow
  <2> QED BY <1>1, <1>5, <2>1, <2>2
<1>8. ReadsFollow'
  <2>3. \A m \in Loads \ {l} : WellBegun(m)' BY <1>1 DEF StagingInv, ReadsFollow, WellBegun
  <2> SUFFICES ASSUME NEW m \in Loads \ {l}, NEW k \in Keys PROVE PageFollows(m, k)' /\ KeyFollows(m, k)'
    BY <2>3 DEF ReadsFollow
  <2>1. PageFollows(m, k) /\ KeyFollows(m, k) BY DEF StagingInv, ReadsFollow
  <2>2. (InEveryWindow(k) => InEveryWindow(k)') /\ load'[m] = load[m] /\ source' = source BY <1>1
  <2> QED BY <2>1, <2>2 DEF PageFollows, KeyFollows, Shift
<1> QED BY <1>2, <1>3, <1>4, <1>6, <1>7, <1>8 DEF StagingInv

LEMMA LoadTypes ==
    ASSUME StagingInv, NEW l \in Loads
    PROVE  /\ load[l] \in Load /\ load[l].stored \in Nat /\ load[l].since \in Int /\ load[l].until \in Nat
           /\ load[l].next \in 1..(NumKeys + 1) /\ load[l].rows \in [Keys -> Rows] /\ load[l].replace \in BOOLEAN
           /\ load[l].overtaken \in BOOLEAN /\ load[l].cut \in BOOLEAN /\ load[l].keys \subseteq Keys
           /\ load[l].mode \in {"auto", "full", "reconcile", "replay"}
           /\ watermark \in Nat /\ clock \in Nat /\ source \in [Keys -> Rows] /\ table \in [Keys -> Rows]
           /\ failures \in Nat /\ lock \in Loads \cup {Nobody} /\ \A m \in Loads : load[m].pc = "keys" <=> lock = m
<1>1. load \in [Loads -> Load] /\ load[l] \in Load BY DEF StagingInv, StagingTypeOK
<1> QED BY <1>1 DEF StagingInv, StagingTypeOK, Load

\* A refresh that gives up, or has ended.
LEMMA IdleInv ==
    ASSUME StagingInv, NEW l \in Loads, Set(l, Idle), UNCHANGED <<world, staged>>, failures' \in Nat,
           lock' = IF load[l].pc = "keys" THEN Nobody ELSE lock
    PROVE  StagingInv'
<1>1. load' = [load EXCEPT ![l] = Idle] /\ load \in [Loads -> Load] BY DEF Set, StagingInv, StagingTypeOK
<1>2. load'[l] = Idle /\ \A m \in Loads \ {l} : load'[m] = load[m] BY <1>1
<1>3. Moves(l, Idle)
  <2>1. ~Merges(l)' BY <1>2, IdleFacts DEF Merges
  <2> QED BY <1>1, <2>1, IdleFacts DEF Moves
<1>4. lock' \in Loads \cup {Nobody} /\ \A m \in Loads : load'[m].pc = "keys" <=> lock' = m
  BY <1>2, IdleFacts, LoadTypes DEF Loads
<1>5. WellBegun(l)' /\ \A k \in Keys : PageFollows(l, k)' /\ KeyFollows(l, k)'
  BY <1>2, IdleFacts DEF WellBegun, PageFollows, KeyFollows
<1>6. \A k \in Keys : Idle.rows[k] = NoRow BY IdleFacts DEF NoRows
<1>7. Idle.until <= clock BY IdleFacts, LoadTypes
<1> QED BY <1>3, <1>4, <1>5, <1>6, <1>7, LoadMoves

LEMMA LoadBegins ==
    ASSUME NEW i \in Load, NEW m \in {"auto", "full", "reconcile", "replay"}, NEW w \in Nat, NEW s \in Int, NEW u \in Nat
    PROVE  [i EXCEPT !.pc = "measure", !.mode = m, !.stored = w, !.since = s, !.until = u] \in Load
BY DEF Load

LEMMA ReadStateInv ==
    ASSUME StagingInv, NEW l \in Loads, NEW mode \in {"auto", "full", "reconcile", "replay"},
           NEW since \in Nat, NEW until \in Nat, mode # "replay" => since = 0 /\ until = 0,
           ReadState(l, mode, since, until)
    PROVE  StagingInv'
<1> DEFINE new == [Idle EXCEPT !.pc = "measure", !.mode = mode, !.stored = watermark, !.since = since, !.until = until]
<1>1. load[l].pc = "idle" /\ Set(l, new) /\ UNCHANGED <<world, staged, lock, failures>> BY DEF ReadState
<1>2. /\ new \in Load /\ new.pc = "measure" /\ new.mode = mode /\ new.stored = watermark /\ new.until = until
      /\ new.rows = NoRows /\ new.next = 1 /\ new.replace = FALSE /\ new.since = since
  <2>1. watermark \in Nat BY LoadTypes
  <2>3. Idle \in Load /\ since \in Int BY IdleFacts
  <2>2. new \in Load BY <2>1, <2>3, LoadBegins
  <2> QED BY <2>1, <2>2, IdleFacts DEF Load
<1> HIDE DEF new
<1>3. load' = [load EXCEPT ![l] = new] /\ load \in [Loads -> Load] BY <1>1 DEF Set, StagingInv, StagingTypeOK
<1>4. load'[l] = new /\ \A m \in Loads \ {l} : load'[m] = load[m] BY <1>3
<1>5. Moves(l, new)
  <2>1. Merges(l)' => Since(l)' = Shift(watermark) /\ watermark # 0
    BY <1>2, <1>4 DEF Merges, Since, Shift
  <2> QED BY <1>1, <1>2, <1>3, <2>1 DEF Moves
<1>6. lock' \in Loads \cup {Nobody} /\ failures' \in Nat /\ \A m \in Loads : load'[m].pc = "keys" <=> lock' = m
  BY <1>1, <1>2, <1>4, LoadTypes
<1>7. WellBegun(l)' /\ \A k \in Keys : PageFollows(l, k)' /\ KeyFollows(l, k)'
  BY <1>2, <1>4 DEF WellBegun, PageFollows, KeyFollows
<1>8. \A k \in Keys : new.rows[k] = NoRow BY <1>2 DEF NoRows
<1>9. new.mode # "replay" => new.until <= clock BY <1>2, LoadTypes
<1> QED BY <1>5, <1>6, <1>7, <1>8, <1>9, LoadMoves

\* The window of a merge begins at the watermark it has read; a swap has none.
LEMMA MeasureInv ==
    ASSUME StagingInv, NEW l \in Loads, Measure(l)
    PROVE  StagingInv'
<1> DEFINE old == load[l]
           a == [old EXCEPT !.pc = "reading", !.stored = 0]
           swap == [a EXCEPT !.until = High, !.replace = TRUE]
           merge == [a EXCEPT !.since = Shift(old.stored), !.until = IF High = 0 THEN old.stored ELSE High]
           Reads(new) == /\ new \in Load /\ new.pc = "reading" /\ new.mode = old.mode /\ new.next = 1
                         /\ new.rows = old.rows /\ new.overtaken = old.overtaken
<1>1. /\ old.pc = "measure" /\ UNCHANGED <<world, staged, lock, failures>> /\ old.next = 1 /\ ~old.replace
      /\ (old.mode # "replay" => old.since = 0) /\ load \in [Loads -> Load]
  BY DEF Measure, StagingInv, StagingTypeOK, ReadsFollow, WellBegun
<1>7. old \in Load BY LoadTypes
<1>2. High \in Nat /\ High <= clock /\ \A k \in Keys : source[k].wm <= High BY HighIsNewest DEF StagingInv
<1>3. ASSUME NEW new, Reads(new), Set(l, new), new.mode # "replay" => new.until <= clock,
             new.mode # "replay" /\ ~new.replace => Merges(l) /\ new.since = Shift(old.stored),
             new.replace => new.until = High /\ new.since = 0
      PROVE  StagingInv'
  <2>1. load' = [load EXCEPT ![l] = new] BY <1>3 DEF Set
  <2>2. load'[l] = new /\ \A m \in Loads \ {l} : load'[m] = load[m] BY <1>1, <2>1
  <2>3. Moves(l, new)
    <3>1. Merges(l)' => Merges(l) /\ Since(l)' = Since(l) BY <1>1, <1>3, <2>2 DEF Merges, Since
    <3> QED BY <1>1, <1>3, <2>1, <3>1 DEF Moves
  <2>4. lock' \in Loads \cup {Nobody} /\ failures' \in Nat /\ \A m \in Loads : load'[m].pc = "keys" <=> lock' = m
    BY <1>1, <1>3, <2>2, LoadTypes
  <2>5. WellBegun(l)' BY <1>3, <2>2 DEF WellBegun
  <2>6. \A k \in Keys : PageFollows(l, k)' /\ KeyFollows(l, k)'
    <3> TAKE k \in Keys
    <3>1. source' = source /\ source[k].wm \in Nat /\ k \in Nat /\ k >= 1
      <4>1. source[k].wm \in Nat BY LoadTypes DEF Rows
      <4> QED BY <1>1, <4>1 DEF world, Keys
    <3>2. ~(source[k].wm > High) BY <1>2, <3>1
    <3>3. ~(k < 1) BY <3>1
    <3> QED BY <1>3, <2>2, <3>1, <3>2, <3>3 DEF PageFollows, KeyFollows
  <2> QED BY <1>3, <2>3, <2>4, <2>5, <2>6, LoadMoves
<1>4. CASE old.mode = "replay"
  <2>1. Set(l, a) BY <1>4 DEF Measure
  <2>2. Reads(a) /\ ~a.replace BY <1>1, <1>4, <1>7 DEF Load
  <2> HIDE DEF a
  <2> QED BY <1>3, <1>4, <2>1, <2>2
<1>5. CASE old.mode # "replay" /\ (old.mode = "full" \/ old.stored = 0)
  <2>1. Set(l, swap) BY <1>5 DEF Measure
  <2>2. swap \in Load BY <1>2, <1>7 DEF Load
  <2>3. swap.replace = TRUE /\ swap.until = High /\ swap.since = old.since BY <1>7 DEF Load
  <2>4. Reads(swap) BY <1>1, <1>7, <2>2 DEF Load
  <2> HIDE DEF swap
  <2> QED BY <1>1, <1>2, <1>3, <1>5, <2>1, <2>3, <2>4
<1>6. CASE old.mode # "replay" /\ old.mode # "full" /\ old.stored # 0
  <2>1. Set(l, merge) BY <1>6 DEF Measure
  <2>2. Shift(old.stored) \in Int BY LoadTypes DEF Shift
  <2>6. merge \in Load BY <1>2, <1>7, <2>2 DEF Load
  <2>7. Reads(merge) BY <1>1, <1>7, <2>6 DEF Load
  <2>3. /\ merge.since = Shift(old.stored) /\ merge.replace = old.replace
        /\ merge.until = IF High = 0 THEN old.stored ELSE High
    BY <1>7 DEF Load
  <2>4. Merges(l) BY <1>1, <1>6 DEF Merges
  <2>5. merge.until <= clock
    <3>1. Since(l) <= Shift(clock) /\ Since(l) = Shift(old.stored) BY <1>1, <2>4 DEF StagingInv, InTime, Since
    <3>2. old.stored \in Int /\ clock \in Int /\ Late \in Int BY LoadTypes
    <3>3. old.stored <= clock BY <3>1, <3>2 DEF Shift
    <3> QED BY <1>2, <2>3, <3>3
  <2> HIDE DEF merge
  <2> QED BY <1>1, <1>3, <2>1, <2>3, <2>4, <2>5, <2>7
<1> QED BY <1>4, <1>5, <1>6

LEMMA ReadPageInv ==
    ASSUME StagingInv, NEW l \in Loads, ReadPage(l)
    PROVE  StagingInv'
<1> DEFINE a == load[l]
           r == source[a.next]
           got == IF InWindow(r, a.since, a.until) THEN r ELSE NoRow
           new == [a EXCEPT !.next = @ + 1, !.rows[a.next] = got]
<1>1. /\ a.pc = "reading" /\ a.next \in Keys /\ Set(l, new) /\ UNCHANGED <<world, staged, lock, failures>>
  BY DEF ReadPage
<1>2. got \in Rows BY <1>1, LoadTypes, RowFacts
<1>3. /\ new \in Load /\ new.pc = "reading" /\ new.mode = a.mode /\ new.next = a.next + 1 /\ new.since = a.since
      /\ new.until = a.until /\ new.replace = a.replace /\ new.overtaken = a.overtaken
      /\ new.rows[a.next] = got /\ \A k \in Keys \ {a.next} : new.rows[k] = a.rows[k]
  <2> HIDE DEF got
  <2>1. a.next + 1 \in 1..(NumKeys + 1) BY <1>1 DEF Keys
  <2>2. a \in Load BY LoadTypes
  <2>3. new \in Load BY <1>1, <1>2, <2>1, <2>2 DEF Load
  <2> HIDE DEF a
  <2> QED BY <1>1, <2>2, <2>3 DEF Load
<1> HIDE DEF new
<1>4. load' = [load EXCEPT ![l] = new] /\ load \in [Loads -> Load] BY <1>1 DEF Set, StagingInv, StagingTypeOK
<1>5. load'[l] = new /\ \A m \in Loads \ {l} : load'[m] = load[m] BY <1>4
<1>6. Moves(l, new)
  <2>1. Merges(l)' => Merges(l) /\ Since(l)' = Since(l) BY <1>1, <1>3, <1>5 DEF Merges, Since
  <2> QED BY <1>1, <1>3, <1>4, <2>1 DEF Moves
<1>7. lock' \in Loads \cup {Nobody} /\ failures' \in Nat /\ \A m \in Loads : load'[m].pc = "keys" <=> lock' = m
  BY <1>1, <1>3, <1>5, LoadTypes
<1>8. new.mode # "replay" => new.until <= clock BY <1>3 DEF StagingInv, InTime
<1>9. \A k \in Keys : new.rows[k] \in {a.rows[k], source[k], NoRow} BY <1>3
<1>10. WellBegun(l)' BY <1>1, <1>3, <1>5 DEF StagingInv, ReadsFollow, WellBegun
<1>11. ASSUME NEW k \in Keys PROVE PageFollows(l, k)' /\ KeyFollows(l, k)'
  <2>1. source' = source /\ (InEveryWindow(k) => InEveryWindow(k)') BY <1>6, MovesFacts
  <2>2. PageFollows(l, k) BY DEF StagingInv, ReadsFollow
  <2>3. KeyFollows(l, k)' BY <1>3, <1>5 DEF KeyFollows
  <2>4. CASE k # a.next
    <3>1. k < new.next <=> k < a.next BY <1>1, <1>3, <2>4 DEF Keys
    <3> QED BY <1>1, <1>3, <1>5, <2>1, <2>2, <2>3, <2>4, <3>1 DEF PageFollows, Shift
  <2>5. CASE k = a.next
    <3>1. source[k].wm \in Nat /\ a.until \in Nat /\ a.since \in Int BY LoadTypes DEF Rows
    <3> SUFFICES ASSUME source[k] # NoRow PROVE PageFollows(l, k)' BY <2>1, <2>3 DEF PageFollows
    <3>2. a.replace /\ ~a.overtaken /\ source[k].wm > a.until => InEveryWindow(k)
      BY <1>1, <2>2 DEF PageFollows
    <3>3. CASE InWindow(source[k], a.since, a.until)
      <4>1. got = source[k] BY <2>5, <3>3
      <4> QED BY <1>3, <1>5, <2>1, <2>5, <3>2, <4>1 DEF PageFollows
    <3>4. CASE ~InWindow(source[k], a.since, a.until)
      <4>1. got = NoRow BY <2>5, <3>4
      <4>2. source[k].wm < a.since \/ source[k].wm > a.until BY <3>1, <3>4 DEF InWindow
      <4>3. source[k].wm < a.since \/ source[k].wm >= Shift(a.until)
        BY <3>1, <4>2 DEF Shift
      <4>4. a.replace => source[k].wm > a.until
        <5>1. a.replace => a.since = 0 BY DEF StagingInv, ReadsFollow, WellBegun
        <5>2. source[k].wm >= 0 BY <3>1
        <5> QED BY <3>1, <4>2, <5>1, <5>2
      <4>5. a.replace => source[k].wm >= Shift(a.until) BY <3>1, <4>4 DEF Shift
      <4>6. /\ load'[l].replace = a.replace /\ load'[l].mode = a.mode /\ load'[l].until = a.until
            /\ load'[l].since = a.since /\ load'[l].overtaken = a.overtaken /\ load'[l].rows[k] = NoRow
        BY <1>3, <1>5, <2>5, <4>1
      <4> HIDE DEF a
      <4> QED BY <2>1, <3>2, <4>3, <4>4, <4>5, <4>6 DEF PageFollows, Shift
    <3> QED BY <3>3, <3>4
  <2> QED BY <2>3, <2>4, <2>5
<1> QED BY <1>6, <1>7, <1>8, <1>9, <1>10, <1>11, LoadMoves

LEMMA LockTableInv ==
    ASSUME StagingInv, NEW l \in Loads, LockTable(l)
    PROVE  StagingInv'
<1> DEFINE a == load[l]
           new == [a EXCEPT !.pc = "keys"]
<1>1. /\ a.pc = "reconcile" /\ lock = Nobody /\ lock' = l /\ Set(l, new) /\ UNCHANGED <<world, staged, failures>>
      /\ a.next = 1 /\ load \in [Loads -> Load]
  BY DEF LockTable, StagingInv, StagingTypeOK, ReadsFollow, WellBegun
<1>2. /\ new \in Load /\ new.pc = "keys" /\ new.mode = a.mode /\ new.next = 1 /\ new.until = a.until
      /\ new.replace = a.replace /\ new.since = a.since /\ new.rows = a.rows
  <2>1. a \in Load BY LoadTypes
  <2>2. new \in Load BY <2>1 DEF Load
  <2> HIDE DEF a
  <2> QED BY <1>1, <2>1, <2>2 DEF Load
<1> HIDE DEF new
<1>3. load' = [load EXCEPT ![l] = new] BY <1>1 DEF Set
<1>4. load'[l] = new /\ \A m \in Loads \ {l} : load'[m] = load[m] BY <1>1, <1>3
<1>5. Moves(l, new)
  <2>1. ~Merges(l)' BY <1>2, <1>4 DEF Merges
  <2> QED BY <1>1, <1>2, <1>3, <2>1 DEF Moves
<1>6. lock' \in Loads \cup {Nobody} /\ failures' \in Nat /\ \A m \in Loads : load'[m].pc = "keys" <=> lock' = m
  BY <1>1, <1>2, <1>4, LoadTypes DEF Loads
<1>7. new.mode # "replay" => new.until <= clock BY <1>2 DEF StagingInv, InTime
<1>8. WellBegun(l)' BY <1>2, <1>4 DEF StagingInv, ReadsFollow, WellBegun
<1>9. \A k \in Keys : PageFollows(l, k)' /\ KeyFollows(l, k)'
  <2>1. \A k \in Keys : ~(k < 1) BY DEF Keys
  <2> QED BY <1>2, <1>4, <2>1 DEF PageFollows, KeyFollows
<1> QED BY <1>2, <1>5, <1>6, <1>7, <1>8, <1>9, LoadMoves

LEMMA ReadKeysInv ==
    ASSUME StagingInv, NEW l \in Loads, ReadKeys(l)
    PROVE  StagingInv'
<1> DEFINE a == load[l]
           got == IF source[a.next] # NoRow THEN a.keys \cup {a.next} ELSE a.keys
           new == [a EXCEPT !.next = @ + 1, !.keys = IF source[a.next] # NoRow THEN @ \cup {a.next} ELSE @]
<1>1. /\ a.pc = "keys" /\ a.next \in Keys /\ Set(l, new) /\ UNCHANGED <<world, staged, lock, failures>>
      /\ load \in [Loads -> Load]
  BY DEF ReadKeys, StagingInv, StagingTypeOK
<1>2. /\ new \in Load /\ new.pc = "keys" /\ new.mode = a.mode /\ new.next = a.next + 1 /\ new.until = a.until
      /\ new.replace = a.replace /\ new.since = a.since /\ new.rows = a.rows /\ new.keys = got
  <2>1. a \in Load /\ a.keys \subseteq Keys BY LoadTypes
  <2>2. a.next + 1 \in 1..(NumKeys + 1) BY <1>1 DEF Keys
  <2>3. new = [a EXCEPT !.next = a.next + 1, !.keys = got] BY <2>1 DEF Load
  <2>4. got \in SUBSET Keys BY <1>1, <2>1
  <2> HIDE DEF got, a, new
  <2>5. new \in Load BY <2>1, <2>2, <2>3, <2>4 DEF Load
  <2> QED BY <1>1, <2>1, <2>3, <2>5 DEF Load
<1> HIDE DEF new
<1>3. load' = [load EXCEPT ![l] = new] BY <1>1 DEF Set
<1>4. load'[l] = new /\ \A m \in Loads \ {l} : load'[m] = load[m] BY <1>1, <1>3
<1>5. Moves(l, new)
  <2>1. ~Merges(l)' BY <1>2, <1>4 DEF Merges
  <2> QED BY <1>1, <1>2, <1>3, <2>1 DEF Moves
<1>6. lock' \in Loads \cup {Nobody} /\ failures' \in Nat /\ \A m \in Loads : load'[m].pc = "keys" <=> lock' = m
  BY <1>1, <1>2, <1>4, LoadTypes
<1>7. new.mode # "replay" => new.until <= clock BY <1>2 DEF StagingInv, InTime
<1>8. WellBegun(l)' BY <1>2, <1>4 DEF StagingInv, ReadsFollow, WellBegun
<1>9. ASSUME NEW k \in Keys PROVE PageFollows(l, k)' /\ KeyFollows(l, k)'
  <2>1. source' = source /\ (InEveryWindow(k) => InEveryWindow(k)') BY <1>5, MovesFacts
  <2>2. KeyFollows(l, k) BY DEF StagingInv, ReadsFollow
  <2>3. k < a.next + 1 => k < a.next \/ k = a.next BY <1>1 DEF Keys
  <2>4. k \notin got => k \notin a.keys /\ (k = a.next => source[k] = NoRow) OBVIOUS
  <2>5. KeyFollows(l, k)' BY <1>1, <1>2, <1>4, <2>1, <2>2, <2>3, <2>4 DEF KeyFollows
  <2> QED BY <1>2, <1>4, <2>5 DEF PageFollows
<1> QED BY <1>2, <1>5, <1>6, <1>7, <1>8, <1>9, LoadMoves

LEMMA StopAtCapInv ==
    ASSUME StagingInv, NEW l \in Loads, StopAtCap(l)
    PROVE  StagingInv'
<1> DEFINE a == load[l]
           new == [a EXCEPT !.cut = TRUE]
<1>1. /\ a.pc = "keys" /\ Set(l, new) /\ UNCHANGED <<world, staged, lock, failures>> /\ load \in [Loads -> Load]
  BY DEF StopAtCap, StagingInv, StagingTypeOK
<1>2. /\ new \in Load /\ new.pc = "keys" /\ new.mode = a.mode /\ new.next = a.next /\ new.until = a.until
      /\ new.replace = a.replace /\ new.since = a.since /\ new.rows = a.rows /\ new.keys = a.keys
  <2>1. a \in Load BY LoadTypes
  <2>2. new \in Load BY <2>1 DEF Load
  <2> HIDE DEF a
  <2> QED BY <1>1, <2>1, <2>2 DEF Load
<1> HIDE DEF new
<1>3. load' = [load EXCEPT ![l] = new] BY <1>1 DEF Set
<1>4. load'[l] = new /\ \A m \in Loads \ {l} : load'[m] = load[m] BY <1>1, <1>3
<1>5. Moves(l, new)
  <2>1. ~Merges(l)' BY <1>2, <1>4 DEF Merges
  <2> QED BY <1>1, <1>2, <1>3, <2>1 DEF Moves
<1>6. lock' \in Loads \cup {Nobody} /\ failures' \in Nat /\ \A m \in Loads : load'[m].pc = "keys" <=> lock' = m
  BY <1>1, <1>2, <1>4, LoadTypes
<1>7. new.mode # "replay" => new.until <= clock BY <1>2 DEF StagingInv, InTime
<1>8. WellBegun(l)' BY <1>2, <1>4 DEF StagingInv, ReadsFollow, WellBegun
<1>9. ASSUME NEW k \in Keys PROVE PageFollows(l, k)' /\ KeyFollows(l, k)'
  <2>1. source' = source /\ (InEveryWindow(k) => InEveryWindow(k)') BY <1>5, MovesFacts
  <2>2. KeyFollows(l, k) BY DEF StagingInv, ReadsFollow
  <2> QED BY <1>1, <1>2, <1>4, <2>1, <2>2 DEF PageFollows, KeyFollows
<1> QED BY <1>2, <1>5, <1>6, <1>7, <1>8, <1>9, LoadMoves

LEMMA GiveUpInv ==
    ASSUME StagingInv, NEW l \in Loads, RefuseReconcile(l) \/ Fail(l)
    PROVE  StagingInv'
<1>1. load[l].pc = "keys" <=> lock = l BY LoadTypes
<1>2. CASE RefuseReconcile(l) BY <1>1, <1>2, IdleInv, LoadTypes DEF RefuseReconcile
<1>3. CASE Fail(l)
  <2>1. failures' \in Nat BY <1>3, LoadTypes DEF Fail
  <2> QED BY <1>1, <1>3, <2>1, IdleInv DEF Fail
<1> QED BY <1>2, <1>3

-----------------------------------------------------------------------------
(* The table changes *)

\* What must be shown of a new table: every key it lacks, and that nobody set back, is in
\* the windows to come.
LEMMA TableMoves ==
    ASSUME StagingInv, UNCHANGED <<world, failures>>, load' \in [Loads -> Load],
           table' \in [Keys -> Rows], watermark' \in Nat, watermark' <= clock, due' \in BOOLEAN, regressed' \subseteq Keys,
           lock' \in Loads \cup {Nobody}, \A m \in Loads : load'[m].pc = "keys" <=> lock' = m,
           NEW l \in Loads, load'[l].pc \in {"idle", "reconcile"}, load'[l] = [Idle EXCEPT !.pc = load'[l].pc],
           \A m \in Loads \ {l} :
              load'[m] = load[m] \/ (load[m].pc \in {"measure", "reading"} /\ load'[m] = [load[m] EXCEPT !.overtaken = TRUE]),
           \A k \in Keys : table'[k] \in {table[k], load[l].rows[k], NoRow},
           \A k \in Keys \ regressed' : Missing(k)' =>
              /\ watermark' # 0 => source[k].wm >= Shift(watermark')
              /\ \A m \in Loads \ {l} : Merges(m) => source[k].wm >= Since(m),
           watermark' = watermark \/ \A m \in Loads \ {l} : load'[m].pc # "keys" /\ (load'[m].pc = "reading" => load'[m].overtaken)
    PROVE  StagingInv'
<1>1. clock' = clock /\ changes' = changes /\ source' = source /\ failures' = failures BY DEF world
<1>2. StagingTypeOK' BY <1>1 DEF StagingInv, StagingTypeOK
<1>3. ASSUME NEW m \in Loads \ {l}
      PROVE  /\ load'[m].pc = load[m].pc /\ load'[m].mode = load[m].mode /\ load'[m].stored = load[m].stored
             /\ load'[m].since = load[m].since /\ load'[m].until = load[m].until /\ load'[m].replace = load[m].replace
             /\ load'[m].next = load[m].next /\ load'[m].rows = load[m].rows /\ load'[m].keys = load[m].keys
             /\ (load[m].overtaken => load'[m].overtaken)
  <2> DEFINE a == load[m]
  <2>1. a \in Load BY LoadTypes
  <2>2. load'[m] = a \/ load'[m] = [a EXCEPT !.overtaken = TRUE] OBVIOUS
  <2> HIDE DEF a
  <2>3. /\ load'[m].pc = a.pc /\ load'[m].mode = a.mode /\ load'[m].stored = a.stored
        /\ load'[m].since = a.since /\ load'[m].until = a.until /\ load'[m].replace = a.replace
        /\ load'[m].next = a.next /\ load'[m].rows = a.rows /\ load'[m].keys = a.keys
        /\ (a.overtaken => load'[m].overtaken)
    BY <2>1, <2>2 DEF Load
  <2> QED BY <2>3 DEF a
<1>4. /\ load'[l].rows = NoRows /\ load'[l].next = 1 /\ load'[l].until = 0 /\ load'[l].replace = FALSE
  BY IdleFacts DEF Load
<1>5. \A m \in Loads \ {l} : (Merges(m)' <=> Merges(m)) /\ Since(m)' = Since(m) BY <1>3 DEF Merges, Since
<1>6. ~Merges(l)' BY DEF Merges
<1>7. VersionsAgree'
  <2>1. ASSUME NEW k \in Keys PROVE Held(k)' \subseteq Held(k) \cup {source[k], NoRow}
    <3>1. \A m \in Loads : load'[m].rows[k] \in Held(k) \cup {NoRow}
      <4> TAKE m \in Loads
      <4>1. CASE m = l BY <1>4, <4>1 DEF NoRows
      <4>2. CASE m # l BY <1>3, <4>2 DEF Held
      <4> QED BY <4>1, <4>2
    <3>2. table'[k] \in Held(k) \cup {NoRow} BY DEF Held
    <3> QED BY <3>1, <3>2 DEF Held
  <2> QED BY <2>1, HeldKeeps
<1>8. WithinReach'
  <2> SUFFICES ASSUME watermark' # 0, NEW k \in Keys \ regressed', Missing(k)' PROVE InWindow(source[k], Shift(watermark'), 0)
    BY <1>1 DEF WithinReach, Missing, Shift, InWindow
  <2> QED BY <1>1 DEF InWindow, Missing
<1>9. InTime'
  <2>1. InTime /\ clock \in Nat BY LoadTypes DEF StagingInv
  <2>2. \A m \in Loads : load'[m].mode # "replay" => load'[m].until <= clock
    <3> TAKE m \in Loads
    <3>1. CASE m = l BY <1>4, <2>1, <3>1
    <3>2. CASE m # l BY <1>3, <2>1, <3>2 DEF InTime
    <3> QED BY <3>1, <3>2
  <2>3. \A m \in Loads : Merges(m)' => Since(m)' <= Shift(clock) BY <1>5, <1>6, <2>1 DEF InTime
  <2> QED BY <1>1, <2>1, <2>2, <2>3 DEF InTime, Shift
<1>10. WindowsReach' BY <1>1, <1>5, <1>6 DEF WindowsReach
<1>11. ReadsFollow'
  <2>1. ASSUME NEW m \in Loads \ {l} PROVE WellBegun(m)' /\ \A k \in Keys : PageFollows(m, k)' /\ KeyFollows(m, k)'
    <3>1. WellBegun(m)' BY <1>3 DEF StagingInv, ReadsFollow, WellBegun
    <3>2. ASSUME NEW k \in Keys PROVE PageFollows(m, k)' /\ KeyFollows(m, k)'
      <4>1. PageFollows(m, k) /\ KeyFollows(m, k) BY DEF StagingInv, ReadsFollow
      <4>2. CASE watermark' = watermark
        <5>1. InEveryWindow(k) => InEveryWindow(k)' BY <1>1, <1>5, <1>6, <4>2, SameWindows
        <5> QED BY <1>1, <1>3, <4>1, <5>1 DEF PageFollows, KeyFollows, Shift
      <4>3. CASE load'[m].pc # "keys" /\ (load'[m].pc = "reading" => load'[m].overtaken)
        BY <1>1, <1>3, <4>1, <4>3 DEF PageFollows, KeyFollows, Shift
      <4> QED BY <4>2, <4>3
    <3> QED BY <3>1, <3>2
  <2>2. WellBegun(l)' /\ \A k \in Keys : PageFollows(l, k)' /\ KeyFollows(l, k)'
    BY <1>4 DEF WellBegun, PageFollows, KeyFollows
  <2> QED BY <2>1, <2>2 DEF ReadsFollow
<1> QED BY <1>2, <1>7, <1>8, <1>9, <1>10, <1>11 DEF StagingInv

LEMMA ReconcileInv ==
    ASSUME StagingInv, NEW l \in Loads, Reconcile(l)
    PROVE  StagingInv'
<1> DEFINE a == load[l]
<1>1. /\ a.pc = "keys" /\ table' = Dropped(a) /\ due' = FALSE /\ lock' = Nobody /\ Set(l, Idle)
      /\ regressed' = {k \in Keys : /\ Dropped(a)[k] # source[k]
                                    /\ k \in regressed \/ (k \in Gone(a) /\ k >= a.next)}
      /\ UNCHANGED <<world, watermark, failures>>
      /\ load \in [Loads -> Load] /\ regressed \subseteq Keys /\ watermark <= clock
  BY DEF Reconcile, StagingInv, StagingTypeOK, InTime
<1>2. load'[l] = Idle /\ \A m \in Loads \ {l} : load'[m] = load[m] BY <1>1 DEF Set
<1>3. load' \in [Loads -> Load] BY <1>1, IdleFacts DEF Set
<1>4. load'[l] = [Idle EXCEPT !.pc = load'[l].pc]
  <2>1. Idle = [Idle EXCEPT !.pc = Idle.pc] BY IdleFacts DEF Load
  <2> QED BY <1>2, <2>1
<1>5. lock' \in Loads \cup {Nobody} /\ \A m \in Loads : load'[m].pc = "keys" <=> lock' = m
  BY <1>1, <1>2, IdleFacts, LoadTypes DEF Loads
<1>6. /\ table' \in [Keys -> Rows] /\ \A k \in Keys : table'[k] = IF k \in Gone(a) THEN NoRow ELSE table[k]
  BY <1>1, RowFacts, LoadTypes DEF Dropped
<1>7. ASSUME NEW k \in Keys \ regressed', Missing(k)'
      PROVE  /\ watermark' # 0 => source[k].wm >= Shift(watermark')
             /\ \A m \in Loads \ {l} : Merges(m) => source[k].wm >= Since(m)
  <2>1. source' = source /\ watermark' = watermark BY <1>1 DEF world
  <2>2. k \notin regressed BY <1>1, <1>7, <2>1 DEF Missing
  <2>3. CASE k \in Gone(a)
    <3>1. k < a.next /\ k \notin a.keys
      <4>1. a.next \in 1..(NumKeys + 1) BY LoadTypes
      <4>2. Dropped(a)[k] # source[k] BY <1>1, <1>7, <2>1 DEF Missing
      <4>3. ~(k >= a.next) BY <1>1, <2>3, <4>2
      <4> QED BY <2>3, <4>1, <4>3 DEF Gone, Keys
    <3>2. InEveryWindow(k) BY <1>1, <1>7, <2>1, <3>1 DEF StagingInv, ReadsFollow, KeyFollows, Missing
    <3> QED BY <2>1, <3>2 DEF InEveryWindow, Shift
  <2>4. CASE k \notin Gone(a)
    <3>1. Missing(k) BY <1>6, <1>7, <2>1, <2>4 DEF Missing
    <3> QED BY <2>1, <2>2, <3>1 DEF StagingInv, WithinReach, WindowsReach, InWindow, Shift, Missing
  <2> QED BY <2>3, <2>4
<1>8. load'[l].pc \in {"idle", "reconcile"} BY <1>2, IdleFacts
<1>9. \A k \in Keys : table'[k] \in {table[k], a.rows[k], NoRow} BY <1>6
<1>10. regressed' \subseteq Keys /\ watermark' \in Nat BY <1>1, LoadTypes
<1> QED BY <1>1, <1>2, <1>3, <1>4, <1>5, <1>6, <1>7, <1>8, <1>9, <1>10, TableMoves DEF world

LEMMA OvertakeFacts ==
    ASSUME StagingInv, NEW l \in Loads, NEW m \in Loads
    PROVE  /\ Overtake(l)[m] \in Load
           /\ \/ Overtake(l)[m] = load[m]
              \/ load[m].pc \in {"measure", "reading"} /\ Overtake(l)[m] = [load[m] EXCEPT !.overtaken = TRUE]
           /\ Overtake(l)[m].pc = load[m].pc
           /\ m # l /\ load[m].pc = "reading" => Overtake(l)[m].overtaken
<1> DEFINE a == load[m]
           b == [a EXCEPT !.overtaken = TRUE]
<1>1. a \in Load BY LoadTypes
<1>2. b \in Load /\ b.pc = a.pc /\ b.overtaken = TRUE BY <1>1 DEF Load
<1>3. Overtake(l)[m] = IF m # l /\ a.pc \in {"measure", "reading"} THEN b ELSE a BY DEF Overtake
<1> HIDE DEF a, b
<1>4. /\ Overtake(l)[m] \in Load /\ Overtake(l)[m].pc = a.pc
      /\ m # l /\ a.pc = "reading" => Overtake(l)[m].overtaken
  BY <1>1, <1>2, <1>3
<1> QED BY <1>3, <1>4 DEF a, b

\* The commit of what was read: a key that it leaves out, or puts back, has changed behind
\* the page, or lay before a window that began where nothing was missing.
LEMMA CommitLoadInv ==
    ASSUME StagingInv, NEW l \in Loads, CommitLoad(l)
    PROVE  StagingInv'
<1> DEFINE a == load[l]
           pc == IF Reconciles(a) THEN "reconcile" ELSE "idle"
           new == [Idle EXCEPT !.pc = pc]
<1>1. /\ a.pc = "reading" /\ a.next \notin Keys /\ lock = Nobody /\ table' = Loaded(a) /\ watermark' = NextMark(a)
      /\ due' = (due /\ ~a.replace) /\ UNCHANGED <<world, lock, failures>>
      /\ load' = [Overtake(l) EXCEPT ![l] = new]
      /\ regressed' = {k \in Keys : /\ Loaded(a)[k] # source[k]
                                    /\ k \in regressed \/ (a.overtaken /\ Loaded(a)[k].ver < table[k].ver)}
  BY DEF CommitLoad
<1>2. new \in Load /\ new.pc = pc /\ pc \in {"idle", "reconcile"}
  <2> HIDE DEF pc
  <2>1. pc \in {"idle", "reconcile"} BY DEF pc
  <2> QED BY <2>1, IdleFacts DEF Load
<1>3. load'[l] = new /\ \A m \in Loads \ {l} : load'[m] = Overtake(l)[m] BY <1>1 DEF Overtake
<1>4. load' \in [Loads -> Load]
  <2>1. \A m \in Loads : Overtake(l)[m] \in Load BY OvertakeFacts
  <2>2. Overtake(l) = [m \in Loads |-> Overtake(l)[m]] BY DEF Overtake
  <2> HIDE DEF new
  <2> QED BY <1>1, <1>2, <2>1, <2>2
<1> HIDE DEF pc
<1>5. load'[l] = [Idle EXCEPT !.pc = load'[l].pc] /\ load'[l].pc \in {"idle", "reconcile"} BY <1>2, <1>3
<1>6. \A m \in Loads \ {l} :
         /\ \/ load'[m] = load[m]
            \/ load[m].pc \in {"measure", "reading"} /\ load'[m] = [load[m] EXCEPT !.overtaken = TRUE]
         /\ load'[m].pc = load[m].pc /\ (load[m].pc = "reading" => load'[m].overtaken)
  BY <1>3, OvertakeFacts
<1> HIDE DEF new
<1>7. /\ lock' \in Loads \cup {Nobody} /\ \A m \in Loads : load'[m].pc = "keys" <=> lock' = m
      /\ \A m \in Loads \ {l} : load'[m].pc # "keys"
  <2>1. Nobody \notin Loads BY DEF Loads
  <2>2. \A m \in Loads : load[m].pc # "keys" BY <1>1, <2>1, LoadTypes
  <2>3. \A m \in Loads : load'[m].pc # "keys"
    <3> TAKE m \in Loads
    <3>1. CASE m = l BY <1>5, <3>1
    <3>2. CASE m # l BY <1>6, <2>2, <3>2
    <3> QED BY <3>1, <3>2
  <2> QED BY <1>1, <2>1, <2>3
<1>8. /\ a.rows \in [Keys -> Rows] /\ a.until \in Nat /\ a.next \in 1..(NumKeys + 1) /\ a.replace \in BOOLEAN
      /\ a.overtaken \in BOOLEAN /\ watermark \in Nat /\ clock \in Nat /\ table \in [Keys -> Rows]
      /\ source \in [Keys -> Rows] /\ failures \in Nat /\ Late \in Int
  BY LoadTypes
<1>9. /\ table' \in [Keys -> Rows]
      /\ \A k \in Keys : table'[k] = IF a.replace \/ a.rows[k] # NoRow THEN a.rows[k] ELSE table[k]
  BY <1>1, <1>8 DEF Loaded, Merged
<1>10. /\ watermark' = IF a.mode = "replay" THEN watermark
                       ELSE IF ~a.replace /\ watermark >= a.until THEN watermark ELSE a.until
       /\ watermark' \in Nat /\ watermark' <= clock
  <2>1. InTime BY DEF StagingInv
  <2> QED BY <1>1, <1>8, <2>1 DEF NextMark, Later, InTime
<1>11. due' \in BOOLEAN /\ regressed' \subseteq Keys BY <1>1 DEF StagingInv, StagingTypeOK
<1>12. ASSUME NEW k \in Keys \ regressed', Missing(k)'
       PROVE  /\ watermark' # 0 => source[k].wm >= Shift(watermark')
              /\ \A m \in Loads \ {l} : Merges(m) => source[k].wm >= Since(m)
  <2>1. source[k] # NoRow /\ table'[k] # source[k] /\ k < a.next
    <3>1. source' = source BY <1>1 DEF world
    <3> QED BY <1>1, <1>8, <1>12, <3>1 DEF Missing, Keys
  <2>2. k \notin regressed /\ ~(a.overtaken /\ table'[k].ver < table[k].ver) BY <1>1, <1>12, <2>1
  <2>3. PageFollows(l, k) BY DEF StagingInv, ReadsFollow
  <2>4. Missing(k) => /\ watermark # 0 => source[k].wm >= Shift(watermark)
                      /\ \A m \in Loads : Merges(m) => source[k].wm >= Since(m)
    BY <2>2 DEF StagingInv, WithinReach, WindowsReach, InWindow, Missing
  <2>5. CASE table'[k] = table[k]
    <3>1. Missing(k) BY <2>1, <2>5 DEF Missing
    <3>2. a.mode # "replay" => source[k].wm >= Shift(a.until)
      <4> SUFFICES ASSUME a.mode # "replay" PROVE source[k].wm >= Shift(a.until) OBVIOUS
      <4>1. CASE a.replace \/ a.rows[k] # NoRow
        <5>1. source[k] # a.rows[k] BY <1>9, <2>1, <4>1
        <5> QED BY <1>1, <2>1, <2>3, <4>1, <5>1 DEF PageFollows
      <4>2. CASE ~a.replace /\ a.rows[k] = NoRow
        <5>1. Merges(l) /\ Since(l) = a.since BY <1>1, <4>2 DEF Merges, Since
        <5>2. source[k].wm >= a.since BY <2>4, <3>1, <5>1
        <5>3. source[k].wm \in Nat /\ a.since \in Int BY <1>8, LoadTypes DEF Rows
        <5> QED BY <1>1, <2>1, <2>3, <4>2, <5>2, <5>3 DEF PageFollows
      <4> QED BY <4>1, <4>2
    <3> QED BY <1>8, <1>10, <2>4, <3>1, <3>2 DEF Shift
  <2>6. CASE table'[k] # table[k]
    <3>1. (a.replace \/ a.rows[k] # NoRow) /\ table'[k] = a.rows[k] BY <1>9, <2>6
    <3>2. /\ a.mode # "replay" => source[k].wm >= Shift(a.until)
          /\ ~a.overtaken => InEveryWindow(k)
      BY <1>1, <2>1, <2>3, <3>1 DEF PageFollows
    <3>3. CASE ~a.overtaken BY <1>8, <1>10, <3>2, <3>3 DEF InEveryWindow, Shift
    <3>4. CASE a.overtaken
      <4>1. a.rows[k].ver \in Nat /\ table[k].ver \in Nat /\ source[k].ver \in Nat BY <1>8 DEF Rows
      <4>2. table[k] \in Held(k) /\ a.rows[k] \in Held(k) BY DEF Held
      <4>3. a.rows[k].ver # table[k].ver /\ a.rows[k].ver <= source[k].ver
        BY <2>1, <2>6, <3>1, <4>2 DEF StagingInv, VersionsAgree
      <4>4. table[k].ver < source[k].ver BY <2>2, <3>1, <3>4, <4>1, <4>3
      <4>5. Missing(k) BY <2>1, <4>1, <4>4 DEF Missing
      <4> QED BY <1>8, <1>10, <2>4, <3>2, <4>5 DEF Shift
    <3> QED BY <3>3, <3>4
  <2> QED BY <2>5, <2>6
<1>13. \A k \in Keys : table'[k] \in {table[k], a.rows[k], NoRow} BY <1>9
<1>14. UNCHANGED <<world, failures>> BY <1>1
<1>15. \A m \in Loads \ {l} : load'[m].pc # "keys" /\ (load'[m].pc = "reading" => load'[m].overtaken)
  BY <1>6, <1>7
<1> QED BY <1>4, <1>5, <1>6, <1>7, <1>9, <1>10, <1>11, <1>12, <1>13, <1>14, <1>15, TableMoves

-----------------------------------------------------------------------------
(* The theorem *)

LEMMA StagingNextInv == StagingInv /\ [StagingNext]_stagingVars => StagingInv'
<1> SUFFICES ASSUME StagingInv, [StagingNext]_stagingVars PROVE StagingInv' OBVIOUS
<1>1. CASE UNCHANGED stagingVars
  BY <1>1 DEF stagingVars, world, staged, StagingInv, StagingTypeOK, WithinReach, VersionsAgree, Held, InTime, Merges, Since,
      WindowsReach, Missing, ReadsFollow, WellBegun, PageFollows, KeyFollows, InEveryWindow, Shift, InWindow
<1>2. CASE BecomesDue BY <1>2, BecomesDueInv
<1>3. CASE \E k \in Keys, time \in clock..MaxClock, d \in 0..Late : Change(time, k, d) BY <1>3, ChangeInv
<1>4. CASE \E gone \in SUBSET Keys \ {{}} : Delete(gone) BY <1>4, DeleteInv
<1>5. ASSUME NEW l \in Loads, Step(l) \/ StopAtCap(l) \/ Fail(l) PROVE StagingInv'
  BY <1>5, MeasureInv, ReadPageInv, CommitLoadInv, LockTableInv, ReadKeysInv, StopAtCapInv, ReconcileInv, GiveUpInv
     DEF Step
<1>6. ASSUME NEW l \in Loads, Refresh(l) \/ Ask(l) PROVE StagingInv'
  <2>1. ASSUME NEW mode \in {"auto", "full", "reconcile"}, ReadState(l, mode, 0, 0) PROVE StagingInv'
    BY <2>1, ReadStateInv
  <2>2. ASSUME NEW since \in 1..MaxClock, NEW until \in 1..MaxClock, ReadState(l, "replay", since, until)
        PROVE  StagingInv'
    BY <2>2, ReadStateInv
  <2> QED BY <1>6, <2>1, <2>2 DEF Refresh, Ask
<1> QED BY <1>1, <1>2, <1>3, <1>4, <1>5, <1>6 DEF StagingNext, Loads

\* "Rows changing while the window is read are never skipped", "a crash ... re-reads the
\* window instead of skipping it" (staging/incremental.py): whichever refreshes overlap, fail
\* or are replayed, what the table lacks is inside the next window, but for keys set back
\* behind every window, by a refresh that another one had overtaken or by a reconcile whose
\* keys were cut at the cap, as long as they have not changed again.
THEOREM StagingInvariance == StagingSpec => []StagingInv
<1> QED BY StagingInitInv, StagingNextInv, PTL DEF StagingSpec

HIDE StagingAssumption DEF StagingAssumption

-----------------------------------------------------------------------------
(* Schedules *)

LEMMA Bounds ==
    /\ MaxFires \in Nat /\ MaxTime \in Nat /\ MaxRev \in Nat /\ MaxRev >= 1
    /\ MaxEnds \in Nat /\ MaxEnds >= 1 /\ MaxEvents \in Nat /\ Weight \in Nat
<1>1. /\ MaxFires \in Nat /\ MaxTime \in Nat /\ MaxRev \in Nat /\ MaxEvents \in Nat
      /\ MaxEnds \in Nat /\ Weight \in Nat
  BY SchedulesAssumption, Zenon DEF SchedulesAssumption
<1> QED BY <1>1, SchedulesAssumption DEF SchedulesAssumption

USE Bounds DEF None, Unpinned, NoRev, Same, Other

LEMMA EmptyRows ==
    /\ NoFire \in FireRows /\ NoFire.status = "none" /\ NoFire.for = None /\ NoFire.rev = NoRev
    /\ NoProc \in ProcRows /\ NoProc.pc = "none" /\ NoProc.rev = Unpinned /\ NoProc.previous = None
    /\ NoRun \in RunRows /\ NoRun.status = "none" /\ NoRun.rev = Unpinned /\ NoRun.ends = 0 /\ NoRun.done = FALSE
    /\ NoCompletion \in CompletionRows /\ NoCompletion.pc = "none" /\ NoCompletion.seen = NoRev
    /\ NoEdit \in EditRows /\ NoEdit.pc = "idle" /\ NoEdit.config = Same
BY DEF NoFire, FireRows, NoProc, ProcRows, NoRun, RunRows, NoCompletion, CompletionRows, NoEdit, EditRows,
       Preparing, Revs, Runs, Times, Fires

\* A firing is none of the numbers that stand for no run and for a run from elsewhere.
LEMMA FireNumbers == \A f \in Fires : f \in Nat /\ f # None /\ f # Other /\ f # Same
BY DEF Fires

LEMMA InitInv == Init => ScheduleInv
<1> SUFFICES ASSUME Init PROVE ScheduleInv OBVIOUS
<1>1. /\ schedule \in ScheduleRows /\ schedule.rev \in {Unpinned, 1} /\ schedule.config \in {None, Other}
      /\ schedule.baseline = IF schedule.rev = 1 THEN Other ELSE None
      /\ schedule.enabled <=> schedule.next # None
  <2>1. PICK on \in BOOLEAN, pinned \in BOOLEAN, config \in {None, Other} :
          schedule = [enabled |-> on, next |-> IF on THEN NextFire(now) ELSE None,
                      rev |-> IF pinned THEN 1 ELSE Unpinned, baseline |-> IF pinned THEN Other ELSE None,
                      config |-> config, torn |-> FALSE]
    BY DEF Init
  <2> DEFINE next == IF on THEN NextFire(now) ELSE None
             rev == IF pinned THEN 1 ELSE Unpinned
             baseline == IF pinned THEN Other ELSE None
  <2>2. next \in Times /\ (on <=> next # None) BY DEF Init, NextFire, Times
  <2>3. rev \in Revs /\ rev \in {Unpinned, 1} /\ baseline \in Runs /\ baseline = IF rev = 1 THEN Other ELSE None
    BY DEF Revs, Runs
  <2> HIDE DEF next, rev, baseline
  <2> QED BY <2>1, <2>2, <2>3 DEF ScheduleRows, Runs, next, rev, baseline
<1>2. TypeOK
  <2>1. now = 0 /\ events = 0 /\ retired = FALSE BY DEF Init
  <2>2. now \in 0..MaxTime /\ events \in 0..MaxEvents BY <2>1
  <2> QED BY <1>1, <2>1, <2>2, EmptyRows DEF Init, TypeOK
<1>3. FiresOnce BY EmptyRows DEF Init, FiresOnce
<1>4. EnabledFires BY <1>1, EmptyRows DEF Init, EnabledFires
<1>5. BaselineOfRevision BY <1>1, FireNumbers DEF BaselineOfRevision
<1>6. RevisionsFollow BY <1>1, EmptyRows, FireNumbers DEF Init, RevisionsFollow, Calls
<1>7. StagesAgree BY EmptyRows DEF Init, StagesAgree, At, Preparing, Calls, Ends
<1>8. ComparesSamePins BY EmptyRows, FireNumbers DEF Init, ComparesSamePins
<1> QED BY <1>2, <1>3, <1>4, <1>5, <1>6, <1>7, <1>8 DEF ScheduleInv

-----------------------------------------------------------------------------
(* What the helpers do to one row of a variable; the other rows stay. *)

\* Go changes the place of one process.
LEMMA GoRow ==
    ASSUME TypeOK, NEW f \in Fires, NEW pc \in Preparing \cup {"created", "done", "dead"}, Go(f, pc)
    PROVE  /\ proc' \in [Fires -> ProcRows]
           /\ proc'[f].pc = pc /\ proc'[f].rev = proc[f].rev
           /\ proc'[f].previous = proc[f].previous /\ proc'[f].moved = proc[f].moved
           /\ \A g \in Fires \ {f} : proc'[g] = proc[g]
<1>1. [proc[f] EXCEPT !.pc = pc] \in ProcRows BY DEF TypeOK, ProcRows
<1>2. proc' \in [Fires -> ProcRows] BY <1>1 DEF TypeOK, Go
<1> QED BY <1>2 DEF TypeOK, Go, ProcRows

\* End forgets what a process held.
LEMMA EndRow ==
    ASSUME TypeOK, NEW f \in Fires, NEW pc \in Preparing \cup {"created", "done", "dead"}, End(f, pc)
    PROVE  /\ proc' \in [Fires -> ProcRows]
           /\ proc'[f].pc = pc /\ proc'[f].rev = Unpinned /\ proc'[f].previous = None
           /\ \A g \in Fires \ {f} : proc'[g] = proc[g]
<1> DEFINE p == [NoProc EXCEPT !.pc = pc]
<1>1. p \in ProcRows BY EmptyRows DEF ProcRows
<1>2. p.pc = pc /\ p.rev = Unpinned /\ p.previous = None BY EmptyRows DEF ProcRows
<1>3. proc' = [proc EXCEPT ![f] = p] BY DEF End
<1> HIDE DEF p
<1> QED BY <1>1, <1>2, <1>3 DEF TypeOK

\* Completing moves a completion on and forgets what it read.
LEMMA CompletingRow ==
    ASSUME TypeOK, NEW c \in Calls, NEW pc \in {"none", "due", "done", "lost"}, Completing(c, pc)
    PROVE  /\ completion' \in [Calls -> CompletionRows]
           /\ completion'[c].pc = pc /\ completion'[c].seen = NoRev
           /\ \A d \in Calls \ {c} : completion'[d] = completion[d]
<1> DEFINE k == [NoCompletion EXCEPT !.pc = pc]
<1>1. k \in CompletionRows BY EmptyRows DEF CompletionRows, Telling
<1>2. k.pc = pc /\ k.seen = NoRev BY EmptyRows DEF CompletionRows
<1>3. completion' = [completion EXCEPT ![c] = k] BY DEF Completing
<1> HIDE DEF k
<1> QED BY <1>1, <1>2, <1>3 DEF TypeOK

\* A firing's status is written.
LEMMA FireStatus ==
    ASSUME TypeOK, NEW f \in Fires, NEW s \in Finished \cup {"none", "started", "running"},
           fire' = [fire EXCEPT ![f].status = s]
    PROVE  /\ fire' \in [Fires -> FireRows]
           /\ fire'[f].status = s /\ fire'[f].for = fire[f].for /\ fire'[f].rev = fire[f].rev
           /\ \A g \in Fires \ {f} : fire'[g] = fire[g]
<1>1. [fire[f] EXCEPT !.status = s] \in FireRows BY DEF TypeOK, FireRows
<1>2. fire' \in [Fires -> FireRows] BY <1>1 DEF TypeOK
<1> QED BY <1>2 DEF TypeOK, FireRows

\* Revisions and what is compared with are numbers.
LEMMA Numbers ==
    ASSUME TypeOK
    PROVE  /\ schedule.rev \in Nat /\ schedule.baseline \in Runs /\ schedule.config \in Runs
           /\ \A e \in Editors : editor[e].config \in Runs \cup {Same}
           /\ \A f \in Fires : /\ proc[f].rev \in Nat /\ run[f].rev \in Nat /\ run[f].ends \in Nat
                               /\ proc[f].previous \in Runs /\ fire[f].rev \in Nat \cup {NoRev}
           /\ \A c \in Calls : completion[c].seen \in Nat \cup {NoRev}
BY DEF TypeOK, ScheduleRows, EditRows, ProcRows, RunRows, FireRows, CompletionRows, Revs

\* A call of complete_from_run is one of a firing.
LEMMA CallOf == \A c \in Calls : c[1] \in Fires /\ c[2] \in Ends /\ c = <<c[1], c[2]>>
BY DEF Calls

-----------------------------------------------------------------------------
(* Each action keeps the invariant *)

LEMMA TickInv ==
    ASSUME ScheduleInv, Tick
    PROVE  ScheduleInv'
<1>1. TypeOK' BY DEF ScheduleInv, TypeOK, Tick
<1>2. (FiresOnce /\ EnabledFires /\ BaselineOfRevision /\ RevisionsFollow)'
  BY DEF ScheduleInv, FiresOnce, EnabledFires, WritesBoth, BaselineOfRevision, RevisionsFollow, Tick
<1>3. (StagesAgree /\ ComparesSamePins)'
  BY DEF ScheduleInv, StagesAgree, At, ComparesSamePins, Tick
<1> QED BY <1>1, <1>2, <1>3 DEF ScheduleInv

LEMMA RetireInv ==
    ASSUME ScheduleInv, Retire
    PROVE  ScheduleInv'
<1>1. TypeOK' BY DEF ScheduleInv, TypeOK, Retire, Count
<1>2. (FiresOnce /\ EnabledFires /\ BaselineOfRevision /\ RevisionsFollow)'
  BY DEF ScheduleInv, FiresOnce, EnabledFires, WritesBoth, BaselineOfRevision, RevisionsFollow, Retire
<1>3. (StagesAgree /\ ComparesSamePins)'
  BY DEF ScheduleInv, StagesAgree, At, ComparesSamePins, Retire
<1> QED BY <1>1, <1>2, <1>3 DEF ScheduleInv

\* The fire time claimed is not claimed by another firing: the insert found no such row.
LEMMA ClaimDueInv ==
    ASSUME ScheduleInv, ClaimDue
    PROVE  ScheduleInv'
<1> DEFINE s == [schedule EXCEPT !.next = NextFire(now)]
           row == [NoFire EXCEPT !.status = "started", !.for = schedule.next]
<1>1. /\ s \in ScheduleRows /\ s.rev = schedule.rev /\ s.baseline = schedule.baseline /\ s.config = schedule.config
      /\ s.torn = schedule.torn /\ s.enabled /\ s.next # None
  BY DEF ScheduleInv, TypeOK, ScheduleRows, Times, NextFire, ClaimDue
<1>2. /\ row \in FireRows /\ row.status = "started" /\ row.for = schedule.next /\ row.rev = NoRev
  BY EmptyRows DEF ScheduleInv, TypeOK, ScheduleRows, FireRows, Finished
<1>3. schedule' = s /\ UNCHANGED <<editor, run, completion>> BY DEF ClaimDue
<1>4. now' \in 0..MaxTime /\ events' \in 0..MaxEvents /\ retired' \in BOOLEAN BY DEF ScheduleInv, TypeOK, ClaimDue
<1>5. (EnabledFires /\ BaselineOfRevision)'
  BY <1>1, <1>3 DEF ScheduleInv, EnabledFires, WritesBoth, BaselineOfRevision
<1>6. ASSUME NEW f \in Fires, New(f), Go(f, "claimed"), fire' = [fire EXCEPT ![f] = row], Inserted(schedule.next)
      PROVE  ScheduleInv'
  <2> HIDE DEF s, row
  <2>1. /\ fire' \in [Fires -> FireRows] /\ fire'[f] = row
        /\ \A g \in Fires \ {f} : fire'[g] = fire[g]
    BY <1>2, <1>6 DEF ScheduleInv, TypeOK
  <2>2. /\ proc' \in [Fires -> ProcRows] /\ proc'[f].pc = "claimed" /\ proc'[f].rev = proc[f].rev
        /\ proc'[f].previous = proc[f].previous
        /\ \A g \in Fires \ {f} : proc'[g] = proc[g]
    BY <1>6, GoRow DEF ScheduleInv, Preparing
  <2>3. fire[f].status = "none" /\ proc[f].pc = "none" /\ run[f].status = "none" /\ proc[f].previous = None
    BY <1>6 DEF ScheduleInv, StagesAgree, New, At, Preparing
  <2>4. TypeOK' BY <1>1, <1>3, <1>4, <2>1, <2>2 DEF ScheduleInv, TypeOK
  <2>5. FiresOnce' BY <1>2, <1>6, <2>1 DEF ScheduleInv, FiresOnce, Inserted
  <2>6. RevisionsFollow' BY <1>1, <1>2, <1>3, <2>1, <2>2 DEF ScheduleInv, RevisionsFollow
  <2>7. StagesAgree' BY <1>2, <1>3, <2>1, <2>2, <2>3 DEF ScheduleInv, StagesAgree, At, Preparing, Finished
  <2>8. ComparesSamePins' BY <1>3, <2>2, <2>3, FireNumbers DEF ScheduleInv, ComparesSamePins
  <2> QED BY <1>5, <2>4, <2>5, <2>6, <2>7, <2>8 DEF ScheduleInv
<1>7. ASSUME UNCHANGED <<fire, proc>>
      PROVE  ScheduleInv'
  <2> HIDE DEF s, row
  <2>1. TypeOK' BY <1>1, <1>3, <1>4, <1>7 DEF ScheduleInv, TypeOK
  <2>2. (FiresOnce /\ StagesAgree /\ ComparesSamePins)'
    BY <1>3, <1>7 DEF ScheduleInv, FiresOnce, StagesAgree, At, ComparesSamePins
  <2>3. RevisionsFollow' BY <1>1, <1>3, <1>7 DEF ScheduleInv, RevisionsFollow
  <2> QED BY <1>5, <2>1, <2>2, <2>3 DEF ScheduleInv
<1> QED BY <1>6, <1>7 DEF ClaimDue

LEMMA RunNowInv ==
    ASSUME ScheduleInv, NEW f \in Fires, RunNow(f)
    PROVE  ScheduleInv'
<1>1. /\ fire' \in [Fires -> FireRows]
      /\ fire'[f].status = "started" /\ fire'[f].for = fire[f].for /\ fire'[f].rev = fire[f].rev
      /\ \A g \in Fires \ {f} : fire'[g] = fire[g]
  BY FireStatus DEF ScheduleInv, RunNow
<1>2. /\ proc' \in [Fires -> ProcRows] /\ proc'[f].pc = "claimed" /\ proc'[f].rev = proc[f].rev
      /\ proc'[f].previous = proc[f].previous
      /\ \A g \in Fires \ {f} : proc'[g] = proc[g]
  BY GoRow DEF ScheduleInv, RunNow, Preparing
<1>3. fire[f].status = "none" /\ proc[f].pc = "none" /\ run[f].status = "none" /\ proc[f].previous = None
  BY DEF ScheduleInv, StagesAgree, RunNow, New, At, Preparing
<1>4. UNCHANGED <<now, schedule, retired, editor, run, completion, events>> BY DEF RunNow
<1>5. TypeOK' BY <1>1, <1>2, <1>4 DEF ScheduleInv, TypeOK
<1>6. FiresOnce' BY <1>1 DEF ScheduleInv, FiresOnce
<1>7. RevisionsFollow' BY <1>1, <1>2, <1>4 DEF ScheduleInv, RevisionsFollow
<1>8. StagesAgree' BY <1>1, <1>2, <1>3, <1>4 DEF ScheduleInv, StagesAgree, At, Preparing, Finished
<1>9. ComparesSamePins' BY <1>2, <1>3, <1>4, FireNumbers DEF ScheduleInv, ComparesSamePins
<1>10. (EnabledFires /\ BaselineOfRevision)'
  BY <1>4 DEF ScheduleInv, EnabledFires, WritesBoth, BaselineOfRevision
<1> QED BY <1>5, <1>6, <1>7, <1>8, <1>9, <1>10 DEF ScheduleInv

-----------------------------------------------------------------------------
(* Editing and the pins *)

\* Only the schedule and the editors move: what is between firings stays.
LEMMA FiringsStay ==
    ASSUME ScheduleInv, UNCHANGED <<fire, proc, run, completion>>
    PROVE  (FiresOnce /\ StagesAgree /\ ComparesSamePins)'
BY DEF ScheduleInv, FiresOnce, StagesAgree, At, ComparesSamePins

LEMMA StartEditInv ==
    ASSUME ScheduleInv, NEW e \in Editors, NEW patch \in {"enable", "disable", "other"}, NEW config \in Runs,
           StartEdit(e, patch, config)
    PROVE  ScheduleInv'
<1> DEFINE enabled == CASE patch = "enable" -> TRUE [] patch = "disable" -> FALSE [] OTHER -> schedule.enabled
           row == [pc |-> "read",
                   enabled |-> IF enabled = schedule.enabled THEN "same" ELSE patch,
                   next |-> IF EditedNext(enabled) = schedule.next THEN Same ELSE EditedNext(enabled),
                   config |-> IF config = schedule.config THEN Same ELSE config]
<1>1. editor' = [editor EXCEPT ![e] = row] /\ UNCHANGED <<now, schedule, retired, fire, proc, run, completion>>
  BY DEF StartEdit
<1>2. now \in Nat /\ now + 1 \in Times /\ schedule.enabled \in BOOLEAN /\ schedule.next \in Times
  BY DEF ScheduleInv, TypeOK, ScheduleRows, Times
<1>3. enabled \in BOOLEAN BY <1>2
<1>4. EditedNext(enabled) \in Times /\ (enabled <=> EditedNext(enabled) # None)
  BY <1>2, <1>3 DEF EditedNext, NextFire, Times
<1>5. enabled # schedule.enabled => patch = IF enabled THEN "enable" ELSE "disable" BY <1>2, <1>3
<1>6. row \in EditRows
  <2> HIDE DEF enabled
  <2> QED BY <1>2, <1>3, <1>4, <1>5 DEF EditRows
<1>7. ~schedule.torn => /\ row.enabled = "disable" => row.next = None
                        /\ row.enabled = "enable" => row.next \notin {None, Same}
                        /\ row.enabled = "same" => row.next # None
  <2>1. SUFFICES ASSUME ~schedule.torn
                 PROVE  /\ row.enabled = "disable" => row.next = None
                        /\ row.enabled = "enable" => row.next \notin {None, Same}
                        /\ row.enabled = "same" => row.next # None
    OBVIOUS
  <2>2. schedule.enabled <=> schedule.next # None BY <2>1 DEF ScheduleInv, EnabledFires
  <2> HIDE DEF enabled
  <2> QED BY <1>2, <1>3, <1>4, <1>5, <2>2 DEF Times
<1>c. row.config \in Fires => run[row.config].status # "none"
  BY FireNumbers DEF StartEdit
<1> HIDE DEF row
<1>8. editor' \in [Editors -> EditRows] /\ editor'[e] = row /\ \A d \in Editors \ {e} : editor'[d] = editor[d]
  BY <1>1, <1>6 DEF ScheduleInv, TypeOK
<1>e. events' \in 0..MaxEvents BY DEF ScheduleInv, TypeOK, StartEdit, Count
<1>9. TypeOK' BY <1>1, <1>8, <1>e DEF ScheduleInv, TypeOK
<1>10. EnabledFires' BY <1>1, <1>7, <1>8 DEF ScheduleInv, EnabledFires, WritesBoth
<1>11. BaselineOfRevision' BY <1>1 DEF ScheduleInv, BaselineOfRevision
<1>12. RevisionsFollow' BY <1>1, <1>8, <1>c DEF ScheduleInv, RevisionsFollow
<1> QED BY <1>1, <1>9, <1>10, <1>11, <1>12, FiringsStay DEF ScheduleInv

LEMMA EndEditInv ==
    ASSUME ScheduleInv, NEW e \in Editors, EndEdit(e)
    PROVE  ScheduleInv'
<1> DEFINE enabled == IF editor[e].enabled = "same" THEN schedule.enabled ELSE editor[e].enabled = "enable"
           next == IF editor[e].next = Same THEN schedule.next ELSE editor[e].next
           config == IF editor[e].config = Same THEN schedule.config ELSE editor[e].config
           torn == schedule.torn \/ (~enabled /\ next # None)
           s == [schedule EXCEPT !.enabled = enabled, !.next = next, !.config = config, !.torn = torn]
<1>1. schedule' = s /\ editor' = [editor EXCEPT ![e] = NoEdit] /\ editor[e].pc = "read"
      /\ UNCHANGED <<now, retired, fire, proc, run, completion, events>>
  BY DEF EndEdit
<1>2. /\ schedule.enabled \in BOOLEAN /\ schedule.next \in Times /\ schedule.torn \in BOOLEAN
      /\ editor[e].next \in Times \cup {Same} /\ editor[e].enabled \in {"same", "enable", "disable"}
  BY DEF ScheduleInv, TypeOK, ScheduleRows, EditRows
<1>3. enabled \in BOOLEAN /\ next \in Times /\ torn \in BOOLEAN BY <1>2
<1>c. config \in Runs /\ (config \in Fires => run[config].status # "none")
  BY Numbers DEF ScheduleInv, RevisionsFollow
<1>4. ~torn => (enabled <=> next # None)
  <2>1. SUFFICES ASSUME ~torn PROVE enabled <=> next # None OBVIOUS
  <2>2. schedule.enabled <=> schedule.next # None BY <2>1 DEF ScheduleInv, EnabledFires
  <2>3. WritesBoth(e) BY <1>1, <2>1 DEF ScheduleInv, EnabledFires
  <2> QED BY <1>2, <2>1, <2>2, <2>3 DEF WritesBoth
<1> HIDE DEF enabled, next, torn, config
<1>5. /\ s \in ScheduleRows /\ s.rev = schedule.rev /\ s.baseline = schedule.baseline
      /\ s.enabled = enabled /\ s.next = next /\ s.torn = torn /\ s.config = config
  BY <1>3, <1>c DEF ScheduleInv, TypeOK, ScheduleRows
<1>6. s.torn = FALSE => schedule.torn = FALSE /\ (s.enabled <=> s.next # None)
  BY <1>2, <1>3, <1>4, <1>5 DEF torn
<1> HIDE DEF s
<1>7. editor' \in [Editors -> EditRows] /\ editor'[e].pc = "idle" /\ editor'[e].config = Same
      /\ \A d \in Editors \ {e} : editor'[d] = editor[d]
  BY <1>1, EmptyRows DEF ScheduleInv, TypeOK
<1>8. TypeOK' BY <1>1, <1>5, <1>7 DEF ScheduleInv, TypeOK
<1>9. EnabledFires' BY <1>1, <1>3, <1>5, <1>6, <1>7 DEF ScheduleInv, EnabledFires, WritesBoth
<1>10. BaselineOfRevision' BY <1>1, <1>5 DEF ScheduleInv, BaselineOfRevision
<1>11. RevisionsFollow' BY <1>1, <1>5, <1>7, <1>c, FireNumbers DEF ScheduleInv, RevisionsFollow
<1> QED BY <1>1, <1>8, <1>9, <1>10, <1>11, FiringsStay DEF ScheduleInv

\* A new revision is past every run and has no baseline yet.
LEMMA AcceptUpgradeInv ==
    ASSUME ScheduleInv, AcceptUpgrade
    PROVE  ScheduleInv'
<1> DEFINE s == [schedule EXCEPT !.rev = schedule.rev + 1, !.baseline = None]
<1>1. /\ schedule' = s /\ schedule.rev # Unpinned /\ schedule.rev < MaxRev /\ retired' = FALSE
      /\ UNCHANGED <<now, editor, fire, proc, run, completion, events>>
  BY DEF AcceptUpgrade
<1>2. /\ s \in ScheduleRows /\ s.rev = schedule.rev + 1 /\ s.baseline = None
      /\ s.enabled = schedule.enabled /\ s.next = schedule.next /\ s.torn = schedule.torn
      /\ s.config = schedule.config
  <2>1. schedule \in ScheduleRows /\ None \in Runs BY DEF ScheduleInv, TypeOK, Runs
  <2>2. schedule.rev \in Revs /\ schedule.rev + 1 \in Revs BY <1>1, <2>1 DEF ScheduleRows, Revs
  <2> QED BY <2>1, <2>2 DEF ScheduleRows
<1> HIDE DEF s
<1>3. schedule.rev \in Nat /\ \A f \in Fires : proc[f].rev \in Nat /\ run[f].rev \in Nat
  BY Numbers DEF ScheduleInv
<1>4. TypeOK' BY <1>1, <1>2 DEF ScheduleInv, TypeOK
<1>5. EnabledFires' BY <1>1, <1>2 DEF ScheduleInv, EnabledFires, WritesBoth
<1>6. BaselineOfRevision' BY <1>1, <1>2, FireNumbers DEF BaselineOfRevision
<1>7. \A f \in Fires : proc[f].rev <= schedule.rev + 1 /\ run[f].rev <= schedule.rev + 1
  BY <1>3 DEF ScheduleInv, RevisionsFollow
<1>8. RevisionsFollow' BY <1>1, <1>2, <1>3, <1>7 DEF ScheduleInv, RevisionsFollow
<1> QED BY <1>1, <1>4, <1>5, <1>6, <1>8, FiringsStay DEF ScheduleInv

-----------------------------------------------------------------------------
(* Executing a firing *)

\* Only the process and the firing move: the schedule, its edits and its runs stay.
LEMMA ScheduleStays ==
    ASSUME ScheduleInv, UNCHANGED <<schedule, editor, run>>
    PROVE  (EnabledFires /\ BaselineOfRevision)'
BY DEF ScheduleInv, EnabledFires, WritesBoth, BaselineOfRevision

\* A process that has chosen nothing, or no longer, promises nothing.
LEMMA NothingChosen ==
    ASSUME ScheduleInv, NEW f \in Fires, run' = run, proc'[f].previous = None,
           \A g \in Fires \ {f} : proc'[g] = proc[g]
    PROVE  ComparesSamePins'
BY FireNumbers DEF ScheduleInv, ComparesSamePins

LEMMA CheckInv ==
    ASSUME ScheduleInv, NEW f \in Fires, Check(f)
    PROVE  ScheduleInv'
<1>1. proc[f].pc = "claimed" /\ UNCHANGED <<now, schedule, retired, editor, run, completion, events>> BY DEF Check, At
<1>2. fire[f].status = "started" /\ run[f].status = "none" /\ proc[f].previous = None
  BY <1>1 DEF ScheduleInv, StagesAgree, At, Preparing
<1>3. ASSUME NEW pc \in {"blocked", "checked"}, Go(f, pc),
             fire' = [fire EXCEPT ![f].status = IF pc = "blocked" THEN "started" ELSE "running"]
      PROVE  ScheduleInv'
  <2> DEFINE status == IF pc = "blocked" THEN "started" ELSE "running"
  <2>0. status \in {"started", "running"} OBVIOUS
  <2>a. fire' = [fire EXCEPT ![f].status = status] BY <1>3
  <2>b. status = "started" <=> pc = "blocked" OBVIOUS
  <2> HIDE DEF status
  <2>1. /\ fire' \in [Fires -> FireRows]
        /\ fire'[f].status = status /\ fire'[f].for = fire[f].for /\ fire'[f].rev = fire[f].rev
        /\ \A g \in Fires \ {f} : fire'[g] = fire[g]
    BY <2>0, <2>a, FireStatus DEF ScheduleInv
  <2>2. /\ proc' \in [Fires -> ProcRows] /\ proc'[f].pc = pc /\ proc'[f].rev = proc[f].rev
        /\ proc'[f].previous = proc[f].previous
        /\ \A g \in Fires \ {f} : proc'[g] = proc[g]
    BY <1>3, GoRow DEF ScheduleInv, Preparing
  <2>3. TypeOK' BY <1>1, <2>1, <2>2 DEF ScheduleInv, TypeOK
  <2>4. FiresOnce' BY <2>1 DEF ScheduleInv, FiresOnce
  <2>5. RevisionsFollow' BY <1>1, <2>1, <2>2 DEF ScheduleInv, RevisionsFollow
  <2>6. StagesAgree' BY <1>1, <1>2, <1>3, <2>0, <2>b, <2>1, <2>2 DEF ScheduleInv, StagesAgree, At, Preparing, Finished
  <2>7. ComparesSamePins' BY <1>1, <1>2, <2>2, NothingChosen
  <2> QED BY <1>1, <2>3, <2>4, <2>5, <2>6, <2>7, ScheduleStays DEF ScheduleInv
<1>4. CASE Blocked
  <2>1. fire' = [fire EXCEPT ![f].status = "started"] BY <1>2, <1>4 DEF Check, ScheduleInv, TypeOK, FireRows
  <2> QED BY <1>3, <1>4, <2>1 DEF Check
<1>5. CASE ~Blocked BY <1>3, <1>5 DEF Check
<1> QED BY <1>4, <1>5

\* Skipped and failed: the process is done with the firing, and no run is created.
LEMMA FiringOverInv ==
    ASSUME ScheduleInv, NEW f \in Fires, NEW status \in {"skipped", "failed"},
           proc[f].pc \in Preparing \ {"none"}, End(f, "done"), fire' = [fire EXCEPT ![f].status = status],
           events' \in 0..MaxEvents, UNCHANGED <<now, schedule, retired, editor, run, completion>>
    PROVE  ScheduleInv'
<1>1. /\ fire' \in [Fires -> FireRows]
      /\ fire'[f].status = status /\ fire'[f].for = fire[f].for /\ fire'[f].rev = fire[f].rev
      /\ \A g \in Fires \ {f} : fire'[g] = fire[g]
  BY FireStatus DEF ScheduleInv, Finished
<1>2. /\ proc' \in [Fires -> ProcRows] /\ proc'[f].pc = "done" /\ proc'[f].rev = Unpinned
      /\ proc'[f].previous = None /\ \A g \in Fires \ {f} : proc'[g] = proc[g]
  BY EndRow DEF ScheduleInv
<1>3. run[f].status = "none" BY DEF ScheduleInv, StagesAgree
<1>4. TypeOK' BY <1>1, <1>2 DEF ScheduleInv, TypeOK
<1>5. FiresOnce' BY <1>1 DEF ScheduleInv, FiresOnce
<1>6. schedule.rev \in Nat BY Numbers DEF ScheduleInv
<1>7. RevisionsFollow' BY <1>1, <1>2, <1>6 DEF ScheduleInv, RevisionsFollow
<1>8. StagesAgree' BY <1>1, <1>2, <1>3 DEF ScheduleInv, StagesAgree, At, Preparing, Finished
<1>9. ComparesSamePins' BY <1>2, NothingChosen
<1> QED BY <1>4, <1>5, <1>7, <1>8, <1>9, ScheduleStays DEF ScheduleInv

LEMMA SkipInv ==
    ASSUME ScheduleInv, NEW f \in Fires, Skip(f)
    PROVE  ScheduleInv'
<1>1. events' \in 0..MaxEvents BY DEF ScheduleInv, TypeOK, Skip
<1> QED BY <1>1, FiringOverInv DEF Skip, At, Preparing

LEMMA FailFiringInv ==
    ASSUME ScheduleInv, NEW f \in Fires, FailFiring(f)
    PROVE  ScheduleInv'
<1>1. events' \in 0..MaxEvents BY DEF ScheduleInv, TypeOK, FailFiring, Count
<1> QED BY <1>1, FiringOverInv DEF FailFiring, Preparing

LEMMA ReadPinsInv ==
    ASSUME ScheduleInv, NEW f \in Fires, ReadPins(f)
    PROVE  ScheduleInv'
<1> DEFINE p == [proc[f] EXCEPT !.pc = "pinned", !.rev = schedule.rev]
<1>1. /\ proc[f].pc = "checked" /\ proc' = [proc EXCEPT ![f] = p]
      /\ UNCHANGED <<now, schedule, retired, editor, fire, run, completion, events>>
  <2>1. proc' = [proc EXCEPT ![f].pc = "pinned", ![f].rev = schedule.rev] BY DEF ReadPins
  <2>2. proc' = [proc EXCEPT ![f] = p] BY <2>1 DEF ScheduleInv, TypeOK
  <2> QED BY <2>2 DEF ReadPins, At
<1>2. p \in ProcRows /\ p.pc = "pinned" /\ p.rev = schedule.rev /\ p.previous = proc[f].previous
  BY DEF ScheduleInv, TypeOK, ProcRows, ScheduleRows, Preparing
<1> HIDE DEF p
<1>3. proc' \in [Fires -> ProcRows] /\ proc'[f] = p /\ \A g \in Fires \ {f} : proc'[g] = proc[g]
  BY <1>1, <1>2 DEF ScheduleInv, TypeOK
<1>4. proc[f].previous = None /\ schedule.rev \in Nat BY <1>1, Numbers DEF ScheduleInv, StagesAgree, At
<1>5. TypeOK' BY <1>1, <1>3 DEF ScheduleInv, TypeOK
<1>6. FiresOnce' BY <1>1 DEF ScheduleInv, FiresOnce
<1>7. RevisionsFollow' BY <1>1, <1>2, <1>3, <1>4 DEF ScheduleInv, RevisionsFollow
<1>8. StagesAgree' BY <1>1, <1>2, <1>3 DEF ScheduleInv, StagesAgree, At, Preparing
<1>9. ComparesSamePins' BY <1>1, <1>2, <1>3, <1>4, NothingChosen
<1> QED BY <1>1, <1>5, <1>6, <1>7, <1>8, <1>9, ScheduleStays DEF ScheduleInv

\* Some firings have a last one.
LEMMA LastOf ==
    ASSUME NEW D, D \subseteq Fires, D # {}
    PROVE  \E g \in D : \A h \in D : h <= g
<1> DEFINE Left == {MaxFires - g : g \in D}
           Less == OpToRel(<, Nat)
<1>1. Left \subseteq Nat /\ Left # {}
  <2>1. \A g \in D : g \in Int /\ g <= MaxFires BY DEF Fires
  <2>2. \A g \in D : MaxFires - g \in Nat BY <2>1
  <2> HIDE DEF Less
  <2> QED BY <2>2
<1>2. IsWellFoundedOn(Less, Nat) BY NatLessThanWellFounded
<1>3. \A m, n \in Nat : m < n => <<m, n>> \in Less BY DEF OpToRel
<1> HIDE DEF Less
<1>4. PICK n \in Left : \A m \in Left : ~(<<m, n>> \in Less)
  <2> HIDE DEF Left
  <2> QED BY <1>1, <1>2, WFMin
<1>5. PICK g \in D : n = MaxFires - g BY <1>4
<1>6. \A h \in D : h <= g
  <2> TAKE h \in D
  <2>1. ~(MaxFires - h < MaxFires - g) BY <1>1, <1>3, <1>4, <1>5
  <2> QED BY <2>1 DEF Fires
<1> QED BY <1>6

\* The run before is one of the schedule's pins of now: of this firing's, unless they moved.
LEMMA PreviousOfPins ==
    ASSUME ScheduleInv
    PROVE  /\ Previous \in Runs
           /\ Previous \in Fires => /\ run[Previous].status # "none"
                                    /\ schedule.rev # Unpinned => run[Previous].done
                                    /\ SamePins(schedule.rev, run[Previous].rev)
           /\ Previous = Other => schedule.rev \in {Unpinned, 1}
<1>0. schedule.rev \in Nat /\ \A g \in Fires : run[g].rev \in Nat /\ run[g].rev <= schedule.rev
  BY Numbers DEF ScheduleInv, RevisionsFollow
<1>1. CASE \E g \in Fires : Comparable(g)
  <2> DEFINE Last(g) == Comparable(g) /\ \A h \in (g + 1)..MaxFires : ~Comparable(h)
  <2>1. \E g \in Fires : Last(g)
    <3> DEFINE D == {g \in Fires : Comparable(g)}
    <3>1. D \subseteq Fires /\ D # {} BY <1>1
    <3>2. PICK g \in D : \A h \in D : h <= g BY <3>1, LastOf
    <3>3. \A h \in (g + 1)..MaxFires : h \in Fires /\ ~(h <= g) BY <3>2 DEF Fires
    <3> QED BY <3>2, <3>3
  <2>2. Previous = CHOOSE g \in Fires : Last(g) BY <1>1 DEF Previous
  <2>3. Previous \in Fires /\ Comparable(Previous)
    <3> HIDE DEF Last
    <3>1. Previous \in Fires /\ Last(Previous) BY <2>1, <2>2
    <3> QED BY <3>1 DEF Last
  <2>4. run[Previous].status = "COMPLETED" /\ run[Previous].done
    BY <2>3 DEF Comparable, ScheduleInv, StagesAgree
  <2>5. CASE schedule.rev # Unpinned
    <3>1. fire[Previous].rev = schedule.rev BY <2>3, <2>5 DEF Comparable
    <3>2. run[Previous].rev = schedule.rev BY <1>0, <2>3, <3>1 DEF ScheduleInv, RevisionsFollow
    <3> QED BY <2>3, <2>4, <3>2, FireNumbers DEF SamePins, Runs
  <2>6. CASE schedule.rev = Unpinned
    <3>1. run[Previous].rev = Unpinned BY <1>0, <2>3, <2>6
    <3> QED BY <2>3, <2>4, <2>6, <3>1, FireNumbers DEF SamePins, Runs
  <2> QED BY <2>5, <2>6
<1>2. CASE ~(\E g \in Fires : Comparable(g)) /\ schedule.rev # Unpinned
  <2>1. Previous = schedule.baseline BY <1>2 DEF Previous
  <2>2. schedule.baseline \in Runs BY Numbers DEF ScheduleInv
  <2>3. schedule.baseline \in Fires => run[schedule.baseline].status # "none"
    <3>1. schedule.baseline \in Fires => run[schedule.baseline].done BY DEF ScheduleInv, BaselineOfRevision
    <3> QED BY <3>1 DEF ScheduleInv, StagesAgree
  <2> QED BY <2>1, <2>2, <2>3 DEF ScheduleInv, BaselineOfRevision, SamePins
<1>3. CASE ~(\E g \in Fires : Comparable(g)) /\ schedule.rev = Unpinned
  <2>1. Previous = schedule.config BY <1>3 DEF Previous
  <2>2. schedule.config \in Runs BY Numbers DEF ScheduleInv
  <2>3. schedule.config \in Fires => run[schedule.config].status # "none" /\ run[schedule.config].rev = Unpinned
    BY <1>0, <1>3 DEF ScheduleInv, RevisionsFollow
  <2> QED BY <1>3, <2>1, <2>2, <2>3 DEF SamePins
<1> QED BY <1>1, <1>2, <1>3

LEMMA ReadPreviousInv ==
    ASSUME ScheduleInv, NEW f \in Fires, ReadPrevious(f)
    PROVE  ScheduleInv'
<1> DEFINE p == [proc[f] EXCEPT !.pc = "compared", !.previous = Previous, !.moved = schedule.rev # proc[f].rev]
<1>1. /\ proc[f].pc = "pinned" /\ proc' = [proc EXCEPT ![f] = p]
      /\ UNCHANGED <<now, schedule, retired, editor, fire, run, completion, events>>
  <2>1. proc' = [proc EXCEPT ![f].pc = "compared", ![f].previous = Previous,
                             ![f].moved = schedule.rev # proc[f].rev]
    BY DEF ReadPrevious
  <2>2. proc' = [proc EXCEPT ![f] = p] BY <2>1 DEF ScheduleInv, TypeOK
  <2> QED BY <2>2 DEF ReadPrevious, At
<1>2. /\ p \in ProcRows /\ p.pc = "compared" /\ p.rev = proc[f].rev /\ p.previous = Previous
      /\ p.moved = (schedule.rev # proc[f].rev)
  BY PreviousOfPins DEF ScheduleInv, TypeOK, ProcRows, Preparing
<1> HIDE DEF p
<1>3. proc' \in [Fires -> ProcRows] /\ proc'[f] = p /\ \A g \in Fires \ {f} : proc'[g] = proc[g]
  BY <1>1, <1>2 DEF ScheduleInv, TypeOK
<1>r. proc[f].rev \in Nat /\ schedule.rev \in Nat /\ proc[f].rev <= schedule.rev
  BY Numbers DEF ScheduleInv, RevisionsFollow
<1>4. /\ p.previous \in Fires => /\ run[p.previous].status # "none"
                                 /\ p.rev # Unpinned => run[p.previous].done
                                 /\ ~p.moved => SamePins(p.rev, run[p.previous].rev)
      /\ p.previous = Other => p.rev \in {Unpinned, 1}
  <2>1. ~p.moved => p.rev = schedule.rev BY <1>2
  <2>2. p.rev # Unpinned => schedule.rev # Unpinned BY <1>2, <1>r
  <2>3. schedule.rev \in {Unpinned, 1} => p.rev \in {Unpinned, 1} BY <1>2, <1>r
  <2> QED BY <1>2, <2>1, <2>2, <2>3, PreviousOfPins
<1>5. TypeOK' BY <1>1, <1>3 DEF ScheduleInv, TypeOK
<1>6. FiresOnce' BY <1>1 DEF ScheduleInv, FiresOnce
<1>7. RevisionsFollow' BY <1>1, <1>2, <1>3 DEF ScheduleInv, RevisionsFollow
<1>8. StagesAgree' BY <1>1, <1>2, <1>3 DEF ScheduleInv, StagesAgree, At, Preparing
<1>9. ComparesSamePins' BY <1>1, <1>3, <1>4 DEF ScheduleInv, ComparesSamePins
<1> QED BY <1>1, <1>5, <1>6, <1>7, <1>8, <1>9, ScheduleStays DEF ScheduleInv

\* The run takes the pins the process has read.
LEMMA CreateRunInv ==
    ASSUME ScheduleInv, NEW f \in Fires, CreateRun(f)
    PROVE  ScheduleInv'
<1> DEFINE r == [NoRun EXCEPT !.status = "RUNNING", !.rev = proc[f].rev]
<1>1. /\ proc[f].pc = "compared" /\ End(f, "created") /\ run' = [run EXCEPT ![f] = r]
      /\ UNCHANGED <<now, schedule, retired, editor, fire, completion, events>>
  BY DEF CreateRun, At
<1>2. r \in RunRows /\ r.status = "RUNNING" /\ r.rev = proc[f].rev /\ r.ends = 0 /\ ~r.done
  BY EmptyRows DEF ScheduleInv, TypeOK, ProcRows, RunRows
<1> HIDE DEF r
<1>3. run' \in [Fires -> RunRows] /\ run'[f] = r /\ \A g \in Fires \ {f} : run'[g] = run[g]
  BY <1>1, <1>2 DEF ScheduleInv, TypeOK
<1>4. /\ proc' \in [Fires -> ProcRows] /\ proc'[f].pc = "created" /\ proc'[f].rev = Unpinned
      /\ proc'[f].previous = None /\ \A g \in Fires \ {f} : proc'[g] = proc[g]
  BY <1>1, EndRow DEF ScheduleInv
<1>5. /\ fire[f].status = "running" /\ run[f].status = "none" /\ run[f].ends = 0 /\ ~run[f].done
      /\ fire[f].rev = NoRev
  BY <1>1 DEF ScheduleInv, StagesAgree, RevisionsFollow, Preparing
<1>6. schedule.rev \in Nat /\ \A c \in Calls : c[1] = f => completion[c].seen = NoRev
  BY <1>5, Numbers DEF ScheduleInv, RevisionsFollow
\* Nothing refers to a run before it is created.
<1>7. \A g \in Fires : run[g].status # "none" => run'[g] = run[g] BY <1>3, <1>5
<1>8. TypeOK' BY <1>1, <1>3, <1>4 DEF ScheduleInv, TypeOK
<1>9. FiresOnce' BY <1>1 DEF ScheduleInv, FiresOnce
<1>10. EnabledFires' BY <1>1 DEF ScheduleInv, EnabledFires, WritesBoth
<1>11. BaselineOfRevision' BY <1>1, <1>3, <1>5 DEF ScheduleInv, BaselineOfRevision
<1>12. RevisionsFollow'
  <2>1. \A g \in Fires : /\ proc'[g].rev <= schedule.rev /\ run'[g].rev <= schedule.rev
                         /\ fire[g].rev # NoRev => run'[g].status # "none" /\ fire[g].rev = run'[g].rev
    BY <1>2, <1>3, <1>4, <1>5, <1>6 DEF ScheduleInv, RevisionsFollow
  <2>2. \A c \in Calls : completion[c].seen # NoRev => run'[c[1]].status # "none" /\ completion[c].seen = run'[c[1]].rev
    BY <1>6, <1>7, CallOf DEF ScheduleInv, RevisionsFollow
  <2> QED BY <1>1, <1>7, <2>1, <2>2 DEF ScheduleInv, RevisionsFollow
<1>13. StagesAgree' BY <1>1, <1>2, <1>3, <1>4, <1>5 DEF ScheduleInv, StagesAgree, At, Preparing, Finished
<1>14. ComparesSamePins' BY <1>4, <1>7, FireNumbers DEF ScheduleInv, ComparesSamePins
<1> QED BY <1>8, <1>9, <1>10, <1>11, <1>12, <1>13, <1>14 DEF ScheduleInv

LEMMA WritePendingInv ==
    ASSUME ScheduleInv, NEW f \in Fires, WritePending(f)
    PROVE  ScheduleInv'
<1> DEFINE r == [fire[f] EXCEPT !.rev = run[f].rev]
<1>1. /\ proc[f].pc = "created" /\ End(f, "done") /\ fire' = [fire EXCEPT ![f] = r]
      /\ UNCHANGED <<now, schedule, retired, editor, run, completion, events>>
  BY DEF WritePending, At
<1>2. r \in FireRows /\ r.status = fire[f].status /\ r.for = fire[f].for /\ r.rev = run[f].rev
  <2>1. fire[f] \in FireRows /\ run[f].rev \in Revs BY DEF ScheduleInv, TypeOK, RunRows
  <2> QED BY <2>1 DEF FireRows
<1> HIDE DEF r
<1>3. fire' \in [Fires -> FireRows] /\ fire'[f] = r /\ \A g \in Fires \ {f} : fire'[g] = fire[g]
  BY <1>1, <1>2 DEF ScheduleInv, TypeOK
<1>4. /\ proc' \in [Fires -> ProcRows] /\ proc'[f].pc = "done" /\ proc'[f].rev = Unpinned
      /\ proc'[f].previous = None /\ \A g \in Fires \ {f} : proc'[g] = proc[g]
  BY <1>1, EndRow DEF ScheduleInv
<1>5. run[f].status # "none" /\ schedule.rev \in Nat BY <1>1, Numbers DEF ScheduleInv, StagesAgree, At
<1>6. TypeOK' BY <1>1, <1>3, <1>4 DEF ScheduleInv, TypeOK
<1>7. FiresOnce' BY <1>2, <1>3 DEF ScheduleInv, FiresOnce
<1>8. RevisionsFollow' BY <1>1, <1>2, <1>3, <1>4, <1>5 DEF ScheduleInv, RevisionsFollow
<1>9. StagesAgree' BY <1>1, <1>2, <1>3, <1>4, <1>5 DEF ScheduleInv, StagesAgree, At, Preparing, Finished
<1>10. ComparesSamePins' BY <1>1, <1>4, NothingChosen
<1> QED BY <1>1, <1>6, <1>7, <1>8, <1>9, <1>10, ScheduleStays DEF ScheduleInv

LEMMA DieInv ==
    ASSUME ScheduleInv, NEW f \in Fires, Die(f)
    PROVE  ScheduleInv'
<1>1. /\ proc[f].pc \notin {"none", "done", "dead"} /\ End(f, "dead") /\ events' \in 0..MaxEvents
      /\ UNCHANGED <<now, schedule, retired, editor, fire, run, completion>>
  BY DEF Die, Count, ScheduleInv, TypeOK
<1>2. /\ proc' \in [Fires -> ProcRows] /\ proc'[f].pc = "dead" /\ proc'[f].rev = Unpinned
      /\ proc'[f].previous = None /\ \A g \in Fires \ {f} : proc'[g] = proc[g]
  BY <1>1, EndRow DEF ScheduleInv
<1>3. schedule.rev \in Nat BY Numbers DEF ScheduleInv
<1>4. TypeOK' BY <1>1, <1>2 DEF ScheduleInv, TypeOK
<1>5. FiresOnce' BY <1>1 DEF ScheduleInv, FiresOnce
<1>6. RevisionsFollow' BY <1>1, <1>2, <1>3 DEF ScheduleInv, RevisionsFollow
<1>7. StagesAgree' BY <1>1, <1>2 DEF ScheduleInv, StagesAgree, At, Preparing, Finished
<1>8. ComparesSamePins' BY <1>1, <1>2, NothingChosen
<1> QED BY <1>1, <1>4, <1>5, <1>6, <1>7, <1>8, ScheduleStays DEF ScheduleInv

-----------------------------------------------------------------------------
(* The run and its completion *)

\* Only the status of one run changes, and its history: what has completed has completed.
LEMMA RunMovesInv ==
    ASSUME ScheduleInv, NEW f \in Fires, NEW r \in RunRows, run' = [run EXCEPT ![f] = r],
           run[f].status # "none", r.status # "none", r.rev = run[f].rev, run[f].done => r.done,
           UNCHANGED <<now, schedule, retired, editor, fire, proc>>, events' \in 0..MaxEvents,
           completion' \in [Calls -> CompletionRows],
           \A c \in Calls : completion'[c].seen \in {completion[c].seen, NoRev}
    PROVE  TypeOK' /\ FiresOnce' /\ EnabledFires' /\ BaselineOfRevision' /\ RevisionsFollow' /\ ComparesSamePins'
<1>1. run' \in [Fires -> RunRows] /\ run'[f] = r /\ \A g \in Fires \ {f} : run'[g] = run[g]
  BY DEF ScheduleInv, TypeOK
<1>2. \A g \in Fires : /\ run'[g].rev = run[g].rev /\ (run'[g].status = "none" <=> run[g].status = "none")
                       /\ (run[g].done => run'[g].done)
  BY <1>1
<1>3. TypeOK' BY <1>1 DEF ScheduleInv, TypeOK
<1>4. FiresOnce' /\ EnabledFires' BY DEF ScheduleInv, FiresOnce, EnabledFires, WritesBoth
<1>5. BaselineOfRevision' BY <1>2 DEF ScheduleInv, BaselineOfRevision
<1>6. \A c \in Calls : completion'[c].seen # NoRev => run'[c[1]].status # "none" /\ completion'[c].seen = run'[c[1]].rev
  BY <1>2, CallOf DEF ScheduleInv, RevisionsFollow
<1>7. RevisionsFollow' BY <1>2, <1>6 DEF ScheduleInv, RevisionsFollow
<1>8. ComparesSamePins' BY <1>2 DEF ScheduleInv, ComparesSamePins
<1> QED BY <1>3, <1>4, <1>5, <1>7, <1>8

\* An end of a run is the next one, and its completion is due.
LEMMA RunEndsInv ==
    ASSUME ScheduleInv, NEW f \in Fires, NEW outcome \in {"COMPLETED", "FAILED"}, RunEnds(f, outcome)
    PROVE  ScheduleInv'
<1> DEFINE done == run[f].done \/ outcome = "COMPLETED"
           r == [run[f] EXCEPT !.status = outcome, !.ends = run[f].ends + 1, !.done = done]
           c == <<f, run[f].ends + 1>>
<1>1. /\ run[f].status = "RUNNING" /\ Completing(c, "due") /\ run' = [run EXCEPT ![f] = r]
      /\ UNCHANGED <<now, schedule, retired, editor, fire, proc, events>>
  <2>1. run' = [run EXCEPT ![f].status = outcome, ![f].ends = @ + 1, ![f].done = @ \/ outcome = "COMPLETED"]
    BY DEF RunEnds
  <2>2. run' = [run EXCEPT ![f] = r] BY <2>1 DEF ScheduleInv, TypeOK
  <2> QED BY <2>2 DEF RunEnds, CallsBack
<1>2. run[f] \in RunRows /\ run[f].ends \in Nat /\ run[f].ends + 1 \in Ends
  <2>1. run[f].ends < MaxEnds BY <1>1 DEF ScheduleInv, StagesAgree
  <2> QED BY <2>1, Numbers DEF ScheduleInv, TypeOK, Ends
<1>3. /\ r \in RunRows /\ r.status = outcome /\ r.rev = run[f].rev /\ r.ends = run[f].ends + 1
      /\ outcome = "COMPLETED" \/ run[f].done => r.done
  <2>0. run[f].done \in BOOLEAN BY <1>2 DEF RunRows
  <2>1. done \in BOOLEAN /\ (outcome = "COMPLETED" \/ run[f].done => done) BY <2>0
  <2> HIDE DEF done
  <2>2. run[f].ends + 1 \in 0..MaxEnds BY <1>2 DEF Ends
  <2>3. r \in RunRows BY <1>2, <2>1, <2>2 DEF RunRows
  <2>4. r.status = outcome /\ r.rev = run[f].rev /\ r.ends = run[f].ends + 1 BY <1>2 DEF RunRows
  <2>5. done => r.done BY <1>2 DEF RunRows
  <2> HIDE DEF r
  <2> QED BY <2>1, <2>3, <2>4, <2>5
<1>4. c \in Calls BY <1>2 DEF Calls
<1>5. /\ completion' \in [Calls -> CompletionRows] /\ completion'[c].pc = "due" /\ completion'[c].seen = NoRev
      /\ \A d \in Calls \ {c} : completion'[d] = completion[d]
  BY <1>1, <1>4, CompletingRow DEF ScheduleInv
<1> HIDE DEF r
<1>6. run'[f] = r /\ \A g \in Fires \ {f} : run'[g] = run[g] BY <1>1 DEF ScheduleInv, TypeOK
<1>7. /\ completion'[<<f, run[f].ends + 1>>].pc = "due"
      /\ \A g \in Fires, n \in Ends : (g # f \/ n # run[f].ends + 1) => completion'[<<g, n>>] = completion[<<g, n>>]
  <2>1. \A g \in Fires, n \in Ends : <<g, n>> \in Calls /\ (<<g, n>> = c => g = f /\ n = run[f].ends + 1) BY DEF Calls
  <2> QED BY <1>5, <2>1
<1>8. TypeOK' /\ FiresOnce' /\ EnabledFires' /\ BaselineOfRevision' /\ RevisionsFollow' /\ ComparesSamePins'
  <2>1. \A d \in Calls : completion'[d].seen \in {completion[d].seen, NoRev} BY <1>5
  <2>2. events' \in 0..MaxEvents BY <1>1 DEF ScheduleInv, TypeOK
  <2> HIDE DEF c
  <2> QED BY <1>1, <1>3, <1>5, <2>1, <2>2, RunMovesInv
<1> HIDE DEF c
<1>9. StagesAgree'
  <2> SUFFICES ASSUME NEW g \in Fires
               PROVE  /\ At(g, "none")' <=> fire'[g].status = "none"
                      /\ proc'[g].pc \in {"claimed", "blocked"} => fire'[g].status = "started"
                      /\ proc'[g].pc \in {"checked", "pinned", "compared"} => fire'[g].status = "running"
                      /\ At(g, "created")' => run'[g].status # "none"
                      /\ proc'[g].pc \in Preparing => run'[g].status = "none"
                      /\ proc'[g].previous # None => At(g, "compared")'
                      /\ At(g, "done")' /\ run'[g].status = "none" => fire'[g].status \in Finished
                      /\ run'[g].status # "none" => fire'[g].status \in {"running", "succeeded", "failed"}
                      /\ run'[g].status = "none" => run'[g].ends = 0 /\ ~run'[g].done
                      /\ run'[g].status = "RUNNING" => run'[g].ends < MaxEnds
                      /\ run'[g].status \in {"COMPLETED", "FAILED"} => run'[g].ends # 0
                      /\ run'[g].status = "COMPLETED" => run'[g].done
                      /\ \A n \in Ends : LET k == completion'[<<g, n>>]
                                         IN  /\ k.pc = "none" <=> n > run'[g].ends
                                             /\ k.pc \in {"recorded", "finish"} => k.outcome # "none"
                                             /\ k.pc = "completed" => k.outcome = "succeeded" /\ run'[g].done
                                             /\ k.pc = "done" => fire'[g].status \in Finished
    BY DEF StagesAgree
  <2>1. CASE g # f BY <1>1, <1>6, <1>7, <2>1 DEF ScheduleInv, StagesAgree, At
  <2>2. CASE g = f
    <3>1. /\ run[f].status # "none" /\ run'[f].status = outcome /\ run'[f].ends = run[f].ends + 1
          /\ (outcome = "COMPLETED" => run'[f].done) /\ (run[f].done => run'[f].done)
      BY <1>1, <1>3, <1>6
    <3>2. ASSUME NEW n \in Ends
          PROVE  LET k == completion'[<<f, n>>]
                 IN  /\ k.pc = "none" <=> n > run'[f].ends
                     /\ k.pc \in {"recorded", "finish"} => k.outcome # "none"
                     /\ k.pc = "completed" => k.outcome = "succeeded" /\ run'[f].done
                     /\ k.pc = "done" => fire'[f].status \in Finished
      <4>1. CASE n = run[f].ends + 1 BY <1>2, <1>7, <3>1, <4>1 DEF Ends
      <4>2. CASE n # run[f].ends + 1
        <5>1. completion'[<<f, n>>] = completion[<<f, n>>] BY <1>7, <4>2
        <5>2. n > run'[f].ends <=> n > run[f].ends BY <1>2, <3>1, <4>2 DEF Ends
        <5> QED BY <1>1, <3>1, <5>1, <5>2 DEF ScheduleInv, StagesAgree
      <4> QED BY <4>1, <4>2
    <3>3. run'[f].ends # 0 BY <1>2, <3>1 DEF Ends
    <3> QED BY <1>1, <2>2, <3>1, <3>2, <3>3 DEF ScheduleInv, StagesAgree, At
  <2> QED BY <2>1, <2>2
<1> QED BY <1>8, <1>9 DEF ScheduleInv

LEMMA ReopenInv ==
    ASSUME ScheduleInv, NEW f \in Fires, Reopen(f)
    PROVE  ScheduleInv'
<1> DEFINE r == [run[f] EXCEPT !.status = "RUNNING"]
<1>1. /\ run[f].status = "COMPLETED" /\ run[f].ends < MaxEnds /\ events' \in 0..MaxEvents /\ run' = [run EXCEPT ![f] = r]
      /\ UNCHANGED <<now, schedule, retired, editor, fire, proc, completion>>
  BY DEF Reopen, Count, ScheduleInv, TypeOK
<1>2. /\ r \in RunRows /\ r.status = "RUNNING" /\ r.rev = run[f].rev /\ r.ends = run[f].ends /\ r.done = run[f].done
  BY DEF ScheduleInv, TypeOK, RunRows
<1> HIDE DEF r
<1>3. run'[f] = r /\ \A g \in Fires \ {f} : run'[g] = run[g] BY <1>1 DEF ScheduleInv, TypeOK
<1>4. TypeOK' /\ FiresOnce' /\ EnabledFires' /\ BaselineOfRevision' /\ RevisionsFollow' /\ ComparesSamePins'
  <2>1. completion' \in [Calls -> CompletionRows] /\ \A d \in Calls : completion'[d].seen \in {completion[d].seen, NoRev}
    BY <1>1 DEF ScheduleInv, TypeOK
  <2> QED BY <1>1, <1>2, <2>1, RunMovesInv
<1>5. StagesAgree' BY <1>1, <1>2, <1>3 DEF ScheduleInv, StagesAgree, At
<1> QED BY <1>4, <1>5 DEF ScheduleInv

\* complete_from_run goes on: the runs and the firings' processes stay.
LEMMA CallMoves ==
    ASSUME ScheduleInv, NEW c \in Calls, NEW k \in CompletionRows, completion' = [completion EXCEPT ![c] = k],
           completion[c].pc # "none", k.pc # "none", k.seen # NoRev => run[c[1]].status # "none" /\ k.seen = run[c[1]].rev,
           k.pc \in {"recorded", "finish"} => k.outcome # "none",
           k.pc = "completed" => k.outcome = "succeeded" /\ run[c[1]].done,
           k.pc = "done" => fire'[c[1]].status \in Finished,
           \A g \in Fires : fire'[g] = fire[g] \/ (fire[g].status # "none" /\ fire'[g].status \in {"succeeded", "failed"}
                                                   /\ proc[g].pc \notin Preparing),
           UNCHANGED <<proc, run>>
    PROVE  /\ completion' \in [Calls -> CompletionRows]
           /\ \A d \in Calls : completion'[d].seen # NoRev =>
                                 run[d[1]].status # "none" /\ completion'[d].seen = run[d[1]].rev
           /\ StagesAgree'
<1>1. completion' \in [Calls -> CompletionRows] /\ completion'[c] = k /\ \A d \in Calls \ {c} : completion'[d] = completion[d]
  BY DEF ScheduleInv, TypeOK
<1>2. c[1] \in Fires /\ c[2] \in Ends /\ c = <<c[1], c[2]>> BY CallOf
<1>4. \A d \in Calls : completion'[d].seen # NoRev =>
                         run[d[1]].status # "none" /\ completion'[d].seen = run[d[1]].rev
  BY <1>1 DEF ScheduleInv, RevisionsFollow
<1>5. \A g \in Fires : fire[g].status \in Finished => fire'[g].status \in Finished BY DEF Finished
<1>6. ASSUME NEW g \in Fires, NEW n \in Ends
      PROVE  LET d == completion'[<<g, n>>]
             IN  /\ d.pc = "none" <=> n > run[g].ends
                 /\ d.pc \in {"recorded", "finish"} => d.outcome # "none"
                 /\ d.pc = "completed" => d.outcome = "succeeded" /\ run[g].done
                 /\ d.pc = "done" => fire'[g].status \in Finished
  <2>1. <<g, n>> \in Calls BY DEF Calls
  <2>2. /\ completion[<<g, n>>].pc = "none" <=> n > run[g].ends
        /\ completion[<<g, n>>].pc \in {"recorded", "finish"} => completion[<<g, n>>].outcome # "none"
        /\ completion[<<g, n>>].pc = "completed" => completion[<<g, n>>].outcome = "succeeded" /\ run[g].done
        /\ completion[<<g, n>>].pc = "done" => fire[g].status \in Finished
    BY DEF ScheduleInv, StagesAgree
  <2>3. CASE <<g, n>> # c BY <1>1, <1>5, <2>1, <2>2, <2>3
  <2>4. CASE <<g, n>> = c
    <3>1. c[1] = g BY <2>4
    <3> QED BY <1>1, <2>2, <2>4, <3>1
  <2> QED BY <2>3, <2>4
<1>7. StagesAgree'
  <2>1. \A g \in Fires : /\ At(g, "none") <=> fire'[g].status = "none"
                         /\ proc[g].pc \in {"claimed", "blocked"} => fire'[g].status = "started"
                         /\ proc[g].pc \in {"checked", "pinned", "compared"} => fire'[g].status = "running"
                         /\ At(g, "done") /\ run[g].status = "none" => fire'[g].status \in Finished
                         /\ run[g].status # "none" => fire'[g].status \in {"running", "succeeded", "failed"}
    BY DEF ScheduleInv, StagesAgree, At, Preparing, Finished
  <2> QED BY <1>6, <2>1 DEF ScheduleInv, StagesAgree, At
<1> QED BY <1>1, <1>4, <1>7

\* With it, what a step of complete_from_run leaves to show is what it does to the schedule.
LEMMA CallKeeps ==
    ASSUME ScheduleInv, NEW c \in Calls, UNCHANGED <<now, schedule, retired, editor, proc, run>>,
           events' \in 0..MaxEvents, fire' \in [Fires -> FireRows], StagesAgree',
           completion' \in [Calls -> CompletionRows],
           \A d \in Calls : completion'[d].seen # NoRev =>
                              run[d[1]].status # "none" /\ completion'[d].seen = run[d[1]].rev,
           \A g \in Fires : fire'[g].for = fire[g].for /\ (fire'[g].rev # NoRev =>
                              run[g].status # "none" /\ fire'[g].rev = run[g].rev)
    PROVE  ScheduleInv'
<1>1. TypeOK' BY DEF ScheduleInv, TypeOK
<1>2. FiresOnce' BY DEF ScheduleInv, FiresOnce
<1>3. RevisionsFollow' BY DEF ScheduleInv, RevisionsFollow
<1>4. ComparesSamePins' BY DEF ScheduleInv, ComparesSamePins
<1> QED BY <1>1, <1>2, <1>3, <1>4, ScheduleStays DEF ScheduleInv

LEMMA ReadOutcomeInv ==
    ASSUME ScheduleInv, NEW c \in Calls, ReadOutcome(c)
    PROVE  ScheduleInv'
<1> DEFINE completed == run[c[1]].status = "COMPLETED"
           k == [completion[c] EXCEPT !.pc = IF completed THEN "completed" ELSE "recorded",
                                      !.outcome = IF completed THEN "succeeded" ELSE "failed"]
<1>1. /\ completion[c].pc = "due" /\ UNCHANGED <<now, schedule, retired, editor, fire, proc, run, events>>
      /\ completion' = [completion EXCEPT ![c] = k]
  <2>1. completion' = [completion EXCEPT ![c].pc = IF completed THEN "completed" ELSE "recorded",
                                         ![c].outcome = IF completed THEN "succeeded" ELSE "failed"]
    BY DEF ReadOutcome
  <2>2. completion' = [completion EXCEPT ![c] = k] BY <2>1 DEF ScheduleInv, TypeOK
  <2> QED BY <2>2 DEF ReadOutcome
<1>2. /\ k \in CompletionRows /\ k.pc \in {"completed", "recorded"} /\ k.outcome # "none" /\ k.seen = completion[c].seen
      /\ k.pc = "completed" => completed /\ k.outcome = "succeeded"
  BY DEF ScheduleInv, TypeOK, CompletionRows, Telling
<1>3. completed => run[c[1]].done BY CallOf DEF ScheduleInv, StagesAgree
<1> HIDE DEF k, completed
<1>4. k.seen # NoRev => run[c[1]].status # "none" /\ k.seen = run[c[1]].rev
  BY <1>2 DEF ScheduleInv, RevisionsFollow
<1>5. /\ completion' \in [Calls -> CompletionRows] /\ StagesAgree'
      /\ \A d \in Calls : completion'[d].seen # NoRev =>
                            run[d[1]].status # "none" /\ completion'[d].seen = run[d[1]].rev
  BY <1>1, <1>2, <1>3, <1>4, CallMoves
<1>6. /\ events' \in 0..MaxEvents /\ fire' \in [Fires -> FireRows]
      /\ \A g \in Fires : fire[g].rev # NoRev => run[g].status # "none" /\ fire[g].rev = run[g].rev
  BY <1>1 DEF ScheduleInv, TypeOK, RevisionsFollow
<1> QED BY <1>1, <1>5, <1>6, CallKeeps

\* The baseline of revision 1 is of no pins; another is of the revision that has none yet.
LEMMA RecordBaselineInv ==
    ASSUME ScheduleInv, NEW c \in Calls, RecordBaseline(c)
    PROVE  ScheduleInv'
<1> DEFINE k == [completion[c] EXCEPT !.pc = "recorded"]
<1>1. /\ completion[c].pc = "completed" /\ completion' = [completion EXCEPT ![c] = k]
      /\ UNCHANGED <<now, retired, editor, fire, proc, run, events>>
  <2>1. completion' = [completion EXCEPT ![c].pc = "recorded"] BY DEF RecordBaseline
  <2>2. completion' = [completion EXCEPT ![c] = k] BY <2>1 DEF ScheduleInv, TypeOK
  <2> QED BY <2>2 DEF RecordBaseline
<1>2. PICK f \in Fires : f = c[1] BY CallOf
<1>3. run[f].done /\ completion[c].outcome = "succeeded"
  BY <1>1, <1>2, CallOf DEF ScheduleInv, StagesAgree
<1>4. k \in CompletionRows /\ k.pc = "recorded" /\ k.outcome = "succeeded" /\ k.seen = completion[c].seen
  BY <1>3 DEF ScheduleInv, TypeOK, CompletionRows, Telling
<1> HIDE DEF k
<1>5. k.seen # NoRev => run[c[1]].status # "none" /\ k.seen = run[c[1]].rev
  BY <1>4 DEF ScheduleInv, RevisionsFollow
<1>6. /\ completion' \in [Calls -> CompletionRows] /\ StagesAgree'
      /\ \A d \in Calls : completion'[d].seen # NoRev =>
                            run[d[1]].status # "none" /\ completion'[d].seen = run[d[1]].rev
  BY <1>1, <1>4, <1>5, CallMoves
<1>7. /\ schedule \in ScheduleRows /\ schedule.rev \in Nat /\ f \in Runs /\ f # None /\ f # Other
      /\ \A g \in Fires : proc[g].rev \in Nat /\ run[g].rev \in Nat
  BY Numbers, FireNumbers DEF ScheduleInv, TypeOK, Runs
<1>8. (FiresOnce /\ ComparesSamePins)' BY <1>1 DEF ScheduleInv, FiresOnce, ComparesSamePins
<1>9. ASSUME schedule' \in ScheduleRows, schedule'.config = schedule.config,
             schedule'.enabled = schedule.enabled, schedule'.next = schedule.next, schedule'.torn = schedule.torn,
             schedule.rev <= schedule'.rev, schedule'.rev # Unpinned \/ schedule' = schedule,
             schedule'.rev = 1 => schedule'.baseline # None,
             schedule' # schedule => /\ schedule'.baseline = f
                                     /\ run[f].rev = IF schedule'.rev = 1 THEN Unpinned ELSE schedule'.rev
      PROVE  ScheduleInv'
  <2>0. schedule'.rev \in Nat BY <1>9 DEF ScheduleRows, Revs
  <2>1. TypeOK' BY <1>1, <1>6, <1>9 DEF ScheduleInv, TypeOK
  <2>2. EnabledFires' BY <1>1, <1>9 DEF ScheduleInv, EnabledFires, WritesBoth
  <2>3. BaselineOfRevision'
    <3>1. CASE schedule' = schedule BY <1>1, <3>1 DEF ScheduleInv, BaselineOfRevision
    <3>2. CASE schedule' # schedule BY <1>1, <1>3, <1>7, <1>9, <3>2 DEF BaselineOfRevision
    <3> QED BY <3>1, <3>2
  <2>4. RevisionsFollow'
    <3>1. \A g \in Fires : proc[g].rev <= schedule'.rev /\ run[g].rev <= schedule'.rev
      BY <1>7, <1>9, <2>0 DEF ScheduleInv, RevisionsFollow
    <3>2. schedule'.rev = Unpinned => schedule'.baseline = None BY <1>9 DEF ScheduleInv, RevisionsFollow
    <3> QED BY <1>1, <1>6, <1>9, <3>1, <3>2 DEF ScheduleInv, RevisionsFollow
  <2> QED BY <1>6, <1>8, <2>1, <2>2, <2>3, <2>4 DEF ScheduleInv
<1>10. CASE schedule' = schedule
  BY <1>7, <1>9, <1>10 DEF ScheduleInv, RevisionsFollow
<1>11. CASE schedule.rev = Unpinned
  <2> DEFINE s == [schedule EXCEPT !.rev = 1, !.baseline = f]
  <2>1. schedule' = s BY <1>2, <1>11 DEF RecordBaseline
  <2>2. /\ s \in ScheduleRows /\ s.rev = 1 /\ s.baseline = f /\ s.config = schedule.config
        /\ s.enabled = schedule.enabled /\ s.next = schedule.next /\ s.torn = schedule.torn
    <3>1. 1 \in Revs BY DEF Revs
    <3> QED BY <1>7, <3>1 DEF ScheduleRows
  <2> HIDE DEF s
  <2>3. run[f].rev = Unpinned BY <1>7, <1>11 DEF ScheduleInv, RevisionsFollow
  <2> QED BY <1>7, <1>9, <1>11, <2>1, <2>2, <2>3
<1>12. CASE schedule.rev # Unpinned /\ BecomesBaseline(f)
  <2> DEFINE s == [schedule EXCEPT !.baseline = f]
  <2>1. schedule' = s BY <1>2, <1>12 DEF RecordBaseline
  <2>2. /\ s \in ScheduleRows /\ s.rev = schedule.rev /\ s.baseline = f /\ s.config = schedule.config
        /\ s.enabled = schedule.enabled /\ s.next = schedule.next /\ s.torn = schedule.torn
    BY <1>7 DEF ScheduleRows
  <2> HIDE DEF s
  <2>3. schedule.rev # 1 /\ run[f].rev = schedule.rev BY <1>12 DEF ScheduleInv, RevisionsFollow, BecomesBaseline
  <2> QED BY <1>7, <1>9, <1>12, <2>1, <2>2, <2>3
<1> QED BY <1>2, <1>10, <1>11, <1>12 DEF RecordBaseline

LEMMA ReadFiringInv ==
    ASSUME ScheduleInv, NEW c \in Calls, ReadFiring(c)
    PROVE  ScheduleInv'
<1>1. completion[c].pc = "recorded" /\ c[1] \in Fires /\ UNCHANGED <<now, schedule, retired, editor, fire, proc, run, events>>
  BY CallOf DEF ReadFiring
<1>2. completion[c].outcome # "none" BY <1>1, CallOf DEF ScheduleInv, StagesAgree
<1>3. PICK k \in CompletionRows :
        /\ completion' = [completion EXCEPT ![c] = k]
        /\ \/ k.pc = "done" /\ fire[c[1]].status \in Finished /\ k.seen = NoRev
           \/ k.pc = "finish" /\ k.outcome # "none" /\ k.seen = fire[c[1]].rev
  <2>1. CASE fire[c[1]].status \in Finished
    <3> DEFINE k == [NoCompletion EXCEPT !.pc = "done"]
    <3>1. k \in CompletionRows /\ k.pc = "done" /\ k.seen = NoRev BY EmptyRows DEF CompletionRows
    <3>2. completion' = [completion EXCEPT ![c] = k] BY <2>1 DEF ReadFiring, Completing
    <3> HIDE DEF k
    <3> QED BY <2>1, <3>1, <3>2
  <2>2. CASE fire[c[1]].status \notin Finished
    <3> DEFINE k == [completion[c] EXCEPT !.pc = "finish", !.seen = fire[c[1]].rev]
    <3>1. k \in CompletionRows /\ k.pc = "finish" /\ k.seen = fire[c[1]].rev /\ k.outcome = completion[c].outcome
      BY <1>1 DEF ScheduleInv, TypeOK, FireRows, CompletionRows, Telling
    <3>2. completion' = [completion EXCEPT ![c] = k]
      <4>1. completion' = [completion EXCEPT ![c].pc = "finish", ![c].seen = fire[c[1]].rev] BY <2>2 DEF ReadFiring
      <4> QED BY <4>1 DEF ScheduleInv, TypeOK
    <3> HIDE DEF k
    <3> QED BY <1>2, <3>1, <3>2
  <2> QED BY <2>1, <2>2
<1>4. k.seen # NoRev => run[c[1]].status # "none" /\ k.seen = run[c[1]].rev
  BY <1>1, <1>3 DEF ScheduleInv, RevisionsFollow
<1>5. /\ completion' \in [Calls -> CompletionRows] /\ StagesAgree'
      /\ \A d \in Calls : completion'[d].seen # NoRev =>
                            run[d[1]].status # "none" /\ completion'[d].seen = run[d[1]].rev
  BY <1>1, <1>3, <1>4, CallMoves
<1>6. /\ events' \in 0..MaxEvents /\ fire' \in [Fires -> FireRows]
      /\ \A g \in Fires : fire[g].rev # NoRev => run[g].status # "none" /\ fire[g].rev = run[g].rev
  BY <1>1 DEF ScheduleInv, TypeOK, RevisionsFollow
<1> QED BY <1>1, <1>5, <1>6, CallKeeps

LEMMA FinishInv ==
    ASSUME ScheduleInv, NEW c \in Calls, Finish(c)
    PROVE  ScheduleInv'
<1> DEFINE k == [NoCompletion EXCEPT !.pc = "done"]
<1>1. PICK f \in Fires : f = c[1] BY CallOf
<1> DEFINE r == [fire[f] EXCEPT !.status = completion[c].outcome, !.rev = completion[c].seen]
<1>2. /\ completion[c].pc = "finish" /\ completion' = [completion EXCEPT ![c] = k] /\ fire' = [fire EXCEPT ![f] = r]
      /\ UNCHANGED <<now, schedule, retired, editor, proc, run, events>>
  <2>1. fire' = [fire EXCEPT ![f].status = completion[c].outcome, ![f].rev = completion[c].seen] BY <1>1 DEF Finish
  <2>2. fire' = [fire EXCEPT ![f] = r] BY <2>1 DEF ScheduleInv, TypeOK
  <2> QED BY <2>2 DEF Finish, Completing
<1>3. k \in CompletionRows /\ k.pc = "done" /\ k.seen = NoRev BY EmptyRows DEF CompletionRows
<1>4. completion[c].outcome \in {"succeeded", "failed"}
  BY <1>2, CallOf DEF ScheduleInv, StagesAgree, TypeOK, CompletionRows
<1>5. r \in FireRows /\ r.status = completion[c].outcome /\ r.for = fire[f].for /\ r.rev = completion[c].seen
  <2>1. fire[f] \in FireRows /\ completion[c].seen \in Revs \cup {NoRev} /\ completion[c].outcome \in Finished
    BY <1>4 DEF ScheduleInv, TypeOK, CompletionRows, Finished
  <2> QED BY <2>1 DEF FireRows
<1> HIDE DEF r, k
<1>6. fire' \in [Fires -> FireRows] /\ fire'[f] = r /\ \A g \in Fires \ {f} : fire'[g] = fire[g]
  BY <1>2, <1>5 DEF ScheduleInv, TypeOK
\* The run has ended once, so that the firing's process is past what it prepares.
<1>7. run[f].status # "none" /\ fire[f].status # "none" /\ proc[f].pc \notin Preparing
  <2>1. ~(c[2] > run[f].ends) /\ c[2] \in Ends BY <1>1, <1>2, CallOf DEF ScheduleInv, StagesAgree
  <2>2. run[f].ends # 0 BY <2>1 DEF Ends
  <2> QED BY <2>2 DEF ScheduleInv, StagesAgree
<1>8. \A g \in Fires : fire'[g] = fire[g] \/ (fire[g].status # "none" /\ fire'[g].status \in {"succeeded", "failed"}
                                              /\ proc[g].pc \notin Preparing)
  BY <1>4, <1>5, <1>6, <1>7
<1>9. fire'[c[1]].status \in Finished BY <1>1, <1>4, <1>5, <1>6 DEF Finished
<1>10. /\ completion' \in [Calls -> CompletionRows] /\ StagesAgree'
       /\ \A d \in Calls : completion'[d].seen # NoRev =>
                             run[d[1]].status # "none" /\ completion'[d].seen = run[d[1]].rev
  BY <1>2, <1>3, <1>8, <1>9, CallMoves
<1>11. \A g \in Fires : fire'[g].for = fire[g].for /\ (fire'[g].rev # NoRev =>
                          run[g].status # "none" /\ fire'[g].rev = run[g].rev)
  BY <1>1, <1>5, <1>6 DEF ScheduleInv, RevisionsFollow
<1>12. events' \in 0..MaxEvents BY <1>2 DEF ScheduleInv, TypeOK
<1> QED BY <1>2, <1>6, <1>10, <1>11, <1>12, CallKeeps

LEMMA LoseCompletionInv ==
    ASSUME ScheduleInv, NEW c \in Calls, LoseCompletion(c)
    PROVE  ScheduleInv'
<1> DEFINE k == [NoCompletion EXCEPT !.pc = "lost"]
<1>1. /\ completion[c].pc \in Telling /\ completion' = [completion EXCEPT ![c] = k] /\ events' \in 0..MaxEvents
      /\ UNCHANGED <<now, schedule, retired, editor, fire, proc, run>>
  BY DEF LoseCompletion, Completing, Count, ScheduleInv, TypeOK
<1>2. k \in CompletionRows /\ k.pc = "lost" /\ k.seen = NoRev BY EmptyRows DEF CompletionRows
<1> HIDE DEF k
<1>3. /\ completion' \in [Calls -> CompletionRows] /\ StagesAgree'
      /\ \A d \in Calls : completion'[d].seen # NoRev =>
                            run[d[1]].status # "none" /\ completion'[d].seen = run[d[1]].rev
  BY <1>1, <1>2, CallMoves DEF Telling
<1>4. /\ fire' \in [Fires -> FireRows]
      /\ \A g \in Fires : fire[g].rev # NoRev => run[g].status # "none" /\ fire[g].rev = run[g].rev
  BY <1>1 DEF ScheduleInv, TypeOK, RevisionsFollow
<1> QED BY <1>1, <1>3, <1>4, CallKeeps

-----------------------------------------------------------------------------
(* The theorems *)

LEMMA NextInv == ScheduleInv /\ [Next]_vars => ScheduleInv'
<1> SUFFICES ASSUME ScheduleInv, [Next]_vars PROVE ScheduleInv' OBVIOUS
<1>1. CASE Tick \/ ClaimDue \/ Retire \/ AcceptUpgrade
  BY <1>1, TickInv, ClaimDueInv, RetireInv, AcceptUpgradeInv
<1>2. ASSUME NEW e \in Editors, Edit(e) PROVE ScheduleInv'
  <2>1. schedule.config \in Runs /\ Named \subseteq Runs BY Numbers, NamedAssumption DEF ScheduleInv, NamedAssumption
  <2> QED BY <1>2, <2>1, StartEditInv, EndEditInv DEF Edit
<1>3. ASSUME NEW f \in Fires, Execute(f) PROVE ScheduleInv'
  BY <1>3, CheckInv, SkipInv, ReadPinsInv, ReadPreviousInv, CreateRunInv, WritePendingInv DEF Execute
<1>4. ASSUME NEW c \in Calls, Complete(c) \/ LoseCompletion(c) PROVE ScheduleInv'
  BY <1>4, ReadOutcomeInv, RecordBaselineInv, ReadFiringInv, FinishInv, LoseCompletionInv DEF Complete
<1>5. ASSUME NEW f \in Fires, RunNow(f) \/ RunMoves(f) \/ FailFiring(f) \/ Die(f) PROVE ScheduleInv'
  BY <1>5, RunNowInv, RunEndsInv, ReopenInv, FailFiringInv, DieInv DEF RunMoves
<1>6. CASE UNCHANGED vars
  <2>1. TypeOK' BY <1>6 DEF ScheduleInv, TypeOK, vars
  <2>2. (EnabledFires /\ BaselineOfRevision /\ RevisionsFollow)'
    BY <1>6 DEF ScheduleInv, EnabledFires, WritesBoth, BaselineOfRevision, RevisionsFollow, vars
  <2> QED BY <1>6, <2>1, <2>2, FiringsStay DEF ScheduleInv, vars
<1> QED BY <1>1, <1>2, <1>3, <1>4, <1>5, <1>6 DEF Next

\* A fire time fires once, no claim and no single overlap of edits leaves the schedule
\* enabled without a next fire time, a baseline is a run of its own revision that has
\* completed (or, for revision 1, one from elsewhere), and a firing compares with a run of its
\* own pins, although a completed run may be reopened and end otherwise
\* (services/schedules.py `_claim`, `update_schedule`, `_record_baseline`, `_previous_run`).
THEOREM Invariance == Spec => []ScheduleInv
<1> QED BY InitInv, NextInv, PTL DEF Spec

\* The firing's deltas compare against a run of the same pins, unless an upgrade was accepted
\* between `for_run` and `_previous_run`; a pinned firing's against one that has completed;
\* and a run from elsewhere is only what an unpinned schedule's config names or revision 1's.
THEOREM ComparesSamePinsAlways == Spec => []ComparesSamePins
<1>1. ScheduleInv => ComparesSamePins BY DEF ScheduleInv
<1> QED BY <1>1, Invariance, PTL

\* "Never raises: failures are recorded on the schedule_run": a firing that has not ended is
\* under way, or its process or one that told of its run's end has died.
THEOREM FiringsEndAlways == Spec => []FiringsEnd
<1>1. ScheduleInv => FiringsEnd
  <2> SUFFICES ASSUME ScheduleInv, NEW f \in Fires, fire[f].status \in {"started", "running"},
                      proc[f].pc \notin {"claimed", "blocked", "checked", "pinned", "compared"},
                      ~(At(f, "dead") /\ run[f].status = "none"), run[f].status # "RUNNING"
               PROVE  \/ \E n \in Ends : completion[<<f, n>>].pc \in Telling
                      \/ \E n \in Ends : completion[<<f, n>>].pc = "lost"
    BY DEF FiringsEnd
  <2>1. proc[f].pc \in {"created", "done", "dead"}
    BY DEF ScheduleInv, StagesAgree, At, TypeOK, ProcRows, Preparing
  <2>2. run[f].status \in {"COMPLETED", "FAILED"}
    BY <2>1 DEF ScheduleInv, StagesAgree, At, Finished, TypeOK, RunRows
  <2>3. run[f].ends \in Ends /\ <<f, run[f].ends>> \in Calls
    BY <2>2, Numbers DEF ScheduleInv, StagesAgree, TypeOK, RunRows, Ends, Calls
  <2>4. completion[<<f, run[f].ends>>].pc \notin {"none", "done"}
    <3>1. ~(run[f].ends > run[f].ends) BY Numbers DEF ScheduleInv
    <3> QED BY <2>3, <3>1 DEF ScheduleInv, StagesAgree, Finished
  <2>5. completion[<<f, run[f].ends>>].pc \in Telling \cup {"none", "done", "lost"}
    BY <2>3 DEF ScheduleInv, TypeOK, CompletionRows
  <2> QED BY <2>3, <2>4, <2>5
<1> QED BY <1>1, Invariance, PTL

\* Firings that overlap complete in any order: the baseline stays until an upgrade is accepted.
THEOREM BaselineStaysAlways == Spec => BaselineStays
<1> DEFINE Stays == schedule'.rev = schedule.rev /\ schedule.baseline # None
                      => schedule'.baseline = schedule.baseline
<1>1. ScheduleInv /\ [Next]_vars => [Stays]_vars
  <2> SUFFICES ASSUME ScheduleInv, Next PROVE Stays OBVIOUS
  <2>0. schedule \in ScheduleRows /\ schedule.rev \in Nat BY Numbers DEF ScheduleInv, TypeOK
  <2>1. ASSUME NEW c \in Calls, RecordBaseline(c) PROVE Stays
    BY <2>0, <2>1 DEF RecordBaseline, BecomesBaseline, ScheduleRows
  <2>2. CASE AcceptUpgrade
    <3>1. schedule'.rev = schedule.rev + 1 BY <2>0, <2>2 DEF AcceptUpgrade, ScheduleRows
    <3> QED BY <2>0, <3>1
  <2>3. CASE ClaimDue BY <2>0, <2>3 DEF ClaimDue, ScheduleRows
  <2>4. ASSUME NEW e \in Editors, EndEdit(e) PROVE Stays BY <2>0, <2>4 DEF EndEdit, ScheduleRows
  <2>5. ASSUME schedule' = schedule PROVE Stays BY <2>5
  <2>6. ASSUME NEW e \in Editors, Edit(e) PROVE Stays BY <2>4, <2>5, <2>6 DEF Edit, StartEdit
  <2>7. ASSUME NEW f \in Fires, Execute(f) PROVE Stays
    BY <2>5, <2>7 DEF Execute, Check, Skip, ReadPins, ReadPrevious, CreateRun, WritePending
  <2>8. ASSUME NEW c \in Calls, Complete(c) \/ LoseCompletion(c) PROVE Stays
    BY <2>1, <2>5, <2>8 DEF Complete, ReadOutcome, ReadFiring, Finish, LoseCompletion
  <2>9. ASSUME NEW f \in Fires, RunNow(f) \/ RunMoves(f) \/ FailFiring(f) \/ Die(f) PROVE Stays
    BY <2>5, <2>9 DEF RunNow, RunMoves, RunEnds, Reopen, FailFiring, Die
  <2>10. CASE Tick \/ Retire BY <2>5, <2>10 DEF Tick, Retire
  <2> QED BY <2>2, <2>3, <2>6, <2>7, <2>8, <2>9, <2>10 DEF Next
<1>2. Spec => [][Stays]_vars BY <1>1, Invariance, PTL DEF Spec
<1> QED BY <1>2 DEF BaselineStays

=============================================================================
