---------------------------- MODULE Threads_proofs ----------------------------
(* What holds of the steps of a data thread in every run of StepVersions,   *)
(* for any number of requests, steps and branches; and of a question and    *)
(* its retries in every run of AskTurns, for any number of requests, faults *)
(* and purges.                                                              *)
EXTENDS StepVersions, AskTurns, TLAPS


-----------------------------------------------------------------------------
(* StepVersions: what is downstream *)

LEMMA DepsBefore ==
    \A t \in Steps : t \in Nat /\ \A d \in Deps[t] : d \in Steps /\ d \in Nat /\ d < t
BY StepsAssumption DEF StepsAssumption

\* Downstream with the current versions as a parameter, to speak of two states.
Feed(c, s, D) == {t \in Steps : Branch[t] = Branch[s] /\ c[t] # 0 /\ Deps[t] \cap (D \cup {s}) # {}}
Down(c, s) == {t \in Steps : \A D \in SUBSET Steps : Feed(c, s, D) \subseteq D => t \in D}

LEMMA DownIs == \A s : Downstream(s) = Down(current, s) /\ Downstream(s)' = Down(current', s)
BY DEF Downstream, Down, Feeds, Feed, Exists

LEMMA DownLeast ==
    ASSUME NEW c, NEW s, NEW D \in SUBSET Steps, Feed(c, s, D) \subseteq D
    PROVE  Down(c, s) \subseteq D
BY DEF Down

\* It holds what reads the step, or something in it, in the branch.
LEMMA DownDirect ==
    ASSUME NEW c, NEW s, NEW t \in Steps, Branch[t] = Branch[s], c[t] # 0,
           NEW d \in Deps[t], d = s \/ d \in Down(c, s)
    PROVE  t \in Down(c, s)
<1> SUFFICES ASSUME NEW D \in SUBSET Steps, Feed(c, s, D) \subseteq D PROVE t \in D BY DEF Down
<1>1. d \in D \cup {s} BY DEF Down
<1>2. t \in Feed(c, s, D) BY <1>1 DEF Feed
<1> QED BY <1>2

\* It holds later steps of the branch only, that exist.
LEMMA DownBounds ==
    ASSUME NEW c, NEW s \in Steps
    PROVE  \A t \in Down(c, s) : t \in Steps /\ t > s /\ t # s /\ Branch[t] = Branch[s] /\ c[t] # 0
<1> DEFINE D == {t \in Steps : t > s /\ t # s /\ Branch[t] = Branch[s] /\ c[t] # 0}
<1>1. ASSUME NEW t \in Feed(c, s, D) PROVE t \in D
  <2>1. PICK d \in Deps[t] : d \in D \cup {s} BY DEF Feed
  <2>2. t \in Steps /\ Branch[t] = Branch[s] /\ c[t] # 0 BY DEF Feed
  <2>3. t \in Nat /\ d \in Nat /\ d < t /\ s \in Nat BY <2>2, DepsBefore
  <2>4. d >= s BY <2>1, <2>3
  <2> QED BY <2>2, <2>3, <2>4
<1>2. Down(c, s) \subseteq D BY <1>1, DownLeast
<1> QED BY <1>2

LEMMA DownGrows ==
    ASSUME NEW c, NEW b, NEW s, \A t \in Steps : c[t] # 0 => b[t] # 0
    PROVE  Down(c, s) \subseteq Down(b, s)
<1>1. ASSUME NEW D PROVE Feed(c, s, D) \subseteq Feed(b, s, D) BY DEF Feed
<1> QED BY <1>1 DEF Down

\* A step that nothing reads is all that its creation can add.
LEMMA DownNew ==
    ASSUME NEW c, NEW b, NEW s, NEW x \in Steps, \A t \in Steps \ {x} : b[t] # 0 <=> c[t] # 0,
           \A t \in Steps : b[t] # 0 => x \notin Deps[t]
    PROVE  Down(b, s) \subseteq Down(c, s) \cup {x}
<1> DEFINE D == Down(c, s) \cup {x}
<1>1. D \in SUBSET Steps BY DEF Down
<1>2. ASSUME NEW t \in Feed(b, s, D), t # x PROVE t \in D
  <2>1. t \in Steps /\ Branch[t] = Branch[s] /\ b[t] # 0 /\ c[t] # 0 BY <1>2 DEF Feed
  <2>2. PICK d \in Deps[t] : d \in D \cup {s} BY DEF Feed
  <2>3. d = s \/ d \in Down(c, s) BY <2>1, <2>2
  <2> QED BY <2>1, <2>3, DownDirect
<1>3. Feed(b, s, D) \subseteq D BY <1>2
<1> QED BY <1>1, <1>3, DownLeast

-----------------------------------------------------------------------------
(* Init, and what the invariant says at rest *)

StepsCore == StepsTypeOK /\ StepsFollow /\ RequestsFollow /\ ListsHold /\ LiveIsFresh /\ NothingForgotten

LEMMA BlankFacts ==
    /\ NoInputs \in Inputs /\ Blank \in Requests /\ Blank.pc = "idle" /\ Blank.todo = {} /\ Blank.unseen = {}
    /\ Blank.step = 0 /\ Blank.first = 0 /\ Blank.read = 0
    /\ Over \in Requests /\ Over.pc = "done" /\ Over.todo = {} /\ Over.unseen = {} /\ Over.step = 0 /\ Over.first = 0
BY DEF NoInputs, Inputs, Blank, Over, Requests

LEMMA StepsInitCore == StepsInit => StepsCore
<1> SUFFICES ASSUME StepsInit PROVE StepsCore OBVIOUS
<1> USE BlankFacts
<1>1. /\ current \in [Steps -> Nat] /\ \A s \in Steps : current[s] = IF s \in Later THEN 0 ELSE 1
      /\ \A e \in Editors : editor[e] = Blank
  BY DEF StepsInit
<1>2. \A s \in Steps : FirstInputs(s) \in Inputs /\ FirstRow(s) \in Rows
  BY DEF FirstInputs, Inputs, FirstRow, Row, Rows
<1>3. \A s \in Steps : \A n \in 1..current[s] : s \notin Later /\ current[s] = 1 /\ n = 1 /\ version[s][n] = FirstRow(s)
  BY <1>1 DEF StepsInit
<1>4. StepsTypeOK
  <2>1. live \in [Steps -> SUBSET Verdicts] /\ \A s \in Steps : \A r, q \in live[s] : r = q
    <3>1. \A s \in Steps : [version |-> 1, inputs |-> FirstInputs(s), late |-> FALSE] \in Verdicts BY <1>2 DEF Verdicts
    <3> QED BY <3>1 DEF StepsInit
  <2>2. version = [s \in Steps |-> [n \in 1..current[s] |-> version[s][n]]] BY DEF StepsInit
  <2>3. \A s \in Steps : \A n \in 1..current[s] : version[s][n] \in Rows BY <1>2, <1>3
  <2>4. editor \in [Editors -> Requests] /\ deaths \in 0..MaxDeaths /\ broken \subseteq Steps
    BY StepsAssumption DEF StepsInit, StepsAssumption
  <2>5. status \in [Steps -> {None, "pending", "ok", "failed"}] BY DEF StepsInit
  <2> QED BY <1>1, <2>1, <2>2, <2>3, <2>4, <2>5 DEF StepsTypeOK
<1>5. StepsFollow
  <2>1. ASSUME NEW s \in Steps, Exists(s), NEW d \in Deps[s] PROVE Exists(d)
    <3>1. s \notin Later /\ d \in Steps BY <1>1, <2>1, DepsBefore DEF Exists
    <3>2. d \notin Later BY <3>1 , StepsAssumption DEF StepsAssumption
    <3> QED BY <1>1, <3>1, <3>2 DEF Exists
  <2>2. ASSUME NEW s \in Steps, ~Exists(s) PROVE live[s] = {} BY <1>1, <2>2 DEF Exists, StepsInit
  <2> QED BY <2>1, <2>2 DEF StepsFollow
<1>6. \A e \in Editors : Waiting(e) = {} BY <1>1 DEF Waiting, Doing
<1>7. RequestsFollow BY <1>1, <1>6 DEF RequestsFollow, Doing
<1>8. ListsHold BY <1>1, <1>6 DEF ListsHold
<1>9. ASSUME NEW s \in Steps, Exists(s), NEW d \in Deps[s] PROVE FirstInputs(s)[d] = 1 /\ current[d] = 1
  BY <1>1, <1>5, <1>9, DepsBefore DEF StepsFollow, Exists, FirstInputs
<1>10. LiveIsFresh
  <2> SUFFICES ASSUME NEW s \in Steps, NEW r \in live[s], Outdated(s, r) PROVE FALSE BY DEF LiveIsFresh
  <2>1. Exists(s) /\ r = [version |-> 1, inputs |-> FirstInputs(s), late |-> FALSE] /\ current[s] = 1
    BY <1>1, <1>5 DEF StepsInit, Exists
  <2> QED BY <1>9, <2>1 DEF Outdated
<1>11. NothingForgotten
  <2> SUFFICES ASSUME NEW t \in Steps, Exists(t) PROVE Settled(t) BY DEF NothingForgotten
  <2>1. Shown(t) = FirstRow(t) BY <1>1, <1>3 DEF Shown, Exists
  <2>2. \A e \in Editors : ~Computes(e, t) BY <1>1 DEF Computes, Doing
  <2> QED BY <1>9, <2>1, <2>2 DEF Settled, FirstRow, Row
<1> QED BY <1>4, <1>5, <1>7, <1>8, <1>10, <1>11 DEF StepsCore

\* At rest nobody owes anything and nothing is being computed.
LEMMA AtRestSettled == StepsCore => ComputedFromCurrent
<1> SUFFICES ASSUME StepsCore, AtRest, NEW s \in Steps \ broken, Exists(s)
             PROVE  /\ Shown(s).status # "pending"
                    /\ Shown(s).status = "ok" =>
                          \A d \in Deps[s] : Branch[d] = Branch[s] => Shown(s).from[d] = current[d]
  BY DEF ComputedFromCurrent
<1>1. \A e \in Editors : Waiting(e) = {} /\ ~Computes(e, s)
  BY DEF AtRest, StepsCore, RequestsFollow, Waiting, Computes, Doing
<1>2. Settled(s) BY <1>1 DEF StepsCore, NothingForgotten, Owes
<1> QED BY <1>1, <1>2 DEF Settled

-----------------------------------------------------------------------------
(* The invariant after a step, with what is downstream by the versions then *)

LEMMA RequestsNext ==
    ASSUME \A e \in Editors :
             /\ editor'[e].pc \in {"begun", "committed", "executing"} =>
                   editor'[e].step \in Steps /\ current'[editor'[e].step] # 0
             /\ editor'[e].pc \in {"begun", "executing"} => editor'[e].read \in 1..current'[editor'[e].step]
             /\ editor'[e].pc \in {"idle", "done"} \/ (editor'[e].pc = "begun" /\ editor'[e].step = editor'[e].first)
                   => editor'[e].todo = {} /\ editor'[e].unseen = {}
             /\ \A t \in Waiting(e)' : editor'[e].first \in Steps /\ t \in Down(current', editor'[e].first)
    PROVE  RequestsFollow'
BY DEF RequestsFollow, Exists, Downstream, Feeds, Down, Feed

LEMMA OwesNext ==
    ASSUME NEW e, NEW t, t \in Waiting(e)',
           Beaten(e)' => t \notin Down(current', editor'[e].step) \cup {editor'[e].step}
    PROVE  Owes(e, t)'
BY DEF Owes, Exists, Downstream, Feeds, Down, Feed

-----------------------------------------------------------------------------
(* A new version *)

\* What a request waits for, whatever becomes of the others.
LEMMA WaitingFacts ==
    ASSUME StepsCore, NEW e \in Editors, NEW t \in Waiting(e)
    PROVE  /\ t \in Steps /\ editor[e].first \in Steps /\ t \in Downstream(editor[e].first)
           /\ t # editor[e].first /\ Branch[t] = Branch[editor[e].first] /\ Exists(t)
<1>1. editor[e].first \in Steps /\ t \in Downstream(editor[e].first) BY DEF StepsCore, RequestsFollow
<1> QED BY <1>1, DownIs, DownBounds DEF Exists

\* What a request that re-runs a step has listed holds all that is downstream of it, but for
\* steps created since.
LEMMA ListedDownstream ==
    ASSUME StepsCore, NEW e \in Editors, NEW s \in Waiting(e)
    PROVE  Downstream(s) \subseteq editor[e].todo \cup editor[e].unseen
<1> DEFINE D == editor[e].todo \cup editor[e].unseen
<1>1. s \in Steps /\ D \in SUBSET Steps BY WaitingFacts DEF StepsCore, StepsTypeOK, Requests
<1>2. ASSUME NEW t \in Feed(current, s, D) PROVE t \in D
  <2>1. t \in Steps /\ Branch[t] = Branch[s] /\ Exists(t) BY DEF Feed, Exists
  <2>2. PICK d \in Deps[t] : d \in D \cup {s} BY DEF Feed
  <2>3. CASE d \in editor[e].todo \cup {s}
    <3>1. d \in Waiting(e) BY <2>3 DEF Waiting
    <3>2. Branch[d] = Branch[t] BY <2>1, <3>1, WaitingFacts
    <3> QED BY <2>1, <3>1, <3>2 DEF StepsCore, ListsHold
  <2>4. CASE d \in editor[e].unseen BY <2>1, <2>4 DEF StepsCore, ListsHold
  <2> QED BY <2>2, <2>3, <2>4
<1>3. Down(current, s) \subseteq D BY <1>1, <1>2, DownLeast
<1> QED BY <1>3, DownIs

\* One step gets one more row.
LEMMA RowAdded ==
    ASSUME StepsTypeOK, NEW s \in Steps, NEW row \in Rows,
           version' = [version EXCEPT ![s] = WithRow(s, current[s], row)],
           current' = [current EXCEPT ![s] = current[s] + 1]
    PROVE  /\ current' \in [Steps -> Nat] /\ current'[s] = current[s] + 1 /\ current'[s] # 0
           /\ \A t \in Steps \ {s} : current'[t] = current[t]
           /\ version' = [t \in Steps |-> [n \in 1..current'[t] |-> version'[t][n]]]
           /\ \A t \in Steps : \A n \in 1..current'[t] : version'[t][n] \in Rows
           /\ Shown(s)' = row /\ \A t \in Steps \ {s} : Shown(t)' = Shown(t)
<1>1. /\ current' \in [Steps -> Nat] /\ current'[s] = current[s] + 1 /\ current'[s] # 0 /\ current[s] \in Nat
      /\ \A t \in Steps \ {s} : current'[t] = current[t]
  BY DEF StepsTypeOK
<1> DEFINE w == WithRow(s, current[s], row)
<1>2. w = [i \in 1..(current[s] + 1) |-> IF i = current[s] + 1 THEN row ELSE version[s][i]] BY DEF WithRow
<1>3. version' = [version EXCEPT ![s] = w] OBVIOUS
<1> HIDE DEF w
<1>4. version = [t \in Steps |-> [n \in 1..current[t] |-> version[t][n]]] BY DEF StepsTypeOK
<1>5. /\ DOMAIN version' = Steps /\ version'[s] = w /\ \A t \in Steps \ {s} : version'[t] = version[t]
  <2>1. DOMAIN version = Steps BY <1>4
  <2>2. version' = [t \in Steps |-> IF t = s THEN w ELSE version[t]] BY <1>3, <2>1
  <2> QED BY <2>2
<1>6. ASSUME NEW t \in Steps PROVE version'[t] = [n \in 1..current'[t] |-> version'[t][n]]
  <2>1. CASE t = s BY <1>1, <1>2, <1>5, <2>1
  <2>2. CASE t # s
    <3>1. version[t] = [n \in 1..current[t] |-> version[t][n]] BY <1>4
    <3> QED BY <1>1, <1>5, <2>2, <3>1
  <2> QED BY <2>1, <2>2
<1>7. version' = [t \in Steps |-> [n \in 1..current'[t] |-> version'[t][n]]]
  <2> DEFINE v == version'
  <2>1. v = [t \in Steps |-> v[t]] BY <1>3, <1>4, <1>5
  <2> QED BY <1>6, <2>1
<1>8. ASSUME NEW t \in Steps, NEW n \in 1..current'[t] PROVE version'[t][n] \in Rows
  <2>1. \A i \in 1..current[t] : version[t][i] \in Rows BY DEF StepsTypeOK
  <2>2. CASE t = s
    <3>1. n \in 1..(current[s] + 1) /\ version'[t][n] = IF n = current[s] + 1 THEN row ELSE version[s][n]
      BY <1>1, <1>2, <1>5, <2>2
    <3>2. n # current[s] + 1 => n \in 1..current[s] BY <1>1, <3>1
    <3> QED BY <2>1, <2>2, <3>1, <3>2
  <2>3. CASE t # s BY <1>1, <1>5, <2>1, <2>3
  <2> QED BY <2>2, <2>3
<1>9. version'[s][current'[s]] = row BY <1>1, <1>2, <1>5
<1>10. \A t \in Steps \ {s} : Shown(t)' = Shown(t) BY <1>1, <1>5 DEF Shown
<1> QED BY <1>1, <1>7, <1>8, <1>9, <1>10 DEF Shown

\* NewVersion adds one version to one step and voids what depended on the one before.
LEMMA NewVersionFacts ==
    ASSUME StepsCore, NEW s \in Steps, Exists(s), NEW spec \in Editors \cup {Original},
           NewVersion(s, current[s], spec)
    PROVE  /\ current' \in [Steps -> Nat] /\ current'[s] = current[s] + 1
           /\ \A t \in Steps \ {s} : current'[t] = current[t]
           /\ \A t \in Steps : Exists(t)' <=> Exists(t)
           /\ status' \in [Steps -> {None, "pending", "ok", "failed"}]
           /\ version' = [t \in Steps |-> [n \in 1..current'[t] |-> version'[t][n]]]
           /\ \A t \in Steps : \A n \in 1..current'[t] : version'[t][n] \in Rows
           /\ Shown(s)'.status = "pending" /\ Shown(s)'.spec = spec
           /\ \A t \in Steps \ {s} : Shown(t)' = Shown(t)
<1> DEFINE row == Row(spec, "pending", NoInputs)
<1>1. row \in Rows /\ row.status = "pending" /\ row.spec = spec BY BlankFacts DEF Row, Rows
<1>2. /\ version' = [version EXCEPT ![s] = WithRow(s, current[s], row)]
      /\ current' = [current EXCEPT ![s] = current[s] + 1]
      /\ status' \in [Steps -> {None, "pending", "ok", "failed"}]
  BY DEF NewVersion, StepsCore, StepsTypeOK
<1> HIDE DEF row
<1>3. StepsTypeOK BY DEF StepsCore
<1> QED BY <1>1, <1>2, <1>3, RowAdded DEF Exists

\* The verdicts that stay live are those that were late.
LEMMA NewVersionVoids ==
    ASSUME StepsCore, NEW s \in Steps, Exists(s), NEW spec \in Editors \cup {Original},
           NewVersion(s, current[s], spec)
    PROVE  /\ live' \in [Steps -> SUBSET Verdicts] /\ \A t \in Steps : live'[t] \subseteq live[t]
           /\ LiveIsFresh' /\ StepsFollow'
<1>1. live' = [t \in Steps |-> {r \in live[t] : ~DependsOn(t, r, s, current[s] + 1)}] BY DEF NewVersion
<1>2. live \in [Steps -> SUBSET Verdicts] BY DEF StepsCore, StepsTypeOK
<1>3. live' \in [Steps -> SUBSET Verdicts] /\ \A t \in Steps : live'[t] \subseteq live[t] BY <1>1, <1>2
<1>4. /\ \A t \in Steps \ {s} : current'[t] = current[t]
      /\ current'[s] = current[s] + 1 /\ \A t \in Steps : Exists(t)' <=> Exists(t)
  BY NewVersionFacts
<1>5. LiveIsFresh'
  <2> SUFFICES ASSUME NEW t \in Steps, NEW r \in live'[t], Outdated(t, r)' PROVE r.late BY DEF LiveIsFresh
  <2>1. r \in live[t] /\ ~DependsOn(t, r, s, current[s] + 1) BY <1>1
  <2>2. Outdated(t, r)
    <3>1. CASE t = s
      <4>1. r.version = current[s] + 1 BY <2>1, <3>1 DEF DependsOn
      <4>2. r.version # current[s] BY <4>1 DEF StepsCore, StepsTypeOK
      <4> QED BY <3>1, <4>2 DEF Outdated
    <3>2. CASE t # s
      <4>1. r.version # current[t] \/ \E d \in Deps[t] : r.inputs[d] # current'[d] BY <1>4, <3>2 DEF Outdated
      <4>2. ASSUME NEW d \in Deps[t], r.inputs[d] # current'[d] PROVE r.inputs[d] # current[d]
        <5>1. d \in Steps /\ d # s BY <1>4, <2>1, <3>2, <4>2, DepsBefore DEF DependsOn
        <5> QED BY <1>4, <4>2, <5>1
      <4> QED BY <4>1, <4>2 DEF Outdated
    <3> QED BY <3>1, <3>2
  <2> QED BY <2>1, <2>2 DEF StepsCore, LiveIsFresh
<1>6. StepsFollow'
  <2>1. \A t \in Steps : \A d \in Deps[t] : d \in Steps BY DepsBefore
  <2>2. \A t \in Steps : Exists(t)' => \A d \in Deps[t] : Exists(d)' BY <1>4, <2>1 DEF StepsCore, StepsFollow
  <2>3. \A t \in Steps : ~Exists(t)' => live'[t] = {} BY <1>3, <1>4 DEF StepsCore, StepsFollow
  <2> QED BY <2>2, <2>3 DEF StepsFollow
<1> QED BY <1>3, <1>5, <1>6

\* The request that adds a version goes on with all that is downstream, but for what it has
\* not seen.
LEMMA BumpCore ==
    ASSUME StepsCore, NEW e \in Editors, NEW s \in Steps, Exists(s), NEW spec \in Editors \cup {Original},
           NewVersion(s, current[s], spec), deaths' = deaths,
           NEW new \in Requests, editor' = [editor EXCEPT ![e] = new],
           new.pc = "committed", new.step = s, \A t \in new.todo : new.first \in Steps /\ t \in Downstream(new.first),
           broken' = (broken \ {s}) \cup (new.unseen \cap Downstream(s)),
           editor[e].pc \in {"idle", "begun"}, Waiting(e) \subseteq new.todo \cup {s},
           Downstream(s) \subseteq new.todo \cup new.unseen,
           \A t \in Steps : Exists(t) =>
             /\ \A u \in Deps[t] : u \in new.todo /\ Branch[t] = Branch[u] => t \in new.todo \cup new.unseen
             /\ new.todo # {} /\ Deps[t] \cap new.unseen # {} => t \in new.unseen
    PROVE  StepsCore'
<1>1. /\ current \in [Steps -> Nat] /\ editor \in [Editors -> Requests] /\ broken \subseteq Steps
      /\ \A t \in Steps : current[t] \in Nat
  BY DEF StepsCore, StepsTypeOK
<1>2. /\ current' \in [Steps -> Nat] /\ current'[s] = current[s] + 1
      /\ \A t \in Steps \ {s} : current'[t] = current[t]
      /\ \A t \in Steps : Exists(t)' <=> Exists(t)
      /\ Shown(s)'.status = "pending" /\ \A t \in Steps \ {s} : Shown(t)' = Shown(t)
  BY NewVersionFacts
<1>3. editor' \in [Editors -> Requests] /\ editor'[e] = new /\ \A x \in Editors \ {e} : editor'[x] = editor[x] BY <1>1
<1>4. StepsTypeOK'
  <2>1. new.unseen \subseteq Steps BY DEF Requests
  <2>2. deaths' \in 0..MaxDeaths /\ broken' \subseteq Steps BY <1>1, <2>1 DEF StepsCore, StepsTypeOK
  <2>3. live' \in [Steps -> SUBSET Verdicts] /\ \A t \in Steps : \A r, q \in live'[t] : r = q
    BY NewVersionVoids DEF StepsCore, StepsTypeOK
  <2> QED BY <1>3, <2>2, <2>3, NewVersionFacts DEF StepsTypeOK
<1>5. StepsFollow' /\ LiveIsFresh' BY NewVersionVoids
<1>6. \A x \in Steps : Down(current', x) = Downstream(x)
  <2>1. \A t \in Steps : current[t] # 0 <=> current'[t] # 0 BY <1>2 DEF Exists
  <2>2. \A x \in Steps : Down(current, x) \subseteq Down(current', x) /\ Down(current', x) \subseteq Down(current, x)
    BY <2>1, DownGrows
  <2> QED BY <2>2, DownIs
<1>7. /\ Waiting(e)' = new.todo /\ ~Beaten(e)' /\ \A x \in Editors \ {e} : Waiting(x)' = Waiting(x)
  BY <1>3 DEF Waiting, Doing, Beaten
<1>8. RequestsFollow'
  <2> SUFFICES ASSUME NEW x \in Editors
               PROVE  /\ editor'[x].pc \in {"begun", "committed", "executing"} =>
                            editor'[x].step \in Steps /\ current'[editor'[x].step] # 0
                      /\ editor'[x].pc \in {"begun", "executing"} => editor'[x].read \in 1..current'[editor'[x].step]
                      /\ editor'[x].pc \in {"idle", "done"} \/ (editor'[x].pc = "begun" /\ editor'[x].step = editor'[x].first)
                            => editor'[x].todo = {} /\ editor'[x].unseen = {}
                      /\ \A t \in Waiting(x)' : editor'[x].first \in Steps /\ t \in Down(current', editor'[x].first)
    BY RequestsNext
  <2>1. CASE x = e BY <1>2, <1>3, <1>6, <1>7, <2>1 DEF Exists
  <2>2. CASE x # e
    <3>1. editor'[x] = editor[x] /\ Waiting(x)' = Waiting(x) BY <1>3, <1>7, <2>2
    <3>2. /\ editor[x].pc \in {"begun", "committed", "executing"} => editor[x].step \in Steps /\ Exists(editor[x].step)
          /\ editor[x].pc \in {"begun", "executing"} => editor[x].read \in 1..current[editor[x].step]
          /\ editor[x].pc \in {"idle", "done"} \/ (editor[x].pc = "begun" /\ editor[x].step = editor[x].first)
                => editor[x].todo = {} /\ editor[x].unseen = {}
          /\ \A t \in Waiting(x) : editor[x].first \in Steps /\ t \in Downstream(editor[x].first)
      BY DEF StepsCore, RequestsFollow
    <3>3. editor[x].pc \in {"begun", "executing"} => editor[x].read \in 1..current'[editor[x].step]
      <4> SUFFICES ASSUME editor[x].pc \in {"begun", "executing"} PROVE editor[x].read \in 1..current'[editor[x].step] OBVIOUS
      <4>1. editor[x].step \in Steps /\ editor[x].read \in 1..current[editor[x].step] BY <3>2
      <4>2. current'[editor[x].step] \in Nat /\ current[editor[x].step] \in Nat
            /\ current[editor[x].step] <= current'[editor[x].step]
        BY <1>1, <1>2, <4>1
      <4> QED BY <4>1, <4>2
    <3>4. \A t \in Waiting(x) : t \in Down(current', editor[x].first) BY <1>6, <3>2
    <3> QED BY <1>2, <3>1, <3>2, <3>3, <3>4 DEF Exists
  <2> QED BY <2>1, <2>2
<1>9. ListsHold'
  <2> SUFFICES ASSUME NEW x \in Editors, NEW t \in Steps, Exists(t)
               PROVE  /\ \A u \in Deps[t] : u \in Waiting(x)' /\ Branch[t] = Branch[u]
                                               => t \in editor'[x].todo \cup editor'[x].unseen
                      /\ Waiting(x)' # {} /\ Deps[t] \cap editor'[x].unseen # {} => t \in editor'[x].unseen
    BY <1>2 DEF ListsHold
  <2>1. CASE x = e BY <1>3, <1>7, <2>1
  <2>2. CASE x # e BY <1>3, <1>7, <2>2 DEF StepsCore, ListsHold
  <2> QED BY <2>1, <2>2
<1>10. NothingForgotten'
  <2> SUFFICES ASSUME NEW t \in Steps, t \notin broken', Exists(t)
               PROVE  Settled(t)' \/ \E x \in Editors : Owes(x, t)'
    BY <1>2 DEF NothingForgotten
  <2>1. CASE t = s
    <3>1. Computes(e, s)' BY <1>3 DEF Computes, Doing
    <3>2. ASSUME NEW x \in Editors, Computes(x, s)', Doing(x, "executing")' PROVE FALSE
      <4>1. x # e /\ editor[x].pc = "executing" /\ editor[x].step = s /\ editor[x].read = current[s] + 1
        BY <1>2, <1>3, <3>2 DEF Computes, Doing
      <4>2. editor[x].read \in 1..current[s] BY <4>1 DEF StepsCore, RequestsFollow
      <4> QED BY <1>1, <4>1, <4>2
    <3>3. Settled(s)' BY <1>2, <3>1, <3>2 DEF Settled
    <3> QED BY <2>1, <3>3
  <2>2. CASE t # s /\ t \in Downstream(s)
    <3>1. t \in new.todo BY <2>2
    <3> QED BY <1>7, <3>1 DEF Owes
  <2>3. CASE t # s /\ t \notin Downstream(s)
    <3>1. t \notin broken BY <2>3
    <3>2. CASE Settled(t)
      <4>1. \A x \in Editors : Computes(x, t)' <=> Computes(x, t)
        BY <1>2, <1>3, <2>3 DEF Computes, Doing, StepsCore, RequestsFollow
      <4>2. ASSUME NEW x \in Editors, Computes(x, t) PROVE x # e BY <4>2, <1>1 DEF Computes, Doing
      <4>3. ASSUME NEW d \in Deps[t], Branch[d] = Branch[t] PROVE current'[d] = current[d]
        <5>1. d # s BY <2>3, <4>3, DownIs, DownDirect DEF Exists
        <5> QED BY <1>2, <5>1, DepsBefore
      <4>4. Shown(t)' = Shown(t) BY <1>2, <2>3
      <4>5. Shown(t).status = "pending" => \E x \in Editors : Computes(x, t)' BY <3>2, <4>1 DEF Settled
      <4>6. ASSUME NEW d \in Deps[t], Branch[d] = Branch[t]
            PROVE  /\ Shown(t).status = "ok" => Shown(t).from[d] = current'[d]
                   /\ \A x \in Editors : Computes(x, t)' /\ Doing(x, "executing")' => editor'[x].from[d] = current'[d]
        BY <1>3, <3>2, <4>1, <4>2, <4>3, <4>6 DEF Settled, Doing
      <4>7. Settled(t)' BY <4>4, <4>5, <4>6 DEF Settled
      <4> QED BY <4>7
    <3>3. ASSUME NEW x \in Editors, Owes(x, t) PROVE \E y \in Editors : Owes(y, t)'
      <4>1. CASE x = e BY <1>7, <2>3, <3>3, <4>1 DEF Owes
      <4>2. CASE x # e
        <5>1. t \in Waiting(x)' BY <1>7, <3>3, <4>2 DEF Owes
        <5>2. ASSUME Beaten(x)', t \in Down(current', editor'[x].step) \cup {editor'[x].step} PROVE FALSE
          <6>1. editor'[x] = editor[x] /\ editor[x].pc = "begun" BY <1>3, <4>2, <5>2 DEF Beaten, Doing
          <6>2. editor[x].step \in Steps BY <6>1 DEF StepsCore, RequestsFollow
          <6>3. t \in Downstream(editor[x].step) \cup {editor[x].step} BY <1>6, <5>2, <6>1, <6>2
          <6>4. editor[x].step # s BY <2>3, <6>3
          <6>5. Beaten(x) BY <1>2, <5>2, <6>1, <6>2, <6>4 DEF Beaten, Doing
          <6> QED BY <3>3, <6>3, <6>5 DEF Owes
        <5> QED BY <5>1, <5>2, OwesNext
      <4> QED BY <4>1, <4>2
    <3> QED BY <3>1, <3>2, <3>3 DEF StepsCore, NothingForgotten
  <2> QED BY <2>1, <2>2, <2>3
<1> QED BY <1>4, <1>5, <1>8, <1>9, <1>10 DEF StepsCore

LEMMA EditCore ==
    ASSUME StepsCore, NEW e \in Editors, NEW s \in Steps, Edit(e, s)
    PROVE  StepsCore'
<1> DEFINE new == [Blank EXCEPT !.pc = "committed", !.step = s, !.first = s, !.todo = Downstream(s)]
<1>1. /\ new \in Requests /\ new.pc = "committed" /\ new.step = s /\ new.first = s
      /\ new.todo = Downstream(s) /\ new.unseen = {}
  BY StepsAssumption, BlankFacts DEF StepsAssumption, Downstream, Requests
<1>2. editor' = [editor EXCEPT ![e] = new] BY DEF Edit, Starts, Goes
<1> HIDE DEF new
<1>3. Exists(s) /\ NewVersion(s, current[s], e) /\ deaths' = deaths /\ broken' = broken \ {s} /\ editor[e].pc = "idle"
  BY DEF Edit, Doing
<1>4. Waiting(e) = {} BY <1>3 DEF Waiting, Doing, StepsCore, RequestsFollow
<1>5. ASSUME NEW t \in Steps, Exists(t), NEW u \in Deps[t], u \in Downstream(s), Branch[t] = Branch[u]
      PROVE t \in Downstream(s)
  <2>1. u \in Down(current, s) /\ Branch[u] = Branch[s] BY <1>5, DownIs, DownBounds
  <2> QED BY <1>5, <2>1, DownIs, DownDirect DEF Exists
<1>6. \A t \in Steps : Exists(t) =>
        /\ \A u \in Deps[t] : u \in new.todo /\ Branch[t] = Branch[u] => t \in new.todo \cup new.unseen
        /\ new.todo # {} /\ Deps[t] \cap new.unseen # {} => t \in new.unseen
  BY <1>1, <1>5
<1>7. broken' = (broken \ {s}) \cup (new.unseen \cap Downstream(s)) BY <1>1, <1>3
<1>8. Downstream(s) \subseteq new.todo \cup new.unseen /\ Waiting(e) \subseteq new.todo \cup {s} BY <1>1, <1>4
<1>9. \A t \in new.todo : new.first \in Steps /\ t \in Downstream(new.first) BY <1>1
<1> QED BY <1>1, <1>2, <1>3, <1>6, <1>7, <1>8, <1>9, BumpCore

\* A version is added by whoever read the newest one, and copies its spec.
LEMMA CommitFacts ==
    ASSUME StepsCore, NEW e \in Editors, CommitVersion(e)
    PROVE  LET s == editor[e].step
           IN  /\ s \in Steps /\ Exists(s) /\ editor[e].read = current[s]
               /\ Shown(s).spec \in Editors \cup {Original} /\ NewVersion(s, current[s], Shown(s).spec)
<1> DEFINE s == editor[e].step
           n == editor[e].read
<1>1. Doing(e, "begun") /\ ~Conflicts(s, n) /\ NewVersion(s, n, version[s][n].spec) BY DEF CommitVersion
<1>2. s \in Steps /\ Exists(s) /\ n \in 1..current[s] BY <1>1 DEF Doing, StepsCore, RequestsFollow
<1>3. current[s] \in Nat BY <1>2 DEF StepsCore, StepsTypeOK
<1>4. DOMAIN version[s] = 1..current[s]
  <2>1. version = [t \in Steps |-> [i \in 1..current[t] |-> version[t][i]]] BY DEF StepsCore, StepsTypeOK
  <2>2. version[s] = [i \in 1..current[s] |-> version[s][i]] BY <1>2, <2>1
  <2> QED BY <2>2
<1>5. n = current[s] BY <1>1, <1>2, <1>3, <1>4 DEF Conflicts
<1>6. version[s][n] \in Rows BY <1>2 DEF StepsCore, StepsTypeOK
<1>7. Shown(s).spec \in Editors \cup {Original} BY <1>5, <1>6 DEF Shown, Rows
<1>8. NewVersion(s, current[s], Shown(s).spec) BY <1>1, <1>5 DEF Shown
<1> QED BY <1>2, <1>5, <1>7, <1>8

LEMMA CommitVersionCore ==
    ASSUME StepsCore, NEW e \in Editors, CommitVersion(e)
    PROVE  StepsCore'
<1> DEFINE s == editor[e].step
           new == [editor[e] EXCEPT !.pc = "committed", !.todo = Rest(e, s)]
<1>1. editor[e] \in Requests BY DEF StepsCore, StepsTypeOK
<1>2. Rest(e, s) \subseteq Steps BY <1>1 DEF Rest, Downstream, Requests
<1>3. /\ new \in Requests /\ new.pc = "committed" /\ new.step = s /\ new.first = editor[e].first
      /\ new.todo = Rest(e, s) /\ new.unseen = editor[e].unseen
  BY <1>1, <1>2 DEF Requests
<1>4. editor' = [editor EXCEPT ![e] = new] /\ deaths' = deaths /\ editor[e].pc = "begun"
      /\ broken' = (broken \ {s}) \cup (editor[e].unseen \cap Downstream(s))
  BY DEF CommitVersion, Goes, Doing
<1> HIDE DEF new
<1>5. s \in Steps /\ Exists(s) /\ Shown(s).spec \in Editors \cup {Original} /\ NewVersion(s, current[s], Shown(s).spec)
  BY CommitFacts
<1>6. CASE s = editor[e].first
  <2>1. editor[e].todo = {} /\ editor[e].unseen = {} /\ Rest(e, s) = Downstream(s)
    BY <1>4, <1>6 DEF Rest, StepsCore, RequestsFollow
  <2>2. Waiting(e) = {} BY <1>6, <2>1 DEF Waiting
  <2>3. ASSUME NEW t \in Steps, Exists(t), NEW u \in Deps[t], u \in Downstream(s), Branch[t] = Branch[u]
        PROVE t \in Downstream(s)
    <3>1. u \in Down(current, s) /\ Branch[u] = Branch[s] BY <1>5, <2>3, DownIs, DownBounds
    <3> QED BY <2>3, <3>1, DownIs, DownDirect DEF Exists
  <2>4. new.todo = Downstream(s) /\ new.unseen = {} BY <1>3, <2>1
  <2>5. \A t \in new.todo : new.first \in Steps /\ t \in Downstream(new.first) BY <1>3, <1>5, <1>6, <2>4
  <2>6. broken' = (broken \ {s}) \cup (new.unseen \cap Downstream(s)) BY <1>3, <1>4
  <2>7. Waiting(e) \subseteq new.todo \cup {s} /\ Downstream(s) \subseteq new.todo \cup new.unseen BY <2>2, <2>4
  <2>8. \A t \in Steps : Exists(t) =>
          /\ \A u \in Deps[t] : u \in new.todo /\ Branch[t] = Branch[u] => t \in new.todo \cup new.unseen
          /\ new.todo # {} /\ Deps[t] \cap new.unseen # {} => t \in new.unseen
    BY <2>3, <2>4
  <2> QED BY <1>3, <1>4, <1>5, <2>5, <2>6, <2>7, <2>8, BumpCore
<1>7. CASE s # editor[e].first
  <2>1. Rest(e, s) = editor[e].todo /\ Waiting(e) = editor[e].todo \cup {s} BY <1>4, <1>7 DEF Rest, Waiting, Doing
  <2>2. Downstream(s) \subseteq editor[e].todo \cup editor[e].unseen BY <2>1, ListedDownstream
  <2>3. \A t \in editor[e].todo : editor[e].first \in Steps /\ t \in Downstream(editor[e].first)
    BY <2>1, WaitingFacts
  <2>4. ASSUME NEW t \in Steps, Exists(t)
        PROVE  /\ \A u \in Deps[t] : u \in editor[e].todo /\ Branch[t] = Branch[u] => t \in editor[e].todo \cup editor[e].unseen
               /\ Deps[t] \cap editor[e].unseen # {} => t \in editor[e].unseen
    BY <2>1, <2>4 DEF StepsCore, ListsHold
  <2> QED BY <1>3, <1>4, <1>5, <2>1, <2>2, <2>3, <2>4, BumpCore
<1> QED BY <1>6, <1>7

-----------------------------------------------------------------------------
(* Requests that only read, or end *)

\* A step of one request that writes no row: what it owed or computed and no longer does
\* is broken.
LEMMA MovesCore ==
    ASSUME StepsCore, UNCHANGED rows, deaths' \in 0..MaxDeaths, broken \subseteq broken', broken' \subseteq Steps,
           NEW e \in Editors, NEW new \in Requests, editor' = [editor EXCEPT ![e] = new],
           new.pc \in {"begun", "done"},
           new.pc = "begun" => new.step \in Steps /\ Exists(new.step) /\ new.read = current[new.step],
           new.pc = "done" \/ new.step = new.first => new.todo = {} /\ new.unseen = {},
           \A t \in Waiting(e)' : new.first \in Steps /\ t \in Downstream(new.first),
           \A t \in Steps : Exists(t) =>
             /\ \A u \in Deps[t] : u \in Waiting(e)' /\ Branch[t] = Branch[u] => t \in new.todo \cup new.unseen
             /\ Waiting(e)' # {} /\ Deps[t] \cap new.unseen # {} => t \in new.unseen,
           \A t \in Steps \ broken' : ~Computes(e, t) /\ (Owes(e, t) => t \in Waiting(e)')
    PROVE  StepsCore'
<1>1. current' = current /\ status' = status /\ version' = version /\ live' = live BY DEF rows
<1>2. editor' \in [Editors -> Requests] /\ editor'[e] = new /\ \A x \in Editors \ {e} : editor'[x] = editor[x]
  BY DEF StepsCore, StepsTypeOK
<1>3. StepsTypeOK' BY <1>1, <1>2 DEF StepsCore, StepsTypeOK
<1>4. StepsFollow' /\ LiveIsFresh' BY <1>1 DEF StepsCore, StepsFollow, Exists, LiveIsFresh, Outdated
<1>5. /\ \A x \in Editors \ {e} : Waiting(x)' = Waiting(x) /\ (Beaten(x)' <=> Beaten(x))
      /\ \A x \in Editors \ {e} : \A t \in Steps : Computes(x, t)' <=> Computes(x, t)
      /\ \A t \in Steps : (Exists(t)' <=> Exists(t)) /\ Shown(t)' = Shown(t)
      /\ \A s : Down(current', s) = Downstream(s)
  BY <1>1, <1>2, DownIs DEF Waiting, Beaten, Doing, Computes, Exists, Shown
<1>6. RequestsFollow'
  <2> SUFFICES ASSUME NEW x \in Editors
               PROVE  /\ editor'[x].pc \in {"begun", "committed", "executing"} =>
                            editor'[x].step \in Steps /\ current'[editor'[x].step] # 0
                      /\ editor'[x].pc \in {"begun", "executing"} => editor'[x].read \in 1..current'[editor'[x].step]
                      /\ editor'[x].pc \in {"idle", "done"} \/ (editor'[x].pc = "begun" /\ editor'[x].step = editor'[x].first)
                            => editor'[x].todo = {} /\ editor'[x].unseen = {}
                      /\ \A t \in Waiting(x)' : editor'[x].first \in Steps /\ t \in Down(current', editor'[x].first)
    BY RequestsNext
  <2>1. CASE x = e
    <3>1. new.pc = "begun" => new.read \in 1..current[new.step] BY DEF StepsCore, StepsTypeOK, Exists
    <3> QED BY <1>1, <1>2, <1>5, <2>1, <3>1 DEF Exists
  <2>2. CASE x # e BY <1>1, <1>2, <1>5, <2>2 DEF StepsCore, RequestsFollow, Exists
  <2> QED BY <2>1, <2>2
<1>7. ListsHold'
  <2> SUFFICES ASSUME NEW x \in Editors, NEW t \in Steps, Exists(t)
               PROVE  /\ \A u \in Deps[t] : u \in Waiting(x)' /\ Branch[t] = Branch[u]
                                               => t \in editor'[x].todo \cup editor'[x].unseen
                      /\ Waiting(x)' # {} /\ Deps[t] \cap editor'[x].unseen # {} => t \in editor'[x].unseen
    BY <1>5 DEF ListsHold
  <2>1. CASE x = e BY <1>2, <2>1
  <2>2. CASE x # e BY <1>2, <1>5, <2>2 DEF StepsCore, ListsHold
  <2> QED BY <2>1, <2>2
<1>8. NothingForgotten'
  <2> SUFFICES ASSUME NEW t \in Steps, t \notin broken', Exists(t)
               PROVE  Settled(t)' \/ \E x \in Editors : Owes(x, t)'
    BY <1>5 DEF NothingForgotten
  <2>1. ~Computes(e, t) /\ ~(Computes(e, t)' /\ Doing(e, "executing")') /\ t \notin broken
    BY <1>2 DEF Computes, Doing
  <2>2. CASE Settled(t)
    <3>1. Shown(t).status = "pending" => \E x \in Editors : Computes(x, t)' BY <1>5, <2>1, <2>2 DEF Settled
    <3>2. ASSUME NEW d \in Deps[t], Branch[d] = Branch[t]
          PROVE  /\ Shown(t).status = "ok" => Shown(t).from[d] = current'[d]
                 /\ \A x \in Editors : Computes(x, t)' /\ Doing(x, "executing")' => editor'[x].from[d] = current'[d]
      BY <1>1, <1>2, <1>5, <2>1, <2>2, <3>2 DEF Settled, Doing
    <3>3. Settled(t)' BY <1>5, <3>1, <3>2 DEF Settled
    <3> QED BY <3>3
  <2>3. ASSUME NEW x \in Editors, Owes(x, t) PROVE Owes(x, t)'
    <3>1. CASE x = e
      <4>1. t \in Waiting(e)' BY <2>3, <3>1
      <4>2. ~Beaten(e)' BY <1>1, <1>2, <4>1 DEF Beaten, Doing
      <4> QED BY <3>1, <4>1, <4>2, OwesNext
    <3>2. CASE x # e
      <4>1. t \in Waiting(x)' BY <1>5, <2>3, <3>2 DEF Owes
      <4>2. Beaten(x)' => t \notin Down(current', editor'[x].step) \cup {editor'[x].step}
        BY <1>2, <1>5, <2>3, <3>2 DEF Owes
      <4> QED BY <4>1, <4>2, OwesNext
    <3> QED BY <3>1, <3>2
  <2> QED BY <2>1, <2>2, <2>3 DEF StepsCore, NothingForgotten
<1> QED BY <1>3, <1>4, <1>6, <1>7, <1>8 DEF StepsCore

LEMMA BeginRerunCore ==
    ASSUME StepsCore, NEW e \in Editors, NEW s \in Steps, BeginRerun(e, s)
    PROVE  StepsCore'
<1> DEFINE new == [Blank EXCEPT !.pc = "begun", !.step = s, !.first = s, !.read = current[s]]
<1>1. current[s] \in Nat /\ s \in Nat BY DepsBefore DEF StepsCore, StepsTypeOK
<1>2. /\ new \in Requests /\ new.pc = "begun" /\ new.step = s /\ new.first = s /\ new.read = current[s]
      /\ new.todo = {} /\ new.unseen = {}
  BY <1>1, BlankFacts DEF Requests
<1>3. editor' = [editor EXCEPT ![e] = new] /\ UNCHANGED <<rows, deaths, broken>> /\ Exists(s) /\ editor[e].pc = "idle"
  BY DEF BeginRerun, Goes, Doing
<1> HIDE DEF new
<1>4. editor'[e] = new BY <1>3 DEF StepsCore, StepsTypeOK
<1>5. Waiting(e)' = {} BY <1>2, <1>4 DEF Waiting
<1>6. \A t \in Steps : ~Computes(e, t) /\ ~Owes(e, t)
  BY <1>3 DEF Computes, Owes, Waiting, Doing, StepsCore, RequestsFollow
<1>7. deaths' \in 0..MaxDeaths /\ broken \subseteq broken' /\ broken' \subseteq Steps BY <1>3 DEF StepsCore, StepsTypeOK
<1> QED BY <1>2, <1>3, <1>5, <1>6, <1>7, MovesCore

LEMMA BeginNextCore ==
    ASSUME StepsCore, NEW e \in Editors, NEW s \in Steps, BeginNext(e, s)
    PROVE  StepsCore'
<1> DEFINE new == [editor[e] EXCEPT !.pc = "begun", !.step = s, !.todo = @ \ {s}, !.read = current[s]]
<1>1. current[s] \in Nat /\ s \in Nat /\ editor[e] \in Requests BY DepsBefore DEF StepsCore, StepsTypeOK
<1>2. /\ new \in Requests /\ new.pc = "begun" /\ new.step = s /\ new.first = editor[e].first /\ new.read = current[s]
      /\ new.todo = editor[e].todo \ {s} /\ new.unseen = editor[e].unseen
  BY <1>1 DEF Requests
<1>3. /\ editor' = [editor EXCEPT ![e] = new] /\ UNCHANGED <<rows, deaths, broken>> /\ editor[e].pc = "next"
      /\ s \in editor[e].todo /\ Deps[s] \cap editor[e].todo = {}
  BY DEF BeginNext, Goes, Doing
<1> HIDE DEF new
<1>4. editor'[e] = new BY <1>3 DEF StepsCore, StepsTypeOK
<1>5. Waiting(e) = editor[e].todo BY <1>3 DEF Waiting, Doing
<1>6. s # editor[e].first /\ Exists(s) /\ editor[e].first \in Steps BY <1>3, <1>5, WaitingFacts
<1>7. Waiting(e)' = Waiting(e) BY <1>2, <1>3, <1>4, <1>5, <1>6 DEF Waiting, Doing
<1>8. \A t \in Waiting(e) : new.first \in Steps /\ t \in Downstream(new.first) BY <1>2, WaitingFacts
<1>9. ASSUME NEW t \in Steps, Exists(t)
      PROVE  /\ \A u \in Deps[t] : u \in Waiting(e) /\ Branch[t] = Branch[u] => t \in new.todo \cup new.unseen
             /\ Waiting(e) # {} /\ Deps[t] \cap new.unseen # {} => t \in new.unseen
  BY <1>2, <1>3, <1>5, <1>9 DEF StepsCore, ListsHold
<1>10. \A t \in Steps : ~Computes(e, t) /\ (Owes(e, t) => t \in Waiting(e)) BY <1>3 DEF Computes, Doing, Owes
<1>11. deaths' \in 0..MaxDeaths /\ broken \subseteq broken' /\ broken' \subseteq Steps BY <1>3 DEF StepsCore, StepsTypeOK
<1>12. \A t \in Waiting(e)' : new.first \in Steps /\ t \in Downstream(new.first) BY <1>7, <1>8
<1>13. \A t \in Steps : Exists(t) =>
         /\ \A u \in Deps[t] : u \in Waiting(e)' /\ Branch[t] = Branch[u] => t \in new.todo \cup new.unseen
         /\ Waiting(e)' # {} /\ Deps[t] \cap new.unseen # {} => t \in new.unseen
  BY <1>7, <1>9
<1>14. \A t \in Steps \ broken' : ~Computes(e, t) /\ (Owes(e, t) => t \in Waiting(e)') BY <1>7, <1>10
<1>15. new.pc = "done" \/ new.step = new.first => new.todo = {} /\ new.unseen = {} BY <1>2, <1>6
<1> QED BY <1>2, <1>3, <1>6, <1>11, <1>12, <1>13, <1>14, <1>15, MovesCore

\* A request that ends leaves as broken what nobody else makes up for.
LEMMA EndsCore ==
    ASSUME StepsCore, NEW e \in Editors, Goes(e, Over), UNCHANGED rows, deaths' \in 0..MaxDeaths,
           broken \subseteq broken', broken' \subseteq Steps,
           \A t \in Steps \ broken' : ~Computes(e, t) /\ ~Owes(e, t)
    PROVE  StepsCore'
<1>1. editor' = [editor EXCEPT ![e] = Over] /\ editor'[e] = Over BY DEF Goes, StepsCore, StepsTypeOK
<1>2. Waiting(e)' = {} BY <1>1, BlankFacts DEF Waiting, Doing
<1> QED BY <1>1, <1>2, BlankFacts, MovesCore

\* The other request added the version: it re-runs what is downstream.
LEMMA CommitFailsCore ==
    ASSUME StepsCore, NEW e \in Editors, CommitFails(e)
    PROVE  StepsCore'
<1> DEFINE s == editor[e].step
<1>1. /\ Doing(e, "begun") /\ Conflicts(s, editor[e].read) /\ Goes(e, Over) /\ UNCHANGED rows /\ deaths' = deaths
      /\ broken' = broken \cup (editor[e].todo \ Downstream(s))
  BY DEF CommitFails
<1>2. s \in Steps /\ editor[e].read \in 1..current[s] /\ current[s] \in Nat
  BY <1>1 DEF Doing, StepsCore, RequestsFollow, StepsTypeOK
<1>3. Beaten(e)
  <2>1. version = [t \in Steps |-> [i \in 1..current[t] |-> version[t][i]]] BY DEF StepsCore, StepsTypeOK
  <2>2. version[s] = [i \in 1..current[s] |-> version[s][i]] BY <1>2, <2>1
  <2>3. DOMAIN version[s] = 1..current[s] BY <2>2
  <2>4. editor[e].read + 1 \in 1..current[s] BY <1>1, <2>3 DEF Conflicts
  <2>5. editor[e].read # current[s] BY <1>2, <2>4
  <2> QED BY <1>1, <2>5 DEF Beaten
<1>4. \A t \in Steps \ broken' : ~Computes(e, t) /\ ~Owes(e, t)
  BY <1>1, <1>3 DEF Computes, Doing, Owes, Waiting
<1>5. deaths' \in 0..MaxDeaths /\ broken \subseteq broken' /\ broken' \subseteq Steps
  BY <1>1 DEF StepsCore, StepsTypeOK, Requests
<1> QED BY <1>1, <1>4, <1>5, EndsCore

LEMMA RequestDiesCore ==
    ASSUME StepsCore, NEW e \in Editors, RequestDies(e)
    PROVE  StepsCore'
<1>1. /\ Goes(e, Over) /\ UNCHANGED rows /\ deaths < MaxDeaths /\ deaths' = deaths + 1 /\ broken' = broken \cup Left(e)
  BY DEF RequestDies
<1>2. \A t \in Steps \ broken' : ~Computes(e, t) /\ ~Owes(e, t) BY <1>1 DEF Computes, Owes, Left
<1>3. deaths' \in 0..MaxDeaths BY <1>1, StepsAssumption DEF StepsCore, StepsTypeOK, StepsAssumption
<1>4. Left(e) \subseteq Steps BY WaitingFacts DEF Left, Doing, StepsCore, RequestsFollow
<1>5. broken \subseteq broken' /\ broken' \subseteq Steps BY <1>1, <1>4 DEF StepsCore, StepsTypeOK
<1> QED BY <1>1, <1>2, <1>3, <1>5, EndsCore

-----------------------------------------------------------------------------
(* A new step *)

LEMMA CreateCore ==
    ASSUME StepsCore, NEW e \in Editors, NEW s \in Steps, Create(e, s)
    PROVE  StepsCore'
<1> DEFINE row == Row(e, "pending", NoInputs)
           new == [Blank EXCEPT !.pc = "committed", !.step = s, !.first = s]
           seen(x) == [editor[x] EXCEPT !.unseen = @ \cup {s}]
<1>1. row \in Rows /\ row.status = "pending" BY BlankFacts DEF Row, Rows
<1>2. /\ new \in Requests /\ new.pc = "committed" /\ new.step = s /\ new.todo = {}
  BY DepsBefore, BlankFacts DEF Requests
<1>3. ASSUME NEW x \in Editors
      PROVE  /\ editor[x] \in Requests /\ seen(x) \in Requests /\ seen(x).pc = editor[x].pc /\ seen(x).step = editor[x].step
             /\ seen(x).first = editor[x].first /\ seen(x).todo = editor[x].todo /\ seen(x).read = editor[x].read
             /\ seen(x).from = editor[x].from /\ seen(x).unseen = editor[x].unseen \cup {s}
  <2>1. editor[x] \in Requests BY DEF StepsCore, StepsTypeOK
  <2> QED BY <2>1 DEF Requests
<1>4. /\ editor[e].pc = "idle" /\ current[s] = 0 /\ \A d \in Deps[s] : Exists(d)
      /\ version' = [version EXCEPT ![s] = WithRow(s, 0, row)]
      /\ current' = [current EXCEPT ![s] = 1]
      /\ status' = [status EXCEPT ![s] = "pending"] /\ UNCHANGED <<live, deaths, broken>>
  BY DEF Create, Doing, Exists
<1>16. version' = [version EXCEPT ![s] = WithRow(s, current[s], row)] BY <1>4
<1>17. current' = [current EXCEPT ![s] = current[s] + 1] BY <1>4
<1>18. editor' = [x \in Editors |-> IF x = e THEN new ELSE IF Waiting(x) # {} THEN seen(x) ELSE editor[x]]
  BY DEF Create
<1>19. StepsTypeOK BY DEF StepsCore
<1> HIDE DEF row, new, seen
<1>5. /\ current' \in [Steps -> Nat] /\ current'[s] = 1 /\ \A t \in Steps \ {s} : current'[t] = current[t]
      /\ version' = [t \in Steps |-> [n \in 1..current'[t] |-> version'[t][n]]]
      /\ \A t \in Steps : \A n \in 1..current'[t] : version'[t][n] \in Rows
      /\ Shown(s)' = row /\ \A t \in Steps \ {s} : Shown(t)' = Shown(t)
  <2>1. current[s] + 1 = 1 BY <1>4
  <2> QED BY <1>1, <1>16, <1>17, <1>19, <2>1, RowAdded
<1>6. /\ editor' \in [Editors -> Requests] /\ editor'[e] = new
      /\ \A x \in Editors \ {e} : editor'[x] = IF Waiting(x) # {} THEN seen(x) ELSE editor[x]
  BY <1>2, <1>3, <1>18
<1>7. /\ \A t \in Steps : current'[t] # 0 <=> current[t] # 0 \/ t = s
      /\ \A t \in Steps : current'[t] # 0 => s \notin Deps[t]
  <2>1. \A t \in Steps : current'[t] # 0 <=> current[t] # 0 \/ t = s BY <1>5
  <2>2. s \notin Deps[s] BY DepsBefore
  <2>3. \A t \in Steps : current[t] # 0 => s \notin Deps[t] BY <1>4 DEF StepsCore, StepsFollow, Exists
  <2> QED BY <2>1, <2>2, <2>3
<1>8. \A z : Downstream(z) \subseteq Down(current', z) /\ Down(current', z) \subseteq Downstream(z) \cup {s}
  <2>1. \A z : Down(current, z) \subseteq Down(current', z) BY <1>7, DownGrows
  <2>2. \A z : Down(current', z) \subseteq Down(current, z) \cup {s} BY <1>7, DownNew
  <2> QED BY <2>1, <2>2, DownIs
<1>9. Waiting(e)' = {} /\ \A x \in Editors \ {e} : Waiting(x)' = Waiting(x)
  BY <1>2, <1>3, <1>6 DEF Waiting, Doing
<1>10. StepsTypeOK'
  <2>1. live' \in [Steps -> SUBSET Verdicts] /\ \A t \in Steps : \A r, q \in live'[t] : r = q
    BY <1>4, <1>19 DEF StepsTypeOK
  <2>2. deaths' \in 0..MaxDeaths /\ broken' \subseteq Steps BY <1>4, <1>19 DEF StepsTypeOK
  <2>3. status' \in [Steps -> {None, "pending", "ok", "failed"}] BY <1>4, <1>19 DEF StepsTypeOK
  <2> QED BY <1>5, <1>6, <2>1, <2>2, <2>3 DEF StepsTypeOK
<1>11. StepsFollow'
  <2>1. ASSUME NEW t \in Steps, current'[t] # 0, NEW d \in Deps[t] PROVE current'[d] # 0
    <3>1. d \in Steps /\ current[d] # 0 BY <1>4, <1>7, <2>1, DepsBefore DEF StepsCore, StepsFollow, Exists
    <3> QED BY <1>7, <3>1
  <2>2. \A t \in Steps : current'[t] = 0 => live'[t] = {} BY <1>4, <1>7 DEF StepsCore, StepsFollow, Exists
  <2> QED BY <2>1, <2>2 DEF StepsFollow, Exists
<1>12. LiveIsFresh'
  <2> SUFFICES ASSUME NEW t \in Steps, NEW r \in live'[t], Outdated(t, r)' PROVE r.late BY DEF LiveIsFresh
  <2>1. r \in live[t] /\ Exists(t) /\ t # s BY <1>4 DEF StepsCore, StepsFollow, Exists
  <2>2. \A d \in Deps[t] : d \in Steps /\ d # s BY <1>7, <2>1, DepsBefore DEF Exists
  <2>3. Outdated(t, r) BY <1>5, <2>1, <2>2 DEF Outdated
  <2> QED BY <2>1, <2>3 DEF StepsCore, LiveIsFresh
<1>13. RequestsFollow'
  <2> SUFFICES ASSUME NEW x \in Editors
               PROVE  /\ editor'[x].pc \in {"begun", "committed", "executing"} =>
                            editor'[x].step \in Steps /\ current'[editor'[x].step] # 0
                      /\ editor'[x].pc \in {"begun", "executing"} => editor'[x].read \in 1..current'[editor'[x].step]
                      /\ editor'[x].pc \in {"idle", "done"} \/ (editor'[x].pc = "begun" /\ editor'[x].step = editor'[x].first)
                            => editor'[x].todo = {} /\ editor'[x].unseen = {}
                      /\ \A t \in Waiting(x)' : editor'[x].first \in Steps /\ t \in Down(current', editor'[x].first)
    BY RequestsNext
  <2>1. CASE x = e BY <1>2, <1>6, <1>7, <1>9, <2>1
  <2>2. CASE x # e
    <3>1. /\ editor'[x].pc = editor[x].pc /\ editor'[x].step = editor[x].step /\ editor'[x].first = editor[x].first
          /\ editor'[x].todo = editor[x].todo /\ editor'[x].read = editor[x].read
          /\ Waiting(x) = {} => editor'[x].unseen = editor[x].unseen
      BY <1>3, <1>6, <2>2
    <3>2. editor[x].pc \in {"begun", "committed", "executing"} =>
            editor[x].step \in Steps /\ current[editor[x].step] # 0 /\ editor[x].step # s
      BY <1>4 DEF StepsCore, RequestsFollow, Exists
    <3>3. editor[x].pc \in {"begun", "executing"} => editor[x].read \in 1..current'[editor[x].step]
      BY <1>5, <3>2 DEF StepsCore, RequestsFollow
    <3>4. editor[x].pc \in {"idle", "done"} \/ (editor[x].pc = "begun" /\ editor[x].step = editor[x].first)
            => editor[x].todo = {} /\ editor[x].unseen = {} /\ Waiting(x) = {}
      BY DEF StepsCore, RequestsFollow, Waiting, Doing
    <3>5. \A t \in Waiting(x) : editor[x].first \in Steps /\ t \in Down(current', editor[x].first) BY <1>8, WaitingFacts
    <3> QED BY <1>7, <1>9, <2>2, <3>1, <3>2, <3>3, <3>4, <3>5
  <2> QED BY <2>1, <2>2
<1>14. ListsHold'
  <2> SUFFICES ASSUME NEW x \in Editors, NEW t \in Steps, current'[t] # 0
               PROVE  /\ \A u \in Deps[t] : u \in Waiting(x)' /\ Branch[t] = Branch[u]
                                               => t \in editor'[x].todo \cup editor'[x].unseen
                      /\ Waiting(x)' # {} /\ Deps[t] \cap editor'[x].unseen # {} => t \in editor'[x].unseen
    BY DEF ListsHold, Exists
  <2>1. CASE Waiting(x)' = {} BY <2>1
  <2>2. CASE Waiting(x)' # {}
    <3>1. /\ x # e /\ Waiting(x)' = Waiting(x) /\ editor'[x].todo = editor[x].todo
          /\ editor'[x].unseen = editor[x].unseen \cup {s}
      BY <1>3, <1>6, <1>9, <2>2
    <3>2. CASE t = s BY <3>1, <3>2
    <3>3. CASE t # s
      <4>1. Exists(t) /\ s \notin Deps[t] BY <1>7, <3>3 DEF Exists
      <4> QED BY <2>2, <3>1, <4>1 DEF StepsCore, ListsHold
    <3> QED BY <3>2, <3>3
  <2> QED BY <2>1, <2>2
<1>15. NothingForgotten'
  <2> SUFFICES ASSUME NEW t \in Steps, t \notin broken', current'[t] # 0
               PROVE  Settled(t)' \/ \E x \in Editors : Owes(x, t)'
    BY DEF NothingForgotten, Exists
  <2>0. ASSUME NEW x \in Editors \ {e}, NEW u \in Steps \ {s}
        PROVE  (Computes(x, u)' <=> Computes(x, u)) /\ (Doing(x, "executing")' <=> Doing(x, "executing"))
               /\ editor'[x].from = editor[x].from
    BY <1>3, <1>5, <1>6 DEF Computes, Doing
  <2>1. CASE t = s
    <3>1. Computes(e, s)' BY <1>2, <1>6 DEF Computes, Doing
    <3>2. ASSUME NEW x \in Editors, Computes(x, s)', Doing(x, "executing")' PROVE FALSE
      <4>1. x # e /\ editor[x].pc = "executing" /\ editor[x].step = s
        BY <1>2, <1>3, <1>6, <3>2 DEF Computes, Doing
      <4> QED BY <1>4, <4>1 DEF StepsCore, RequestsFollow, Exists
    <3>3. Settled(s)' BY <1>1, <1>5, <3>1, <3>2 DEF Settled
    <3> QED BY <2>1, <3>3
  <2>2. CASE t # s
    <3>1. Exists(t) /\ t \notin broken /\ \A d \in Deps[t] : d \in Steps /\ d # s
      BY <1>4, <1>7, <2>2, DepsBefore DEF Exists
    <3>2. CASE Settled(t)
      <4>1. ~Computes(e, t) /\ ~Computes(e, t)' BY <1>2, <1>4, <1>6, <2>2 DEF Computes, Doing
      <4>2. Shown(t).status = "pending" => \E x \in Editors : Computes(x, t)' BY <2>0, <2>2, <3>2, <4>1 DEF Settled
      <4>3. ASSUME NEW d \in Deps[t], Branch[d] = Branch[t]
            PROVE  /\ Shown(t).status = "ok" => Shown(t).from[d] = current'[d]
                   /\ \A x \in Editors : Computes(x, t)' /\ Doing(x, "executing")' => editor'[x].from[d] = current'[d]
        <5>1. current'[d] = current[d] BY <1>5, <3>1
        <5>2. \A x \in Editors : Computes(x, t)' /\ Doing(x, "executing")' => editor'[x].from[d] = current[d]
          BY <2>0, <2>2, <3>2, <4>1, <4>3 DEF Settled
        <5> QED BY <3>2, <4>3, <5>1, <5>2 DEF Settled
      <4>4. Settled(t)' BY <1>5, <2>2, <4>2, <4>3 DEF Settled
      <4> QED BY <4>4
    <3>3. ASSUME NEW x \in Editors, Owes(x, t) PROVE Owes(x, t)'
      <4>1. x # e /\ t \in Waiting(x)' BY <1>4, <1>9, <3>3 DEF Owes, Waiting, Doing, StepsCore, RequestsFollow
      <4>2. ASSUME Beaten(x)' PROVE t \notin Down(current', editor'[x].step) \cup {editor'[x].step}
        <5>1. editor'[x].step = editor[x].step /\ editor'[x].read = editor[x].read /\ editor[x].pc = "begun"
          BY <1>3, <1>6, <4>1, <4>2 DEF Beaten, Doing
        <5>2. editor[x].step \in Steps /\ editor[x].step # s BY <1>4, <5>1 DEF StepsCore, RequestsFollow, Exists
        <5>3. Beaten(x) BY <1>5, <4>2, <5>1, <5>2 DEF Beaten, Doing
        <5>4. t \notin Downstream(editor[x].step) \cup {editor[x].step} BY <3>3, <5>3 DEF Owes
        <5> QED BY <1>8, <2>2, <5>1, <5>4
      <4> QED BY <4>1, <4>2, OwesNext
    <3> QED BY <3>1, <3>2, <3>3 DEF StepsCore, NothingForgotten
  <2> QED BY <2>1, <2>2
<1> QED BY <1>10, <1>11, <1>12, <1>13, <1>14, <1>15 DEF StepsCore

-----------------------------------------------------------------------------
(* Reading the inputs, and finishing *)

\* One row of a step is written again.
Rewritten(v, s, n, row) == [v EXCEPT ![s] = [v[s] EXCEPT ![n] = row]]

LEMMA RowChanged ==
    ASSUME StepsTypeOK, NEW s \in Steps, NEW n \in 1..current[s], NEW row \in Rows,
           version' = Rewritten(version, s, n, row), current' = current
    PROVE  /\ version' = [t \in Steps |-> [i \in 1..current'[t] |-> version'[t][i]]]
           /\ \A t \in Steps : \A i \in 1..current'[t] : version'[t][i] \in Rows
           /\ \A t \in Steps \ {s} : Shown(t)' = Shown(t)
           /\ Shown(s)' = IF n = current[s] THEN row ELSE Shown(s)
<1>1. version = [t \in Steps |-> [i \in 1..current[t] |-> version[t][i]]] BY DEF StepsTypeOK
<1>2. DOMAIN version = Steps /\ \A t \in Steps : version[t] = [i \in 1..current[t] |-> version[t][i]] BY <1>1
<1> DEFINE w == [version[s] EXCEPT ![n] = row]
<1>3. w = [i \in 1..current[s] |-> IF i = n THEN row ELSE version[s][i]]
  <2>1. version[s] = [i \in 1..current[s] |-> version[s][i]] BY <1>2
  <2> QED BY <2>1
<1>4. version' = [t \in Steps |-> IF t = s THEN w ELSE version[t]] BY <1>2 DEF Rewritten
<1> HIDE DEF w
<1>5. ASSUME NEW t \in Steps PROVE version'[t] = [i \in 1..current'[t] |-> version'[t][i]]
  <2>1. CASE t = s BY <1>3, <1>4, <2>1
  <2>2. CASE t # s BY <1>2, <1>4, <2>2
  <2> QED BY <2>1, <2>2
<1>6. version' = [t \in Steps |-> [i \in 1..current'[t] |-> version'[t][i]]]
  <2> DEFINE v == version'
  <2>1. v = [t \in Steps |-> v[t]] BY <1>4
  <2> QED BY <1>5, <2>1
<1>7. ASSUME NEW t \in Steps, NEW i \in 1..current'[t] PROVE version'[t][i] \in Rows
  <2>1. \A u \in Steps : \A j \in 1..current[u] : version[u][j] \in Rows BY DEF StepsTypeOK
  <2>2. CASE t = s
    <3>1. i \in 1..current[s] /\ version'[t] = w BY <1>4, <2>2
    <3>2. w[i] = IF i = n THEN row ELSE version[s][i] BY <1>3, <3>1
    <3> QED BY <2>1, <3>1, <3>2
  <2>3. CASE t # s BY <1>4, <2>1, <2>3
  <2> QED BY <2>2, <2>3
<1>8. \A t \in Steps \ {s} : version'[t][current'[t]] = version[t][current[t]] BY <1>4
<1>9. version'[s][current'[s]] = IF n = current[s] THEN row ELSE version[s][current[s]]
  <2>1. current[s] \in Nat /\ current[s] \in 1..current[s] BY DEF StepsTypeOK
  <2> QED BY <1>3, <1>4, <2>1
<1> QED BY <1>6, <1>7, <1>8, <1>9 DEF Shown

\* A step of one request that adds no version and keeps what it has listed.
LEMMA WritesCore ==
    ASSUME StepsCore, current' = current, deaths' = deaths, broken' = broken,
           version' = [t \in Steps |-> [i \in 1..current'[t] |-> version'[t][i]]],
           \A t \in Steps : \A i \in 1..current'[t] : version'[t][i] \in Rows,
           status' \in [Steps -> {None, "pending", "ok", "failed"}],
           live' \in [Steps -> SUBSET Verdicts], \A t \in Steps : \A r, q \in live'[t] : r = q,
           LiveIsFresh', \A t \in Steps : ~Exists(t) => live'[t] = {},
           NEW e \in Editors, NEW s \in Steps, editor[e].step = s, editor[e].pc \in {"committed", "executing"},
           NEW new \in Requests, editor' = [editor EXCEPT ![e] = new], new.pc \in {"executing", "next", "done"},
           new.pc = "executing" => new.step = s /\ new.read \in 1..current[s], new.pc # "executing" => new.step # s,
           new.todo = editor[e].todo,
           new.pc # "done" => new.first = editor[e].first /\ new.unseen = editor[e].unseen,
           new.pc = "done" => new.todo = {} /\ new.unseen = {},
           \A t \in Steps \ {s} : Shown(t)' = Shown(t),
           Settled(s) => Settled(s)'
    PROVE  StepsCore'
<1>1. editor' \in [Editors -> Requests] /\ editor'[e] = new /\ \A x \in Editors \ {e} : editor'[x] = editor[x]
  BY DEF StepsCore, StepsTypeOK
<1>2. StepsTypeOK' BY <1>1 DEF StepsCore, StepsTypeOK
<1>3. StepsFollow' BY DEF StepsCore, StepsFollow, Exists
<1>4. /\ Waiting(e) = editor[e].todo /\ Waiting(e)' = Waiting(e) /\ ~Beaten(e)'
      /\ \A x \in Editors \ {e} : Waiting(x)' = Waiting(x) /\ (Beaten(x)' <=> Beaten(x))
      /\ \A t \in Steps : Exists(t)' <=> Exists(t)
      /\ \A x : Down(current', x) = Downstream(x)
  BY <1>1, DownIs DEF Waiting, Beaten, Doing, Exists
<1>5. /\ \A x \in Editors \ {e} : \A t \in Steps : Computes(x, t)' <=> Computes(x, t)
      /\ \A t \in Steps \ {s} : ~Computes(e, t) /\ ~Computes(e, t)'
  BY <1>1 DEF Computes, Doing
<1>6. RequestsFollow'
  <2> SUFFICES ASSUME NEW x \in Editors
               PROVE  /\ editor'[x].pc \in {"begun", "committed", "executing"} =>
                            editor'[x].step \in Steps /\ current'[editor'[x].step] # 0
                      /\ editor'[x].pc \in {"begun", "executing"} => editor'[x].read \in 1..current'[editor'[x].step]
                      /\ editor'[x].pc \in {"idle", "done"} \/ (editor'[x].pc = "begun" /\ editor'[x].step = editor'[x].first)
                            => editor'[x].todo = {} /\ editor'[x].unseen = {}
                      /\ \A t \in Waiting(x)' : editor'[x].first \in Steps /\ t \in Down(current', editor'[x].first)
    BY RequestsNext
  <2>1. CASE x = e
    <3>1. Exists(s) BY DEF StepsCore, RequestsFollow
    <3>2. \A t \in Waiting(e)' : new.first \in Steps /\ t \in Down(current', new.first) BY <1>4, WaitingFacts
    <3> QED BY <1>1, <2>1, <3>1, <3>2 DEF Exists
  <2>2. CASE x # e BY <1>1, <1>4, <2>2 DEF StepsCore, RequestsFollow, Exists
  <2> QED BY <2>1, <2>2
<1>7. ListsHold'
  <2> SUFFICES ASSUME NEW x \in Editors, NEW t \in Steps, Exists(t)
               PROVE  /\ \A u \in Deps[t] : u \in Waiting(x)' /\ Branch[t] = Branch[u]
                                               => t \in editor'[x].todo \cup editor'[x].unseen
                      /\ Waiting(x)' # {} /\ Deps[t] \cap editor'[x].unseen # {} => t \in editor'[x].unseen
    BY <1>4 DEF ListsHold
  <2>1. CASE x = e /\ new.pc = "done" BY <1>1, <1>4, <2>1
  <2>2. CASE x # e \/ new.pc # "done" BY <1>1, <1>4, <2>2 DEF StepsCore, ListsHold
  <2> QED BY <2>1, <2>2
<1>8. NothingForgotten'
  <2> SUFFICES ASSUME NEW t \in Steps, t \notin broken, Exists(t)
               PROVE  Settled(t)' \/ \E x \in Editors : Owes(x, t)'
    BY <1>4 DEF NothingForgotten
  <2>1. CASE Settled(t)
    <3>1. CASE t = s BY <2>1, <3>1
    <3>2. CASE t # s
      <4>1. Shown(t).status = "pending" => \E x \in Editors : Computes(x, t)' BY <1>5, <2>1, <3>2 DEF Settled
      <4>2. ASSUME NEW d \in Deps[t], Branch[d] = Branch[t]
            PROVE  /\ Shown(t).status = "ok" => Shown(t).from[d] = current'[d]
                   /\ \A x \in Editors : Computes(x, t)' /\ Doing(x, "executing")' => editor'[x].from[d] = current'[d]
        BY <1>1, <1>5, <2>1, <3>2, <4>2 DEF Settled, Doing
      <4>3. Settled(t)' BY <3>2, <4>1, <4>2 DEF Settled
      <4> QED BY <4>3
    <3> QED BY <3>1, <3>2
  <2>2. ASSUME NEW x \in Editors, Owes(x, t) PROVE Owes(x, t)'
    <3>1. t \in Waiting(x)' BY <1>4, <2>2 DEF Owes
    <3>2. Beaten(x)' => t \notin Down(current', editor'[x].step) \cup {editor'[x].step}
      BY <1>1, <1>4, <2>2 DEF Owes
    <3> QED BY <3>1, <3>2, OwesNext
  <2> QED BY <2>1, <2>2 DEF StepsCore, NothingForgotten
<1> QED BY <1>2, <1>3, <1>6, <1>7, <1>8 DEF StepsCore

\* What the inputs of a row are written from.
LEMMA ReadFacts ==
    ASSUME StepsCore, NEW e \in Editors, ReadInputs(e)
    PROVE  LET s == editor[e].step
               row == [version[s][current[s]] EXCEPT !.inputs = CurrentOf(s)]
           IN  /\ s \in Steps /\ Exists(s) /\ current[s] \in 1..current[s] /\ CurrentOf(s) \in Inputs
               /\ row \in Rows /\ row.status = Shown(s).status /\ row.from = Shown(s).from /\ row.spec = Shown(s).spec
               /\ version' = Rewritten(version, s, current[s], row)
<1> DEFINE s == editor[e].step
           n == current[s]
           row == [version[s][n] EXCEPT !.inputs = CurrentOf(s)]
<1>1. s \in Steps /\ Exists(s) BY DEF ReadInputs, Doing, StepsCore, RequestsFollow
<1>2. n \in Nat /\ n \in 1..n BY <1>1 DEF Exists, StepsCore, StepsTypeOK
<1>3. CurrentOf(s) \in Inputs
  <2>1. \A d \in Deps[s] : d \in Steps /\ current[d] \in Nat BY <1>1, DepsBefore DEF StepsCore, StepsTypeOK
  <2> QED BY <2>1 DEF CurrentOf, Inputs
<1>4. version[s][n] \in Rows BY <1>1, <1>2 DEF StepsCore, StepsTypeOK
<1>5. row \in Rows /\ row.status = Shown(s).status /\ row.from = Shown(s).from /\ row.spec = Shown(s).spec
  BY <1>3, <1>4 DEF Rows, Shown
<1>6. version' = Rewritten(version, s, n, row) BY DEF ReadInputs, Rewritten
<1> QED BY <1>1, <1>2, <1>3, <1>5, <1>6

LEMMA ReadInputsCore ==
    ASSUME StepsCore, NEW e \in Editors, NEW s \in Steps, s = editor[e].step, ReadInputs(e)
    PROVE  StepsCore'
<1> DEFINE n == current[s]
           row == [version[s][n] EXCEPT !.inputs = CurrentOf(s)]
           new == [editor[e] EXCEPT !.pc = "executing", !.read = n, !.from = CurrentOf(s),
                                    !.missing = \E d \in Deps[s] : Shown(d).status # "ok"]
<1>1. /\ Exists(s) /\ n \in 1..n /\ CurrentOf(s) \in Inputs
      /\ row \in Rows /\ row.status = Shown(s).status /\ row.from = Shown(s).from
      /\ version' = Rewritten(version, s, n, row)
  BY ReadFacts
<1>2. /\ editor[e] \in Requests /\ n \in Nat /\ StepsTypeOK BY <1>1 DEF StepsCore, StepsTypeOK
<1>3. /\ new \in Requests /\ new.pc = "executing" /\ new.step = s /\ new.first = editor[e].first
      /\ new.todo = editor[e].todo /\ new.read = n /\ new.from = CurrentOf(s) /\ new.unseen = editor[e].unseen
  BY <1>1, <1>2 DEF Requests
<1>4. editor' = [editor EXCEPT ![e] = new] /\ editor[e].pc = "committed" /\ UNCHANGED <<current, status, live, deaths, broken>>
  BY DEF ReadInputs, Goes, Doing
<1> HIDE DEF new, row
<1>5. editor'[e] = new /\ \A x \in Editors \ {e} : editor'[x] = editor[x] BY <1>4 DEF StepsCore, StepsTypeOK
<1>6. /\ version' = [t \in Steps |-> [i \in 1..current'[t] |-> version'[t][i]]]
      /\ \A t \in Steps : \A i \in 1..current'[t] : version'[t][i] \in Rows
      /\ \A t \in Steps \ {s} : Shown(t)' = Shown(t)
      /\ Shown(s)' = row
  <2>1. current' = current BY <1>4
  <2> QED BY <1>1, <1>2, <2>1, RowChanged
<1>7. Settled(s) => Settled(s)'
  <2> SUFFICES ASSUME Settled(s) PROVE Settled(s)' OBVIOUS
  <2>1. Computes(e, s)' BY <1>3, <1>4, <1>5 DEF Computes, Doing
  <2>2. ASSUME NEW d \in Deps[s], Branch[d] = Branch[s]
        PROVE  /\ row.status = "ok" => row.from[d] = current'[d]
               /\ \A x \in Editors : Computes(x, s)' /\ Doing(x, "executing")' => editor'[x].from[d] = current'[d]
    <3>1. d \in Steps /\ CurrentOf(s)[d] = current[d] BY <1>1, DepsBefore DEF CurrentOf
    <3>2. ASSUME NEW x \in Editors \ {e}, Computes(x, s)', Doing(x, "executing")' PROVE editor'[x].from[d] = current[d]
      <4>1. editor'[x] = editor[x] /\ current' = current BY <1>4, <1>5
      <4>2. Computes(x, s) /\ Doing(x, "executing") BY <3>2, <4>1 DEF Computes, Doing
      <4> QED BY <2>2, <4>1, <4>2 DEF Settled
    <3>3. editor'[e].from[d] = current[d] BY <1>3, <1>5, <3>1
    <3>4. row.status = "ok" => row.from[d] = current[d] BY <1>1, <2>2 DEF Settled
    <3> QED BY <1>4, <3>2, <3>3, <3>4
  <2>3. Shown(s)' = row BY <1>6
  <2>4. Shown(s)'.status = "pending" => \E x \in Editors : Computes(x, s)' BY <2>1
  <2> QED BY <2>2, <2>3, <2>4 DEF Settled
<1>8. LiveIsFresh' BY <1>4 DEF StepsCore, LiveIsFresh, Outdated
<1>9. /\ status' \in [Steps -> {None, "pending", "ok", "failed"}] /\ live' \in [Steps -> SUBSET Verdicts]
      /\ \A t \in Steps : \A r, q \in live'[t] : r = q
  BY <1>2, <1>4 DEF StepsTypeOK
<1>10. \A t \in Steps : ~Exists(t) => live'[t] = {} BY <1>4 DEF StepsCore, StepsFollow
<1> QED BY <1>1, <1>3, <1>4, <1>6, <1>7, <1>8, <1>9, <1>10, WritesCore

\* A row that is finished.
Finished(row, st, from) == [row EXCEPT !.status = st, !.from = IF st = "ok" THEN from ELSE @]

\* The row a request finishes, and the one shown of the step.
LEMMA FinishFacts ==
    ASSUME StepsCore, NEW e \in Editors, NEW s \in Steps, s = editor[e].step, NEW st \in {"ok", "failed"}, Finish(e, st)
    PROVE  LET n == editor[e].read
               row == Finished(version[s][n], st, editor[e].from)
           IN  /\ Exists(s) /\ n \in 1..current[s] /\ version[s][n] \in Rows
               /\ row \in Rows /\ row.status = st /\ row.spec = version[s][n].spec
               /\ st = "ok" => row.from = editor[e].from
               /\ version' = Rewritten(version, s, n, row)
<1> DEFINE n == editor[e].read
           from == IF st = "ok" THEN editor[e].from ELSE version[s][n].from
           row == Finished(version[s][n], st, editor[e].from)
<1>1. Exists(s) /\ n \in 1..current[s] BY DEF Finish, Doing, StepsCore, RequestsFollow
<1>2. version[s][n] \in Rows /\ editor[e] \in Requests BY <1>1 DEF StepsCore, StepsTypeOK
<1>3. row = [version[s][n] EXCEPT !.status = st, !.from = from] BY <1>2 DEF Rows, Finished
<1>4. from \in Inputs BY <1>2 DEF Rows, Requests
<1>5. row \in Rows /\ row.status = st /\ row.spec = version[s][n].spec /\ row.from = from
  <2> HIDE DEF from, row
  <2> QED BY <1>2, <1>3, <1>4 DEF Rows
<1>6. version' = Rewritten(version, s, n, row)
  <2>1. version = [t \in Steps |-> [i \in 1..current[t] |-> version[t][i]]] BY DEF StepsCore, StepsTypeOK
  <2>2. DOMAIN version = Steps /\ version[s] = [i \in 1..current[s] |-> version[s][i]] BY <2>1
  <2>3. DOMAIN version[s] = 1..current[s] BY <2>2
  <2>4. version' = [version EXCEPT ![s][n].status = st, ![s][n].from = IF st = "ok" THEN editor[e].from ELSE @]
    BY DEF Finish
  <2> QED BY <1>1, <1>2, <2>2, <2>3, <2>4 DEF Rows, Finished, Rewritten
<1> QED BY <1>1, <1>2, <1>5, <1>6

LEMMA FinishCore ==
    ASSUME StepsCore, NEW e \in Editors, NEW s \in Steps, s = editor[e].step, NEW st \in {"ok", "failed"}, Finish(e, st),
           live' \in [Steps -> SUBSET Verdicts], \A t \in Steps : \A r, q \in live'[t] : r = q,
           LiveIsFresh', \A t \in Steps : ~Exists(t) => live'[t] = {}
    PROVE  StepsCore'
<1> DEFINE n == editor[e].read
           row == Finished(version[s][n], st, editor[e].from)
           next == [Blank EXCEPT !.pc = "next", !.first = editor[e].first, !.todo = editor[e].todo,
                                 !.unseen = editor[e].unseen]
           new == IF editor[e].todo = {} THEN Over ELSE next
<1>1. /\ Exists(s) /\ n \in 1..current[s] /\ row \in Rows /\ row.status = st
      /\ version' = Rewritten(version, s, n, row)
  <2>1. Exists(s) /\ n \in 1..current[s] BY FinishFacts
  <2>2. row \in Rows /\ row.status = st BY FinishFacts
  <2>3. version' = Rewritten(version, s, n, row) BY FinishFacts
  <2> QED BY <2>1, <2>2, <2>3
<1>2. st = "ok" => row.from = editor[e].from BY FinishFacts
<1>3. /\ editor' = [editor EXCEPT ![e] = new] /\ editor[e].pc = "executing" /\ UNCHANGED <<current, deaths, broken>>
      /\ status' = [status EXCEPT ![s] = st]
  BY DEF Finish, Goes, Doing
<1>4. StepsTypeOK /\ editor[e] \in Requests /\ s # 0 BY DepsBefore, StepsAssumption DEF StepsCore, StepsTypeOK, StepsAssumption
<1>5. /\ next \in Requests /\ next.pc = "next" /\ next.step = 0 /\ next.first = editor[e].first
      /\ next.todo = editor[e].todo /\ next.unseen = editor[e].unseen
  BY <1>4, BlankFacts DEF Requests
<1> HIDE DEF row, next
<1>6. /\ new \in Requests /\ new.pc \in {"next", "done"} /\ new.step = 0 /\ new.todo = editor[e].todo
      /\ new.pc # "done" => new.first = editor[e].first /\ new.unseen = editor[e].unseen
      /\ new.pc = "done" => new.todo = {} /\ new.unseen = {}
  BY <1>5, BlankFacts
<1> HIDE DEF new
<1>7. editor'[e] = new /\ \A x \in Editors \ {e} : editor'[x] = editor[x] BY <1>3 DEF StepsCore, StepsTypeOK
<1>8. /\ version' = [t \in Steps |-> [i \in 1..current'[t] |-> version'[t][i]]]
      /\ \A t \in Steps : \A i \in 1..current'[t] : version'[t][i] \in Rows
      /\ \A t \in Steps \ {s} : Shown(t)' = Shown(t)
      /\ Shown(s)' = IF n = current[s] THEN row ELSE Shown(s)
  <2>1. current' = current BY <1>3
  <2> QED BY <1>1, <1>4, <2>1, RowChanged
<1>9. \A x \in Editors \ {e} : /\ Computes(x, s)' <=> Computes(x, s)
                               /\ Doing(x, "executing")' <=> Doing(x, "executing")
  BY <1>3, <1>7 DEF Computes, Doing
<1>10. ~Computes(e, s)' BY <1>4, <1>6, <1>7 DEF Computes
<1>11. Settled(s) => Settled(s)'
  <2> SUFFICES ASSUME Settled(s) PROVE Settled(s)' OBVIOUS
  <2>1. ASSUME NEW d \in Deps[s], Branch[d] = Branch[s], NEW x \in Editors, Computes(x, s)', Doing(x, "executing")'
        PROVE editor'[x].from[d] = current'[d]
    <3>1. x # e BY <1>10, <2>1
    <3>2. Computes(x, s) /\ Doing(x, "executing") /\ editor'[x] = editor[x] /\ current' = current BY <1>3, <1>7, <1>9, <2>1, <3>1
    <3> QED BY <2>1, <3>2 DEF Settled
  <2>2. CASE n = current[s]
    <3>1. Shown(s)' = row /\ current' = current BY <1>3, <1>8, <2>2
    <3>2. row.status # "pending" BY <1>1
    <3>3. Computes(e, s) /\ Doing(e, "executing") BY <1>3, <2>2 DEF Computes, Doing
    <3>4. \A d \in Deps[s] : Branch[d] = Branch[s] => editor[e].from[d] = current[d] BY <3>3 DEF Settled
    <3>5. \A d \in Deps[s] : Branch[d] = Branch[s] => (row.status = "ok" => row.from[d] = current[d])
      BY <1>1, <1>2, <3>4
    <3> QED BY <2>1, <3>1, <3>2, <3>5 DEF Settled
  <2>3. CASE n # current[s]
    <3>1. Shown(s)' = Shown(s) /\ current' = current BY <1>3, <1>8, <2>3
    <3>2. ~Computes(e, s) BY <1>3, <2>3 DEF Computes, Doing
    <3>3. Shown(s).status = "pending" => \E x \in Editors : Computes(x, s)' BY <1>9, <3>2 DEF Settled
    <3>4. \A d \in Deps[s] : Branch[d] = Branch[s] => (Shown(s).status = "ok" => Shown(s).from[d] = current[d])
      BY DEF Settled
    <3> QED BY <2>1, <3>1, <3>3, <3>4 DEF Settled
  <2> QED BY <2>2, <2>3
<1>12. status' \in [Steps -> {None, "pending", "ok", "failed"}] BY <1>3, <1>4 DEF StepsTypeOK
<1>13. current' = current /\ deaths' = deaths /\ broken' = broken BY <1>3
<1>14. new.pc # "executing" /\ new.step # s BY <1>4, <1>6
<1> QED BY <1>3, <1>6, <1>8, <1>11, <1>12, <1>13, <1>14, WritesCore

LEMMA FinishPlainCore ==
    ASSUME StepsCore, NEW e \in Editors, NEW st \in {"ok", "failed"}, Finish(e, st), UNCHANGED live
    PROVE  StepsCore'
<1>1. PICK s \in Steps : s = editor[e].step BY DEF Finish, Doing, StepsCore, RequestsFollow
<1>2. Finish(e, st) /\ live' = live /\ current' = current BY DEF Finish
<1>3. /\ live' \in [Steps -> SUBSET Verdicts] /\ \A t \in Steps : \A r, q \in live'[t] : r = q
      /\ \A t \in Steps : ~Exists(t) => live'[t] = {}
  BY <1>2 DEF StepsCore, StepsTypeOK, StepsFollow
<1>4. LiveIsFresh' BY <1>2 DEF StepsCore, LiveIsFresh, Outdated
<1> QED BY <1>1, <1>2, <1>3, <1>4, FinishCore

\* A verdict on what was replaced while the step ran is a late one.
LEMMA FinishVerifiedCore ==
    ASSUME StepsCore, NEW e \in Editors, FinishVerified(e)
    PROVE  StepsCore'
<1>1. PICK s \in Steps : s = editor[e].step BY DEF FinishVerified, Finish, Doing, StepsCore, RequestsFollow
<1> DEFINE n == editor[e].read
           in == version[s][n].inputs
           v == [version |-> n, inputs |-> in, late |-> Outdated(s, [version |-> n, inputs |-> in])]
<1>2. Finish(e, "ok") /\ live' = [live EXCEPT ![s] = {v}] /\ current' = current BY <1>1 DEF FinishVerified, Finish
<1>3. Exists(s) /\ n \in Nat /\ in \in Inputs
  <2>1. Exists(s) /\ n \in 1..current[s] /\ version[s][n] \in Rows BY <1>1, <1>2, FinishFacts
  <2> QED BY <2>1 DEF Rows
<1>4. v \in Verdicts /\ v.version = n /\ v.inputs = in /\ (Outdated(s, v) => v.late)
  <2>1. Outdated(s, [version |-> n, inputs |-> in]) \in BOOLEAN BY DEF Outdated
  <2> QED BY <1>3, <2>1 DEF Verdicts, Outdated
<1> HIDE DEF v
<1>5. live'[s] = {v} /\ \A t \in Steps \ {s} : live'[t] = live[t] BY <1>2 DEF StepsCore, StepsTypeOK
<1>6. /\ live' \in [Steps -> SUBSET Verdicts] /\ \A t \in Steps : \A r, q \in live'[t] : r = q
      /\ \A t \in Steps : ~Exists(t) => live'[t] = {}
  <2>1. live' \in [Steps -> SUBSET Verdicts] BY <1>2, <1>4 DEF StepsCore, StepsTypeOK
  <2>2. \A t \in Steps : \A r, q \in live'[t] : r = q
    <3>1. \A t \in Steps : \A r, q \in live[t] : r = q BY DEF StepsCore, StepsTypeOK
    <3> QED BY <1>5, <3>1
  <2>3. \A t \in Steps : ~Exists(t) => live'[t] = {} BY <1>3, <1>5 DEF StepsCore, StepsFollow
  <2> QED BY <2>1, <2>2, <2>3
<1>7. LiveIsFresh'
  <2> SUFFICES ASSUME NEW t \in Steps, NEW r \in live'[t], Outdated(t, r)' PROVE r.late BY DEF LiveIsFresh
  <2>1. Outdated(t, r) BY <1>2 DEF Outdated
  <2>2. CASE t = s BY <1>4, <1>5, <2>1, <2>2
  <2>3. CASE t # s BY <1>5, <2>1, <2>3 DEF StepsCore, LiveIsFresh
  <2> QED BY <2>2, <2>3
<1> QED BY <1>1, <1>2, <1>6, <1>7, FinishCore

-----------------------------------------------------------------------------
(* The sweep, and the theorems *)

LEMMA SameCore ==
    ASSUME StepsCore, UNCHANGED <<current, status, version, editor, deaths, broken>>,
           live' \in [Steps -> SUBSET Verdicts], \A t \in Steps : live'[t] \subseteq live[t]
    PROVE  StepsCore'
<1>1. StepsTypeOK' BY DEF StepsCore, StepsTypeOK
<1>2. StepsFollow' /\ LiveIsFresh' BY DEF StepsCore, StepsFollow, LiveIsFresh, Exists, Outdated
<1>3. RequestsFollow' BY DEF StepsCore, RequestsFollow, Waiting, Doing, Exists, Downstream, Feeds
<1>4. ListsHold' BY DEF StepsCore, ListsHold, Waiting, Doing, Exists
<1>5. \A t \in Steps : (Settled(t)' <=> Settled(t)) /\ (Exists(t)' <=> Exists(t))
  BY DEF Settled, Shown, Computes, Doing, Exists
<1>6. \A x \in Editors, t \in Steps : Owes(x, t)' <=> Owes(x, t)
  BY DEF Owes, Waiting, Beaten, Doing, Downstream, Feeds, Exists
<1>7. NothingForgotten' BY <1>5, <1>6 DEF StepsCore, NothingForgotten
<1> QED BY <1>1, <1>2, <1>3, <1>4, <1>7 DEF StepsCore

LEMMA StepsNextCore == StepsCore /\ [StepsNext]_stepsVars => StepsCore'
<1> SUFFICES ASSUME StepsCore, [StepsNext]_stepsVars PROVE StepsCore' OBVIOUS
<1>1. ASSUME NEW e \in Editors, ReadInputs(e) PROVE StepsCore'
  <2>1. PICK s \in Steps : s = editor[e].step BY <1>1 DEF ReadInputs, Doing, StepsCore, RequestsFollow
  <2> QED BY <1>1, <2>1, ReadInputsCore
<1>2. ASSUME NEW e \in Editors, Goon(e) PROVE StepsCore'
  BY <1>1, <1>2, CommitVersionCore, CommitFailsCore, FinishVerifiedCore, FinishPlainCore, BeginNextCore
     DEF Goon, FinishFailed, FinishRecorded
<1>3. ASSUME NEW e \in Editors, NEW s \in Steps, Edit(e, s) \/ Create(e, s) \/ BeginRerun(e, s) PROVE StepsCore'
  BY <1>3, EditCore, CreateCore, BeginRerunCore
<1>4. CASE Recheck
  <2>1. live' \in [Steps -> SUBSET Verdicts] /\ \A t \in Steps : live'[t] \subseteq live[t]
    BY <1>4 DEF Recheck, StepsCore, StepsTypeOK
  <2> QED BY <1>4, <2>1, SameCore DEF Recheck
<1>5. CASE UNCHANGED stepsVars
  <2>1. live' \in [Steps -> SUBSET Verdicts] /\ \A t \in Steps : live'[t] \subseteq live[t]
    BY <1>5 DEF stepsVars, StepsCore, StepsTypeOK
  <2> QED BY <1>5, <2>1, SameCore DEF stepsVars
<1> QED BY <1>2, <1>3, <1>4, <1>5, RequestDiesCore DEF StepsNext

LEMMA StepsSafe == StepsSpec => []StepsCore
BY StepsInitCore, StepsNextCore, PTL DEF StepsSpec

\* However many requests edit, create and re-run steps of however many branches, with whatever
\* dependencies: no verdict stays on what was replaced, and once they are done what is shown of
\* a step was computed from what is shown (services/steps.py, evidence/verification.py).
THEOREM StepsInvariance == StepsSpec => []StepsInv
<1>1. StepsCore => StepsInv BY AtRestSettled DEF StepsCore, StepsInv
<1> QED BY <1>1, StepsSafe, PTL

\* Who changes what is shown of a step, but for its status and inputs.
LEMMA SpecNext ==
    ASSUME StepsCore, StepsNext, NEW s \in Steps, Exists(s), (Shown(s).spec)' # Shown(s).spec
    PROVE  \E e \in Editors : (Shown(s).spec)' = e /\ Edit(e, s)
<1>0. StepsTypeOK BY DEF StepsCore
<1>1. ASSUME NEW e \in Editors, NEW t \in Steps, Edit(e, t) PROVE t = s /\ (Shown(s).spec)' = e
  <2>1. Exists(t) /\ NewVersion(t, current[t], e) BY <1>1 DEF Edit
  <2>2. Shown(t)'.spec = e /\ \A u \in Steps \ {t} : Shown(u)' = Shown(u) BY <2>1, NewVersionFacts
  <2> QED BY <2>2
<1>2. ASSUME NEW e \in Editors, NEW t \in Steps, Create(e, t) PROVE FALSE
  <2>1. current[t] = 0 /\ t # s BY <1>2 DEF Create, Exists
  <2>2. version' = [version EXCEPT ![t] = WithRow(t, 0, Row(e, "pending", NoInputs))] /\ current' = [current EXCEPT ![t] = 1]
    BY <1>2 DEF Create
  <2>3. version'[s] = version[s] /\ current'[s] = current[s]
    <3>1. version = [u \in Steps |-> [n \in 1..current[u] |-> version[u][n]]] /\ current \in [Steps -> Nat]
      BY <1>0 DEF StepsTypeOK
    <3>2. DOMAIN version = Steps BY <3>1
    <3> QED BY <2>1, <2>2, <3>1, <3>2
  <2> QED BY <2>3 DEF Shown
<1>3. ASSUME NEW e \in Editors, CommitVersion(e) PROVE FALSE
  <2>1. PICK t \in Steps : t = editor[e].step BY <1>3, CommitFacts
  <2>2. Exists(t) /\ Shown(t).spec \in Editors \cup {Original} /\ NewVersion(t, current[t], Shown(t).spec)
    BY <1>3, <2>1, CommitFacts
  <2>3. Shown(t)'.spec = Shown(t).spec /\ \A u \in Steps \ {t} : Shown(u)' = Shown(u) BY <2>2, NewVersionFacts
  <2> QED BY <2>3
<1>4. ASSUME NEW e \in Editors, ReadInputs(e) PROVE FALSE
  <2>1. PICK t \in Steps : t = editor[e].step BY <1>4 DEF ReadInputs, Doing, StepsCore, RequestsFollow
  <2> DEFINE row == [version[t][current[t]] EXCEPT !.inputs = CurrentOf(t)]
  <2>2. /\ current[t] \in 1..current[t] /\ row \in Rows /\ row.spec = Shown(t).spec
        /\ version' = Rewritten(version, t, current[t], row)
    BY <1>4, <2>1, ReadFacts
  <2> HIDE DEF row
  <2>3. current' = current BY <1>4 DEF ReadInputs
  <2>4. \A u \in Steps \ {t} : Shown(u)' = Shown(u) BY <1>0, <2>2, <2>3, RowChanged
  <2>5. Shown(t)' = row BY <1>0, <2>2, <2>3, RowChanged
  <2> QED BY <2>2, <2>4, <2>5
<1>5. ASSUME NEW e \in Editors, NEW st \in {"ok", "failed"}, Finish(e, st) PROVE FALSE
  <2>1. PICK t \in Steps : t = editor[e].step BY <1>5 DEF Finish, Doing, StepsCore, RequestsFollow
  <2> DEFINE n == editor[e].read
             row == Finished(version[t][n], st, editor[e].from)
  <2>2. n \in 1..current[t] /\ row \in Rows /\ row.spec = version[t][n].spec BY <1>5, <2>1, FinishFacts
  <2>3. version' = Rewritten(version, t, n, row) BY <1>5, <2>1, FinishFacts
  <2> HIDE DEF row
  <2>4. current' = current BY <1>5 DEF Finish
  <2>5. \A u \in Steps \ {t} : Shown(u)' = Shown(u) BY <1>0, <2>2, <2>3, <2>4, RowChanged
  <2>6. Shown(t)' = IF n = current[t] THEN row ELSE Shown(t) BY <1>0, <2>2, <2>3, <2>4, RowChanged
  <2>7. Shown(t)'.spec = Shown(t).spec BY <2>2, <2>6 DEF Shown
  <2> QED BY <2>5, <2>7
<1>6. UNCHANGED <<current, version>> => FALSE BY DEF Shown
<1>7. ASSUME NEW e \in Editors, CommitFails(e) \/ RequestDies(e) \/ \E t \in Steps : BeginNext(e, t) \/ BeginRerun(e, t)
      PROVE FALSE
  BY <1>6, <1>7 DEF CommitFails, RequestDies, BeginNext, BeginRerun, rows
<1>8. ~Recheck BY <1>6 DEF Recheck
<1>9. ASSUME NEW e \in Editors, Goon(e) PROVE FALSE
  BY <1>3, <1>4, <1>5, <1>7, <1>9 DEF Goon, FinishVerified, FinishFailed, FinishRecorded
<1>10. PICK e \in Editors, t \in Steps : Edit(e, t) BY <1>2, <1>7, <1>8, <1>9 DEF StepsNext
<1> QED BY <1>1, <1>10

\* What is shown of a step is what its last editor wrote: whatever overlaps, a re-run copies
\* the spec of a version only while that version is the current one (services/steps.py).
THEOREM EditStaysAlways == StepsSpec => EditStays
<1> DEFINE Kept == \A s \in Steps : Exists(s) /\ Shown(s).spec # (Shown(s).spec)'
                                        => \E e \in Editors : (Shown(s).spec)' = e /\ Edit(e, s)
<1>1. StepsCore /\ [StepsNext]_stepsVars => [Kept]_stepsVars
  <2> SUFFICES ASSUME StepsCore, StepsNext PROVE Kept OBVIOUS
  <2> QED BY SpecNext
<1>2. StepsSpec => [][Kept]_stepsVars BY <1>1, StepsSafe, PTL DEF StepsSpec
<1> QED BY <1>2 DEF EditStays

-----------------------------------------------------------------------------
(* AskTurns: the values its steps write *)

USE AskAssumption

Keys == [status : {"none", "in_progress", "completed"}, turn : Attempts \cup {Nobody}, lapsed : BOOLEAN]
AskRequests == [pc : Ended \cup {"idle", "found", "again", "claimed", "asking", "gone"}, turn : Attempts \cup {Nobody}]

LEMMA KeyValues ==
  /\ NoKey \in Keys /\ NoKey.status = "none" /\ NoKey.turn = Nobody /\ NoKey.lapsed = FALSE
  /\ Claimed \in Keys /\ Claimed.status = "in_progress" /\ Claimed.turn = Nobody /\ Claimed.lapsed = FALSE
  /\ \A a \in Attempts : LET k == CompletedBy(a) IN
        k \in Keys /\ k.status = "completed" /\ k.turn = a /\ k.lapsed = FALSE
  BY DEF Keys, NoKey, Claimed, CompletedBy

\* A request that goes on keeps the turn it was served, and no other request moves.
Moves(a, pc) ==
    /\ request' \in [Attempts -> AskRequests]
    /\ request'[a].pc = pc /\ request'[a].turn = request[a].turn
    /\ \A b \in Attempts : b # a => request'[b] = request[b]

LEMMA GoMoves ==
  ASSUME TypeOK, NEW a \in Attempts, NEW pc \in Ended \cup {"idle", "found", "again", "claimed", "asking", "gone"}, Go(a, pc)
  PROVE  Moves(a, pc)
  <1>1. request \in [Attempts -> AskRequests]
    BY DEF TypeOK, AskRequests
  <1>2. request' = [request EXCEPT ![a].pc = pc]
    BY DEF Go
  <1>3. [request[a] EXCEPT !.pc = pc] \in AskRequests
    BY <1>1 DEF AskRequests
  <1>4. request'[a] = [request[a] EXCEPT !.pc = pc]
    BY <1>1, <1>2
  <1>5. request' \in [Attempts -> AskRequests] /\ \A b \in Attempts : b # a => request'[b] = request[b]
    BY <1>1, <1>2, <1>3
  <1> QED BY <1>1, <1>4, <1>5 DEF Moves, AskRequests

-----------------------------------------------------------------------------
(* How the parts of the invariant are kept *)

EndedTurns == {a \in Attempts : turn[a] \in {"answered", "refused"}}

\* The turns that are named: by the record, and to those who were served.
NamedEnded ==
    /\ key.turn \in EndedTurns \cup {Nobody}
    /\ \A b \in Attempts : request[b].turn \in EndedTurns \cup {Nobody}

LEMMA Named == ASSUME TypeOK PROVE ReplayIsEnded <=> NamedEnded
  <1>1. key.turn \in Attempts \cup {Nobody} /\ \A b \in Attempts : request[b].turn \in Attempts \cup {Nobody}
    BY DEF TypeOK
  <1>2. ASSUME ReplayIsEnded PROVE NamedEnded
    <2>1. \A a \in ({key.turn} \cup {request[b].turn : b \in Attempts}) \ {Nobody} : turn[a] \in {"answered", "refused"}
      BY <1>2 DEF ReplayIsEnded
    <2> QED BY <1>1, <2>1 DEF NamedEnded, EndedTurns
  <1>3. ASSUME NamedEnded PROVE ReplayIsEnded
    BY <1>3 DEF ReplayIsEnded, NamedEnded, EndedTurns
  <1> QED BY <1>2, <1>3

\* What the invariant says of what is read, without its two consequences.
AskCore == TypeOK /\ NamedEnded /\ HeldByOne /\ TurnFollowsWork

LEMMA AskCoreIsInv == AskCore <=> AskInv
  <1>1. HeldByOne => AskedOnce
    BY DEF HeldByOne, AskedOnce, Claimants
  <1> QED BY <1>1, Named DEF AskCore, AskInv

\* An ended turn that nobody reopens stays ended.
LEMMA StillEnded ==
  ASSUME NamedEnded, EndedTurns \subseteq EndedTurns',
         key'.turn \in {key.turn, Nobody} \cup EndedTurns',
         \A b \in Attempts : request'[b].turn = request[b].turn
  PROVE  NamedEnded'
  BY DEF NamedEnded

-----------------------------------------------------------------------------
(* claim *)

LEMMA AskInitCore == Init => AskCore
  <1> SUFFICES ASSUME Init PROVE AskCore OBVIOUS
  <1>1. request \in [Attempts -> AskRequests]
    BY DEF Init, AskRequests
  <1>2. TypeOK
    BY <1>1, KeyValues DEF Init, TypeOK, Keys, AskRequests
  <1>3. NamedEnded
    BY KeyValues DEF Init, NamedEnded
  <1>4. HeldByOne /\ TurnFollowsWork
    BY KeyValues DEF Init, HeldByOne, TurnFollowsWork, Claimants
  <1> QED BY <1>2, <1>3, <1>4 DEF AskCore

\* Whoever takes the record while nobody holds it, or from one whose lease is over, is the
\* only claimant that has not given up.
LEMMA ClaimKeeps ==
  ASSUME AskCore, NEW a \in Attempts, Claim(a)
  PROVE  AskCore'
  <1>0. /\ request \in [Attempts -> AskRequests] /\ key \in Keys
        /\ holder \in Attempts \cup {Nobody} /\ given \in SUBSET Attempts
    BY DEF AskCore, TypeOK, AskRequests, Keys
  <1>1. /\ request[a].pc \in {"idle", "found", "again"} /\ work[a] = "none" /\ turn[a] = "none"
        /\ UNCHANGED <<work, turn, old, events>>
    BY DEF Claim, Insert, Gone, Replay, TakeOver, InProgress, InsertAgain, At, AskCore, TurnFollowsWork
  <1>2. CASE Replay(a)
    <2>1. /\ key.status = "completed" /\ key.turn \in Attempts /\ UNCHANGED <<key, holder, given>>
          /\ request' = [request EXCEPT ![a] = [pc |-> "served", turn |-> key.turn]]
      BY <1>0, <1>2 DEF Replay, AskCore, TypeOK
    <2>2. [pc |-> "served", turn |-> key.turn] \in AskRequests
      BY <2>1 DEF AskRequests, Ended
    <2>3. /\ request' \in [Attempts -> AskRequests] /\ request'[a].pc = "served" /\ request'[a].turn = key.turn
          /\ \A b \in Attempts : b # a => request'[b] = request[b]
      BY <1>0, <2>1, <2>2
    <2>4. TypeOK'
      BY <1>1, <2>1, <2>3 DEF AskCore, TypeOK, AskRequests
    <2>5. NamedEnded'
      BY <1>1, <2>1, <2>3 DEF AskCore, NamedEnded, EndedTurns
    <2>6. HeldByOne' /\ TurnFollowsWork'
      BY <1>1, <2>1, <2>3 DEF AskCore, HeldByOne, TurnFollowsWork, Claimants
    <2> QED BY <2>4, <2>5, <2>6 DEF AskCore
  <1>3. CASE UNCHANGED <<key, holder, given>> /\ \E pc \in {"idle", "found", "again"} : Go(a, pc)
    <2>1. PICK pc \in {"idle", "found", "again"} : Go(a, pc)
      BY <1>3
    <2>2. Moves(a, pc)
      BY <2>1, GoMoves DEF AskCore
    <2>3. TypeOK'
      BY <1>1, <1>3, <2>2 DEF AskCore, TypeOK, AskRequests, Moves
    <2>4. NamedEnded'
      BY <1>1, <1>3, <2>2, <2>3, StillEnded DEF AskCore, Moves, EndedTurns
    <2>5. HeldByOne' /\ TurnFollowsWork'
      BY <1>1, <1>3, <2>1, <2>2 DEF AskCore, HeldByOne, TurnFollowsWork, Claimants, Moves
    <2> QED BY <2>3, <2>4, <2>5 DEF AskCore
  <1>4. CASE /\ Go(a, "claimed") /\ key' = Claimed /\ holder' = a
             /\ given' \in SUBSET Attempts /\ given \subseteq given'
             /\ holder \in given' \cup {Nobody}
    <2>1. Moves(a, "claimed")
      BY <1>4, GoMoves DEF AskCore
    <2>2. TypeOK'
      BY <1>1, <1>4, <2>1, KeyValues DEF AskCore, TypeOK, Keys, AskRequests, Moves
    <2>3. NamedEnded'
      BY <1>1, <1>4, <2>1, <2>2, StillEnded, KeyValues DEF AskCore, Moves, EndedTurns
    <2>4. \A b \in Claimants \ given : b \in given'
      BY <1>0, <1>4 DEF AskCore, HeldByOne, Claimants
    <2>5. Claimants' \subseteq Claimants \cup {a}
      BY <1>1, <2>1 DEF Claimants, Moves
    <2>6. HeldByOne'
      BY <1>4, <2>4, <2>5, KeyValues DEF HeldByOne
    <2>7. TurnFollowsWork'
      BY <1>1, <2>1 DEF AskCore, TurnFollowsWork, Moves
    <2> QED BY <2>2, <2>3, <2>6, <2>7 DEF AskCore
  <1>5. CASE Go(a, "claimed") /\ UNCHANGED <<key, holder>> /\ given' = given \cup {a}
    <2>1. Moves(a, "claimed")
      BY <1>5, GoMoves DEF AskCore
    <2>2. TypeOK'
      BY <1>1, <1>5, <2>1 DEF AskCore, TypeOK, AskRequests, Moves
    <2>3. NamedEnded'
      BY <1>1, <1>5, <2>1, <2>2, StillEnded DEF AskCore, Moves, EndedTurns
    <2>4. HeldByOne' /\ TurnFollowsWork'
      BY <1>1, <1>5, <2>1 DEF AskCore, HeldByOne, TurnFollowsWork, Claimants, Moves
    <2> QED BY <2>2, <2>3, <2>4 DEF AskCore
  <1>6. CASE Insert(a)
    <2>1. key.status = "none" => holder = Nobody
      BY DEF AskCore, HeldByOne
    <2> QED BY <1>0, <1>3, <1>4, <1>6, <2>1 DEF Insert
  <1>7. CASE InsertAgain(a)
    <2>1. key.status = "none" => holder = Nobody
      BY DEF AskCore, HeldByOne
    <2> QED BY <1>0, <1>4, <1>5, <1>7, <2>1 DEF InsertAgain
  <1>8. CASE TakeOver(a)
    <2>1. key.status = "in_progress" /\ key.lapsed /\ holder \in Attempts
      BY <1>0, <1>8 DEF TakeOver, MayTakeOver, AskCore, HeldByOne
    <2>2. Go(a, "claimed") /\ key' = Claimed /\ holder' = a /\ given' = given \cup {holder}
      BY <1>8, <2>1 DEF TakeOver
    <2> QED BY <1>0, <1>4, <2>1, <2>2
  <1>9. CASE Gone(a) \/ InProgress(a)
    BY <1>3, <1>9 DEF Gone, InProgress
  <1> QED BY <1>2, <1>6, <1>7, <1>8, <1>9 DEF Claim

-----------------------------------------------------------------------------
(* The question and its turn *)

\* An attempt asks once, with its own turn, and only while the request is past its claim.
LEMMA AskKeeps ==
  ASSUME AskCore, NEW a \in Attempts, CreateTurn(a) \/ CreateFails(a)
  PROVE  AskCore'
  <1>1. /\ request[a].pc = "claimed" /\ turn[a] = "none" /\ UNCHANGED <<key, old, holder, given>>
        /\ Go(a, "asking")
        /\ \A b \in Attempts : b # a => work'[b] = work[b] /\ turn'[b] = turn[b]
        /\ work'[a] \in {"asking", "failed"} /\ turn'[a] \in {"none", "running"}
        /\ work' \in [Attempts -> {"none", "asking", "failing", "done", "failed", "dead"}]
        /\ turn' \in [Attempts -> {"none", "running", "answered", "refused"}]
        /\ events' \in 0..MaxEvents
    BY DEF CreateTurn, CreateFails, At, Count, AskCore, TypeOK, TurnFollowsWork
  <1>2. Moves(a, "asking")
    BY <1>1, GoMoves DEF AskCore
  <1>3. TypeOK'
    BY <1>1, <1>2 DEF AskCore, TypeOK, Moves, AskRequests
  <1>4. NamedEnded'
    BY <1>1, <1>2, StillEnded DEF AskCore, Moves, EndedTurns
  <1>5. HeldByOne'
    BY <1>1, <1>2 DEF AskCore, HeldByOne, Claimants, Moves
  <1>6. TurnFollowsWork'
    BY <1>1, <1>2 DEF AskCore, TurnFollowsWork, Moves
  <1> QED BY <1>3, <1>4, <1>5, <1>6 DEF AskCore

\* The worker's writes, and the sweep's: a turn that ended is not touched again.
LEMMA WorkKeeps ==
  ASSUME AskCore, Sweep \/ \E a \in Attempts : Work(a) \/ PersistFails(a)
  PROVE  /\ AskCore' /\ UNCHANGED key
         /\ \A a \in Attempts : turn[a] = "answered" => turn'[a] = "answered"
  <1>0. /\ work \in [Attempts -> {"none", "asking", "failing", "done", "failed", "dead"}]
        /\ turn \in [Attempts -> {"none", "running", "answered", "refused"}]
        /\ \A a \in Attempts : turn[a] = "answered" => work[a] = "done"
    BY DEF AskCore, TypeOK, TurnFollowsWork
  <1> DEFINE Writes ==
               \A a \in Attempts :
                  \/ work'[a] = work[a] /\ turn'[a] = turn[a]
                  \/ work[a] = "asking" /\ work'[a] = "done" /\ turn'[a] \in {"answered", "refused"}
                  \/ work[a] = "asking" /\ work'[a] = "failing" /\ turn'[a] = turn[a]
                  \/ work[a] = "failing" /\ work'[a] = "failed" /\ turn'[a] = turn[a]
                  \/ work[a] = "failing" /\ work'[a] = "failed" /\ turn[a] = "running" /\ turn'[a] = "refused"
                  \/ work'[a] = work[a] /\ turn[a] = "running" /\ turn'[a] = "refused"
  <1>1. UNCHANGED <<key, request, old, holder, given>> /\ events' \in 0..MaxEvents
    BY DEF Sweep, Work, Persist, MarkFailed, PersistFails, Count, AskCore, TypeOK
  <1>2. /\ work' \in [Attempts -> {"none", "asking", "failing", "done", "failed", "dead"}]
        /\ turn' \in [Attempts -> {"none", "running", "answered", "refused"}] /\ Writes
    <2>1. CASE Sweep
      BY <1>0, <2>1 DEF Sweep, Stale
    <2>2. ASSUME NEW a \in Attempts, MarkFailed(a)
          PROVE  <1>2
      BY <1>0, <2>2 DEF MarkFailed
    <2>3. ASSUME NEW a \in Attempts, NEW outcome \in {"answered", "refused"}, Persist(a, outcome)
          PROVE  <1>2
      BY <1>0, <2>3 DEF Persist
    <2>4. ASSUME NEW a \in Attempts, PersistFails(a)
          PROVE  <1>2
      BY <1>0, <2>4 DEF PersistFails
    <2> QED BY <2>1, <2>2, <2>3, <2>4 DEF Work
  <1>3. \A a \in Attempts : /\ turn[a] \in {"answered", "refused"} => turn'[a] \in {"answered", "refused"}
                            /\ turn[a] = "none" /\ turn'[a] # "none" => work[a] = "asking"
                            /\ work[a] = "none" => work'[a] = "none"
                            /\ turn[a] = "answered" => turn'[a] = "answered" /\ work'[a] = "done"
                            /\ turn'[a] = "answered" => work'[a] = "done"
                            /\ work'[a] = "done" => turn'[a] \in {"answered", "refused"}
    BY <1>0, <1>2 DEF AskCore, TurnFollowsWork
  <1> HIDE DEF Writes
  <1>4. TypeOK'
    BY <1>1, <1>2 DEF AskCore, TypeOK
  <1>5. NamedEnded'
    <2>1. EndedTurns \subseteq EndedTurns'
      BY <1>3 DEF EndedTurns
    <2> QED BY <1>1, <2>1, StillEnded DEF AskCore
  <1>6. \A a \in Attempts : work[a] = "asking" => request[a].pc \in {"asking", "gone", "answered", "failed"}
    <2>1. request \in [Attempts -> AskRequests]
      BY DEF AskCore, TypeOK, AskRequests
    <2> QED BY <2>1 DEF AskCore, TurnFollowsWork, AskRequests, Ended
  <1>7. HeldByOne' /\ TurnFollowsWork'
    <2>1. Claimants' \subseteq Claimants
      BY <1>1, <1>3, <1>6 DEF Claimants
    <2>2. HeldByOne'
      BY <1>1, <2>1 DEF AskCore, HeldByOne
    <2>3. TurnFollowsWork'
      BY <1>1, <1>2, <1>3 DEF AskCore, TurnFollowsWork
    <2> QED BY <2>2, <2>3
  <1> QED BY <1>1, <1>3, <1>4, <1>5, <1>7 DEF AskCore

-----------------------------------------------------------------------------
(* Settling, faults and time *)

\* AskRequests that end, or lose their client: none becomes a claimant.
LEMMA EndsKeep ==
  ASSUME AskCore, NEW a \in Attempts, NEW pc \in {"answered", "failed", "gone"},
         request[a].pc \in {"claimed", "asking", "gone"}, Go(a, pc),
         UNCHANGED <<turn, old, holder, given>>, events' \in 0..MaxEvents,
         work' \in [Attempts -> {"none", "asking", "failing", "done", "failed", "dead"}],
         \A b \in Attempts : work'[b] = work[b] \/ (work[b] \in {"asking", "failing"} /\ work'[b] = "dead"),
         \/ key' = key
         \/ key.status # "none" /\ work[a] = "done" /\ key' = CompletedBy(a)
  PROVE  AskCore'
  <1>1. Moves(a, pc)
    BY GoMoves DEF AskCore, Ended
  <1>2. TypeOK'
    BY <1>1, KeyValues DEF AskCore, TypeOK, Moves, AskRequests, Keys
  <1>3. NamedEnded'
    <2>1. key'.turn = key.turn \/ (key'.turn = a /\ turn[a] \in {"answered", "refused"})
      BY KeyValues DEF AskCore, TurnFollowsWork
    <2> QED BY <1>1, <2>1, StillEnded DEF AskCore, Moves, EndedTurns
  <1>4. HeldByOne'
    <2>1. Claimants' \subseteq Claimants
      BY <1>1 DEF Claimants, Moves
    <2>2. key'.status = "none" <=> key.status = "none"
      BY KeyValues
    <2> QED BY <2>1, <2>2 DEF AskCore, HeldByOne
  <1>5. TurnFollowsWork'
    BY <1>1 DEF AskCore, TurnFollowsWork, Moves
  <1> QED BY <1>2, <1>3, <1>4, <1>5 DEF AskCore

\* A record that is deleted takes the claim of its holder with it.
LEMMA DeletedKeeps ==
  ASSUME AskCore, key' = NoKey, holder' = Nobody, given' \in SUBSET Attempts,
         given \cup ({holder} \ {Nobody}) \subseteq given',
         UNCHANGED <<turn, old, work>>, events' \in 0..MaxEvents,
         request' \in [Attempts -> AskRequests],
         \A b \in Attempts : /\ request'[b].turn = request[b].turn
                             /\ request'[b].pc = request[b].pc
                                \/ (request[b].pc \in {"asking", "gone"} /\ request'[b].pc = "failed")
  PROVE  AskCore'
  <1>1. TypeOK'
    <2>1. key' \in Keys /\ key'.status = "none" /\ key'.turn = Nobody /\ key'.lapsed = FALSE
      BY KeyValues
    <2>2. given' \in SUBSET Attempts /\ request' \in [Attempts -> AskRequests]
      OBVIOUS
    <2> QED BY <2>1, <2>2 DEF AskCore, TypeOK, AskRequests, Keys
  <1>2. NamedEnded'
    BY StillEnded, KeyValues DEF AskCore, EndedTurns
  <1>3. HeldByOne'
    <2>1. Claimants' \subseteq Claimants
      BY DEF Claimants
    <2>2. Claimants \ given \subseteq given'
      BY DEF AskCore, HeldByOne, Claimants
    <2> QED BY <2>1, <2>2, KeyValues DEF HeldByOne
  <1>4. TurnFollowsWork'
    BY DEF AskCore, TurnFollowsWork
  <1> QED BY <1>1, <1>2, <1>3, <1>4 DEF AskCore

LEMMA ReleaseKeeps ==
  ASSUME AskCore, NEW a \in Attempts, Release(a)
  PROVE  AskCore'
  <1>0. given \in SUBSET Attempts /\ holder \in Attempts \cup {Nobody} /\ events \in 0..MaxEvents
        /\ work \in [Attempts -> {"none", "asking", "failing", "done", "failed", "dead"}]
    BY DEF AskCore, TypeOK
  <1>1. /\ request[a].pc \in {"asking", "gone"} /\ Go(a, "failed") /\ UNCHANGED <<work, turn, old, events>>
    BY DEF Release, At
  <1>2. Moves(a, "failed")
    BY <1>1, GoMoves DEF AskCore, Ended
  <1>3. CASE ~Deleted
    <2>1. key' = key /\ holder' = holder /\ given' = given
      BY <1>3 DEF Release
    <2> QED BY <1>0, <1>1, <2>1, EndsKeep
  <1>4. CASE Deleted
    <2>1. key' = NoKey /\ holder' = Nobody /\ holder # Nobody
      BY <1>4 DEF Release, Deleted, AskCore, HeldByOne
    <2>2. given' = IF a \in given THEN given \cup {holder} ELSE given \cup {a}
      BY <1>4 DEF Release
    <2>3. a \in given \/ holder = a
      BY <1>1 DEF AskCore, HeldByOne, Claimants
    <2>4. given' \in SUBSET Attempts /\ given \cup ({holder} \ {Nobody}) \subseteq given'
      BY <1>0, <2>1, <2>2, <2>3
    <2> QED BY <1>0, <1>1, <1>2, <2>1, <2>4, DeletedKeeps DEF Moves
  <1> QED BY <1>3, <1>4

LEMMA TimeKeeps ==
  ASSUME AskCore, LeaseRunsOut \/ Purge \/ \E a \in Attempts : Age(a)
  PROVE  AskCore'
  <1>0. given \in SUBSET Attempts /\ holder \in Attempts \cup {Nobody} /\ events \in 0..MaxEvents /\ key \in Keys
        /\ request \in [Attempts -> AskRequests]
    BY DEF AskCore, TypeOK, Keys, AskRequests
  <1>1. CASE Purge
    <2>1. /\ key' = NoKey /\ holder' = Nobody /\ UNCHANGED <<request, work, turn, old>>
          /\ given' = given \cup ({key.turn, holder} \ {Nobody}) /\ events' \in 0..MaxEvents
      BY <1>0, <1>1 DEF Purge, Count
    <2>2. given' \in SUBSET Attempts /\ given \cup ({holder} \ {Nobody}) \subseteq given'
      BY <1>0, <2>1 DEF Keys
    <2> QED BY <1>0, <2>1, <2>2, DeletedKeeps
  <1>2. CASE LeaseRunsOut
    <2>1. /\ key' \in Keys /\ key'.status = "in_progress" /\ key.status = "in_progress" /\ key'.turn = key.turn
          /\ UNCHANGED <<request, work, turn, old, holder, given, events>>
      BY <1>0, <1>2 DEF LeaseRunsOut, Keys
    <2>2. TypeOK'
      BY <2>1 DEF AskCore, TypeOK, Keys
    <2>3. NamedEnded'
      BY <2>1, StillEnded DEF AskCore, EndedTurns
    <2> QED BY <2>1, <2>2, <2>3 DEF AskCore, HeldByOne, TurnFollowsWork, Claimants
  <1>3. ASSUME NEW a \in Attempts, Age(a) PROVE AskCore'
    <2>1. old' \in [Attempts -> BOOLEAN] /\ UNCHANGED <<key, request, work, turn, holder, given, events>>
      BY <1>3 DEF Age, AskCore, TypeOK
    <2> QED BY <2>1 DEF AskCore, TypeOK, HeldByOne, TurnFollowsWork, Claimants, NamedEnded, EndedTurns
  <1> QED BY <1>1, <1>2, <1>3

LEMMA FaultKeeps ==
  ASSUME AskCore, NEW a \in Attempts, SettleFails(a) \/ Disconnect(a) \/ Die(a)
  PROVE  AskCore'
  <1>0. work \in [Attempts -> {"none", "asking", "failing", "done", "failed", "dead"}]
    BY DEF AskCore, TypeOK
  <1>1. /\ UNCHANGED <<key, turn, old, holder, given>> /\ events' \in 0..MaxEvents
        /\ work' \in [Attempts -> {"none", "asking", "failing", "done", "failed", "dead"}]
        /\ \A b \in Attempts : work'[b] = work[b] \/ (work[b] \in {"asking", "failing"} /\ work'[b] = "dead")
    BY <1>0 DEF SettleFails, Disconnect, Die, Count, AskCore, TypeOK
  <1>2. CASE request[a].pc \in {"claimed", "asking", "gone"}
    <2>1. Go(a, "gone") \/ Go(a, "failed")
      BY <1>2 DEF SettleFails, Disconnect, Die
    <2> QED BY <1>1, <1>2, <2>1, EndsKeep
  <1>3. CASE request[a].pc \notin {"claimed", "asking", "gone"}
    <2>1. Go(a, request[a].pc) /\ request[a].pc \in Ended \cup {"idle", "found", "again", "claimed", "asking", "gone"}
      BY <1>3 DEF SettleFails, Disconnect, Die, At, AskCore, TypeOK
    <2>2. Moves(a, request[a].pc)
      BY <2>1, GoMoves DEF AskCore
    <2>3. \A b \in Attempts : request'[b].pc = request[b].pc /\ request'[b].turn = request[b].turn
      BY <2>2 DEF Moves
    <2>4. TypeOK'
      BY <1>1, <2>2 DEF AskCore, TypeOK, Moves, AskRequests
    <2>5. NamedEnded'
      BY <1>1, <2>3, StillEnded DEF AskCore, EndedTurns
    <2>6. HeldByOne' /\ TurnFollowsWork'
      BY <1>1, <2>3 DEF AskCore, HeldByOne, TurnFollowsWork, Claimants
    <2> QED BY <2>4, <2>5, <2>6 DEF AskCore
  <1> QED BY <1>2, <1>3

LEMMA CompleteKeeps ==
  ASSUME AskCore, NEW a \in Attempts, Complete(a)
  PROVE  AskCore'
  <1>1. /\ request[a].pc = "asking" /\ work[a] = "done" /\ Go(a, "answered")
        /\ UNCHANGED <<work, turn, old, holder, given, events>>
        /\ key' = key \/ (key.status # "none" /\ key' = CompletedBy(a))
    BY DEF Complete, Ready, At
  <1>2. events \in 0..MaxEvents /\ work \in [Attempts -> {"none", "asking", "failing", "done", "failed", "dead"}]
    BY DEF AskCore, TypeOK
  <1> QED BY <1>1, <1>2, EndsKeep

LEMMA AskNextCore == AskCore /\ [Next]_vars => AskCore'
  <1> SUFFICES ASSUME AskCore, [Next]_vars PROVE AskCore' OBVIOUS
  <1>1. CASE Next
    BY <1>1, ClaimKeeps, AskKeeps, WorkKeeps, CompleteKeeps, ReleaseKeeps, TimeKeeps, FaultKeeps
       DEF Next, Step, Fault
  <1>2. CASE UNCHANGED vars
    BY <1>2 DEF vars, AskCore, TypeOK, NamedEnded, EndedTurns, HeldByOne, Claimants, TurnFollowsWork
  <1> QED BY <1>1, <1>2

-----------------------------------------------------------------------------
(* The theorems *)

\* "a retry of the same question returns the turn the first request produced": whoever takes
\* the key over, releases it, purges it or finds it gone, of two attempts that asked one had
\* given up its claim, and what a replay names has ended.
THEOREM Invariance == Spec => []AskInv
  <1>1. Spec => []AskCore
    BY AskInitCore, AskNextCore, PTL DEF Spec
  <1> QED BY <1>1, AskCoreIsInv, PTL

\* "the same key and body after completion -> replay (the original resource)", and the sweep
\* takes no answer back.
THEOREM AnswersStayAlways == Spec => AnswersStay
  <1> DEFINE Kept == key.status = "completed" =>
                       \/ key' = key \/ Purge
                       \/ key'.status = "completed" /\ (key.turn \in given \/ key'.turn \in given)
             Answered == \A a \in Attempts : turn[a] = "answered" => turn'[a] = "answered"
  <1>1. Spec => []AskCore
    BY AskInitCore, AskNextCore, PTL DEF Spec
  <1>2. AskCore /\ [Next]_vars => [Kept]_vars
    <2> SUFFICES ASSUME AskCore, Next, key.status = "completed", key' # key, ~Purge
                 PROVE  key'.status = "completed" /\ (key.turn \in given \/ key'.turn \in given)
      OBVIOUS
    <2>1. PICK a \in Attempts : Complete(a)
      BY DEF Next, LeaseRunsOut, Sweep, Step, Claim, Insert, Gone, Replay, TakeOver, MayTakeOver, InProgress, InsertAgain,
             CreateTurn, Release, Deleted, Work, Persist, MarkFailed, Age, Fault, CreateFails, PersistFails,
             SettleFails, Disconnect, Die
    <2>2. key' = CompletedBy(a) /\ turn[a] # "none"
      BY <2>1 DEF Complete, Ready, AskCore, TurnFollowsWork
    <2>3. key.turn \in Attempts /\ turn[key.turn] # "none" /\ key.lapsed = FALSE /\ key \in Keys
      BY DEF AskCore, TypeOK, NamedEnded, EndedTurns, Keys
    <2>4. key.turn # a
      BY <2>2, <2>3 DEF CompletedBy, Keys
    <2>5. AskedOnce
      BY AskCoreIsInv DEF AskInv
    <2> QED BY <2>2, <2>3, <2>4, <2>5, KeyValues DEF AskedOnce
  <1>3. AskCore /\ [Next]_vars => [Answered]_vars
    <2> SUFFICES ASSUME AskCore, Next, NEW a \in Attempts, turn[a] = "answered" PROVE turn'[a] = "answered"
      OBVIOUS
    <2>1. CASE Sweep \/ \E b \in Attempts : Work(b) \/ PersistFails(b)
      BY <2>1, WorkKeeps
    <2>2. ASSUME NEW b \in Attempts, CreateTurn(b) PROVE turn'[a] = "answered"
      BY <2>2 DEF CreateTurn, At, AskCore, TypeOK, TurnFollowsWork
    <2>3. CASE UNCHANGED turn
      BY <2>3
    <2> QED BY <2>1, <2>2, <2>3
        DEF Next, LeaseRunsOut, Purge, Step, Claim, Insert, Gone, Replay, TakeOver, InProgress, InsertAgain,
            Complete, Release, Age, Fault, CreateFails, SettleFails, Disconnect, Die
  <1> QED BY <1>1, <1>2, <1>3, PTL DEF Spec, AnswersStay, CompletedStays, AnsweredStays

=============================================================================
