------------------------- MODULE LocalRuntime_proofs -------------------------
(***************************************************************************)
(* Proofs about LocalRuntime, for every number of runs, steps, threads and *)
(* workers: RuntimeInv (no claim of a live run without a worker but a lost *)
(* one, no step executed twice at once, no wake-up lost) and               *)
(* ParkLosesNothing.                                                       *)
(***************************************************************************)
EXTENDS LocalRuntime, FiniteSetTheorems, TLAPS

USE RuntimeAssumption DEF RuntimeAssumption

(* ClaimHasWorker without the cardinality. *)
OneWorker ==
    \A r \in Runs, k \in Steps :
        status[r] = "live" =>
            /\ IF Claimed(r, k) THEN \E t \in Threads : Executing(r, k) = {t} ELSE Executing(r, k) = {}
            /\ <<r, k>> \in lost => row[r][k] = "running"

LEMMA FewThreads ==
    ASSUME NEW S \in SUBSET Threads
    PROVE  /\ Cardinality(S) = 0 <=> S = {}
           /\ Cardinality(S) = 1 <=> \E t \in Threads : S = {t}
<1>1. IsFiniteSet(S) BY FS_Subset
<1>2. Cardinality(S) = 0 <=> S = {} BY <1>1, FS_EmptySet
<1>3. Cardinality(S) = 1 <=> \E t : S = {t} BY <1>1, FS_Singleton
<1> QED BY <1>2, <1>3

LEMMA OneWorkerIsClaim == ClaimHasWorker <=> OneWorker
<1>1. \A r \in Runs, k \in Steps : Executing(r, k) \in SUBSET Threads BY DEF Executing
<1> QED BY <1>1, FewThreads DEF ClaimHasWorker, OneWorker

LEMMA OneWorkerIsClaimNext == ClaimHasWorker' <=> OneWorker'
<1>1. \A r \in Runs, k \in Steps : Executing(r, k)' \in SUBSET Threads BY DEF Executing
<1> QED BY <1>1, FewThreads DEF ClaimHasWorker, OneWorker

LEMMA IdleRow ==
    /\ Idle \in ThreadRows /\ Idle.run = "none" /\ Idle.pc = "free" /\ Idle.outcome = "none"
    /\ NoJobs \in [Steps -> JobStates] /\ \A k \in Steps : NoJobs[k] = "none"
BY DEF Idle, ThreadRows, NoJobs, JobStates

LEMMA InitInv == Init => RuntimeInv
<1> SUFFICES ASSUME Init PROVE RuntimeInv OBVIOUS
<1>0. events \in 0..MaxEvents BY DEF Init
<1>1. TypeOK BY <1>0, IdleRow DEF Init, TypeOK
<1>2. OneWorker BY IdleRow DEF Init, OneWorker, Claimed, Executing
<1>3. Registry /\ Unburdened BY IdleRow DEF Init, Registry, Unburdened
<1>4. DrivenAlone BY IdleRow DEF Init, DrivenAlone, Drivers, Started, Inflight
<1>5. WakeUpKept BY DEF Init, WakeUpKept
<1> QED BY <1>1, <1>2, <1>3, <1>4, <1>5, OneWorkerIsClaim DEF RuntimeInv

-----------------------------------------------------------------------------
(* What the helpers and the handlers leave alone *)

\* Goes moves one thread.
LEMMA GoesRow ==
    ASSUME TypeOK, NEW t \in Threads, NEW pc \in {"polling", "draining", "leaving"},
           NEW outcome \in {"none", "parked", "completed", "cancelled"}, Goes(t, pc, outcome)
    PROVE  /\ thread' \in [Threads -> ThreadRows]
           /\ thread'[t].run = thread[t].run /\ thread'[t].pc = pc /\ thread'[t].outcome = outcome
           /\ \A u \in Threads \ {t} : thread'[u] = thread[u]
<1> DEFINE w == [thread[t] EXCEPT !.pc = pc, !.outcome = outcome]
<1>1. thread' = [thread EXCEPT ![t] = w] BY DEF TypeOK, Goes
<1>2. w \in ThreadRows /\ w.run = thread[t].run /\ w.pc = pc /\ w.outcome = outcome
  <2>1. thread[t] \in ThreadRows BY DEF TypeOK
  <2> QED BY <2>1 DEF ThreadRows
<1> HIDE DEF w
<1> QED BY <1>1, <1>2 DEF TypeOK

\* What a run has to do depends on its own rows.
LEMMA SameWork ==
    ASSUME NEW r \in Runs, status'[r] = status[r], control'[r] = control[r], decided'[r] = decided[r],
           row'[r] = row[r]
    PROVE  HasWork(r)' <=> HasWork(r)
BY DEF HasWork, Waiting, WaitsForUser, Ready, Running, Done

\* The attempts that run stay with the threads and runs they are of.
LEMMA SameWorkers ==
    ASSUME OneWorker, UNCHANGED <<status, row, lost>>,
           \A t \in Threads, k \in Steps, r \in Runs :
               (thread'[t].run = r /\ job'[t][k] = "running") <=> (thread[t].run = r /\ job[t][k] = "running")
    PROVE  OneWorker'
<1>1. \A r \in Runs, k \in Steps : Executing(r, k)' = Executing(r, k) BY DEF Executing
<1> QED BY <1>1 DEF OneWorker, Claimed

\* A driver of a run that is not irregular is its only one.
LEMMA OnlyDriver ==
    ASSUME RuntimeInv, NEW r \in Runs \ irregular, NEW t \in Threads, NEW u \in Threads,
           thread[t].run = r, Started(t), thread[u].run = r, Started(u)
    PROVE  t = u
BY DEF RuntimeInv, DrivenAlone, Drivers

-----------------------------------------------------------------------------
(* Requests *)

\* What the requests share: the run they give work to has its signal.
LEMMA RequestInv ==
    ASSUME RuntimeInv, NEW r \in Runs, signal' = signal \cup {r},
           UNCHANGED <<swept, drivers, nudged, thread, irregular>>,
           TypeOK', OneWorker',
           \A s \in Runs \ {r} : HasWork(s)' <=> HasWork(s),
           \A t \in Threads : Inflight(t)' = Inflight(t) /\ (job[t] = NoJobs => job'[t] = NoJobs)
    PROVE  RuntimeInv'
<1>1. (Registry /\ Unburdened)'
  <2>1. Registry' BY DEF RuntimeInv, Registry
  <2>2. Unburdened' BY DEF RuntimeInv, Unburdened
  <2> QED BY <2>1, <2>2
<1>2. DrivenAlone' BY DEF RuntimeInv, DrivenAlone, Drivers, Started
<1>3. WakeUpKept' BY DEF RuntimeInv, WakeUpKept, Attended
<1> QED BY <1>1, <1>2, <1>3, OneWorkerIsClaimNext DEF RuntimeInv

LEMMA DecideInv ==
    ASSUME RuntimeInv, NEW r \in Runs, Decide(r)
    PROVE  RuntimeInv'
<1>1. TypeOK' BY DEF RuntimeInv, TypeOK, Decide
<1>2. OneWorker' BY OneWorkerIsClaim DEF RuntimeInv, OneWorker, Claimed, Executing, Decide
<1>3. \A s \in Runs \ {r} : HasWork(s)' <=> HasWork(s) BY SameWork DEF RuntimeInv, TypeOK, Decide
<1>4. \A t \in Threads : Inflight(t)' = Inflight(t) BY DEF Decide, Inflight
<1> QED BY <1>1, <1>2, <1>3, <1>4, RequestInv DEF Decide

LEMMA ControlInv ==
    ASSUME RuntimeInv, NEW r \in Runs, NEW c \in {"none", "pause", "cancel"}, Control(r, c)
    PROVE  RuntimeInv'
<1>1. TypeOK' BY DEF RuntimeInv, TypeOK, Control, Event
<1>2. OneWorker' BY OneWorkerIsClaim DEF RuntimeInv, OneWorker, Claimed, Executing, Control
<1>3. \A s \in Runs \ {r} : HasWork(s)' <=> HasWork(s) BY SameWork DEF RuntimeInv, TypeOK, Control
<1>4. \A t \in Threads : Inflight(t)' = Inflight(t) BY DEF Control, Inflight
<1> QED BY <1>1, <1>2, <1>3, <1>4, RequestInv DEF Control

LEMMA ReopenInv ==
    ASSUME RuntimeInv, NEW r \in Runs, Reopen(r)
    PROVE  RuntimeInv'
<1>0. job' = [t \in Threads |-> [k \in Steps |->
                 IF thread[t].run = r /\ job[t][k] = "running" THEN "superseded" ELSE job[t][k]]]
  BY DEF Reopen
<1>a. \A t \in Threads : job[t] \in [Steps -> JobStates] BY DEF RuntimeInv, TypeOK
<1>b. job' \in [Threads -> [Steps -> JobStates]] BY <1>0, <1>a DEF JobStates
<1>1. TypeOK' BY <1>b DEF RuntimeInv, TypeOK, Reopen, Event
<1>2. OneWorker'
  <2> SUFFICES ASSUME NEW s \in Runs, NEW k \in Steps, status'[s] = "live"
               PROVE  /\ IF Claimed(s, k)' THEN \E t \in Threads : Executing(s, k)' = {t}
                         ELSE Executing(s, k)' = {}
                      /\ <<s, k>> \in lost' => row'[s][k] = "running"
    BY DEF OneWorker
  <2>0. <<s, k>> \in lost' <=> <<s, k>> \in lost /\ s # r BY DEF Reopen
  <2>1. CASE s = r
    <3>1. row'[r][k] = "new" BY DEF RuntimeInv, TypeOK, Reopen
    <3>2. Executing(r, k)' = {} BY <1>0 DEF Executing, Reopen
    <3> QED BY <2>0, <2>1, <3>1, <3>2 DEF Claimed
  <2>2. CASE s # r
    <3>1. status'[s] = status[s] /\ row'[s] = row[s] BY <2>2 DEF RuntimeInv, TypeOK, Reopen
    <3>2. Executing(s, k)' = Executing(s, k) BY <1>0, <2>2 DEF Executing, Reopen
    <3>3. Claimed(s, k)' <=> Claimed(s, k) BY <2>0, <2>2, <3>1 DEF Claimed
    <3> QED BY <2>0, <2>2, <3>1, <3>2, <3>3, OneWorkerIsClaim DEF RuntimeInv, OneWorker
  <2> QED BY <2>1, <2>2
<1>3. \A s \in Runs \ {r} : HasWork(s)' <=> HasWork(s) BY SameWork DEF RuntimeInv, TypeOK, Reopen
<1>4. ASSUME NEW t \in Threads PROVE Inflight(t)' = Inflight(t) /\ (job[t] = NoJobs => job'[t] = NoJobs)
  BY <1>0, <1>a, IdleRow DEF Inflight, NoJobs
<1>5. signal' = signal \cup {r} /\ UNCHANGED <<swept, drivers, nudged, thread, irregular>> BY DEF Reopen
<1> QED BY <1>1, <1>2, <1>3, <1>4, <1>5, RequestInv

-----------------------------------------------------------------------------
(* Submitting *)

\* A driver that is alive gets a nudge; otherwise a free thread is registered.
LEMMA SubmitRow ==
    ASSUME RuntimeInv, NEW r \in Runs, Submit(r)
    PROVE  \/ Alive(r) /\ nudged' = nudged \cup {r} /\ UNCHANGED <<drivers, thread>>
           \/ /\ ~Alive(r) /\ nudged' = nudged
              /\ \E t \in Threads :
                    /\ thread[t] = Idle /\ job[t] = NoJobs /\ drivers' = [drivers EXCEPT ![r] = t]
                    /\ thread' \in [Threads -> ThreadRows]
                    /\ thread'[t].run = r /\ thread'[t].pc = "registered" /\ thread'[t].outcome = "none"
                    /\ \A u \in Threads \ {t} : thread'[u] = thread[u]
<1>1. ASSUME NEW t \in Threads, Free(t), ~Alive(r), nudged' = nudged, drivers' = [drivers EXCEPT ![r] = t],
             thread' = [thread EXCEPT ![t] = [run |-> r, pc |-> "registered", outcome |-> "none"]]
      PROVE  /\ thread[t] = Idle /\ job[t] = NoJobs
             /\ thread' \in [Threads -> ThreadRows]
             /\ thread'[t].run = r /\ thread'[t].pc = "registered" /\ thread'[t].outcome = "none"
             /\ \A u \in Threads \ {t} : thread'[u] = thread[u]
  <2> DEFINE w == [run |-> r, pc |-> "registered", outcome |-> "none"]
  <2>1. w \in ThreadRows /\ w.run = r /\ w.pc = "registered" /\ w.outcome = "none" BY DEF ThreadRows
  <2>2. thread' = [thread EXCEPT ![t] = w] BY <1>1
  <2> HIDE DEF w
  <2> QED BY <1>1, <2>1, <2>2 DEF RuntimeInv, TypeOK, Free
<1> QED BY <1>1 DEF Submit

\* What is about to be submitted is attended until it is.
LEMMA SubmitInv ==
    ASSUME RuntimeInv, NEW r \in Runs, Submit(r), UNCHANGED <<database, job, irregular, lost, events>>,
           signal' \in SUBSET Runs, swept' \in SUBSET Runs, (signal \cup swept) \ {r} \subseteq signal' \cup swept'
    PROVE  RuntimeInv'
<1>1. \A s \in Runs : HasWork(s)' <=> HasWork(s) BY SameWork DEF database
<1>2. \A t \in Threads : Inflight(t)' = Inflight(t) BY DEF Inflight
<1>3. CASE Alive(r) /\ nudged' = nudged \cup {r} /\ UNCHANGED <<drivers, thread>>
  <2>1. TypeOK' BY <1>3 DEF RuntimeInv, TypeOK, database
  <2>2. OneWorker' BY <1>3, OneWorkerIsClaim DEF RuntimeInv, OneWorker, Claimed, Executing, database
  <2>3. (Registry /\ Unburdened)'
    <3>1. Registry' BY <1>3 DEF RuntimeInv, Registry
    <3>2. Unburdened' BY <1>3 DEF RuntimeInv, Unburdened
    <3> QED BY <3>1, <3>2
  <2>4. DrivenAlone' BY <1>2, <1>3 DEF RuntimeInv, DrivenAlone, Drivers, Started
  <2>5. WakeUpKept' BY <1>1, <1>3 DEF RuntimeInv, WakeUpKept, Attended
  <2> QED BY <2>1, <2>2, <2>3, <2>4, <2>5, OneWorkerIsClaimNext DEF RuntimeInv
<1>4. CASE ~Alive(r) /\ nudged' = nudged
  <2>1. PICK t \in Threads :
          /\ thread[t] = Idle /\ job[t] = NoJobs /\ drivers' = [drivers EXCEPT ![r] = t]
          /\ thread' \in [Threads -> ThreadRows]
          /\ thread'[t].run = r /\ thread'[t].pc = "registered" /\ thread'[t].outcome = "none"
          /\ \A u \in Threads \ {t} : thread'[u] = thread[u]
    BY <1>4, SubmitRow
  <2>2. /\ drivers' \in [Runs -> Threads \cup {"none"}] /\ drivers'[r] = t
        /\ \A s \in Runs \ {r} : drivers'[s] = drivers[s] /\ drivers'[s] # t
    BY <2>1, IdleRow DEF RuntimeInv, TypeOK, Registry
  <2>3. TypeOK' BY <1>4, <2>1, <2>2 DEF RuntimeInv, TypeOK, database
  <2>4. OneWorker' BY <2>1, OneWorkerIsClaim, SameWorkers, IdleRow DEF RuntimeInv, database
  <2>5. (Registry /\ Unburdened)'
    <3>1. Registry' BY <2>1, <2>2 DEF RuntimeInv, Registry, TypeOK
    <3>2. Unburdened' BY <2>1, <2>2 DEF RuntimeInv, Unburdened
    <3> QED BY <3>1, <3>2
  <2>6. DrivenAlone' BY <1>2, <2>1, IdleRow DEF RuntimeInv, DrivenAlone, Drivers, Started, Inflight
  <2>7. WakeUpKept'
    <3> SUFFICES ASSUME NEW s \in Runs \ irregular, drivers'[s] # "none", thread'[drivers'[s]].outcome = "parked",
                        HasWork(s)
                 PROVE  s \in nudged \/ Attended(s)'
      BY <1>1, <1>4 DEF WakeUpKept
    <3>1. s # r BY <2>1, <2>2
    <3>2. drivers'[s] = drivers[s] /\ drivers[s] \in Threads \ {t} BY <2>2, <3>1
    <3>3. thread[drivers[s]].outcome = "parked" BY <2>1, <3>2
    <3>4. s \in nudged \/ Attended(s) BY <3>2, <3>3 DEF RuntimeInv, WakeUpKept
    <3>5. ASSUME NEW u \in Threads, thread[u].run = s, thread[u].pc \in {"registered", "polling", "draining"}
          PROVE  thread'[u] = thread[u]
      BY <2>1, <3>5, IdleRow
    <3> QED BY <3>1, <3>4, <3>5 DEF Attended
  <2> QED BY <2>3, <2>4, <2>5, <2>6, <2>7, OneWorkerIsClaimNext DEF RuntimeInv
<1> QED BY <1>3, <1>4, SubmitRow

LEMMA SignalInv ==
    ASSUME RuntimeInv, NEW r \in Runs, Signal(r)
    PROVE  RuntimeInv'
<1>1. UNCHANGED <<database, job, irregular, lost, events>> /\ Submit(r) BY DEF Signal
<1>2. signal' \in SUBSET Runs /\ swept' \in SUBSET Runs /\ (signal \cup swept) \ {r} \subseteq signal' \cup swept'
  BY DEF RuntimeInv, TypeOK, Signal
<1> QED BY <1>1, <1>2, SubmitInv

LEMMA SweepSubmitsInv ==
    ASSUME RuntimeInv, NEW r \in Runs, SweepSubmits(r)
    PROVE  RuntimeInv'
<1>1. UNCHANGED <<database, job, irregular, lost, events>> /\ Submit(r) BY DEF SweepSubmits
<1>2. signal' \in SUBSET Runs /\ swept' \in SUBSET Runs /\ (signal \cup swept) \ {r} \subseteq signal' \cup swept'
  BY DEF RuntimeInv, TypeOK, SweepSubmits
<1> QED BY <1>1, <1>2, SubmitInv

LEMMA SweepReadsInv ==
    ASSUME RuntimeInv, SweepReads
    PROVE  RuntimeInv'
<1>1. UNCHANGED <<database, signal, drivers, nudged, thread, job, irregular, lost, events>> /\ swept = {}
      /\ swept' \in SUBSET Runs
  BY DEF SweepReads, Neglected
<1>2. TypeOK' BY <1>1 DEF RuntimeInv, TypeOK, database
<1>3. OneWorker' BY <1>1, OneWorkerIsClaim DEF RuntimeInv, OneWorker, Claimed, Executing, database
<1>4. (Registry /\ Unburdened)'
  <2>1. Registry' BY <1>1 DEF RuntimeInv, Registry
  <2>2. Unburdened' BY <1>1 DEF RuntimeInv, Unburdened
  <2> QED BY <2>1, <2>2
<1>5. DrivenAlone' BY <1>1 DEF RuntimeInv, DrivenAlone, Drivers, Started, Inflight
<1>6. \A s \in Runs : HasWork(s)' <=> HasWork(s) BY <1>1, SameWork DEF database
<1>7. WakeUpKept' BY <1>1, <1>6 DEF RuntimeInv, WakeUpKept, Attended
<1> QED BY <1>2, <1>3, <1>4, <1>5, <1>7, OneWorkerIsClaimNext DEF RuntimeInv

-----------------------------------------------------------------------------
(* Driving *)

LEMMA StartThreadInv ==
    ASSUME RuntimeInv, NEW t \in Threads, StartThread(t)
    PROVE  RuntimeInv'
<1> DEFINE r == thread[t].run
<1>1. /\ thread[t].pc = "registered" /\ UNCHANGED <<database, signal, swept, drivers, nudged, job, lost, events>>
      /\ irregular' = IF Drivers(r) = {} THEN irregular ELSE irregular \cup {r}
  BY DEF StartThread
<1>2. /\ thread' \in [Threads -> ThreadRows] /\ thread'[t].run = r /\ thread'[t].pc = "polling"
      /\ thread'[t].outcome = thread[t].outcome /\ \A u \in Threads \ {t} : thread'[u] = thread[u]
  <2> DEFINE w == [thread[t] EXCEPT !.pc = "polling"]
  <2>1. thread' = [thread EXCEPT ![t] = w] /\ thread[t] \in ThreadRows BY DEF RuntimeInv, TypeOK, StartThread
  <2>2. w \in ThreadRows /\ w.run = r /\ w.pc = "polling" /\ w.outcome = thread[t].outcome
    BY <2>1 DEF ThreadRows
  <2> HIDE DEF w
  <2> QED BY <2>1, <2>2 DEF RuntimeInv, TypeOK
<1>3. thread[t].outcome # "parked" /\ job[t] = NoJobs /\ r \in Runs
  BY <1>1, IdleRow DEF RuntimeInv, Unburdened, TypeOK, ThreadRows
<1>4. \A s \in Runs : HasWork(s)' <=> HasWork(s) BY <1>1, SameWork DEF database
<1>5. TypeOK' BY <1>1, <1>2, <1>3 DEF RuntimeInv, TypeOK, database
<1>6. OneWorker' BY <1>1, <1>2, OneWorkerIsClaim, SameWorkers DEF RuntimeInv, database
<1>7. (Registry /\ Unburdened)'
  <2>1. Registry' BY <1>1, <1>2, <1>3, IdleRow, SMTT(30) DEF RuntimeInv, Registry, TypeOK
  <2>2. Unburdened' BY <1>1, <1>2, <1>3, IdleRow DEF RuntimeInv, Unburdened
  <2> QED BY <2>1, <2>2
<1>8. DrivenAlone'
  <2> SUFFICES ASSUME NEW s \in Runs \ irregular'
               PROVE  /\ \A u, v \in Drivers(s)' : u = v
                      /\ \A u \in Threads : thread'[u].run = s /\ ~Started(u)' => Inflight(u)' = {}
    BY DEF DrivenAlone
  <2>1. s \notin irregular /\ (s = r => Drivers(r) = {}) BY <1>1
  <2>2. Drivers(s)' \subseteq IF s = r THEN {t} ELSE Drivers(s) BY <1>2, <2>1 DEF Drivers, Started
  <2>3. \A u, v \in Drivers(s)' : u = v BY <2>1, <2>2 DEF RuntimeInv, DrivenAlone
  <2>4. ASSUME NEW u \in Threads, thread'[u].run = s, ~Started(u)' PROVE Inflight(u)' = {}
    <3>1. u # t BY <1>2, <2>4 DEF Started
    <3> QED BY <1>1, <1>2, <2>1, <2>4, <3>1 DEF RuntimeInv, DrivenAlone, Started, Inflight
  <2> QED BY <2>3, <2>4
<1>9. WakeUpKept'
  <2> SUFFICES ASSUME NEW s \in Runs \ irregular, drivers[s] # "none", thread'[drivers[s]].outcome = "parked",
                      HasWork(s)
               PROVE  s \in nudged \/ Attended(s)'
    BY <1>1, <1>4 DEF WakeUpKept
  <2>1. drivers[s] \in Threads /\ thread[drivers[s]].outcome = "parked" BY <1>2, <1>3 DEF RuntimeInv, TypeOK
  <2>2. s \in nudged \/ Attended(s) BY <2>1 DEF RuntimeInv, WakeUpKept
  <2> QED BY <1>1, <1>2, <2>2 DEF Attended
<1> QED BY <1>5, <1>6, <1>7, <1>8, <1>9, OneWorkerIsClaimNext DEF RuntimeInv

\* A driver that polls or drains leaves its run to no other wake-up: the other driver that
\* could be parking does not exist.
LEMMA NoOtherParks ==
    ASSUME RuntimeInv, NEW t \in Threads, Started(t), thread[t].run # "none"
    PROVE  \A s \in Runs \ irregular : thread[t].run = s /\ drivers[s] # "none"
             /\ thread[drivers[s]].outcome = "parked" => drivers[s] = t
<1> SUFFICES ASSUME NEW s \in Runs \ irregular, thread[t].run = s, drivers[s] # "none",
                    thread[drivers[s]].outcome = "parked"
             PROVE  drivers[s] = t
  OBVIOUS
<1>1. drivers[s] \in Threads BY DEF RuntimeInv, TypeOK
<1>2. thread[drivers[s]].run = s /\ Started(drivers[s]) BY <1>1 DEF RuntimeInv, Unburdened, Registry, Started
<1> QED BY <1>1, <1>2, OnlyDriver

LEMMA PollInv ==
    ASSUME RuntimeInv, NEW t \in Threads, Poll(t)
    PROVE  RuntimeInv'
<1> DEFINE r == thread[t].run
<1>1. thread[t].pc = "polling" /\ UNCHANGED <<database, signal, swept, drivers, nudged, irregular, lost, events>> BY DEF Poll
<1>2. Started(t) /\ r \in Runs /\ thread[t].outcome # "parked"
  BY <1>1, IdleRow DEF RuntimeInv, Unburdened, TypeOK, ThreadRows, Started
<1>3. \A s \in Runs : HasWork(s)' <=> HasWork(s) BY <1>1, SameWork DEF database
<1>4. job[t] \in [Steps -> JobStates] BY DEF RuntimeInv, TypeOK
<1>5. ASSUME NEW outcome \in {"completed", "cancelled"}, Goes(t, "draining", outcome), UNCHANGED job
      PROVE  RuntimeInv'
  <2>1. /\ thread' \in [Threads -> ThreadRows] /\ thread'[t].run = r /\ thread'[t].pc = "draining"
        /\ thread'[t].outcome = outcome /\ \A u \in Threads \ {t} : thread'[u] = thread[u]
    BY <1>5, GoesRow DEF RuntimeInv
  <2>2. TypeOK' BY <1>1, <1>5, <2>1 DEF RuntimeInv, TypeOK, database
  <2>3. OneWorker' BY <1>1, <1>5, <2>1, OneWorkerIsClaim, SameWorkers DEF RuntimeInv, database
  <2>4. (Registry /\ Unburdened)'
    <3>1. Registry' BY <1>1, <1>2, <1>5, <2>1 DEF RuntimeInv, Registry, TypeOK
    <3>2. Unburdened' BY <1>1, <1>2, <1>5, <2>1 DEF RuntimeInv, Unburdened
    <3> QED BY <3>1, <3>2
  <2>5. DrivenAlone' BY <1>1, <1>5, <2>1 DEF RuntimeInv, DrivenAlone, Drivers, Started, Inflight
  <2>6. WakeUpKept'
    <3> SUFFICES ASSUME NEW s \in Runs \ irregular, drivers[s] # "none", thread'[drivers[s]].outcome = "parked",
                        HasWork(s)
                 PROVE  s \in nudged \/ Attended(s)'
      BY <1>1, <1>3 DEF WakeUpKept
    <3>1. drivers[s] \in Threads /\ thread[drivers[s]].outcome = "parked" BY <2>1 DEF RuntimeInv, TypeOK
    <3>2. s \in nudged \/ Attended(s) BY <3>1 DEF RuntimeInv, WakeUpKept
    <3> QED BY <1>1, <2>1, <3>2 DEF Attended
  <2> QED BY <2>2, <2>3, <2>4, <2>5, <2>6, OneWorkerIsClaimNext DEF RuntimeInv
<1>6. ASSUME Waiting(r), Inflight(t) = {}, Goes(t, "leaving", "parked"), job' = [job EXCEPT ![t] = NoJobs]
      PROVE  RuntimeInv'
  <2>1. /\ thread' \in [Threads -> ThreadRows] /\ thread'[t].run = r /\ thread'[t].pc = "leaving"
        /\ thread'[t].outcome = "parked" /\ \A u \in Threads \ {t} : thread'[u] = thread[u]
    BY <1>6, GoesRow DEF RuntimeInv
  <2>2. /\ job' \in [Threads -> [Steps -> JobStates]] /\ job'[t] = NoJobs
        /\ \A u \in Threads \ {t} : job'[u] = job[u]
    BY <1>6, IdleRow DEF RuntimeInv, TypeOK
  <2>3. \A k \in Steps : job[t][k] # "running" /\ job'[t][k] = "none"
    BY <1>6, <2>2, IdleRow DEF Inflight
  <2>4. TypeOK' BY <1>1, <2>1, <2>2 DEF RuntimeInv, TypeOK, database
  <2>5. OneWorker' BY <1>1, <2>1, <2>2, <2>3, OneWorkerIsClaim, SameWorkers DEF RuntimeInv, database
  <2>6. (Registry /\ Unburdened)'
    <3>1. Registry' BY <1>1, <2>1 DEF RuntimeInv, Registry, TypeOK
    <3>2. Unburdened' BY <1>1, <1>2, <2>1, <2>2 DEF RuntimeInv, Unburdened
    <3> QED BY <3>1, <3>2
  <2>7. DrivenAlone'
    <3>1. \A s \in Runs : Drivers(s)' = Drivers(s) BY <1>1, <2>1 DEF Drivers, Started
    <3>2. Started(t)' BY <2>1 DEF Started
    <3>3. \A u \in Threads \ {t} : Inflight(u)' = Inflight(u) /\ (Started(u)' <=> Started(u))
      BY <2>1, <2>2 DEF Inflight, Started
    <3> QED BY <1>1, <2>1, <3>1, <3>2, <3>3 DEF RuntimeInv, DrivenAlone
  <2>8. WakeUpKept'
    <3> SUFFICES ASSUME NEW s \in Runs \ irregular, drivers[s] # "none", thread'[drivers[s]].outcome = "parked",
                        HasWork(s)
                 PROVE  s \in nudged \/ Attended(s)'
      BY <1>1, <1>3 DEF WakeUpKept
    <3>1. drivers[s] # t
      <4>1. ~HasWork(r) BY <1>6 DEF HasWork
      <4> QED BY <4>1 DEF RuntimeInv, Registry
    <3>2. drivers[s] \in Threads /\ thread[drivers[s]].outcome = "parked" BY <2>1, <3>1 DEF RuntimeInv, TypeOK
    <3>3. r # s BY <1>2, <3>1, <3>2, NoOtherParks DEF RuntimeInv, TypeOK
    <3> QED BY <1>1, <2>1, <3>2, <3>3 DEF RuntimeInv, WakeUpKept, Attended
  <2> QED BY <2>4, <2>5, <2>6, <2>7, <2>8, OneWorkerIsClaimNext DEF RuntimeInv
<1>7. ASSUME NEW ready \in SUBSET Steps, ready \cap Inflight(t) = {}, UNCHANGED thread,
             job' = [job EXCEPT ![t] = [k \in Steps |-> IF k \in ready THEN "queued"
                                                        ELSE IF k \in Finished(t) THEN "none" ELSE @[k]]]
      PROVE  RuntimeInv'
  <2> DEFINE j == [k \in Steps |-> IF k \in ready THEN "queued" ELSE IF k \in Finished(t) THEN "none" ELSE job[t][k]]
  <2>1. job' = [job EXCEPT ![t] = j] BY <1>7 DEF RuntimeInv, TypeOK
  <2>2. j \in [Steps -> JobStates] BY <1>4 DEF JobStates
  <2>3. \A k \in Steps : j[k] = "running" <=> job[t][k] = "running" BY <1>7 DEF Inflight, Finished
  <2> HIDE DEF j
  <2>4. job' \in [Threads -> [Steps -> JobStates]] /\ job'[t] = j /\ \A u \in Threads \ {t} : job'[u] = job[u]
    BY <2>1, <2>2 DEF RuntimeInv, TypeOK
  <2>5. TypeOK' BY <1>1, <1>7, <2>4 DEF RuntimeInv, TypeOK, database
  <2>6. OneWorker' BY <1>1, <1>7, <2>3, <2>4, OneWorkerIsClaim, SameWorkers DEF RuntimeInv, database
  <2>7. (Registry /\ Unburdened)'
    <3>1. Registry' BY <1>1, <1>2, <1>7, <2>4 DEF RuntimeInv, Registry, TypeOK
    <3>2. Unburdened' BY <1>1, <1>2, <1>7, <2>4 DEF RuntimeInv, Unburdened
    <3> QED BY <3>1, <3>2
  <2>8. DrivenAlone' BY <1>1, <1>2, <1>7, <2>4 DEF RuntimeInv, DrivenAlone, Drivers, Started, Inflight
  <2>9. WakeUpKept' BY <1>1, <1>3, <1>7 DEF RuntimeInv, WakeUpKept, Attended
  <2> QED BY <2>5, <2>6, <2>7, <2>8, <2>9, OneWorkerIsClaimNext DEF RuntimeInv
<1>8. status[r] # "live" => status[r] \in {"completed", "cancelled"} BY <1>2 DEF RuntimeInv, TypeOK
<1>9. (IF control[r] = "none" THEN Ready(r) \ Inflight(t) ELSE {}) \in SUBSET Steps
      /\ (IF control[r] = "none" THEN Ready(r) \ Inflight(t) ELSE {}) \cap Inflight(t) = {}
  BY DEF Ready
<1> QED BY <1>5, <1>6, <1>7, <1>8, <1>9 DEF Poll

\* The run is over before its thread leaves: it has no work, and nothing of it runs here.
LEMMA FinishInv ==
    ASSUME RuntimeInv, NEW t \in Threads, Finish(t)
    PROVE  RuntimeInv'
<1> DEFINE r == thread[t].run
<1>1. /\ thread[t].pc = "draining" /\ Inflight(t) = {} /\ job' = [job EXCEPT ![t] = NoJobs]
      /\ Goes(t, "leaving", thread[t].outcome)
      /\ UNCHANGED <<control, decided, signal, swept, drivers, nudged, irregular, lost, events>>
  BY DEF Finish
<1>2. Started(t) /\ r \in Runs /\ thread[t].outcome \in {"completed", "cancelled"}
  BY <1>1, IdleRow DEF RuntimeInv, Unburdened, TypeOK, ThreadRows, Started
<1>3. /\ thread' \in [Threads -> ThreadRows] /\ thread'[t].run = r /\ thread'[t].pc = "leaving"
      /\ thread'[t].outcome = thread[t].outcome /\ \A u \in Threads \ {t} : thread'[u] = thread[u]
  BY <1>1, <1>2, GoesRow DEF RuntimeInv
<1>4. /\ job' \in [Threads -> [Steps -> JobStates]] /\ job'[t] = NoJobs
      /\ \A u \in Threads \ {t} : job'[u] = job[u]
  BY <1>1, IdleRow DEF RuntimeInv, TypeOK
<1>5. \A k \in Steps : job[t][k] # "running" /\ job'[t][k] = "none"
  BY <1>1, <1>4, IdleRow DEF Inflight
<1>6. /\ status' \in [Runs -> {"live", "completed", "cancelled"}]
      /\ row' \in [Runs -> [Steps -> {"new", "running", "done", "cancelled"}]]
      /\ status'[r] # "live" /\ \A s \in Runs \ {r} : status'[s] = status[s] /\ row'[s] = row[s]
  <2>1. CASE status[r] # "live" BY <2>1 DEF Finish, RuntimeInv, TypeOK
  <2>2. CASE status[r] = "live"
    <3> DEFINE new == [k \in Steps |-> IF row[r][k] = "new" THEN "cancelled" ELSE row[r][k]]
    <3>1. status' = [status EXCEPT ![r] = thread[t].outcome] BY <2>2 DEF Finish
    <3>2. row' = row \/ row' = [row EXCEPT ![r] = new] BY <2>2 DEF Finish, RuntimeInv, TypeOK
    <3>3. new \in [Steps -> {"new", "running", "done", "cancelled"}] BY <1>2 DEF RuntimeInv, TypeOK
    <3> HIDE DEF new, r
    <3>4. /\ status' \in [Runs -> {"live", "completed", "cancelled"}]
          /\ status'[r] # "live" /\ \A s \in Runs \ {r} : status'[s] = status[s]
      BY <1>2, <3>1 DEF RuntimeInv, TypeOK
    <3>5. /\ row' \in [Runs -> [Steps -> {"new", "running", "done", "cancelled"}]]
          /\ \A s \in Runs \ {r} : row'[s] = row[s]
      <4>1. CASE row' = row BY <4>1 DEF RuntimeInv, TypeOK
      <4>2. CASE row' = [row EXCEPT ![r] = new] BY <1>2, <3>3, <4>2 DEF RuntimeInv, TypeOK
      <4> QED BY <3>2, <4>1, <4>2
    <3> QED BY <3>4, <3>5
  <2> QED BY <2>1, <2>2
<1> HIDE DEF r
<1>7. \A s \in Runs : HasWork(s)' => HasWork(s) /\ s # r
  <2> TAKE s \in Runs
  <2>1. CASE s = r BY <1>6, <2>1 DEF HasWork
  <2>2. CASE s # r
    <3>1. HasWork(s)' <=> HasWork(s) BY <1>1, <1>6, <2>2, SameWork
    <3> QED BY <2>2, <3>1
  <2> QED BY <2>1, <2>2
<1> USE DEF r
<1>8. TypeOK' BY <1>1, <1>3, <1>4, <1>6 DEF RuntimeInv, TypeOK
<1>9. OneWorker'
  <2>1. \A s \in Runs, k \in Steps : Executing(s, k)' = Executing(s, k) BY <1>3, <1>4, <1>5 DEF Executing
  <2> QED BY <1>1, <1>6, <2>1, OneWorkerIsClaim DEF RuntimeInv, OneWorker, Claimed
<1>10. (Registry /\ Unburdened)'
  <2>1. Registry' BY <1>1, <1>3 DEF RuntimeInv, Registry, TypeOK
  <2>2. Unburdened' BY <1>2, <1>3, <1>4 DEF RuntimeInv, Unburdened
  <2> QED BY <2>1, <2>2
<1>11. DrivenAlone'
  <2>1. \A s \in Runs : Drivers(s)' = Drivers(s) BY <1>1, <1>3 DEF Drivers, Started
  <2>2. Started(t)' BY <1>3 DEF Started
  <2>3. \A u \in Threads \ {t} : Inflight(u)' = Inflight(u) /\ (Started(u)' <=> Started(u))
    BY <1>3, <1>4 DEF Inflight, Started
  <2> QED BY <1>1, <1>3, <2>1, <2>2, <2>3 DEF RuntimeInv, DrivenAlone
<1>12. WakeUpKept'
  <2> SUFFICES ASSUME NEW s \in Runs \ irregular, drivers[s] # "none", thread'[drivers[s]].outcome = "parked",
                      HasWork(s), s # r
               PROVE  s \in nudged \/ Attended(s)'
    BY <1>1, <1>7 DEF WakeUpKept
  <2>1. drivers[s] \in Threads /\ thread[drivers[s]].outcome = "parked" BY <1>3 DEF RuntimeInv, TypeOK
  <2>2. s \in nudged \/ Attended(s) BY <2>1 DEF RuntimeInv, WakeUpKept
  <2> QED BY <1>1, <1>3, <2>2 DEF Attended
<1> QED BY <1>8, <1>9, <1>10, <1>11, <1>12, OneWorkerIsClaimNext DEF RuntimeInv

\* The nudge of a run is only taken by its one driver.
LEMMA LeaveInv ==
    ASSUME RuntimeInv, NEW t \in Threads, Leave(t)
    PROVE  RuntimeInv'
<1> DEFINE r == thread[t].run
<1>1. /\ thread[t].pc = "leaving" /\ nudged' = nudged \ {r}
      /\ UNCHANGED <<database, signal, swept, job, irregular, lost, events>>
  BY DEF Leave
<1>2. Started(t) /\ r \in Runs /\ job[t] = NoJobs
  BY <1>1, IdleRow DEF RuntimeInv, Unburdened, TypeOK, ThreadRows, Started
<1>3. \A s \in Runs : HasWork(s)' <=> HasWork(s) BY <1>1, SameWork DEF database
<1>4. \A u \in Threads : Inflight(u)' = Inflight(u) BY <1>1 DEF Inflight
<1>5. Inflight(t) = {} BY <1>2, IdleRow DEF Inflight
<1>6. CASE Goes(t, "polling", "none") /\ UNCHANGED drivers
  <2>1. /\ thread' \in [Threads -> ThreadRows] /\ thread'[t].run = r /\ thread'[t].pc = "polling"
        /\ thread'[t].outcome = "none" /\ \A u \in Threads \ {t} : thread'[u] = thread[u]
    BY <1>6, GoesRow DEF RuntimeInv
  <2>2. TypeOK' BY <1>1, <1>6, <2>1 DEF RuntimeInv, TypeOK, database
  <2>3. OneWorker' BY <1>1, <2>1, OneWorkerIsClaim, SameWorkers DEF RuntimeInv, database
  <2>4. Registry' BY <1>6, <2>1 DEF RuntimeInv, Registry, TypeOK
  <2>5. Unburdened' BY <1>1, <1>2, <2>1 DEF RuntimeInv, Unburdened
  <2>6. DrivenAlone'
    <3>1. \A s \in Runs : Drivers(s)' = Drivers(s) BY <1>1, <2>1 DEF Drivers, Started
    <3>2. \A u \in Threads : Started(u)' <=> Started(u) BY <1>1, <2>1 DEF Started
    <3> QED BY <1>1, <1>4, <2>1, <3>1, <3>2 DEF RuntimeInv, DrivenAlone
  <2>7. WakeUpKept'
    <3> SUFFICES ASSUME NEW s \in Runs \ irregular, drivers[s] # "none", thread'[drivers[s]].outcome = "parked",
                        HasWork(s)
                 PROVE  s \in nudged' \/ Attended(s)'
      BY <1>1, <1>3, <1>6 DEF WakeUpKept
    <3>1. drivers[s] # t /\ drivers[s] \in Threads /\ thread[drivers[s]].outcome = "parked"
      BY <2>1 DEF RuntimeInv, TypeOK
    <3>2. r # s BY <1>2, <3>1, NoOtherParks
    <3>3. s \in nudged \/ Attended(s) BY <3>1 DEF RuntimeInv, WakeUpKept
    <3> QED BY <1>1, <2>1, <3>2, <3>3 DEF Attended
  <2> QED BY <2>2, <2>3, <2>4, <2>5, <2>6, <2>7, OneWorkerIsClaimNext DEF RuntimeInv
<1>7. CASE thread' = [thread EXCEPT ![t] = Idle] /\ Release(t)
  <2>1. thread' \in [Threads -> ThreadRows] /\ thread'[t] = Idle /\ \A u \in Threads \ {t} : thread'[u] = thread[u]
    BY <1>7, IdleRow DEF RuntimeInv, TypeOK
  <2>2. /\ drivers' \in [Runs -> Threads \cup {"none"}]
        /\ \A s \in Runs : drivers'[s] # "none" => drivers'[s] = drivers[s] /\ drivers[s] # t
    BY <1>7 DEF RuntimeInv, TypeOK, Release
  <2>3. TypeOK' BY <1>1, <2>1, <2>2 DEF RuntimeInv, TypeOK, database
  <2>4. OneWorker'
    <3>1. \A k \in Steps : job[t][k] # "running" BY <1>2, IdleRow
    <3> QED BY <1>1, <2>1, <3>1, OneWorkerIsClaim, SameWorkers DEF RuntimeInv, database
  <2>5. Registry' BY <2>1, <2>2 DEF RuntimeInv, Registry, TypeOK
  <2>6. Unburdened' BY <1>1, <1>2, <2>1, IdleRow DEF RuntimeInv, Unburdened
  <2>7. DrivenAlone'
    <3>1. \A s \in Runs : Drivers(s)' \subseteq Drivers(s) BY <2>1, IdleRow DEF Drivers, Started
    <3>2. \A u \in Threads : Started(u)' => Started(u) BY <2>1, IdleRow DEF Started
    <3>3. \A u \in Threads \ {t} : Started(u)' <=> Started(u) BY <2>1 DEF Started
    <3> QED BY <1>1, <1>4, <1>5, <2>1, <3>1, <3>2, <3>3 DEF RuntimeInv, DrivenAlone
  <2>8. WakeUpKept'
    <3> SUFFICES ASSUME NEW s \in Runs \ irregular, drivers'[s] # "none", thread'[drivers'[s]].outcome = "parked",
                        HasWork(s)
                 PROVE  s \in nudged' \/ Attended(s)'
      BY <1>1, <1>3 DEF WakeUpKept
    <3>1. /\ drivers'[s] = drivers[s] /\ drivers[s] # t /\ drivers[s] \in Threads
          /\ thread[drivers[s]].outcome = "parked"
      BY <2>1, <2>2 DEF RuntimeInv, TypeOK
    <3>2. r # s BY <1>2, <3>1, NoOtherParks
    <3>3. s \in nudged \/ Attended(s) BY <3>1 DEF RuntimeInv, WakeUpKept
    <3> QED BY <1>1, <2>1, <3>2, <3>3 DEF Attended
  <2> QED BY <2>3, <2>4, <2>5, <2>6, <2>7, <2>8, OneWorkerIsClaimNext DEF RuntimeInv
<1> QED BY <1>6, <1>7 DEF Leave

LEMMA CrashInv ==
    ASSUME RuntimeInv, NEW t \in Threads, Crash(t)
    PROVE  RuntimeInv'
<1> DEFINE r == thread[t].run
           w == [Idle EXCEPT !.run = r]
<1>1. /\ thread[t].pc \in {"polling", "draining"} /\ thread' = [thread EXCEPT ![t] = w] /\ Release(t)
      /\ irregular' = IF Inflight(t) = {} THEN irregular ELSE irregular \cup {r}
      /\ UNCHANGED <<database, signal, swept, nudged, job, lost>>
  BY DEF Crash
<1>2. Started(t) /\ r \in Runs
  BY <1>1, IdleRow DEF RuntimeInv, Unburdened, TypeOK, ThreadRows, Started
<1>3. w \in ThreadRows /\ w.run = r /\ w.pc = "free" /\ w.outcome = "none" BY <1>2 DEF Idle, ThreadRows
<1> HIDE DEF w
<1>4. thread' \in [Threads -> ThreadRows] /\ thread'[t] = w /\ \A u \in Threads \ {t} : thread'[u] = thread[u]
  BY <1>1, <1>3 DEF RuntimeInv, TypeOK
<1>5. /\ drivers' \in [Runs -> Threads \cup {"none"}]
      /\ \A s \in Runs : drivers'[s] # "none" => drivers'[s] = drivers[s] /\ drivers[s] # t
  BY <1>1 DEF RuntimeInv, TypeOK, Release
<1>6. \A s \in Runs : HasWork(s)' <=> HasWork(s) BY <1>1, SameWork DEF database
<1>7. events' \in 0..MaxEvents BY DEF RuntimeInv, TypeOK, Crash, Event
<1>8. TypeOK' BY <1>1, <1>2, <1>4, <1>5, <1>7 DEF RuntimeInv, TypeOK, database
<1>9. OneWorker' BY <1>1, <1>3, <1>4, OneWorkerIsClaim, SameWorkers DEF RuntimeInv, database
<1>10. Registry' BY <1>4, <1>5 DEF RuntimeInv, Registry, TypeOK
<1>11. Unburdened' BY <1>1, <1>2, <1>3, <1>4 DEF RuntimeInv, Unburdened
<1>12. DrivenAlone'
  <2>1. \A s \in Runs : Drivers(s)' \subseteq Drivers(s) BY <1>3, <1>4 DEF Drivers, Started
  <2>2. \A u \in Threads : Inflight(u)' = Inflight(u) BY <1>1 DEF Inflight
  <2>3. \A u \in Threads \ {t} : Started(u)' <=> Started(u) BY <1>4 DEF Started
  <2>4. irregular \subseteq irregular' /\ (r \notin irregular' => Inflight(t) = {}) BY <1>1
  <2> QED BY <1>3, <1>4, <2>1, <2>2, <2>3, <2>4 DEF RuntimeInv, DrivenAlone
<1>13. WakeUpKept'
  <2> SUFFICES ASSUME NEW s \in Runs \ irregular', drivers'[s] # "none", thread'[drivers'[s]].outcome = "parked",
                      HasWork(s)
               PROVE  s \in nudged \/ Attended(s)'
    BY <1>1, <1>6 DEF WakeUpKept
  <2>1. /\ drivers'[s] = drivers[s] /\ drivers[s] # t /\ drivers[s] \in Threads
        /\ thread[drivers[s]].outcome = "parked" /\ s \notin irregular
    BY <1>1, <1>4, <1>5 DEF RuntimeInv, TypeOK
  <2>2. r # s BY <1>2, <2>1, NoOtherParks
  <2>3. s \in nudged \/ Attended(s) BY <2>1 DEF RuntimeInv, WakeUpKept
  <2> QED BY <1>1, <1>4, <2>2, <2>3 DEF Attended
<1> QED BY <1>8, <1>9, <1>10, <1>11, <1>12, <1>13, OneWorkerIsClaimNext DEF RuntimeInv

-----------------------------------------------------------------------------
(* The pool *)

\* What the workers share: a step that is in the pool moves, of a run whose driver, if it
\* has one, does not park.
LEMMA PoolInv ==
    ASSUME RuntimeInv, NEW t \in Threads, NEW k \in Steps, job[t][k] \in {"queued", "running", "superseded"},
           NEW pc \in {"queued", "running", "done"}, Job(t, k, pc),
           row' \in [Runs -> [Steps -> {"new", "running", "done", "cancelled"}]],
           \A s \in Runs \ {thread[t].run} : row'[s] = row[s],
           UNCHANGED <<status, control, decided, signal, swept, drivers, nudged, thread, irregular>>,
           lost' \in SUBSET (Runs \X Steps), events' \in 0..MaxEvents, OneWorker'
    PROVE  RuntimeInv'
<1> DEFINE j == [job[t] EXCEPT ![k] = pc]
<1>1. job' = [job EXCEPT ![t] = j] /\ job[t] \in [Steps -> JobStates] BY DEF RuntimeInv, TypeOK, Job
<1>2. j \in [Steps -> JobStates] /\ j[k] = pc /\ \A i \in Steps \ {k} : j[i] = job[t][i]
  BY <1>1 DEF JobStates
<1> HIDE DEF j
<1>3. job' \in [Threads -> [Steps -> JobStates]] /\ job'[t] = j /\ \A u \in Threads \ {t} : job'[u] = job[u]
  BY <1>1, <1>2 DEF RuntimeInv, TypeOK
<1>4. job[t] # NoJobs /\ k \in Inflight(t) BY IdleRow DEF Inflight
<1>5. thread[t].run # "none" /\ thread[t].pc \notin {"registered", "leaving"}
  BY <1>4 DEF RuntimeInv, Unburdened
<1>6. \A u \in Threads : Inflight(u)' \subseteq Inflight(u) BY <1>2, <1>3, <1>4 DEF Inflight
<1>7. TypeOK' BY <1>3 DEF RuntimeInv, TypeOK
<1>8. Registry' BY DEF RuntimeInv, Registry
<1>9. Unburdened' BY <1>3, <1>5 DEF RuntimeInv, Unburdened
<1>10. DrivenAlone' BY <1>6 DEF RuntimeInv, DrivenAlone, Drivers, Started
<1>11. WakeUpKept'
  <2> SUFFICES ASSUME NEW s \in Runs \ irregular, drivers[s] # "none", thread[drivers[s]].outcome = "parked",
                      HasWork(s)'
               PROVE  s \in nudged \/ Attended(s)'
    BY DEF WakeUpKept
  <2>1. thread[t].run # s
    <3>1. SUFFICES ASSUME thread[t].run = s PROVE FALSE OBVIOUS
    <3>2. Started(t) BY <1>4, <3>1 DEF RuntimeInv, DrivenAlone
    <3>3. drivers[s] = t BY <1>5, <3>1, <3>2, NoOtherParks
    <3> QED BY <1>5, <3>3 DEF RuntimeInv, Unburdened
  <2>2. HasWork(s) BY <2>1, SameWork
  <2> QED BY <2>2 DEF RuntimeInv, WakeUpKept, Attended
<1> QED BY <1>7, <1>8, <1>9, <1>10, <1>11, OneWorkerIsClaimNext DEF RuntimeInv

\* A step in the pool is of a run.
LEMMA PoolRun ==
    ASSUME RuntimeInv, NEW t \in Threads, NEW k \in Steps, job[t][k] # "none"
    PROVE  thread[t].run \in Runs
<1>1. job[t] # NoJobs BY IdleRow
<1>2. thread[t] \in ThreadRows BY DEF RuntimeInv, TypeOK
<1> QED BY <1>1, <1>2 DEF RuntimeInv, Unburdened, ThreadRows

\* A worker that ends a claim, or takes a free one, of a step of a live run is its only one.
LEMMA PoolWorker ==
    ASSUME RuntimeInv, NEW t \in Threads, NEW k \in Steps, NEW pc \in JobStates, Job(t, k, pc),
           thread[t].run \in Runs, UNCHANGED <<status, thread>>,
           \A q \in Runs, i \in Steps : q # thread[t].run \/ i # k =>
               row'[q][i] = row[q][i] /\ (<<q, i>> \in lost' <=> <<q, i>> \in lost),
           <<thread[t].run, k>> \in lost' => row'[thread[t].run][k] = "running",
           \/ job[t][k] = "running" /\ pc # "running" /\ ~Claimed(thread[t].run, k)'
           \/ row[thread[t].run][k] # "running" /\ pc = "running" /\ Claimed(thread[t].run, k)'
    PROVE  OneWorker'
<1> DEFINE r == thread[t].run
<1>1. /\ job'[t][k] = pc
      /\ \A u \in Threads, i \in Steps : u # t \/ i # k => job'[u][i] = job[u][i]
  BY DEF RuntimeInv, TypeOK, Job
<1> SUFFICES ASSUME NEW q \in Runs, NEW i \in Steps, status[q] = "live"
             PROVE  /\ IF Claimed(q, i)' THEN \E u \in Threads : Executing(q, i)' = {u}
                       ELSE Executing(q, i)' = {}
                    /\ <<q, i>> \in lost' => row'[q][i] = "running"
  BY DEF OneWorker
<1>3. /\ IF Claimed(q, i) THEN \E u \in Threads : Executing(q, i) = {u} ELSE Executing(q, i) = {}
      /\ <<q, i>> \in lost => row[q][i] = "running"
  BY OneWorkerIsClaim DEF RuntimeInv, OneWorker
<1>4. CASE q = r /\ i = k
  <2>1. CASE job[t][k] = "running" /\ pc # "running" /\ ~Claimed(r, k)'
    <3>1. t \in Executing(r, k) BY <2>1 DEF Executing
    <3>2. Executing(r, k) = {t} BY <1>3, <1>4, <3>1
    <3>3. Executing(r, k)' = {}
      <4> SUFFICES ASSUME NEW u \in Executing(r, k)' PROVE FALSE OBVIOUS
      <4>1. u \in Threads /\ thread[u].run = r /\ job'[u][k] = "running" BY DEF Executing
      <4>2. u # t BY <1>1, <2>1, <4>1
      <4>3. u \in Executing(r, k) BY <1>1, <4>1, <4>2 DEF Executing
      <4> QED BY <3>2, <4>2, <4>3
    <3> QED BY <1>4, <2>1, <3>3
  <2>2. CASE row[r][k] # "running" /\ pc = "running" /\ Claimed(r, k)'
    <3>1. Executing(r, k) = {} BY <1>3, <1>4, <2>2 DEF Claimed
    <3>2. Executing(r, k)' = {t}
      <4>1. t \in Executing(r, k)' BY <1>1, <2>2 DEF Executing
      <4>2. ASSUME NEW u \in Executing(r, k)' PROVE u = t
        <5>1. u \in Threads /\ thread[u].run = r /\ job'[u][k] = "running" BY <4>2 DEF Executing
        <5>2. u # t => u \in Executing(r, k) BY <1>1, <5>1 DEF Executing
        <5> QED BY <3>1, <5>2
      <4> QED BY <4>1, <4>2
    <3> QED BY <1>4, <2>2, <3>2
  <2> QED BY <2>1, <2>2
<1>5. CASE q # r \/ i # k
  <2>1. row'[q][i] = row[q][i] /\ (<<q, i>> \in lost' <=> <<q, i>> \in lost) BY <1>5
  <2>2. Executing(q, i)' = Executing(q, i) BY <1>1, <1>5 DEF Executing
  <2> QED BY <1>3, <2>1, <2>2 DEF Claimed
<1> QED BY <1>4, <1>5

\* One row of one run is written.
LEMMA RowType ==
    ASSUME RuntimeInv, NEW r \in Runs, NEW k \in Steps, NEW s \in {"new", "running", "done", "cancelled"}, Row(r, k, s)
    PROVE  /\ row' \in [Runs -> [Steps -> {"new", "running", "done", "cancelled"}]]
           /\ \A q \in Runs \ {r} : row'[q] = row[q]
           /\ row'[r][k] = s /\ \A i \in Steps \ {k} : row'[r][i] = row[r][i]
<1>1. [row[r] EXCEPT ![k] = s] \in [Steps -> {"new", "running", "done", "cancelled"}] BY DEF RuntimeInv, TypeOK
<1> QED BY <1>1 DEF RuntimeInv, TypeOK, Row

LEMMA WorkInv ==
    ASSUME RuntimeInv, NEW t \in Threads, NEW k \in Steps, Work(t, k)
    PROVE  RuntimeInv'
<1>1. /\ job[t][k] = "queued"
      /\ UNCHANGED <<status, control, decided, signal, swept, drivers, nudged, thread, irregular, lost>>
      /\ lost' \in SUBSET (Runs \X Steps) /\ events' \in 0..MaxEvents
  BY DEF Work, RuntimeInv, TypeOK
<1>2. thread[t].run \in Runs BY <1>1, PoolRun
<1>3. CASE Claims(t, k)
  <2>1. Row(thread[t].run, k, "running") /\ Job(t, k, "running") BY <1>3 DEF Work
  <2>2. /\ row' \in [Runs -> [Steps -> {"new", "running", "done", "cancelled"}]]
        /\ \A s \in Runs \ {thread[t].run} : row'[s] = row[s]
        /\ row'[thread[t].run][k] = "running"
        /\ \A i \in Steps \ {k} : row'[thread[t].run][i] = row[thread[t].run][i]
    BY <1>2, <2>1, RowType
  <2>3. CASE status[thread[t].run] = "live"
    <3>1. <<thread[t].run, k>> \notin lost
      BY <1>2, <1>3, <2>3, OneWorkerIsClaim DEF RuntimeInv, OneWorker, Claims
    <3>2. OneWorker' BY <1>1, <1>2, <1>3, <2>1, <2>2, <3>1, PoolWorker DEF Claims, JobStates, Claimed
    <3> QED BY <1>1, <2>1, <2>2, <3>2, PoolInv
  <2>4. CASE status[thread[t].run] # "live"
    <3>1. ASSUME NEW q \in Runs, NEW i \in Steps, status'[q] = "live"
          PROVE  Executing(q, i)' = Executing(q, i) /\ row'[q] = row[q]
      <4>1. q # thread[t].run BY <1>1, <2>4, <3>1
      <4>2. \A u \in Threads : u # t => job'[u] = job[u] BY <2>1 DEF RuntimeInv, TypeOK, Job
      <4> QED BY <1>1, <2>2, <4>1, <4>2 DEF Executing
    <3>2. OneWorker' BY <1>1, <3>1, OneWorkerIsClaim DEF RuntimeInv, OneWorker, Claimed
    <3> QED BY <1>1, <2>1, <2>2, <3>2, PoolInv
  <2> QED BY <2>3, <2>4
<1>4. CASE ~Claims(t, k)
  <2>1. Job(t, k, "done") /\ row' = row BY <1>4 DEF Work
  <2>2. \A u \in Threads, i \in Steps : job'[u][i] = "running" <=> job[u][i] = "running"
    BY <1>1, <2>1 DEF RuntimeInv, TypeOK, Job
  <2>3. OneWorker' BY <1>1, <2>1, <2>2, OneWorkerIsClaim, SameWorkers DEF RuntimeInv
  <2>4. row \in [Runs -> [Steps -> {"new", "running", "done", "cancelled"}]] BY DEF RuntimeInv, TypeOK
  <2> QED BY <1>1, <2>1, <2>3, <2>4, PoolInv
<1> QED BY <1>3, <1>4

\* An attempt that gives its row back ends its claim.
LEMMA EndsClaim ==
    ASSUME RuntimeInv, NEW t \in Threads, NEW k \in Steps, job[t][k] = "running",
           NEW s \in {"new", "done", "cancelled"}, Row(thread[t].run, k, s),
           NEW pc \in {"queued", "done"}, Job(t, k, pc), events' \in 0..MaxEvents,
           UNCHANGED <<status, control, decided, signal, swept, drivers, nudged, thread, irregular, lost>>
    PROVE  RuntimeInv'
<1> DEFINE r == thread[t].run
<1>1. r \in Runs BY PoolRun
<1>2. /\ row' \in [Runs -> [Steps -> {"new", "running", "done", "cancelled"}]]
      /\ \A q \in Runs \ {r} : row'[q] = row[q]
      /\ row'[r][k] = s /\ \A i \in Steps \ {k} : row'[r][i] = row[r][i]
  BY <1>1, RowType
<1>3. lost' \in SUBSET (Runs \X Steps) BY DEF RuntimeInv, TypeOK
<1>4. CASE status[r] = "live"
  <2>1. t \in Executing(r, k) BY DEF Executing
  <2>2. <<r, k>> \notin lost
    BY <1>1, <1>4, <2>1, OneWorkerIsClaim DEF RuntimeInv, OneWorker, Claimed
  <2>3. OneWorker' BY <1>1, <1>2, <2>2, PoolWorker DEF JobStates, Claimed
  <2> QED BY <1>2, <1>3, <2>3, PoolInv
<1>5. CASE status[r] # "live"
  <2>1. ASSUME NEW q \in Runs, NEW i \in Steps, status'[q] = "live"
        PROVE  Executing(q, i)' = Executing(q, i) /\ row'[q] = row[q]
    <3>1. q # r BY <1>5, <2>1
    <3>2. \A u \in Threads : u # t => job'[u] = job[u] BY DEF RuntimeInv, TypeOK, Job
    <3> QED BY <1>2, <3>1, <3>2 DEF Executing
  <2>2. OneWorker' BY <2>1, OneWorkerIsClaim DEF RuntimeInv, OneWorker, Claimed
  <2> QED BY <1>2, <1>3, <2>2, PoolInv
<1> QED BY <1>4, <1>5

\* A step of the pool that runs before and after, or neither, changes nothing about the claims.
LEMMA KeepsClaim ==
    ASSUME RuntimeInv, NEW t \in Threads, NEW k \in Steps, job[t][k] \in {"queued", "superseded"},
           NEW pc \in {"queued", "done"}, Job(t, k, pc), events' \in 0..MaxEvents,
           UNCHANGED <<database, signal, swept, drivers, nudged, thread, irregular, lost>>
    PROVE  RuntimeInv'
<1>1. \A u \in Threads, i \in Steps : job'[u][i] = "running" <=> job[u][i] = "running"
  BY DEF RuntimeInv, TypeOK, Job
<1>2. OneWorker' BY <1>1, OneWorkerIsClaim, SameWorkers DEF RuntimeInv, database
<1>3. row \in [Runs -> [Steps -> {"new", "running", "done", "cancelled"}]] /\ lost \in SUBSET (Runs \X Steps)
  BY DEF RuntimeInv, TypeOK
<1> QED BY <1>2, <1>3, PoolInv DEF database

LEMMA ReportInv ==
    ASSUME RuntimeInv, NEW t \in Threads, NEW k \in Steps, Report(t, k)
    PROVE  RuntimeInv'
<1>1. /\ job[t][k] = "running" /\ Job(t, k, "done") /\ events' \in 0..MaxEvents
      /\ UNCHANGED <<status, control, decided, signal, swept, drivers, nudged, thread, irregular, lost>>
  BY DEF Report, RuntimeInv, TypeOK
<1>2. PICK s \in {"done", "cancelled"} : Row(thread[t].run, k, s) BY DEF Report
<1> QED BY <1>1, <1>2, EndsClaim

LEMMA FailAttemptInv ==
    ASSUME RuntimeInv, NEW t \in Threads, NEW k \in Steps, NEW pc \in {"queued", "done"}, FailAttempt(t, k, pc)
    PROVE  RuntimeInv'
<1>1. /\ job[t][k] \in {"queued", "running", "superseded"} /\ Job(t, k, pc) /\ events' \in 0..MaxEvents
      /\ UNCHANGED <<status, control, decided, signal, swept, drivers, nudged, thread, irregular, lost>>
  BY DEF FailAttempt, Event, RuntimeInv, TypeOK
<1>2. CASE job[t][k] = "running"
  <2>1. Row(thread[t].run, k, "new") BY <1>2 DEF FailAttempt
  <2> QED BY <1>1, <1>2, <2>1, EndsClaim
<1>3. CASE job[t][k] # "running"
  <2>1. row' = row BY <1>3 DEF FailAttempt
  <2> QED BY <1>1, <1>3, <2>1, KeepsClaim DEF database
<1> QED BY <1>2, <1>3

\* The claim is lost with its worker.
LEMMA LoseClaimInv ==
    ASSUME RuntimeInv, NEW t \in Threads, NEW k \in Steps, NEW pc \in {"queued", "done"}, LoseClaim(t, k, pc)
    PROVE  RuntimeInv'
<1> DEFINE r == thread[t].run
<1>1. /\ job[t][k] = "running" /\ Job(t, k, pc) /\ lost' = lost \cup {<<r, k>>} /\ events' \in 0..MaxEvents
      /\ UNCHANGED <<status, row, control, decided, signal, swept, drivers, nudged, thread, irregular>>
  BY DEF LoseClaim, Event, database, RuntimeInv, TypeOK
<1>2. r \in Runs BY <1>1, PoolRun
<1>3. lost' \in SUBSET (Runs \X Steps) BY <1>1, <1>2 DEF RuntimeInv, TypeOK
<1>4. row \in [Runs -> [Steps -> {"new", "running", "done", "cancelled"}]] BY DEF RuntimeInv, TypeOK
<1>5. \A q \in Runs, i \in Steps : q # r \/ i # k => (<<q, i>> \in lost' <=> <<q, i>> \in lost) BY <1>1
<1>6. CASE status[r] = "live"
  <2>1. t \in Executing(r, k) BY <1>1 DEF Executing
  <2>2. row[r][k] = "running" BY <1>2, <1>6, <2>1, OneWorkerIsClaim DEF RuntimeInv, OneWorker, Claimed
  <2>3. row' = row /\ row'[r][k] = "running" BY <1>1, <2>2
  <2>4. \A q \in Runs, i \in Steps : q # r \/ i # k =>
            row'[q][i] = row[q][i] /\ (<<q, i>> \in lost' <=> <<q, i>> \in lost)
    BY <1>5, <2>3
  <2>5. ~Claimed(r, k)' BY <1>1 DEF Claimed
  <2>6. pc \in JobStates /\ pc # "running" BY DEF JobStates
  <2>7. OneWorker' BY <1>1, <1>2, <2>3, <2>4, <2>5, <2>6, PoolWorker
  <2> QED BY <1>1, <1>3, <1>4, <2>7, PoolInv
<1>7. CASE status[r] # "live"
  <2>1. ASSUME NEW q \in Runs, NEW i \in Steps, status'[q] = "live"
        PROVE  Executing(q, i)' = Executing(q, i) /\ (<<q, i>> \in lost' <=> <<q, i>> \in lost)
    <3>1. q # r BY <1>1, <1>7, <2>1
    <3>2. \A u \in Threads : u # t => job'[u] = job[u] BY <1>1 DEF RuntimeInv, TypeOK, Job
    <3> QED BY <1>1, <1>5, <3>1, <3>2 DEF Executing
  <2>2. OneWorker' BY <1>1, <2>1, OneWorkerIsClaim DEF RuntimeInv, OneWorker, Claimed
  <2> QED BY <1>1, <1>3, <1>4, <2>2, PoolInv
<1> QED BY <1>6, <1>7

LEMMA DiscardInv ==
    ASSUME RuntimeInv, NEW t \in Threads, NEW k \in Steps, Discard(t, k)
    PROVE  RuntimeInv'
<1>1. /\ job[t][k] = "superseded" /\ Job(t, k, "done") /\ events' \in 0..MaxEvents
      /\ UNCHANGED <<database, signal, swept, drivers, nudged, thread, irregular, lost>>
  BY DEF Discard, RuntimeInv, TypeOK
<1> QED BY <1>1, KeepsClaim

\* The futures of a thread that crashed are done.
LEMMA ForgetInv ==
    ASSUME RuntimeInv, NEW t \in Threads, Forget(t)
    PROVE  RuntimeInv'
<1>1. /\ thread[t].pc = "free" /\ Inflight(t) = {}
      /\ thread' = [thread EXCEPT ![t] = Idle] /\ job' = [job EXCEPT ![t] = NoJobs]
      /\ UNCHANGED <<database, signal, swept, drivers, nudged, irregular, lost, events>>
  BY DEF Forget
<1>2. thread' \in [Threads -> ThreadRows] /\ thread'[t] = Idle /\ \A u \in Threads \ {t} : thread'[u] = thread[u]
  BY <1>1, IdleRow DEF RuntimeInv, TypeOK
<1>3. /\ job' \in [Threads -> [Steps -> JobStates]] /\ job'[t] = NoJobs
      /\ \A u \in Threads \ {t} : job'[u] = job[u]
  BY <1>1, IdleRow DEF RuntimeInv, TypeOK
<1>4. \A k \in Steps : job[t][k] # "running" /\ job'[t][k] = "none"
  BY <1>1, <1>3, IdleRow DEF Inflight
<1>5. \A s \in Runs : HasWork(s)' <=> HasWork(s) BY <1>1, SameWork DEF database
<1>6. TypeOK' BY <1>1, <1>2, <1>3 DEF RuntimeInv, TypeOK, database
<1>7. OneWorker' BY <1>1, <1>2, <1>3, <1>4, OneWorkerIsClaim, SameWorkers DEF RuntimeInv, database
<1>8. Registry' BY <1>1, <1>2 DEF RuntimeInv, Registry, TypeOK
<1>9. Unburdened' BY <1>2, <1>3, IdleRow DEF RuntimeInv, Unburdened
<1>10. DrivenAlone'
  <2>1. \A s \in Runs : Drivers(s)' \subseteq Drivers(s) BY <1>2, IdleRow DEF Drivers, Started
  <2>2. \A u \in Threads \ {t} : Inflight(u)' = Inflight(u) /\ (Started(u)' <=> Started(u))
    BY <1>2, <1>3 DEF Inflight, Started
  <2>3. Inflight(t)' = {} BY <1>3, <1>4 DEF Inflight
  <2> QED BY <1>1, <1>2, <2>1, <2>2, <2>3 DEF RuntimeInv, DrivenAlone
<1>11. WakeUpKept'
  <2> SUFFICES ASSUME NEW s \in Runs \ irregular, drivers[s] # "none", thread'[drivers[s]].outcome = "parked",
                      HasWork(s)
               PROVE  s \in nudged \/ Attended(s)'
    BY <1>1, <1>5 DEF WakeUpKept
  <2>1. drivers[s] \in Threads /\ thread[drivers[s]].outcome = "parked"
    BY <1>2, IdleRow DEF RuntimeInv, TypeOK
  <2>2. s \in nudged \/ Attended(s) BY <2>1 DEF RuntimeInv, WakeUpKept
  <2> QED BY <1>1, <1>2, <2>2 DEF Attended
<1> QED BY <1>6, <1>7, <1>8, <1>9, <1>10, <1>11, OneWorkerIsClaimNext DEF RuntimeInv

-----------------------------------------------------------------------------
(* Restart, and the theorems *)

\* The claims of live runs are released, or lost, with the workers that had them.
LEMMA RestartInv ==
    ASSUME RuntimeInv, NEW resumed \in BOOLEAN, Restart(resumed)
    PROVE  RuntimeInv'
<1>1. /\ thread' = [t \in Threads |-> Idle] /\ job' = [t \in Threads |-> NoJobs]
      /\ drivers' = [r \in Runs |-> "none"] /\ nudged' = {} /\ signal' = {} /\ irregular' = {}
      /\ swept' \in SUBSET Runs /\ UNCHANGED <<status, control, decided>>
  BY DEF Restart
<1>2. events' \in 0..MaxEvents BY DEF Restart, Event, RuntimeInv, TypeOK
<1>3. /\ row' \in [Runs -> [Steps -> {"new", "running", "done", "cancelled"}]]
      /\ lost' \in SUBSET (Runs \X Steps)
      /\ \A r \in Runs, k \in Steps : status[r] = "live" =>
            ~Claimed(r, k)' /\ (<<r, k>> \in lost' => row'[r][k] = "running")
  <2>1. CASE resumed BY <2>1 DEF Restart, Orphans, Claimed, RuntimeInv, TypeOK
  <2>2. CASE ~resumed
    <3>1. row' = row /\ lost' = Orphans BY <2>2 DEF Restart
    <3>2. ASSUME NEW r \in Runs, NEW k \in Steps
          PROVE  <<r, k>> \in lost' <=> status[r] = "live" /\ row[r][k] = "running"
      BY <3>1 DEF Orphans
    <3>3. lost' \in SUBSET (Runs \X Steps) BY <3>1 DEF Orphans
    <3> QED BY <3>1, <3>2, <3>3 DEF Claimed, RuntimeInv, TypeOK
  <2> QED BY <2>1, <2>2
<1>4. TypeOK' BY <1>1, <1>2, <1>3, IdleRow DEF RuntimeInv, TypeOK
<1>5. OneWorker' BY <1>1, <1>3, IdleRow DEF OneWorker, Executing
<1>6. (Registry /\ Unburdened /\ WakeUpKept)' BY <1>1, IdleRow DEF Registry, Unburdened, WakeUpKept
<1>7. DrivenAlone' BY <1>1, IdleRow DEF DrivenAlone, Drivers, Started, Inflight
<1> QED BY <1>4, <1>5, <1>6, <1>7, OneWorkerIsClaimNext DEF RuntimeInv

LEMMA NextInv == RuntimeInv /\ [Next]_vars => RuntimeInv'
<1> SUFFICES ASSUME RuntimeInv, [Next]_vars PROVE RuntimeInv' OBVIOUS
<1>1. ASSUME NEW r \in Runs, Decide(r) \/ Reopen(r) \/ Signal(r) \/ SweepSubmits(r) PROVE RuntimeInv'
  BY <1>1, DecideInv, ReopenInv, SignalInv, SweepSubmitsInv
<1>2. ASSUME NEW r \in Runs, NEW c \in {"none", "pause", "cancel"}, Control(r, c) PROVE RuntimeInv'
  BY <1>2, ControlInv
<1>3. ASSUME NEW t \in Threads, Drive(t) \/ Crash(t) \/ Forget(t) PROVE RuntimeInv'
  BY <1>3, StartThreadInv, PollInv, FinishInv, LeaveInv, CrashInv, ForgetInv DEF Drive
<1>4. ASSUME NEW t \in Threads, NEW k \in Steps, Execute(t, k) PROVE RuntimeInv'
  BY <1>4, WorkInv, ReportInv, DiscardInv DEF Execute
<1>5. ASSUME NEW t \in Threads, NEW k \in Steps, NEW pc \in {"queued", "done"},
             FailAttempt(t, k, pc) \/ LoseClaim(t, k, pc)
      PROVE  RuntimeInv'
  BY <1>5, FailAttemptInv, LoseClaimInv
<1>6. CASE SweepReads \/ \E resumed \in BOOLEAN : Restart(resumed) BY <1>6, SweepReadsInv, RestartInv
<1>7. CASE UNCHANGED vars
  <2>1. TypeOK' BY <1>7 DEF RuntimeInv, TypeOK, vars, database
  <2>2. OneWorker' BY <1>7, OneWorkerIsClaim DEF RuntimeInv, OneWorker, Claimed, Executing, vars, database
  <2>3. (Registry /\ Unburdened)' BY <1>7 DEF RuntimeInv, Registry, Unburdened, vars
  <2>4. DrivenAlone' BY <1>7 DEF RuntimeInv, DrivenAlone, Drivers, Started, Inflight, vars
  <2>5. \A s \in Runs : HasWork(s)' <=> HasWork(s) BY <1>7, SameWork DEF vars, database
  <2>6. WakeUpKept' BY <1>7, <2>5 DEF RuntimeInv, WakeUpKept, Attended, vars
  <2> QED BY <2>1, <2>2, <2>3, <2>4, <2>6, OneWorkerIsClaimNext DEF RuntimeInv
<1> QED BY <1>1, <1>2, <1>3, <1>4, <1>5, <1>6, <1>7 DEF Next

\* However the threads interleave, fail, crash and restart, a step of a live run is claimed
\* exactly when one worker executes it, but for the claims that an attempt or a failed resume did
\* not give back, and between a parking poll and the look at the nudges
\* no wake-up of a run is lost (workflows/orchestrator.py `LocalRuntime`).
THEOREM Invariance == Spec => []RuntimeInv
<1> QED BY InitInv, NextInv, PTL DEF Spec

\* "A signal that lands while the driver is deciding to park is not lost": `_drive` gives a
\* run with work up only when a signal, the sweep or another thread is on its way to it.
THEOREM ParkLosesNothingAlways == Spec => ParkLosesNothing
<1> DEFINE Lost(r) == drivers[r] # "none" /\ thread[drivers[r]].outcome = "parked"
                        /\ thread'[drivers[r]].pc = "free" /\ HasWork(r)
           Kept == \A r \in Runs \ irregular : Lost(r) => Attended(r)'
<1>1. RuntimeInv /\ [Next]_vars => [Kept]_vars
  <2> SUFFICES ASSUME RuntimeInv, Next, NEW r \in Runs \ irregular, Lost(r)
               PROVE  Attended(r)'
    OBVIOUS
  <2> DEFINE t == drivers[r]
  <2>1. t \in Threads /\ thread[t].run = r /\ thread[t].pc = "leaving" /\ Started(t) /\ thread[t].outcome = "parked"
    BY DEF RuntimeInv, TypeOK, Registry, Unburdened, Started
  <2>2. r \in nudged \/ Attended(r) BY DEF RuntimeInv, WakeUpKept
  <2>3. ASSUME thread'[t] = thread[t] PROVE FALSE BY <2>1, <2>3
  <2> HIDE DEF t
  <2>4. ASSUME NEW u \in Threads, Leave(u) PROVE Attended(r)'
    <3>1. CASE u = t
      <4>1. r \notin nudged
        <5>1. SUFFICES ASSUME r \in nudged PROVE FALSE OBVIOUS
        <5>2. Goes(t, "polling", "none") BY <2>1, <2>4, <3>1, <5>1 DEF Leave
        <5>3. thread'[t].pc = "polling" BY <2>1, <5>2, GoesRow DEF RuntimeInv
        <5> QED BY <5>3 DEF t
      <4>2. Attended(r) BY <2>2, <4>1
      <4>3. thread' = [thread EXCEPT ![t] = Idle] /\ UNCHANGED <<signal, swept>>
        BY <2>1, <2>4, <3>1, <4>1 DEF Leave
      <4>4. \A v \in Threads \ {t} : thread'[v] = thread[v] BY <4>3 DEF RuntimeInv, TypeOK
      <4> QED BY <2>1, <4>2, <4>3, <4>4 DEF Attended
    <3>2. CASE u # t
      <4>1. thread'[t] = thread[t] BY <2>1, <2>4, <3>2 DEF Leave, Goes, RuntimeInv, TypeOK
      <4> QED BY <2>3, <4>1
    <3> QED BY <3>1, <3>2
  <2>5. CASE \E resumed \in BOOLEAN : Restart(resumed)
    <3>1. r \in swept' BY <2>5 DEF Restart, HasWork
    <3> QED BY <3>1 DEF Attended
  <2>6. ASSUME NEW u \in Threads, StartThread(u) \/ Poll(u) \/ Finish(u) \/ Crash(u) \/ Forget(u) PROVE FALSE
    <3>1. u # t BY <2>1, <2>6 DEF StartThread, Poll, Finish, Crash, Forget
    <3>2. \/ UNCHANGED thread
          \/ \E w : thread' = [thread EXCEPT ![u] = w]
      BY <2>6 DEF StartThread, Poll, Finish, Crash, Forget, Goes, RuntimeInv, TypeOK
    <3>3. thread'[t] = thread[t] BY <2>1, <3>1, <3>2 DEF RuntimeInv, TypeOK
    <3> QED BY <2>3, <3>3
  <2>7. ASSUME NEW s \in Runs, Submit(s) PROVE FALSE
    <3>1. CASE UNCHANGED thread BY <2>3, <3>1
    <3>2. CASE \E u \in Threads : thread[u] = Idle /\ \A v \in Threads \ {u} : thread'[v] = thread[v]
      <4>1. thread'[t] = thread[t] BY <2>1, <3>2, IdleRow
      <4> QED BY <2>3, <4>1
    <3> QED BY <2>7, <3>1, <3>2, SubmitRow
  <2>8. ASSUME UNCHANGED thread PROVE FALSE BY <2>3, <2>8
  <2>9. ASSUME NEW s \in Runs, Decide(s) \/ Reopen(s) \/ Signal(s) \/ SweepSubmits(s) PROVE FALSE
    BY <2>7, <2>8, <2>9 DEF Decide, Reopen, Signal, SweepSubmits
  <2>10. ASSUME NEW s \in Runs, NEW c \in {"none", "pause", "cancel"}, Control(s, c) PROVE FALSE
    BY <2>8, <2>10 DEF Control
  <2>11. ASSUME NEW u \in Threads, NEW k \in Steps, Execute(u, k) PROVE FALSE
    BY <2>8, <2>11 DEF Execute, Work, Report, Discard
  <2>12. ASSUME NEW u \in Threads, NEW k \in Steps, NEW pc \in {"queued", "done"},
                FailAttempt(u, k, pc) \/ LoseClaim(u, k, pc)
         PROVE  FALSE
    BY <2>8, <2>12 DEF FailAttempt, LoseClaim
  <2>13. CASE SweepReads BY <2>8, <2>13 DEF SweepReads
  <2> QED BY <2>4, <2>5, <2>6, <2>9, <2>10, <2>11, <2>12, <2>13 DEF Next, Drive
<1>2. Spec => [][Kept]_vars BY <1>1, Invariance, PTL DEF Spec
<1> QED BY <1>2 DEF ParkLosesNothing

=============================================================================
