--------------------------- MODULE MCLocal_proofs ---------------------------
(***************************************************************************)
(* What holds of the daemon's own work for any number of files, workers,   *)
(* jobs, crashes and messages: one scan at a time and no path forgotten    *)
(* (ScanCoordinator), one worker for a file (Supervisor), and every alert  *)
(* accounted for (AlertDelivery).                                          *)
(***************************************************************************)
EXTENDS MCLocal, SequenceTheorems, TLAPS

-----------------------------------------------------------------------------
(* Scans (ScanCoordinator).  That one runs at a time and that no path is   *)
(* forgotten are proved together: what a merge loses depends on whether a  *)
(* scan is there to run the catch-up.                                      *)

\* Only a running scan has a catch-up, and only an armed timer a burst.
CatchUpHasScan == Running \/ pending = NoPlan
BurstHasTimer  == settle \/ settling = NoPlan

\* stop leaves nothing that could start a scan.
StopDisarms ==
  ~ Accepting => /\ ~ settle /\ ~ rescan /\ pending = NoPlan
                 /\ state = "stopped" => ~ Running

IInv ==
  /\ TypeOK /\ OneScanAtATime /\ NothingForgotten
  /\ CatchUpHasScan /\ BurstHasTimer /\ StopDisarms

\* The merge of two plans is a plan that covers both.
LEMMA MergeCovers ==
  ASSUME NEW a, NEW b, IsPlan(a), IsPlan(b)
  PROVE  /\ IsPlan(PlanWith(a, b))
         /\ a.paths \cup b.paths \subseteq PlanWith(a, b).paths
BY DEF IsPlan, Plan, PlanWith, FullPlan, Scoped

LEMMA Plans ==
  /\ IsPlan(NoPlan) /\ IsPlan(FullPlan)
  /\ \A ps \in SUBSET Paths : IsPlan(Scoped(ps))
BY DEF IsPlan, Plan, NoPlan, FullPlan, Scoped

\* A scan that starts when none runs is the only one, and examines its plan.
LEMMA ScanStarts ==
  ASSUME TypeOK, ~ Running, NEW plan, IsPlan(plan), RunScan(plan)
  PROVE  /\ scans' \in [Promises -> Scan]
         /\ OneScanAtATime' /\ Running'
         /\ \A f \in plan.paths : \E p \in Promises : scans'[p].on /\ f \in scans'[p].left
<1>1. PICK p \in Promises : scans' = [scans EXCEPT ![p] = Begin(plan)]
  BY DEF RunScan
<1>2. Begin(plan) \in Scan
  BY DEF Begin, Scan, IsPlan, Plan
<1>3. \A q \in Promises : ~ scans[q].on
  BY DEF Running
<1>4. scans'[p] = Begin(plan) /\ \A q \in Promises \ {p} : scans'[q] = scans[q]
  BY <1>1 DEF TypeOK
<1> QED BY <1>1, <1>2, <1>3, <1>4 DEF TypeOK, OneScanAtATime, Running, Begin

LEMMA InitInv == Init => IInv
<1> SUFFICES ASSUME Init PROVE IInv
  OBVIOUS
<1>1. NoScan \in Scan /\ scans \in [Promises -> Scan]
  BY DEF Init, NoScan, Scan
<1>2. TypeOK
  <2>1. IsPlan(pending) /\ IsPlan(settling)
    BY Plans DEF Init
  <2>2. settle \in BOOLEAN /\ rescan \in BOOLEAN
    BY DEF Init
  <2> QED BY <1>1, <2>1, <2>2, ScanAssumption DEF Init, TypeOK
<1>3. OneScanAtATime
  BY DEF Init, OneScanAtATime, NoScan
<1>4. NothingForgotten /\ CatchUpHasScan /\ BurstHasTimer /\ StopDisarms
  BY DEF Init, NothingForgotten, CatchUpHasScan, BurstHasTimer, StopDisarms, Accepting
<1> QED BY <1>2, <1>3, <1>4 DEF IInv

LEMMA AskInv ==
  ASSUME IInv, Accepting, NEW ask, IsPlan(ask), Ask(ask), UNCHANGED <<state, changed, faults>>,
         rescan' \in BOOLEAN
  PROVE  IInv'
<1>1. CASE /\ Running
           /\ pending' = PlanWith(pending, ask)
           /\ UNCHANGED <<scans, settle, settling>>
  <2>1. IsPlan(pending') /\ pending.paths \cup ask.paths \subseteq pending'.paths
    BY <1>1, MergeCovers DEF IInv, TypeOK
  <2>2. owed' \in SUBSET Paths
    BY DEF Ask, IInv, TypeOK, IsPlan, Plan
  <2>3. NothingForgotten'
    BY <1>1, <2>1, <2>2 DEF Ask, IInv, NothingForgotten, Planned
  <2> QED BY <1>1, <2>1, <2>2, <2>3
       DEF IInv, TypeOK, IsPlan, OneScanAtATime, CatchUpHasScan, BurstHasTimer, StopDisarms,
           Running, Accepting
<1>2. CASE /\ ~ Running
           /\ settle' = (settle /\ ~ ask.full)
           /\ settling' = IF ask.full /\ settle THEN NoPlan ELSE settling
           /\ RunScan(PlanWith(NoPlan, ask))
           /\ UNCHANGED pending
  <2> DEFINE plan == PlanWith(NoPlan, ask)
  <2>1. IsPlan(plan) /\ ask.paths \subseteq plan.paths
    BY MergeCovers, Plans
  <2>2. /\ scans' \in [Promises -> Scan] /\ OneScanAtATime' /\ Running'
        /\ \A f \in plan.paths : \E p \in Promises : scans'[p].on /\ f \in scans'[p].left
    BY <1>2, <2>1, ScanStarts DEF IInv
  <2>3. owed' \in SUBSET Paths
    BY DEF Ask, IInv, TypeOK, IsPlan, Plan
  <2>4. settle' \in BOOLEAN /\ IsPlan(settling') /\ BurstHasTimer'
    BY <1>2, Plans DEF IInv, TypeOK, BurstHasTimer
  <2>5. \A f \in owed : f \in pending.paths \cup settling.paths
    BY <1>2 DEF IInv, NothingForgotten, Planned, Running
  <2>6. ask.full => ask.paths = Paths
    BY DEF IsPlan
  <2>7. NothingForgotten'
    BY <1>2, <2>1, <2>2, <2>3, <2>5, <2>6 DEF Ask, IInv, NothingForgotten, Planned
  <2> QED BY <1>2, <2>2, <2>3, <2>4, <2>7
       DEF IInv, TypeOK, IsPlan, CatchUpHasScan, StopDisarms, Accepting
<1> QED BY <1>1, <1>2 DEF Ask

LEMMA SettledInv == ASSUME IInv, Settled PROVE IInv'
<1>0. Accepting /\ Accepting'
  BY DEF IInv, Settled, StopDisarms, Accepting
<1>1. CASE Running /\ pending' = PlanWith(pending, settling) /\ UNCHANGED scans
  <2>1. IsPlan(pending') /\ pending.paths \cup settling.paths \subseteq pending'.paths
    BY <1>1, MergeCovers DEF IInv, TypeOK
  <2>2. NothingForgotten'
    BY <1>0, <1>1, <2>1 DEF Settled, IInv, TypeOK, NothingForgotten, Planned, NoPlan
  <2> QED BY <1>0, <1>1, <2>1, <2>2, Plans
       DEF Settled, IInv, TypeOK, IsPlan, OneScanAtATime, CatchUpHasScan, BurstHasTimer,
           StopDisarms, Running
<1>2. CASE ~ Running /\ RunScan(settling) /\ UNCHANGED pending
  <2>1. /\ scans' \in [Promises -> Scan] /\ OneScanAtATime' /\ Running'
        /\ \A f \in settling.paths : \E p \in Promises : scans'[p].on /\ f \in scans'[p].left
    BY <1>2, ScanStarts DEF IInv, TypeOK
  <2>2. \A f \in owed : f \in pending.paths \cup settling.paths
    BY <1>0, <1>2 DEF IInv, NothingForgotten, Planned, Running
  <2>3. NothingForgotten'
    BY <1>0, <1>2, <2>1, <2>2 DEF Settled, IInv, TypeOK, NothingForgotten, Planned
  <2> QED BY <1>0, <1>2, <2>1, <2>3, Plans
       DEF Settled, IInv, TypeOK, IsPlan, CatchUpHasScan, BurstHasTimer, StopDisarms
<1> QED BY <1>1, <1>2 DEF Settled

\* What the loop of a scan does when it has ended, with the plan it goes on with.
LEMMA CatchUpInv ==
  ASSUME IInv, NEW p \in Promises, scans[p].on, NEW next, IsPlan(next), CatchUp(p, next),
         ~ Accepting => next = NoPlan,
         UNCHANGED <<settle, settling, rescan, state, changed>>,
         owed' \subseteq owed, Accepting => owed' \subseteq next.paths \cup settling.paths,
         faults' \in 0 .. MaxFaults
  PROVE  IInv'
<1> DEFINE s == IF next = NoPlan THEN NoScan ELSE Begin(next)
<1>1. s \in Scan
  BY DEF Begin, Scan, NoScan, IsPlan, Plan
<1>2. scans' = [scans EXCEPT ![p] = s] /\ pending' = NoPlan
  BY DEF CatchUp
<1>3. scans' \in [Promises -> Scan] /\ scans'[p] = s
      /\ \A q \in Promises \ {p} : ~ scans'[q].on
  BY <1>1, <1>2 DEF IInv, TypeOK, OneScanAtATime
<1>4. OneScanAtATime'
  BY <1>3 DEF OneScanAtATime
<1>5. next.paths = (IF s.on THEN s.left ELSE {})
  BY DEF Begin, NoScan, NoPlan
<1>6. NothingForgotten'
  BY <1>2, <1>3, <1>5 DEF IInv, TypeOK, NothingForgotten, Planned, Accepting
<1>7. StopDisarms'
  BY <1>2, <1>3 DEF IInv, StopDisarms, Accepting, Running, NoScan
<1> QED BY <1>2, <1>3, <1>4, <1>6, <1>7, Plans
     DEF IInv, TypeOK, IsPlan, CatchUpHasScan, BurstHasTimer

\* Beside the scan that ends, only the catch-up and the burst hold paths.
LEMMA OwedToOne ==
  ASSUME IInv, Accepting, NEW p \in Promises, scans[p].on
  PROVE  owed \subseteq scans[p].left \cup pending.paths \cup settling.paths
BY DEF IInv, OneScanAtATime, NothingForgotten, Planned

LEMMA FinishedInv == ASSUME IInv, NEW p \in Promises, Finished(p) PROVE IInv'
<1>1. IsPlan(IF Accepting THEN pending ELSE NoPlan)
  BY Plans DEF IInv, TypeOK
<1>2. Accepting => owed \subseteq pending.paths \cup settling.paths
  BY OwedToOne DEF Finished
<1> QED BY <1>1, <1>2, CatchUpInv DEF Finished, IInv, TypeOK

LEMMA FailedInv == ASSUME IInv, NEW p \in Promises, Failed(p) PROVE IInv'
<1> DEFINE next == IF Accepting THEN IF scans[p].full THEN pending ELSE FullPlan ELSE NoPlan
<1>1. IsPlan(next)
  BY Plans DEF IInv, TypeOK
<1>2. /\ CatchUp(p, next)
      /\ owed' = IF scans[p].full THEN owed \cap (next.paths \cup settling.paths) ELSE owed
  BY DEF Failed
<1>3. Accepting => owed' \subseteq next.paths \cup settling.paths
  BY <1>2 DEF FullPlan, IInv, TypeOK
<1>4. faults' \in 0 .. MaxFaults
  BY ScanAssumption DEF Failed, IInv, TypeOK
<1> QED BY <1>1, <1>2, <1>3, <1>4, CatchUpInv DEF Failed

LEMMA ExamineInv == ASSUME IInv, NEW p \in Promises, NEW f \in Paths, Examine(p, f) PROVE IInv'
<1>1. /\ scans' \in [Promises -> Scan]
      /\ \A q \in Promises : /\ scans'[q].on = scans[q].on
                             /\ scans'[q].left = IF q = p THEN scans[q].left \ {f}
                                                 ELSE scans[q].left
  BY DEF Examine, IInv, TypeOK, Scan
<1>2. NothingForgotten'
  BY <1>1 DEF Examine, IInv, TypeOK, NothingForgotten, Planned, Accepting
<1> QED BY <1>1, <1>2
     DEF Examine, IInv, TypeOK, OneScanAtATime, CatchUpHasScan, BurstHasTimer, StopDisarms,
         Running, Accepting, IsPlan

LEMMA WatchInv == ASSUME IInv, NEW f \in Paths, Watch(f) PROVE IInv'
<1>1. IsPlan(settling') /\ settling.paths \cup {f} \subseteq settling'.paths
  <2>1. Scoped({f}).paths = {f} /\ IsPlan(Scoped({f}))
    BY Plans DEF Scoped
  <2> QED BY <2>1, MergeCovers DEF Watch, IInv, TypeOK
<1>2. NothingForgotten'
  BY <1>1 DEF Watch, IInv, TypeOK, NothingForgotten, Planned, Accepting
<1> QED BY <1>1, <1>2
     DEF Watch, IInv, TypeOK, OneScanAtATime, CatchUpHasScan, BurstHasTimer, StopDisarms,
         Running, Accepting, IsPlan

LEMMA StartStopInv ==
  ASSUME IInv, Start \/ Stop \/ Stopped \/ (\E f \in Paths : Change(f)) \/ UNCHANGED vars
  PROVE  IInv'
<1> USE DEF IInv, TypeOK, OneScanAtATime, CatchUpHasScan, BurstHasTimer, StopDisarms, Running,
            Accepting, IsPlan, NothingForgotten, Planned
<1>1. CASE Start BY <1>1, ScanAssumption DEF Start
<1>2. CASE Stop BY <1>2, Plans DEF Stop
<1>3. CASE Stopped BY <1>3 DEF Stopped
<1>4. CASE \E f \in Paths : Change(f) BY <1>4 DEF Change
<1>5. CASE UNCHANGED vars BY <1>5 DEF vars
<1> QED BY <1>1, <1>2, <1>3, <1>4, <1>5

LEMMA StepInv == IInv /\ [Next]_vars => IInv'
<1> SUFFICES ASSUME IInv, [Next]_vars PROVE IInv'
  OBVIOUS
<1>1. CASE Request
  <2>1. PICK ask \in {Scoped({f}) : f \in Paths} \cup {FullPlan} : Ask(ask)
    BY <1>1 DEF Request
  <2>2. IsPlan(ask)
    BY Plans
  <2>3. Accepting /\ UNCHANGED <<rescan, state, changed, faults>>
    BY <1>1 DEF Request
  <2>4. rescan' \in BOOLEAN
    BY <2>3 DEF IInv, TypeOK
  <2> QED BY <2>1, <2>2, <2>3, <2>4, AskInv
<1>2. CASE Rescan
  <2>1. Accepting /\ Ask(FullPlan) /\ UNCHANGED <<state, changed, faults>>
    BY <1>2 DEF Rescan, Accepting
  <2>2. rescan' \in BOOLEAN
    BY <1>2, ScanAssumption DEF Rescan
  <2> QED BY <2>1, <2>2, Plans, AskInv
<1>3. CASE Settled BY <1>3, SettledInv
<1>4. CASE \E p \in Promises : Finished(p) \/ Failed(p) \/ \E f \in Paths : Examine(p, f)
  BY <1>4, FinishedInv, FailedInv, ExamineInv
<1>5. CASE \E f \in Paths : Watch(f) BY <1>5, WatchInv
<1>6. CASE Start \/ Stop \/ Stopped \/ (\E f \in Paths : Change(f)) \/ UNCHANGED vars
  BY <1>6, StartStopInv
<1> QED BY <1>1, <1>2, <1>3, <1>4, <1>5, <1>6 DEF Next

LEMMA Invariance == Spec => []IInv
BY InitInv, StepInv, PTL DEF Spec

\* No two scans of one library ever run at once.
THEOREM OneScan == Spec => []OneScanAtATime
<1>1. IInv => OneScanAtATime
  BY DEF IInv
<1> QED BY <1>1, Invariance, PTL

\* A path that was asked for stays in a plan until it is examined.
THEOREM NoPathLost == Spec => []NothingForgotten
<1>1. IInv => NothingForgotten
  BY DEF IInv
<1> QED BY <1>1, Invariance, PTL

\* When stop resolves, nothing runs and nothing is armed.
THEOREM StopIsQuiet == Spec => []QuietAfterStop
<1>1. IInv => QuietAfterStop
  BY DEF IInv, StopDisarms, QuietAfterStop, Accepting
<1> QED BY <1>1, Invariance, PTL

\* Scans take turns, and none outlives the coordinator.
THEOREM ScansTakeTurns == Spec => []ScansInTurn
BY OneScan, StopIsQuiet, PTL DEF ScansInTurn

-----------------------------------------------------------------------------
(* Local work (Supervisor): the invariant.                                 *)

Holding(j) == worker[j] \in {"live", "told", "exited", "stopped", "orphan"}

\* A worker of this daemon has a slot until its run is settled.
SlotsHold == \A j \in DOMAIN job : Holding(j) /\ worker[j] # "orphan" => j \in slots

\* A job whose process runs, or is not settled, is the last of its file, whose row is running
\* and is not being deleted.
WorkersHold ==
  \A j \in DOMAIN job : Holding(j) =>
    /\ job[j].file \in known \ DOMAIN parked /\ row[job[j].file].state = "running"
    /\ \A k \in DOMAIN job : job[k].file = job[j].file => k <= j

\* A job costs an attempt when it is settled, and another if that was not written down and
\* the reaper finds it.
JobsAreCharged ==
  \A j \in DOMAIN job :
    /\ Holding(j) => charged[j] = 0
    /\ job[j].state = "running" => charged[j] <= 1

WorkInv == SlotsHold /\ WorkersHold /\ JobsAreCharged

\* What the types say of the sequences and the rows.
Shapes ==
  /\ job \in Seq(Work!JobRow) /\ Len(job) \in Nat /\ DOMAIN job = 1..Len(job)
  /\ DOMAIN worker = 1..Len(job) /\ DOMAIN charged = 1..Len(job)
  /\ DOMAIN row = Files
  /\ \A f \in Files : row[f] \in Work!LedgerRecord
  /\ \A j \in DOMAIN job : job[j] \in Work!JobRow
  /\ \A j \in DOMAIN job : job[j].file \in Files
  /\ \A j \in DOMAIN job : charged[j] \in Nat

LEMMA ShapesHold == Work!SupervisorTypeOK => Shapes
<1> SUFFICES ASSUME Work!SupervisorTypeOK PROVE Shapes
  OBVIOUS
<1>1. job \in Seq(Work!JobRow) /\ Len(job) \in Nat /\ DOMAIN job = 1..Len(job)
  BY DEF Work!SupervisorTypeOK
<1>2. worker \in [1..Len(job) -> Work!WorkerStates] /\ charged \in [1..Len(job) -> 0..2]
  BY <1>1 DEF Work!SupervisorTypeOK
<1>3. DOMAIN row = Files /\ \A f \in Files : row[f] \in Work!LedgerRecord
  BY DEF Work!SupervisorTypeOK
<1>4. \A j \in DOMAIN job : job[j] \in Work!JobRow
  BY <1>1
<1>5. \A j \in DOMAIN job : job[j].file \in Files
  <2> TAKE j \in DOMAIN job
  <2>1. job[j] \in Work!JobRow
    BY <1>4
  <2> QED BY <2>1 DEF Work!JobRow
<1>6. DOMAIN worker = 1..Len(job) /\ DOMAIN charged = 1..Len(job)
  BY <1>2
<1>7. \A j \in DOMAIN job : charged[j] \in Nat
  BY <1>1, <1>2
<1> QED BY <1>1, <1>3, <1>4, <1>5, <1>6, <1>7 DEF Shapes

\* The row of a job is closed.
LEMMA JobEnds ==
  ASSUME Shapes, NEW j \in DOMAIN job, NEW status \in Work!JobStates, Work!EndJob(j, status)
  PROVE  /\ job' \in Seq(Work!JobRow) /\ Len(job') = Len(job) /\ DOMAIN job' = DOMAIN job
         /\ \A k \in DOMAIN job : job'[k].file = job[k].file /\ (k # j => job'[k] = job[k])
         /\ job'[j].state = status
<1>1. /\ DOMAIN job' = DOMAIN job /\ Len(job') = Len(job)
      /\ \A k \in DOMAIN job : k # j => job'[k] = job[k]
      /\ job'[j] = [job[j] EXCEPT !.state = status]
  BY DEF Shapes, Work!EndJob
<1>2. \A k \in DOMAIN job : job[k] \in Work!JobRow
  BY DEF Shapes
<1>3. \A k \in DOMAIN job : job'[k] \in Work!JobRow /\ job'[k].file = job[k].file
  BY <1>1, <1>2 DEF Work!JobRow
<1>4. job' \in Seq(Work!JobRow)
  BY <1>1, <1>3 DEF Shapes, Work!EndJob
<1>5. job'[j].state = status
  BY <1>1, <1>2 DEF Work!JobRow
<1> QED BY <1>1, <1>3, <1>4, <1>5

\* A job gets a row.
LEMMA JobStarts ==
  ASSUME Shapes, NEW f \in Files, NEW status \in Work!JobStates, NEW pid \in BOOLEAN,
         Work!NewJob(f, status, pid)
  PROVE  /\ job' \in Seq(Work!JobRow) /\ Len(job') = Len(job) + 1
         /\ DOMAIN job' = DOMAIN job \cup {Len(job) + 1} /\ Len(job) + 1 \notin DOMAIN job
         /\ \A k \in DOMAIN job : k < Len(job) + 1 /\ job'[k] = job[k]
         /\ job'[Len(job) + 1] = [file |-> f, state |-> status, pid |-> pid]
<1>1. [file |-> f, state |-> status, pid |-> pid] \in Work!JobRow
  BY DEF Work!JobRow
<1> QED BY <1>1 DEF Shapes, Work!NewJob

\* A row that is not running is nobody's.
LEMMA NobodyHolds ==
  ASSUME Shapes, WorkersHold, NEW f \in Files, row[f].state # "running" \/ f \in DOMAIN parked,
         NEW j \in DOMAIN job, job[j].file = f
  PROVE  ~ Holding(j)
  BY DEF WorkersHold

\* The job in whose hands a file is, is the last of the file, and no other holds it.
LEMMA HolderIsLatest ==
  ASSUME Shapes, WorkersHold, NEW j \in DOMAIN job, Holding(j)
  PROVE  /\ Work!Latest(job[j].file) = j
         /\ \A k \in DOMAIN job : Holding(k) /\ job[k].file = job[j].file => k = j
<1> DEFINE J == Work!JobsOf(job[j].file)
<1>1. j \in J /\ J \subseteq Nat /\ \A k \in J : k <= j
  BY DEF WorkersHold, Work!JobsOf, Shapes
<1>2. \A k \in J : (\A l \in J : l <= k) => k = j
  BY <1>1
<1>3. Work!Latest(job[j].file) = CHOOSE k \in J : \A l \in J : l <= k
  BY DEF Work!Latest
<1>4. Work!Latest(job[j].file) = j
  <2> HIDE DEF J
  <2> QED BY <1>1, <1>2, <1>3
<1>5. ASSUME NEW k \in DOMAIN job, Holding(k), job[k].file = job[j].file PROVE k = j
  <2>1. k <= j /\ j <= k
    BY <1>5 DEF WorkersHold
  <2> QED BY <2>1 DEF Shapes
<1> QED BY <1>4, <1>5

\* A step that adds no job, takes none up and leaves every row that is held.
LEMMA HeldStay ==
  ASSUME Shapes, WorkInv, DOMAIN job' = DOMAIN job,
         \A j \in DOMAIN job : job'[j].file = job[j].file,
         \A j \in DOMAIN job : Holding(j)' => Holding(j),
         \A j \in DOMAIN job : Holding(j)' /\ worker'[j] # "orphan" => j \in slots',
         \A j \in DOMAIN job : Holding(j)' =>
           /\ job[j].file \in known' \ DOMAIN parked'
           /\ row'[job[j].file].state = row[job[j].file].state,
         \A j \in DOMAIN job : Holding(j)' => charged'[j] = charged[j],
         \A j \in DOMAIN job :
           job'[j].state = "running" =>
             (job[j].state = "running" /\ charged'[j] = charged[j]) \/ charged'[j] \in {0, 1}
  PROVE  WorkInv'
<1>1. SlotsHold'
  BY DEF SlotsHold
<1>2. WorkersHold'
  BY DEF WorkInv, WorkersHold
<1>3. JobsAreCharged'
  BY DEF WorkInv, JobsAreCharged
<1> QED BY <1>1, <1>2, <1>3 DEF WorkInv

\* A job that starts on a row nobody holds, whatever becomes of the others' workers.
LEMMA StartsSafely ==
  ASSUME Shapes, WorkInv, NEW n, n = Len(job) + 1, NEW f \in Files, f \in known \ DOMAIN parked, row[f].state # "running",
         NEW status \in Work!JobStates, NEW pid \in BOOLEAN, Work!NewJob(f, status, pid),
         known' = known, DOMAIN parked' \subseteq DOMAIN parked,
         \A g \in Files : g # f => row'[g] = row[g],
         \A k \in DOMAIN job : Holding(k)' => Holding(k),
         \A k \in DOMAIN job : Holding(k)' /\ worker'[k] # "orphan" => k \in slots',
         \A k \in DOMAIN job : charged'[k] = charged[k],
         charged'[n] \in {0, 1},
         Holding(n)' =>
           /\ charged'[n] = 0 /\ row'[f].state = "running"
           /\ worker'[n] # "orphan" => n \in slots'
  PROVE  WorkInv'
<1>1. /\ DOMAIN job' = DOMAIN job \cup {n} /\ n \notin DOMAIN job
      /\ \A k \in DOMAIN job : k < n /\ job'[k] = job[k]
  BY JobStarts
<1>2. job'[n].file = f
  <2>1. job'[n] = [file |-> f, state |-> status, pid |-> pid]
    BY JobStarts
  <2> QED BY <2>1
<1>3. \A k \in DOMAIN job : job[k].file = f => ~ Holding(k)
  BY NobodyHolds DEF WorkInv
<1>4. SlotsHold'
  <2>1. ASSUME NEW k \in DOMAIN job', Holding(k)', worker'[k] # "orphan" PROVE k \in slots'
    <3>1. k \in DOMAIN job \/ k = n
      BY <1>1
    <3> QED BY <2>1, <3>1
  <2> QED BY <2>1 DEF SlotsHold
<1>5. WorkersHold'
  <2> SUFFICES ASSUME NEW j \in DOMAIN job', Holding(j)'
               PROVE  /\ job'[j].file \in known' \ DOMAIN parked'
                      /\ row'[job'[j].file].state = "running"
                      /\ \A k \in DOMAIN job' : job'[k].file = job'[j].file => k <= j
    BY DEF WorkersHold
  <2>1. CASE j = n
    <3>1. \A k \in DOMAIN job' : k <= n
      BY <1>1 DEF Shapes
    <3>2. job'[j].file = f /\ Holding(n)'
      BY <2>1, <1>2
    <3>3. row'[f].state = "running"
      BY <3>2
    <3> QED BY <2>1, <3>1, <3>2, <3>3
  <2>2. CASE j # n
    <3>1. j \in DOMAIN job /\ Holding(j) /\ job'[j] = job[j] /\ job[j].file # f
      BY <2>2, <1>1, <1>3
    <3>2. job[j].file \in Files
      BY <3>1 DEF Shapes
    <3>3. /\ job[j].file \in known \ DOMAIN parked /\ row[job[j].file].state = "running"
          /\ \A k \in DOMAIN job : job[k].file = job[j].file => k <= j
      BY <3>1 DEF WorkInv, WorkersHold
    <3>4. \A k \in DOMAIN job' : job'[k].file = job[j].file => k <= j
      BY <3>1, <3>3, <1>1, <1>2
    <3> QED BY <3>1, <3>2, <3>3, <3>4
  <2> QED BY <2>1, <2>2
<1>6. JobsAreCharged'
  <2> SUFFICES ASSUME NEW j \in DOMAIN job'
               PROVE  /\ Holding(j)' => charged'[j] = 0
                      /\ job'[j].state = "running" => charged'[j] <= 1
    BY DEF JobsAreCharged
  <2>1. CASE j = n
    <3>1. Holding(n)' => charged'[n] = 0
      OBVIOUS
    <3>2. charged'[n] <= 1
      OBVIOUS
    <3> QED BY <2>1, <3>1, <3>2
  <2>2. CASE j # n
    BY <2>2, <1>1 DEF WorkInv, JobsAreCharged
  <2> QED BY <2>1, <2>2
<1> QED BY <1>4, <1>5, <1>6 DEF WorkInv

\* The run of a worker is settled: its file is nobody's any more.
LEMMA SettlesSafely ==
  ASSUME Shapes, WorkInv, NEW j \in DOMAIN job, Holding(j), ~ Holding(j)',
         known' = known, DOMAIN parked' \subseteq DOMAIN parked, DOMAIN job' = DOMAIN job,
         \A g \in Files : g # job[j].file => row'[g] = row[g],
         \A k \in DOMAIN job : job'[k].file = job[k].file /\ (k # j => job'[k] = job[k]),
         \A k \in DOMAIN job : Holding(k)' => Holding(k),
         \A k \in DOMAIN job : Holding(k)' /\ worker'[k] # "orphan" => k \in slots',
         \A k \in DOMAIN job : k # j => charged'[k] = charged[k],
         job'[j].state = "running" => charged'[j] \in {0, 1}
  PROVE  WorkInv'
<1>1. \A k \in DOMAIN job : Holding(k)' => job[k].file # job[j].file
  BY HolderIsLatest DEF WorkInv
<1>2. \A k \in DOMAIN job : Holding(k)' =>
        /\ job[k].file \in known' \ DOMAIN parked'
        /\ row'[job[k].file].state = row[job[k].file].state
  BY <1>1 DEF WorkInv, WorkersHold, Shapes
<1>3. \A k \in DOMAIN job : Holding(k)' => charged'[k] = charged[k]
  OBVIOUS
<1>4. \A k \in DOMAIN job :
        job'[k].state = "running" =>
          (job[k].state = "running" /\ charged'[k] = charged[k]) \/ charged'[k] \in {0, 1}
  OBVIOUS
<1> QED BY <1>2, <1>3, <1>4, HeldStay

\* A claim writes the status.
LEMMA RowClaimed ==
  ASSUME Shapes, NEW f \in Files, Work!Claim(f)
  PROVE  row'[f].state = "running"
<1>1. row[f] \in Work!LedgerRecord /\ row'[f] = [row[f] EXCEPT !.state = "running"]
  BY DEF Shapes, Work!Claim
<1> QED BY <1>1 DEF Work!LedgerRecord

\* The workers of a daemon that has died.
LEMMA OrphansHold ==
  ASSUME Shapes, NEW k \in DOMAIN job, NEW w, w = Work!Orphans(worker)[k]
  PROVE  w \in {"live", "told", "exited", "stopped", "orphan"} => w = "orphan" /\ Holding(k)
BY DEF Work!Orphans, Shapes, Holding

\* Nothing but a flag is written.
LEMMA NothingMoves ==
  ASSUME Shapes, WorkInv, job' = job /\ worker' = worker /\ charged' = charged /\ slots' = slots /\ row' = row /\ known' = known /\ parked' = parked
  PROVE  WorkInv'
BY DEF WorkInv, SlotsHold, WorkersHold, JobsAreCharged, Holding

\* The row of a file that nobody holds is written.
LEMMA OthersMove ==
  ASSUME Shapes, WorkInv, NEW f \in Files, job' = job /\ worker' = worker /\ charged' = charged /\ slots' = slots,
         \A j \in DOMAIN job : job[j].file = f => ~ Holding(j),
         \A g \in Files : g # f => row'[g] = row[g],
         \A g \in Files : g # f /\ g \in known \ DOMAIN parked => g \in known' \ DOMAIN parked'
  PROVE  WorkInv'
<1>1. \A j \in DOMAIN job : Holding(j)' => Holding(j)
  BY DEF Holding
<1>2. \A j \in DOMAIN job : Holding(j) =>
        /\ job[j].file \in known' \ DOMAIN parked'
        /\ row'[job[j].file].state = row[job[j].file].state
  BY DEF WorkInv, WorkersHold, Shapes
<1>3. \A j \in DOMAIN job : Holding(j)' /\ worker'[j] # "orphan" => j \in slots'
  BY DEF WorkInv, SlotsHold, Holding
<1> QED BY <1>1, <1>2, <1>3, HeldStay

\* Workers end or are told to, and nothing is written of their jobs.
LEMMA FewerHold ==
  ASSUME Shapes, WorkInv, job' = job /\ charged' = charged /\ row' = row /\ known' = known,
         DOMAIN parked' \subseteq DOMAIN parked,
         \A k \in DOMAIN job : Holding(k)' => Holding(k),
         \A k \in DOMAIN job : Holding(k)' /\ worker'[k] # "orphan" => k \in slots'
  PROVE  WorkInv'
<1>1. \A j \in DOMAIN job : Holding(j)' =>
        /\ job[j].file \in known' \ DOMAIN parked'
        /\ row'[job[j].file].state = row[job[j].file].state
  BY DEF WorkInv, WorkersHold
<1> QED BY <1>1, HeldStay

\* Every step keeps the invariant of the local work.
LEMMA WorkSafe ==
  ASSUME ~ HoldsRunning, ~ ReapsDraining, Shapes, WorkInv, [Work!SupervisorNext]_Work!svars
  PROVE  WorkInv'
<1> USE LocalAssumption DEF Holding
<1>1. ASSUME Work!TickEnds PROVE WorkInv'
  BY <1>1, NothingMoves DEF Work!TickEnds
<1>2. ASSUME Work!Tick PROVE WorkInv'
  BY <1>2, NothingMoves DEF Work!Tick
<1>3. ASSUME Work!Pause PROVE WorkInv'
  BY <1>3, NothingMoves DEF Work!Pause
<1>4. ASSUME Work!SetTarget PROVE WorkInv'
  BY <1>4, NothingMoves DEF Work!SetTarget
<1>5. ASSUME NEW f \in Files, Work!ClaimAndStart(f) PROVE WorkInv'
  <2>1. f \in known \ DOMAIN parked /\ row[f].state # "running"
    BY <1>5 DEF Work!ClaimAndStart, Work!Claimable, Work!IsEligible
  <2>2. PICK n : n = Len(job) + 1
    OBVIOUS
  <2>3. Work!NewJob(f, "running", TRUE) /\ "running" \in Work!JobStates
    BY <1>5 DEF Work!ClaimAndStart, Work!JobStates
  <2>4. \A k \in DOMAIN job : worker'[k] = worker[k] /\ charged'[k] = charged[k]
    BY <1>5 DEF Work!ClaimAndStart, Shapes
  <2>5. worker'[n] = "live" /\ charged'[n] = 0
    BY <1>5, <2>2 DEF Work!ClaimAndStart, Shapes
  <2>6. slots' = slots \cup {n} /\ known' = known /\ parked' = parked
    BY <1>5, <2>2 DEF Work!ClaimAndStart
  <2>7. \A g \in Files : g # f => row'[g] = row[g]
    BY <1>5 DEF Work!ClaimAndStart, Work!Claim, Shapes
  <2>8. row'[f].state = "running"
    BY <1>5, RowClaimed DEF Work!ClaimAndStart
  <2>9. \A k \in DOMAIN job :
          /\ Holding(k)' => Holding(k)
          /\ Holding(k)' /\ worker'[k] # "orphan" => k \in slots'
    BY <2>4, <2>6 DEF WorkInv, SlotsHold
  <2> QED BY <2>1, <2>2, <2>3, <2>4, <2>5, <2>6, <2>7, <2>8, <2>9, StartsSafely
<1>6. ASSUME NEW f \in Files, Work!StartFails(f) PROVE WorkInv'
  <2>1. f \in known \ DOMAIN parked /\ row[f].state # "running"
    BY <1>6 DEF Work!StartFails, Work!Claimable, Work!IsEligible
  <2>2. PICK n : n = Len(job) + 1
    OBVIOUS
  <2>3. Work!NewJob(f, "failed", FALSE) /\ "failed" \in Work!JobStates
    BY <1>6 DEF Work!StartFails, Work!JobStates
  <2>4. \A k \in DOMAIN job : worker'[k] = worker[k] /\ charged'[k] = charged[k]
    BY <1>6 DEF Work!StartFails, Shapes
  <2>5. worker'[n] = "none" /\ charged'[n] \in {0, 1}
    BY <1>6, <2>2 DEF Work!StartFails, Shapes
  <2>6. slots' = slots /\ known' = known /\ parked' = parked
    BY <1>6 DEF Work!StartFails
  <2>7. \A g \in Files : g # f => row'[g] = row[g]
    BY <1>6 DEF Work!StartFails, Shapes
  <2>8. \A k \in DOMAIN job :
          /\ Holding(k)' => Holding(k)
          /\ Holding(k)' /\ worker'[k] # "orphan" => k \in slots'
    BY <2>4, <2>6 DEF WorkInv, SlotsHold
  <2>9. ~ Holding(n)'
    BY <2>5
  <2> QED BY <2>1, <2>2, <2>3, <2>4, <2>5, <2>6, <2>7, <2>8, <2>9, StartsSafely
<1>7. ASSUME NEW f \in Files, Work!Requeue(f) PROVE WorkInv'
  <2>1. \A j \in DOMAIN job : job[j].file = f => ~ Holding(j)
    BY <1>7, NobodyHolds DEF Work!Requeue, WorkInv
  <2>2. \A g \in Files : g # f => row'[g] = row[g]
    BY <1>7 DEF Work!Requeue, Shapes
  <2>3. job' = job /\ worker' = worker /\ charged' = charged /\ slots' = slots
    BY <1>7 DEF Work!Requeue
  <2>4. \A g \in Files : g # f /\ g \in known \ DOMAIN parked => g \in known' \ DOMAIN parked'
    BY <1>7 DEF Work!Requeue
  <2> QED BY <2>1, <2>2, <2>3, <2>4, OthersMove
<1>8. ASSUME NEW f \in Files, Work!Hold(f) PROVE WorkInv'
  <2>1. \A j \in DOMAIN job : job[j].file = f => ~ Holding(j)
    BY <1>8, NobodyHolds DEF Work!Hold, WorkInv
  <2>2. \A g \in Files : g # f => row'[g] = row[g]
    BY <1>8 DEF Work!Hold, Shapes
  <2>3. job' = job /\ worker' = worker /\ charged' = charged /\ slots' = slots
    BY <1>8 DEF Work!Hold
  <2>4. \A g \in Files : g # f /\ g \in known \ DOMAIN parked => g \in known' \ DOMAIN parked'
    BY <1>8 DEF Work!Hold
  <2> QED BY <2>1, <2>2, <2>3, <2>4, OthersMove
<1>9. ASSUME NEW f \in Files, Work!ReserveForDeletion(f) PROVE WorkInv'
  <2>1. \A j \in DOMAIN job : job[j].file = f => ~ Holding(j)
    BY <1>9, NobodyHolds DEF Work!ReserveForDeletion, WorkInv
  <2>2. \A g \in Files : g # f => row'[g] = row[g]
    BY <1>9 DEF Work!ReserveForDeletion, Shapes
  <2>3. job' = job /\ worker' = worker /\ charged' = charged /\ slots' = slots
    BY <1>9 DEF Work!ReserveForDeletion
  <2>4. \A g \in Files : g # f /\ g \in known \ DOMAIN parked => g \in known' \ DOMAIN parked'
    BY <1>9 DEF Work!ReserveForDeletion
  <2> QED BY <2>1, <2>2, <2>3, <2>4, OthersMove
<1>10. ASSUME NEW f \in Files, Work!EndDeletion(f) PROVE WorkInv'
  <2>1. \A j \in DOMAIN job : job[j].file = f => ~ Holding(j)
    BY <1>10, NobodyHolds DEF Work!EndDeletion, WorkInv
  <2>2. \A g \in Files : g # f => row'[g] = row[g]
    BY <1>10 DEF Work!EndDeletion, Shapes
  <2>3. job' = job /\ worker' = worker /\ charged' = charged /\ slots' = slots
    BY <1>10 DEF Work!EndDeletion
  <2>4. \A g \in Files : g # f /\ g \in known \ DOMAIN parked => g \in known' \ DOMAIN parked'
    BY <1>10 DEF Work!EndDeletion
  <2> QED BY <2>1, <2>2, <2>3, <2>4, OthersMove
<1>11. ASSUME NEW f \in Files, Work!Reap(f) PROVE WorkInv'
  <2> DEFINE l == Work!Latest(f)
  <2>1. \A j \in DOMAIN job : job[j].file = f => ~ Holding(j)
    <3> SUFFICES ASSUME NEW j \in DOMAIN job, job[j].file = f, Holding(j) PROVE FALSE
      OBVIOUS
    <3>1. j \in Work!JobsOf(f) /\ Work!Latest(f) = j
      BY HolderIsLatest DEF Work!JobsOf, WorkInv
    <3>2. Work!Abandoned(f) /\ ~ Work!Unsettled(j)
      BY <1>11, <3>1 DEF Work!Reap
    <3>3. ~ Work!Process(j)
      BY <3>1, <3>2 DEF Work!Abandoned
    <3> QED BY <3>2, <3>3 DEF Work!Unsettled, Work!Process
  <2>2. \A g \in Files : g # f => row'[g] = row[g]
    BY <1>11 DEF Work!Reap, Shapes
  <2>3. worker' = worker /\ slots' = slots /\ known' = known /\ parked' = parked
    BY <1>11 DEF Work!Reap
  <2>4. CASE l \in Work!OpenJobs(f)
    <3>1. l \in DOMAIN job /\ job[l].file = f
      BY <2>4 DEF Work!OpenJobs, Work!JobsOf
    <3>2. Work!EndJob(l, "failed")
      BY <1>11, <2>4 DEF Work!Reap
    <3>3. \A k \in DOMAIN job : k # l => charged'[k] = charged[k]
      BY <1>11, <2>4, <3>1 DEF Work!Reap, Shapes
    <3>4. /\ DOMAIN job' = DOMAIN job /\ job'[l].state = "failed"
          /\ \A k \in DOMAIN job : job'[k].file = job[k].file /\ (k # l => job'[k] = job[k])
      BY <3>1, <3>2, JobEnds DEF Work!JobStates
    <3> HIDE DEF l
    <3>5. \A j \in DOMAIN job :
            /\ Holding(j)' => Holding(j)
            /\ Holding(j)' => job[j].file # f /\ charged'[j] = charged[j]
            /\ Holding(j)' /\ worker'[j] # "orphan" => j \in slots'
      BY <2>1, <2>3, <3>1, <3>3 DEF WorkInv, SlotsHold
    <3>6. \A j \in DOMAIN job :
            job'[j].state = "running" => job[j].state = "running" /\ charged'[j] = charged[j]
      BY <3>3, <3>4
    <3>7. \A j \in DOMAIN job : Holding(j)' =>
            /\ job[j].file \in known' \ DOMAIN parked'
            /\ row'[job[j].file].state = row[job[j].file].state
      BY <2>2, <2>3, <3>5 DEF WorkInv, WorkersHold, Shapes
    <3> QED BY <3>4, <3>5, <3>6, <3>7, HeldStay
  <2>5. CASE l \notin Work!OpenJobs(f)
    <3>1. job' = job /\ charged' = charged
      BY <1>11, <2>5 DEF Work!Reap
    <3> QED BY <2>1, <2>2, <2>3, <3>1, OthersMove
  <2> QED BY <2>4, <2>5
<1>12. ASSUME NEW f \in Files, Work!CrashStarting(f) PROVE WorkInv'
  <2>1. f \in known \ DOMAIN parked /\ row[f].state # "running"
    BY <1>12 DEF Work!CrashStarting, Work!Claimable, Work!IsEligible
  <2>2. known' = known /\ parked' = << >>
    BY <1>12 DEF Work!CrashStarting, Work!Down
  <2>3. \A g \in Files : g # f => row'[g] = row[g]
    BY <1>12 DEF Work!CrashStarting, Work!Claim, Shapes
  <2>4. CASE Work!Claim(f) /\ worker' = Work!Orphans(worker) /\ job' = job /\ charged' = charged
    <3>1. \A k \in DOMAIN job :
            /\ Holding(k)' => Holding(k)
            /\ Holding(k)' => worker'[k] = "orphan"
      BY <2>4, OrphansHold
    <3>2. \A k \in DOMAIN job : job[k].file = f => ~ Holding(k)
      BY <2>1, NobodyHolds DEF WorkInv
    <3>3. \A k \in DOMAIN job : Holding(k)' =>
            /\ job[k].file \in known' \ DOMAIN parked'
            /\ row'[job[k].file].state = row[job[k].file].state
      BY <2>2, <2>3, <3>1, <3>2 DEF WorkInv, WorkersHold, Shapes
    <3> QED BY <2>4, <3>1, <3>3, HeldStay
  <2>5. ASSUME NEW process \in {"none", "orphan"}, NEW cost \in {0, 1},
               Work!NewJob(f, "running", FALSE),
               worker' = Append(Work!Orphans(worker), process), charged' = Append(charged, cost),
               process = "orphan" => cost = 0 /\ row'[f].state = "running"
        PROVE  WorkInv'
    <3>1. PICK n : n = Len(job) + 1
      OBVIOUS
    <3>2. \A k \in DOMAIN job : worker'[k] = Work!Orphans(worker)[k] /\ charged'[k] = charged[k]
      BY <2>5 DEF Work!Orphans, Shapes
    <3>3. worker'[n] = process /\ charged'[n] = cost
      BY <2>5, <3>1 DEF Work!Orphans, Shapes
    <3>4. \A k \in DOMAIN job :
            /\ Holding(k)' => Holding(k)
            /\ Holding(k)' => worker'[k] = "orphan"
      BY <3>2, OrphansHold
    <3>5. Holding(n)' => charged'[n] = 0 /\ row'[f].state = "running" /\ worker'[n] = "orphan"
      BY <2>5, <3>3
    <3>6. charged'[n] \in {0, 1} /\ "running" \in Work!JobStates
      BY <3>3 DEF Work!JobStates
    <3>7. \A k \in DOMAIN job : charged'[k] = charged[k]
      BY <3>2
    <3>8. /\ \A k \in DOMAIN job : Holding(k)' => Holding(k)
          /\ \A k \in DOMAIN job : Holding(k)' /\ worker'[k] # "orphan" => k \in slots'
      BY <3>4
    <3>9. DOMAIN parked' \subseteq DOMAIN parked /\ FALSE \in BOOLEAN
      BY <2>2
    <3>10. /\ charged'[n] = 0 \/ ~ Holding(n)'
           /\ Holding(n)' => row'[f].state = "running"
           /\ Holding(n)' => (worker'[n] # "orphan" => n \in slots')
      BY <3>5
    <3> QED
      <4>1. known' = known /\ \A g \in Files : g # f => row'[g] = row[g]
        BY <2>2, <2>3
      <4> QED BY <2>1, <2>5, <3>1, <3>6, <3>7, <3>8, <3>9, <3>10, <4>1, StartsSafely, Zenon
  <2>6. CASE \E process \in {"none", "orphan"} :
               /\ Work!Claim(f) /\ Work!NewJob(f, "running", FALSE)
               /\ worker' = Append(Work!Orphans(worker), process) /\ charged' = Append(charged, 0)
    BY <2>5, <2>6, RowClaimed
  <2>7. CASE /\ Work!NewJob(f, "running", FALSE)
             /\ worker' = Append(Work!Orphans(worker), "none")
             /\ charged' = Append(charged, IF row[f].review THEN 0 ELSE 1)
    BY <2>5, <2>7
  <2> QED BY <1>12, <2>4, <2>6, <2>7 DEF Work!CrashStarting
<1>13. ASSUME NEW j \in DOMAIN job, Work!WorkerExits(j) PROVE WorkInv'
  <2>1. job' = job /\ charged' = charged /\ row' = row /\ known' = known /\ parked' = parked /\ slots' = slots
    BY <1>13 DEF Work!WorkerExits
  <2>2. \A k \in DOMAIN job : worker'[k] = IF k = j THEN IF worker[j] = "told" THEN "stopped" ELSE "exited" ELSE worker[k]
    BY <1>13 DEF Work!WorkerExits, Shapes
  <2>3. worker[j] \in {"live", "told", "orphan"} /\ worker[j] # "orphan"
    BY <1>13 DEF Work!WorkerExits
  <2>4. \A k \in DOMAIN job :
          /\ Holding(k)' => Holding(k)
          /\ Holding(k)' /\ worker'[k] # "orphan" => k \in slots'
    BY <2>1, <2>2, <2>3 DEF WorkInv, SlotsHold
  <2> QED BY <2>1, <2>4, FewerHold
<1>14. ASSUME NEW j \in DOMAIN job, Work!OrphanEnds(j) PROVE WorkInv'
  <2>1. job' = job /\ charged' = charged /\ row' = row /\ known' = known /\ parked' = parked /\ slots' = slots
    BY <1>14 DEF Work!OrphanEnds
  <2>2. \A k \in DOMAIN job : worker'[k] = IF k = j THEN "lost" ELSE worker[k]
    BY <1>14 DEF Work!OrphanEnds, Shapes
  <2>3. worker[j] \in {"live", "told", "orphan"}
    BY <1>14 DEF Work!OrphanEnds
  <2>4. \A k \in DOMAIN job :
          /\ Holding(k)' => Holding(k)
          /\ Holding(k)' /\ worker'[k] # "orphan" => k \in slots'
    BY <2>1, <2>2, <2>3 DEF WorkInv, SlotsHold
  <2> QED BY <2>1, <2>4, FewerHold
<1>15. ASSUME NEW j \in DOMAIN job, Work!Settle(j) PROVE WorkInv'
  <2> DEFINE f == job[j].file
  <2>1. Holding(j) /\ charged[j] = 0
    BY <1>15 DEF Work!Settle, Work!Unsettled, WorkInv, JobsAreCharged
  <2>2. known' = known /\ parked' = parked /\ slots' = slots \ {j}
    BY <1>15 DEF Work!Settle, Work!Release
  <2>3. \A k \in DOMAIN job : worker'[k] = IF k = j THEN "lost" ELSE worker[k]
    BY <1>15 DEF Work!Settle, Work!Release, Shapes
  <2>4. \A k \in DOMAIN job : k # j => charged'[k] = charged[k]
    BY <1>15 DEF Work!Settle, Work!SettleReport, Work!SettleThrown, Work!SettleFailure,
                 Work!SettleCancelled, Work!Stall, Shapes
  <2>5. \A g \in Files : g # f => row'[g] = row[g]
    <3>1. \A g \in Files : g # f /\ Work!SettleReport(j) => row'[g] = row[g]
      BY DEF Work!SettleReport, Shapes
    <3>2. \A g \in Files : g # f /\ Work!SettleThrown(j) => row'[g] = row[g]
      BY DEF Work!SettleThrown, Shapes
    <3>3. \A g \in Files : g # f /\ Work!SettleFailure(j) => row'[g] = row[g]
      BY DEF Work!SettleFailure, Work!Stall, Shapes
    <3>4. \A g \in Files : g # f /\ Work!SettleCancelled(j) => row'[g] = row[g]
      BY DEF Work!SettleCancelled, Shapes
    <3> QED BY <1>15, <3>1, <3>2, <3>3, <3>4 DEF Work!Settle
  <2>6. \E status \in {"succeeded", "failed", "cancelled"} : Work!EndJob(j, status)
    BY <1>15 DEF Work!Settle, Work!SettleReport, Work!SettleThrown, Work!SettleFailure,
                 Work!SettleCancelled
  <2>7. PICK status \in {"succeeded", "failed", "cancelled"} : Work!EndJob(j, status)
    BY <2>6
  <2>8. /\ DOMAIN job' = DOMAIN job /\ job'[j].state = status
        /\ \A k \in DOMAIN job : job'[k].file = job[k].file /\ (k # j => job'[k] = job[k])
    BY <2>7, JobEnds DEF Work!JobStates
  <2>9. /\ ~ Holding(j)'
        /\ \A k \in DOMAIN job : /\ Holding(k)' => Holding(k)
                                 /\ Holding(k)' /\ worker'[k] # "orphan" => k \in slots'
    BY <2>2, <2>3 DEF WorkInv, SlotsHold
  <2> QED BY <2>1, <2>2, <2>4, <2>5, <2>7, <2>8, <2>9, SettlesSafely
<1>16. ASSUME NEW j \in DOMAIN job, Work!CancelJob(j) PROVE WorkInv'
  <2>1. job' = job /\ charged' = charged /\ row' = row /\ known' = known /\ parked' = parked /\ slots' = slots
    BY <1>16 DEF Work!CancelJob
  <2>2. \A k \in DOMAIN job : worker'[k] = IF k = j THEN "told" ELSE worker[k]
    BY <1>16 DEF Work!CancelJob, Shapes
  <2>3. worker[j] \in {"live", "told", "orphan"} /\ worker[j] # "orphan"
    BY <1>16 DEF Work!CancelJob
  <2>4. \A k \in DOMAIN job :
          /\ Holding(k)' => Holding(k)
          /\ Holding(k)' /\ worker'[k] # "orphan" => k \in slots'
    BY <2>1, <2>2, <2>3 DEF WorkInv, SlotsHold
  <2> QED BY <2>1, <2>4, FewerHold
<1>17. ASSUME NEW j \in DOMAIN job, Work!CrashSettling(j) PROVE WorkInv'
  <2> DEFINE f == job[j].file
  <2>1. Holding(j) /\ charged[j] = 0 /\ worker[j] \in {"exited", "stopped"}
    BY <1>17 DEF Work!CrashSettling, Work!Unsettled, WorkInv, JobsAreCharged
  <2>2. known' = known /\ parked' = << >> /\ job' = job /\ worker' = Work!Orphans(worker)
    BY <1>17 DEF Work!CrashSettling, Work!Down
  <2>3. \A k \in DOMAIN job :
          /\ Holding(k)' => Holding(k)
          /\ Holding(k)' => worker'[k] = "orphan"
    BY <2>2, OrphansHold
  <2>4. ~ Holding(j)'
    BY <2>1, <2>2 DEF Work!Orphans, Shapes
  <2>5. \A k \in DOMAIN job : k # j => charged'[k] = charged[k]
    BY <1>17 DEF Work!CrashSettling, Work!Stall, Shapes
  <2>6. charged'[j] \in {0, 1}
    BY <1>17, <2>1 DEF Work!CrashSettling, Work!Stall, Shapes
  <2>7. \A g \in Files : g # f => row'[g] = row[g]
    BY <1>17 DEF Work!CrashSettling, Work!Stall, Shapes
  <2> QED BY <2>1, <2>2, <2>3, <2>4, <2>5, <2>6, <2>7, SettlesSafely
<1>18. ASSUME Work!Drain PROVE WorkInv'
  BY <1>18, NothingMoves DEF Work!Drain
<1>19. ASSUME Work!DrainDeadline PROVE WorkInv'
  <2>1. job' = job /\ charged' = charged /\ row' = row /\ known' = known /\ parked' = parked /\ slots' = slots
    BY <1>19 DEF Work!DrainDeadline
  <2>2. \A k \in DOMAIN job :
          worker'[k] = IF k \in slots /\ worker[k] = "live" THEN "told" ELSE worker[k]
    BY <1>19 DEF Work!DrainDeadline, Shapes
  <2>3. \A k \in DOMAIN job :
          /\ Holding(k)' => Holding(k)
          /\ Holding(k)' /\ worker'[k] # "orphan" => k \in slots'
    BY <2>1, <2>2 DEF WorkInv, SlotsHold
  <2> QED BY <2>1, <2>3, FewerHold
<1>20. ASSUME Work!Stopped PROVE WorkInv'
  <2>1. job' = job /\ charged' = charged /\ row' = row /\ known' = known /\ worker' = worker /\ parked' = << >> /\ slots = {}
    BY <1>20 DEF Work!Stopped, Work!Down
  <2>2. \A k \in DOMAIN job :
          /\ Holding(k)' => Holding(k)
          /\ Holding(k)' => worker'[k] = "orphan"
    BY <2>1 DEF WorkInv, SlotsHold
  <2> QED BY <2>1, <2>2, FewerHold
<1>21. ASSUME Work!Crash PROVE WorkInv'
  <2>1. job' = job /\ charged' = charged /\ row' = row /\ known' = known /\ parked' = << >> /\ worker' = Work!Orphans(worker)
    BY <1>21 DEF Work!Crash, Work!Down
  <2>2. \A k \in DOMAIN job :
          /\ Holding(k)' => Holding(k)
          /\ Holding(k)' => worker'[k] = "orphan"
    BY <2>1, OrphansHold
  <2> QED BY <2>1, <2>2, FewerHold
<1>22. ASSUME Work!Restart PROVE WorkInv'
  BY <1>22, NothingMoves DEF Work!Restart
<1>23. CASE UNCHANGED Work!svars
  BY <1>23, NothingMoves DEF Work!svars
<1> QED
  BY <1>1, <1>2, <1>3, <1>4, <1>5, <1>6, <1>7, <1>8, <1>9, <1>10, <1>11, <1>12,
     <1>13, <1>14, <1>15, <1>16, <1>17, <1>18, <1>19, <1>20, <1>21, <1>22, <1>23
  DEF Work!SupervisorNext

-----------------------------------------------------------------------------
(* The types of the local work.                                            *)

\* What the ledger does to a record, it does to records.
LEMMA StallTypes ==
  ASSUME NEW r \in Work!LedgerRecord
  PROVE  Work!ApplyStall(r) \in Work!LedgerRecord
<1>1. CASE r.review
  <2>1. [r EXCEPT !.state = "held", !.backoff = FALSE] \in Work!LedgerRecord
    BY DEF Work!LedgerRecord, Work!FileStates
  <2> QED BY <1>1, <2>1 DEF Work!ApplyStall, Work!RecordFailedAttempt
<1>2. CASE ~ r.review
  <2>1. \A n \in Nat, s \in Work!FileStates, b \in BOOLEAN :
          [r EXCEPT !.state = s, !.attempts = n, !.backoff = b] \in Work!LedgerRecord
    BY DEF Work!LedgerRecord
  <2>2. r.attempts + 1 \in Nat
    BY DEF Work!LedgerRecord
  <2>3. (IF r.attempts + 1 >= Work!MAX_ATTEMPTS THEN "failed" ELSE "held") \in Work!FileStates
    BY DEF Work!FileStates
  <2>4. (r.attempts + 1 < Work!MAX_ATTEMPTS) \in BOOLEAN
    OBVIOUS
  <2> QED BY <1>2, <2>1, <2>2, <2>3, <2>4 DEF Work!ApplyStall, Work!RecordFailedAttempt
<1> QED BY <1>1, <1>2

LEMMA LedgerTypes ==
  ASSUME NEW r \in Work!LedgerRecord
  PROVE  /\ Work!ApplyRequeue(r) \in Work!LedgerRecord
         /\ \A report \in {"success", "noop", "failure", "review"} :
              Work!ApplyRunOutcome(r, report) \in Work!LedgerRecord
         /\ \A s \in Work!FileStates : [r EXCEPT !.state = s] \in Work!LedgerRecord
         /\ \A b \in BOOLEAN : [r EXCEPT !.review = b] \in Work!LedgerRecord
         /\ \A s \in Work!FileStates, b \in BOOLEAN :
              [r EXCEPT !.state = s, !.backoff = b] \in Work!LedgerRecord
<1>1. Work!ApplyRequeue(r) \in Work!LedgerRecord
  BY DEF Work!ApplyRequeue, Work!LedgerRecord, Work!FileStates
<1>2. Work!ApplyRunOutcome(r, "failure") \in Work!LedgerRecord
  <2>1. Work!ApplyRunOutcome(r, "failure") = Work!ApplyStall(r)
    BY DEF Work!ApplyRunOutcome, Work!ApplyStall
  <2> QED BY <2>1, StallTypes
<1>3. Work!ApplyRunOutcome(r, "review") \in Work!LedgerRecord
  <2>1. Work!ApplyRunOutcome(r, "review") = [r EXCEPT !.state = "held", !.backoff = FALSE, !.review = TRUE]
    BY DEF Work!ApplyRunOutcome, Work!RecordReviewHold
  <2> QED BY <2>1 DEF Work!LedgerRecord, Work!FileStates
<1>4. \A noop \in BOOLEAN : Work!RecordSuccess(r, noop) \in Work!LedgerRecord
  <2> TAKE noop \in BOOLEAN
  <2>1. (IF noop THEN r.noops + 1 ELSE 0) \in Nat
    BY DEF Work!LedgerRecord
  <2> QED BY <2>1 DEF Work!RecordSuccess, Work!LedgerRecord, Work!FileStates
<1>5. /\ Work!ApplyRunOutcome(r, "noop") = Work!RecordSuccess(r, TRUE)
      /\ Work!ApplyRunOutcome(r, "success") = Work!RecordSuccess(r, FALSE)
  BY DEF Work!ApplyRunOutcome
<1>6. \A s \in Work!FileStates : [r EXCEPT !.state = s] \in Work!LedgerRecord
  BY DEF Work!LedgerRecord
<1>7. \A b \in BOOLEAN : [r EXCEPT !.review = b] \in Work!LedgerRecord
  BY DEF Work!LedgerRecord
<1>8. \A s \in Work!FileStates, b \in BOOLEAN :
        [r EXCEPT !.state = s, !.backoff = b] \in Work!LedgerRecord
  BY DEF Work!LedgerRecord
<1>9. \A report \in {"success", "noop", "failure", "review"} :
        Work!ApplyRunOutcome(r, report) \in Work!LedgerRecord
  BY <1>2, <1>3, <1>4, <1>5
<1> QED BY <1>1, <1>6, <1>7, <1>8, <1>9

\* The types, by what a step writes together.
FlagsOK ==
  /\ known \subseteq Files /\ target \in 0..MaxWorkers
  /\ paused \in BOOLEAN /\ draining \in BOOLEAN /\ ticking \in BOOLEAN /\ daemonUp \in BOOLEAN
  /\ crashes \in 0..MaxCrashes
ParkedOK ==
  /\ DOMAIN parked \subseteq known /\ parked \in [DOMAIN parked -> Work!LedgerRecord]
RowOK == row \in [Files -> Work!LedgerRecord]
JobsOK ==
  /\ job \in Seq(Work!JobRow) /\ Len(job) <= MaxJobs
  /\ worker \in [DOMAIN job -> Work!WorkerStates]
  /\ slots \subseteq DOMAIN job
  /\ charged \in [DOMAIN job -> 0..2]

LEMMA AppendTypes ==
  ASSUME NEW n \in Nat, NEW S, NEW w \in [1..n -> S], NEW x \in S
  PROVE  Append(w, x) \in [1..n + 1 -> S]
<1>1. w \in Seq(S) /\ Len(w) = n
  OBVIOUS
<1>2. Append(w, x) \in Seq(S) /\ Len(Append(w, x)) = n + 1
  BY <1>1
<1>3. Append(w, x) \in [1..Len(Append(w, x)) -> S]
  BY <1>2, LenProperties
<1> QED BY <1>2, <1>3

LEMMA RowWritten ==
  ASSUME RowOK, NEW f \in Files, NEW r \in Work!LedgerRecord, row' = [row EXCEPT ![f] = r]
  PROVE  RowOK'
BY DEF RowOK

LEMMA FlagTypes ==
  ASSUME FlagsOK, [Work!SupervisorNext]_Work!svars
  PROVE  FlagsOK'
<1> USE LocalAssumption DEF FlagsOK
<1>1. ASSUME Work!TickEnds PROVE FlagsOK'
  BY <1>1 DEF Work!TickEnds
<1>2. ASSUME Work!Tick PROVE FlagsOK'
  BY <1>2 DEF Work!Tick
<1>3. ASSUME Work!Pause PROVE FlagsOK'
  BY <1>3 DEF Work!Pause
<1>4. ASSUME Work!SetTarget PROVE FlagsOK'
  BY <1>4 DEF Work!SetTarget
<1>5. ASSUME NEW f \in Files, Work!ClaimAndStart(f) PROVE FlagsOK'
  BY <1>5 DEF Work!ClaimAndStart, Work!MayStart, Work!Claimable, Work!Claim, Work!NewJob
<1>6. ASSUME NEW f \in Files, Work!StartFails(f) PROVE FlagsOK'
  BY <1>6 DEF Work!StartFails, Work!MayStart, Work!Claimable, Work!NewJob
<1>7. ASSUME NEW f \in Files, Work!Requeue(f) PROVE FlagsOK'
  BY <1>7 DEF Work!Requeue, Work!Idle
<1>8. ASSUME NEW f \in Files, Work!Hold(f) PROVE FlagsOK'
  BY <1>8 DEF Work!Hold, Work!Idle
<1>9. ASSUME NEW f \in Files, Work!ReserveForDeletion(f) PROVE FlagsOK'
  BY <1>9 DEF Work!ReserveForDeletion, Work!Idle
<1>10. ASSUME NEW f \in Files, Work!EndDeletion(f) PROVE FlagsOK'
  BY <1>10 DEF Work!EndDeletion
<1>11. ASSUME NEW f \in Files, Work!Reap(f) PROVE FlagsOK'
  BY <1>11 DEF Work!Reap, Work!EndJob
<1>12. ASSUME NEW f \in Files, Work!CrashStarting(f) PROVE FlagsOK'
  <2>1. crashes \in Nat /\ crashes' = crashes + 1 /\ crashes < MaxCrashes
    BY <1>12 DEF Work!CrashStarting, Work!MayCrash
  <2>2. /\ daemonUp' = FALSE /\ ticking' = FALSE /\ paused' = FALSE /\ draining' = FALSE
        /\ known' = known /\ target' = target
    BY <1>12 DEF Work!CrashStarting, Work!Down
  <2>3. crashes' \in 0..MaxCrashes
    BY <2>1
  <2>4. known' \subseteq Files /\ target' \in 0..MaxWorkers
    BY <2>2
  <2>5. paused' \in BOOLEAN /\ draining' \in BOOLEAN /\ ticking' \in BOOLEAN /\ daemonUp' \in BOOLEAN
    BY <2>2
  <2> QED BY <2>3, <2>4, <2>5
<1>13. ASSUME NEW j \in DOMAIN job, Work!WorkerExits(j) PROVE FlagsOK'
  BY <1>13 DEF Work!WorkerExits
<1>14. ASSUME NEW j \in DOMAIN job, Work!OrphanEnds(j) PROVE FlagsOK'
  BY <1>14 DEF Work!OrphanEnds
<1>15. ASSUME NEW j \in DOMAIN job, Work!Settle(j) PROVE FlagsOK'
  BY <1>15 DEF Work!Settle, Work!Idle, Work!Unsettled, Work!SettleReport, Work!SettleThrown, Work!SettleFailure, Work!SettleCancelled, Work!Stall, Work!EndJob, Work!Release, Work!RivalHolds
<1>16. ASSUME NEW j \in DOMAIN job, Work!CancelJob(j) PROVE FlagsOK'
  BY <1>16 DEF Work!CancelJob
<1>17. ASSUME NEW j \in DOMAIN job, Work!CrashSettling(j) PROVE FlagsOK'
  <2>1. crashes \in Nat /\ crashes' = crashes + 1 /\ crashes < MaxCrashes
    BY <1>17 DEF Work!CrashSettling, Work!MayCrash
  <2>2. /\ daemonUp' = FALSE /\ ticking' = FALSE /\ paused' = FALSE /\ draining' = FALSE
        /\ known' = known /\ target' = target
    BY <1>17 DEF Work!CrashSettling, Work!Down
  <2>3. crashes' \in 0..MaxCrashes
    BY <2>1
  <2>4. known' \subseteq Files /\ target' \in 0..MaxWorkers
    BY <2>2
  <2>5. paused' \in BOOLEAN /\ draining' \in BOOLEAN /\ ticking' \in BOOLEAN /\ daemonUp' \in BOOLEAN
    BY <2>2
  <2> QED BY <2>3, <2>4, <2>5
<1>18. ASSUME Work!Drain PROVE FlagsOK'
  BY <1>18 DEF Work!Drain
<1>19. ASSUME Work!DrainDeadline PROVE FlagsOK'
  BY <1>19 DEF Work!DrainDeadline
<1>20. ASSUME Work!Stopped PROVE FlagsOK'
  BY <1>20 DEF Work!Stopped, Work!Idle, Work!Down
<1>21. ASSUME Work!Crash PROVE FlagsOK'
  <2>1. crashes \in Nat /\ crashes' = crashes + 1 /\ crashes < MaxCrashes
    BY <1>21 DEF Work!Crash, Work!MayCrash
  <2>2. /\ daemonUp' = FALSE /\ ticking' = FALSE /\ paused' = FALSE /\ draining' = FALSE
        /\ known' = known /\ target' = target
    BY <1>21 DEF Work!Crash, Work!Down
  <2>3. crashes' \in 0..MaxCrashes
    BY <2>1
  <2>4. known' \subseteq Files /\ target' \in 0..MaxWorkers
    BY <2>2
  <2>5. paused' \in BOOLEAN /\ draining' \in BOOLEAN /\ ticking' \in BOOLEAN /\ daemonUp' \in BOOLEAN
    BY <2>2
  <2> QED BY <2>3, <2>4, <2>5
<1>22. ASSUME Work!Restart PROVE FlagsOK'
  BY <1>22 DEF Work!Restart
<1>23. CASE UNCHANGED Work!svars
  BY <1>23 DEF Work!svars
<1> QED
  BY <1>1, <1>2, <1>3, <1>4, <1>5, <1>6, <1>7, <1>8, <1>9, <1>10, <1>11, <1>12,
     <1>13, <1>14, <1>15, <1>16, <1>17, <1>18, <1>19, <1>20, <1>21, <1>22, <1>23
  DEF Work!SupervisorNext

LEMMA ParkedTypes ==
  ASSUME ParkedOK, RowOK, [Work!SupervisorNext]_Work!svars
  PROVE  ParkedOK'
<1> USE DEF ParkedOK, RowOK
<1>1. ASSUME Work!TickEnds PROVE ParkedOK'
  BY <1>1 DEF Work!TickEnds
<1>2. ASSUME Work!Tick PROVE ParkedOK'
  BY <1>2 DEF Work!Tick
<1>3. ASSUME Work!Pause PROVE ParkedOK'
  BY <1>3 DEF Work!Pause
<1>4. ASSUME Work!SetTarget PROVE ParkedOK'
  BY <1>4 DEF Work!SetTarget
<1>5. ASSUME NEW f \in Files, Work!ClaimAndStart(f) PROVE ParkedOK'
  BY <1>5 DEF Work!ClaimAndStart, Work!MayStart, Work!Claimable, Work!Claim, Work!NewJob
<1>6. ASSUME NEW f \in Files, Work!StartFails(f) PROVE ParkedOK'
  BY <1>6 DEF Work!StartFails, Work!MayStart, Work!Claimable, Work!NewJob
<1>7. ASSUME NEW f \in Files, Work!Requeue(f) PROVE ParkedOK'
  BY <1>7 DEF Work!Requeue, Work!Idle
<1>8. ASSUME NEW f \in Files, Work!Hold(f) PROVE ParkedOK'
  BY <1>8 DEF Work!Hold, Work!Idle
<1>9. ASSUME NEW f \in Files, Work!ReserveForDeletion(f) PROVE ParkedOK'
  BY <1>9 DEF Work!ReserveForDeletion, Work!Idle
<1>10. ASSUME NEW f \in Files, Work!EndDeletion(f) PROVE ParkedOK'
  BY <1>10 DEF Work!EndDeletion
<1>11. ASSUME NEW f \in Files, Work!Reap(f) PROVE ParkedOK'
  BY <1>11 DEF Work!Reap, Work!EndJob
<1>12. ASSUME NEW f \in Files, Work!CrashStarting(f) PROVE ParkedOK'
  BY <1>12 DEF Work!CrashStarting, Work!MayStart, Work!Claimable, Work!MayCrash, Work!Down, Work!Claim, Work!NewJob, Work!Orphans
<1>13. ASSUME NEW j \in DOMAIN job, Work!WorkerExits(j) PROVE ParkedOK'
  BY <1>13 DEF Work!WorkerExits
<1>14. ASSUME NEW j \in DOMAIN job, Work!OrphanEnds(j) PROVE ParkedOK'
  BY <1>14 DEF Work!OrphanEnds
<1>15. ASSUME NEW j \in DOMAIN job, Work!Settle(j) PROVE ParkedOK'
  BY <1>15 DEF Work!Settle, Work!Idle, Work!Unsettled, Work!SettleReport, Work!SettleThrown, Work!SettleFailure, Work!SettleCancelled, Work!Stall, Work!EndJob, Work!Release, Work!RivalHolds
<1>16. ASSUME NEW j \in DOMAIN job, Work!CancelJob(j) PROVE ParkedOK'
  BY <1>16 DEF Work!CancelJob
<1>17. ASSUME NEW j \in DOMAIN job, Work!CrashSettling(j) PROVE ParkedOK'
  BY <1>17 DEF Work!CrashSettling, Work!Idle, Work!Unsettled, Work!MayCrash, Work!Down, Work!Orphans, Work!Stall
<1>18. ASSUME Work!Drain PROVE ParkedOK'
  BY <1>18 DEF Work!Drain
<1>19. ASSUME Work!DrainDeadline PROVE ParkedOK'
  BY <1>19 DEF Work!DrainDeadline
<1>20. ASSUME Work!Stopped PROVE ParkedOK'
  BY <1>20 DEF Work!Stopped, Work!Idle, Work!Down
<1>21. ASSUME Work!Crash PROVE ParkedOK'
  BY <1>21 DEF Work!Crash, Work!MayCrash, Work!Down, Work!Orphans
<1>22. ASSUME Work!Restart PROVE ParkedOK'
  BY <1>22 DEF Work!Restart
<1>23. CASE UNCHANGED Work!svars
  BY <1>23 DEF Work!svars
<1> QED
  BY <1>1, <1>2, <1>3, <1>4, <1>5, <1>6, <1>7, <1>8, <1>9, <1>10, <1>11, <1>12,
     <1>13, <1>14, <1>15, <1>16, <1>17, <1>18, <1>19, <1>20, <1>21, <1>22, <1>23
  DEF Work!SupervisorNext

LEMMA RowTypes ==
  ASSUME Shapes, RowOK, ParkedOK, [Work!SupervisorNext]_Work!svars
  PROVE  RowOK'
<1>1. ASSUME Work!TickEnds PROVE RowOK'
  BY <1>1 DEF RowOK, Work!TickEnds
<1>2. ASSUME Work!Tick PROVE RowOK'
  BY <1>2 DEF RowOK, Work!Tick
<1>3. ASSUME Work!Pause PROVE RowOK'
  BY <1>3 DEF RowOK, Work!Pause
<1>4. ASSUME Work!SetTarget PROVE RowOK'
  BY <1>4 DEF RowOK, Work!SetTarget
<1>5. ASSUME NEW f \in Files, Work!ClaimAndStart(f) PROVE RowOK'
  <2>1. row' = [row EXCEPT ![f] = [row[f] EXCEPT !.state = "running"]]
    BY <1>5 DEF Work!ClaimAndStart, Work!Claim
  <2> QED BY <2>1, LedgerTypes, RowWritten DEF RowOK, Work!FileStates
<1>6. ASSUME NEW f \in Files, Work!StartFails(f) PROVE RowOK'
  <2>1. row' = [row EXCEPT ![f] = Work!ApplyStall([row[f] EXCEPT !.state = "running"])]
    BY <1>6 DEF Work!StartFails
  <2>2. [row[f] EXCEPT !.state = "running"] \in Work!LedgerRecord
    BY LedgerTypes DEF RowOK, Work!FileStates
  <2> QED BY <2>1, <2>2, StallTypes, RowWritten
<1>7. ASSUME NEW f \in Files, Work!Requeue(f) PROVE RowOK'
  <2>1. row' = [row EXCEPT ![f] = Work!ApplyRequeue(row[f])]
    BY <1>7 DEF Work!Requeue
  <2> QED BY <2>1, LedgerTypes, RowWritten DEF RowOK
<1>8. ASSUME NEW f \in Files, Work!Hold(f) PROVE RowOK'
  <2>1. row' = [row EXCEPT ![f] = [row[f] EXCEPT !.state = "held", !.backoff = TRUE]]
    BY <1>8, Zenon DEF Work!Hold
  <2>2. [row[f] EXCEPT !.state = "held", !.backoff = TRUE] \in Work!LedgerRecord
    BY LedgerTypes DEF RowOK, Work!FileStates
  <2> QED BY <2>1, <2>2, RowWritten
<1>9. ASSUME NEW f \in Files, Work!ReserveForDeletion(f) PROVE RowOK'
  <2>1. row' = [row EXCEPT ![f] = [row[f] EXCEPT !.state = "held", !.backoff = TRUE]]
    BY <1>9, Zenon DEF Work!ReserveForDeletion
  <2>2. [row[f] EXCEPT !.state = "held", !.backoff = TRUE] \in Work!LedgerRecord
    BY LedgerTypes DEF RowOK, Work!FileStates
  <2> QED BY <2>1, <2>2, RowWritten
<1>10. ASSUME NEW f \in Files, Work!EndDeletion(f) PROVE RowOK'
  <2>1. CASE row' = row
    BY <2>1 DEF RowOK
  <2>2. CASE row' = [row EXCEPT ![f].state = parked[f].state, ![f].backoff = parked[f].backoff]
    <3>1. parked[f] \in Work!LedgerRecord
      BY <1>10 DEF ParkedOK, Work!EndDeletion
    <3>2. parked[f].state \in Work!FileStates /\ parked[f].backoff \in BOOLEAN
      BY <3>1 DEF Work!LedgerRecord
    <3>3. [row[f] EXCEPT !.state = parked[f].state, !.backoff = parked[f].backoff] \in Work!LedgerRecord
      BY <3>2, LedgerTypes DEF RowOK
    <3>4. row' = [row EXCEPT ![f] = [row[f] EXCEPT !.state = parked[f].state, !.backoff = parked[f].backoff]]
      BY <2>2, Zenon
    <3> QED BY <3>3, <3>4, RowWritten
  <2> QED BY <1>10, <2>1, <2>2 DEF Work!EndDeletion
<1>11. ASSUME NEW f \in Files, Work!Reap(f) PROVE RowOK'
  <2>1. row' = [row EXCEPT ![f] = Work!ApplyStall(row[f])]
    BY <1>11 DEF Work!Reap
  <2> QED BY <2>1, StallTypes, RowWritten DEF RowOK
<1>12. ASSUME NEW f \in Files, Work!CrashStarting(f) PROVE RowOK'
  <2>1. [row[f] EXCEPT !.state = "running"] \in Work!LedgerRecord
    BY LedgerTypes DEF RowOK, Work!FileStates
  <2>2. CASE Work!Claim(f)
    BY <2>1, <2>2, RowWritten DEF Work!Claim
  <2>3. CASE row' = [row EXCEPT ![f] = Work!ApplyStall([row[f] EXCEPT !.state = "running"])]
    BY <2>1, <2>3, StallTypes, RowWritten
  <2> QED BY <1>12, <2>2, <2>3 DEF Work!CrashStarting
<1>13. ASSUME NEW j \in DOMAIN job, Work!WorkerExits(j) PROVE RowOK'
  BY <1>13 DEF RowOK, Work!WorkerExits
<1>14. ASSUME NEW j \in DOMAIN job, Work!OrphanEnds(j) PROVE RowOK'
  BY <1>14 DEF RowOK, Work!OrphanEnds
<1>15. ASSUME NEW j \in DOMAIN job, Work!Settle(j) PROVE RowOK'
  <2> DEFINE f == job[j].file
  <2>1. f \in Files /\ row[f] \in Work!LedgerRecord
    BY DEF Shapes
  <2>2. CASE Work!SettleReport(j)
    <3>1. PICK report \in {"success", "noop", "failure", "review"} :
            row' = [row EXCEPT ![f] = Work!ApplyRunOutcome(row[f], report)]
      BY <2>2 DEF Work!SettleReport
    <3> QED BY <2>1, <3>1, LedgerTypes, RowWritten
  <2>3. CASE Work!SettleThrown(j)
    <3>1. PICK asked \in BOOLEAN :
            row' = [row EXCEPT ![f] = Work!ApplyStall([row[f] EXCEPT !.review = row[f].review \/ asked])]
      BY <2>3 DEF Work!SettleThrown
    <3>2. [row[f] EXCEPT !.review = row[f].review \/ asked] \in Work!LedgerRecord
      BY <2>1, LedgerTypes
    <3> QED BY <2>1, <3>1, <3>2, StallTypes, RowWritten
  <2>4. CASE Work!SettleFailure(j)
    BY <2>1, <2>4, StallTypes, RowWritten DEF Work!SettleFailure, Work!Stall
  <2>5. CASE Work!SettleCancelled(j)
    <3>1. row' = row \/ row' = [row EXCEPT ![f] = Work!ApplyRequeue(row[f])]
      BY <2>5 DEF Work!SettleCancelled
    <3>2. CASE row' = row
      BY <3>2 DEF RowOK
    <3>3. CASE row' = [row EXCEPT ![f] = Work!ApplyRequeue(row[f])]
      BY <2>1, <3>3, LedgerTypes, RowWritten
    <3> QED BY <3>1, <3>2, <3>3
  <2> QED BY <1>15, <2>2, <2>3, <2>4, <2>5 DEF Work!Settle
<1>16. ASSUME NEW j \in DOMAIN job, Work!CancelJob(j) PROVE RowOK'
  BY <1>16 DEF RowOK, Work!CancelJob
<1>17. ASSUME NEW j \in DOMAIN job, Work!CrashSettling(j) PROVE RowOK'
  <2> DEFINE f == job[j].file
  <2>1. f \in Files /\ row[f] \in Work!LedgerRecord
    BY DEF Shapes
  <2>2. CASE Work!Stall(f, j)
    BY <2>1, <2>2, StallTypes, RowWritten DEF Work!Stall
  <2>3. CASE row' = [row EXCEPT ![f] = Work!ApplyRequeue(row[f])]
    BY <2>1, <2>3, LedgerTypes, RowWritten
  <2>4. ASSUME NEW report \in {"success", "review"},
               row' = [row EXCEPT ![f] = Work!ApplyRunOutcome(row[f], report)]
        PROVE  RowOK'
    BY <2>1, <2>4, LedgerTypes, RowWritten
  <2> QED BY <1>17, <2>2, <2>3, <2>4 DEF Work!CrashSettling
<1>18. ASSUME Work!Drain PROVE RowOK'
  BY <1>18 DEF RowOK, Work!Drain
<1>19. ASSUME Work!DrainDeadline PROVE RowOK'
  BY <1>19 DEF RowOK, Work!DrainDeadline
<1>20. ASSUME Work!Stopped PROVE RowOK'
  BY <1>20 DEF RowOK, Work!Stopped, Work!Idle, Work!Down
<1>21. ASSUME Work!Crash PROVE RowOK'
  BY <1>21 DEF RowOK, Work!Crash, Work!MayCrash, Work!Down, Work!Orphans
<1>22. ASSUME Work!Restart PROVE RowOK'
  BY <1>22 DEF RowOK, Work!Restart
<1>23. CASE UNCHANGED Work!svars
  BY <1>23 DEF RowOK, Work!svars
<1> QED
  BY <1>1, <1>2, <1>3, <1>4, <1>5, <1>6, <1>7, <1>8, <1>9, <1>10, <1>11, <1>12,
     <1>13, <1>14, <1>15, <1>16, <1>17, <1>18, <1>19, <1>20, <1>21, <1>22, <1>23
  DEF Work!SupervisorNext

LEMMA OrphanTypes ==
  ASSUME JobsOK PROVE Work!Orphans(worker) \in [DOMAIN job -> Work!WorkerStates]
BY DEF JobsOK, Work!Orphans, Work!WorkerStates

LEMMA CrashTypes ==
  ASSUME JobsOK, job' = job, worker' = Work!Orphans(worker), slots' = {},
         charged' \in [DOMAIN job -> 0..2]
  PROVE  JobsOK'
BY OrphanTypes DEF JobsOK

LEMMA ChargeTypes ==
  ASSUME JobsOK, NEW j \in DOMAIN job, NEW cost \in 0..1, charged[j] \in 0..1,
         charged' = [charged EXCEPT ![j] = @ + cost]
  PROVE  charged' \in [DOMAIN job -> 0..2]
BY DEF JobsOK

\* A settling charges a job once at most.
LEMMA ChargedOnce ==
  ASSUME JobsOK, NEW j \in DOMAIN job, Work!Settle(j)
  PROVE  \E cost \in 0..1 : charged' = [charged EXCEPT ![j] = @ + cost] \/ charged' = charged
<1>1. CASE Work!SettleReport(j)
  <2>1. PICK report \in {"success", "noop", "failure", "review"} :
          charged' = [charged EXCEPT ![j] =
                        @ + (IF report = "failure" /\ ~ row[job[j].file].review THEN 1 ELSE 0)]
    BY <1>1 DEF Work!SettleReport
  <2> DEFINE cost == IF report = "failure" /\ ~ row[job[j].file].review THEN 1 ELSE 0
  <2>2. cost \in 0..1 /\ charged' = [charged EXCEPT ![j] = @ + cost]
    BY <2>1
  <2> HIDE DEF cost
  <2> QED BY <2>2
<1>2. CASE Work!SettleThrown(j)
  <2>1. PICK asked \in BOOLEAN :
          charged' = [charged EXCEPT ![j] =
                        @ + (IF row[job[j].file].review \/ asked THEN 0 ELSE 1)]
    BY <1>2 DEF Work!SettleThrown
  <2> DEFINE cost == IF row[job[j].file].review \/ asked THEN 0 ELSE 1
  <2>2. cost \in 0..1 /\ charged' = [charged EXCEPT ![j] = @ + cost]
    BY <2>1
  <2> HIDE DEF cost
  <2> QED BY <2>2
<1>3. CASE Work!SettleFailure(j)
  <2> DEFINE cost == IF row[job[j].file].review THEN 0 ELSE 1
  <2>1. cost \in 0..1 /\ charged' = [charged EXCEPT ![j] = @ + cost]
    BY <1>3 DEF Work!SettleFailure, Work!Stall
  <2> HIDE DEF cost
  <2> QED BY <2>1
<1>4. CASE Work!SettleCancelled(j)
  BY <1>4 DEF Work!SettleCancelled
<1> QED BY <1>1, <1>2, <1>3, <1>4 DEF Work!Settle

LEMMA JobTypesGrow ==
  ASSUME Shapes, JobsOK, NEW f \in Files, NEW status \in Work!JobStates, NEW pid \in BOOLEAN,
         Work!NewJob(f, status, pid), Len(job) < MaxJobs,
         NEW w \in [DOMAIN job -> Work!WorkerStates], NEW s \in Work!WorkerStates,
         NEW cost \in 0..2,
         worker' = Append(w, s), charged' = Append(charged, cost),
         slots' \subseteq slots \cup {Len(job) + 1}
  PROVE  JobsOK'
<1>1. /\ job' \in Seq(Work!JobRow) /\ Len(job') = Len(job) + 1
      /\ DOMAIN job' = DOMAIN job \cup {Len(job) + 1}
  BY JobStarts
<1>2. Len(job) \in Nat /\ DOMAIN job = 1..Len(job) /\ DOMAIN job' = 1..Len(job) + 1
  BY <1>1 DEF Shapes
<1>3. worker' \in [DOMAIN job' -> Work!WorkerStates]
  BY <1>2, AppendTypes
<1>4. charged' \in [DOMAIN job' -> 0..2]
  BY <1>2, AppendTypes DEF JobsOK
<1>5. Len(job') <= MaxJobs
  BY <1>1, <1>2, LocalAssumption
<1>6. slots' \subseteq DOMAIN job'
  BY <1>1 DEF JobsOK
<1> QED BY <1>1, <1>3, <1>4, <1>5, <1>6 DEF JobsOK

LEMMA JobTypes ==
  ASSUME Shapes, JobsOK, WorkInv, [Work!SupervisorNext]_Work!svars
  PROVE  JobsOK'
<1> USE LocalAssumption
<1>1. ASSUME Work!TickEnds PROVE JobsOK'
  BY <1>1 DEF JobsOK, Work!TickEnds
<1>2. ASSUME Work!Tick PROVE JobsOK'
  BY <1>2 DEF JobsOK, Work!Tick
<1>3. ASSUME Work!Pause PROVE JobsOK'
  BY <1>3 DEF JobsOK, Work!Pause
<1>4. ASSUME Work!SetTarget PROVE JobsOK'
  BY <1>4 DEF JobsOK, Work!SetTarget
<1>5. ASSUME NEW f \in Files, Work!ClaimAndStart(f) PROVE JobsOK'
  <2>1. Work!NewJob(f, "running", TRUE) /\ "running" \in Work!JobStates /\ Len(job) < MaxJobs
    BY <1>5 DEF Work!ClaimAndStart, Work!MayStart, Work!JobStates
  <2>2. PICK w \in Work!WorkerStates, cost \in 0..2 :
          worker' = Append(worker, w) /\ charged' = Append(charged, cost)
    BY <1>5 DEF Work!ClaimAndStart, Work!WorkerStates
  <2>3. slots' \subseteq slots \cup {Len(job) + 1}
    BY <1>5 DEF Work!ClaimAndStart
  <2>4. worker \in [DOMAIN job -> Work!WorkerStates]
    BY DEF JobsOK
  <2> QED BY <2>1, <2>2, <2>3, <2>4, JobTypesGrow
<1>6. ASSUME NEW f \in Files, Work!StartFails(f) PROVE JobsOK'
  <2>1. Work!NewJob(f, "failed", FALSE) /\ "failed" \in Work!JobStates /\ Len(job) < MaxJobs
    BY <1>6 DEF Work!StartFails, Work!MayStart, Work!JobStates
  <2>2. PICK w \in Work!WorkerStates, cost \in 0..2 :
          worker' = Append(worker, w) /\ charged' = Append(charged, cost)
    BY <1>6 DEF Work!StartFails, Work!WorkerStates
  <2>3. slots' \subseteq slots \cup {Len(job) + 1}
    BY <1>6 DEF Work!StartFails
  <2>4. worker \in [DOMAIN job -> Work!WorkerStates]
    BY DEF JobsOK
  <2> QED BY <2>1, <2>2, <2>3, <2>4, JobTypesGrow
<1>7. ASSUME NEW f \in Files, Work!Requeue(f) PROVE JobsOK'
  BY <1>7 DEF JobsOK, Work!Requeue
<1>8. ASSUME NEW f \in Files, Work!Hold(f) PROVE JobsOK'
  BY <1>8 DEF JobsOK, Work!Hold
<1>9. ASSUME NEW f \in Files, Work!ReserveForDeletion(f) PROVE JobsOK'
  BY <1>9 DEF JobsOK, Work!ReserveForDeletion
<1>10. ASSUME NEW f \in Files, Work!EndDeletion(f) PROVE JobsOK'
  BY <1>10 DEF JobsOK, Work!EndDeletion
<1>11. ASSUME NEW f \in Files, Work!Reap(f) PROVE JobsOK'
  <2> DEFINE l == Work!Latest(f)
  <2>1. worker' = worker /\ slots' = slots
    BY <1>11 DEF Work!Reap
  <2>2. CASE l \in Work!OpenJobs(f)
    <3>1. l \in DOMAIN job /\ job[l].state = "running"
      BY <2>2 DEF Work!OpenJobs, Work!JobsOf
    <3>2. Work!EndJob(l, "failed") /\ charged' = [charged EXCEPT ![l] = @ + (IF row[f].review THEN 0 ELSE 1)]
      BY <1>11, <2>2 DEF Work!Reap
    <3>3. charged[l] \in 0..1
      BY <3>1 DEF JobsOK, WorkInv, JobsAreCharged
    <3> HIDE DEF l
    <3>4. PICK cost \in 0..1 : charged' = [charged EXCEPT ![l] = @ + cost]
      <4> DEFINE c == IF row[f].review THEN 0 ELSE 1
      <4>1. c \in 0..1 /\ charged' = [charged EXCEPT ![l] = @ + c]
        BY <3>2
      <4> HIDE DEF c
      <4> QED BY <4>1
    <3>6. charged' \in [DOMAIN job -> 0..2]
      BY <3>1, <3>3, <3>4, ChargeTypes DEF JobsOK
    <3>5. job' \in Seq(Work!JobRow) /\ DOMAIN job' = DOMAIN job /\ Len(job') = Len(job)
      BY <3>1, <3>2, JobEnds DEF Work!JobStates
    <3> QED BY <2>1, <3>5, <3>6 DEF JobsOK
  <2>3. CASE l \notin Work!OpenJobs(f)
    <3>1. UNCHANGED <<job, charged>>
      BY <1>11, <2>3 DEF Work!Reap
    <3> QED BY <2>1, <3>1 DEF JobsOK
  <2> QED BY <2>2, <2>3
<1>12. ASSUME NEW f \in Files, Work!CrashStarting(f) PROVE JobsOK'
  <2>1. Len(job) < MaxJobs /\ slots' = {}
    BY <1>12 DEF Work!CrashStarting, Work!MayStart, Work!Down
  <2>2. Work!Orphans(worker) \in [DOMAIN job -> Work!WorkerStates]
    BY OrphanTypes
  <2>3. CASE worker' = Work!Orphans(worker) /\ UNCHANGED <<job, charged>>
    BY <2>1, <2>2, <2>3 DEF JobsOK
  <2>4. CASE \E process \in {"none", "orphan"} :
          /\ Work!NewJob(f, "running", FALSE)
          /\ worker' = Append(Work!Orphans(worker), process) /\ charged' = Append(charged, 0)
    <3>1. PICK process \in {"none", "orphan"} :
            /\ Work!NewJob(f, "running", FALSE)
            /\ worker' = Append(Work!Orphans(worker), process) /\ charged' = Append(charged, 0)
      BY <2>4
    <3>2. process \in Work!WorkerStates /\ "running" \in Work!JobStates /\ 0 \in 0..2 /\ FALSE \in BOOLEAN
      BY DEF Work!JobStates, Work!WorkerStates
    <3> QED BY <2>1, <2>2, <3>1, <3>2, JobTypesGrow
  <2>5. CASE /\ Work!NewJob(f, "running", FALSE)
             /\ worker' = Append(Work!Orphans(worker), "none")
             /\ charged' = Append(charged, IF row[f].review THEN 0 ELSE 1)
    <3> DEFINE cost == IF row[f].review THEN 0 ELSE 1
    <3>1. cost \in 0..2 /\ charged' = Append(charged, cost)
      BY <2>5
    <3>2. "none" \in Work!WorkerStates /\ "running" \in Work!JobStates /\ FALSE \in BOOLEAN
      BY DEF Work!JobStates, Work!WorkerStates
    <3> HIDE DEF cost
    <3> QED BY <2>1, <2>2, <2>5, <3>1, <3>2, JobTypesGrow
  <2> QED BY <1>12, <2>3, <2>4, <2>5 DEF Work!CrashStarting
<1>13. ASSUME NEW j \in DOMAIN job, Work!WorkerExits(j) PROVE JobsOK'
  <2>1. UNCHANGED <<job, charged, slots>>
    BY <1>13 DEF Work!WorkerExits
  <2>2. worker' \in [DOMAIN job -> Work!WorkerStates]
    BY <1>13 DEF JobsOK, Work!WorkerStates, Work!WorkerExits
  <2> QED BY <2>1, <2>2 DEF JobsOK
<1>14. ASSUME NEW j \in DOMAIN job, Work!OrphanEnds(j) PROVE JobsOK'
  <2>1. UNCHANGED <<job, charged, slots>>
    BY <1>14 DEF Work!OrphanEnds
  <2>2. worker' \in [DOMAIN job -> Work!WorkerStates]
    BY <1>14 DEF JobsOK, Work!WorkerStates, Work!OrphanEnds
  <2> QED BY <2>1, <2>2 DEF JobsOK
<1>15. ASSUME NEW j \in DOMAIN job, Work!Settle(j) PROVE JobsOK'
  <2>1. charged[j] = 0
    BY <1>15 DEF Work!Settle, Work!Unsettled, WorkInv, JobsAreCharged, Holding
  <2>2. \E cost \in 0..1 : charged' = [charged EXCEPT ![j] = @ + cost] \/ charged' = charged
    BY <1>15, ChargedOnce
  <2>3. charged' \in [DOMAIN job -> 0..2]
    BY <2>1, <2>2, ChargeTypes DEF JobsOK
  <2>4. PICK status \in {"succeeded", "failed", "cancelled"} : Work!EndJob(j, status)
    BY <1>15 DEF Work!Settle, Work!SettleReport, Work!SettleThrown, Work!SettleFailure,
                 Work!SettleCancelled
  <2>5. job' \in Seq(Work!JobRow) /\ DOMAIN job' = DOMAIN job /\ Len(job') = Len(job)
    BY <2>4, JobEnds DEF Work!JobStates
  <2>6. slots' \subseteq slots /\ worker' = [worker EXCEPT ![j] = "lost"]
    BY <1>15 DEF Work!Settle, Work!Release
  <2>7. worker' \in [DOMAIN job -> Work!WorkerStates]
    BY <2>6 DEF JobsOK, Work!WorkerStates
  <2> QED BY <2>3, <2>5, <2>6, <2>7 DEF JobsOK
<1>16. ASSUME NEW j \in DOMAIN job, Work!CancelJob(j) PROVE JobsOK'
  <2>1. UNCHANGED <<job, charged, slots>>
    BY <1>16 DEF Work!CancelJob
  <2>2. worker' \in [DOMAIN job -> Work!WorkerStates]
    BY <1>16 DEF JobsOK, Work!WorkerStates, Work!CancelJob
  <2> QED BY <2>1, <2>2 DEF JobsOK
<1>17. ASSUME NEW j \in DOMAIN job, Work!CrashSettling(j) PROVE JobsOK'
  <2>1. charged[j] = 0
    BY <1>17 DEF Work!CrashSettling, Work!Unsettled, WorkInv, JobsAreCharged, Holding
  <2>2. CASE Work!Stall(job[j].file, j)
    <3>1. charged' = [charged EXCEPT ![j] = @ + (IF row[job[j].file].review THEN 0 ELSE 1)]
      BY <2>2 DEF Work!Stall
    <3>2. PICK cost \in 0..1 : charged' = [charged EXCEPT ![j] = @ + cost]
      <4> DEFINE c == IF row[job[j].file].review THEN 0 ELSE 1
      <4>1. c \in 0..1 /\ charged' = [charged EXCEPT ![j] = @ + c]
        BY <3>1
      <4> HIDE DEF c
      <4> QED BY <4>1
    <3>3. charged' \in [DOMAIN job -> 0..2]
      BY <2>1, <3>2, ChargeTypes DEF JobsOK
    <3> QED BY <3>3, CrashTypes, <1>17 DEF Work!CrashSettling, Work!Down
  <2>3. CASE charged' = charged
    BY <2>3, CrashTypes, <1>17 DEF Work!CrashSettling, Work!Down, JobsOK
  <2> QED BY <1>17, <2>2, <2>3 DEF Work!CrashSettling
<1>18. ASSUME Work!Drain PROVE JobsOK'
  BY <1>18 DEF JobsOK, Work!Drain
<1>19. ASSUME Work!DrainDeadline PROVE JobsOK'
  <2>1. UNCHANGED <<job, charged, slots>>
    BY <1>19 DEF Work!DrainDeadline
  <2>2. worker' \in [DOMAIN job -> Work!WorkerStates]
    BY <1>19 DEF JobsOK, Work!WorkerStates, Work!DrainDeadline
  <2> QED BY <2>1, <2>2 DEF JobsOK
<1>20. ASSUME Work!Stopped PROVE JobsOK'
  BY <1>20 DEF JobsOK, Work!Stopped, Work!Down
<1>21. ASSUME Work!Crash PROVE JobsOK'
  BY <1>21, CrashTypes DEF JobsOK, Work!Crash, Work!Down
<1>22. ASSUME Work!Restart PROVE JobsOK'
  BY <1>22 DEF JobsOK, Work!Restart
<1>23. CASE UNCHANGED Work!svars
  BY <1>23 DEF Work!svars, JobsOK
<1> QED
  BY <1>1, <1>2, <1>3, <1>4, <1>5, <1>6, <1>7, <1>8, <1>9, <1>10, <1>11, <1>12,
     <1>13, <1>14, <1>15, <1>16, <1>17, <1>18, <1>19, <1>20, <1>21, <1>22, <1>23
  DEF Work!SupervisorNext

LEMMA TypesSplit == Work!SupervisorTypeOK <=> RowOK /\ FlagsOK /\ ParkedOK /\ JobsOK
BY DEF Work!SupervisorTypeOK, RowOK, FlagsOK, ParkedOK, JobsOK

-----------------------------------------------------------------------------
(* The delivery of alerts (AlertDelivery).                                 *)

\* A pump that has a message has it in flight, and no other pump has.
InFlight ==
  IF pump \in {"send", "back"} THEN sending \in 1..given ELSE sending = 0

\* Nothing is aborted before the deadline, and nothing is sent while a drain aborts.
SignalsHold ==
  /\ drain \in {"no", "waiting"} =>
       /\ signal = "live" /\ epoch = "live" /\ overdue = 0
       /\ \A m \in Lane!Messages : fate[m] # "aborted"
  /\ drain = "aborting" => signal = "aborted" /\ epoch = "aborted"
  /\ stopped => drain = "done" /\ queue = << >>

\* Until the deadline a message without a fate is queued, in flight or counted as dropped, and what was
\* there at the deadline is counted.
MessagesAreKept ==
  /\ drain \in {"no", "waiting"} =>
       \A m \in 1..given : fate[m] = "none" => m \in dropped \cup Lane!InQueue(queue) \cup {sending}
  /\ \A m \in Lane!InQueue(queue) : m > overdue /\ m <= given
  /\ sending # 0 /\ sending <= overdue => sending \in dropped
  /\ tries <= Retries /\ overdue <= given

LaneInv ==
  /\ Lane!DeliveryTypeOK /\ InFlight /\ SignalsHold /\ MessagesAreKept
  /\ Lane!NothingStranded /\ Lane!DroppedAreCounted

\* What a full queue sheds, and what it keeps.
LEMMA ShedKeeps ==
  ASSUME NEW q \in Seq(Lane!Messages)
  PROVE  /\ Lane!Shed(q) \in Seq(Lane!Messages) /\ Len(Lane!Shed(q)) <= MaxQueue
         /\ Lane!InQueue(Lane!Shed(q)) \subseteq Lane!InQueue(q)
<1> USE LocalAssumption
<1>1. CASE Len(q) > MaxQueue
  <2> DEFINE s == SubSeq(q, Len(q) - MaxQueue + 1, Len(q))
  <2>1. Len(q) \in Nat /\ q \in [1..Len(q) -> Lane!Messages]
    BY LenProperties
  <2>2. /\ s \in Seq(Lane!Messages) /\ Len(s) = MaxQueue
        /\ \A i \in 1..MaxQueue : s[i] = q[Len(q) - MaxQueue + i]
    BY <1>1, <2>1
  <2>3. DOMAIN s = 1..MaxQueue
    BY <2>2
  <2>4. \A i \in 1..MaxQueue : Len(q) - MaxQueue + i \in 1..Len(q)
    BY <1>1, <2>1
  <2>5. Lane!Shed(q) = s
    BY <1>1 DEF Lane!Shed
  <2> HIDE DEF s
  <2>6. \A i \in DOMAIN s : \E k \in DOMAIN q : s[i] = q[k]
    BY <2>1, <2>2, <2>3, <2>4
  <2>7. Lane!InQueue(s) \subseteq Lane!InQueue(q)
    BY <2>6 DEF Lane!InQueue
  <2> QED BY <2>2, <2>5, <2>7
<1>2. CASE ~ Len(q) > MaxQueue
  BY <1>2, LenProperties DEF Lane!Shed
<1> QED BY <1>1, <1>2

LEMMA AppendKeeps ==
  ASSUME NEW q \in Seq(Lane!Messages), NEW m \in Lane!Messages
  PROVE  /\ Append(q, m) \in Seq(Lane!Messages)
         /\ Lane!InQueue(Append(q, m)) = Lane!InQueue(q) \cup {m}
<1>1. Len(q) \in Nat /\ DOMAIN q = 1..Len(q)
  BY LenProperties
<1>2. /\ Append(q, m) \in Seq(Lane!Messages)
      /\ DOMAIN Append(q, m) = DOMAIN q \cup {Len(q) + 1}
      /\ Append(q, m)[Len(q) + 1] = m /\ \A i \in DOMAIN q : Append(q, m)[i] = q[i]
  BY <1>1
<1> QED BY <1>2 DEF Lane!InQueue

LEMMA TailKeeps ==
  ASSUME NEW q \in Seq(Lane!Messages), q # << >>
  PROVE  /\ Head(q) \in Lane!Messages /\ Tail(q) \in Seq(Lane!Messages)
         /\ Len(Tail(q)) <= Len(q)
         /\ Lane!InQueue(q) = Lane!InQueue(Tail(q)) \cup {Head(q)}
<1>1. Len(q) \in Nat /\ Len(q) > 0 /\ DOMAIN q = 1..Len(q)
  BY LenProperties, EmptySeq
<1>2. /\ Head(q) = q[1] /\ Tail(q) \in Seq(Lane!Messages) /\ Len(Tail(q)) = Len(q) - 1
      /\ DOMAIN Tail(q) = 1..Len(q) - 1 /\ \A i \in 1..Len(q) - 1 : Tail(q)[i] = q[i + 1]
  BY <1>1
<1>3. \A i \in DOMAIN q : i = 1 \/ (i - 1 \in DOMAIN Tail(q) /\ Tail(q)[i - 1] = q[i])
  BY <1>1, <1>2
<1>4. \A i \in DOMAIN Tail(q) : i + 1 \in DOMAIN q /\ Tail(q)[i] = q[i + 1]
  BY <1>1, <1>2
<1>5. Lane!InQueue(q) \subseteq Lane!InQueue(Tail(q)) \cup {Head(q)}
  BY <1>2, <1>3 DEF Lane!InQueue
<1>6. Lane!InQueue(Tail(q)) \cup {Head(q)} \subseteq Lane!InQueue(q)
  BY <1>1, <1>2, <1>4 DEF Lane!InQueue
<1>7. q[1] \in Lane!Messages
  BY <1>1, ElementOfSeq
<1> QED BY <1>1, <1>2, <1>5, <1>6, <1>7

\* What enqueue does, whether the deliverer was stopped or not.
LEMMA Queued ==
  ASSUME LaneInv, Lane!Enqueue
  PROVE  /\ given' = given + 1 /\ given + 1 \in Lane!Messages
         /\ queue' \in Seq(Lane!Messages) /\ Len(queue') <= MaxQueue
         /\ Lane!InQueue(queue') \subseteq Lane!InQueue(queue) \cup {given + 1}
         /\ dropped \subseteq dropped' /\ dropped' \subseteq Lane!Messages
         /\ ~ stopped => /\ Lane!InQueue(queue) \cup {given + 1} \subseteq Lane!InQueue(queue') \cup dropped'
                         /\ fate' = fate
         /\ stopped => /\ queue' = queue
                       /\ fate' = [fate EXCEPT ![given + 1] = "ignored"]
         /\ pump' = pump \/ (pump = "none" /\ pump' = "due")
<1> DEFINE m == given + 1
<1>1. given' = m /\ m \in Lane!Messages
  BY LocalAssumption DEF LaneInv, Lane!DeliveryTypeOK, Lane!Enqueue, Lane!Messages
<1>2. queue \in Seq(Lane!Messages) /\ Len(queue) <= MaxQueue /\ dropped \subseteq Lane!Messages
  BY DEF LaneInv, Lane!DeliveryTypeOK
<1>3. CASE stopped
  <2>1. queue' = queue /\ pump' = pump /\ dropped' = dropped /\ fate' = [fate EXCEPT ![m] = "ignored"]
    BY <1>3 DEF Lane!Enqueue
  <2> QED BY <1>1, <1>2, <1>3, <2>1
<1>4. CASE ~ stopped
  <2> DEFINE full == Append(queue, m)
  <2>1. /\ queue' = Lane!Shed(full) /\ fate' = fate
        /\ dropped' = dropped \cup (Lane!InQueue(full) \ Lane!InQueue(Lane!Shed(full)))
        /\ pump' = pump \/ (pump = "none" /\ pump' = "due")
    BY <1>4 DEF Lane!Enqueue
  <2>2. full \in Seq(Lane!Messages) /\ Lane!InQueue(full) = Lane!InQueue(queue) \cup {m}
    BY <1>1, <1>2, AppendKeeps
  <2> HIDE DEF full
  <2>3. /\ Lane!Shed(full) \in Seq(Lane!Messages) /\ Len(Lane!Shed(full)) <= MaxQueue
        /\ Lane!InQueue(Lane!Shed(full)) \subseteq Lane!InQueue(full)
    BY <2>2, ShedKeeps
  <2>4. Lane!InQueue(full) \subseteq Lane!Messages
    BY <2>2, LenProperties DEF Lane!InQueue
  <2> QED BY <1>1, <1>2, <1>4, <2>1, <2>2, <2>3, <2>4
<1> QED BY <1>3, <1>4

\* A message is taken from the queue.
LEMMA Shifted ==
  ASSUME LaneInv, Lane!PumpShifts
  PROVE  /\ sending' \in Lane!InQueue(queue) /\ sending' \in Lane!Messages
         /\ queue' \in Seq(Lane!Messages) /\ Len(queue') <= MaxQueue
         /\ Lane!InQueue(queue) = Lane!InQueue(queue') \cup {sending'}
         /\ sending = 0 /\ pump' = "send" /\ epoch' = signal /\ tries' = 0
<1>1. queue \in Seq(Lane!Messages) /\ Len(queue) <= MaxQueue /\ queue # << >>
  BY DEF LaneInv, Lane!DeliveryTypeOK, Lane!PumpShifts
<1>2. /\ Head(queue) \in Lane!Messages /\ Tail(queue) \in Seq(Lane!Messages)
      /\ Len(Tail(queue)) <= Len(queue) /\ Len(queue) \in Nat /\ Len(Tail(queue)) \in Nat
      /\ Lane!InQueue(queue) = Lane!InQueue(Tail(queue)) \cup {Head(queue)}
  BY <1>1, TailKeeps, LenProperties
<1>3. sending' = Head(queue) /\ queue' = Tail(queue) /\ pump' = "send" /\ epoch' = signal /\ tries' = 0
  BY DEF Lane!PumpShifts
<1>4. sending = 0
  BY DEF LaneInv, InFlight, Lane!PumpShifts
<1> QED BY <1>1, <1>2, <1>3, <1>4, LocalAssumption

\* An attempt or a backoff ends the delivery, or another attempt follows.
LEMMA Attempted ==
  ASSUME LaneInv, Lane!AttemptEnds \/ Lane!BackoffEnds
  PROVE  /\ sending \in 1..given /\ sending \in Lane!Messages
         /\ \/ /\ \E outcome \in {"delivered", "failed", "aborted"} :
                    /\ (outcome = "aborted") = (epoch = "aborted")
                    /\ fate' = [fate EXCEPT ![sending] = outcome]
               /\ sending' = 0 /\ pump' = "next" /\ tries' = tries
            \/ /\ fate' = fate /\ sending' = sending /\ pump' \in {"send", "back"}
               /\ epoch = "live" /\ tries' \in 0..Retries
<1>1. sending \in 1..given /\ sending \in Lane!Messages
  BY LocalAssumption DEF LaneInv, InFlight, Lane!DeliveryTypeOK, Lane!Messages, Lane!AttemptEnds, Lane!BackoffEnds
<1>2. tries \in 0..Retries
  BY LocalAssumption DEF LaneInv, MessagesAreKept, Lane!DeliveryTypeOK
<1>3. epoch \in {"live", "aborted"}
  BY DEF LaneInv, Lane!DeliveryTypeOK
<1>4. CASE Lane!AttemptEnds
  <2>1. CASE epoch = "aborted"
    BY <1>1, <1>4, <2>1 DEF Lane!AttemptEnds, Lane!Ends
  <2>2. CASE epoch = "live" /\ (Lane!Ends("delivered") \/ Lane!Ends("failed"))
    BY <1>1, <1>4, <2>2 DEF Lane!Ends
  <2>3. CASE epoch = "live" /\ tries # Retries /\ tries' = tries + 1 /\ pump' = "back" /\ sending' = sending /\ fate' = fate
    BY <1>1, <1>2, <2>3, LocalAssumption
  <2> QED BY <1>3, <1>4, <2>1, <2>2, <2>3 DEF Lane!AttemptEnds
<1>5. CASE Lane!BackoffEnds
  <2>1. CASE epoch = "aborted"
    BY <1>1, <1>5, <2>1 DEF Lane!BackoffEnds, Lane!Ends
  <2>2. CASE epoch = "live"
    BY <1>1, <1>2, <1>5, <2>2 DEF Lane!BackoffEnds
  <2> QED BY <1>3, <2>1, <2>2
<1> QED BY <1>4, <1>5

\* The steps of a lane, and the parts of its invariant.
LEMMA PumpHolds ==
  ASSUME LaneInv, [Lane!DeliveryNext]_Lane!advars
  PROVE  InFlight'
<1> USE DEF LaneInv, InFlight
<1>1. ASSUME Lane!Enqueue PROVE InFlight'
  <2>1. given' = given + 1 /\ sending' = sending /\ (pump' = pump \/ (pump = "none" /\ pump' = "due"))
    BY <1>1, Queued DEF Lane!Enqueue
  <2>2. given \in Nat
    BY DEF Lane!DeliveryTypeOK
  <2> QED BY <2>1, <2>2
<1>2. ASSUME Lane!PumpStarts PROVE InFlight'
  BY <1>2 DEF Lane!PumpStarts
<1>3. ASSUME Lane!PumpShifts PROVE InFlight'
  <2>1. sending' \in Lane!InQueue(queue) /\ pump' = "send" /\ given' = given
    BY <1>3, Shifted DEF Lane!PumpShifts
  <2>2. sending' \in 1..given
    BY <2>1, <1>3, Shifted DEF LaneInv, MessagesAreKept, Lane!Messages, Lane!DeliveryTypeOK
  <2> QED BY <2>1, <2>2
<1>4. ASSUME Lane!PumpEnds PROVE InFlight'
  BY <1>4 DEF Lane!PumpEnds
<1>5. ASSUME Lane!PumpSettles PROVE InFlight'
  BY <1>5 DEF Lane!PumpSettles
<1>6. ASSUME Lane!AttemptEnds PROVE InFlight'
  BY <1>6 DEF Lane!AttemptEnds, Lane!Ends
<1>7. ASSUME Lane!BackoffEnds PROVE InFlight'
  BY <1>7 DEF Lane!BackoffEnds, Lane!Ends
<1>8. ASSUME Lane!DrainStarts PROVE InFlight'
  BY <1>8 DEF Lane!DrainStarts, Lane!Pumping
<1>9. ASSUME Lane!DrainEnds PROVE InFlight'
  BY <1>9 DEF Lane!DrainEnds
<1>10. ASSUME Lane!Deadline PROVE InFlight'
  BY <1>10 DEF Lane!Deadline, Lane!Count, Lane!SignalAborted
<1>11. ASSUME Lane!Stops PROVE InFlight'
  BY <1>11 DEF Lane!Stops
<1>12. CASE UNCHANGED Lane!advars
  BY <1>12 DEF Lane!advars
<1> QED
  BY <1>1, <1>2, <1>3, <1>4, <1>5, <1>6, <1>7, <1>8, <1>9, <1>10, <1>11, <1>12
  DEF Lane!DeliveryNext, Lane!PumpSteps

LEMMA SignalsSafe ==
  ASSUME LaneInv, [Lane!DeliveryNext]_Lane!advars
  PROVE  SignalsHold'
<1> USE DEF LaneInv, SignalsHold
<1>1. ASSUME Lane!Enqueue PROVE SignalsHold'
  <2>1. /\ given' = given + 1 /\ given \in Nat
        /\ ~ stopped => fate' = fate
        /\ stopped => queue' = queue
    BY <1>1, Queued DEF Lane!DeliveryTypeOK
  <2>2. UNCHANGED <<drain, signal, epoch, overdue, stopped>>
    BY <1>1 DEF Lane!Enqueue
  <2>3. drain \in {"no", "waiting"} => ~ stopped
    BY DEF SignalsHold
  <2> QED BY <2>1, <2>2, <2>3 DEF SignalsHold
<1>2. ASSUME Lane!PumpStarts PROVE SignalsHold'
  BY <1>2 DEF Lane!PumpStarts
<1>3. ASSUME Lane!PumpShifts PROVE SignalsHold'
  BY <1>3 DEF Lane!PumpShifts
<1>4. ASSUME Lane!PumpEnds PROVE SignalsHold'
  BY <1>4 DEF Lane!PumpEnds
<1>5. ASSUME Lane!PumpSettles PROVE SignalsHold'
  BY <1>5 DEF Lane!PumpSettles
<1>6. ASSUME Lane!AttemptEnds PROVE SignalsHold'
  <2>1. UNCHANGED <<drain, signal, epoch, overdue, stopped, given, queue>>
    BY <1>6 DEF Lane!AttemptEnds, Lane!BackoffEnds
  <2>2. epoch = "live" => \A m \in Lane!Messages : fate'[m] = "aborted" => fate[m] = "aborted"
    BY <1>6, Attempted DEF Lane!DeliveryTypeOK
  <2> QED BY <2>1, <2>2 DEF SignalsHold
<1>7. ASSUME Lane!BackoffEnds PROVE SignalsHold'
  <2>1. UNCHANGED <<drain, signal, epoch, overdue, stopped, given, queue>>
    BY <1>7 DEF Lane!AttemptEnds, Lane!BackoffEnds
  <2>2. epoch = "live" => \A m \in Lane!Messages : fate'[m] = "aborted" => fate[m] = "aborted"
    BY <1>7, Attempted DEF Lane!DeliveryTypeOK
  <2> QED BY <2>1, <2>2 DEF SignalsHold
<1>8. ASSUME Lane!DrainStarts PROVE SignalsHold'
  BY <1>8 DEF Lane!DrainStarts, Lane!Pumping
<1>9. ASSUME Lane!DrainEnds PROVE SignalsHold'
  BY <1>9 DEF Lane!DrainEnds
<1>10. ASSUME Lane!Deadline PROVE SignalsHold'
  BY <1>10 DEF Lane!Deadline, Lane!Count, Lane!SignalAborted
<1>11. ASSUME Lane!Stops PROVE SignalsHold'
  BY <1>11 DEF Lane!Stops
<1>12. CASE UNCHANGED Lane!advars
  BY <1>12 DEF Lane!advars
<1> QED
  BY <1>1, <1>2, <1>3, <1>4, <1>5, <1>6, <1>7, <1>8, <1>9, <1>10, <1>11, <1>12
  DEF Lane!DeliveryNext, Lane!PumpSteps

LEMMA StrandedSafe ==
  ASSUME LaneInv, [Lane!DeliveryNext]_Lane!advars
  PROVE  Lane!NothingStranded'
<1> USE DEF LaneInv, SignalsHold, Lane!NothingStranded, Lane!Pumping
<1>1. ASSUME Lane!Enqueue PROVE Lane!NothingStranded'
  BY <1>1 DEF Lane!Enqueue
<1>2. ASSUME Lane!PumpStarts PROVE Lane!NothingStranded'
  BY <1>2 DEF Lane!PumpStarts
<1>3. ASSUME Lane!PumpShifts PROVE Lane!NothingStranded'
  BY <1>3 DEF Lane!PumpShifts
<1>4. ASSUME Lane!PumpEnds PROVE Lane!NothingStranded'
  BY <1>4 DEF Lane!PumpEnds
<1>5. ASSUME Lane!PumpSettles PROVE Lane!NothingStranded'
  BY <1>5 DEF Lane!PumpSettles
<1>6. ASSUME Lane!AttemptEnds PROVE Lane!NothingStranded'
  BY <1>6 DEF Lane!AttemptEnds, Lane!Ends
<1>7. ASSUME Lane!BackoffEnds PROVE Lane!NothingStranded'
  BY <1>7 DEF Lane!BackoffEnds, Lane!Ends
<1>8. ASSUME Lane!DrainStarts PROVE Lane!NothingStranded'
  BY <1>8 DEF Lane!DrainStarts, Lane!Pumping
<1>9. ASSUME Lane!DrainEnds PROVE Lane!NothingStranded'
  BY <1>9 DEF Lane!DrainEnds
<1>10. ASSUME Lane!Deadline PROVE Lane!NothingStranded'
  BY <1>10 DEF Lane!Deadline, Lane!Count, Lane!SignalAborted
<1>11. ASSUME Lane!Stops PROVE Lane!NothingStranded'
  BY <1>11 DEF Lane!Stops
<1>12. CASE UNCHANGED Lane!advars
  BY <1>12 DEF Lane!advars
<1> QED
  BY <1>1, <1>2, <1>3, <1>4, <1>5, <1>6, <1>7, <1>8, <1>9, <1>10, <1>11, <1>12
  DEF Lane!DeliveryNext, Lane!PumpSteps

LEMMA QueueIsNat ==
  ASSUME LaneInv PROVE \A m \in Lane!InQueue(queue) : m \in Nat
<1>1. queue \in Seq(Lane!Messages)
  BY DEF LaneInv, Lane!DeliveryTypeOK
<1> QED BY <1>1, LenProperties, LocalAssumption DEF Lane!InQueue, Lane!Messages

LEMMA GivenAreMessages ==
  ASSUME LaneInv PROVE 1..given \subseteq Lane!Messages
BY LocalAssumption DEF LaneInv, Lane!DeliveryTypeOK, Lane!Messages

LEMMA MessagesSafe ==
  ASSUME LaneInv, [Lane!DeliveryNext]_Lane!advars
  PROVE  MessagesAreKept'
<1> USE DEF LaneInv
<1>1. ASSUME Lane!Enqueue PROVE MessagesAreKept'
  <2>1. /\ given' = given + 1 /\ given \in Nat
        /\ Lane!InQueue(queue') \subseteq Lane!InQueue(queue) \cup {given + 1}
        /\ dropped \subseteq dropped'
        /\ ~ stopped => /\ Lane!InQueue(queue) \cup {given + 1} \subseteq Lane!InQueue(queue') \cup dropped'
                        /\ fate' = fate
        /\ stopped => queue' = queue
    BY <1>1, Queued DEF Lane!DeliveryTypeOK
  <2>2. UNCHANGED <<drain, overdue, stopped, sending, tries>>
    BY <1>1 DEF Lane!Enqueue
  <2>3. drain' \in {"no", "waiting"} =>
          \A m \in 1..given' : fate'[m] = "none" => m \in dropped' \cup Lane!InQueue(queue') \cup {sending'}
    <3> SUFFICES ASSUME drain \in {"no", "waiting"}, NEW m \in 1..given + 1, fate'[m] = "none"
                 PROVE  m \in dropped' \cup Lane!InQueue(queue') \cup {sending'}
      BY <2>1, <2>2
    <3>1. ~ stopped
      BY DEF SignalsHold
    <3>2. m = given + 1 \/ m \in dropped \cup Lane!InQueue(queue) \cup {sending}
      BY <2>1, <3>1 DEF MessagesAreKept
    <3> QED BY <2>1, <2>2, <3>1, <3>2
  <2>4. overdue \in Nat /\ overdue <= given
    BY DEF MessagesAreKept, Lane!DeliveryTypeOK
  <2>5. \A m \in Lane!InQueue(queue') : m > overdue' /\ m <= given'
    <3> SUFFICES ASSUME NEW m \in Lane!InQueue(queue') PROVE m > overdue /\ m <= given + 1
      BY <2>1, <2>2
    <3>1. CASE m = given + 1
      BY <3>1, <2>1, <2>4
    <3>2. CASE m \in Lane!InQueue(queue)
      <4>1. m \in Nat
        BY <3>2, QueueIsNat
      <4> QED BY <3>2, <4>1, <2>1, <2>4 DEF MessagesAreKept
    <3> QED BY <2>1, <3>1, <3>2
  <2>6. sending' # 0 /\ sending' <= overdue' => sending' \in dropped'
    BY <2>1, <2>2 DEF MessagesAreKept
  <2>7. tries' <= Retries /\ overdue' <= given'
    BY <2>1, <2>2, <2>4 DEF MessagesAreKept
  <2> QED BY <2>3, <2>5, <2>6, <2>7 DEF MessagesAreKept
<1>2. ASSUME Lane!PumpStarts PROVE MessagesAreKept'
  BY <1>2 DEF MessagesAreKept, Lane!PumpStarts
<1>3. ASSUME Lane!PumpShifts PROVE MessagesAreKept'
  <2>1. /\ sending' \in Lane!InQueue(queue) /\ sending' \in Nat
        /\ Lane!InQueue(queue) = Lane!InQueue(queue') \cup {sending'}
        /\ sending = 0 /\ tries' = 0
    BY <1>3, Shifted, QueueIsNat
  <2>2. UNCHANGED <<drain, overdue, given, dropped, fate>>
    BY <1>3 DEF Lane!PumpShifts
  <2>3. drain' \in {"no", "waiting"} =>
          \A m \in 1..given' : fate'[m] = "none" => m \in dropped' \cup Lane!InQueue(queue') \cup {sending'}
    BY <2>1, <2>2 DEF MessagesAreKept
  <2>4. \A m \in Lane!InQueue(queue') : m > overdue' /\ m <= given'
    BY <2>1, <2>2 DEF MessagesAreKept
  <2>5. sending' > overdue /\ overdue \in Nat
    BY <2>1 DEF MessagesAreKept, Lane!DeliveryTypeOK
  <2>6. ~ sending' <= overdue'
    BY <2>1, <2>2, <2>5
  <2>7. tries' <= Retries /\ overdue' <= given'
    BY <2>1, <2>2, LocalAssumption DEF MessagesAreKept
  <2> QED BY <2>3, <2>4, <2>6, <2>7 DEF MessagesAreKept
<1>4. ASSUME Lane!PumpEnds PROVE MessagesAreKept'
  BY <1>4 DEF MessagesAreKept, Lane!PumpEnds
<1>5. ASSUME Lane!PumpSettles PROVE MessagesAreKept'
  BY <1>5 DEF MessagesAreKept, Lane!PumpSettles
<1>6. ASSUME Lane!AttemptEnds PROVE MessagesAreKept'
  <2>1. UNCHANGED <<drain, overdue, given, dropped, queue>>
    BY <1>6 DEF Lane!AttemptEnds, Lane!BackoffEnds
  <2>2. \A m \in 1..given : fate'[m] = "none" => fate[m] = "none" /\ (sending' = sending \/ m # sending)
    BY <1>6, Attempted, GivenAreMessages DEF Lane!DeliveryTypeOK
  <2>3. sending' \in {0, sending} /\ tries' <= Retries
    BY <1>6, Attempted, LocalAssumption DEF MessagesAreKept
  <2>4. drain' \in {"no", "waiting"} =>
          \A m \in 1..given' : fate'[m] = "none" => m \in dropped' \cup Lane!InQueue(queue') \cup {sending'}
    BY <2>1, <2>2 DEF MessagesAreKept
  <2>5. \A m \in Lane!InQueue(queue') : m > overdue' /\ m <= given'
    BY <2>1 DEF MessagesAreKept
  <2>6. sending' # 0 /\ sending' <= overdue' => sending' \in dropped'
    BY <2>1, <2>3 DEF MessagesAreKept
  <2> QED BY <2>1, <2>3, <2>4, <2>5, <2>6 DEF MessagesAreKept
<1>7. ASSUME Lane!BackoffEnds PROVE MessagesAreKept'
  <2>1. UNCHANGED <<drain, overdue, given, dropped, queue>>
    BY <1>7 DEF Lane!AttemptEnds, Lane!BackoffEnds
  <2>2. \A m \in 1..given : fate'[m] = "none" => fate[m] = "none" /\ (sending' = sending \/ m # sending)
    BY <1>7, Attempted, GivenAreMessages DEF Lane!DeliveryTypeOK
  <2>3. sending' \in {0, sending} /\ tries' <= Retries
    BY <1>7, Attempted, LocalAssumption DEF MessagesAreKept
  <2>4. drain' \in {"no", "waiting"} =>
          \A m \in 1..given' : fate'[m] = "none" => m \in dropped' \cup Lane!InQueue(queue') \cup {sending'}
    BY <2>1, <2>2 DEF MessagesAreKept
  <2>5. \A m \in Lane!InQueue(queue') : m > overdue' /\ m <= given'
    BY <2>1 DEF MessagesAreKept
  <2>6. sending' # 0 /\ sending' <= overdue' => sending' \in dropped'
    BY <2>1, <2>3 DEF MessagesAreKept
  <2> QED BY <2>1, <2>3, <2>4, <2>5, <2>6 DEF MessagesAreKept
<1>8. ASSUME Lane!DrainStarts PROVE MessagesAreKept'
  BY <1>8 DEF MessagesAreKept, Lane!DrainStarts, Lane!Pumping
<1>9. ASSUME Lane!DrainEnds PROVE MessagesAreKept'
  BY <1>9 DEF MessagesAreKept, Lane!DrainEnds
<1>10. ASSUME Lane!Deadline PROVE MessagesAreKept'
  <2>1. /\ drain' = "aborting" /\ overdue' = given /\ given' = given /\ tries' = tries
        /\ sending' = sending /\ queue' = << >>
        /\ dropped' = dropped \cup Lane!InQueue(queue) \cup ({sending} \ {0})
    BY <1>10 DEF Lane!Deadline, Lane!Count
  <2>2. Lane!InQueue(queue') = {}
    BY <2>1 DEF Lane!InQueue
  <2>3. given \in Nat
    BY DEF Lane!DeliveryTypeOK
  <2> QED BY <2>1, <2>2, <2>3 DEF MessagesAreKept
<1>11. ASSUME Lane!Stops PROVE MessagesAreKept'
  <2>1. /\ drain' = "done" /\ queue' = << >>
        /\ UNCHANGED <<overdue, given, tries, sending, dropped>>
    BY <1>11 DEF Lane!Stops
  <2>2. Lane!InQueue(queue') = {}
    BY <2>1 DEF Lane!InQueue
  <2> QED BY <2>1, <2>2 DEF MessagesAreKept
<1>12. CASE UNCHANGED Lane!advars
  BY <1>12 DEF Lane!advars, MessagesAreKept
<1> QED
  BY <1>1, <1>2, <1>3, <1>4, <1>5, <1>6, <1>7, <1>8, <1>9, <1>10, <1>11, <1>12
  DEF Lane!DeliveryNext, Lane!PumpSteps

LEMMA CountSafe ==
  ASSUME LaneInv, [Lane!DeliveryNext]_Lane!advars
  PROVE  Lane!DroppedAreCounted'
<1> USE DEF LaneInv
<1>1. ASSUME Lane!Enqueue PROVE Lane!DroppedAreCounted'
  <2>1. overdue' = overdue /\ dropped \subseteq dropped'
    BY <1>1, Queued DEF Lane!Enqueue
  <2>2. overdue \in Nat /\ given \in Nat /\ overdue <= given
    BY DEF Lane!DeliveryTypeOK, MessagesAreKept
  <2>3. \A m \in 1..overdue : m # given + 1 /\ m \in Lane!Messages
    BY <2>2, GivenAreMessages
  <2>4. \A m \in 1..overdue : fate'[m] = fate[m]
    BY <1>1, <2>3, Queued DEF Lane!DeliveryTypeOK
  <2> QED BY <2>1, <2>4 DEF Lane!DroppedAreCounted
<1>2. ASSUME Lane!PumpStarts PROVE Lane!DroppedAreCounted'
  BY <1>2 DEF Lane!DroppedAreCounted, Lane!PumpStarts
<1>3. ASSUME Lane!PumpShifts PROVE Lane!DroppedAreCounted'
  BY <1>3 DEF Lane!DroppedAreCounted, Lane!PumpShifts
<1>4. ASSUME Lane!PumpEnds PROVE Lane!DroppedAreCounted'
  BY <1>4 DEF Lane!DroppedAreCounted, Lane!PumpEnds
<1>5. ASSUME Lane!PumpSettles PROVE Lane!DroppedAreCounted'
  BY <1>5 DEF Lane!DroppedAreCounted, Lane!PumpSettles
<1>6. ASSUME Lane!AttemptEnds PROVE Lane!DroppedAreCounted'
  <2>1. overdue' = overdue /\ dropped' = dropped
    BY <1>6 DEF Lane!AttemptEnds, Lane!BackoffEnds
  <2>2. overdue \in Nat /\ given \in Nat /\ overdue <= given
    BY DEF Lane!DeliveryTypeOK, MessagesAreKept
  <2>3. \A m \in 1..overdue : m # 0 /\ m <= overdue /\ m \in Lane!Messages
    BY <2>2, GivenAreMessages
  <2>4. \A m \in 1..overdue : m = sending => m \in dropped
    BY <2>3 DEF MessagesAreKept
  <2>5. \A m \in 1..overdue : m # sending => fate'[m] = fate[m]
    BY <1>6, <2>3, Attempted DEF Lane!DeliveryTypeOK
  <2> QED BY <2>1, <2>4, <2>5 DEF Lane!DroppedAreCounted
<1>7. ASSUME Lane!BackoffEnds PROVE Lane!DroppedAreCounted'
  <2>1. overdue' = overdue /\ dropped' = dropped
    BY <1>7 DEF Lane!AttemptEnds, Lane!BackoffEnds
  <2>2. overdue \in Nat /\ given \in Nat /\ overdue <= given
    BY DEF Lane!DeliveryTypeOK, MessagesAreKept
  <2>3. \A m \in 1..overdue : m # 0 /\ m <= overdue /\ m \in Lane!Messages
    BY <2>2, GivenAreMessages
  <2>4. \A m \in 1..overdue : m = sending => m \in dropped
    BY <2>3 DEF MessagesAreKept
  <2>5. \A m \in 1..overdue : m # sending => fate'[m] = fate[m]
    BY <1>7, <2>3, Attempted DEF Lane!DeliveryTypeOK
  <2> QED BY <2>1, <2>4, <2>5 DEF Lane!DroppedAreCounted
<1>8. ASSUME Lane!DrainStarts PROVE Lane!DroppedAreCounted'
  BY <1>8 DEF Lane!DroppedAreCounted, Lane!DrainStarts, Lane!Pumping
<1>9. ASSUME Lane!DrainEnds PROVE Lane!DroppedAreCounted'
  BY <1>9 DEF Lane!DroppedAreCounted, Lane!DrainEnds
<1>10. ASSUME Lane!Deadline PROVE Lane!DroppedAreCounted'
  <2>1. /\ overdue' = given /\ fate' = fate /\ drain = "waiting"
        /\ dropped' = dropped \cup Lane!InQueue(queue) \cup ({sending} \ {0})
    BY <1>10 DEF Lane!Deadline, Lane!Count
  <2>2. \A m \in 1..given : m # 0 /\ fate[m] # "aborted"
    BY <2>1, GivenAreMessages DEF SignalsHold
  <2>3. \A m \in 1..given : fate[m] = "none" => m \in dropped'
    BY <2>1, <2>2 DEF MessagesAreKept
  <2> QED BY <2>1, <2>2, <2>3 DEF Lane!DroppedAreCounted
<1>11. ASSUME Lane!Stops PROVE Lane!DroppedAreCounted'
  BY <1>11 DEF Lane!DroppedAreCounted, Lane!Stops
<1>12. CASE UNCHANGED Lane!advars
  BY <1>12 DEF Lane!advars, Lane!DroppedAreCounted
<1> QED
  BY <1>1, <1>2, <1>3, <1>4, <1>5, <1>6, <1>7, <1>8, <1>9, <1>10, <1>11, <1>12
  DEF Lane!DeliveryNext, Lane!PumpSteps

LEMMA LaneTypes ==
  ASSUME LaneInv, [Lane!DeliveryNext]_Lane!advars
  PROVE  Lane!DeliveryTypeOK'
<1> USE DEF LaneInv
<1>1. ASSUME Lane!Enqueue PROVE Lane!DeliveryTypeOK'
  <2>1. given' \in 0..MaxMessages
    BY <1>1, Queued DEF Lane!Messages, Lane!DeliveryTypeOK
  <2>2. fate' \in [Lane!Messages -> {"none", "delivered", "failed", "aborted", "ignored"}]
    BY <1>1, Queued DEF Lane!DeliveryTypeOK
  <2>3. /\ UNCHANGED <<sending, tries, epoch, signal, drain, awaited, overdue, stopped>>
        /\ pump' \in Lane!Pumps
    BY <1>1, Queued DEF Lane!Enqueue, Lane!Pumps, Lane!DeliveryTypeOK
  <2> QED BY <1>1, <2>1, <2>2, <2>3, Queued DEF Lane!DeliveryTypeOK
<1>2. ASSUME Lane!PumpStarts PROVE Lane!DeliveryTypeOK'
  BY <1>2 DEF Lane!DeliveryTypeOK, Lane!Pumps, Lane!Drains, Lane!Pumping, Lane!PumpStarts
<1>3. ASSUME Lane!PumpShifts PROVE Lane!DeliveryTypeOK'
  <2>1. sending' \in 0..MaxMessages /\ tries' \in 0..Retries + 1 /\ pump' \in Lane!Pumps
    BY <1>3, Shifted, LocalAssumption DEF Lane!Messages, Lane!Pumps
  <2>2. epoch' \in {"live", "aborted"}
    BY <1>3 DEF Lane!PumpShifts, Lane!DeliveryTypeOK
  <2>3. UNCHANGED <<signal, drain, awaited, overdue, stopped, given, dropped, fate>>
    BY <1>3 DEF Lane!PumpShifts
  <2> QED BY <1>3, <2>1, <2>2, <2>3, Shifted DEF Lane!DeliveryTypeOK
<1>4. ASSUME Lane!PumpEnds PROVE Lane!DeliveryTypeOK'
  BY <1>4 DEF Lane!DeliveryTypeOK, Lane!Pumps, Lane!Drains, Lane!Pumping, Lane!PumpEnds
<1>5. ASSUME Lane!PumpSettles PROVE Lane!DeliveryTypeOK'
  BY <1>5 DEF Lane!DeliveryTypeOK, Lane!Pumps, Lane!Drains, Lane!Pumping, Lane!PumpSettles
<1>6. ASSUME Lane!AttemptEnds PROVE Lane!DeliveryTypeOK'
  <2>1. sending' \in 0..MaxMessages /\ tries' \in 0..Retries + 1 /\ pump' \in Lane!Pumps
    BY <1>6, Attempted, LocalAssumption DEF Lane!Pumps, Lane!DeliveryTypeOK
  <2>2. fate' \in [Lane!Messages -> {"none", "delivered", "failed", "aborted", "ignored"}]
    BY <1>6, Attempted DEF Lane!DeliveryTypeOK
  <2>3. UNCHANGED <<queue, epoch, signal, drain, awaited, overdue, stopped, given, dropped>>
    BY <1>6 DEF Lane!AttemptEnds, Lane!BackoffEnds
  <2> QED BY <2>1, <2>2, <2>3 DEF Lane!DeliveryTypeOK
<1>7. ASSUME Lane!BackoffEnds PROVE Lane!DeliveryTypeOK'
  <2>1. sending' \in 0..MaxMessages /\ tries' \in 0..Retries + 1 /\ pump' \in Lane!Pumps
    BY <1>7, Attempted, LocalAssumption DEF Lane!Pumps, Lane!DeliveryTypeOK
  <2>2. fate' \in [Lane!Messages -> {"none", "delivered", "failed", "aborted", "ignored"}]
    BY <1>7, Attempted DEF Lane!DeliveryTypeOK
  <2>3. UNCHANGED <<queue, epoch, signal, drain, awaited, overdue, stopped, given, dropped>>
    BY <1>7 DEF Lane!AttemptEnds, Lane!BackoffEnds
  <2> QED BY <2>1, <2>2, <2>3 DEF Lane!DeliveryTypeOK
<1>8. ASSUME Lane!DrainStarts PROVE Lane!DeliveryTypeOK'
  BY <1>8 DEF Lane!DeliveryTypeOK, Lane!Pumps, Lane!Drains, Lane!Pumping, Lane!DrainStarts, Lane!Pumping
<1>9. ASSUME Lane!DrainEnds PROVE Lane!DeliveryTypeOK'
  BY <1>9 DEF Lane!DeliveryTypeOK, Lane!Pumps, Lane!Drains, Lane!Pumping, Lane!DrainEnds
<1>10. ASSUME Lane!Deadline PROVE Lane!DeliveryTypeOK'
  <2>1. dropped' \subseteq Lane!Messages
    <3>1. Lane!InQueue(queue) \subseteq Lane!Messages /\ {sending} \ {0} \subseteq Lane!Messages
      BY LenProperties, LocalAssumption DEF Lane!InQueue, Lane!DeliveryTypeOK, Lane!Messages
    <3> QED BY <1>10, <3>1 DEF Lane!Deadline, Lane!Count, Lane!DeliveryTypeOK
  <2>2. queue' \in Seq(Lane!Messages) /\ Len(queue') <= MaxQueue
    BY <1>10, LocalAssumption, EmptySeq DEF Lane!Deadline
  <2>3. /\ drain' \in Lane!Drains /\ signal' \in {"live", "aborted"} /\ epoch' \in {"live", "aborted"}
        /\ overdue' \in 0..MaxMessages
    BY <1>10 DEF Lane!Deadline, Lane!SignalAborted, Lane!Drains, Lane!DeliveryTypeOK
  <2>4. UNCHANGED <<pump, sending, tries, awaited, stopped, given, fate>>
    BY <1>10 DEF Lane!Deadline
  <2> QED BY <2>1, <2>2, <2>3, <2>4 DEF Lane!DeliveryTypeOK
<1>11. ASSUME Lane!Stops PROVE Lane!DeliveryTypeOK'
  <2>1. queue' \in Seq(Lane!Messages) /\ Len(queue') <= MaxQueue
    BY <1>11, LocalAssumption, EmptySeq DEF Lane!Stops
  <2>2. UNCHANGED <<pump, sending, tries, drain, awaited, overdue, given, dropped, fate>>
    BY <1>11 DEF Lane!Stops
  <2>3. stopped' \in BOOLEAN /\ signal' \in {"live", "aborted"} /\ epoch' \in {"live", "aborted"}
    BY <1>11 DEF Lane!Stops
  <2> QED BY <2>1, <2>2, <2>3 DEF Lane!DeliveryTypeOK
<1>12. CASE UNCHANGED Lane!advars
  BY <1>12 DEF Lane!advars, Lane!DeliveryTypeOK, Lane!Pumps, Lane!Drains, Lane!Pumping
<1> QED
  BY <1>1, <1>2, <1>3, <1>4, <1>5, <1>6, <1>7, <1>8, <1>9, <1>10, <1>11, <1>12
  DEF Lane!DeliveryNext, Lane!PumpSteps

LEMMA LaneSafe ==
  ASSUME LaneInv, [Lane!DeliveryNext]_Lane!advars
  PROVE  LaneInv'
BY PumpHolds, SignalsSafe, MessagesSafe, StrandedSafe, CountSafe, LaneTypes DEF LaneInv

LEMMA LaneInit ==
  ASSUME Lane!DeliveryInit PROVE LaneInv
<1> USE LocalAssumption DEF Lane!DeliveryInit
<1>1. queue \in Seq(Lane!Messages) /\ Len(queue) = 0 /\ Lane!InQueue(queue) = {}
  BY EmptySeq DEF Lane!InQueue
<1>2. Lane!DeliveryTypeOK
  <2>1. /\ pump \in Lane!Pumps /\ drain \in Lane!Drains /\ awaited \in BOOLEAN /\ stopped \in BOOLEAN
        /\ epoch \in {"live", "aborted"} /\ signal \in {"live", "aborted"}
    BY DEF Lane!Pumps, Lane!Drains
  <2>2. sending \in 0..MaxMessages /\ overdue \in 0..MaxMessages /\ given \in 0..MaxMessages /\ tries \in 0..Retries + 1
    OBVIOUS
  <2>3. fate \in [Lane!Messages -> {"none", "delivered", "failed", "aborted", "ignored"}] /\ dropped = {}
    OBVIOUS
  <2> QED BY <1>1, <2>1, <2>2, <2>3 DEF Lane!DeliveryTypeOK
<1>3. InFlight /\ SignalsHold
  BY DEF InFlight, SignalsHold
<1>4. MessagesAreKept
  BY <1>1 DEF MessagesAreKept
<1>5. Lane!NothingStranded /\ Lane!DroppedAreCounted
  BY DEF Lane!NothingStranded, Lane!DroppedAreCounted
<1> QED BY <1>2, <1>3, <1>4, <1>5 DEF LaneInv

\* What a step of a drain past its deadline may do to a message.
LEMMA AbortsOnly ==
  ASSUME LaneInv, [Lane!DeliveryNext]_Lane!advars, drain = "aborting",
         NEW m \in Lane!Messages, fate'[m] # fate[m]
  PROVE  fate'[m] = "aborted"
<1>1. epoch = "aborted" /\ ~ stopped
  BY DEF LaneInv, SignalsHold
<1>2. CASE Lane!AttemptEnds \/ Lane!BackoffEnds
  BY <1>1, <1>2, Attempted DEF LaneInv, Lane!DeliveryTypeOK
<1>3. CASE Lane!Enqueue
  BY <1>1, <1>3, Queued
<1>4. CASE fate' = fate
  BY <1>4
<1>5. Lane!DeliveryNext => Lane!AttemptEnds \/ Lane!BackoffEnds \/ Lane!Enqueue \/ fate' = fate
  BY DEF Lane!DeliveryNext, Lane!PumpSteps, Lane!PumpStarts, Lane!PumpShifts, Lane!PumpEnds,
         Lane!PumpSettles, Lane!DrainStarts, Lane!DrainEnds, Lane!Deadline, Lane!Stops
<1>6. UNCHANGED Lane!advars => fate' = fate
  BY DEF Lane!advars
<1> QED BY <1>2, <1>3, <1>4, <1>5, <1>6

-----------------------------------------------------------------------------
(* The parts together (MCLocal).                                           *)

\* A step of the daemon is, for each part, a step of it or none.
LEMMA LocalSteps ==
  [LocalNext]_localVars =>
    [Next]_vars /\ [Work!SupervisorNext]_Work!svars /\ [Lane!DeliveryNext]_Lane!advars
  BY DEF LocalNext, localVars, workVars, laneVars, vars, Work!svars, Lane!advars

\* A coordinator that has nothing to scan is a stopped one.
LEMMA ScanInitial == LocalInit => IInv
<1>1. NoScanDue => IInv
  <2> SUFFICES ASSUME NoScanDue PROVE IInv
    OBVIOUS
  <2>1. NoScan \in Scan /\ scans \in [Promises -> Scan] /\ \A p \in Promises : ~ scans[p].on
    BY DEF NoScanDue, NoScan, Scan
  <2>2. TypeOK
    <3>1. IsPlan(pending) /\ IsPlan(settling)
      BY Plans DEF NoScanDue
    <3>2. settle \in BOOLEAN /\ rescan \in BOOLEAN /\ changed = {} /\ owed = {} /\ faults = 0
      BY DEF NoScanDue
    <3>3. state = "stopped"
      BY DEF NoScanDue
    <3> QED BY <2>1, <3>1, <3>2, <3>3, ScanAssumption DEF TypeOK
  <2>3. OneScanAtATime /\ CatchUpHasScan /\ BurstHasTimer /\ StopDisarms
    BY <2>1 DEF NoScanDue, OneScanAtATime, CatchUpHasScan, BurstHasTimer, StopDisarms, Running
  <2>4. NothingForgotten
    BY DEF NoScanDue, NothingForgotten
  <2> QED BY <2>2, <2>3, <2>4 DEF IInv
<1> QED BY <1>1, InitInv DEF LocalInit

LEMMA ScansHold == LocalSpec => []IInv
  BY ScanInitial, LocalSteps, StepInv, PTL DEF LocalSpec

\* One scan of a library at a time, and none after a stop, whatever else the daemon does
\* (scan-coordinator.ts).
THEOREM DaemonScansInTurn == LocalSpec => []ScansInTurn
<1>1. IInv => ScansInTurn
  BY DEF IInv, StopDisarms, ScansInTurn, QuietAfterStop, Accepting
<1> QED BY <1>1, ScansHold, PTL

\* No path that a watch, an operator or a timer named is forgotten (scan-coordinator.ts).
THEOREM DaemonForgetsNoPath == LocalSpec => []NothingForgotten
<1>1. IInv => NothingForgotten
  BY DEF IInv
<1> QED BY <1>1, ScansHold, PTL

LEMMA WorkInitial == LocalInit => Work!SupervisorTypeOK /\ WorkInv
<1> SUFFICES ASSUME LocalInit PROVE Work!SupervisorTypeOK /\ WorkInv
  OBVIOUS
<1>1. /\ job = << >> /\ worker = << >> /\ charged = << >> /\ slots = {} /\ parked = << >>
      /\ known \subseteq Files /\ target = MaxWorkers /\ crashes = 0
      /\ paused = FALSE /\ draining = FALSE /\ ticking \in BOOLEAN /\ daemonUp = TRUE
  BY DEF LocalInit, NoWork, Work!SupervisorInit
<1>2. Work!NewLedgerRecord \in Work!LedgerRecord
  BY DEF Work!NewLedgerRecord, Work!LedgerRecord, Work!FileStates
<1>3. [Work!NewLedgerRecord EXCEPT !.state = "queued"] \in Work!LedgerRecord
  BY <1>2, LedgerTypes DEF Work!FileStates
<1>4. RowOK
  BY <1>2, <1>3 DEF RowOK, LocalInit, NoWork, Work!SupervisorInit
<1>5. FlagsOK
  <2>1. target \in 0..MaxWorkers /\ crashes \in 0..MaxCrashes
    BY <1>1, LocalAssumption
  <2> QED BY <1>1, <2>1 DEF FlagsOK
<1>6. DOMAIN job = {} /\ DOMAIN parked = {} /\ DOMAIN worker = {} /\ DOMAIN charged = {}
  BY <1>1
<1>7. ParkedOK
  BY <1>1, <1>6 DEF ParkedOK
<1>8. JobsOK
  <2>1. job \in Seq(Work!JobRow) /\ Len(job) = 0
    BY <1>1, EmptySeq
  <2>2. worker \in [{} -> Work!WorkerStates] /\ charged \in [{} -> 0..2]
    BY <1>1
  <2> QED BY <1>1, <1>6, <2>1, <2>2, LocalAssumption DEF JobsOK
<1>9. WorkInv
  BY <1>6 DEF WorkInv, SlotsHold, WorkersHold, JobsAreCharged
<1> QED BY <1>4, <1>5, <1>7, <1>8, <1>9, TypesSplit

LEMMA WorkTypes ==
  ASSUME Work!SupervisorTypeOK, WorkInv, [Work!SupervisorNext]_Work!svars
  PROVE  Work!SupervisorTypeOK'
<1>1. RowOK /\ FlagsOK /\ ParkedOK /\ JobsOK /\ Shapes
  BY TypesSplit, ShapesHold
<1>2. RowOK' /\ FlagsOK' /\ ParkedOK' /\ JobsOK'
  BY <1>1, RowTypes, FlagTypes, ParkedTypes, JobTypes
<1> QED BY <1>2 DEF Work!SupervisorTypeOK, RowOK, FlagsOK, ParkedOK, JobsOK

LEMMA WorkHolds ==
  ASSUME ~ HoldsRunning, ~ ReapsDraining
  PROVE  LocalSpec => [](Work!SupervisorTypeOK /\ WorkInv)
<1>1. Work!SupervisorTypeOK /\ WorkInv /\ [LocalNext]_localVars => (Work!SupervisorTypeOK /\ WorkInv)'
  BY LocalSteps, ShapesHold, WorkTypes, WorkSafe
<1> QED BY <1>1, WorkInitial, PTL DEF LocalSpec

\* Two workers never run one file, an orphan of a daemon that died included, and no worker
\* has a file that is being deleted, as long as the operator holds no file that is being
\* processed and the reaper does not come between the exit of a worker and its settling:
\* with either the run hold_running finds two workers on one file (supervisor.ts tick,
\* settleJob; media-file-repo.ts requeueUnlessClaimed, reserveForDeletion; reap-stalled.ts).
THEOREM OneWorkerEach ==
  ASSUME ~ HoldsRunning, ~ ReapsDraining
  PROVE  LocalSpec => []FilesAreWorkedAlone
<1>1. Work!SupervisorTypeOK /\ WorkInv => FilesAreWorkedAlone
  <2> SUFFICES ASSUME Work!SupervisorTypeOK, WorkInv PROVE FilesAreWorkedAlone
    OBVIOUS
  <2>1. Shapes
    BY ShapesHold
  <2>2. ASSUME NEW f \in Files, NEW j \in Work!JobsOf(f), NEW k \in Work!JobsOf(f),
               Work!Process(j), Work!Process(k)
        PROVE  j = k
    BY <2>1, <2>2, HolderIsLatest DEF WorkInv, Holding, Work!JobsOf, Work!Process
  <2>3. ASSUME NEW f \in Files, f \in DOMAIN parked \/ f \notin known, NEW j \in Work!JobsOf(f)
        PROVE  ~ Work!Process(j)
    BY <2>3 DEF WorkInv, WorkersHold, Holding, Work!JobsOf, Work!Process
  <2>4. Work!OneWorkerPerFile
    BY <2>2 DEF Work!OneWorkerPerFile
  <2>5. Work!DeletedFileIsIdle
    BY <2>3 DEF Work!DeletedFileIsIdle
  <2> QED BY <2>4, <2>5 DEF FilesAreWorkedAlone
<1> QED BY <1>1, WorkHolds, PTL

LEMMA LaneHolds == LocalSpec => []LaneInv
<1>1. LocalInit => LaneInv
  BY LaneInit DEF LocalInit
<1>2. LaneInv /\ [LocalNext]_localVars => LaneInv'
  BY LocalSteps, LaneSafe
<1> QED BY <1>1, <1>2, PTL DEF LocalSpec

\* What a stop does not deliver is counted; no message waits in a queue that nobody reads;
\* and a drain sends nothing after its deadline (alerts/deliver.ts).
THEOREM AlertsAreAccounted == LocalSpec => NoAlertIsLost
<1>1. LaneInv => Lane!DroppedAreCounted /\ Lane!NothingStranded
  BY DEF LaneInv
<1>2. LaneInv /\ [LocalNext]_localVars =>
        [drain = "aborting" =>
           \A m \in Lane!Messages : fate'[m] # fate[m] => fate'[m] = "aborted"]_Lane!advars
  BY LocalSteps, AbortsOnly
<1> QED
  BY <1>1, <1>2, LaneHolds, PTL DEF LocalSpec, NoAlertIsLost, Lane!NothingSentPastDeadline

\* Every variable of the daemon keeps its type, under the conditions of OneWorkerEach: the
\* attempts a job is charged with are bounded because it is settled once.
THEOREM DaemonTypes ==
  ASSUME ~ HoldsRunning, ~ ReapsDraining
  PROVE  LocalSpec => []LocalTypeOK
<1>1. IInv /\ (Work!SupervisorTypeOK /\ WorkInv) /\ LaneInv => LocalTypeOK
  BY DEF IInv, LaneInv, LocalTypeOK
<1> QED BY <1>1, ScansHold, WorkHolds, LaneHolds, PTL
=============================================================================
