-------------------------- MODULE ScanCoordinator --------------------------
(***************************************************************************)
(* daemon/scan-coordinator.ts for one library: every trigger ends in       *)
(* request, and request decides whether a scan starts, joins the catch-up  *)
(* of the one in flight, or waits for a burst of watch events to settle.   *)
(*                                                                         *)
(* A scan examines the paths of its plan one by one while files change and *)
(* triggers arrive.  Time is left out: the settle timer and the rescan     *)
(* timer may fire whenever they are armed.                                 *)
(***************************************************************************)
EXTENDS Naturals, FiniteSets

CONSTANTS
  Paths,       \* the files of the library
  ScopeLimit,  \* SCOPED_PATH_LIMIT
  Interval,    \* whether scan.rescanIntervalMs is above 0
  MaxFaults    \* bound: scans that throw

ASSUME ScanAssumption ==
  /\ ScopeLimit \in Nat \ {0} /\ MaxFaults \in Nat
  /\ Interval \in BOOLEAN
  /\ IsFiniteSet(Paths)

VARIABLES
  scans,     \* the scan each promise of runScan is at; one of the two stays unused
  pending,   \* the one catch-up plan
  settle,    \* whether the settle timer is armed
  settling,  \* the plan the burst of watch events has named so far
  rescan,    \* whether the periodic rescan timer is armed
  state,     \* of the coordinator: "created", "started", "stopping", "stopped"
  changed,   \* files changed since a scan last examined them
  owed,      \* paths asked for and not examined since
  faults

vars == <<scans, pending, settle, settling, rescan, state, changed, owed, faults>>

-----------------------------------------------------------------------------
(* Plans *)

Plan     == [full : BOOLEAN, paths : SUBSET Paths]
NoPlan   == [full |-> FALSE, paths |-> {}]
FullPlan == [full |-> TRUE, paths |-> Paths]
Scoped(ps) == [full |-> FALSE, paths |-> ps]

\* Mutant: a scoped request narrows a full plan to its own paths.
NarrowsFull(plan, ask) ==
  IF ask.full THEN FullPlan
  ELSE [full |-> plan.full, paths |-> IF plan.full THEN ask.paths ELSE plan.paths \cup ask.paths]

\* One more request folded into a plan: full absorbs scoped, and so does a list
\* that has grown too long.
PlanWith(plan, ask) ==
  LET merged == plan.paths \cup ask.paths IN
  IF plan.full \/ ask.full \/ Cardinality(merged) > ScopeLimit
  THEN FullPlan ELSE Scoped(merged)

Promises == 1 .. 2
Scan     == [on : BOOLEAN, full : BOOLEAN, left : SUBSET Paths]
NoScan   == [on |-> FALSE, full |-> FALSE, left |-> {}]
Begin(plan) == [on |-> TRUE, full |-> plan.full, left |-> plan.paths]

Running == \E p \in Promises : scans[p].on

\* runScan marks the library as running and starts a promise.
RunScan(plan) ==
  \E p \in Promises :
    /\ ~ scans[p].on /\ \A q \in Promises : q < p => scans[q].on
    /\ scans' = [scans EXCEPT ![p] = Begin(plan)]

Accepting == state \in {"created", "started"}

Init ==
  /\ scans = [p \in Promises |-> NoScan]
  /\ pending = NoPlan
  /\ settle = FALSE /\ settling = NoPlan
  /\ rescan = FALSE
  /\ state = "created"
  /\ changed = {} /\ owed = {}
  /\ faults = 0

-----------------------------------------------------------------------------
(* The library *)

\* A file changes, and the watch may or may not notice.
Change(f) ==
  /\ Accepting
  /\ f \notin changed
  /\ changed' = changed \cup {f}
  /\ UNCHANGED <<scans, pending, settle, settling, rescan, state, owed, faults>>

-----------------------------------------------------------------------------
(* Requests *)

\* request for a watch event: armSettle.
Watch(f) ==
  /\ state = "started"
  /\ settling' = PlanWith(settling, Scoped({f}))
  /\ settle' = TRUE
  /\ owed' = owed \cup {f}
  /\ UNCHANGED <<scans, pending, rescan, state, changed, faults>>

\* Mutant: the timer does not look for a scan in flight.
SettlesRegardless ==
  /\ settle
  /\ settle' = FALSE /\ settling' = NoPlan
  /\ RunScan(settling)
  /\ UNCHANGED <<pending, rescan, state, changed, owed, faults>>

\* The tree has been quiet for scan.settleMs.
Settled ==
  /\ settle
  /\ settle' = FALSE /\ settling' = NoPlan
  /\ \/ /\ Running
        /\ pending' = PlanWith(pending, settling)
        /\ UNCHANGED scans
     \/ /\ ~ Running
        /\ RunScan(settling)
        /\ UNCHANGED pending
  /\ UNCHANGED <<rescan, state, changed, owed, faults>>

\* Mutant: any request that starts a scan drops the burst that was settling.
SupersedesBurst(ask) ==
  /\ owed' = owed \cup ask.paths
  /\ \/ /\ Running
        /\ pending' = PlanWith(pending, ask)
        /\ UNCHANGED <<scans, settle, settling>>
     \/ /\ ~ Running
        /\ settle' = FALSE /\ settling' = NoPlan
        /\ RunScan(PlanWith(NoPlan, ask))
        /\ UNCHANGED pending

\* request for any other reason: joins the catch-up of the scan in flight, or
\* starts a scan at once; a full one covers what a burst has named.
Ask(ask) ==
  /\ owed' = owed \cup ask.paths
  /\ \/ /\ Running
        /\ pending' = PlanWith(pending, ask)
        /\ UNCHANGED <<scans, settle, settling>>
     \/ /\ ~ Running
        /\ settle' = (settle /\ ~ ask.full)
        /\ settling' = IF ask.full /\ settle THEN NoPlan ELSE settling
        /\ RunScan(PlanWith(NoPlan, ask))
        /\ UNCHANGED pending

\* A notification names a path; an operator or a start asks for everything.
Request ==
  /\ Accepting
  /\ \E ask \in {Scoped({f}) : f \in Paths} \cup {FullPlan} : Ask(ask)
  /\ UNCHANGED <<rescan, state, changed, faults>>

\* Mutant: a rescan that finds a scan in flight is not armed again.
RescanUnlessBusy ==
  /\ state = "started" /\ rescan
  /\ rescan' = ~ Running
  /\ Ask(FullPlan)
  /\ UNCHANGED <<state, changed, faults>>

\* The rescan timer: a full request, and the timer is armed again.
Rescan ==
  /\ state = "started" /\ rescan
  /\ rescan' = Interval
  /\ Ask(FullPlan)
  /\ UNCHANGED <<state, changed, faults>>

-----------------------------------------------------------------------------
(* Scans *)

Examine(p, f) ==
  /\ scans[p].on /\ f \in scans[p].left
  /\ scans' = [scans EXCEPT ![p].left = @ \ {f}]
  /\ changed' = changed \ {f}
  /\ owed' = owed \ {f}
  /\ UNCHANGED <<pending, settle, settling, rescan, state, faults>>

\* The loop of runScan goes on with what is pending by now.
CatchUp(p, next) ==
  /\ scans' = [scans EXCEPT ![p] = IF next = NoPlan THEN NoScan ELSE Begin(next)]
  /\ pending' = NoPlan

Finished(p) ==
  /\ scans[p].on /\ scans[p].left = {}
  /\ CatchUp(p, IF Accepting THEN pending ELSE NoPlan)
  /\ UNCHANGED <<settle, settling, rescan, state, changed, owed, faults>>

\* The scan throws.  The paths of a scoped one are owed a full scan; a full one
\* is left to the interval, and what it had not examined is owed no more.
Failed(p) ==
  /\ scans[p].on /\ faults < MaxFaults
  /\ LET retry == IF scans[p].full THEN pending ELSE FullPlan
         next  == IF Accepting THEN retry ELSE NoPlan IN
     /\ CatchUp(p, next)
     /\ owed' = IF scans[p].full THEN owed \cap (next.paths \cup settling.paths) ELSE owed
  /\ faults' = faults + 1
  /\ UNCHANGED <<settle, settling, rescan, state, changed>>

-----------------------------------------------------------------------------
(* start and stop *)

\* start arms the rescan; the watches begin with it.
Start ==
  /\ state = "created"
  /\ state' = "started" /\ rescan' = Interval
  /\ UNCHANGED <<scans, pending, settle, settling, changed, owed, faults>>

\* Mutant: stop does not wait for the scan in flight.
StopAtOnce ==
  /\ Accepting
  /\ state' = "stopped"
  /\ settle' = FALSE /\ settling' = NoPlan /\ pending' = NoPlan /\ rescan' = FALSE
  /\ UNCHANGED <<scans, changed, owed, faults>>

Stop ==
  /\ Accepting
  /\ state' = "stopping"
  /\ settle' = FALSE /\ settling' = NoPlan /\ pending' = NoPlan /\ rescan' = FALSE
  /\ UNCHANGED <<scans, changed, owed, faults>>

\* stop resolves once no promise is in flight; the database may be closed.
Stopped ==
  /\ state = "stopping" /\ ~ Running
  /\ state' = "stopped"
  /\ UNCHANGED <<scans, pending, settle, settling, rescan, changed, owed, faults>>

Next ==
  \/ \E f \in Paths : Change(f) \/ Watch(f)
  \/ Settled \/ Request \/ Rescan \/ Start \/ Stop \/ Stopped
  \/ \E p \in Promises : Finished(p) \/ Failed(p) \/ \E f \in Paths : Examine(p, f)

Spec == Init /\ [][Next]_vars

\* A timer that is armed fires, and a scan reads its files and ends.
Fairness ==
  /\ WF_vars(Settled) /\ WF_vars(Rescan) /\ WF_vars(Start)
  /\ \A p \in Promises :
       WF_vars(Finished(p)) /\ \A f \in Paths : WF_vars(Examine(p, f))

FairSpec == Spec /\ Fairness

-----------------------------------------------------------------------------
(* Properties *)

IsPlan(plan) == plan \in Plan /\ (plan.full => plan.paths = Paths)

\* Every variable has its type, and a full plan names every path.
TypeOK ==
  /\ scans \in [Promises -> Scan]
  /\ IsPlan(pending) /\ IsPlan(settling)
  /\ settle \in BOOLEAN /\ rescan \in BOOLEAN
  /\ state \in {"created", "started", "stopping", "stopped"}
  /\ changed \in SUBSET Paths /\ owed \in SUBSET Paths
  /\ faults \in 0 .. MaxFaults

\* Rule 1 of the file: one scan per library at a time, however the timers and
\* the requests interleave with the scan in flight.
OneScanAtATime == \A p, q \in Promises : scans[p].on /\ scans[q].on => p = q

\* The paths some scan is still going to examine.
Planned == {f \in Paths : \/ f \in pending.paths \cup settling.paths
                          \/ \E p \in Promises : scans[p].on /\ f \in scans[p].left}

\* A path someone named is examined after that, unless stop or the failure of a
\* full scan comes first: no merge, no superseded burst, no failed scoped scan
\* and no scan that had already passed it loses a path.
NothingForgotten == Accepting => owed \subseteq Planned

\* Once stop has resolved no scan runs and no timer is armed: the daemon closes
\* the database next.
QuietAfterStop == state = "stopped" => ~ Running /\ ~ settle /\ ~ rescan

\* The two together: scans take turns, and none outlives the coordinator.
ScansInTurn == OneScanAtATime /\ QuietAfterStop

\* Rule 4: with the interval on, a change is found although the watch misses it
\* and scans fail.
EveryChangeFound == \A f \in Paths : (f \in changed) ~> (f \notin changed \/ ~ Accepting)
=============================================================================
