---------------------------- MODULE BundleCache ----------------------------
(***************************************************************************)
(* node/bundle-cache.ts and its use in node/node-host.ts: the plugin       *)
(* bundles jobs run from, and the pruning of those no job holds.           *)
(*                                                                         *)
(* A job asks for its bundles one after the other and each time waits for  *)
(* a removal to end, a download or a time stamp.  Every job that settles   *)
(* starts a prune of its own, so several run at once.  A bundle has size   *)
(* 1, and prune takes the bundles in any order.                            *)
(***************************************************************************)
EXTENDS Naturals, FiniteSets

CONSTANTS
  Hashes,     \* the bundles
  Jobs,       \* jobs that may run at once, with the prune each one starts
  Cap,        \* bundleCacheMaxBytes
  Faults      \* bound: what may go wrong, each of them once

FaultKinds == {"download", "touch", "remove", "crash"}

ASSUME CacheAssumption ==
  /\ Cap \in Nat
  /\ Faults \subseteq FaultKinds
  /\ "none" \notin Hashes
  /\ IsFiniteSet(Hashes) /\ IsFiniteSet(Jobs)

VARIABLES
  disk,      \* each bundle's directory: "absent", "complete", or "torn": part of it is gone
  holds,     \* unreleased ensure calls of each bundle
  removing,  \* bundles being deleted
  inFlight,  \* bundles being downloaded
  job,       \* the ensure each job is in, what it still needs and what it has
  prune,     \* the prune each job started last
  faults     \* what has gone wrong

vars == <<disk, holds, removing, inFlight, job, prune, faults>>

Job   == [phase : {"idle", "fetching", "waiting", "downloading", "touching", "running"},
          at : Hashes \cup {"none"}, need : SUBSET Hashes, held : SUBSET Hashes]
Prune == [phase : {"idle", "listing", "evicting", "removing"},
          entries : SUBSET Hashes, total : Nat, target : Hashes \cup {"none"}]

IdleJob   == [phase |-> "idle", at |-> "none", need |-> {}, held |-> {}]
IdlePrune == [phase |-> "idle", entries |-> {}, total |-> 0, target |-> "none"]

Present == {h \in Hashes : disk[h] # "absent"}

Init ==
  /\ disk = [h \in Hashes |-> "absent"]
  /\ holds = [h \in Hashes |-> 0]
  /\ removing = {} /\ inFlight = {}
  /\ job = [j \in Jobs |-> IdleJob]
  /\ prune = [j \in Jobs |-> IdlePrune]
  /\ faults = {}

Fault(kind) == kind \in Faults \ faults /\ faults' = faults \cup {kind}

-----------------------------------------------------------------------------
(* Jobs: runJob and the release that follows it *)

Start(j) ==
  /\ job[j].phase = "idle" /\ prune[j].phase = "idle"
  /\ \E need \in SUBSET Hashes \ {{}} :
       job' = [job EXCEPT ![j] = [IdleJob EXCEPT !.phase = "fetching", !.need = need]]
  /\ UNCHANGED <<disk, holds, removing, inFlight, prune, faults>>

\* Mutant: ensure takes its hold only when it has the bundle.
EnsureUnheld(j, h) ==
  /\ job[j].phase = "fetching" /\ h \in job[j].need
  /\ job' = [job EXCEPT ![j].phase = "waiting", ![j].at = h]
  /\ UNCHANGED <<disk, holds, removing, inFlight, prune, faults>>

\* ensure holds the bundle, then waits for a removal of it to end.
Ensure(j, h) ==
  /\ job[j].phase = "fetching" /\ h \in job[j].need
  /\ holds' = [holds EXCEPT ![h] = @ + 1]
  /\ job' = [job EXCEPT ![j].phase = "waiting", ![j].at = h]
  /\ UNCHANGED <<disk, removing, inFlight, prune, faults>>

\* existsSync, or the download that is in flight, or a new one.
Look(j) ==
  LET h == job[j].at IN
  /\ job[j].phase = "waiting" /\ h \notin removing
  /\ job' = [job EXCEPT ![j].phase = IF h \in Present THEN "touching" ELSE "downloading"]
  /\ inFlight' = IF h \in Present THEN inFlight ELSE inFlight \cup {h}
  /\ UNCHANGED <<disk, holds, removing, prune, faults>>

\* The jobs J have the bundle they asked for.
Got(J) ==
  job' = [j \in Jobs |->
            IF j \notin J THEN job[j]
            ELSE LET need == job[j].need \ {job[j].at} IN
                 [phase |-> IF need = {} THEN "running" ELSE "fetching", at |-> "none",
                  need |-> need, held |-> job[j].held \cup {job[j].at}]]

Touched(j) ==
  /\ job[j].phase = "touching"
  /\ Got({j})
  /\ UNCHANGED <<disk, holds, removing, inFlight, prune, faults>>

\* The bundles job j gives up when it settles: those it has, and the one an
\* ensure that rejected had taken.
GivesUp(j) == job[j].held \cup ({job[j].at} \ {"none"})

\* Mutant: an ensure that rejects keeps its hold.
SettleLeaks(J) ==
  /\ holds' = [h \in Hashes |-> holds[h] - Cardinality({j \in J : h \in job[j].held})]
  /\ job' = [j \in Jobs |-> IF j \in J THEN IdleJob ELSE job[j]]
  /\ prune' = [j \in Jobs |-> IF j \in J THEN [IdlePrune EXCEPT !.phase = "listing"] ELSE prune[j]]

\* The jobs J settle: their bundles are released, then pruned.
Settle(J) ==
  /\ holds' = [h \in Hashes |-> holds[h] - Cardinality({j \in J : h \in GivesUp(j)})]
  /\ job' = [j \in Jobs |-> IF j \in J THEN IdleJob ELSE job[j]]
  /\ prune' = [j \in Jobs |-> IF j \in J THEN [IdlePrune EXCEPT !.phase = "listing"] ELSE prune[j]]

\* The run ends, or is abandoned before it starts.
RunEnds(j) ==
  /\ job[j].phase = "running"
  /\ Settle({j})
  /\ UNCHANGED <<disk, removing, inFlight, faults>>

TouchFails(j) ==
  /\ job[j].phase = "touching" /\ Fault("touch")
  /\ Settle({j})
  /\ UNCHANGED <<disk, removing, inFlight>>

-----------------------------------------------------------------------------
(* Downloads: downloadAndInstall *)

WaitingOn(h) == {j \in Jobs : job[j].phase = "downloading" /\ job[j].at = h}

\* Every file verified, the directory is renamed into place.
Downloaded(h) ==
  /\ h \in inFlight
  /\ inFlight' = inFlight \ {h}
  /\ disk' = [disk EXCEPT ![h] = "complete"]
  /\ Got(WaitingOn(h))
  /\ UNCHANGED <<holds, removing, prune, faults>>

DownloadFails(h) ==
  /\ h \in inFlight /\ Fault("download")
  /\ inFlight' = inFlight \ {h}
  /\ Settle(WaitingOn(h))
  /\ UNCHANGED <<disk, removing>>

-----------------------------------------------------------------------------
(* prune *)

List(j) ==
  /\ prune[j].phase = "listing"
  /\ prune' = [prune EXCEPT ![j] = [IdlePrune EXCEPT !.phase = "evicting", !.entries = Present,
                                                     !.total = Cardinality(Present)]]
  /\ UNCHANGED <<disk, holds, removing, inFlight, job, faults>>

\* Mutant: what is held was decided when the directory was listed.
EvictListed(j, h) ==
  /\ prune[j].phase = "evicting" /\ prune[j].total > Cap /\ h \in prune[j].entries
  /\ h \notin removing
  /\ removing' = removing \cup {h}
  /\ disk' = [disk EXCEPT ![h] = IF @ = "absent" THEN @ ELSE "torn"]
  /\ prune' = [prune EXCEPT ![j].phase = "removing", ![j].target = h]
  /\ UNCHANGED <<holds, inFlight, job, faults>>

Evict(j, h) ==
  /\ prune[j].phase = "evicting" /\ prune[j].total > Cap /\ h \in prune[j].entries
  /\ holds[h] = 0 /\ h \notin removing
  /\ removing' = removing \cup {h}
  /\ disk' = [disk EXCEPT ![h] = IF @ = "absent" THEN @ ELSE "torn"]
  /\ prune' = [prune EXCEPT ![j].phase = "removing", ![j].target = h]
  /\ UNCHANGED <<holds, inFlight, job, faults>>

Pass(j, h) ==
  /\ prune[j].phase = "evicting" /\ prune[j].total > Cap /\ h \in prune[j].entries
  /\ holds[h] > 0 \/ h \in removing
  /\ prune' = [prune EXCEPT ![j].entries = @ \ {h}]
  /\ UNCHANGED <<disk, holds, removing, inFlight, job, faults>>

Removed(j) ==
  LET h == prune[j].target IN
  /\ prune[j].phase = "removing"
  /\ disk' = [disk EXCEPT ![h] = "absent"]
  /\ removing' = removing \ {h}
  /\ prune' = [prune EXCEPT ![j].phase = "evicting", ![j].target = "none",
                            ![j].entries = @ \ {h}, ![j].total = @ - 1]
  /\ UNCHANGED <<holds, inFlight, job, faults>>

\* Mutant: a removal that throws is never taken off the list.
RemovalStuck(j) ==
  /\ prune[j].phase = "removing" /\ Fault("remove")
  /\ prune' = [prune EXCEPT ![j] = IdlePrune]
  /\ UNCHANGED <<disk, holds, removing, inFlight, job>>

\* rm throws part of the way: this prune ends, and the ensures that wait for it reject.
RemoveFails(j) ==
  LET h == prune[j].target
      J == {k \in Jobs : job[k].phase = "waiting" /\ job[k].at = h} IN
  /\ prune[j].phase = "removing" /\ Fault("remove")
  /\ removing' = removing \ {h}
  /\ holds' = [g \in Hashes |-> holds[g] - Cardinality({k \in J : g \in GivesUp(k)})]
  /\ job' = [k \in Jobs |-> IF k \in J THEN IdleJob ELSE job[k]]
  /\ prune' = [k \in Jobs |-> IF k = j THEN IdlePrune
                              ELSE IF k \in J THEN [IdlePrune EXCEPT !.phase = "listing"]
                              ELSE prune[k]]
  /\ UNCHANGED <<disk, inFlight>>

\* Mutant: the cap is compared with what would be left.
StopsOneEarly(j) ==
  /\ prune[j].phase = "evicting"
  /\ prune[j].total <= Cap + 1 \/ prune[j].entries = {}
  /\ prune' = [prune EXCEPT ![j] = IdlePrune]
  /\ UNCHANGED <<disk, holds, removing, inFlight, job, faults>>

PruneEnds(j) ==
  /\ prune[j].phase = "evicting"
  /\ prune[j].total <= Cap \/ prune[j].entries = {}
  /\ prune' = [prune EXCEPT ![j] = IdlePrune]
  /\ UNCHANGED <<disk, holds, removing, inFlight, job, faults>>

\* The node stops and starts again: what is on disk stays.
Crash ==
  /\ Fault("crash")
  /\ holds' = [h \in Hashes |-> 0]
  /\ removing' = {} /\ inFlight' = {}
  /\ job' = [j \in Jobs |-> IdleJob]
  /\ prune' = [j \in Jobs |-> IdlePrune]
  /\ UNCHANGED disk

Next ==
  \/ \E j \in Jobs :
       \/ Start(j) \/ Look(j) \/ Touched(j) \/ RunEnds(j) \/ TouchFails(j)
       \/ List(j) \/ Removed(j) \/ RemoveFails(j) \/ PruneEnds(j)
       \/ \E h \in Hashes : Ensure(j, h) \/ Evict(j, h) \/ Pass(j, h)
  \/ \E h \in Hashes : Downloaded(h) \/ DownloadFails(h)
  \/ Crash

Spec == Init /\ [][Next]_vars

\* File operations, downloads and the loops over them go on.
Fairness ==
  /\ \A j \in Jobs :
       /\ WF_vars(Look(j)) /\ WF_vars(Touched(j)) /\ WF_vars(List(j)) /\ WF_vars(Removed(j))
       /\ WF_vars(PruneEnds(j)) /\ WF_vars(\E h \in Hashes : Ensure(j, h))
       /\ WF_vars(\E h \in Hashes : Evict(j, h) \/ Pass(j, h))
  /\ \A h \in Hashes : WF_vars(Downloaded(h))

FairSpec == Spec /\ Fairness

-----------------------------------------------------------------------------
(* Properties *)

\* Every variable has its type, and a hold is counted for every ensure that has
\* not been given up, and for no other.
TypeOK ==
  /\ disk \in [Hashes -> {"absent", "complete", "torn"}]
  /\ removing \in SUBSET Hashes /\ inFlight \in SUBSET Hashes
  /\ job \in [Jobs -> Job] /\ prune \in [Jobs -> Prune]
  /\ \A h \in Hashes : holds[h] = Cardinality({j \in Jobs : h \in GivesUp(j)})
  /\ faults \in SUBSET Faults

\* "A present <hash>/ directory can be trusted as complete" (bundle-cache.ts:16):
\* a job runs from whole bundles.
RunsFromWholeBundle ==
  \A j \in Jobs : job[j].phase = "running" => \A h \in job[j].held : disk[h] = "complete"

\* What a job has been given is left alone until it gives it up: no prune,
\* listed before or after, and no download touches its directory.
HeldBundleStays ==
  [][\A j \in Jobs : \A h \in job[j].held : disk'[h] = disk[h]]_vars

\* A bundle is never downloaded and deleted at once, nor deleted by two prunes:
\* the directory has one owner at a time.
OneWriterPerBundle ==
  /\ removing \cap inFlight = {}
  /\ \A j, k \in Jobs : prune[j].phase = "removing" /\ prune[k].phase = "removing"
                        /\ prune[j].target = prune[k].target => j = k

\* Every job prunes when it settles, so an idle node is within its cap, until a
\* removal fails or the node restarts: a hold that is never given up, or a prune
\* that stops early, would let it grow.
IdleCacheFits ==
  faults \cap {"remove", "crash"} = {} /\ (\A j \in Jobs : job[j].phase = "idle" /\ prune[j].phase = "idle")
  => Cardinality(Present) <= Cap

\* A job that asks for its bundles gets them or fails: it does not wait for ever
\* for a removal or for a download another job started.
EveryFetchEnds ==
  \A j \in Jobs : (job[j].phase = "fetching") ~> (job[j].phase \in {"running", "idle"})
=============================================================================
