--------------------------- MODULE MCNode_proofs ---------------------------
(***************************************************************************)
(* Proofs about what a node does to run one job (MCNode), for any flows,   *)
(* edges, budget of steps, bundles and jobs: no report of a worker is lost *)
(* and a cancelled one leaves nothing behind, a run ends once, what it     *)
(* reports is true, and the bundles it runs from are left alone.           *)
(*                                                                         *)
(* Each part has an inductive invariant over its own variables, proved of  *)
(* its own next-state relation.  A step of MCNode is a step of one part    *)
(* and leaves the variables of the others alone.                           *)
(***************************************************************************)
EXTENDS MCNode, FiniteSetTheorems, TLAPS

-----------------------------------------------------------------------------
(* The bundles of a job (BundleCache).                                     *)

\* The bundles of a job: an idle one has none, one that fetches asks for a bundle at a time,
\* and what it was given, or finds there, is on disk and nobody removes it.
JobsHold ==
  \A j \in Jobs :
    /\ job[j].phase = "idle" => job[j] = IdleJob
    /\ job[j].phase \in {"waiting", "downloading", "touching"} <=> job[j].at # "none"
    /\ job[j].phase # "idle" => prune[j].phase = "idle"
    /\ job[j].phase = "downloading" => job[j].at \in inFlight
    /\ job[j].phase = "touching" => job[j].at \in Present \ removing
    /\ job[j].held \subseteq Present \ removing /\ job[j].held \cap job[j].need = {}

\* A bundle that is downloaded has a job that waits for it; one that is removed has one prune
\* that does, has listed it and is over the cap.
OwnersAreOne ==
  /\ \A h \in inFlight : h \notin Present \cup removing /\ WaitingOn(h) # {}
  /\ \A h \in removing : \E j \in Jobs : prune[j].phase = "removing" /\ prune[j].target = h
  /\ \A j \in Jobs : prune[j].phase = "removing" =>
       prune[j].target \in removing \cap prune[j].entries /\ prune[j].total > Cap
  /\ \A j, k \in Jobs : prune[j].phase = "removing" /\ prune[k].phase = "removing"
                        /\ prune[j].target = prune[k].target => j = k

\* holds counts the jobs that would give a bundle up.
HoldsAreCounted == holds = [h \in Hashes |-> Cardinality({j \in Jobs : h \in GivesUp(j)})]

\* A prune that will bring the cache under its cap: it counts whatever is there, and has
\* passed over nothing but what another prune removes.
Counts(j) ==
  /\ prune[j].phase \in {"evicting", "removing"}
  /\ Cardinality(Present \cup prune[j].entries) <= prune[j].total
  /\ Present \ prune[j].entries \subseteq removing

\* Every job is idle, every listing made, and nothing broke a prune off.
Settled ==
  /\ faults \cap {"remove", "crash"} = {}
  /\ \A j \in Jobs : job[j].phase = "idle" /\ prune[j].phase # "listing"

\* The cache fits, is being emptied, or a prune sees to it.
Fits == Cardinality(Present) <= Cap \/ Present \subseteq removing \/ \E j \in Jobs : Counts(j)
CacheWillFit == Settled => Fits

\* The types of the cache's variables.
DirectoryTypes ==
  /\ disk \in [Hashes -> {"absent", "complete", "torn"}]
  /\ removing \in SUBSET Hashes /\ inFlight \in SUBSET Hashes /\ faults \in SUBSET Faults
CacheTypes == DirectoryTypes /\ job \in [Jobs -> Job] /\ prune \in [Jobs -> Prune]

USE DEF DirectoryTypes


\* Sets of bundles are finite.
LEMMA PresentIsFinite ==
  ASSUME NEW S \in SUBSET Hashes PROVE IsFiniteSet(S) /\ Cardinality(S) \in Nat
  BY CacheAssumption, FS_Subset, FS_CardinalityType

\* A bundle nobody counts for is given up by nobody.
LEMMA UnheldIsFree ==
  ASSUME HoldsAreCounted, NEW h \in Hashes, holds[h] = 0, NEW j \in Jobs
  PROVE  h \notin GivesUp(j)
<1> DEFINE J == {k \in Jobs : h \in GivesUp(k)}
<1>1. Cardinality(J) = 0
  BY DEF HoldsAreCounted
<1>2. IsFiniteSet(J)
  BY CacheAssumption, FS_Subset
<1> HIDE DEF J
<1>3. J = {}
  BY <1>1, <1>2, FS_EmptySet
<1> QED BY <1>3 DEF J

\* What a job that was given its bundle becomes.
LEMMA GotTypes ==
  ASSUME CacheTypes, JobsHold, NEW J \in SUBSET Jobs, \A j \in J : job[j].at # "none", Got(J)
  PROVE  job' \in [Jobs -> Job]
<1>1. \A j \in Jobs : job[j] \in Job
  BY DEF CacheTypes
<1>2. SUFFICES ASSUME NEW j \in Jobs PROVE job'[j] \in Job
  BY DEF Got
<1>3. CASE j \notin J
  BY <1>1, <1>3 DEF Got
<1>4. CASE j \in J
  <2> DEFINE need == job[j].need \ {job[j].at}
  <2>1. job'[j] = [phase |-> IF need = {} THEN "running" ELSE "fetching", at |-> "none",
                   need |-> need, held |-> job[j].held \cup {job[j].at}]
    BY <1>4 DEF Got
  <2>2. job[j].at \in Hashes /\ need \in SUBSET Hashes /\ job[j].held \in SUBSET Hashes
    BY <1>1, <1>4 DEF Job
  <2> HIDE DEF need
  <2> QED BY <2>1, <2>2 DEF Job
<1> QED BY <1>3, <1>4

\* Every step of the cache keeps the types.
LEMMA CacheTyped ==
  ASSUME CacheTypes, JobsHold, OwnersAreOne, [Next]_vars
  PROVE  CacheTypes'
<1> USE CacheAssumption, PresentIsFinite DEF CacheTypes, OwnersAreOne, Job, Prune, IdleJob, IdlePrune, Present
<1>1. ASSUME NEW j \in Jobs, Start(j) PROVE CacheTypes'
  <2>1. DirectoryTypes'
    BY <1>1 DEF Start
  <2>2. (job \in [Jobs -> Job])'
    <3>1. PICK need \in SUBSET Hashes :
            job' = [job EXCEPT ![j] = [IdleJob EXCEPT !.phase = "fetching", !.need = need]]
      BY <1>1 DEF Start
    <3>2. [IdleJob EXCEPT !.phase = "fetching", !.need = need] \in Job
      BY DEF IdleJob, Job
    <3> QED BY <3>1, <3>2
  <2>3. (prune \in [Jobs -> Prune])'
    BY <1>1 DEF Start
  <2> QED BY <2>1, <2>2, <2>3
<1>2. ASSUME NEW j \in Jobs, Look(j) PROVE CacheTypes'
  <2>1. DirectoryTypes'
    <3>1. inFlight' \in {inFlight, inFlight \cup {job[j].at}} /\ UNCHANGED <<disk, removing, faults>>
      BY <1>2 DEF Look
    <3>2. job[j].phase = "waiting"
      BY <1>2 DEF Look
    <3>3. job[j].at \in Hashes
      BY <3>2 DEF JobsHold
    <3> QED BY <3>1, <3>3
  <2>2. (job \in [Jobs -> Job])'
    BY <1>2 DEF Look
  <2>3. (prune \in [Jobs -> Prune])'
    BY <1>2 DEF Look
  <2> QED BY <2>1, <2>2, <2>3
<1>3. ASSUME NEW j \in Jobs, Touched(j) PROVE CacheTypes'
  <2>1. DirectoryTypes'
    BY <1>3 DEF Touched, Got
  <2>2. (job \in [Jobs -> Job])'
    <3>1. Got({j}) /\ job[j].phase = "touching"
      BY <1>3 DEF Touched
    <3> QED BY <3>1, GotTypes DEF JobsHold
  <2>3. (prune \in [Jobs -> Prune])'
    BY <1>3 DEF Touched, Got
  <2> QED BY <2>1, <2>2, <2>3
<1>4. ASSUME NEW j \in Jobs, RunEnds(j) PROVE CacheTypes'
  <2>1. DirectoryTypes'
    BY <1>4 DEF RunEnds, Settle
  <2>2. (job \in [Jobs -> Job])'
    BY <1>4 DEF RunEnds, Settle
  <2>3. (prune \in [Jobs -> Prune])'
    BY <1>4 DEF RunEnds, Settle
  <2> QED BY <2>1, <2>2, <2>3
<1>5. ASSUME NEW j \in Jobs, TouchFails(j) PROVE CacheTypes'
  <2>1. DirectoryTypes'
    BY <1>5 DEF TouchFails, Settle, Fault
  <2>2. (job \in [Jobs -> Job])'
    BY <1>5 DEF TouchFails, Settle, Fault
  <2>3. (prune \in [Jobs -> Prune])'
    BY <1>5 DEF TouchFails, Settle, Fault
  <2> QED BY <2>1, <2>2, <2>3
<1>6. ASSUME NEW j \in Jobs, List(j) PROVE CacheTypes'
  <2>1. DirectoryTypes'
    BY <1>6 DEF List
  <2>2. (job \in [Jobs -> Job])'
    BY <1>6 DEF List
  <2>3. (prune \in [Jobs -> Prune])'
    BY <1>6 DEF List
  <2> QED BY <2>1, <2>2, <2>3
<1>7. ASSUME NEW j \in Jobs, Removed(j) PROVE CacheTypes'
  <2>1. DirectoryTypes'
    BY <1>7 DEF Removed
  <2>2. (job \in [Jobs -> Job])'
    BY <1>7 DEF Removed
  <2>3. (prune \in [Jobs -> Prune])'
    BY <1>7 DEF Removed
  <2> QED BY <2>1, <2>2, <2>3
<1>8. ASSUME NEW j \in Jobs, RemoveFails(j) PROVE CacheTypes'
  <2>1. DirectoryTypes'
    BY <1>8 DEF RemoveFails, Fault
  <2>2. (job \in [Jobs -> Job])'
    BY <1>8 DEF RemoveFails, Fault
  <2>3. (prune \in [Jobs -> Prune])'
    BY <1>8 DEF RemoveFails, Fault
  <2> QED BY <2>1, <2>2, <2>3
<1>9. ASSUME NEW j \in Jobs, PruneEnds(j) PROVE CacheTypes'
  <2>1. DirectoryTypes'
    BY <1>9 DEF PruneEnds
  <2>2. (job \in [Jobs -> Job])'
    BY <1>9 DEF PruneEnds
  <2>3. (prune \in [Jobs -> Prune])'
    BY <1>9 DEF PruneEnds
  <2> QED BY <2>1, <2>2, <2>3
<1>10. ASSUME NEW j \in Jobs, NEW h \in Hashes, Ensure(j, h) PROVE CacheTypes'
  <2>1. DirectoryTypes'
    BY <1>10 DEF Ensure
  <2>2. (job \in [Jobs -> Job])'
    <3> DEFINE asked == [job EXCEPT ![j].phase = "waiting"]
    <3>1. job' = [asked EXCEPT ![j].at = h]
      BY <1>10, Zenon DEF Ensure
    <3>2. asked \in [Jobs -> Job]
      OBVIOUS
    <3> HIDE DEF asked
    <3> QED BY <3>1, <3>2
  <2>3. (prune \in [Jobs -> Prune])'
    BY <1>10 DEF Ensure
  <2> QED BY <2>1, <2>2, <2>3
<1>11. ASSUME NEW j \in Jobs, NEW h \in Hashes, Evict(j, h) PROVE CacheTypes'
  <2>1. DirectoryTypes'
    BY <1>11 DEF Evict
  <2>2. (job \in [Jobs -> Job])'
    BY <1>11 DEF Evict
  <2>3. (prune \in [Jobs -> Prune])'
    <3> DEFINE taken == [prune EXCEPT ![j].phase = "removing"]
    <3>1. prune' = [taken EXCEPT ![j].target = h]
      BY <1>11, Zenon DEF Evict
    <3>2. taken \in [Jobs -> Prune]
      OBVIOUS
    <3> HIDE DEF taken
    <3> QED BY <3>1, <3>2
  <2> QED BY <2>1, <2>2, <2>3
<1>12. ASSUME NEW j \in Jobs, NEW h \in Hashes, Pass(j, h) PROVE CacheTypes'
  <2>1. DirectoryTypes'
    BY <1>12 DEF Pass
  <2>2. (job \in [Jobs -> Job])'
    BY <1>12 DEF Pass
  <2>3. (prune \in [Jobs -> Prune])'
    <3>1. prune' = [prune EXCEPT ![j] = [prune[j] EXCEPT !.entries = prune[j].entries \ {h}]]
      BY <1>12 DEF Pass
    <3>2. [prune[j] EXCEPT !.entries = prune[j].entries \ {h}] \in Prune
      OBVIOUS
    <3> HIDE DEF Prune
    <3> QED BY <3>1, <3>2
  <2> QED BY <2>1, <2>2, <2>3
<1>13. ASSUME NEW h \in Hashes, Downloaded(h) PROVE CacheTypes'
  <2>1. DirectoryTypes'
    BY <1>13 DEF Downloaded, Got
  <2>2. (job \in [Jobs -> Job])'
    <3>1. Got(WaitingOn(h))
      BY <1>13 DEF Downloaded
    <3>2. WaitingOn(h) \in SUBSET Jobs /\ \A j \in WaitingOn(h) : job[j].at # "none"
      BY DEF WaitingOn
    <3> QED BY <3>1, <3>2, GotTypes
  <2>3. (prune \in [Jobs -> Prune])'
    BY <1>13 DEF Downloaded, Got
  <2> QED BY <2>1, <2>2, <2>3
<1>14. ASSUME NEW h \in Hashes, DownloadFails(h) PROVE CacheTypes'
  <2>1. DirectoryTypes'
    BY <1>14 DEF DownloadFails, Settle, Fault
  <2>2. (job \in [Jobs -> Job])'
    BY <1>14 DEF DownloadFails, Settle, Fault
  <2>3. (prune \in [Jobs -> Prune])'
    BY <1>14 DEF DownloadFails, Settle, Fault
  <2> QED BY <2>1, <2>2, <2>3
<1>15. ASSUME Crash PROVE CacheTypes'
  <2>1. DirectoryTypes'
    BY <1>15 DEF Crash, Fault
  <2>2. (job \in [Jobs -> Job])'
    BY <1>15 DEF Crash, Fault
  <2>3. (prune \in [Jobs -> Prune])'
    BY <1>15 DEF Crash, Fault
  <2> QED BY <2>1, <2>2, <2>3
<1>16. CASE UNCHANGED vars
  BY <1>16 DEF vars
<1> QED
  BY <1>1, <1>2, <1>3, <1>4, <1>5, <1>6, <1>7, <1>8, <1>9, <1>10, <1>11, <1>12, <1>13,
     <1>14, <1>15, <1>16
  DEF Next

\* Every step keeps the bundles of every job: a prune takes none that is counted.
LEMMA JobsGoOn ==
  ASSUME CacheTypes, JobsHold, OwnersAreOne, HoldsAreCounted, [Next]_vars
  PROVE  JobsHold'
<1> USE CacheAssumption DEF CacheTypes, OwnersAreOne, JobsHold, Job, Prune, IdleJob, IdlePrune, Present
<1>1. ASSUME NEW j \in Jobs, Start(j) PROVE JobsHold'
  BY <1>1 DEF Start
<1>2. ASSUME NEW j \in Jobs, Look(j) PROVE JobsHold'
  BY <1>2 DEF Look
<1>3. ASSUME NEW j \in Jobs, Touched(j) PROVE JobsHold'
  BY <1>3 DEF Touched, Got
<1>4. ASSUME NEW j \in Jobs, RunEnds(j) PROVE JobsHold'
  BY <1>4 DEF RunEnds, Settle
<1>5. ASSUME NEW j \in Jobs, TouchFails(j) PROVE JobsHold'
  BY <1>5 DEF TouchFails, Settle, Fault
<1>6. ASSUME NEW j \in Jobs, List(j) PROVE JobsHold'
  BY <1>6 DEF List
<1>7. ASSUME NEW j \in Jobs, Removed(j) PROVE JobsHold'
  BY <1>7 DEF Removed
<1>8. ASSUME NEW j \in Jobs, RemoveFails(j) PROVE JobsHold'
  <2>1. Present' = Present /\ removing' \subseteq removing /\ inFlight' = inFlight
    BY <1>8 DEF RemoveFails
  <2>2. ASSUME NEW k \in Jobs
        PROVE  job'[k] = IdleJob \/ (job'[k] = job[k] /\ prune'[k] \in {prune[k], IdlePrune})
    BY <1>8 DEF RemoveFails
  <2>3. IdleJob.phase = "idle" /\ IdleJob.at = "none" /\ IdleJob.held = {} /\ IdlePrune.phase = "idle"
    OBVIOUS
  <2> HIDE DEF IdleJob, IdlePrune, Present, CacheTypes, OwnersAreOne
  <2> QED BY <2>1, <2>2, <2>3
<1>9. ASSUME NEW j \in Jobs, PruneEnds(j) PROVE JobsHold'
  BY <1>9 DEF PruneEnds
<1>10. ASSUME NEW j \in Jobs, NEW h \in Hashes, Ensure(j, h) PROVE JobsHold'
  BY <1>10 DEF Ensure
<1>11. ASSUME NEW j \in Jobs, NEW h \in Hashes, Evict(j, h) PROVE JobsHold'
  <2>1. \A k \in Jobs : h \notin job[k].held /\ h # job[k].at
    BY <1>11, UnheldIsFree DEF Evict, GivesUp
  <2>2. Present' = Present /\ removing' = removing \cup {h} /\ UNCHANGED <<job, inFlight>>
    BY <1>11 DEF Evict
  <2>3. \A k \in Jobs : job[k].phase # "idle" => prune'[k].phase = "idle"
    BY <1>11 DEF Evict
  <2> QED BY <2>1, <2>2, <2>3
<1>12. ASSUME NEW j \in Jobs, NEW h \in Hashes, Pass(j, h) PROVE JobsHold'
  BY <1>12 DEF Pass
<1>13. ASSUME NEW h \in Hashes, Downloaded(h) PROVE JobsHold'
  <2>1. /\ h \notin removing /\ Present' = Present \cup {h} /\ inFlight' = inFlight \ {h}
        /\ UNCHANGED <<removing, prune>> /\ h \notin Present
    BY <1>13 DEF Downloaded
  <2> SUFFICES ASSUME NEW j \in Jobs
               PROVE  /\ job'[j].phase = "idle" => job'[j] = IdleJob
                      /\ job'[j].phase \in {"waiting", "downloading", "touching"} <=> job'[j].at # "none"
                      /\ job'[j].phase # "idle" => prune'[j].phase = "idle"
                      /\ job'[j].phase = "downloading" => job'[j].at \in inFlight'
                      /\ job'[j].phase = "touching" => job'[j].at \in Present' \ removing'
                      /\ job'[j].held \subseteq Present' \ removing'
                      /\ job'[j].held \cap job'[j].need = {}
    OBVIOUS
  <2>2. CASE j \in WaitingOn(h)
    <3>1. job[j].at = h /\ job[j].phase = "downloading"
      BY <2>2 DEF WaitingOn
    <3>2. /\ job'[j].phase \in {"running", "fetching"} /\ job'[j].at = "none"
          /\ job'[j].need = job[j].need \ {h} /\ job'[j].held = job[j].held \cup {h}
      BY <1>13, <2>2, <3>1 DEF Downloaded, Got
    <3> QED BY <2>1, <3>1, <3>2
  <2>3. CASE j \notin WaitingOn(h)
    <3>1. job'[j] = job[j]
      BY <1>13, <2>3 DEF Downloaded, Got
    <3>2. job[j].phase = "downloading" => job[j].at # h
      BY <2>3 DEF WaitingOn
    <3> QED BY <2>1, <3>1, <3>2
  <2> QED BY <2>2, <2>3
<1>14. ASSUME NEW h \in Hashes, DownloadFails(h) PROVE JobsHold'
  <2>1. Present' = Present /\ inFlight' = inFlight \ {h} /\ UNCHANGED removing
    BY <1>14 DEF DownloadFails
  <2> SUFFICES ASSUME NEW j \in Jobs
               PROVE  /\ job'[j].phase = "idle" => job'[j] = IdleJob
                      /\ job'[j].phase \in {"waiting", "downloading", "touching"} <=> job'[j].at # "none"
                      /\ job'[j].phase # "idle" => prune'[j].phase = "idle"
                      /\ job'[j].phase = "downloading" => job'[j].at \in inFlight'
                      /\ job'[j].phase = "touching" => job'[j].at \in Present' \ removing'
                      /\ job'[j].held \subseteq Present' \ removing'
                      /\ job'[j].held \cap job'[j].need = {}
    OBVIOUS
  <2>2. CASE j \in WaitingOn(h)
    BY <1>14, <2>2 DEF DownloadFails, Settle
  <2>3. CASE j \notin WaitingOn(h)
    <3>1. job'[j] = job[j] /\ prune'[j] = prune[j]
      BY <1>14, <2>3 DEF DownloadFails, Settle
    <3>2. job[j].phase = "downloading" => job[j].at # h
      BY <2>3 DEF WaitingOn
    <3> QED BY <2>1, <3>1, <3>2
  <2> QED BY <2>2, <2>3
<1>15. ASSUME Crash PROVE JobsHold'
  BY <1>15 DEF Crash, Fault
<1>16. CASE UNCHANGED vars
  BY <1>16 DEF vars
<1> QED
  BY <1>1, <1>2, <1>3, <1>4, <1>5, <1>6, <1>7, <1>8, <1>9, <1>10, <1>11, <1>12, <1>13,
     <1>14, <1>15, <1>16
  DEF Next

\* Every step keeps one owner to a directory.
LEMMA OwnersStayOne ==
  ASSUME CacheTypes, JobsHold, OwnersAreOne, HoldsAreCounted, [Next]_vars
  PROVE  OwnersAreOne'
<1> USE CacheAssumption DEF CacheTypes, OwnersAreOne, JobsHold, Job, Prune, IdleJob, IdlePrune, Present, WaitingOn
<1>1. ASSUME NEW j \in Jobs, Start(j) PROVE OwnersAreOne'
  BY <1>1 DEF Start
<1>2. ASSUME NEW j \in Jobs, Look(j) PROVE OwnersAreOne'
  BY <1>2 DEF Look
<1>3. ASSUME NEW j \in Jobs, Touched(j) PROVE OwnersAreOne'
  BY <1>3 DEF Touched, Got
<1>4. ASSUME NEW j \in Jobs, RunEnds(j) PROVE OwnersAreOne'
  BY <1>4 DEF RunEnds, Settle
<1>5. ASSUME NEW j \in Jobs, TouchFails(j) PROVE OwnersAreOne'
  BY <1>5 DEF TouchFails, Settle, Fault
<1>6. ASSUME NEW j \in Jobs, List(j) PROVE OwnersAreOne'
  BY <1>6 DEF List
<1>7. ASSUME NEW j \in Jobs, Removed(j) PROVE OwnersAreOne'
  <2> DEFINE g == prune[j].target
  <2>1. g \in removing /\ g \notin inFlight /\ prune[j].phase = "removing"
    BY <1>7 DEF Removed
  <2>2. /\ Present' = Present \ {g} /\ removing' = removing \ {g} /\ UNCHANGED <<job, inFlight>>
        /\ prune'[j].phase = "evicting" /\ \A k \in Jobs : k # j => prune'[k] = prune[k]
    BY <1>7, <2>1 DEF Removed
  <2>3. \A h \in inFlight' : h \notin Present' \cup removing' /\ WaitingOn(h)' # {}
    BY <2>2
  <2>4. \A h \in removing' : \E k \in Jobs : prune'[k].phase = "removing" /\ prune'[k].target = h
    BY <2>2
  <2>5. \A k \in Jobs : prune'[k].phase = "removing" =>
          prune'[k].target \in removing' \cap prune'[k].entries /\ prune'[k].total > Cap
    BY <2>1, <2>2
  <2>6. \A k, l \in Jobs : prune'[k].phase = "removing" /\ prune'[l].phase = "removing"
                           /\ prune'[k].target = prune'[l].target => k = l
    BY <2>2
  <2> QED BY <2>3, <2>4, <2>5, <2>6
<1>8. ASSUME NEW j \in Jobs, RemoveFails(j) PROVE OwnersAreOne'
  BY <1>8 DEF RemoveFails, Fault
<1>9. ASSUME NEW j \in Jobs, PruneEnds(j) PROVE OwnersAreOne'
  BY <1>9 DEF PruneEnds
<1>10. ASSUME NEW j \in Jobs, NEW h \in Hashes, Ensure(j, h) PROVE OwnersAreOne'
  BY <1>10 DEF Ensure
<1>11. ASSUME NEW j \in Jobs, NEW h \in Hashes, Evict(j, h) PROVE OwnersAreOne'
  <2>1. h \notin inFlight
    BY <1>11, UnheldIsFree DEF Evict, GivesUp
  <2>2. /\ Present' = Present /\ removing' = removing \cup {h} /\ UNCHANGED <<job, inFlight>>
        /\ h \notin removing /\ h \in prune[j].entries /\ prune[j].total > Cap
        /\ prune[j].phase = "evicting"
    BY <1>11 DEF Evict
  <2>3. \A k \in Jobs : /\ k # j => prune'[k] = prune[k]
                        /\ prune'[j].phase = "removing" /\ prune'[j].target = h
                        /\ prune'[j].entries = prune[j].entries /\ prune'[j].total = prune[j].total
    BY <1>11 DEF Evict
  <2>4. \A g \in removing' : \E k \in Jobs : prune'[k].phase = "removing" /\ prune'[k].target = g
    BY <2>2, <2>3
  <2>5. \A k \in Jobs : prune'[k].phase = "removing" =>
          prune'[k].target \in removing' \cap prune'[k].entries /\ prune'[k].total > Cap
    BY <2>2, <2>3
  <2>6. \A k, l \in Jobs : prune'[k].phase = "removing" /\ prune'[l].phase = "removing"
                           /\ prune'[k].target = prune'[l].target => k = l
    BY <2>2, <2>3
  <2> QED BY <2>1, <2>2, <2>4, <2>5, <2>6
<1>12. ASSUME NEW j \in Jobs, NEW h \in Hashes, Pass(j, h) PROVE OwnersAreOne'
  BY <1>12 DEF Pass
<1>13. ASSUME NEW h \in Hashes, Downloaded(h) PROVE OwnersAreOne'
  BY <1>13 DEF Downloaded, Got
<1>14. ASSUME NEW h \in Hashes, DownloadFails(h) PROVE OwnersAreOne'
  BY <1>14 DEF DownloadFails, Settle, Fault
<1>15. ASSUME Crash PROVE OwnersAreOne'
  BY <1>15 DEF Crash, Fault
<1>16. CASE UNCHANGED vars
  BY <1>16 DEF vars
<1> QED
  BY <1>1, <1>2, <1>3, <1>4, <1>5, <1>6, <1>7, <1>8, <1>9, <1>10, <1>11, <1>12, <1>13,
     <1>14, <1>15, <1>16
  DEF Next

\* A count that stays: no job gives up more, or less, than it did.
LEMMA CountsStay ==
  ASSUME HoldsAreCounted, holds' = holds, \A k \in Jobs : GivesUp(k)' = GivesUp(k)
  PROVE  HoldsAreCounted'
<1>1. \A h \in Hashes : {k \in Jobs : h \in GivesUp(k)'} = {k \in Jobs : h \in GivesUp(k)}
  OBVIOUS
<1> QED BY <1>1 DEF HoldsAreCounted

\* What some jobs give up is taken off the counts.
LEMMA CountsDrop ==
  ASSUME HoldsAreCounted, NEW J \in SUBSET Jobs,
         job' = [k \in Jobs |-> IF k \in J THEN IdleJob ELSE job[k]],
         holds' = [h \in Hashes |-> holds[h] - Cardinality({k \in J : h \in GivesUp(k)})]
  PROVE  HoldsAreCounted'
<1>1. \A k \in J : GivesUp(k)' = {}
  BY DEF GivesUp, IdleJob
<1>2. \A k \in Jobs \ J : GivesUp(k)' = GivesUp(k)
  BY DEF GivesUp
<1>3. SUFFICES ASSUME NEW h \in Hashes
               PROVE  holds'[h] = Cardinality({k \in Jobs : h \in GivesUp(k)'})
  BY DEF HoldsAreCounted
<1> DEFINE All == {k \in Jobs : h \in GivesUp(k)}
           Some == {k \in J : h \in GivesUp(k)}
<1>4. {k \in Jobs : h \in GivesUp(k)'} = All \ Some
  BY <1>1, <1>2
<1>5. IsFiniteSet(All) /\ Some \in SUBSET All
  BY CacheAssumption, FS_Subset
<1>6. holds'[h] = Cardinality(All) - Cardinality(Some)
  BY DEF HoldsAreCounted
<1> HIDE DEF All, Some
<1>7. IsFiniteSet(Some) /\ All \cap Some = Some
  BY <1>5, FS_Subset
<1>8. Cardinality(All \ Some) = Cardinality(All) - Cardinality(Some)
  BY <1>5, <1>7, FS_Difference
<1> QED BY <1>4, <1>6, <1>8

\* Every step keeps the counts.
LEMMA HoldsStayCounted ==
  ASSUME CacheTypes, JobsHold, HoldsAreCounted, [Next]_vars
  PROVE  HoldsAreCounted'
<1> USE CacheAssumption DEF CacheTypes, JobsHold, Job, IdleJob
<1>1. ASSUME NEW j \in Jobs, Start(j) PROVE HoldsAreCounted'
  <2>1. holds' = holds /\ \A k \in Jobs : GivesUp(k)' = GivesUp(k)
    BY <1>1 DEF Start, GivesUp
  <2> QED BY <2>1, CountsStay
<1>2. ASSUME NEW j \in Jobs, Look(j) PROVE HoldsAreCounted'
  <2>1. holds' = holds /\ \A k \in Jobs : GivesUp(k)' = GivesUp(k)
    BY <1>2 DEF Look, GivesUp
  <2> QED BY <2>1, CountsStay
<1>3. ASSUME NEW j \in Jobs, Touched(j) PROVE HoldsAreCounted'
  <2>1. holds' = holds /\ \A k \in Jobs : GivesUp(k)' = GivesUp(k)
    BY <1>3 DEF Touched, Got, GivesUp
  <2> QED BY <2>1, CountsStay
<1>4. ASSUME NEW j \in Jobs, RunEnds(j) PROVE HoldsAreCounted'
  <2>1. {j} \in SUBSET Jobs
    BY DEF WaitingOn
  <2> QED BY <1>4, <2>1, CountsDrop DEF RunEnds, Settle
<1>5. ASSUME NEW j \in Jobs, TouchFails(j) PROVE HoldsAreCounted'
  <2>1. {j} \in SUBSET Jobs
    BY DEF WaitingOn
  <2> QED BY <1>5, <2>1, CountsDrop DEF TouchFails, Settle
<1>6. ASSUME NEW j \in Jobs, List(j) PROVE HoldsAreCounted'
  <2>1. holds' = holds /\ \A k \in Jobs : GivesUp(k)' = GivesUp(k)
    BY <1>6 DEF List, GivesUp
  <2> QED BY <2>1, CountsStay
<1>7. ASSUME NEW j \in Jobs, Removed(j) PROVE HoldsAreCounted'
  <2>1. holds' = holds /\ \A k \in Jobs : GivesUp(k)' = GivesUp(k)
    BY <1>7 DEF Removed, GivesUp
  <2> QED BY <2>1, CountsStay
<1>8. ASSUME NEW j \in Jobs, RemoveFails(j) PROVE HoldsAreCounted'
  <2> DEFINE J == {k \in Jobs : job[k].phase = "waiting" /\ job[k].at = prune[j].target}
  <2>1. J \in SUBSET Jobs
    OBVIOUS
  <2> QED BY <1>8, <2>1, CountsDrop DEF RemoveFails
<1>9. ASSUME NEW j \in Jobs, PruneEnds(j) PROVE HoldsAreCounted'
  <2>1. holds' = holds /\ \A k \in Jobs : GivesUp(k)' = GivesUp(k)
    BY <1>9 DEF PruneEnds, GivesUp
  <2> QED BY <2>1, CountsStay
<1>10. ASSUME NEW j \in Jobs, NEW h \in Hashes, Ensure(j, h) PROVE HoldsAreCounted'
  <2>1. GivesUp(j)' = GivesUp(j) \cup {h} /\ h \notin GivesUp(j)
    BY <1>10 DEF Ensure, GivesUp
  <2>2. \A k \in Jobs : k # j => GivesUp(k)' = GivesUp(k)
    BY <1>10 DEF Ensure, GivesUp
  <2>3. holds' = [holds EXCEPT ![h] = @ + 1]
    BY <1>10 DEF Ensure
  <2>4. SUFFICES ASSUME NEW g \in Hashes
                 PROVE  holds'[g] = Cardinality({k \in Jobs : g \in GivesUp(k)'})
    BY <2>3 DEF HoldsAreCounted
  <2> DEFINE Before == {k \in Jobs : g \in GivesUp(k)}
  <2>5. IsFiniteSet(Before) /\ holds[g] = Cardinality(Before)
    BY FS_Subset DEF HoldsAreCounted
  <2>6. CASE g = h
    <3>1. {k \in Jobs : g \in GivesUp(k)'} = Before \cup {j} /\ j \notin Before
      BY <2>1, <2>2, <2>6
    <3>2. holds'[g] = holds[g] + 1
      BY <2>3, <2>6 DEF HoldsAreCounted
    <3>3. Cardinality(Before \cup {j}) = Cardinality(Before) + 1
      <4> HIDE DEF Before
      <4> QED BY <2>5, <3>1, FS_AddElement
    <3> QED BY <2>5, <3>1, <3>2, <3>3
  <2>7. CASE g # h
    <3>1. {k \in Jobs : g \in GivesUp(k)'} = Before
      BY <2>1, <2>2, <2>7
    <3>2. holds'[g] = holds[g]
      BY <2>3, <2>7 DEF HoldsAreCounted
    <3> QED BY <2>5, <3>1, <3>2
  <2> QED BY <2>6, <2>7
<1>11. ASSUME NEW j \in Jobs, NEW h \in Hashes, Evict(j, h) PROVE HoldsAreCounted'
  <2>1. holds' = holds /\ \A k \in Jobs : GivesUp(k)' = GivesUp(k)
    BY <1>11 DEF Evict, GivesUp
  <2> QED BY <2>1, CountsStay
<1>12. ASSUME NEW j \in Jobs, NEW h \in Hashes, Pass(j, h) PROVE HoldsAreCounted'
  <2>1. holds' = holds /\ \A k \in Jobs : GivesUp(k)' = GivesUp(k)
    BY <1>12 DEF Pass, GivesUp
  <2> QED BY <2>1, CountsStay
<1>13. ASSUME NEW h \in Hashes, Downloaded(h) PROVE HoldsAreCounted'
  <2>1. holds' = holds /\ \A k \in Jobs : GivesUp(k)' = GivesUp(k)
    BY <1>13 DEF Downloaded, Got, GivesUp, WaitingOn
  <2> QED BY <2>1, CountsStay
<1>14. ASSUME NEW h \in Hashes, DownloadFails(h) PROVE HoldsAreCounted'
  <2>1. WaitingOn(h) \in SUBSET Jobs
    BY DEF WaitingOn
  <2> QED BY <1>14, <2>1, CountsDrop DEF DownloadFails, Settle
<1>15. ASSUME Crash PROVE HoldsAreCounted'
  <2>1. \A h \in Hashes : {k \in Jobs : h \in GivesUp(k)'} = {}
    BY <1>15 DEF Crash, GivesUp
  <2> QED BY <1>15, <2>1, FS_EmptySet DEF Crash, HoldsAreCounted
<1>16. CASE UNCHANGED vars
  <2>1. holds' = holds /\ \A k \in Jobs : GivesUp(k)' = GivesUp(k)
    BY <1>16 DEF vars, GivesUp
  <2> QED BY <2>1, CountsStay
<1> QED
  BY <1>1, <1>2, <1>3, <1>4, <1>5, <1>6, <1>7, <1>8, <1>9, <1>10, <1>11, <1>12, <1>13,
     <1>14, <1>15, <1>16
  DEF Next

\* A bundle that changes on disk is in no job's hands.
LEMMA HeldStays ==
  ASSUME CacheTypes, JobsHold, OwnersAreOne, HoldsAreCounted, [Next]_vars,
         NEW j \in Jobs, NEW h \in job[j].held
  PROVE  disk'[h] = disk[h]
<1>1. h \in Hashes /\ h \in Present /\ h \notin removing
  BY DEF CacheTypes, Job, JobsHold
<1>2. CASE \E k \in Jobs, g \in Hashes : Evict(k, g)
  <2>1. PICK k \in Jobs, g \in Hashes : Evict(k, g)
    BY <1>2
  <2>2. g # h
    BY <2>1, UnheldIsFree DEF Evict, GivesUp
  <2> QED BY <1>1, <2>1, <2>2 DEF Evict, CacheTypes
<1>3. CASE \E k \in Jobs : Removed(k)
  <2>1. PICK k \in Jobs : Removed(k)
    BY <1>3
  <2>2. prune[k].target # h
    BY <1>1, <2>1 DEF Removed, OwnersAreOne
  <2> QED BY <1>1, <2>1, <2>2 DEF Removed, CacheTypes
<1>4. CASE \E g \in Hashes : Downloaded(g)
  BY <1>1, <1>4 DEF Downloaded, OwnersAreOne, CacheTypes
<1>5. CASE UNCHANGED disk
  BY <1>5
<1> QED
  BY <1>2, <1>3, <1>4, <1>5
  DEF Next, vars, Start, Look, Touched, RunEnds, TouchFails, List, RemoveFails, PruneEnds, Ensure,
      Pass, DownloadFails, Crash

\* With every job idle, nothing is counted, so a prune passes over nothing but what
\* another one removes.
LEMMA IdleCountsNothing ==
  ASSUME HoldsAreCounted, JobsHold, Settled, NEW h \in Hashes
  PROVE  holds[h] = 0
<1>1. {k \in Jobs : h \in GivesUp(k)} = {}
  BY DEF GivesUp, JobsHold, Settled, IdleJob
<1> QED BY <1>1, FS_EmptySet DEF HoldsAreCounted

\* A job that settles starts a prune that counts what is there, so the last prune to end
\* leaves a cache that fits.
LEMMA CacheFits ==
  ASSUME CacheTypes, JobsHold, OwnersAreOne, HoldsAreCounted, CacheWillFit, [Next]_vars
  PROVE  CacheWillFit'
<1> USE DEF Fits
<1> SUFFICES ASSUME Settled'
             PROVE  Fits'
  BY DEF CacheWillFit
<1>a. /\ Present \in SUBSET Hashes /\ removing \in SUBSET Hashes /\ Cap \in Nat
      /\ \A j \in Jobs : prune[j].entries \in SUBSET Hashes /\ prune[j].total \in Nat
  BY CacheAssumption DEF Present, CacheTypes, Prune
<1>b. ASSUME Settled
      PROVE  Fits
  BY <1>b DEF CacheWillFit
<1>1. ASSUME NEW j \in Jobs, Start(j) \/ Look(j) \/ Touched(j) \/ RunEnds(j) \/ TouchFails(j)
                             \/ RemoveFails(j) \/ \E h \in Hashes : Ensure(j, h)
      PROVE  FALSE
  <2>1. job'[j].phase = "idle" /\ prune'[j].phase # "listing" /\ faults' \cap {"remove", "crash"} = {}
    BY DEF Settled
  <2>2. CASE Start(j)
    BY <2>1, <2>2 DEF Start, CacheTypes, IdleJob
  <2>3. CASE Look(j)
    BY <2>1, <2>3 DEF Look, CacheTypes
  <2>4. CASE Touched(j)
    BY <2>1, <2>4 DEF Touched, Got
  <2>5. CASE RunEnds(j) \/ TouchFails(j)
    BY <2>1, <2>5 DEF RunEnds, TouchFails, Settle, IdlePrune
  <2>6. CASE RemoveFails(j)
    BY <2>1, <2>6 DEF RemoveFails, Fault
  <2>7. CASE \E h \in Hashes : Ensure(j, h)
    BY <2>1, <2>7 DEF Ensure, CacheTypes
  <2> QED BY <1>1, <2>2, <2>3, <2>4, <2>5, <2>6, <2>7
<1>2. ASSUME NEW h \in Hashes, Downloaded(h) \/ DownloadFails(h) PROVE FALSE
  <2>1. PICK j \in Jobs : j \in WaitingOn(h)
    BY <1>2 DEF Downloaded, DownloadFails, OwnersAreOne, WaitingOn
  <2>2. job'[j].phase # "idle" \/ prune'[j].phase = "listing"
    BY <1>2, <2>1 DEF Downloaded, DownloadFails, Settle, Got, IdlePrune
  <2> QED BY <2>2 DEF Settled
<1>3. CASE Crash
  BY <1>3 DEF Crash, Fault, Settled
<1>4. ASSUME NEW j \in Jobs, List(j) PROVE Counts(j)'
  <2>1. /\ prune'[j].phase = "evicting" /\ prune'[j].entries = Present
        /\ prune'[j].total = Cardinality(Present) /\ UNCHANGED <<disk, removing>>
    BY <1>4 DEF CacheTypes, List, IdlePrune
  <2>2. Present' = Present /\ Cardinality(Present) <= Cardinality(Present)
    BY <2>1, <1>a, PresentIsFinite DEF Present
  <2> QED BY <2>1, <2>2 DEF Counts
<1>5. ASSUME NEW j \in Jobs, Removed(j) \/ PruneEnds(j) \/ \E h \in Hashes : Evict(j, h) \/ Pass(j, h)
      PROVE  Settled
  <2>1. UNCHANGED <<job, faults>> /\ prune[j].phase # "listing"
    BY <1>5 DEF Evict, Pass, Removed, PruneEnds
  <2>2. \A k \in Jobs : k # j => prune'[k] = prune[k]
    <3>1. CASE Removed(j)
      BY <3>1 DEF Removed, CacheTypes
    <3>2. CASE PruneEnds(j)
      BY <3>2 DEF PruneEnds
    <3>3. CASE \E h \in Hashes : Evict(j, h)
      BY <3>3, Zenon DEF Evict, CacheTypes
    <3>4. CASE \E h \in Hashes : Pass(j, h)
      BY <3>4 DEF Pass
    <3> QED BY <1>5, <3>1, <3>2, <3>3, <3>4
  <2> QED BY <2>1, <2>2 DEF Settled
<1>6. ASSUME NEW j \in Jobs, NEW h \in Hashes, Evict(j, h)
      PROVE  Fits'
  <2>1. Settled
    BY <1>5, <1>6
  <2>2. Present' = Present /\ removing \subseteq removing'
    BY <1>6 DEF Evict, CacheTypes, Present
  <2>3. \A k \in Jobs : /\ prune'[k].phase = prune[k].phase \/ prune'[k].phase = "removing"
                        /\ prune'[k].entries = prune[k].entries /\ prune'[k].total = prune[k].total
    BY <1>6 DEF Evict, CacheTypes
  <2>4. \A k \in Jobs : Counts(k) => Counts(k)'
    BY <2>2, <2>3 DEF Counts
  <2> QED BY <1>b, <2>1, <2>2, <2>4
<1>7. ASSUME NEW j \in Jobs, NEW h \in Hashes, Pass(j, h)
      PROVE  Fits'
  <2>1. Settled
    BY <1>5, <1>7
  <2>2. h \in removing /\ Present' = Present /\ UNCHANGED removing
    BY <1>7, <2>1, IdleCountsNothing DEF Pass, Present
  <2>3. \A k \in Jobs : /\ prune'[k].phase = prune[k].phase /\ prune'[k].total = prune[k].total
                        /\ prune'[k].entries \in {prune[k].entries, prune[k].entries \ {h}}
    BY <1>7 DEF Pass, CacheTypes
  <2>4. ASSUME NEW k \in Jobs, Counts(k) PROVE Counts(k)'
    <3>1. Present \cup prune'[k].entries \in SUBSET (Present \cup prune[k].entries)
      BY <2>3
    <3>2. Cardinality(Present \cup prune'[k].entries) <= Cardinality(Present \cup prune[k].entries)
      <4>1. Present \cup prune[k].entries \in SUBSET Hashes
        BY <1>a
      <4> QED BY <3>1, <4>1, PresentIsFinite, FS_Subset
    <3>3. /\ Cardinality(Present \cup prune'[k].entries) \in Nat
          /\ Cardinality(Present \cup prune[k].entries) \in Nat
      BY <1>a, <3>1, PresentIsFinite
    <3>4. Cardinality(Present \cup prune'[k].entries) <= prune'[k].total
      BY <1>a, <2>3, <2>4, <3>2, <3>3 DEF Counts
    <3> QED BY <2>2, <2>3, <2>4, <3>4 DEF Counts
  <2> QED BY <1>b, <2>1, <2>2, <2>4
<1>8. ASSUME NEW j \in Jobs, Removed(j)
      PROVE  Fits'
  <2> DEFINE g == prune[j].target
  <2>1. Settled
    BY <1>5, <1>8
  <2>2. g \in removing /\ g \in prune[j].entries /\ prune[j].total > Cap /\ prune[j].phase = "removing"
    BY <1>8 DEF Removed, OwnersAreOne
  <2>3. Present' = Present \ {g} /\ removing' = removing \ {g}
    BY <1>8, <1>a, <2>2 DEF Removed, Present, CacheTypes
  <2>4. /\ \A k \in Jobs : k # j => prune'[k] = prune[k]
        /\ prune'[j].phase = "evicting" /\ prune'[j].entries = prune[j].entries \ {g}
        /\ prune'[j].total = prune[j].total - 1
    BY <1>8 DEF Removed, CacheTypes
  <2>5. ASSUME Cardinality(Present) <= Cap PROVE Cardinality(Present') <= Cap
    <3>1. Cardinality(Present') <= Cardinality(Present)
      BY <1>a, <2>3, PresentIsFinite, FS_Subset
    <3> QED BY <1>a, <2>3, <2>5, <3>1, PresentIsFinite
  <2>6. ASSUME NEW k \in Jobs, Counts(k) PROVE Counts(k)'
    <3> DEFINE listed == Present \cup prune[k].entries
               left == Present' \cup prune'[k].entries
    <3>1. listed \in SUBSET Hashes /\ left \in SUBSET listed
      BY <1>a, <2>3, <2>4
    <3>2. IsFiniteSet(listed) /\ Cardinality(listed) \in Nat /\ Cardinality(left) \in Nat
      BY <3>1, PresentIsFinite
    <3>3. CASE k = j
      <4>1. left = listed \ {g} /\ g \in listed
        BY <2>2, <2>3, <2>4, <3>3
      <4>2. Cardinality(left) = Cardinality(listed) - 1
        <5> HIDE DEF listed, left
        <5> QED BY <3>2, <4>1, FS_RemoveElement
      <4>3. Cardinality(left) <= prune'[k].total
        BY <1>a, <2>4, <2>6, <3>2, <3>3, <4>2 DEF Counts
      <4> QED BY <2>3, <2>4, <2>6, <3>3, <4>3 DEF Counts
    <3>4. CASE k # j
      <4>1. Cardinality(left) <= Cardinality(listed)
        BY <3>1, <3>2, FS_Subset
      <4>2. Cardinality(left) <= prune'[k].total
        BY <1>a, <2>4, <2>6, <3>2, <3>4, <4>1 DEF Counts
      <4> QED BY <2>3, <2>4, <2>6, <3>4, <4>2 DEF Counts
    <3> QED BY <3>3, <3>4
  <2> QED BY <1>b, <2>1, <2>3, <2>5, <2>6
<1>9. ASSUME NEW j \in Jobs, PruneEnds(j)
      PROVE  Fits'
  <2>1. Settled
    BY <1>5, <1>9
  <2>2. Present' = Present /\ UNCHANGED removing /\ \A k \in Jobs : k # j => prune'[k] = prune[k]
    BY <1>9 DEF PruneEnds, Present
  <2>3. ASSUME Counts(j) PROVE Cardinality(Present) <= Cap \/ Present \subseteq removing
    <3>1. CASE prune[j].total <= Cap
      <4> DEFINE listed == Present \cup prune[j].entries
      <4>1. listed \in SUBSET Hashes
        BY <1>a
      <4>2. Cardinality(Present) <= Cardinality(listed)
        BY <4>1, PresentIsFinite, FS_Subset
      <4>3. Cardinality(listed) \in Nat /\ Cardinality(Present) \in Nat
        BY <1>a, <4>1, PresentIsFinite
      <4> QED BY <1>a, <2>3, <3>1, <4>2, <4>3 DEF Counts
    <3>2. CASE prune[j].entries = {}
      BY <2>3, <3>2 DEF Counts
    <3> QED BY <1>9, <3>1, <3>2 DEF PruneEnds
  <2>4. \A k \in Jobs : k # j /\ Counts(k) => Counts(k)'
    BY <2>2 DEF Counts
  <2> QED BY <1>b, <2>1, <2>2, <2>3, <2>4
<1>10. CASE UNCHANGED vars
  BY <1>b, <1>10 DEF vars, Settled, Present, Counts
<1> QED
  BY <1>1, <1>2, <1>3, <1>4, <1>6, <1>7, <1>8, <1>9, <1>10 DEF Next

CacheInv == CacheTypes /\ JobsHold /\ OwnersAreOne /\ HoldsAreCounted /\ CacheWillFit

\* All of it holds of a node that starts with nothing on disk, and is kept.
LEMMA CacheInitial == Init => CacheInv
<1> SUFFICES ASSUME Init PROVE CacheInv
  OBVIOUS
<1>1. CacheTypes
  BY CacheAssumption DEF Init, CacheTypes, Job, Prune, IdleJob, IdlePrune
<1>2. JobsHold /\ OwnersAreOne
  BY DEF Init, JobsHold, OwnersAreOne, IdleJob, IdlePrune
<1>3. HoldsAreCounted
  <2>1. \A h \in Hashes : {k \in Jobs : h \in GivesUp(k)} = {}
    BY DEF Init, GivesUp, IdleJob
  <2> QED BY <2>1, FS_EmptySet DEF Init, HoldsAreCounted
<1>4. CacheWillFit
  <2>1. Present = {}
    BY DEF Init, Present
  <2> QED BY <2>1, FS_EmptySet, CacheAssumption DEF CacheWillFit, Fits
<1> QED BY <1>1, <1>2, <1>3, <1>4 DEF CacheInv

LEMMA CacheSafe == CacheInv /\ [Next]_vars => CacheInv'
  BY CacheTyped, JobsGoOn, OwnersStayOne, HoldsStayCounted, CacheFits DEF CacheInv

-----------------------------------------------------------------------------
(* The worker process and the handle on it (LocalAgent).                  *)

\* Once the exit was seen the process is gone, and so is the rest of its group if it was
\* cancelled.
ExitIsSeen ==
  /\ handle.exited => proc = "dead" /\ handle.gone
  /\ handle.cancelled /\ handle.exited => ~ group

\* A run is open, or has an end, from its start on; a job goes out for a run that started.
StartedOnce ==
  /\ handle.started <=> handle.run # "none"
  /\ handle.pending => handle.started
  /\ \A i \in DOMAIN inbox : inbox[i] = "job" => handle.started
  /\ proc = "running" => handle.started

\* A report closes its pipe, and stays in it until it has ended the run.
ReportIsLast ==
  /\ wrote # "none" => proc \in {"leaving", "dead"} /\ handle.started
  /\ wrote # "none" /\ handle.run = "open" => pipe # << >> /\ pipe[Len(pipe)] \in Agent!Reports

\* The channel is at its end, or the wait for it was given up.
EndIsSeen ==
  /\ handle.drained => (proc = "dead" /\ pipe = << >>) \/ handle.drainTimer = "fired"
  /\ handle.run = "vanished" => handle.exited

AgentInv == ExitIsSeen /\ StartedOnce /\ ReportIsLast /\ EndIsSeen /\ Agent!ReportIsKept

\* The types of the two channels, and of the rest.
ChannelTypes == inbox \in Seq({"job", "cancel"}) /\ pipe \in Seq({"ready"} \cup Agent!Reports)
ProcessTypes ==
  /\ proc \in Agent!Phases /\ wrote \in {"none"} \cup Agent!Reports
  /\ group \in BOOLEAN /\ aborted \in BOOLEAN /\ daemonUp \in BOOLEAN

\* What is read from a channel leaves its last message in place, unless it is that message.
LEMMA LastStays ==
  ASSUME NEW S, NEW q \in Seq(S), q # << >>, Head(q) # q[Len(q)]
  PROVE  Tail(q) # << >> /\ Tail(q)[Len(Tail(q))] = q[Len(q)]
<1>1. Len(q) \in Nat /\ Len(q) > 1 /\ Len(Tail(q)) = Len(q) - 1
  OBVIOUS
<1>2. \A i \in 1..Len(Tail(q)) : Tail(q)[i] = q[i + 1]
  BY <1>1
<1>3. Len(Tail(q)) \in 1..Len(Tail(q)) /\ Len(Tail(q)) + 1 = Len(q)
  BY <1>1
<1>4. Tail(q)[Len(Tail(q))] = q[Len(q)]
  BY <1>2, <1>3
<1>5. Tail(q) # << >>
  <2>1. Len(<< >>) = 0
    OBVIOUS
  <2>2. Len(Tail(q)) # 0
    BY <1>1
  <2> QED BY <2>1, <2>2, Zenon
<1> QED BY <1>4, <1>5

\* What is appended to a channel has its type.
LEMMA AppendType ==
  ASSUME NEW S, NEW q \in Seq(S), NEW m \in S
  PROVE  Append(q, m) \in Seq(S)
  OBVIOUS

\* What the handle's events write into its record is of its type.
LEMMA HandleWrites ==
  ASSUME NEW h \in Agent!HandleState
  PROVE  /\ [h EXCEPT !.started = TRUE] \in Agent!HandleState
         /\ [h EXCEPT !.ready = TRUE] \in Agent!HandleState
         /\ [h EXCEPT !.ready = TRUE, !.pending = FALSE] \in Agent!HandleState
         /\ [h EXCEPT !.rung = "none"] \in Agent!HandleState
         /\ [h EXCEPT !.rung = "kill"] \in Agent!HandleState
         /\ [h EXCEPT !.gone = TRUE, !.rung = "none"] \in Agent!HandleState
         /\ [h EXCEPT !.gone = TRUE, !.rung = "none", !.exited = TRUE] \in Agent!HandleState
         /\ [h EXCEPT !.drainTimer = "armed"] \in Agent!HandleState
         /\ [h EXCEPT !.drained = TRUE] \in Agent!HandleState
         /\ [h EXCEPT !.drainTimer = "fired", !.drained = TRUE] \in Agent!HandleState
         /\ [h EXCEPT !.cancelled = TRUE, !.pending = FALSE, !.rung = "grace"] \in Agent!HandleState
<1>1. [h EXCEPT !.started = TRUE] \in Agent!HandleState
  BY DEF Agent!HandleState, Agent!Rungs
<1>2. [h EXCEPT !.ready = TRUE] \in Agent!HandleState
  BY DEF Agent!HandleState, Agent!Rungs
<1>3. [h EXCEPT !.ready = TRUE, !.pending = FALSE] \in Agent!HandleState
  BY DEF Agent!HandleState, Agent!Rungs
<1>4. [h EXCEPT !.rung = "none"] \in Agent!HandleState
  BY DEF Agent!HandleState, Agent!Rungs
<1>5. [h EXCEPT !.rung = "kill"] \in Agent!HandleState
  BY DEF Agent!HandleState, Agent!Rungs
<1>6. [h EXCEPT !.gone = TRUE, !.rung = "none"] \in Agent!HandleState
  BY DEF Agent!HandleState, Agent!Rungs
<1>7. [h EXCEPT !.gone = TRUE, !.rung = "none", !.exited = TRUE] \in Agent!HandleState
  BY DEF Agent!HandleState, Agent!Rungs
<1>8. [h EXCEPT !.drainTimer = "armed"] \in Agent!HandleState
  BY DEF Agent!HandleState, Agent!Rungs
<1>9. [h EXCEPT !.drained = TRUE] \in Agent!HandleState
  BY DEF Agent!HandleState, Agent!Rungs
<1>10. [h EXCEPT !.drainTimer = "fired", !.drained = TRUE] \in Agent!HandleState
  BY DEF Agent!HandleState, Agent!Rungs
<1>11. [h EXCEPT !.cancelled = TRUE, !.pending = FALSE, !.rung = "grace"] \in Agent!HandleState
  BY DEF Agent!HandleState, Agent!Rungs
<1> QED BY <1>1, <1>2, <1>3, <1>4, <1>5, <1>6, <1>7, <1>8, <1>9, <1>10, <1>11

\* So is a run that opens, and one that ends.
LEMMA RunWrites ==
  ASSUME NEW h \in Agent!HandleState, NEW r \in {"open"} \cup Agent!Reports \cup Agent!Failures
  PROVE  /\ [h EXCEPT !.run = r] \in Agent!HandleState
         /\ [h EXCEPT !.run = r, !.pending = TRUE] \in Agent!HandleState
         /\ Agent!Finish(h, r) \in Agent!HandleState
<1>1. [h EXCEPT !.run = r] \in Agent!HandleState
  BY DEF Agent!HandleState
<1>2. [h EXCEPT !.run = r, !.pending = TRUE] \in Agent!HandleState
  BY DEF Agent!HandleState
<1>3. [h EXCEPT !.run = r, !.drainTimer = IF h.drainTimer = "armed" THEN "none" ELSE h.drainTimer]
        \in Agent!HandleState
  BY DEF Agent!HandleState
<1>4. Agent!Finish(h, r) \in Agent!HandleState
  BY <1>3 DEF Agent!Finish
<1> QED BY <1>1, <1>2, <1>4

\* So is one that the end of its channel ends.
LEMMA DrainWrites ==
  ASSUME NEW h \in Agent!HandleState
  PROVE  Agent!DrainThenSettle(h) \in Agent!HandleState
  BY RunWrites DEF Agent!DrainThenSettle, Agent!Failures

USE DEF Agent!Phases, Agent!HandleState, Agent!Rungs, Agent!Reports, Agent!Failures

\* A worker begins in the invariant.
LEMMA AgentInitial == Agent!AgentInit => Agent!AgentTypeOK /\ AgentInv
<1> SUFFICES ASSUME Agent!AgentInit PROVE Agent!AgentTypeOK /\ AgentInv
  OBVIOUS
<1>1. Agent!AgentTypeOK
  <2>1. inbox = << >> /\ pipe = << >> /\ ProcessTypes
    BY DEF Agent!AgentInit, ProcessTypes
  <2>2. handle \in Agent!HandleState
    BY DEF Agent!AgentInit
  <2>3. ChannelTypes
    BY <2>1 DEF ChannelTypes
  <2> QED BY <2>1, <2>2, <2>3 DEF Agent!AgentTypeOK, ChannelTypes, ProcessTypes
<1>2. AgentInv
  BY DEF Agent!AgentInit, AgentInv, ExitIsSeen, StartedOnce, ReportIsLast, EndIsSeen, Agent!ReportIsKept
<1> QED BY <1>1, <1>2

\* Every step of a worker and its handle keeps the types.
LEMMA AgentTypes == Agent!AgentTypeOK /\ [Agent!AgentNext]_Agent!avars => Agent!AgentTypeOK'
<1> SUFFICES ASSUME Agent!AgentTypeOK, [Agent!AgentNext]_Agent!avars PROVE Agent!AgentTypeOK'
  OBVIOUS
<1> USE DEF Agent!Alive, Agent!SendAndExit, Agent!Post, Agent!Finish, Agent!DrainThenSettle, Agent!AgentTypeOK
<1>1. CASE Agent!ChildStarts
  BY <1>1 DEF Agent!ChildStarts
<1>2. CASE Agent!ChildSpeaksAnotherProtocol
  BY <1>2 DEF Agent!ChildSpeaksAnotherProtocol
<1>3. CASE Agent!ChildReads
  <2>1. ChannelTypes'
    BY <1>3 DEF Agent!ChildReads, ChannelTypes
  <2>2. handle' \in Agent!HandleState
    BY <1>3 DEF Agent!ChildReads
  <2>3. ProcessTypes'
    BY <1>3 DEF Agent!ChildReads, ProcessTypes
  <2> QED BY <2>1, <2>2, <2>3 DEF ChannelTypes, ProcessTypes
<1>4. CASE Agent!ChildReports
  BY <1>4 DEF Agent!ChildReports
<1>5. CASE Agent!ChildLeaves
  BY <1>5 DEF Agent!ChildLeaves
<1>6. CASE Agent!ChildCrashes
  BY <1>6 DEF Agent!ChildCrashes
<1>7. CASE Agent!PluginSpawns
  BY <1>7 DEF Agent!PluginSpawns
<1>8. CASE Agent!PluginChildEnds
  <2>1. ChannelTypes'
    BY <1>8 DEF Agent!PluginChildEnds, ChannelTypes
  <2>2. handle' \in Agent!HandleState
    BY <1>8 DEF Agent!PluginChildEnds
  <2>3. ProcessTypes'
    BY <1>8 DEF Agent!PluginChildEnds, ProcessTypes
  <2> QED BY <2>1, <2>2, <2>3 DEF ChannelTypes, ProcessTypes
<1>9. CASE Agent!DaemonDies
  <2>1. ChannelTypes'
    BY <1>9 DEF Agent!DaemonDies, ChannelTypes
  <2>2. handle' \in Agent!HandleState
    BY <1>9 DEF Agent!DaemonDies
  <2>3. ProcessTypes'
    BY <1>9 DEF Agent!DaemonDies, ProcessTypes
  <2> QED BY <2>1, <2>2, <2>3 DEF ChannelTypes, ProcessTypes
<1>10. CASE Agent!ChildLosesDaemon
  BY <1>10 DEF Agent!ChildLosesDaemon
<1>11. CASE Agent!Run
  <2>1. ChannelTypes'
    BY <1>11 DEF Agent!Run, ChannelTypes
  <2>2. handle' \in Agent!HandleState
    <3> HIDE DEF Agent!HandleState
    <3> DEFINE h == [handle EXCEPT !.started = TRUE]
    <3>1. h \in Agent!HandleState
      BY HandleWrites
    <3>2. \/ handle' = [h EXCEPT !.run = "not_given"] \/ handle' = [h EXCEPT !.run = "open"]
          \/ handle' = [h EXCEPT !.run = "open", !.pending = TRUE]
      BY <1>11 DEF Agent!Run
    <3>3. {"not_given", "open"} \subseteq {"open"} \cup Agent!Reports \cup Agent!Failures
      OBVIOUS
    <3> HIDE DEF h, Agent!Reports, Agent!Failures
    <3> QED BY <3>1, <3>2, <3>3, RunWrites
  <2>3. ProcessTypes'
    BY <1>11 DEF Agent!Run, ProcessTypes
  <2> QED BY <2>1, <2>2, <2>3 DEF ChannelTypes, ProcessTypes
<1>12. CASE Agent!HandleReads
  <2>1. ChannelTypes'
    <3>1. pipe' \in Seq({"ready"} \cup Agent!Reports)
      BY <1>12 DEF Agent!HandleReads
    <3>2. inbox' \in Seq({"job", "cancel"})
      <4>1. CASE Agent!HearReady
        <5>1. inbox' \in {inbox, Append(inbox, "job"), Append(inbox, "cancel")}
          BY <4>1 DEF Agent!HearReady
        <5>2. inbox \in Seq({"job", "cancel"})
          OBVIOUS
        <5>3. \A m \in {"job", "cancel"} : Append(inbox, m) \in Seq({"job", "cancel"})
          BY <5>2, AppendType
        <5> QED BY <5>1, <5>2, <5>3
      <4>2. CASE Agent!HearReport
        BY <4>2 DEF Agent!HearReport
      <4> QED BY <1>12, <4>1, <4>2 DEF Agent!HandleReads
    <3> QED BY <3>1, <3>2 DEF ChannelTypes
  <2>2. handle' \in Agent!HandleState
    <3> HIDE DEF Agent!HandleState, Agent!Finish, Agent!Reports
    <3>1. CASE Agent!HearReady
      <4>1. handle' \in {[handle EXCEPT !.ready = TRUE], [handle EXCEPT !.ready = TRUE, !.pending = FALSE]}
        BY <3>1 DEF Agent!HearReady
      <4> QED BY <4>1, HandleWrites
    <3>2. CASE Agent!HearReport
      <4> DEFINE h == [handle EXCEPT !.rung = "none"]
      <4>1. h \in Agent!HandleState
        BY HandleWrites
      <4>2. handle' = Agent!Finish(h, Head(pipe)) /\ Head(pipe) \in Agent!Reports
        BY <3>2 DEF Agent!HearReport
      <4> HIDE DEF h
      <4> QED BY <4>1, <4>2, RunWrites
    <3> QED BY <1>12, <3>1, <3>2 DEF Agent!HandleReads
  <2>3. ProcessTypes'
    BY <1>12 DEF Agent!HandleReads, Agent!HearReady, Agent!HearReport, ProcessTypes
  <2> QED BY <2>1, <2>2, <2>3 DEF ChannelTypes, ProcessTypes
<1>13. CASE Agent!SeeDisconnect
  <2>1. ChannelTypes'
    BY <1>13 DEF Agent!SeeDisconnect, ChannelTypes
  <2>2. handle' \in Agent!HandleState
    <3> HIDE DEF Agent!HandleState, Agent!DrainThenSettle
    <3>1. handle' = Agent!DrainThenSettle([handle EXCEPT !.drained = TRUE])
      BY <1>13 DEF Agent!SeeDisconnect
    <3> QED BY <3>1, HandleWrites, DrainWrites
  <2>3. ProcessTypes'
    BY <1>13 DEF Agent!SeeDisconnect, ProcessTypes
  <2> QED BY <2>1, <2>2, <2>3 DEF ChannelTypes, ProcessTypes
<1>14. CASE Agent!SeeExit
  <2>1. ChannelTypes'
    BY <1>14 DEF Agent!SeeExit, ChannelTypes
  <2>2. handle' \in Agent!HandleState
    <3> HIDE DEF Agent!HandleState, Agent!DrainThenSettle
    <3> DEFINE h == [handle EXCEPT !.gone = TRUE, !.rung = "none", !.exited = TRUE]
    <3>1. h \in Agent!HandleState
      BY HandleWrites
    <3>2. \/ handle' = h \/ handle' = Agent!DrainThenSettle(h)
          \/ handle' = Agent!DrainThenSettle([h EXCEPT !.drainTimer = "armed"])
      BY <1>14 DEF Agent!SeeExit
    <3> HIDE DEF h
    <3> QED BY <3>1, <3>2, HandleWrites, DrainWrites
  <2>3. ProcessTypes'
    BY <1>14 DEF Agent!SeeExit, ProcessTypes
  <2> QED BY <2>1, <2>2, <2>3 DEF ChannelTypes, ProcessTypes
<1>15. CASE Agent!DrainTimerFires
  <2>1. ChannelTypes'
    BY <1>15 DEF Agent!DrainTimerFires, ChannelTypes
  <2>2. handle' \in Agent!HandleState
    <3> HIDE DEF Agent!HandleState, Agent!DrainThenSettle
    <3>1. handle' = Agent!DrainThenSettle([handle EXCEPT !.drainTimer = "fired", !.drained = TRUE])
      BY <1>15 DEF Agent!DrainTimerFires
    <3> QED BY <3>1, HandleWrites, DrainWrites
  <2>3. ProcessTypes'
    BY <1>15 DEF Agent!DrainTimerFires, ProcessTypes
  <2> QED BY <2>1, <2>2, <2>3 DEF ChannelTypes, ProcessTypes
<1>16. CASE Agent!ForkFails
  <2>1. ChannelTypes'
    BY <1>16 DEF Agent!ForkFails, ChannelTypes
  <2>2. handle' \in Agent!HandleState
    <3> HIDE DEF Agent!HandleState, Agent!Finish
    <3>1. handle' = Agent!Finish([handle EXCEPT !.gone = TRUE, !.rung = "none"], "not_run")
      BY <1>16 DEF Agent!ForkFails
    <3> QED BY <3>1, HandleWrites, RunWrites
  <2>3. ProcessTypes'
    BY <1>16 DEF Agent!ForkFails, ProcessTypes
  <2> QED BY <2>1, <2>2, <2>3 DEF ChannelTypes, ProcessTypes
<1>17. CASE Agent!Cancel
  <2>1. ChannelTypes'
    BY <1>17 DEF Agent!Cancel, ChannelTypes
  <2>2. handle' \in Agent!HandleState
    BY <1>17 DEF Agent!Cancel
  <2>3. ProcessTypes'
    BY <1>17 DEF Agent!Cancel, ProcessTypes
  <2> QED BY <2>1, <2>2, <2>3 DEF ChannelTypes, ProcessTypes
<1>18. CASE Agent!GraceExpires
  BY <1>18 DEF Agent!GraceExpires
<1>19. CASE Agent!KillGraceExpires
  BY <1>19 DEF Agent!KillGraceExpires
<1>20. CASE UNCHANGED Agent!avars
  BY <1>20 DEF Agent!avars
<1> QED
  BY <1>1, <1>2, <1>3, <1>4, <1>5, <1>6, <1>7, <1>8, <1>9, <1>10,
     <1>11, <1>12, <1>13, <1>14, <1>15, <1>16, <1>17, <1>18, <1>19, <1>20
  DEF Agent!AgentNext

\* Every step keeps the invariant: what the handle reads, and when, is the case in point.
LEMMA AgentSafe ==
  Agent!AgentTypeOK /\ AgentInv /\ [Agent!AgentNext]_Agent!avars => AgentInv'
<1> SUFFICES ASSUME Agent!AgentTypeOK, AgentInv, [Agent!AgentNext]_Agent!avars PROVE AgentInv'
  OBVIOUS
<1> USE DEF Agent!Alive, Agent!SendAndExit, Agent!Post, Agent!Finish, Agent!DrainThenSettle,
        Agent!AgentTypeOK, AgentInv, ExitIsSeen, StartedOnce, ReportIsLast, EndIsSeen, Agent!ReportIsKept
<1>1. CASE Agent!ChildStarts
  BY <1>1 DEF Agent!ChildStarts
<1>2. CASE Agent!ChildSpeaksAnotherProtocol
  BY <1>2 DEF Agent!ChildSpeaksAnotherProtocol
<1>3. CASE Agent!ChildReads
  BY <1>3 DEF Agent!ChildReads
<1>4. CASE Agent!ChildReports
  BY <1>4 DEF Agent!ChildReports
<1>5. CASE Agent!ChildLeaves
  BY <1>5 DEF Agent!ChildLeaves
<1>6. CASE Agent!ChildCrashes
  BY <1>6 DEF Agent!ChildCrashes
<1>7. CASE Agent!PluginSpawns
  BY <1>7 DEF Agent!PluginSpawns
<1>8. CASE Agent!PluginChildEnds
  BY <1>8 DEF Agent!PluginChildEnds
<1>9. CASE Agent!DaemonDies
  BY <1>9 DEF Agent!DaemonDies
<1>10. CASE Agent!ChildLosesDaemon
  BY <1>10 DEF Agent!ChildLosesDaemon
<1>11. CASE Agent!Run
  BY <1>11 DEF Agent!Run
<1>12. CASE Agent!HandleReads
  <2>1. ExitIsSeen'
    BY <1>12 DEF Agent!HandleReads, Agent!HearReady, Agent!HearReport
  <2>2. StartedOnce'
    <3>1. CASE Agent!HearReady
      <4>1. \/ inbox' \in {inbox, Append(inbox, "cancel")}
            \/ inbox' = Append(inbox, "job") /\ handle.pending
        BY <1>12, <3>1 DEF Agent!HandleReads, Agent!HearReady
      <4>2. /\ proc' = proc /\ handle'.started = handle.started /\ handle'.run = handle.run
            /\ handle'.pending => handle.pending
        BY <1>12, <3>1 DEF Agent!HandleReads, Agent!HearReady
      <4> QED BY <4>1, <4>2
    <3>2. CASE Agent!HearReport
      BY <1>12, <3>2 DEF Agent!HandleReads, Agent!HearReport
    <3> QED BY <1>12, <3>1, <3>2 DEF Agent!HandleReads
  <2>3. ReportIsLast'
    <3>1. CASE Agent!HearReady
      <4>1. /\ proc' = proc /\ wrote' = wrote
            /\ handle'.started = handle.started /\ handle'.run = handle.run
        BY <1>12, <3>1 DEF Agent!HandleReads, Agent!HearReady
      <4>2. pipe # << >> /\ Head(pipe) = "ready" /\ pipe' = Tail(pipe)
        BY <1>12, <3>1 DEF Agent!HandleReads, Agent!HearReady
      <4>3. ASSUME wrote' # "none", handle'.run = "open"
            PROVE  pipe' # << >> /\ pipe'[Len(pipe')] \in Agent!Reports
        <5>1. pipe[Len(pipe)] \in Agent!Reports
          BY <4>1, <4>3
        <5> QED BY <4>2, <5>1, LastStays
      <4>4. wrote' # "none" => proc' \in {"leaving", "dead"} /\ handle'.started
        BY <4>1
      <4> QED BY <4>3, <4>4
    <3>2. CASE Agent!HearReport
      BY <1>12, <3>2 DEF Agent!HandleReads, Agent!HearReport
    <3> QED BY <1>12, <3>1, <3>2 DEF Agent!HandleReads
  <2>4. (EndIsSeen /\ Agent!ReportIsKept)'
    BY <1>12 DEF Agent!HandleReads, Agent!HearReady, Agent!HearReport
  <2> QED BY <2>1, <2>2, <2>3, <2>4
<1>13. CASE Agent!SeeDisconnect
  BY <1>13 DEF Agent!SeeDisconnect
<1>14. CASE Agent!SeeExit
  BY <1>14 DEF Agent!SeeExit
<1>15. CASE Agent!DrainTimerFires
  BY <1>15 DEF Agent!DrainTimerFires
<1>16. CASE Agent!ForkFails
  BY <1>16 DEF Agent!ForkFails
<1>17. CASE Agent!Cancel
  BY <1>17 DEF Agent!Cancel
<1>18. CASE Agent!GraceExpires
  <2>1. ExitIsSeen'
    <3>1. handle'.exited => proc' = "dead" /\ handle'.gone
      BY <1>18 DEF Agent!GraceExpires
    <3>2. handle'.cancelled /\ handle'.exited => ~ group'
      BY <1>18 DEF Agent!GraceExpires
    <3> QED BY <3>1, <3>2
  <2>2. StartedOnce'
    BY <1>18 DEF Agent!GraceExpires
  <2>3. ReportIsLast'
    BY <1>18 DEF Agent!GraceExpires
  <2>4. (EndIsSeen /\ Agent!ReportIsKept)'
    BY <1>18 DEF Agent!GraceExpires
  <2> QED BY <2>1, <2>2, <2>3, <2>4
<1>19. CASE Agent!KillGraceExpires
  BY <1>19 DEF Agent!KillGraceExpires
<1>20. CASE UNCHANGED Agent!avars
  BY <1>20 DEF Agent!avars
<1> QED
  BY <1>1, <1>2, <1>3, <1>4, <1>5, <1>6, <1>7, <1>8, <1>9, <1>10,
     <1>11, <1>12, <1>13, <1>14, <1>15, <1>16, <1>17, <1>18, <1>19, <1>20
  DEF Agent!AgentNext

\* A run that ended has ended, and no job is sent to a worker once it was cancelled.
LEMMA AgentSteps ==
  ASSUME Agent!AgentTypeOK, StartedOnce, [Agent!AgentNext]_Agent!avars
  PROVE  /\ handle.run \notin {"none", "open"} => handle'.run = handle.run
         /\ handle.cancelled /\ Len(inbox') > Len(inbox) => inbox'[Len(inbox')] # "job"
<1> USE DEF Agent!Alive, Agent!SendAndExit, Agent!Post, Agent!Finish, Agent!DrainThenSettle,
        Agent!AgentTypeOK
<1>1. CASE Agent!ChildStarts
  BY <1>1 DEF Agent!ChildStarts
<1>2. CASE Agent!ChildSpeaksAnotherProtocol
  BY <1>2 DEF Agent!ChildSpeaksAnotherProtocol
<1>3. CASE Agent!ChildReads
  BY <1>3 DEF Agent!ChildReads
<1>4. CASE Agent!ChildReports
  BY <1>4 DEF Agent!ChildReports
<1>5. CASE Agent!ChildLeaves
  BY <1>5 DEF Agent!ChildLeaves
<1>6. CASE Agent!ChildCrashes
  BY <1>6 DEF Agent!ChildCrashes
<1>7. CASE Agent!PluginSpawns
  BY <1>7 DEF Agent!PluginSpawns
<1>8. CASE Agent!PluginChildEnds
  BY <1>8 DEF Agent!PluginChildEnds
<1>9. CASE Agent!DaemonDies
  BY <1>9 DEF Agent!DaemonDies
<1>10. CASE Agent!ChildLosesDaemon
  BY <1>10 DEF Agent!ChildLosesDaemon
<1>11. CASE Agent!Run
  <2>1. handle.run = "none"
    BY <1>11 DEF Agent!Run, StartedOnce
  <2>2. handle.cancelled => inbox' = inbox
    BY <1>11 DEF Agent!Run
  <2> QED BY <2>1, <2>2
<1>12. CASE Agent!HandleReads
  <2>1. handle.run \notin {"none", "open"} => handle'.run = handle.run
    BY <1>12 DEF Agent!HandleReads, Agent!HearReady, Agent!HearReport
  <2>2. handle.cancelled => inbox' \in {inbox, Append(inbox, "cancel")}
    BY <1>12 DEF Agent!HandleReads, Agent!HearReady, Agent!HearReport
  <2>3. inbox \in Seq({"job", "cancel"})
    OBVIOUS
  <2> QED BY <2>1, <2>2, <2>3
<1>13. CASE Agent!SeeDisconnect
  BY <1>13 DEF Agent!SeeDisconnect
<1>14. CASE Agent!SeeExit
  BY <1>14 DEF Agent!SeeExit
<1>15. CASE Agent!DrainTimerFires
  BY <1>15 DEF Agent!DrainTimerFires
<1>16. CASE Agent!ForkFails
  BY <1>16 DEF Agent!ForkFails
<1>17. CASE Agent!Cancel
  BY <1>17 DEF Agent!Cancel
<1>18. CASE Agent!GraceExpires
  BY <1>18 DEF Agent!GraceExpires
<1>19. CASE Agent!KillGraceExpires
  BY <1>19 DEF Agent!KillGraceExpires
<1>20. CASE UNCHANGED Agent!avars
  BY <1>20 DEF Agent!avars
<1> QED
  BY <1>1, <1>2, <1>3, <1>4, <1>5, <1>6, <1>7, <1>8, <1>9, <1>10,
     <1>11, <1>12, <1>13, <1>14, <1>15, <1>16, <1>17, <1>18, <1>19, <1>20
  DEF Agent!AgentNext

-----------------------------------------------------------------------------
(* The run of a flow (RunFlow).                                             *)

\* What a replacement installed is in the record of the run.
InstalledIsRecorded ==
  /\ installed => \E i \in DOMAIN replaces : replaces[i] = library
  /\ steps = 0 => ~ installed

\* A failure nobody has dealt with is on its way to a handler, or is what the flow ends with.
OpenIsSeen ==
  open /\ ended.kind \in {"walking", "stopped"} =>
    \/ errorVars = "failure"
    \/ ended.kind = "walking" /\ at # 0 /\ Flow!IsHandler(flow.kind[at])
    \/ ended.kind = "stopped" /\ (ended.stop # "end-of-flow" \/ last.outcome = "failure")

\* A refusal ends the walk in its own step, and nothing is a success before it is reported.
EndIsTold ==
  /\ gate # "granted" => ended.kind # "walking"
  /\ ended.success => ended.kind = "reported"

RunInv == InstalledIsRecorded /\ OpenIsSeen /\ EndIsTold /\ ReportIsTrue


\* The nodes of a flow are numbered from one and have a kind each.
LEMMA NodesHaveKinds ==
  ASSUME Flow!RunTypeOK
  PROVE  0 \notin Flow!Nodes(flow) /\ \A n \in Flow!Nodes(flow) : flow.kind[n] \in Flow!Kinds
<1>1. flow.kind \in Seq(Flow!Kinds)
  BY FlowAssumption DEF Flow!RunTypeOK, Flow!Kinds
<1> QED BY <1>1 DEF Flow!Nodes

\* A failure goes on at a handler, or ends the walk.
LEMMA FailureRoutes ==
  ASSUME Flow!RunTypeOK, NEW node, NEW stop, Flow!RouteFailure(node, stop)
  PROVE  /\ handlerUsed' \in BOOLEAN
         /\ \/ /\ ended' = ended
               /\ at' \in Flow!Nodes(flow) /\ at' # 0 /\ Flow!IsHandler(flow.kind[at'])
            \/ at' = 0 /\ ended' = Flow!Report("stopped", stop, FALSE, "none")
  BY NodesHaveKinds DEF Flow!RunTypeOK, Flow!RouteFailure, Flow!Handlers, Flow!Stop

\* A step goes on along an edge, or ends the walk where the flow has none or no node at its
\* end; a declared failure without an edge is routed.
LEMMA EdgesAreFollowed ==
  ASSUME Flow!RunTypeOK, NEW node, NEW out, NEW outcome, Flow!Follow(node, out, outcome)
  PROVE  /\ handlerUsed' \in BOOLEAN
         /\ \/ /\ ended' = ended /\ at' \in Flow!Nodes(flow) /\ at' # 0
               /\ Flow!Wired(node, out) \/ Flow!IsHandler(flow.kind[at'])
            \/ /\ at' = 0 /\ ended' = Flow!Report("stopped", "missing-node", FALSE, "none")
               /\ Flow!Wired(node, out)
               /\ \E e \in flow.edges : e[3] \notin Flow!Nodes(flow)
            \/ /\ at' = 0 /\ ended' = Flow!Report("stopped", "end-of-flow", FALSE, "none")
               /\ ~ Flow!Wired(node, out)
<1> DEFINE targets == {e[3] : e \in {d \in flow.edges : d[1] = node /\ d[2] = out}}
<1>1. CASE targets # {}
  <2>1. Flow!Wired(node, out)
    BY <1>1 DEF Flow!Wired
  <2>2. /\ UNCHANGED handlerUsed
        /\ \E to \in targets : IF to \in Flow!Nodes(flow) THEN at' = to /\ UNCHANGED ended
                                                         ELSE Flow!Stop("missing-node")
    BY <1>1 DEF Flow!Follow
  <2>3. PICK to \in targets : IF to \in Flow!Nodes(flow) THEN at' = to /\ UNCHANGED ended
                                                        ELSE Flow!Stop("missing-node")
    BY <2>2
  <2>4. \E e \in flow.edges : e[3] = to
    OBVIOUS
  <2>5. handlerUsed' \in BOOLEAN
    BY <2>2 DEF Flow!RunTypeOK
  <2>6. CASE to \in Flow!Nodes(flow)
    BY <2>1, <2>3, <2>5, <2>6, NodesHaveKinds
  <2>7. CASE to \notin Flow!Nodes(flow)
    BY <2>1, <2>3, <2>4, <2>5, <2>7 DEF Flow!Stop
  <2> QED BY <2>6, <2>7
<1>2. CASE targets = {}
  <2>1. ~ Flow!Wired(node, out)
    BY <1>2 DEF Flow!Wired
  <2>2. CASE outcome = "failure"
    BY <1>2, <2>1, <2>2, FailureRoutes DEF Flow!Follow
  <2>3. CASE outcome # "failure"
    BY <1>2, <2>1, <2>3 DEF Flow!Follow, Flow!Stop, Flow!RunTypeOK
  <2> QED BY <2>2, <2>3
<1> QED BY <1>1, <1>2

USE DEF Flow!Kinds, Flow!Nodes, Flow!Paths, Flow!Stops, Flow!Report

\* A run begins in the invariant.
LEMMA RunInitial == Flow!RunInit => Flow!RunTypeOK /\ RunInv
<1> SUFFICES ASSUME Flow!RunInit PROVE Flow!RunTypeOK /\ RunInv
  OBVIOUS
<1>1. Flow!RunTypeOK
  <2>1. flow.kind \in Casts /\ flow.edges \in Wirings
    BY DEF Flow!RunInit
  <2>2. replaces = << >> /\ at = 0 /\ steps = 0 /\ last = Flow!NoStep /\ ended = Flow!Walking
    BY DEF Flow!RunInit
  <2>3. last \in [node : Flow!Nodes(flow) \cup {0}, out : 0..2, outcome : {"none", "failure"}, error : BOOLEAN]
    BY <2>2 DEF Flow!NoStep
  <2>4. replaces \in Seq(Flow!Paths)
    BY <2>2
  <2>5. ended = Flow!Report("walking", "none", FALSE, "none")
    BY <2>2 DEF Flow!Walking
  <2>6. /\ mode \in {"real", "dry"} /\ errorVars \in {"none", "failure", "success"}
        /\ gate \in {"granted", "refused", "unanswered"} /\ library \in Flow!Paths
        /\ handlerUsed \in BOOLEAN /\ installed \in BOOLEAN /\ open \in BOOLEAN /\ touched \in BOOLEAN
    BY DEF Flow!RunInit
  <2> QED BY FlowAssumption, <2>1, <2>2, <2>3, <2>4, <2>5, <2>6 DEF Flow!RunTypeOK
<1>2. RunInv
  BY DEF Flow!RunInit, RunInv, InstalledIsRecorded, OpenIsSeen, EndIsTold, ReportIsTrue, Flow!Walking,
     Flow!ReplacedIsReported, Flow!SuccessIsEarned, Flow!DryRunTouchesNothing, Flow!AcceptedFlowsRun
<1> QED BY <1>1, <1>2
USE DEF Flow!Stop, Flow!Record, Flow!InBudget, Flow!Calls, Flow!Abort, Flow!Asks, Flow!Loads,
        Flow!IsHandler, Flow!IsReview, Flow!IsStart, Flow!Unknown, Flow!Controlled, Flow!Walking, Flow!NoStep
\* The types of a run, in groups; an end of a walk is of the type of ended.
GivenTypes ==
  /\ flow.kind \in Casts /\ flow.edges \in Wirings /\ mode \in {"real", "dry"}
  /\ gate \in {"granted", "refused", "unanswered"} /\ library \in Flow!Paths
PlaceTypes == at \in Flow!Nodes(flow) \cup {0} /\ steps \in 0..MaxSteps
LastTypes ==
  last \in [node : Flow!Nodes(flow) \cup {0}, out : 0..2, outcome : {"none", "failure"},
            error : BOOLEAN]
FlagTypes ==
  /\ errorVars \in {"none", "failure", "success"}
  /\ handlerUsed \in BOOLEAN /\ installed \in BOOLEAN /\ open \in BOOLEAN /\ touched \in BOOLEAN
EndTyped(end) ==
  /\ end.kind \in {"walking", "stopped", "aborted", "reported", "rejected"}
  /\ end.stop \in Flow!Stops \cup {"none"} /\ end.success \in BOOLEAN
  /\ end.replaced \in Flow!Paths \cup {"none"}

\* A walk that stops for a reason of its own has an end of that type.
LEMMA StoppedIsTyped ==
  ASSUME Flow!RunTypeOK,
         \/ ended' = ended
         \/ \E stop \in Flow!Stops : ended' = Flow!Report("stopped", stop, FALSE, "none")
  PROVE  EndTyped(ended')
<1>1. CASE ended' = ended
  BY <1>1 DEF Flow!RunTypeOK, EndTyped
<1>2. CASE ended' # ended
  <2>1. PICK stop \in Flow!Stops : ended' = Flow!Report("stopped", stop, FALSE, "none")
    BY <1>2
  <2>2. /\ ended'.kind = "stopped" /\ ended'.stop = stop /\ ended'.success = FALSE
        /\ ended'.replaced = "none"
    BY <2>1
  <2> QED BY <2>2 DEF EndTyped
<1> QED BY <1>1, <1>2

\* What Replace returns is a path.
LEMMA AppendPaths ==
  ASSUME NEW paths \in Seq(Flow!Paths), NEW path \in Flow!Paths
  PROVE  Append(paths, path) \in Seq(Flow!Paths)
  OBVIOUS

\* Every step of a run keeps the types.
LEMMA RunTypes == Flow!RunTypeOK /\ [Flow!RunNext]_Flow!rvars => Flow!RunTypeOK'
<1> SUFFICES ASSUME Flow!RunTypeOK, [Flow!RunNext]_Flow!rvars PROVE Flow!RunTypeOK'
  OBVIOUS
<1> USE FlowAssumption, NodesHaveKinds DEF Flow!RunTypeOK, GivenTypes, PlaceTypes, LastTypes, FlagTypes
<1>1. CASE Flow!Start
  <2>1. GivenTypes'
    BY <1>1 DEF Flow!Start
  <2>2. PlaceTypes'
    BY <1>1 DEF Flow!Start
  <2>3. LastTypes'
    BY <1>1 DEF Flow!Start
  <2>4. FlagTypes'
    BY <1>1 DEF Flow!Start
  <2>5. (replaces \in Seq(Flow!Paths))'
    BY <1>1 DEF Flow!Start
  <2>6. EndTyped(ended')
    <3>1. ended' = ended \/ ended' = Flow!Report("stopped", "no-start-node", FALSE, "none")
      BY <1>1 DEF Flow!Start
    <3> QED BY <3>1, StoppedIsTyped
  <2> QED BY <2>1, <2>2, <2>3, <2>4, <2>5, <2>6 DEF EndTyped
<1>2. CASE Flow!CannotStart
  BY <1>2 DEF Flow!CannotStart
<1>3. CASE Flow!OverBudget
  BY <1>3 DEF Flow!OverBudget
<1>4. CASE Flow!LoadFails
  <2>1. GivenTypes'
    BY <1>4, FailureRoutes DEF Flow!LoadFails
  <2>2. PlaceTypes'
    BY <1>4, FailureRoutes DEF Flow!LoadFails
  <2>3. LastTypes'
    BY <1>4, FailureRoutes DEF Flow!LoadFails
  <2>4. FlagTypes'
    BY <1>4, FailureRoutes DEF Flow!LoadFails
  <2>5. (replaces \in Seq(Flow!Paths))'
    BY <1>4, FailureRoutes DEF Flow!LoadFails
  <2>6. EndTyped(ended')
    <3>1. ended' = ended \/ ended' = Flow!Report("stopped", "plugin-error", FALSE, "none")
      BY <1>4, FailureRoutes DEF Flow!LoadFails
    <3> QED BY <3>1, StoppedIsTyped
  <2> QED BY <2>1, <2>2, <2>3, <2>4, <2>5, <2>6 DEF EndTyped
<1>5. CASE Flow!Refused
  BY <1>5 DEF Flow!Refused
<1>6. CASE Flow!Visit
  <2>1. GivenTypes'
    BY <1>6, EdgesAreFollowed DEF Flow!Visit, Flow!Effect, Flow!Replaces, Flow!OutputsOf, Flow!Outputs,
       Flow!ErrorOutcome, Flow!Outcome
  <2>2. PlaceTypes'
    BY <1>6, EdgesAreFollowed DEF Flow!Visit, Flow!Effect, Flow!Replaces, Flow!OutputsOf, Flow!Outputs,
       Flow!ErrorOutcome, Flow!Outcome
  <2>3. LastTypes'
    BY <1>6, EdgesAreFollowed DEF Flow!Visit, Flow!Effect, Flow!Replaces, Flow!OutputsOf, Flow!Outputs,
       Flow!ErrorOutcome, Flow!Outcome
  <2>4. FlagTypes'
    BY <1>6, EdgesAreFollowed DEF Flow!Visit, Flow!Effect, Flow!Replaces, Flow!OutputsOf, Flow!Outputs,
       Flow!ErrorOutcome, Flow!Outcome
  <2>5. (replaces \in Seq(Flow!Paths))'
    <3>1. PICK out : Flow!Effect(flow.kind[at], out)
      BY <1>6 DEF Flow!Visit
    <3>2. \/ replaces' = replaces
          \/ library' \in Flow!Paths /\ replaces' = Append(replaces, library')
          \/ replaces' = Append(replaces, "old")
      BY <3>1 DEF Flow!Effect, Flow!Replaces
    <3>3. replaces \in Seq(Flow!Paths)
      OBVIOUS
    <3> QED BY <3>2, <3>3, AppendPaths DEF Flow!Paths
  <2>6. EndTyped(ended')
    <3>1. PICK out : Flow!Follow(at, out, Flow!Outcome(flow.kind[at], out))
      BY <1>6 DEF Flow!Visit
    <3>2. ended' = ended \/ \E stop \in Flow!Stops : ended' = Flow!Report("stopped", stop, FALSE, "none")
      BY <3>1, EdgesAreFollowed
    <3> QED BY <3>2, StoppedIsTyped
  <2> QED BY <2>1, <2>2, <2>3, <2>4, <2>5, <2>6 DEF EndTyped
<1>7. CASE Flow!Throws
  <2>1. GivenTypes'
    BY <1>7, FailureRoutes DEF Flow!Throws
  <2>2. PlaceTypes'
    BY <1>7, FailureRoutes DEF Flow!Throws
  <2>3. LastTypes'
    BY <1>7, FailureRoutes DEF Flow!Throws
  <2>4. FlagTypes'
    BY <1>7, FailureRoutes DEF Flow!Throws
  <2>5. (replaces \in Seq(Flow!Paths))'
    BY <1>7, FailureRoutes DEF Flow!Throws
  <2>6. EndTyped(ended')
    <3>1. ended' = ended \/ ended' = Flow!Report("stopped", "plugin-error", FALSE, "none")
      BY <1>7, FailureRoutes DEF Flow!Throws
    <3> QED BY <3>1, StoppedIsTyped
  <2> QED BY <2>1, <2>2, <2>3, <2>4, <2>5, <2>6 DEF EndTyped
<1>8. CASE Flow!Holds
  BY <1>8 DEF Flow!Holds
<1>9. CASE Flow!Reports
  BY <1>9 DEF Flow!Reports, Flow!Replaced, Flow!FlowFailed, Flow!UnroutedFailure
<1>10. CASE Flow!ReportsAbort
  BY <1>10 DEF Flow!ReportsAbort, Flow!Replaced
<1>11. CASE UNCHANGED Flow!rvars
  BY <1>11 DEF Flow!rvars
<1> QED
  BY <1>1, <1>2, <1>3, <1>4, <1>5, <1>6, <1>7, <1>8, <1>9, <1>10, <1>11 DEF Flow!RunNext
\* Validation sees a flow that no walk can start in, and an edge that leads nowhere.
LEMMA NoStartIsAProblem ==
  ASSUME \A n \in Flow!Nodes(flow) : Flow!Resolved(flow.kind[n]) /\ flow.kind[n] # "start"
  PROVE  Flow!Problems(flow) # {}
<1>1. {n \in Flow!Nodes(flow) : Flow!IsStart(flow.kind[n])} = {}
  OBVIOUS
<1>2. "start-nodes" \in Flow!Problems(flow)
  BY <1>1 DEF Flow!Problems
<1> QED BY <1>2

LEMMA LostEdgeIsAProblem ==
  ASSUME NEW e \in flow.edges, e[3] \notin Flow!Nodes(flow)
  PROVE  Flow!Problems(flow) # {}
<1>1. {e[1], e[3]} \ Flow!Nodes(flow) # {}
  OBVIOUS
<1>2. "unknown-node" \in Flow!Problems(flow)
  BY <1>1 DEF Flow!Problems
<1> QED BY <1>2

\* Every step of a run keeps the invariant.
LEMMA RunSafe == Flow!RunTypeOK /\ RunInv /\ [Flow!RunNext]_Flow!rvars => RunInv'
<1> SUFFICES ASSUME Flow!RunTypeOK, RunInv, [Flow!RunNext]_Flow!rvars PROVE RunInv'
  OBVIOUS
<1> USE FlowAssumption, NodesHaveKinds DEF Flow!RunTypeOK, RunInv, InstalledIsRecorded, OpenIsSeen, EndIsTold, ReportIsTrue,
     Flow!ReplacedIsReported, Flow!SuccessIsEarned, Flow!DryRunTouchesNothing, Flow!AcceptedFlowsRun
<1>1. CASE Flow!Start
  <2>1. InstalledIsRecorded' /\ EndIsTold'
    BY <1>1 DEF Flow!Start
  <2>2. Flow!ReplacedIsReported' /\ Flow!SuccessIsEarned' /\ Flow!DryRunTouchesNothing'
    BY <1>1 DEF Flow!Start
  <2>3. OpenIsSeen'
    BY <1>1 DEF Flow!Start
  <2>4. Flow!AcceptedFlowsRun'
    <3>1. /\ flow' = flow
          /\ ended' = ended \/ \A n \in Flow!Nodes(flow) :
                               ~ (Flow!Loads(flow.kind[n]) /\ flow.kind[n] = "start")
      BY <1>1 DEF Flow!Start
    <3>2. \A n \in Flow!Nodes(flow) : flow.kind[n] = "start" => Flow!Loads(flow.kind[n])
      OBVIOUS
    <3>3. CASE ended' = ended
      BY <3>1, <3>3
    <3>4. CASE ended' # ended
      BY <3>1, <3>2, <3>4, NoStartIsAProblem
    <3> QED BY <3>3, <3>4
  <2> QED BY <2>1, <2>2, <2>3, <2>4
<1>2. CASE Flow!CannotStart
  BY <1>2 DEF Flow!CannotStart
<1>3. CASE Flow!OverBudget
  BY <1>3 DEF Flow!OverBudget
<1>4. CASE Flow!LoadFails
  BY <1>4, FailureRoutes DEF Flow!LoadFails
<1>5. CASE Flow!Refused
  BY <1>5 DEF Flow!Refused
<1>6. CASE Flow!Visit
  <2> DEFINE k == flow.kind[at]
  <2>1. PICK out \in Flow!OutputsOf(k) :
          /\ Flow!Effect(k, out)
          /\ Flow!Record(at, out, Flow!Outcome(k, out), FALSE)
          /\ errorVars' = Flow!ErrorOutcome(k)
          /\ touched' = (touched \/ Flow!Unknown(k))
          /\ open' = \/ Flow!Outcome(k, out) = "failure" /\ ~ Flow!Wired(at, out)
                     \/ open /\ k \notin {"recover", "handler"}
          /\ Flow!Follow(at, out, Flow!Outcome(k, out))
    BY <1>6 DEF Flow!Visit
  <2>2. /\ ended.kind = "walking" /\ at # 0 /\ k \in Flow!Kinds /\ ended.success = FALSE
        /\ (mode = "dry" => ~ Flow!Unknown(k)) /\ UNCHANGED <<flow, mode, gate>>
    BY <1>6 DEF Flow!Visit
  <2>3. \/ /\ ended' = ended /\ at' # 0
           /\ Flow!Wired(at, out) \/ Flow!IsHandler(flow.kind[at'])
        \/ /\ at' = 0 /\ ended' = Flow!Report("stopped", "missing-node", FALSE, "none")
           /\ Flow!Wired(at, out)
           /\ \E e \in flow.edges : e[3] \notin Flow!Nodes(flow)
        \/ /\ at' = 0 /\ ended' = Flow!Report("stopped", "end-of-flow", FALSE, "none")
           /\ ~ Flow!Wired(at, out)
    BY <2>1, EdgesAreFollowed
  <2>4. /\ ended'.kind \in {"walking", "stopped"} /\ ended'.success = FALSE
        /\ ended'.stop = ended.stop \/ ended'.stop \in {"missing-node", "end-of-flow"}
    BY <2>2, <2>3
  <2>5. InstalledIsRecorded'
    BY <2>1, <2>2 DEF Flow!Effect, Flow!Replaces
  <2>6. OpenIsSeen'
    <3>1. SUFFICES ASSUME open', ended'.kind \in {"walking", "stopped"}
                   PROVE  \/ errorVars' = "failure"
                          \/ ended'.kind = "walking" /\ at' # 0 /\ Flow!IsHandler(flow.kind[at'])
                          \/ ended'.kind = "stopped"
                                /\ (ended'.stop # "end-of-flow" \/ last'.outcome = "failure")
      BY <2>2
    <3>2. CASE Flow!Outcome(k, out) = "failure" /\ ~ Flow!Wired(at, out)
      <4>1. last'.outcome = "failure"
        BY <2>1, <3>2
      <4> QED BY <2>2, <2>3, <3>2, <4>1
    <3>3. CASE open /\ k \notin {"recover", "handler"}
      <4>1. errorVars = "failure" \/ k = "onError"
        BY <2>2, <3>3
      <4> QED BY <2>1, <3>3, <4>1 DEF Flow!ErrorOutcome
    <3> QED BY <2>1, <3>1, <3>2, <3>3
  <2>7. EndIsTold'
    BY <2>2, <2>4
  <2>8. Flow!ReplacedIsReported' /\ Flow!SuccessIsEarned'
    BY <2>4
  <2>9. Flow!DryRunTouchesNothing'
    BY <2>1, <2>2 DEF Flow!Effect
  <2>10. Flow!AcceptedFlowsRun'
    <3>1. CASE ended'.stop = ended.stop
      BY <2>2, <3>1
    <3>2. CASE ended'.stop = "missing-node"
      <4>1. ended' = ended \/ \E e \in flow.edges : e[3] \notin Flow!Nodes(flow)
        BY <2>3, <3>2
      <4> QED BY <2>2, <4>1, LostEdgeIsAProblem
    <3>3. CASE ended'.stop = "end-of-flow"
      BY <3>3
    <3> QED BY <2>4, <3>1, <3>2, <3>3
  <2> QED BY <2>5, <2>6, <2>7, <2>8, <2>9, <2>10
<1>7. CASE Flow!Throws
  BY <1>7, FailureRoutes DEF Flow!Throws
<1>8. CASE Flow!Holds
  BY <1>8 DEF Flow!Holds
<1>9. CASE Flow!Reports
  BY <1>9 DEF Flow!Reports, Flow!Replaced, Flow!FlowFailed, Flow!UnroutedFailure
<1>10. CASE Flow!ReportsAbort
  BY <1>10 DEF Flow!ReportsAbort, Flow!Replaced
<1>11. CASE UNCHANGED Flow!rvars
  BY <1>11 DEF Flow!rvars
<1> QED
  BY <1>1, <1>2, <1>3, <1>4, <1>5, <1>6, <1>7, <1>8, <1>9, <1>10, <1>11 DEF Flow!RunNext

\* After a refused commit no node of the flow runs.
LEMMA RunSteps ==
  ASSUME Flow!RunTypeOK, RunInv, [Flow!RunNext]_Flow!rvars, gate # "granted"
  PROVE  steps' = steps /\ UNCHANGED <<library, touched>>
<1>1. ended # Flow!Walking
  BY DEF RunInv, EndIsTold
<1>2. CASE Flow!Reports \/ Flow!ReportsAbort
  BY <1>2 DEF Flow!Reports, Flow!ReportsAbort
<1>3. CASE UNCHANGED Flow!rvars
  BY <1>3 DEF Flow!rvars
<1> QED
  BY <1>1, <1>2, <1>3 DEF Flow!RunNext, Flow!Start, Flow!CannotStart, Flow!OverBudget, Flow!LoadFails,
     Flow!Refused, Flow!Visit, Flow!Throws, Flow!Holds

-----------------------------------------------------------------------------
(* The parts together (MCNode).                                            *)

\* A step of a node is, for each part, a step of it or none.
LEMMA NodeSteps ==
  [NodeNext]_nodeVars =>
    /\ [Next]_vars /\ [Agent!AgentNext]_Agent!avars
    /\ UNCHANGED part /\ IF part = "flow" THEN [Flow!RunNext]_Flow!rvars ELSE UNCHANGED Flow!rvars
  BY DEF NodeNext, nodeVars, agentVars, flowVars, planVars, Agent!avars, Flow!rvars, vars

\* The invariant of a worker holds whichever part is at work.
LEMMA AgentHolds == NodeSpec => [](Agent!AgentTypeOK /\ AgentInv)
<1>1. NodeInit => Agent!AgentTypeOK /\ AgentInv
  BY AgentInitial DEF NodeInit
<1>2. Agent!AgentTypeOK /\ AgentInv /\ [NodeNext]_nodeVars => (Agent!AgentTypeOK /\ AgentInv)'
  BY NodeSteps, AgentTypes, AgentSafe
<1> QED BY <1>1, <1>2, PTL DEF NodeSpec

\* No report is lost in the channel of a worker: a run that ends because the process
\* vanished had none in the pipe, unless the pipe stayed open too long; and once the exit of
\* a cancelled worker was seen, nothing of its process group runs (agent-handle.ts exit,
\* drainThenSettle).
THEOREM ReportsAreKept == NodeSpec => []ReportIsKept
<1>1. AgentInv => ReportIsKept
  BY DEF AgentInv, ExitIsSeen, ReportIsKept, Agent!CancelledGroupIsGone
<1> QED BY <1>1, AgentHolds, PTL

\* What holds of the walk of a flow, whichever part is at work: the others begin, and stay,
\* with a run that was rejected before it began.
FlowInv == IF part = "flow" THEN Flow!RunTypeOK /\ RunInv ELSE ReportIsTrue

LEMMA FlowHolds == NodeSpec => []FlowInv
<1>1. NodeInit => FlowInv
  <2> SUFFICES ASSUME NodeInit PROVE FlowInv
    OBVIOUS
  <2>1. CASE part = "flow"
    BY <2>1, RunInitial DEF NodeInit, FlowInv
  <2>2. CASE part # "flow"
    <3>1. installed = FALSE /\ touched = FALSE /\ ended = Flow!Report("rejected", "none", FALSE, "none")
      BY <2>2 DEF NodeInit
    <3> QED BY <2>2, <3>1 DEF FlowInv, ReportIsTrue, Flow!ReplacedIsReported, Flow!SuccessIsEarned,
               Flow!DryRunTouchesNothing, Flow!AcceptedFlowsRun
  <2> QED BY <2>1, <2>2
<1>2. FlowInv /\ [NodeNext]_nodeVars => FlowInv'
  <2> SUFFICES ASSUME FlowInv, [NodeNext]_nodeVars PROVE FlowInv'
    OBVIOUS
  <2>1. CASE part = "flow"
    BY <2>1, NodeSteps, RunTypes, RunSafe DEF FlowInv
  <2>2. CASE part # "flow"
    <3>1. ReportIsTrue /\ part' # "flow" /\ UNCHANGED Flow!rvars
      BY <2>2, NodeSteps DEF FlowInv
    <3> QED BY <3>1 DEF FlowInv, ReportIsTrue, Flow!ReplacedIsReported, Flow!SuccessIsEarned,
               Flow!DryRunTouchesNothing, Flow!AcceptedFlowsRun, Flow!rvars, Flow!Problems
  <2> QED BY <2>1, <2>2
<1> QED BY <1>1, <1>2, PTL DEF NodeSpec

\* What a run reports is true: the file a replacement left, a success that was earned, a
\* preview that touched nothing, and a flow that was accepted and runs (run-flow.ts,
\* run-payload.ts, dry-run.ts).
THEOREM ReportsAreTrue == NodeSpec => []ReportIsTrue
<1>1. FlowInv => ReportIsTrue
  BY DEF FlowInv, RunInv
<1> QED BY <1>1, FlowHolds, PTL

\* A run ends once, whichever of its report, its exit and the end of its channel is seen
\* first; no job is sent after a cancel; and once the daemon refused to let a run commit no
\* node runs, the error handler included (agent-handle.ts finish, run; run-payload.ts).
THEOREM RunsEndOnce == NodeSpec => RunEndsOnce
<1> DEFINE Safe == (Agent!AgentTypeOK /\ AgentInv) /\ FlowInv
<1>1. Safe /\ [NodeNext]_nodeVars =>
        [handle.run \notin {"none", "open"} => handle'.run = handle.run]_handle
  BY NodeSteps, AgentSteps DEF AgentInv
<1>2. Safe /\ [NodeNext]_nodeVars =>
        [handle.cancelled /\ Len(inbox') > Len(inbox) => inbox'[Len(inbox')] # "job"]_Agent!avars
  BY NodeSteps, AgentSteps DEF AgentInv
<1>3. Safe /\ [NodeNext]_nodeVars =>
        [gate # "granted" => steps' = steps /\ UNCHANGED <<library, touched>>]_Flow!rvars
  BY NodeSteps, RunSteps DEF FlowInv
<1>4. NodeSpec => []Safe
  BY AgentHolds, FlowHolds, PTL
<1> QED
  BY <1>1, <1>2, <1>3, <1>4, PTL
  DEF NodeSpec, RunEndsOnce, Agent!RunEndsOnce, Agent!NoJobAfterCancel, Flow!RefusalEndsTheRun

\* A bundle a job was given stays as it is until the job gives it up; a directory is
\* downloaded or removed by one job or prune at a time; and an idle cache is within its cap,
\* unless a removal failed or the node restarted (bundle-cache.ts ensure, prune).
THEOREM BundlesStay == NodeSpec => BundlesAreKept
<1>1. NodeInit => CacheInv
  BY CacheInitial DEF NodeInit
<1>2. CacheInv /\ [NodeNext]_nodeVars => CacheInv'
  BY NodeSteps, CacheSafe
<1>3. CacheInv /\ [NodeNext]_nodeVars =>
        [\A j \in Jobs : \A h \in job[j].held : disk'[h] = disk[h]]_vars
  BY NodeSteps, HeldStays DEF CacheInv
<1>4. CacheInv => OneWriterPerBundle /\ IdleCacheFits
  <2> SUFFICES ASSUME CacheInv PROVE OneWriterPerBundle /\ IdleCacheFits
    OBVIOUS
  <2>1. OneWriterPerBundle
    BY DEF CacheInv, OwnersAreOne, OneWriterPerBundle
  <2>2. ASSUME faults \cap {"remove", "crash"} = {},
               \A j \in Jobs : job[j].phase = "idle" /\ prune[j].phase = "idle"
        PROVE  Cardinality(Present) <= Cap
    <3>1. Settled /\ ~ (\E j \in Jobs : Counts(j)) /\ removing = {}
      BY <2>2 DEF CacheInv, OwnersAreOne, Settled, Counts
    <3>2. CASE Present \subseteq removing
      <4>1. Cardinality(Present) = 0
        BY <3>1, <3>2, FS_EmptySet
      <4> QED BY <4>1, CacheAssumption
    <3> QED BY <3>1, <3>2 DEF CacheInv, CacheWillFit, Fits
  <2> QED BY <2>1, <2>2 DEF IdleCacheFits
<1> QED BY <1>1, <1>2, <1>3, <1>4, PTL DEF NodeSpec, BundlesAreKept, HeldBundleStays
=============================================================================
