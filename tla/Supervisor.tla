----------------------------- MODULE Supervisor -----------------------------
(***************************************************************************)
(* The daemon's local work: which files it claims, the worker slots it     *)
(* fills, how a run is settled in the database, what the operator and the  *)
(* stall reaper may do to a file meanwhile, and what a crash of the daemon *)
(* leaves for the next one.                                                *)
(*   server/src/daemon/supervisor.ts      claims, slots, settleJob         *)
(*   server/src/worker/apply-report.ts    a result, a failure, a cancel    *)
(*   server/src/worker/reap-stalled.ts    rows no worker is left for       *)
(*   server/src/db/media-file-repo.ts, db/job-repo.ts, api/routes/files.ts *)
(*                                                                         *)
(* A worker is its process here: LocalAgent models the process and the     *)
(* handle.  Jobs are numbered in the order they start.  The runs of remote *)
(* nodes are RemoteJobs; replacing the file is Replacement.                *)
(***************************************************************************)
EXTENDS Ledger, Sequences, FiniteSets

CONSTANTS
  Files,
  MaxWorkers,     \* bound: the largest target a schedule sets
  MaxJobs,        \* bound: jobs started
  MaxCrashes,     \* bound: crashes of the daemon
  HoldsRunning,   \* the operator holds files that are being processed, too
  ReapsDraining,  \* the reaper can run between a worker's exit and its settling
  DiesSettling    \* the daemon can die between two statements of a settling

VARIABLES
  row,       \* the ledger record of each file
  known,     \* files whose row has not been deleted
  job,       \* sequence of job rows
  worker,    \* the process of each job
  slots,     \* the supervisor's map: jobs whose run is not settled
  target,    \* workers the schedule asks for now
  paused, draining,
  ticking,   \* a tick is under way; reconcile never yields
  parked,    \* of files being deleted: the record before the reservation
  daemonUp,
  crashes,
  charged    \* history: attempts a job cost its file

svars == <<row, known, job, worker, slots, target, paused, draining, ticking, parked,
           daemonUp, crashes, charged>>

JobStates    == {"running", "succeeded", "failed", "cancelled"}
\* "told": asked to stop.  "exited" and "stopped": gone, and not settled yet.
WorkerStates == {"none", "live", "told", "exited", "stopped", "orphan", "lost"}

\* "pid": the process recorded on the row, while it may be judged by it.
JobRow == [file : Files, state : JobStates, pid : BOOLEAN]

SupervisorTypeOK ==
  /\ row \in [Files -> LedgerRecord] /\ known \subseteq Files
  /\ job \in Seq(JobRow) /\ Len(job) <= MaxJobs
  /\ worker \in [DOMAIN job -> WorkerStates]
  /\ slots \subseteq DOMAIN job
  /\ target \in 0..MaxWorkers
  /\ paused \in BOOLEAN /\ draining \in BOOLEAN /\ ticking \in BOOLEAN /\ daemonUp \in BOOLEAN
  /\ DOMAIN parked \subseteq known /\ parked \in [DOMAIN parked -> LedgerRecord]
  /\ crashes \in 0..MaxCrashes
  /\ charged \in [DOMAIN job -> 0..2]

IsRunning(f) == f \in known /\ row[f].state = "running"
JobsOf(f)   == {j \in DOMAIN job : job[j].file = f}
OpenJobs(f) == {j \in JobsOf(f) : job[j].state = "running"}
Latest(f)   == CHOOSE j \in JobsOf(f) : \A k \in JobsOf(f) : k <= j
Process(j)  == worker[j] \in {"live", "told", "orphan"}
Unsettled(j) == worker[j] \in {"exited", "stopped"}

SupervisorInit ==
  /\ row = [f \in Files |-> [NewLedgerRecord EXCEPT !.state = "queued"]]
  /\ known = Files
  /\ job = << >> /\ worker = << >> /\ charged = << >>
  /\ slots = {} /\ target = MaxWorkers
  /\ paused = FALSE /\ draining = FALSE /\ ticking = TRUE
  /\ parked = << >>
  /\ daemonUp = TRUE /\ crashes = 0

-----------------------------------------------------------------------------
(* Ledger writes.                                                          *)

\* A stall: an attempt more, charged to the job.
Stall(f, j) ==
  /\ row' = [row EXCEPT ![f] = ApplyStall(@)]
  /\ charged' = [charged EXCEPT ![j] = @ + (IF row[f].review THEN 0 ELSE 1)]

EndJob(j, state) == job' = [job EXCEPT ![j].state = state]

\* Another job that is open, or started after this one: the row is that job's.
RivalHolds(j) ==
  \E k \in JobsOf(job[j].file) \ {j} : job[k].state = "running" \/ k > j

-----------------------------------------------------------------------------
(* The tick: claim while there is a free slot and a file to claim.         *)

Claimable(f) ==
  /\ f \in known /\ f \notin DOMAIN parked
  /\ \E passed \in BOOLEAN : IsEligible(row[f], passed)

MayStart ==
  /\ daemonUp /\ ticking /\ ~ paused /\ ~ draining
  /\ Cardinality(slots) < target
  /\ Len(job) < MaxJobs

Claim(f) == row' = [row EXCEPT ![f].state = "running"]

NewJob(f, state, pid) == job' = Append(job, [file |-> f, state |-> state, pid |-> pid])

ClaimAndStart(f) ==
  /\ MayStart /\ Claimable(f)
  /\ Claim(f) /\ NewJob(f, "running", TRUE)
  /\ worker' = Append(worker, "live") /\ charged' = Append(charged, 0)
  /\ slots' = slots \cup {Len(job) + 1}
  /\ UNCHANGED <<known, target, paused, draining, ticking, parked, daemonUp, crashes>>

\* The payload could not be built, or the worker not made: a failed attempt on the
\* job's row, or on one written for it.
StartFails(f) ==
  /\ MayStart /\ Claimable(f)
  /\ row' = [row EXCEPT ![f] = ApplyStall([@ EXCEPT !.state = "running"])]
  /\ NewJob(f, "failed", FALSE)
  /\ worker' = Append(worker, "none")
  /\ charged' = Append(charged, IF row[f].review THEN 0 ELSE 1)
  /\ UNCHANGED <<known, slots, target, paused, draining, ticking, parked, daemonUp, crashes>>

TickEnds ==
  /\ daemonUp /\ ticking
  /\ ~ (MayStart /\ \E f \in Files : Claimable(f))
  /\ ticking' = FALSE
  /\ UNCHANGED <<known, row, job, worker, slots, target, paused, draining, parked,
                 daemonUp, crashes, charged>>

\* The daemon's loop, free for anything but the tick.
Idle == daemonUp /\ ~ ticking

Tick ==
  /\ Idle /\ ticking' = TRUE
  /\ UNCHANGED <<known, row, job, worker, slots, target, paused, draining, parked,
                 daemonUp, crashes, charged>>

-----------------------------------------------------------------------------
(* Workers, and how their runs are settled.                                *)

\* A worker's process ends: its result, or the lack of one, is still to be settled.
WorkerExits(j) ==
  /\ worker[j] \in {"live", "told"}
  /\ worker' = [worker EXCEPT ![j] = IF @ = "told" THEN "stopped" ELSE "exited"]
  /\ UNCHANGED <<known, row, job, slots, target, paused, draining, ticking, parked,
                 daemonUp, crashes, charged>>

OrphanEnds(j) ==
  /\ worker[j] = "orphan"
  /\ worker' = [worker EXCEPT ![j] = "lost"]
  /\ UNCHANGED <<known, row, job, slots, target, paused, draining, ticking, parked,
                 daemonUp, crashes, charged>>

Release(j) ==
  /\ slots' = slots \ {j}
  /\ worker' = [worker EXCEPT ![j] = "lost"]
  /\ ticking' = TRUE

\* applyJobReport: the outcome of the run on the ledger, and the job's row closed.
SettleReport(j) ==
  \E report \in {"success", "noop", "failure", "review"} :
    LET f == job[j].file IN
    /\ row' = [row EXCEPT ![f] = ApplyRunOutcome(@, report)]
    /\ charged' = [charged EXCEPT ![j] =
                     @ + (IF report = "failure" /\ ~ row[f].review THEN 1 ELSE 0)]
    /\ EndJob(j, IF report \in {"success", "noop"} THEN "succeeded" ELSE "failed")

\* The replacement could not be recorded: a failed attempt, and the review a run
\* asked for is remembered first.
SettleThrown(j) ==
  \E asked \in BOOLEAN :
    LET f == job[j].file
        review == row[f].review \/ asked
    IN  /\ row' = [row EXCEPT ![f] = ApplyStall([@ EXCEPT !.review = review])]
        /\ charged' = [charged EXCEPT ![j] = @ + (IF review THEN 0 ELSE 1)]
        /\ EndJob(j, "failed")

\* Nothing was reported, or a failure was.
SettleFailure(j) == Stall(job[j].file, j) /\ EndJob(j, "failed")

\* applyJobCancelled: requeued unpenalised, unless the row is another job's.
SettleCancelled(j) ==
  /\ row' = IF RivalHolds(j) THEN row ELSE [row EXCEPT ![job[j].file] = ApplyRequeue(@)]
  /\ EndJob(j, "cancelled") /\ UNCHANGED charged

\* settleJob, then the slot, then a tick.  A row that is gone takes its jobs along.
Settle(j) ==
  /\ Idle /\ j \in slots /\ Unsettled(j)
  /\ job[j].file \in known
  /\ \/ SettleReport(j) \/ SettleThrown(j)
     \/ /\ worker[j] = "exited" /\ SettleFailure(j)
     \/ /\ worker[j] = "stopped" /\ SettleCancelled(j)
  /\ Release(j)
  /\ UNCHANGED <<known, target, paused, draining, parked, daemonUp, crashes>>

-----------------------------------------------------------------------------
(* The operator: api/routes/jobs.ts, files.ts, workers.ts.                 *)

CancelJob(j) ==
  /\ Idle /\ j \in slots /\ worker[j] = "live"
  /\ worker' = [worker EXCEPT ![j] = "told"]
  /\ UNCHANGED <<known, row, job, slots, target, paused, draining, ticking, parked,
                 daemonUp, crashes, charged>>

Pause ==
  /\ Idle /\ paused' = ~ paused
  /\ UNCHANGED <<known, row, job, worker, slots, target, draining, ticking, parked,
                 daemonUp, crashes, charged>>

\* A window of the schedule opens or closes, or the settings change.
SetTarget ==
  /\ Idle /\ target' \in 0..MaxWorkers
  /\ UNCHANGED <<known, row, job, worker, slots, paused, draining, ticking, parked,
                 daemonUp, crashes, charged>>

Requeue(f) ==
  /\ Idle /\ f \in known /\ f \notin DOMAIN parked
  /\ OpenJobs(f) = {} /\ row[f].state # "running"
  /\ row' = [row EXCEPT ![f] = ApplyRequeue(@)] /\ ticking' = TRUE
  /\ UNCHANGED <<known, job, worker, slots, target, paused, draining, parked,
                 daemonUp, crashes, charged>>

\* The route writes the state without asking who holds the file.
Hold(f) ==
  /\ Idle /\ f \in known /\ f \notin DOMAIN parked
  /\ HoldsRunning \/ (row[f].state # "running" /\ OpenJobs(f) = {})
  /\ row' = [row EXCEPT ![f].state = "held", ![f].backoff = TRUE]
  /\ UNCHANGED <<known, job, worker, slots, target, paused, draining, ticking, parked,
                 daemonUp, crashes, charged>>

\* Mutant: the reservation does not ask who holds the file.
ReserveAnyRow(f) ==
  /\ Idle /\ f \in known /\ f \notin DOMAIN parked
  /\ parked' = [g \in DOMAIN parked \cup {f} |-> IF g = f THEN row[f] ELSE parked[g]]
  /\ row' = [row EXCEPT ![f].state = "held", ![f].backoff = TRUE]
  /\ UNCHANGED <<known, job, worker, slots, target, paused, draining, ticking,
                 daemonUp, crashes, charged>>

\* DELETE /files/:id parks the row for an hour, which outlasts the unlink ...
ReserveForDeletion(f) ==
  /\ Idle /\ f \in known /\ f \notin DOMAIN parked
  /\ row[f].state # "running" /\ OpenJobs(f) = {}
  /\ parked' = [g \in DOMAIN parked \cup {f} |-> IF g = f THEN row[f] ELSE parked[g]]
  /\ row' = [row EXCEPT ![f].state = "held", ![f].backoff = TRUE]
  /\ UNCHANGED <<known, job, worker, slots, target, paused, draining, ticking,
                 daemonUp, crashes, charged>>

\* ... then the file and its row go, or the row is put back as it was.
EndDeletion(f) ==
  /\ Idle /\ f \in DOMAIN parked
  /\ \/ known' = known \ {f} /\ UNCHANGED row
     \/ /\ row' = [row EXCEPT ![f].state = parked[f].state, ![f].backoff = parked[f].backoff]
        /\ UNCHANGED known
  /\ parked' = [g \in DOMAIN parked \ {f} |-> parked[g]]
  /\ UNCHANGED <<job, worker, slots, target, paused, draining, ticking,
                 daemonUp, crashes, charged>>

-----------------------------------------------------------------------------
(* The stall reaper.                                                       *)

\* Mutant: a job whose pid was not written down is taken for one without a worker.
AbandonedWithoutPid(f) ==
  IF JobsOf(f) = {} THEN TRUE ELSE ~ (job[Latest(f)].pid /\ Process(Latest(f)))

\* By its pid; or by a day without a sign of life, taken to outlast every process.
Abandoned(f) ==
  IF JobsOf(f) = {} \/ job[Latest(f)].state # "running" \/ ~ job[Latest(f)].pid
  THEN \A j \in JobsOf(f) : ~ Process(j)
  ELSE ~ Process(Latest(f))

\* Mutant: only the files of open jobs are looked at.
ReapJobsOnly(f) ==
  /\ Idle /\ ~ draining /\ IsRunning(f) /\ Abandoned(f) /\ OpenJobs(f) # {}
  /\ row' = [row EXCEPT ![f] = ApplyStall(@)]
  /\ UNCHANGED <<job, charged, known, worker, slots, target, paused, draining, ticking, parked, daemonUp, crashes>>

Reap(f) ==
  /\ Idle /\ ~ draining /\ IsRunning(f) /\ Abandoned(f)
  /\ ReapsDraining \/ \A j \in JobsOf(f) : ~ Unsettled(j)
  /\ row' = [row EXCEPT ![f] = ApplyStall(@)]
  /\ IF OpenJobs(f) # {} /\ Latest(f) \in OpenJobs(f)
     THEN /\ EndJob(Latest(f), "failed")
          /\ charged' = [charged EXCEPT ![Latest(f)] = @ + (IF row[f].review THEN 0 ELSE 1)]
     ELSE UNCHANGED <<job, charged>>
  /\ UNCHANGED <<known, worker, slots, target, paused, draining, ticking, parked, daemonUp, crashes>>

-----------------------------------------------------------------------------
(* Shutdown and crash.                                                     *)

\* drain: nothing starts any more.  At the deadline the workers left are cancelled.
Drain ==
  /\ Idle /\ ~ draining /\ draining' = TRUE
  /\ UNCHANGED <<known, row, job, worker, slots, target, paused, ticking, parked,
                 daemonUp, crashes, charged>>

DrainDeadline ==
  /\ Idle /\ draining /\ \E j \in slots : worker[j] = "live"
  /\ worker' = [j \in DOMAIN worker |->
                  IF j \in slots /\ worker[j] = "live" THEN "told" ELSE worker[j]]
  /\ UNCHANGED <<known, row, job, slots, target, paused, draining, ticking, parked,
                 daemonUp, crashes, charged>>

\* What the memory of the daemon held goes with it, and its workers are orphans.
Down ==
  /\ daemonUp' = FALSE /\ slots' = {} /\ parked' = << >>
  /\ ticking' = FALSE /\ paused' = FALSE /\ draining' = FALSE

Orphans(w) ==
  [j \in DOMAIN w |-> CASE w[j] \in {"live", "told"} -> "orphan"
                        [] w[j] \in {"exited", "stopped"} -> "lost"
                        [] OTHER -> w[j]]

Stopped ==
  /\ Idle /\ draining /\ slots = {}
  /\ Down /\ UNCHANGED <<known, row, job, worker, target, crashes, charged>>

MayCrash == daemonUp /\ crashes < MaxCrashes /\ crashes' = crashes + 1

Crash ==
  /\ MayCrash /\ Down /\ worker' = Orphans(worker)
  /\ UNCHANGED <<known, row, job, target, charged>>

\* Between the claim, the job's row, the fork, the pid on the row, and the ledger
\* and the row of a start that failed.
CrashStarting(f) ==
  /\ MayStart /\ Claimable(f) /\ MayCrash /\ Down
  /\ \/ /\ Claim(f)
        /\ worker' = Orphans(worker) /\ UNCHANGED <<job, charged>>
     \/ \E process \in {"none", "orphan"} :
          /\ Claim(f) /\ NewJob(f, "running", FALSE)
          /\ worker' = Append(Orphans(worker), process) /\ charged' = Append(charged, 0)
     \/ /\ DiesSettling
        /\ row' = [row EXCEPT ![f] = ApplyStall([@ EXCEPT !.state = "running"])]
        /\ NewJob(f, "running", FALSE)
        /\ worker' = Append(Orphans(worker), "none")
        /\ charged' = Append(charged, IF row[f].review THEN 0 ELSE 1)
  /\ UNCHANGED <<known, target>>

\* The ledger is written, and the job's row is not.
CrashSettling(j) ==
  /\ DiesSettling
  /\ Idle /\ j \in slots /\ Unsettled(j) /\ job[j].file \in known
  /\ MayCrash /\ Down /\ worker' = Orphans(worker)
  /\ \/ /\ worker[j] = "exited" /\ Stall(job[j].file, j)
     \/ /\ worker[j] = "stopped" /\ ~ RivalHolds(j)
        /\ row' = [row EXCEPT ![job[j].file] = ApplyRequeue(@)] /\ UNCHANGED charged
     \/ \E report \in {"success", "review"} :
          /\ row' = [row EXCEPT ![job[j].file] = ApplyRunOutcome(@, report)]
          /\ UNCHANGED charged
  /\ UNCHANGED <<known, job, target>>

Restart ==
  /\ ~ daemonUp /\ daemonUp' = TRUE
  /\ UNCHANGED <<known, row, job, worker, slots, target, paused, draining, ticking, parked,
                 crashes, charged>>

SupervisorNext ==
  \/ TickEnds \/ Tick \/ Pause \/ SetTarget
  \/ \E f \in Files :
       \/ ClaimAndStart(f) \/ StartFails(f) \/ Requeue(f) \/ Hold(f)
       \/ ReserveForDeletion(f) \/ EndDeletion(f) \/ Reap(f) \/ CrashStarting(f)
  \/ \E j \in DOMAIN job :
       WorkerExits(j) \/ OrphanEnds(j) \/ Settle(j) \/ CancelJob(j) \/ CrashSettling(j)
  \/ Drain \/ DrainDeadline \/ Stopped \/ Crash \/ Restart

JobIds == 1..MaxJobs

\* A tick ends, an unlink ends, a run is settled, the reaper's timer comes round
\* however busy the loop is, and the daemon is started again.  A worker need end
\* only once it was told to (LocalAgent.StoppedRunEnds) or has lost its daemon.
SupervisorFairness ==
  /\ WF_svars(ticking /\ (TickEnds \/ \E f \in Files : ClaimAndStart(f)))
  /\ \A f \in Files : SF_svars(Reap(f))
  /\ \A j \in JobIds :
       /\ WF_svars(j \in DOMAIN job /\ OrphanEnds(j))
       /\ WF_svars(j \in DOMAIN job /\ worker[j] = "told" /\ WorkerExits(j))
       /\ SF_svars(j \in DOMAIN job /\ Settle(j))
  /\ SF_svars(DrainDeadline) /\ SF_svars(Stopped) /\ WF_svars(Restart)

SupervisorSpec ==
  SupervisorInit /\ [][SupervisorNext]_svars /\ SupervisorFairness

-----------------------------------------------------------------------------

\* Two workers never run one file: claims, requeues, reclaims, cancels and restarts
\* included (the reason of media-file-repo.ts requeueUnlessClaimed and of the
\* reaper's doubts).
OneWorkerPerFile ==
  \A f \in Files : \A j, k \in JobsOf(f) : Process(j) /\ Process(k) => j = k

\* A file being deleted from disk is not in the hands of a worker, one whose daemon
\* died included (media-file-repo.ts reserveForDeletion, files.ts DELETE).
DeletedFileIsIdle ==
  \A f \in Files : f \in DOMAIN parked \/ f \notin known => \A j \in JobsOf(f) : ~ Process(j)

\* However a job ends, and whoever settles it, it costs its file one attempt at most.
JobCostsOneAttempt == \A j \in DOMAIN job : charged[j] <= 1

\* A file left in "running" with no worker is worked again: the crash of a daemon
\* strands no file (reap-stalled.ts).
StrandedFileIsFreed ==
  \A f \in Files :
    IsRunning(f) /\ (\A j \in JobsOf(f) : ~ Process(j)) ~> ~ IsRunning(f)

\* A file that is refused to the operator because a job holds it is not refused for
\* ever once no process is left of that job (files.ts: "Wait for the run to finish").
RefusedFileIsFreed ==
  \A j \in JobIds :
    j \in DOMAIN job /\ job[j].state = "running" /\ ~ Process(j)
      ~> j \in DOMAIN job /\ job[j].state # "running"

=============================================================================
