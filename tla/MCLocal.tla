------------------------------ MODULE MCLocal ------------------------------
(***************************************************************************)
(* What the daemon does on its own clock, one part at a time: it scans a   *)
(* library, it works the files it has found, or it tells somebody of them. *)
(***************************************************************************)
EXTENDS ScanCoordinator

CONSTANTS
  Files, MaxWorkers, MaxJobs, MaxCrashes, HoldsRunning, ReapsDraining, DiesSettling,
  MaxQueue, Retries, MaxMessages

\* The sizes of the daemon's pool and queues, and the bounds of the model.
ASSUME LocalAssumption ==
  /\ MaxWorkers \in Nat /\ MaxJobs \in Nat /\ MaxCrashes \in Nat
  /\ MaxQueue \in Nat /\ Retries \in Nat /\ MaxMessages \in Nat

VARIABLES
  part,
  row, known, job, worker, slots, target, paused, draining, ticking, parked,
  daemonUp, crashes, charged,
  queue, pump, sending, tries, epoch, signal, drain, awaited, overdue, stopped, given,
  dropped, fate

Work == INSTANCE Supervisor
Lane == INSTANCE AlertDelivery

workVars  == <<row, known, job, worker, slots, target, paused, draining, ticking, parked,
               daemonUp, crashes, charged>>
laneVars  == <<queue, pump, sending, tries, epoch, signal, drain, awaited, overdue, stopped,
               given, dropped, fate>>
localVars == <<part, vars, workVars, laneVars>>

\* No scan that is due, and no file to work.
NoScanDue ==
  /\ scans = [p \in Promises |-> NoScan]
  /\ pending = NoPlan /\ settle = FALSE /\ settling = NoPlan /\ rescan = FALSE
  /\ state = "stopped" /\ changed = {} /\ owed = {} /\ faults = 0
NoWork ==
  /\ row = [f \in Files |-> Work!NewLedgerRecord] /\ known = {}
  /\ job = << >> /\ worker = << >> /\ charged = << >> /\ slots = {}
  /\ target = MaxWorkers /\ paused = FALSE /\ draining = FALSE /\ ticking = FALSE
  /\ parked = << >> /\ daemonUp = TRUE /\ crashes = 0

LocalInit ==
  /\ part \in {"scan", "work", "lane"}
  /\ IF part = "scan" THEN Init ELSE NoScanDue
  /\ IF part = "work" THEN Work!SupervisorInit ELSE NoWork
  /\ Lane!DeliveryInit

LocalNext ==
  \/ part = "scan" /\ Next /\ UNCHANGED <<part, workVars, laneVars>>
  \/ part = "work" /\ Work!SupervisorNext /\ UNCHANGED <<part, vars, laneVars>>
  \/ part = "lane" /\ Lane!DeliveryNext /\ UNCHANGED <<part, vars, workVars>>

LocalSpec ==
  LocalInit /\ [][LocalNext]_localVars
    /\ Fairness /\ Work!SupervisorFairness /\ Lane!DeliveryFairness

-----------------------------------------------------------------------------

\* Every part keeps the types of its variables.
LocalTypeOK == TypeOK /\ Work!SupervisorTypeOK /\ Lane!DeliveryTypeOK

\* A file has one worker at a time, an orphan of a dead daemon included, and none while
\* it is being deleted (Supervisor).
FilesAreWorkedAlone == Work!OneWorkerPerFile /\ Work!DeletedFileIsIdle

\* What a stop does not deliver is counted, no message waits in a queue that nobody
\* reads, and a drain aborts what is left at its deadline and sends nothing more
\* (AlertDelivery).
NoAlertIsLost ==
  [](Lane!DroppedAreCounted /\ Lane!NothingStranded) /\ Lane!NothingSentPastDeadline

\* Every change of a library is found in the end (ScanCoordinator), a crash of the
\* daemon strands no file (Supervisor), and a drain returns (AlertDelivery).
NothingIsLeftLying == EveryChangeFound /\ Work!StrandedFileIsFreed /\ Lane!DrainReturns
=============================================================================
