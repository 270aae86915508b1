--------------------------- MODULE FileOwnership ---------------------------
(***************************************************************************)
(* What the remote job protocol promises about files: a lock per file that *)
(* is taken by a job, a permission to write that only the job holding the  *)
(* lock is given, and a lock that is not freed while the permission is     *)
(* out.  No node, socket, journal or daemon appears here: RemoteJobs is    *)
(* shown to implement this module through all of their failures.           *)
(*                                                                         *)
(* The one exception is the code's own: after 24 hours of silence the lock *)
(* of a writer is taken from it (core/src/lease.ts), and that job is       *)
(* "waived" from then on.                                                  *)
(***************************************************************************)
EXTENDS FiniteSets

CONSTANTS Files, Jobs, NoFile

VARIABLES
  target,     \* the file each job was started for
  held,       \* jobs that hold the lock of their file
  permitted,  \* jobs that may write
  writing,    \* jobs that write
  waived      \* jobs whose lock was taken although they were permitted

vars == <<target, held, permitted, writing, waived>>

Init ==
  /\ target = [j \in Jobs |-> NoFile]
  /\ held = {} /\ permitted = {} /\ writing = {} /\ waived = {}

\* A new job takes the lock of a file no job holds.
Acquire(j, f) ==
  /\ target[j] = NoFile
  /\ \A k \in held : target[k] # f
  /\ target' = [target EXCEPT ![j] = f]
  /\ held' = held \cup {j}
  /\ UNCHANGED <<permitted, writing, waived>>

Permit(j) ==
  /\ j \in held
  /\ permitted' = permitted \cup {j}
  /\ UNCHANGED <<target, held, writing, waived>>

\* A waived job may find the permission it was given only afterwards.
Begin(j) ==
  /\ j \in permitted \cup waived
  /\ writing' = writing \cup {j}
  /\ UNCHANGED <<target, held, permitted, waived>>

\* Writing ends first, the permission after it.
End(j) ==
  /\ j \in writing
  /\ writing' = writing \ {j}
  /\ UNCHANGED <<target, held, permitted, waived>>

Withdraw(j) ==
  /\ j \in permitted \ writing
  /\ permitted' = permitted \ {j}
  /\ UNCHANGED <<target, held, writing, waived>>

\* Runs stop, all those of a node together.
Stop(J) ==
  /\ writing' = writing \ J
  /\ permitted' = permitted \ J
  /\ UNCHANGED <<target, held, waived>>

\* Locks are freed, never under a permission.
Free(J) ==
  /\ J \subseteq held \ permitted
  /\ held' = held \ J
  /\ UNCHANGED <<target, permitted, writing, waived>>

Waive(j) ==
  /\ j \in held
  /\ held' = held \ {j}
  /\ permitted' = permitted \ {j}
  /\ waived' = waived \cup {j}
  /\ UNCHANGED <<target, writing>>

Next ==
  \/ \E j \in Jobs, f \in Files : Acquire(j, f)
  \/ \E j \in Jobs : Permit(j) \/ Begin(j) \/ End(j) \/ Withdraw(j) \/ Waive(j)
  \/ \E J \in SUBSET Jobs : Stop(J) \/ Free(J)

Spec == Init /\ [][Next]_vars

-----------------------------------------------------------------------------
(* What the promise amounts to *)

TypeOK ==
  /\ target \in [Jobs -> Files \cup {NoFile}]
  /\ held \in SUBSET Jobs /\ permitted \in SUBSET Jobs
  /\ writing \in SUBSET Jobs /\ waived \in SUBSET Jobs

\* Two jobs write one file at a time only after one of them was waived.
Exclusive ==
  \A j, k \in writing : target[j] = target[k] => j = k \/ j \in waived \/ k \in waived

\* Exclusive is not inductive: it rests on who may write, and on one lock per file.
LockDiscipline ==
  /\ writing \subseteq permitted \cup waived
  /\ permitted \subseteq held
  /\ \A j \in held : target[j] \in Files
  /\ \A j, k \in held : target[j] = target[k] => j = k
=============================================================================
