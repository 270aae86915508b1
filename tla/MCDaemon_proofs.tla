--------------------------- MODULE MCDaemon_proofs ---------------------------
(***************************************************************************)
(* What holds of the daemon's own parts for any number of daemons,         *)
(* commands, causes, ticks, jobs and frames: one daemon owns a data        *)
(* directory (DataDirectory), an outage is told (Alerts), the screen shows *)
(* what runs (LiveView), and rows follow the disk (Scanner).               *)
(***************************************************************************)
EXTENDS MCDaemon, FiniteSetTheorems, SequenceTheorems, WellFoundedInduction, TLAPS

-----------------------------------------------------------------------------
(* The data directory: the invariant.  The kernel lock is the whole        *)
(* argument: only its holder goes past "listen", so only it writes         *)
(* daemon.json and the marker.                                             *)

Locked == {"claim", "write", "readback", "incumbent", "mark", "markwrite", "recheck", "unlink",
           "unmark", "markread", "unstale", "owner", "closing", "removing", "releasing"}
Outside == {"off", "listen", "dead"}

\* Whoever is past the lock holds it, and whoever is not, does not.
LockHeld(d) ==
  /\ Dir!At(d) \in Locked => kernel = d
  /\ Dir!At(d) \in Outside => kernel # d

\* The record of the daemon that wrote it stays as it was written.
RecordHeld(d) ==
  /\ Dir!At(d) = "write" => record = [by |-> d, written |-> FALSE]
  /\ Dir!At(d) \in {"readback", "owner"} => record = [by |-> d, written |-> TRUE]

\* Every attempt removes a stale file, of which there are two.
FirstAttempts(d) ==
  \/ daemon[d].tries = 0
  \/ daemon[d].tries = 1 /\ marker = Dir!NoFile

AttemptsLeft(d) ==
  /\ Dir!At(d) \in {"off", "listen", "markread", "unstale"} => daemon[d].tries = 0
  /\ Dir!At(d) = "claim" => FirstAttempts(d) \/ (daemon[d].tries <= 2 /\ record = Dir!NoFile)
  /\ Dir!At(d) \in {"incumbent", "mark"} => FirstAttempts(d)
  /\ Dir!At(d) \in {"markwrite", "recheck", "unlink", "unmark"} => daemon[d].tries <= 1
  /\ Dir!At(d) = "unmark" => record = Dir!NoFile

DirInv == locks => \A d \in Daemons : LockHeld(d) /\ RecordHeld(d) /\ AttemptsLeft(d)

DaemonRecord == [at : Dir!DaemonSteps, tries : 0..MaxAttempts]

LEMMA Moves ==
  ASSUME Dir!DirTypeOK, NEW d \in Daemons, NEW s \in Dir!DaemonSteps, Dir!To(d, s)
  PROVE  /\ daemon' \in [Daemons -> DaemonRecord]
         /\ daemon'[d].at = s /\ daemon'[d].tries = daemon[d].tries
         /\ \A e \in Daemons : e # d => daemon'[e] = daemon[e]
<1>1. daemon \in [Daemons -> DaemonRecord]
  BY DEF Dir!DirTypeOK, DaemonRecord
<1>2. daemon' = [daemon EXCEPT ![d].at = s]
  BY DEF Dir!To
<1>3. daemon[d] \in DaemonRecord
  BY <1>1
<1>4. [daemon[d] EXCEPT !.at = s] \in DaemonRecord
  BY <1>3 DEF DaemonRecord
<1>5. daemon'[d] = [daemon[d] EXCEPT !.at = s]
  BY <1>1, <1>2
<1>6. daemon'[d].at = s /\ daemon'[d].tries = daemon[d].tries
  BY <1>3, <1>5 DEF DaemonRecord
<1> QED BY <1>1, <1>2, <1>4, <1>6

LEMMA MovesAgain ==
  ASSUME Dir!DirTypeOK, NEW d \in Daemons, Dir!Again(d)
  PROVE  /\ daemon' \in [Daemons -> DaemonRecord]
         /\ \/ daemon[d].tries + 1 < MaxAttempts /\ daemon'[d] = [at |-> "claim", tries |-> daemon[d].tries + 1]
            \/ daemon[d].tries + 1 >= MaxAttempts /\ daemon'[d].at = "refused"
         /\ \A e \in Daemons : e # d => daemon'[e] = daemon[e]
<1>1. daemon \in [Daemons -> DaemonRecord]
  BY DEF Dir!DirTypeOK, DaemonRecord
<1>2. daemon[d] \in DaemonRecord /\ daemon[d].tries \in 0..MaxAttempts
  BY <1>1 DEF DaemonRecord
<1>3. CASE daemon[d].tries + 1 < MaxAttempts
  <2> DEFINE new == [at |-> "claim", tries |-> daemon[d].tries + 1]
  <2>1. new \in DaemonRecord
    BY <1>2, <1>3, DaemonAssumption DEF DaemonRecord, Dir!DaemonSteps, Dir!Starting
  <2>2. daemon' = [daemon EXCEPT ![d] = new]
    BY <1>1, <1>3 DEF Dir!Again
  <2> QED BY <1>1, <1>3, <2>1, <2>2
<1>4. CASE ~ (daemon[d].tries + 1 < MaxAttempts)
  <2> DEFINE new == [daemon[d] EXCEPT !.at = "refused"]
  <2>1. new \in DaemonRecord /\ new.at = "refused"
    BY <1>2 DEF DaemonRecord, Dir!DaemonSteps
  <2>2. daemon' = [daemon EXCEPT ![d] = new]
    BY <1>1, <1>4 DEF Dir!Again
  <2>3. daemon'[d] = new
    BY <1>1, <2>2
  <2> QED BY <1>1, <1>2, <1>4, <2>1, <2>2, <2>3, DaemonAssumption
<1> QED BY <1>3, <1>4

-----------------------------------------------------------------------------
(* Every step of a daemon keeps the types, and the invariant.              *)

\* What a step does to the rest of the daemons' state, one kind of step after another.
LEMMA DaemonMoves ==
  ASSUME Dir!DirTypeOK, NEW d \in Daemons, Dir!DaemonStep(d)
  PROVE  /\ daemon' \in [Daemons -> DaemonRecord]
         /\ \A e \in Daemons : e # d => daemon'[e] = daemon[e]
<1>0. daemon \in [Daemons -> DaemonRecord]
  BY DEF Dir!DirTypeOK, DaemonRecord
<1>1. CASE Dir!Start(d)
  <2>1. Dir!To(d, "listen")
    BY <1>1 DEF Dir!Start
  <2> QED BY <2>1, Moves DEF Dir!DaemonSteps, Dir!Starting, Dir!Owning, Dir!Stopping, Dir!Ended
<1>2. CASE Dir!Acquire(d)
  <2>1. Dir!To(d, "claim") \/ Dir!To(d, "refused")
    BY <1>2 DEF Dir!Acquire
  <2> QED BY <2>1, Moves DEF Dir!DaemonSteps, Dir!Starting, Dir!Owning, Dir!Stopping, Dir!Ended
<1>3. CASE Dir!Claim(d)
  <2>1. Dir!To(d, "write") \/ Dir!To(d, "incumbent")
    BY <1>3 DEF Dir!Claim
  <2> QED BY <2>1, Moves DEF Dir!DaemonSteps, Dir!Starting, Dir!Owning, Dir!Stopping, Dir!Ended
<1>4. CASE Dir!Write(d)
  <2>1. Dir!To(d, "readback")
    BY <1>4 DEF Dir!Write
  <2> QED BY <2>1, Moves DEF Dir!DaemonSteps, Dir!Starting, Dir!Owning, Dir!Stopping, Dir!Ended
<1>5. CASE Dir!ReadBack(d)
  <2>1. Dir!To(d, "owner") \/ Dir!To(d, "refused")
    BY <1>5 DEF Dir!ReadBack
  <2> QED BY <2>1, Moves DEF Dir!DaemonSteps, Dir!Starting, Dir!Owning, Dir!Stopping, Dir!Ended
<1>6. CASE Dir!Incumbent(d)
  <2>1. Dir!To(d, "refused") \/ Dir!To(d, "mark")
    BY <1>6 DEF Dir!Incumbent
  <2> QED BY <2>1, Moves DEF Dir!DaemonSteps, Dir!Starting, Dir!Owning, Dir!Stopping, Dir!Ended
<1>7. CASE Dir!Mark(d)
  <2>1. Dir!To(d, "markwrite") \/ Dir!To(d, "markread")
    BY <1>7 DEF Dir!Mark
  <2> QED BY <2>1, Moves DEF Dir!DaemonSteps, Dir!Starting, Dir!Owning, Dir!Stopping, Dir!Ended
<1>8. CASE Dir!MarkWrite(d)
  <2>1. Dir!To(d, "recheck")
    BY <1>8 DEF Dir!MarkWrite
  <2> QED BY <2>1, Moves DEF Dir!DaemonSteps, Dir!Starting, Dir!Owning, Dir!Stopping, Dir!Ended
<1>9. CASE Dir!MarkRead(d)
  <2>1. Dir!To(d, "refused") \/ Dir!To(d, "unstale")
    BY <1>9 DEF Dir!MarkRead
  <2> QED BY <2>1, Moves DEF Dir!DaemonSteps, Dir!Starting, Dir!Owning, Dir!Stopping, Dir!Ended
<1>10. CASE Dir!Recheck(d)
  <2>1. Dir!To(d, "refused") \/ Dir!To(d, "unlink")
    BY <1>10 DEF Dir!Recheck
  <2> QED BY <2>1, Moves DEF Dir!DaemonSteps, Dir!Starting, Dir!Owning, Dir!Stopping, Dir!Ended
<1>11. CASE Dir!Unlink(d)
  <2>1. Dir!To(d, "unmark")
    BY <1>11 DEF Dir!Unlink
  <2> QED BY <2>1, Moves DEF Dir!DaemonSteps, Dir!Starting, Dir!Owning, Dir!Stopping, Dir!Ended
<1>12. CASE Dir!Unwind(d)
  <2>1. Dir!To(d, "dead")
    BY <1>12 DEF Dir!Unwind
  <2> QED BY <2>1, Moves DEF Dir!DaemonSteps, Dir!Starting, Dir!Owning, Dir!Stopping, Dir!Ended
<1>13. CASE Dir!Stop(d)
  <2>1. Dir!To(d, "closing")
    BY <1>13 DEF Dir!Stop
  <2> QED BY <2>1, Moves DEF Dir!DaemonSteps, Dir!Starting, Dir!Owning, Dir!Stopping, Dir!Ended
<1>14. CASE Dir!Release(d)
  <2>1. Dir!To(d, "releasing") \/ Dir!To(d, "removing")
    BY <1>14 DEF Dir!Release
  <2> QED BY <2>1, Moves DEF Dir!DaemonSteps, Dir!Starting, Dir!Owning, Dir!Stopping, Dir!Ended
<1>15. CASE Dir!Remove(d)
  <2>1. Dir!To(d, "releasing")
    BY <1>15 DEF Dir!Remove
  <2> QED BY <2>1, Moves DEF Dir!DaemonSteps, Dir!Starting, Dir!Owning, Dir!Stopping, Dir!Ended
<1>16. CASE Dir!ReleaseOsLock(d)
  <2>1. Dir!To(d, "dead")
    BY <1>16 DEF Dir!ReleaseOsLock
  <2> QED BY <2>1, Moves DEF Dir!DaemonSteps, Dir!Starting, Dir!Owning, Dir!Stopping, Dir!Ended
<1>17. CASE Dir!Kill(d)
  <2>1. Dir!To(d, "dead")
    BY <1>17 DEF Dir!Kill
  <2> QED BY <2>1, Moves DEF Dir!DaemonSteps, Dir!Starting, Dir!Owning, Dir!Stopping, Dir!Ended
<1>18. CASE Dir!Unstale(d)
  BY <1>18, MovesAgain DEF Dir!Unstale
<1>19. CASE Dir!Unmark(d)
  BY <1>19, MovesAgain DEF Dir!Unmark
<1>20. CASE Dir!DaemonClaims(d)
  BY <1>0, <1>20 DEF Dir!DaemonClaims, Dir!Dir
<1>21. CASE Dir!DaemonSettles(d)
  BY <1>0, <1>21 DEF Dir!DaemonSettles, Dir!Dir
<1>22. CASE Dir!Reap(d)
  BY <1>0, <1>22 DEF Dir!Reap, Dir!Dir
<1> QED BY <1>1, <1>2, <1>3, <1>4, <1>5, <1>6, <1>7, <1>8, <1>9, <1>10, <1>11, <1>12, <1>13, <1>14, <1>15, <1>16, <1>17, <1>18, <1>19, <1>20, <1>21, <1>22 DEF Dir!DaemonStep

LEMMA Filled ==
  ASSUME NEW f \in [by : Daemons, written : BOOLEAN]
  PROVE  [f EXCEPT !.written = TRUE] = [by |-> f.by, written |-> TRUE]
<1> DEFINE g == [f EXCEPT !.written = TRUE]
<1>1. g \in [by : Daemons, written : BOOLEAN] /\ g.by = f.by /\ g.written = TRUE
  OBVIOUS
<1> HIDE DEF g
<1>2. g = [by |-> f.by, written |-> TRUE]
  BY <1>1
<1> QED BY <1>2 DEF g

LEMMA DaemonFiles ==
  ASSUME Dir!DirTypeOK, NEW d \in Daemons, Dir!DaemonStep(d)
  PROVE  /\ record' \in Dir!FilesOf /\ marker' \in Dir!FilesOf
         /\ kernel' \in Daemons \cup {0} /\ UNCHANGED <<locks, containers, command>>
         /\ row' \in {"queued", "running", "good"} /\ workers' \subseteq Daemons \cup Commands
<1> DEFINE fresh == [by |-> d, written |-> FALSE]
<1> DEFINE full == [by |-> d, written |-> TRUE]
<1>a. Dir!NoFile \in Dir!FilesOf /\ fresh \in Dir!FilesOf /\ full \in Dir!FilesOf
  BY DEF Dir!FilesOf, Dir!NoFile
<1>b. [fresh EXCEPT !.written = TRUE] = full
  <2>1. fresh \in [by : Daemons, written : BOOLEAN] /\ fresh.by = d
    OBVIOUS
  <2> HIDE DEF fresh
  <2>2. [fresh EXCEPT !.written = TRUE] = [by |-> fresh.by, written |-> TRUE]
    BY <2>1, Filled
  <2> QED BY <2>1, <2>2
<1>c. /\ record \in Dir!FilesOf /\ marker \in Dir!FilesOf /\ kernel \in Daemons \cup {0}
      /\ row \in {"queued", "running", "good"} /\ workers \subseteq Daemons \cup Commands
  BY DEF Dir!DirTypeOK, Dir!Nobody
<1> HIDE DEF fresh, full
<1>1. CASE Dir!Start(d)
  BY <1>a, <1>c, <1>1 DEF Dir!Start, Dir!Rest, Dir!Files3, Dir!Dir, Dir!Nobody, fresh
<1>2. CASE Dir!Acquire(d)
  BY <1>a, <1>c, <1>2 DEF Dir!Acquire, Dir!Rest, Dir!Files3, Dir!Dir, Dir!Nobody, fresh
<1>3. CASE Dir!Claim(d)
  BY <1>a, <1>c, <1>3 DEF Dir!Claim, Dir!Rest, Dir!Files3, Dir!Dir, Dir!Nobody, fresh
<1>4. CASE Dir!Write(d)
  <2>1. record' = IF record = fresh THEN full ELSE record
    BY <1>4, <1>b DEF Dir!Write, fresh
  <2> QED BY <1>a, <1>c, <1>4, <2>1 DEF Dir!Write, Dir!Rest
<1>5. CASE Dir!ReadBack(d)
  BY <1>a, <1>c, <1>5 DEF Dir!ReadBack, Dir!Rest, Dir!Files3, Dir!Dir, Dir!Nobody, fresh
<1>6. CASE Dir!Incumbent(d)
  BY <1>a, <1>c, <1>6 DEF Dir!Incumbent, Dir!Rest, Dir!Files3, Dir!Dir, Dir!Nobody, fresh
<1>7. CASE Dir!Mark(d)
  BY <1>a, <1>c, <1>7 DEF Dir!Mark, Dir!Rest, Dir!Files3, Dir!Dir, Dir!Nobody, fresh
<1>8. CASE Dir!MarkWrite(d)
  <2>1. marker' = IF marker = fresh THEN full ELSE marker
    BY <1>8, <1>b DEF Dir!MarkWrite, fresh
  <2> QED BY <1>a, <1>c, <1>8, <2>1 DEF Dir!MarkWrite, Dir!Rest
<1>9. CASE Dir!MarkRead(d)
  BY <1>a, <1>c, <1>9 DEF Dir!MarkRead, Dir!Rest, Dir!Files3, Dir!Dir, Dir!Nobody, fresh
<1>10. CASE Dir!Unstale(d)
  BY <1>a, <1>c, <1>10 DEF Dir!Unstale, Dir!Rest, Dir!Files3, Dir!Dir, Dir!Nobody, fresh
<1>11. CASE Dir!Recheck(d)
  BY <1>a, <1>c, <1>11 DEF Dir!Recheck, Dir!Rest, Dir!Files3, Dir!Dir, Dir!Nobody, fresh
<1>12. CASE Dir!Unlink(d)
  BY <1>a, <1>c, <1>12 DEF Dir!Unlink, Dir!Rest, Dir!Files3, Dir!Dir, Dir!Nobody, fresh
<1>13. CASE Dir!Unmark(d)
  BY <1>a, <1>c, <1>13 DEF Dir!Unmark, Dir!Rest, Dir!Files3, Dir!Dir, Dir!Nobody, fresh
<1>14. CASE Dir!Unwind(d)
  BY <1>a, <1>c, <1>14 DEF Dir!Unwind, Dir!Rest, Dir!Files3, Dir!Dir, Dir!Nobody, fresh
<1>15. CASE Dir!Stop(d)
  BY <1>a, <1>c, <1>15 DEF Dir!Stop, Dir!Rest, Dir!Files3, Dir!Dir, Dir!Nobody, fresh
<1>16. CASE Dir!Release(d)
  BY <1>a, <1>c, <1>16 DEF Dir!Release, Dir!Rest, Dir!Files3, Dir!Dir, Dir!Nobody, fresh
<1>17. CASE Dir!Remove(d)
  BY <1>a, <1>c, <1>17 DEF Dir!Remove, Dir!Rest, Dir!Files3, Dir!Dir, Dir!Nobody, fresh
<1>18. CASE Dir!ReleaseOsLock(d)
  BY <1>a, <1>c, <1>18 DEF Dir!ReleaseOsLock, Dir!Rest, Dir!Files3, Dir!Dir, Dir!Nobody, fresh
<1>19. CASE Dir!Kill(d)
  BY <1>a, <1>c, <1>19 DEF Dir!Kill, Dir!Rest, Dir!Files3, Dir!Dir, Dir!Nobody, fresh
<1>20. CASE Dir!DaemonClaims(d)
  BY <1>a, <1>c, <1>20 DEF Dir!DaemonClaims, Dir!Rest, Dir!Files3, Dir!Dir, Dir!Nobody, fresh
<1>21. CASE Dir!DaemonSettles(d)
  BY <1>a, <1>c, <1>21 DEF Dir!DaemonSettles, Dir!Rest, Dir!Files3, Dir!Dir, Dir!Nobody, fresh
<1>22. CASE Dir!Reap(d)
  BY <1>a, <1>c, <1>22 DEF Dir!Reap, Dir!Rest, Dir!Files3, Dir!Dir, Dir!Nobody, fresh
<1> QED BY <1>1, <1>2, <1>3, <1>4, <1>5, <1>6, <1>7, <1>8, <1>9, <1>10, <1>11, <1>12, <1>13, <1>14, <1>15, <1>16, <1>17, <1>18, <1>19, <1>20, <1>21, <1>22 DEF Dir!DaemonStep

LEMMA CommandTypes ==
  ASSUME Dir!DirTypeOK, NEW c \in Commands, Dir!CommandStep(c)
  PROVE  Dir!DirTypeOK' /\ UNCHANGED Dir!Dir
<1>0. command \in [Commands -> {"none", "client", "run", "requeue", "running", "done"}]
  BY DEF Dir!DirTypeOK
<1>1. UNCHANGED Dir!Dir
  BY DEF Dir!CommandStep, Dir!Resolve, Dir!ClientRequeue, Dir!DirectRequeue, Dir!RunClaims, Dir!RunSettles
<1>2. command' \in [Commands -> {"none", "client", "run", "requeue", "running", "done"}]
  BY <1>0 DEF Dir!CommandStep, Dir!Resolve, Dir!ClientRequeue, Dir!DirectRequeue, Dir!RunClaims, Dir!RunSettles
<1>3. row' \in {"queued", "running", "good"} /\ workers' \subseteq Daemons \cup Commands
  BY DEF Dir!DirTypeOK, Dir!CommandStep, Dir!Resolve, Dir!ClientRequeue, Dir!DirectRequeue, Dir!RunClaims,
         Dir!RunSettles
<1> QED BY <1>1, <1>2, <1>3 DEF Dir!DirTypeOK, Dir!Dir, Dir!FilesOf, Dir!NoFile

LEMMA DirTypes == Dir!DirTypeOK /\ [Dir!DirNext]_dirVars => Dir!DirTypeOK'
<1> SUFFICES ASSUME Dir!DirTypeOK, [Dir!DirNext]_dirVars PROVE Dir!DirTypeOK'
  OBVIOUS
<1>1. ASSUME NEW d \in Daemons, Dir!DaemonStep(d) PROVE Dir!DirTypeOK'
  BY <1>1, DaemonMoves, DaemonFiles DEF Dir!DirTypeOK, DaemonRecord, Dir!Nobody, Dir!FilesOf, Dir!NoFile
<1>2. ASSUME NEW c \in Commands, Dir!CommandStep(c) PROVE Dir!DirTypeOK'
  BY <1>2, CommandTypes
<1>3. CASE UNCHANGED dirVars
  BY <1>3 DEF dirVars, Dir!DirTypeOK, Dir!FilesOf, Dir!NoFile
<1> QED BY <1>1, <1>2, <1>3 DEF Dir!DirNext

-----------------------------------------------------------------------------
(* Under the lock, a daemon writes only what it holds.                     *)

LEMMA LockGuards ==
  ASSUME Dir!DirTypeOK, DirInv, locks, NEW d \in Daemons, Dir!DaemonStep(d)
  PROVE  /\ UNCHANGED kernel \/ (kernel \in {d, 0} /\ kernel' \in {d, 0})
         /\ UNCHANGED <<record, marker>> \/ kernel = d
<1>1. Dir!At(d) \in Locked => kernel = d
  BY DEF DirInv, LockHeld
<1>2. CASE Dir!Start(d)
  BY <1>1, <1>2 DEF Dir!Start, Dir!Rest, Dir!Files3, Dir!Dir, Dir!Nobody, Locked
<1>3. CASE Dir!Acquire(d)
  BY <1>1, <1>3 DEF Dir!Acquire, Dir!Rest, Dir!Files3, Dir!Dir, Dir!Nobody, Locked
<1>4. CASE Dir!Claim(d)
  BY <1>1, <1>4 DEF Dir!Claim, Dir!Rest, Dir!Files3, Dir!Dir, Dir!Nobody, Locked
<1>5. CASE Dir!Write(d)
  BY <1>1, <1>5 DEF Dir!Write, Dir!Rest, Dir!Files3, Dir!Dir, Dir!Nobody, Locked
<1>6. CASE Dir!ReadBack(d)
  BY <1>1, <1>6 DEF Dir!ReadBack, Dir!Rest, Dir!Files3, Dir!Dir, Dir!Nobody, Locked
<1>7. CASE Dir!Incumbent(d)
  BY <1>1, <1>7 DEF Dir!Incumbent, Dir!Rest, Dir!Files3, Dir!Dir, Dir!Nobody, Locked
<1>8. CASE Dir!Mark(d)
  BY <1>1, <1>8 DEF Dir!Mark, Dir!Rest, Dir!Files3, Dir!Dir, Dir!Nobody, Locked
<1>9. CASE Dir!MarkWrite(d)
  BY <1>1, <1>9 DEF Dir!MarkWrite, Dir!Rest, Dir!Files3, Dir!Dir, Dir!Nobody, Locked
<1>10. CASE Dir!MarkRead(d)
  BY <1>1, <1>10 DEF Dir!MarkRead, Dir!Rest, Dir!Files3, Dir!Dir, Dir!Nobody, Locked
<1>11. CASE Dir!Unstale(d)
  BY <1>1, <1>11 DEF Dir!Unstale, Dir!Rest, Dir!Files3, Dir!Dir, Dir!Nobody, Locked
<1>12. CASE Dir!Recheck(d)
  BY <1>1, <1>12 DEF Dir!Recheck, Dir!Rest, Dir!Files3, Dir!Dir, Dir!Nobody, Locked
<1>13. CASE Dir!Unlink(d)
  BY <1>1, <1>13 DEF Dir!Unlink, Dir!Rest, Dir!Files3, Dir!Dir, Dir!Nobody, Locked
<1>14. CASE Dir!Unmark(d)
  BY <1>1, <1>14 DEF Dir!Unmark, Dir!Rest, Dir!Files3, Dir!Dir, Dir!Nobody, Locked
<1>15. CASE Dir!Unwind(d)
  BY <1>1, <1>15 DEF Dir!Unwind, Dir!Rest, Dir!Files3, Dir!Dir, Dir!Nobody, Locked
<1>16. CASE Dir!Stop(d)
  BY <1>1, <1>16 DEF Dir!Stop, Dir!Rest, Dir!Files3, Dir!Dir, Dir!Nobody, Locked
<1>17. CASE Dir!Release(d)
  BY <1>1, <1>17 DEF Dir!Release, Dir!Rest, Dir!Files3, Dir!Dir, Dir!Nobody, Locked
<1>18. CASE Dir!Remove(d)
  BY <1>1, <1>18 DEF Dir!Remove, Dir!Rest, Dir!Files3, Dir!Dir, Dir!Nobody, Locked
<1>19. CASE Dir!ReleaseOsLock(d)
  BY <1>1, <1>19 DEF Dir!ReleaseOsLock, Dir!Rest, Dir!Files3, Dir!Dir, Dir!Nobody, Locked
<1>20. CASE Dir!Kill(d)
  BY <1>1, <1>20 DEF Dir!Kill, Dir!Rest, Dir!Files3, Dir!Dir, Dir!Nobody, Locked
<1>21. CASE Dir!DaemonClaims(d)
  BY <1>1, <1>21 DEF Dir!DaemonClaims, Dir!Rest, Dir!Files3, Dir!Dir, Dir!Nobody, Locked
<1>22. CASE Dir!DaemonSettles(d)
  BY <1>1, <1>22 DEF Dir!DaemonSettles, Dir!Rest, Dir!Files3, Dir!Dir, Dir!Nobody, Locked
<1>23. CASE Dir!Reap(d)
  BY <1>1, <1>23 DEF Dir!Reap, Dir!Rest, Dir!Files3, Dir!Dir, Dir!Nobody, Locked
<1> QED BY <1>2, <1>3, <1>4, <1>5, <1>6, <1>7, <1>8, <1>9, <1>10, <1>11, <1>12, <1>13, <1>14, <1>15, <1>16, <1>17, <1>18, <1>19, <1>20, <1>21, <1>22, <1>23 DEF Dir!DaemonStep

LEMMA OthersHold ==
  ASSUME Dir!DirTypeOK, DirInv, locks, NEW d \in Daemons, Dir!DaemonStep(d),
         NEW e \in Daemons, e # d
  PROVE  LockHeld(e)' /\ RecordHeld(e)' /\ AttemptsLeft(e)'
<1>1. daemon'[e] = daemon[e]
  BY DaemonMoves
<1>2. LockHeld(e) /\ RecordHeld(e) /\ AttemptsLeft(e)
  BY DEF DirInv
<1>3. e # 0
  BY DaemonAssumption
<1>4. Dir!At(e)' = Dir!At(e)
  BY <1>1 DEF Dir!At
<1>5. LockHeld(e)'
  <2>1. UNCHANGED kernel \/ (kernel \in {d, 0} /\ kernel' \in {d, 0})
    BY LockGuards
  <2> QED BY <1>2, <1>3, <1>4, <2>1 DEF LockHeld
<1>6. CASE kernel = d
  <2>1. Dir!At(e) \notin Locked
    BY <1>2, <1>6 DEF LockHeld
  <2>2. RecordHeld(e)'
    BY <1>4, <2>1 DEF RecordHeld, Locked
  <2>3. AttemptsLeft(e)'
    BY <1>1, <1>2, <1>4, <2>1 DEF AttemptsLeft, Locked
  <2> QED BY <1>5, <2>2, <2>3
<1>7. CASE UNCHANGED <<record, marker>>
  <2>1. RecordHeld(e)'
    BY <1>2, <1>4, <1>7 DEF RecordHeld
  <2>2. AttemptsLeft(e)'
    BY <1>1, <1>2, <1>4, <1>7 DEF AttemptsLeft, FirstAttempts, Dir!NoFile
  <2> QED BY <1>5, <2>1, <2>2
<1> QED BY <1>6, <1>7, LockGuards

LEMMA SelfHolds ==
  ASSUME Dir!DirTypeOK, DirInv, locks, NEW d \in Daemons, Dir!DaemonStep(d)
  PROVE  LockHeld(d)' /\ RecordHeld(d)' /\ AttemptsLeft(d)'
<1>0. LockHeld(d) /\ RecordHeld(d) /\ AttemptsLeft(d) /\ d # 0
  BY DaemonAssumption DEF DirInv
<1>a. daemon[d].tries \in 0..MaxAttempts /\ daemon \in [Daemons -> DaemonRecord]
  BY DEF Dir!DirTypeOK, DaemonRecord
<1> DEFINE fresh == [by |-> d, written |-> FALSE]
<1> DEFINE full == [by |-> d, written |-> TRUE]
<1>b. [fresh EXCEPT !.written = TRUE] = full
  <2>1. fresh \in [by : Daemons, written : BOOLEAN] /\ fresh.by = d
    OBVIOUS
  <2> HIDE DEF fresh
  <2>2. [fresh EXCEPT !.written = TRUE] = [by |-> fresh.by, written |-> TRUE]
    BY <2>1, Filled
  <2> QED BY <2>1, <2>2
<1>1. CASE Dir!Start(d)
  <2>1. Dir!To(d, "listen") => Dir!At(d)' = "listen" /\ daemon'[d].tries = daemon[d].tries
    BY Moves DEF Dir!At, Dir!DaemonSteps, Dir!Starting, Dir!Owning, Dir!Stopping, Dir!Ended
  <2>2. LockHeld(d)'
    BY <1>0, <1>1, <2>1 DEF Dir!Start, Dir!Rest, Dir!Files3, Dir!Nobody, LockHeld, Locked, Outside
  <2>3. RecordHeld(d)'
    BY <1>0, <1>b, <1>1, <2>1 DEF Dir!Start, Dir!Rest, Dir!Files3, Dir!Nobody, LockHeld, RecordHeld, Locked
  <2>4. AttemptsLeft(d)'
    BY <1>0, <1>a, <1>1, <2>1 DEF Dir!Start, Dir!Rest, Dir!Files3, Dir!Nobody, AttemptsLeft, FirstAttempts
  <2> QED BY <2>2, <2>3, <2>4
<1>2. CASE Dir!Acquire(d)
  <2>1. Dir!To(d, "claim") => Dir!At(d)' = "claim" /\ daemon'[d].tries = daemon[d].tries
    BY Moves DEF Dir!At, Dir!DaemonSteps, Dir!Starting, Dir!Owning, Dir!Stopping, Dir!Ended
  <2>2. Dir!To(d, "refused") => Dir!At(d)' = "refused" /\ daemon'[d].tries = daemon[d].tries
    BY Moves DEF Dir!At, Dir!DaemonSteps, Dir!Starting, Dir!Owning, Dir!Stopping, Dir!Ended
  <2>3. LockHeld(d)'
    BY <1>0, <1>2, <2>1, <2>2 DEF Dir!Acquire, Dir!Rest, Dir!Files3, Dir!Nobody, LockHeld, Locked, Outside
  <2>4. RecordHeld(d)'
    BY <1>0, <1>b, <1>2, <2>1, <2>2 DEF Dir!Acquire, Dir!Rest, Dir!Files3, Dir!Nobody, LockHeld, RecordHeld, Locked
  <2>5. AttemptsLeft(d)'
    BY <1>0, <1>a, <1>2, <2>1, <2>2 DEF Dir!Acquire, Dir!Rest, Dir!Files3, Dir!Nobody, AttemptsLeft, FirstAttempts
  <2> QED BY <2>3, <2>4, <2>5
<1>3. CASE Dir!Claim(d)
  <2>1. Dir!To(d, "write") => Dir!At(d)' = "write" /\ daemon'[d].tries = daemon[d].tries
    BY Moves DEF Dir!At, Dir!DaemonSteps, Dir!Starting, Dir!Owning, Dir!Stopping, Dir!Ended
  <2>2. Dir!To(d, "incumbent") => Dir!At(d)' = "incumbent" /\ daemon'[d].tries = daemon[d].tries
    BY Moves DEF Dir!At, Dir!DaemonSteps, Dir!Starting, Dir!Owning, Dir!Stopping, Dir!Ended
  <2>3. LockHeld(d)'
    BY <1>0, <1>3, <2>1, <2>2 DEF Dir!Claim, Dir!Rest, Dir!Files3, Dir!Nobody, LockHeld, Locked, Outside
  <2>4. RecordHeld(d)'
    BY <1>0, <1>b, <1>3, <2>1, <2>2 DEF Dir!Claim, Dir!Rest, Dir!Files3, Dir!Nobody, LockHeld, RecordHeld, Locked
  <2>5. AttemptsLeft(d)'
    BY <1>0, <1>a, <1>3, <2>1, <2>2 DEF Dir!Claim, Dir!Rest, Dir!Files3, Dir!Nobody, AttemptsLeft, FirstAttempts
  <2> QED BY <2>3, <2>4, <2>5
<1>4. CASE Dir!Write(d)
  <2>1. Dir!To(d, "readback") => Dir!At(d)' = "readback" /\ daemon'[d].tries = daemon[d].tries
    BY Moves DEF Dir!At, Dir!DaemonSteps, Dir!Starting, Dir!Owning, Dir!Stopping, Dir!Ended
  <2>2. LockHeld(d)'
    BY <1>0, <1>4, <2>1 DEF Dir!Write, Dir!Rest, Dir!Files3, Dir!Nobody, LockHeld, Locked, Outside
  <2>3. RecordHeld(d)'
    BY <1>0, <1>b, <1>4, <2>1 DEF Dir!Write, Dir!Rest, Dir!Files3, Dir!Nobody, LockHeld, RecordHeld, Locked
  <2>4. AttemptsLeft(d)'
    BY <1>0, <1>a, <1>4, <2>1 DEF Dir!Write, Dir!Rest, Dir!Files3, Dir!Nobody, AttemptsLeft, FirstAttempts
  <2> QED BY <2>2, <2>3, <2>4
<1>5. CASE Dir!ReadBack(d)
  <2>1. Dir!To(d, "owner") => Dir!At(d)' = "owner" /\ daemon'[d].tries = daemon[d].tries
    BY Moves DEF Dir!At, Dir!DaemonSteps, Dir!Starting, Dir!Owning, Dir!Stopping, Dir!Ended
  <2>2. Dir!To(d, "refused") => Dir!At(d)' = "refused" /\ daemon'[d].tries = daemon[d].tries
    BY Moves DEF Dir!At, Dir!DaemonSteps, Dir!Starting, Dir!Owning, Dir!Stopping, Dir!Ended
  <2>3. LockHeld(d)'
    BY <1>0, <1>5, <2>1, <2>2 DEF Dir!ReadBack, Dir!Rest, Dir!Files3, Dir!Nobody, LockHeld, Locked, Outside
  <2>4. RecordHeld(d)'
    BY <1>0, <1>b, <1>5, <2>1, <2>2 DEF Dir!ReadBack, Dir!Rest, Dir!Files3, Dir!Nobody, LockHeld, RecordHeld, Locked
  <2>5. AttemptsLeft(d)'
    BY <1>0, <1>a, <1>5, <2>1, <2>2 DEF Dir!ReadBack, Dir!Rest, Dir!Files3, Dir!Nobody, AttemptsLeft, FirstAttempts
  <2> QED BY <2>3, <2>4, <2>5
<1>6. CASE Dir!Incumbent(d)
  <2>1. Dir!To(d, "refused") => Dir!At(d)' = "refused" /\ daemon'[d].tries = daemon[d].tries
    BY Moves DEF Dir!At, Dir!DaemonSteps, Dir!Starting, Dir!Owning, Dir!Stopping, Dir!Ended
  <2>2. Dir!To(d, "mark") => Dir!At(d)' = "mark" /\ daemon'[d].tries = daemon[d].tries
    BY Moves DEF Dir!At, Dir!DaemonSteps, Dir!Starting, Dir!Owning, Dir!Stopping, Dir!Ended
  <2>3. LockHeld(d)'
    BY <1>0, <1>6, <2>1, <2>2 DEF Dir!Incumbent, Dir!Rest, Dir!Files3, Dir!Nobody, LockHeld, Locked, Outside
  <2>4. RecordHeld(d)'
    BY <1>0, <1>b, <1>6, <2>1, <2>2 DEF Dir!Incumbent, Dir!Rest, Dir!Files3, Dir!Nobody, LockHeld, RecordHeld, Locked
  <2>5. AttemptsLeft(d)'
    BY <1>0, <1>a, <1>6, <2>1, <2>2 DEF Dir!Incumbent, Dir!Rest, Dir!Files3, Dir!Nobody, AttemptsLeft, FirstAttempts
  <2> QED BY <2>3, <2>4, <2>5
<1>7. CASE Dir!Mark(d)
  <2>1. Dir!To(d, "markwrite") => Dir!At(d)' = "markwrite" /\ daemon'[d].tries = daemon[d].tries
    BY Moves DEF Dir!At, Dir!DaemonSteps, Dir!Starting, Dir!Owning, Dir!Stopping, Dir!Ended
  <2>2. Dir!To(d, "markread") => Dir!At(d)' = "markread" /\ daemon'[d].tries = daemon[d].tries
    BY Moves DEF Dir!At, Dir!DaemonSteps, Dir!Starting, Dir!Owning, Dir!Stopping, Dir!Ended
  <2>3. LockHeld(d)'
    BY <1>0, <1>7, <2>1, <2>2 DEF Dir!Mark, Dir!Rest, Dir!Files3, Dir!Nobody, LockHeld, Locked, Outside
  <2>4. RecordHeld(d)'
    BY <1>0, <1>b, <1>7, <2>1, <2>2 DEF Dir!Mark, Dir!Rest, Dir!Files3, Dir!Nobody, LockHeld, RecordHeld, Locked
  <2>5. AttemptsLeft(d)'
    BY <1>0, <1>a, <1>7, <2>1, <2>2 DEF Dir!Mark, Dir!Rest, Dir!Files3, Dir!Nobody, AttemptsLeft, FirstAttempts
  <2> QED BY <2>3, <2>4, <2>5
<1>8. CASE Dir!MarkWrite(d)
  <2>1. Dir!To(d, "recheck") => Dir!At(d)' = "recheck" /\ daemon'[d].tries = daemon[d].tries
    BY Moves DEF Dir!At, Dir!DaemonSteps, Dir!Starting, Dir!Owning, Dir!Stopping, Dir!Ended
  <2>2. LockHeld(d)'
    BY <1>0, <1>8, <2>1 DEF Dir!MarkWrite, Dir!Rest, Dir!Files3, Dir!Nobody, LockHeld, Locked, Outside
  <2>3. RecordHeld(d)'
    BY <1>0, <1>b, <1>8, <2>1 DEF Dir!MarkWrite, Dir!Rest, Dir!Files3, Dir!Nobody, LockHeld, RecordHeld, Locked
  <2>4. AttemptsLeft(d)'
    BY <1>0, <1>a, <1>8, <2>1 DEF Dir!MarkWrite, Dir!Rest, Dir!Files3, Dir!Nobody, AttemptsLeft, FirstAttempts
  <2> QED BY <2>2, <2>3, <2>4
<1>9. CASE Dir!MarkRead(d)
  <2>1. Dir!To(d, "refused") => Dir!At(d)' = "refused" /\ daemon'[d].tries = daemon[d].tries
    BY Moves DEF Dir!At, Dir!DaemonSteps, Dir!Starting, Dir!Owning, Dir!Stopping, Dir!Ended
  <2>2. Dir!To(d, "unstale") => Dir!At(d)' = "unstale" /\ daemon'[d].tries = daemon[d].tries
    BY Moves DEF Dir!At, Dir!DaemonSteps, Dir!Starting, Dir!Owning, Dir!Stopping, Dir!Ended
  <2>3. LockHeld(d)'
    BY <1>0, <1>9, <2>1, <2>2 DEF Dir!MarkRead, Dir!Rest, Dir!Files3, Dir!Nobody, LockHeld, Locked, Outside
  <2>4. RecordHeld(d)'
    BY <1>0, <1>b, <1>9, <2>1, <2>2 DEF Dir!MarkRead, Dir!Rest, Dir!Files3, Dir!Nobody, LockHeld, RecordHeld, Locked
  <2>5. AttemptsLeft(d)'
    BY <1>0, <1>a, <1>9, <2>1, <2>2 DEF Dir!MarkRead, Dir!Rest, Dir!Files3, Dir!Nobody, AttemptsLeft, FirstAttempts
  <2> QED BY <2>3, <2>4, <2>5
<1>10. CASE Dir!Recheck(d)
  <2>1. Dir!To(d, "refused") => Dir!At(d)' = "refused" /\ daemon'[d].tries = daemon[d].tries
    BY Moves DEF Dir!At, Dir!DaemonSteps, Dir!Starting, Dir!Owning, Dir!Stopping, Dir!Ended
  <2>2. Dir!To(d, "unlink") => Dir!At(d)' = "unlink" /\ daemon'[d].tries = daemon[d].tries
    BY Moves DEF Dir!At, Dir!DaemonSteps, Dir!Starting, Dir!Owning, Dir!Stopping, Dir!Ended
  <2>3. LockHeld(d)'
    BY <1>0, <1>10, <2>1, <2>2 DEF Dir!Recheck, Dir!Rest, Dir!Files3, Dir!Nobody, LockHeld, Locked, Outside
  <2>4. RecordHeld(d)'
    BY <1>0, <1>b, <1>10, <2>1, <2>2 DEF Dir!Recheck, Dir!Rest, Dir!Files3, Dir!Nobody, LockHeld, RecordHeld, Locked
  <2>5. AttemptsLeft(d)'
    BY <1>0, <1>a, <1>10, <2>1, <2>2 DEF Dir!Recheck, Dir!Rest, Dir!Files3, Dir!Nobody, AttemptsLeft, FirstAttempts
  <2> QED BY <2>3, <2>4, <2>5
<1>11. CASE Dir!Unlink(d)
  <2>1. Dir!To(d, "unmark") => Dir!At(d)' = "unmark" /\ daemon'[d].tries = daemon[d].tries
    BY Moves DEF Dir!At, Dir!DaemonSteps, Dir!Starting, Dir!Owning, Dir!Stopping, Dir!Ended
  <2>2. LockHeld(d)'
    BY <1>0, <1>11, <2>1 DEF Dir!Unlink, Dir!Rest, Dir!Files3, Dir!Nobody, LockHeld, Locked, Outside
  <2>3. RecordHeld(d)'
    BY <1>0, <1>b, <1>11, <2>1 DEF Dir!Unlink, Dir!Rest, Dir!Files3, Dir!Nobody, LockHeld, RecordHeld, Locked
  <2>4. AttemptsLeft(d)'
    BY <1>0, <1>a, <1>11, <2>1 DEF Dir!Unlink, Dir!Rest, Dir!Files3, Dir!Nobody, AttemptsLeft, FirstAttempts
  <2> QED BY <2>2, <2>3, <2>4
<1>12. CASE Dir!Unwind(d)
  <2>1. Dir!To(d, "dead") => Dir!At(d)' = "dead" /\ daemon'[d].tries = daemon[d].tries
    BY Moves DEF Dir!At, Dir!DaemonSteps, Dir!Starting, Dir!Owning, Dir!Stopping, Dir!Ended
  <2>2. LockHeld(d)'
    BY <1>0, <1>12, <2>1 DEF Dir!Unwind, Dir!Rest, Dir!Files3, Dir!Nobody, LockHeld, Locked, Outside
  <2>3. RecordHeld(d)'
    BY <1>0, <1>b, <1>12, <2>1 DEF Dir!Unwind, Dir!Rest, Dir!Files3, Dir!Nobody, LockHeld, RecordHeld, Locked
  <2>4. AttemptsLeft(d)'
    BY <1>0, <1>a, <1>12, <2>1 DEF Dir!Unwind, Dir!Rest, Dir!Files3, Dir!Nobody, AttemptsLeft, FirstAttempts
  <2> QED BY <2>2, <2>3, <2>4
<1>13. CASE Dir!Stop(d)
  <2>1. Dir!To(d, "closing") => Dir!At(d)' = "closing" /\ daemon'[d].tries = daemon[d].tries
    BY Moves DEF Dir!At, Dir!DaemonSteps, Dir!Starting, Dir!Owning, Dir!Stopping, Dir!Ended
  <2>2. LockHeld(d)'
    BY <1>0, <1>13, <2>1 DEF Dir!Stop, Dir!Rest, Dir!Files3, Dir!Nobody, LockHeld, Locked, Outside
  <2>3. RecordHeld(d)'
    BY <1>0, <1>b, <1>13, <2>1 DEF Dir!Stop, Dir!Rest, Dir!Files3, Dir!Nobody, LockHeld, RecordHeld, Locked
  <2>4. AttemptsLeft(d)'
    BY <1>0, <1>a, <1>13, <2>1 DEF Dir!Stop, Dir!Rest, Dir!Files3, Dir!Nobody, AttemptsLeft, FirstAttempts
  <2> QED BY <2>2, <2>3, <2>4
<1>14. CASE Dir!Release(d)
  <2>1. Dir!To(d, "releasing") => Dir!At(d)' = "releasing" /\ daemon'[d].tries = daemon[d].tries
    BY Moves DEF Dir!At, Dir!DaemonSteps, Dir!Starting, Dir!Owning, Dir!Stopping, Dir!Ended
  <2>2. Dir!To(d, "removing") => Dir!At(d)' = "removing" /\ daemon'[d].tries = daemon[d].tries
    BY Moves DEF Dir!At, Dir!DaemonSteps, Dir!Starting, Dir!Owning, Dir!Stopping, Dir!Ended
  <2>3. LockHeld(d)'
    BY <1>0, <1>14, <2>1, <2>2 DEF Dir!Release, Dir!Rest, Dir!Files3, Dir!Nobody, LockHeld, Locked, Outside
  <2>4. RecordHeld(d)'
    BY <1>0, <1>b, <1>14, <2>1, <2>2 DEF Dir!Release, Dir!Rest, Dir!Files3, Dir!Nobody, LockHeld, RecordHeld, Locked
  <2>5. AttemptsLeft(d)'
    BY <1>0, <1>a, <1>14, <2>1, <2>2 DEF Dir!Release, Dir!Rest, Dir!Files3, Dir!Nobody, AttemptsLeft, FirstAttempts
  <2> QED BY <2>3, <2>4, <2>5
<1>15. CASE Dir!Remove(d)
  <2>1. Dir!To(d, "releasing") => Dir!At(d)' = "releasing" /\ daemon'[d].tries = daemon[d].tries
    BY Moves DEF Dir!At, Dir!DaemonSteps, Dir!Starting, Dir!Owning, Dir!Stopping, Dir!Ended
  <2>2. LockHeld(d)'
    BY <1>0, <1>15, <2>1 DEF Dir!Remove, Dir!Rest, Dir!Files3, Dir!Nobody, LockHeld, Locked, Outside
  <2>3. RecordHeld(d)'
    BY <1>0, <1>b, <1>15, <2>1 DEF Dir!Remove, Dir!Rest, Dir!Files3, Dir!Nobody, LockHeld, RecordHeld, Locked
  <2>4. AttemptsLeft(d)'
    BY <1>0, <1>a, <1>15, <2>1 DEF Dir!Remove, Dir!Rest, Dir!Files3, Dir!Nobody, AttemptsLeft, FirstAttempts
  <2> QED BY <2>2, <2>3, <2>4
<1>16. CASE Dir!ReleaseOsLock(d)
  <2>1. Dir!To(d, "dead") => Dir!At(d)' = "dead" /\ daemon'[d].tries = daemon[d].tries
    BY Moves DEF Dir!At, Dir!DaemonSteps, Dir!Starting, Dir!Owning, Dir!Stopping, Dir!Ended
  <2>2. LockHeld(d)'
    BY <1>0, <1>16, <2>1 DEF Dir!ReleaseOsLock, Dir!Rest, Dir!Files3, Dir!Nobody, LockHeld, Locked, Outside
  <2>3. RecordHeld(d)'
    BY <1>0, <1>b, <1>16, <2>1 DEF Dir!ReleaseOsLock, Dir!Rest, Dir!Files3, Dir!Nobody, LockHeld, RecordHeld, Locked
  <2>4. AttemptsLeft(d)'
    BY <1>0, <1>a, <1>16, <2>1 DEF Dir!ReleaseOsLock, Dir!Rest, Dir!Files3, Dir!Nobody, AttemptsLeft, FirstAttempts
  <2> QED BY <2>2, <2>3, <2>4
<1>17. CASE Dir!Kill(d)
  <2>1. Dir!To(d, "dead") => Dir!At(d)' = "dead" /\ daemon'[d].tries = daemon[d].tries
    BY Moves DEF Dir!At, Dir!DaemonSteps, Dir!Starting, Dir!Owning, Dir!Stopping, Dir!Ended
  <2>2. LockHeld(d)'
    BY <1>0, <1>17, <2>1 DEF Dir!Kill, Dir!Rest, Dir!Files3, Dir!Nobody, LockHeld, Locked, Outside
  <2>3. RecordHeld(d)'
    BY <1>0, <1>b, <1>17, <2>1 DEF Dir!Kill, Dir!Rest, Dir!Files3, Dir!Nobody, LockHeld, RecordHeld, Locked
  <2>4. AttemptsLeft(d)'
    BY <1>0, <1>a, <1>17, <2>1 DEF Dir!Kill, Dir!Rest, Dir!Files3, Dir!Nobody, AttemptsLeft, FirstAttempts
  <2> QED BY <2>2, <2>3, <2>4
<1>18. CASE Dir!Unstale(d)
  <2>1. Dir!Again(d) /\ kernel' = kernel /\ kernel = d /\ daemon[d].tries \in {0, 1} /\ marker' = Dir!NoFile
    BY <1>0, <1>a, <1>18 DEF Dir!Unstale, Dir!Rest, LockHeld, Locked, AttemptsLeft
  <2>2. daemon'[d] = [at |-> "claim", tries |-> daemon[d].tries + 1]
    BY <1>a, <2>1, MovesAgain, DaemonAssumption
  <2>3. Dir!At(d)' = "claim" /\ daemon'[d].tries = daemon[d].tries + 1
    BY <2>2 DEF Dir!At
  <2>4. LockHeld(d)' /\ RecordHeld(d)'
    BY <2>1, <2>3 DEF LockHeld, RecordHeld, Outside
  <2>5. AttemptsLeft(d)'
    BY <1>0, <1>18, <2>1, <2>3 DEF Dir!Unstale, Dir!NoFile, AttemptsLeft, FirstAttempts
  <2> QED BY <2>4, <2>5
<1>19. CASE Dir!Unmark(d)
  <2>1. Dir!Again(d) /\ kernel' = kernel /\ kernel = d /\ daemon[d].tries \in {0, 1} /\ marker' = Dir!NoFile
    BY <1>0, <1>a, <1>19 DEF Dir!Unmark, Dir!Rest, LockHeld, Locked, AttemptsLeft
  <2>2. daemon'[d] = [at |-> "claim", tries |-> daemon[d].tries + 1]
    BY <1>a, <2>1, MovesAgain, DaemonAssumption
  <2>3. Dir!At(d)' = "claim" /\ daemon'[d].tries = daemon[d].tries + 1
    BY <2>2 DEF Dir!At
  <2>4. LockHeld(d)' /\ RecordHeld(d)'
    BY <2>1, <2>3 DEF LockHeld, RecordHeld, Outside
  <2>5. AttemptsLeft(d)'
    BY <1>0, <1>19, <2>1, <2>3 DEF Dir!Unmark, Dir!NoFile, AttemptsLeft, FirstAttempts
  <2> QED BY <2>4, <2>5
<1>20. CASE Dir!DaemonClaims(d)
  BY <1>0, <1>20 DEF Dir!DaemonClaims, Dir!Dir, Dir!At, Dir!NoFile, LockHeld, RecordHeld, AttemptsLeft, FirstAttempts
<1>21. CASE Dir!DaemonSettles(d)
  BY <1>0, <1>21 DEF Dir!DaemonSettles, Dir!Dir, Dir!At, Dir!NoFile, LockHeld, RecordHeld, AttemptsLeft, FirstAttempts
<1>22. CASE Dir!Reap(d)
  BY <1>0, <1>22 DEF Dir!Reap, Dir!Dir, Dir!At, Dir!NoFile, LockHeld, RecordHeld, AttemptsLeft, FirstAttempts
<1> QED BY <1>1, <1>2, <1>3, <1>4, <1>5, <1>6, <1>7, <1>8, <1>9, <1>10, <1>11, <1>12, <1>13, <1>14, <1>15, <1>16, <1>17, <1>18, <1>19, <1>20, <1>21, <1>22 DEF Dir!DaemonStep

LEMMA DirHolds == Dir!DirTypeOK /\ DirInv /\ [Dir!DirNext]_dirVars => DirInv'
<1> SUFFICES ASSUME Dir!DirTypeOK, DirInv, [Dir!DirNext]_dirVars PROVE DirInv'
  OBVIOUS
<1>1. ASSUME NEW d \in Daemons, Dir!DaemonStep(d) PROVE DirInv'
  <2>1. UNCHANGED locks
    BY <1>1, DaemonFiles
  <2> QED BY <1>1, <2>1, OthersHold, SelfHolds DEF DirInv
<1>2. ASSUME UNCHANGED Dir!Dir PROVE DirInv'
  BY <1>2 DEF Dir!Dir, DirInv, LockHeld, RecordHeld, AttemptsLeft, FirstAttempts, Dir!At, Dir!NoFile
<1>3. ASSUME NEW c \in Commands, Dir!CommandStep(c) PROVE DirInv'
  BY <1>2, <1>3, CommandTypes
<1>4. CASE UNCHANGED dirVars
  BY <1>2, <1>4 DEF dirVars, Dir!Dir
<1> QED BY <1>1, <1>3, <1>4 DEF Dir!DirNext

LEMMA DirStarts == Dir!DirInit => Dir!DirTypeOK /\ DirInv
<1> SUFFICES ASSUME Dir!DirInit PROVE Dir!DirTypeOK /\ DirInv
  OBVIOUS
<1>1. [at |-> "off", tries |-> 0] \in DaemonRecord
  BY DaemonAssumption DEF DaemonRecord, Dir!DaemonSteps, Dir!Ended
<1>2. daemon \in [Daemons -> DaemonRecord]
  BY <1>1 DEF Dir!DirInit
<1>3. Dir!DirTypeOK
  BY <1>2 DEF Dir!DirInit, Dir!DirTypeOK, DaemonRecord, Dir!FilesOf
<1>4. \A d \in Daemons : Dir!At(d) = "off" /\ daemon[d].tries = 0 /\ kernel # d
  BY DaemonAssumption DEF Dir!DirInit, Dir!At, Dir!Nobody
<1>5. DirInv
  BY <1>4 DEF DirInv, LockHeld, RecordHeld, AttemptsLeft, Locked
<1> QED BY <1>3, <1>5

\* A start is refused while another holds the lock, and for nothing else.
LEMMA RefusedByAnother ==
  ASSUME Dir!DirTypeOK, DirInv, locks, [Dir!DirNext]_dirVars, NEW d \in Daemons,
         Dir!At(d) # "refused", Dir!At(d)' = "refused"
  PROVE  kernel \notin {d, Dir!Nobody}
<1>1. PICK e \in Daemons : Dir!DaemonStep(e)
  <2>1. ~ UNCHANGED daemon
    BY DEF Dir!At
  <2>2. ASSUME NEW c \in Commands, Dir!CommandStep(c) PROVE FALSE
    BY <2>1, <2>2, CommandTypes DEF Dir!Dir
  <2>3. ~ UNCHANGED dirVars
    BY <2>1 DEF dirVars
  <2> QED BY <2>2, <2>3 DEF Dir!DirNext
<1>2. e = d
  BY <1>1, DaemonMoves DEF Dir!At
<1>3. LockHeld(d) /\ RecordHeld(d) /\ AttemptsLeft(d)
  BY DEF DirInv
<1>a. daemon[d].tries \in 0..MaxAttempts
  BY DEF Dir!DirTypeOK
<1>4. CASE Dir!Start(d)
  <2>1. Dir!To(d, "listen") => Dir!At(d)' = "listen"
    BY Moves DEF Dir!At, Dir!DaemonSteps, Dir!Starting, Dir!Owning, Dir!Stopping, Dir!Ended
  <2> QED BY <1>3, <1>4, <2>1 DEF Dir!Start, Dir!AliveTo, Dir!Reads, Dir!Nobody, LockHeld, RecordHeld, Locked, Outside
<1>5. CASE Dir!Acquire(d)
  <2>1. Dir!To(d, "claim") => Dir!At(d)' = "claim"
    BY Moves DEF Dir!At, Dir!DaemonSteps, Dir!Starting, Dir!Owning, Dir!Stopping, Dir!Ended
  <2>2. Dir!To(d, "refused") => Dir!At(d)' = "refused"
    BY Moves DEF Dir!At, Dir!DaemonSteps, Dir!Starting, Dir!Owning, Dir!Stopping, Dir!Ended
  <2> QED BY <1>3, <1>5, <2>1, <2>2 DEF Dir!Acquire, Dir!AliveTo, Dir!Reads, Dir!Nobody, LockHeld, RecordHeld, Locked, Outside
<1>6. CASE Dir!Claim(d)
  <2>1. Dir!To(d, "write") => Dir!At(d)' = "write"
    BY Moves DEF Dir!At, Dir!DaemonSteps, Dir!Starting, Dir!Owning, Dir!Stopping, Dir!Ended
  <2>2. Dir!To(d, "incumbent") => Dir!At(d)' = "incumbent"
    BY Moves DEF Dir!At, Dir!DaemonSteps, Dir!Starting, Dir!Owning, Dir!Stopping, Dir!Ended
  <2> QED BY <1>3, <1>6, <2>1, <2>2 DEF Dir!Claim, Dir!AliveTo, Dir!Reads, Dir!Nobody, LockHeld, RecordHeld, Locked, Outside
<1>7. CASE Dir!Write(d)
  <2>1. Dir!To(d, "readback") => Dir!At(d)' = "readback"
    BY Moves DEF Dir!At, Dir!DaemonSteps, Dir!Starting, Dir!Owning, Dir!Stopping, Dir!Ended
  <2> QED BY <1>3, <1>7, <2>1 DEF Dir!Write, Dir!AliveTo, Dir!Reads, Dir!Nobody, LockHeld, RecordHeld, Locked, Outside
<1>8. CASE Dir!ReadBack(d)
  <2>1. Dir!To(d, "owner") => Dir!At(d)' = "owner"
    BY Moves DEF Dir!At, Dir!DaemonSteps, Dir!Starting, Dir!Owning, Dir!Stopping, Dir!Ended
  <2>2. Dir!To(d, "refused") => Dir!At(d)' = "refused"
    BY Moves DEF Dir!At, Dir!DaemonSteps, Dir!Starting, Dir!Owning, Dir!Stopping, Dir!Ended
  <2> QED BY <1>3, <1>8, <2>1, <2>2 DEF Dir!ReadBack, Dir!AliveTo, Dir!Reads, Dir!Nobody, LockHeld, RecordHeld, Locked, Outside
<1>9. CASE Dir!Incumbent(d)
  <2>1. Dir!To(d, "refused") => Dir!At(d)' = "refused"
    BY Moves DEF Dir!At, Dir!DaemonSteps, Dir!Starting, Dir!Owning, Dir!Stopping, Dir!Ended
  <2>2. Dir!To(d, "mark") => Dir!At(d)' = "mark"
    BY Moves DEF Dir!At, Dir!DaemonSteps, Dir!Starting, Dir!Owning, Dir!Stopping, Dir!Ended
  <2> QED BY <1>3, <1>9, <2>1, <2>2 DEF Dir!Incumbent, Dir!AliveTo, Dir!Reads, Dir!Nobody, LockHeld, RecordHeld, Locked, Outside
<1>10. CASE Dir!Mark(d)
  <2>1. Dir!To(d, "markwrite") => Dir!At(d)' = "markwrite"
    BY Moves DEF Dir!At, Dir!DaemonSteps, Dir!Starting, Dir!Owning, Dir!Stopping, Dir!Ended
  <2>2. Dir!To(d, "markread") => Dir!At(d)' = "markread"
    BY Moves DEF Dir!At, Dir!DaemonSteps, Dir!Starting, Dir!Owning, Dir!Stopping, Dir!Ended
  <2> QED BY <1>3, <1>10, <2>1, <2>2 DEF Dir!Mark, Dir!AliveTo, Dir!Reads, Dir!Nobody, LockHeld, RecordHeld, Locked, Outside
<1>11. CASE Dir!MarkWrite(d)
  <2>1. Dir!To(d, "recheck") => Dir!At(d)' = "recheck"
    BY Moves DEF Dir!At, Dir!DaemonSteps, Dir!Starting, Dir!Owning, Dir!Stopping, Dir!Ended
  <2> QED BY <1>3, <1>11, <2>1 DEF Dir!MarkWrite, Dir!AliveTo, Dir!Reads, Dir!Nobody, LockHeld, RecordHeld, Locked, Outside
<1>12. CASE Dir!MarkRead(d)
  <2>1. Dir!To(d, "refused") => Dir!At(d)' = "refused"
    BY Moves DEF Dir!At, Dir!DaemonSteps, Dir!Starting, Dir!Owning, Dir!Stopping, Dir!Ended
  <2>2. Dir!To(d, "unstale") => Dir!At(d)' = "unstale"
    BY Moves DEF Dir!At, Dir!DaemonSteps, Dir!Starting, Dir!Owning, Dir!Stopping, Dir!Ended
  <2> QED BY <1>3, <1>12, <2>1, <2>2 DEF Dir!MarkRead, Dir!AliveTo, Dir!Reads, Dir!Nobody, LockHeld, RecordHeld, Locked, Outside
<1>13. CASE Dir!Recheck(d)
  <2>1. Dir!To(d, "refused") => Dir!At(d)' = "refused"
    BY Moves DEF Dir!At, Dir!DaemonSteps, Dir!Starting, Dir!Owning, Dir!Stopping, Dir!Ended
  <2>2. Dir!To(d, "unlink") => Dir!At(d)' = "unlink"
    BY Moves DEF Dir!At, Dir!DaemonSteps, Dir!Starting, Dir!Owning, Dir!Stopping, Dir!Ended
  <2> QED BY <1>3, <1>13, <2>1, <2>2 DEF Dir!Recheck, Dir!AliveTo, Dir!Reads, Dir!Nobody, LockHeld, RecordHeld, Locked, Outside
<1>14. CASE Dir!Unlink(d)
  <2>1. Dir!To(d, "unmark") => Dir!At(d)' = "unmark"
    BY Moves DEF Dir!At, Dir!DaemonSteps, Dir!Starting, Dir!Owning, Dir!Stopping, Dir!Ended
  <2> QED BY <1>3, <1>14, <2>1 DEF Dir!Unlink, Dir!AliveTo, Dir!Reads, Dir!Nobody, LockHeld, RecordHeld, Locked, Outside
<1>15. CASE Dir!Unwind(d)
  <2>1. Dir!To(d, "dead") => Dir!At(d)' = "dead"
    BY Moves DEF Dir!At, Dir!DaemonSteps, Dir!Starting, Dir!Owning, Dir!Stopping, Dir!Ended
  <2> QED BY <1>3, <1>15, <2>1 DEF Dir!Unwind, Dir!AliveTo, Dir!Reads, Dir!Nobody, LockHeld, RecordHeld, Locked, Outside
<1>16. CASE Dir!Stop(d)
  <2>1. Dir!To(d, "closing") => Dir!At(d)' = "closing"
    BY Moves DEF Dir!At, Dir!DaemonSteps, Dir!Starting, Dir!Owning, Dir!Stopping, Dir!Ended
  <2> QED BY <1>3, <1>16, <2>1 DEF Dir!Stop, Dir!AliveTo, Dir!Reads, Dir!Nobody, LockHeld, RecordHeld, Locked, Outside
<1>17. CASE Dir!Release(d)
  <2>1. Dir!To(d, "releasing") => Dir!At(d)' = "releasing"
    BY Moves DEF Dir!At, Dir!DaemonSteps, Dir!Starting, Dir!Owning, Dir!Stopping, Dir!Ended
  <2>2. Dir!To(d, "removing") => Dir!At(d)' = "removing"
    BY Moves DEF Dir!At, Dir!DaemonSteps, Dir!Starting, Dir!Owning, Dir!Stopping, Dir!Ended
  <2> QED BY <1>3, <1>17, <2>1, <2>2 DEF Dir!Release, Dir!AliveTo, Dir!Reads, Dir!Nobody, LockHeld, RecordHeld, Locked, Outside
<1>18. CASE Dir!Remove(d)
  <2>1. Dir!To(d, "releasing") => Dir!At(d)' = "releasing"
    BY Moves DEF Dir!At, Dir!DaemonSteps, Dir!Starting, Dir!Owning, Dir!Stopping, Dir!Ended
  <2> QED BY <1>3, <1>18, <2>1 DEF Dir!Remove, Dir!AliveTo, Dir!Reads, Dir!Nobody, LockHeld, RecordHeld, Locked, Outside
<1>19. CASE Dir!ReleaseOsLock(d)
  <2>1. Dir!To(d, "dead") => Dir!At(d)' = "dead"
    BY Moves DEF Dir!At, Dir!DaemonSteps, Dir!Starting, Dir!Owning, Dir!Stopping, Dir!Ended
  <2> QED BY <1>3, <1>19, <2>1 DEF Dir!ReleaseOsLock, Dir!AliveTo, Dir!Reads, Dir!Nobody, LockHeld, RecordHeld, Locked, Outside
<1>20. CASE Dir!Kill(d)
  <2>1. Dir!To(d, "dead") => Dir!At(d)' = "dead"
    BY Moves DEF Dir!At, Dir!DaemonSteps, Dir!Starting, Dir!Owning, Dir!Stopping, Dir!Ended
  <2> QED BY <1>3, <1>20, <2>1 DEF Dir!Kill, Dir!AliveTo, Dir!Reads, Dir!Nobody, LockHeld, RecordHeld, Locked, Outside
<1>21. CASE Dir!Unstale(d)
  <2>1. Dir!Again(d) /\ daemon[d].tries \in {0, 1}
    BY <1>3, <1>a, <1>21 DEF Dir!Unstale, AttemptsLeft
  <2>2. daemon'[d] = [at |-> "claim", tries |-> daemon[d].tries + 1]
    BY <1>a, <2>1, MovesAgain, DaemonAssumption
  <2> QED BY <2>2 DEF Dir!At
<1>22. CASE Dir!Unmark(d)
  <2>1. Dir!Again(d) /\ daemon[d].tries \in {0, 1}
    BY <1>3, <1>a, <1>22 DEF Dir!Unmark, AttemptsLeft
  <2>2. daemon'[d] = [at |-> "claim", tries |-> daemon[d].tries + 1]
    BY <1>a, <2>1, MovesAgain, DaemonAssumption
  <2> QED BY <2>2 DEF Dir!At
<1>23. CASE Dir!DaemonClaims(d)
  BY <1>23 DEF Dir!DaemonClaims, Dir!Dir, Dir!At
<1>24. CASE Dir!DaemonSettles(d)
  BY <1>24 DEF Dir!DaemonSettles, Dir!Dir, Dir!At
<1>25. CASE Dir!Reap(d)
  BY <1>25 DEF Dir!Reap, Dir!Dir, Dir!At
<1> QED BY <1>1, <1>2, <1>4, <1>5, <1>6, <1>7, <1>8, <1>9, <1>10, <1>11, <1>12, <1>13, <1>14, <1>15, <1>16, <1>17, <1>18, <1>19, <1>20, <1>21, <1>22, <1>23, <1>24, <1>25 DEF Dir!DaemonStep

\* One daemon is past the lock, and its record stands.
LEMMA OwnerAlone == Dir!DirTypeOK /\ DirInv => Dir!OneDaemon /\ Dir!OwnerIsAdvertised
<1> SUFFICES ASSUME Dir!DirTypeOK, DirInv, locks
             PROVE  /\ Dir!Cardinality(Dir!Owners) <= 1
                    /\ \A d \in Daemons : Dir!At(d) = "owner" => record = [by |-> d, written |-> TRUE]
  BY DEF Dir!OneDaemon, Dir!OwnerIsAdvertised
<1>1. \A d \in Dir!Owners : d = kernel
  BY DEF Dir!Owners, Dir!Owning, Dir!Stopping, DirInv, LockHeld, Locked
<1>2. Dir!Owners = {} \/ Dir!Owners = {kernel}
  BY <1>1
<1>3. Cardinality(Dir!Owners) \in {0, 1}
  BY <1>2, FS_EmptySet, FS_Singleton
<1>4. Dir!Cardinality(Dir!Owners) = Cardinality(Dir!Owners)
  BY DEF Dir!Cardinality, Cardinality
<1> QED BY <1>3, <1>4 DEF DirInv, RecordHeld

-----------------------------------------------------------------------------
(* One part is at work at a time.                                          *)

LEMMA DirMoves == [DaemonNext]_daemonVars => [Dir!DirNext]_dirVars
BY DEF DaemonNext, daemonVars

LEMMA DirLasts == DaemonSpec => [](Dir!DirTypeOK /\ DirInv)
<1>1. DaemonInit => Dir!DirTypeOK /\ DirInv
  BY DirStarts DEF DaemonInit
<1>2. Dir!DirTypeOK /\ DirInv /\ [DaemonNext]_daemonVars => (Dir!DirTypeOK /\ DirInv)'
  BY DirMoves, DirTypes, DirHolds
<1> QED BY <1>1, <1>2, PTL DEF DaemonSpec

\* One daemon owns a data directory, is advertised there, and only the living keep another
\* out (DataDirectory: lockfile.ts acquireDaemonLock, os-file-lock.ts).
THEOREM OneOwner == DaemonSpec => OneDaemon
<1>1. Dir!DirTypeOK /\ DirInv => Dir!OneDaemon /\ Dir!OwnerIsAdvertised
  BY OwnerAlone
<1>2. Dir!DirTypeOK /\ DirInv /\ [DaemonNext]_daemonVars =>
        [locks => \A d \in Daemons : Dir!At(d) # "refused" /\ Dir!At(d)' = "refused"
                    => kernel \notin {d, Dir!Nobody}]_(Dir!dirVars)
  BY DirMoves, RefusedByAnother DEF dirVars, Dir!dirVars
<1> QED BY <1>1, <1>2, DirLasts, PTL DEF DaemonSpec, OneDaemon, Dir!RefusedByTheLivingOnly

-----------------------------------------------------------------------------
(* Alerts: the groups of the coalescer.                                    *)

CauseNames == Causes \cup {"node"}
GroupRec ==
  [phase : {"none", "window", "repeat"}, end : Nat, notice : Int, causes : SUBSET CauseNames,
   seen : SUBSET CauseNames, sent : 0..CausesPerWindow, overflow : SUBSET Causes, pending : Nat]
ToldRec == [kind : {"none", "down", "up"}, at : Nat]

\* What an outage's group and the last message about it say of each other at a time n: the
\* last message is no older than the group's notice, and the notice no older than Repeat.
OutageOK(g, w, n) ==
  g.phase # "none" =>
    /\ "node" \in g.causes /\ g.overflow = {} /\ w.kind = "down" /\ w.at >= g.notice
    /\ g.phase = "window" => g.pending = 0 /\ g.end = g.notice + Window /\ n < g.end
    /\ g.phase = "repeat" => n <= g.notice + Repeat

\* The files of a library have windows only.
FilesOK(g) == g.phase \in {"none", "window"} /\ (g.phase = "none" => g.pending = 0)

Opened(cause, t) ==
  [News!NoGroup EXCEPT !.phase = "window", !.end = t + Window, !.notice = t,
                       !.causes = {cause}, !.seen = {cause}, !.sent = 1]

LEMMA NoGroupTypes ==
  /\ News!NoGroup \in GroupRec /\ News!NoGroup.phase = "none" /\ News!NoGroup.pending = 0
BY DaemonAssumption DEF News!NoGroup, GroupRec

LEMMA OpenedTypes ==
  ASSUME NEW cause \in CauseNames, NEW t \in Nat
  PROVE  LET g == Opened(cause, t) IN
           /\ g \in GroupRec /\ g.phase = "window" /\ g.end = t + Window /\ g.notice = t
           /\ g.causes = {cause} /\ g.overflow = {} /\ g.pending = 0
<1> DEFINE z == News!NoGroup
<1>1. z \in GroupRec /\ z.overflow = {} /\ z.pending = 0
  BY DaemonAssumption DEF News!NoGroup, GroupRec
<1> HIDE DEF z
<1>2. t + Window \in Nat /\ t \in Int /\ 1 \in 0..CausesPerWindow
  BY DaemonAssumption
<1>3. {cause} \in SUBSET CauseNames
  OBVIOUS
<1>4. Opened(cause, t) = [z EXCEPT !.phase = "window", !.end = t + Window, !.notice = t,
                                   !.causes = {cause}, !.seen = {cause}, !.sent = 1]
  BY DEF Opened, z
<1> DEFINE g == [z EXCEPT !.phase = "window", !.end = t + Window, !.notice = t,
                          !.causes = {cause}, !.seen = {cause}, !.sent = 1]
<1>5. g \in GroupRec
  BY <1>1, <1>2, <1>3 DEF GroupRec
<1>6. /\ g.phase = "window" /\ g.end = t + Window /\ g.notice = t
      /\ g.causes = {cause} /\ g.overflow = {} /\ g.pending = 0
  BY <1>1 DEF GroupRec
<1>7. Opened(cause, t) = g
  BY <1>4
<1> HIDE DEF g
<1> QED BY <1>5, <1>6, <1>7

LEMMA TakenTypes ==
  ASSUME NEW g \in GroupRec
  PROVE  LET h == News!Taken(g) IN
           /\ h \in GroupRec /\ h.pending = 0 /\ h.overflow = {} /\ h.phase = g.phase
           /\ h.causes = g.causes /\ h.notice = g.notice /\ h.end = g.end /\ h.seen = g.seen
<1>1. 0 \in 0..CausesPerWindow /\ {} \in SUBSET Causes /\ 0 \in Nat
  BY DaemonAssumption
<1>2. News!Taken(g) = [g EXCEPT !.pending = 0, !.sent = 0, !.overflow = {}]
  BY DEF News!Taken
<1> QED BY <1>1, <1>2 DEF GroupRec

LEMMA OfferOutage ==
  ASSUME NEW g \in GroupRec, NEW w \in ToldRec, NEW n \in Nat, OutageOK(g, w, n),
         NEW key \in News!Scopes
  PROVE  LET o == News!Offered(g, key, "node", n)
             v == IF o.send THEN [kind |-> "down", at |-> n] ELSE w IN
           o.group \in GroupRec /\ o.send \in BOOLEAN /\ o.group.phase # "none" /\ OutageOK(o.group, v, n)
<1> DEFINE o == News!Offered(g, key, "node", n)
<1>1. CASE g.phase = "none"
  <2>1. o = [send |-> TRUE, group |-> Opened("node", n)]
    BY <1>1 DEF News!Offered, Opened
  <2> HIDE DEF o
  <2>2. o.send = TRUE /\ o.group = Opened("node", n)
    BY <2>1
  <2> DEFINE h == Opened("node", n)
  <2>3. /\ h \in GroupRec /\ h.phase = "window" /\ h.end = n + Window /\ h.notice = n
        /\ h.causes = {"node"} /\ h.overflow = {} /\ h.pending = 0
    BY OpenedTypes DEF CauseNames
  <2> HIDE DEF h
  <2>4. OutageOK(h, [kind |-> "down", at |-> n], n)
    BY <2>3, DaemonAssumption DEF OutageOK
  <2> QED BY <2>2, <2>3, <2>4 DEF o, h
<1>2. CASE g.phase = "window"
  <2>1. o = [send |-> FALSE, group |-> g]
    BY <1>2 DEF News!Offered, News!Outage, OutageOK
  <2> HIDE DEF o
  <2>2. o.send = FALSE /\ o.group = g
    BY <2>1
  <2> QED BY <1>2, <2>2 DEF o
<1>3. CASE g.phase = "repeat"
  <2>0. "node" \in g.causes
    BY <1>3 DEF OutageOK
  <2>1. o.send = FALSE
    BY <1>3, <2>0 DEF News!Offered
  <2>a. o.group = [g EXCEPT !.pending = @ + 1,
                            !.seen = IF "node" \in g.causes THEN @ \cup {"node"} ELSE @,
                            !.overflow = IF "node" \in g.causes THEN @ ELSE @ \cup {"node"}]
    BY <1>3, <2>0 DEF News!Offered
  <2>b. g.seen \cup {"node"} \in SUBSET CauseNames /\ g.pending + 1 \in Nat
    BY DEF GroupRec, CauseNames
  <2>2. o.group = [g EXCEPT !.pending = g.pending + 1, !.seen = g.seen \cup {"node"},
                            !.overflow = g.overflow]
    BY <2>0, <2>a DEF GroupRec
  <2> HIDE DEF o
  <2>3. /\ o.group \in GroupRec /\ o.group.phase = "repeat" /\ o.group.causes = g.causes
        /\ o.group.overflow = g.overflow /\ o.group.notice = g.notice
    BY <1>3, <2>2, <2>b DEF GroupRec
  <2>4. OutageOK(o.group, w, n)
    BY <1>3, <2>3 DEF OutageOK
  <2> QED BY <2>1, <2>3, <2>4 DEF o
<1> QED BY <1>1, <1>2, <1>3 DEF GroupRec

LEMMA DueOutage ==
  ASSUME NEW g \in GroupRec, NEW w \in ToldRec, NEW n \in Nat, OutageOK(g, w, n),
         NEW key \in News!Scopes
  PROVE  LET d == News!Due(g, key, n + 1)
             v == IF d.kind # "none" THEN [kind |-> "down", at |-> n + 1] ELSE w IN
           /\ d.group \in GroupRec /\ OutageOK(d.group, v, n + 1)
           /\ d.kind \in {"none", "summary", "still-down"}
           /\ g.phase = "none" => d.kind = "none" /\ d.group = g
<1> DEFINE d == News!Due(g, key, n + 1)
<1> DEFINE h == News!Taken(g)
<1>0. /\ h \in GroupRec /\ h.pending = 0 /\ h.overflow = {} /\ h.phase = g.phase
      /\ h.causes = g.causes /\ h.notice = g.notice /\ h.end = g.end
  BY TakenTypes
<1>1. CASE g.phase = "none"
  BY <1>1 DEF News!Due, OutageOK
<1>2. CASE g.phase = "window" /\ n + 1 >= g.end
  <2>0. g.pending = 0 /\ g.overflow = {} /\ g.end = g.notice + Window /\ n < g.end /\ "node" \in g.causes
        /\ w.kind = "down" /\ w.at >= g.notice
    BY <1>2 DEF OutageOK
  <2>1. d.kind = "none"
    BY <1>2, <2>0 DEF News!Due, News!Outage
  <2>2. d.group = [h EXCEPT !.phase = "repeat", !.notice = g.end - Window]
    BY <1>2, <2>0 DEF News!Due, News!Outage
  <2> HIDE DEF d, h
  <2>a. g.end - Window = g.notice /\ g.notice \in Int
    BY <2>0, DaemonAssumption DEF GroupRec
  <2>3. /\ d.group \in GroupRec /\ d.group.phase = "repeat" /\ d.group.notice = g.notice
        /\ d.group.causes = g.causes /\ d.group.overflow = {}
    BY <1>0, <2>2, <2>a DEF GroupRec
  <2>4. n + 1 <= g.notice + Repeat
    BY <2>0, DaemonAssumption DEF GroupRec
  <2>5. OutageOK(d.group, w, n + 1)
    BY <2>0, <2>3, <2>4 DEF OutageOK
  <2> QED BY <1>2, <2>1, <2>3, <2>5 DEF d
<1>3. CASE g.phase = "window" /\ ~ (n + 1 >= g.end)
  <2>1. d = [kind |-> "none", group |-> g]
    BY <1>3 DEF News!Due
  <2>2. n + 1 < g.end
    BY <1>3 DEF GroupRec
  <2>3. OutageOK(g, w, n + 1)
    BY <1>3, <2>2 DEF OutageOK
  <2> QED BY <1>3, <2>1, <2>3
<1>4. CASE g.phase = "repeat" /\ n + 1 >= g.notice + Repeat /\ g.pending = 0
  <2>1. d = [kind |-> "none", group |-> News!NoGroup]
    BY <1>4 DEF News!Due
  <2> QED BY <1>4, <2>1, NoGroupTypes DEF OutageOK
<1>5. CASE g.phase = "repeat" /\ n + 1 >= g.notice + Repeat /\ g.pending # 0
  <2>0. g.pending > 0 /\ "node" \in g.causes
    BY <1>5 DEF GroupRec, OutageOK
  <2>1. d = [kind |-> "still-down", group |-> [h EXCEPT !.notice = n + 1]]
    BY <1>5, <2>0 DEF News!Due
  <2> DEFINE k == [h EXCEPT !.notice = n + 1]
  <2> HIDE DEF d, h
  <2>2. /\ k \in GroupRec /\ k.phase = "repeat" /\ k.notice = n + 1
        /\ k.causes = g.causes /\ k.overflow = {}
    BY <1>0, <1>5 DEF GroupRec
  <2> HIDE DEF k
  <2>3. d.kind = "still-down" /\ d.group = k
    BY <2>1 DEF k
  <2>4. OutageOK(k, [kind |-> "down", at |-> n + 1], n + 1)
    BY <2>0, <2>2, DaemonAssumption DEF OutageOK
  <2> QED BY <1>5, <2>2, <2>3, <2>4 DEF d
<1>6. CASE g.phase = "repeat" /\ ~ (n + 1 >= g.notice + Repeat)
  <2>1. d = [kind |-> "none", group |-> g]
    BY <1>6 DEF News!Due
  <2>2. n + 1 <= g.notice + Repeat
    BY <1>6, DaemonAssumption DEF GroupRec
  <2>3. OutageOK(g, w, n + 1)
    BY <1>6, <2>2 DEF OutageOK
  <2> QED BY <1>6, <2>1, <2>3
<1> QED BY <1>1, <1>2, <1>3, <1>4, <1>5, <1>6 DEF GroupRec

\* A failure past the cap, or of a cause that was told, is counted.
LEMMA OfferFile ==
  ASSUME NEW g \in GroupRec, FilesOK(g), NEW cause \in Causes, NEW n \in Nat
  PROVE  LET o == News!Offered(g, "files", cause, n) IN
           /\ o.group \in GroupRec /\ o.group.phase = "window" /\ o.send \in BOOLEAN
           /\ o.group.pending = IF o.send THEN g.pending ELSE g.pending + 1
<1> DEFINE o == News!Offered(g, "files", cause, n)
<1>0. cause \in CauseNames /\ g.pending + 1 \in Nat /\ g.seen \cup {cause} \in SUBSET CauseNames
      /\ g.causes \cup {cause} \in SUBSET CauseNames /\ g.overflow \cup {cause} \in SUBSET Causes
  BY DEF CauseNames, GroupRec
<1>1. CASE g.phase = "none"
  <2>1. o = [send |-> TRUE, group |-> Opened(cause, n)]
    BY <1>1 DEF News!Offered, Opened
  <2> HIDE DEF o
  <2> DEFINE h == Opened(cause, n)
  <2>2. h \in GroupRec /\ h.phase = "window" /\ h.pending = 0
    BY <1>0, OpenedTypes
  <2> HIDE DEF h
  <2>3. o.send = TRUE /\ o.group = h
    BY <2>1 DEF h
  <2> QED BY <1>1, <2>2, <2>3 DEF o, FilesOK
<1>2. CASE g.phase = "window" /\ cause \notin g.causes /\ g.sent < CausesPerWindow
  <2>1. o = [send |-> TRUE, group |-> [g EXCEPT !.causes = @ \cup {cause}, !.seen = @ \cup {cause},
                                                !.sent = @ + 1]]
    BY <1>2 DEF News!Offered
  <2> HIDE DEF o
  <2>2. o.send = TRUE /\ o.group = [g EXCEPT !.causes = g.causes \cup {cause},
                                             !.seen = g.seen \cup {cause}, !.sent = g.sent + 1]
    BY <2>1 DEF GroupRec
  <2>3. g.sent + 1 \in 0..CausesPerWindow
    BY <1>2, DaemonAssumption DEF GroupRec
  <2> DEFINE h == [g EXCEPT !.causes = g.causes \cup {cause}, !.seen = g.seen \cup {cause},
                            !.sent = g.sent + 1]
  <2>a. h \in GroupRec
    BY <1>0, <2>3 DEF GroupRec
  <2>b. h.phase = "window" /\ h.pending = g.pending
    BY <1>2 DEF GroupRec
  <2> HIDE DEF h
  <2>4. o.group \in GroupRec /\ o.group.phase = "window" /\ o.group.pending = g.pending
    BY <2>2, <2>a, <2>b DEF h
  <2> QED BY <2>2, <2>4 DEF o
<1>3. CASE g.phase = "window" /\ ~ (cause \notin g.causes /\ g.sent < CausesPerWindow)
  <2> DEFINE more == IF cause \in g.causes THEN g.seen \cup {cause} ELSE g.seen
  <2> DEFINE over == IF cause \in g.causes THEN g.overflow ELSE g.overflow \cup {cause}
  <2>1. more \in SUBSET CauseNames /\ over \in SUBSET Causes
    BY <1>0 DEF GroupRec
  <2>2. o.send = FALSE
    BY <1>3 DEF News!Offered, News!Outage, News!Scopes
  <2>3. o.group = [g EXCEPT !.pending = @ + 1,
                            !.seen = IF cause \in g.causes THEN @ \cup {cause} ELSE @,
                            !.overflow = IF cause \in g.causes THEN @ ELSE @ \cup {cause}]
    BY <1>3 DEF News!Offered, News!Outage, News!Scopes
  <2> HIDE DEF o
  <2>4. o.group = [g EXCEPT !.pending = g.pending + 1, !.seen = more, !.overflow = over]
    BY <2>3 DEF GroupRec
  <2> HIDE DEF more, over
  <2>5. o.group \in GroupRec /\ o.group.phase = "window" /\ o.group.pending = g.pending + 1
    BY <1>0, <1>3, <2>1, <2>4 DEF GroupRec
  <2> QED BY <2>2, <2>5 DEF o
<1> QED BY <1>1, <1>2, <1>3 DEF FilesOK

\* A window closes with a summary of all it counted, or with nothing to say.
LEMMA DueFile ==
  ASSUME NEW g \in GroupRec, FilesOK(g), NEW t \in Nat
  PROVE  LET d == News!Due(g, "files", t) IN
           /\ d.group \in GroupRec /\ FilesOK(d.group) /\ d.kind \in {"none", "summary"}
           /\ d.group.pending = IF d.kind = "none" THEN g.pending ELSE 0
           /\ g.phase = "none" => d.group.phase = "none" /\ d.kind = "none"
<1> DEFINE d == News!Due(g, "files", t)
<1> DEFINE h == News!Taken(g)
<1>0. /\ h \in GroupRec /\ h.pending = 0 /\ h.phase = g.phase /\ g.pending \in Nat
      /\ g.seen \in SUBSET CauseNames /\ t + Window \in Nat /\ {} \in SUBSET CauseNames
  BY TakenTypes, DaemonAssumption DEF GroupRec
<1>1. CASE g.phase = "none" \/ ~ (t >= g.end)
  <2>1. d = [kind |-> "none", group |-> g]
    BY <1>1 DEF News!Due, FilesOK
  <2> QED BY <2>1
<1>2. CASE g.phase = "window" /\ t >= g.end /\ (g.pending > 0 \/ g.overflow # {})
  <2> DEFINE k == [h EXCEPT !.end = t + Window, !.causes = g.seen, !.seen = {}]
  <2>1. d = [kind |-> "summary", group |-> k]
    BY <1>2 DEF News!Due, News!Outage, News!Scopes
  <2> HIDE DEF d, h
  <2>2. k \in GroupRec /\ k.pending = 0 /\ k.phase = "window"
    BY <1>0, <1>2 DEF GroupRec
  <2> HIDE DEF k
  <2>3. d.kind = "summary" /\ d.group = k
    BY <2>1
  <2> QED BY <1>2, <2>2, <2>3 DEF d, FilesOK
<1>3. CASE g.phase = "window" /\ t >= g.end /\ ~ (g.pending > 0 \/ g.overflow # {})
  <2>1. d = [kind |-> "none", group |-> News!NoGroup]
    BY <1>3 DEF News!Due, News!Outage, News!Scopes
  <2>2. g.pending = 0
    BY <1>0, <1>3
  <2> HIDE DEF d
  <2>3. d.kind = "none" /\ d.group = News!NoGroup
    BY <2>1
  <2> QED BY <1>3, <2>2, <2>3, NoGroupTypes DEF d, FilesOK
<1> QED BY <1>1, <1>2, <1>3 DEF FilesOK

-----------------------------------------------------------------------------
(* Alerts: what stands, and the invariant.                                 *)

StandRec == [stands : BOOLEAN, notBefore : Nat, raised : BOOLEAN]

\* An outage is raised as soon as its time has come, and was told then.
ScopeFits(s, st, g, w, n) ==
  /\ OutageOK(g, w, n)
  /\ st.raised => /\ st.stands /\ n >= st.notBefore /\ w.kind = "down"
                  /\ s = "offline" => g.phase # "none"
  /\ st.stands /\ n >= st.notBefore => st.raised

NewsTypes ==
  /\ side \in {"node", "files"} /\ now \in 0..MaxTime /\ events \in 0..MaxEvents
  /\ standing \in [News!Scopes -> StandRec] /\ removed \in BOOLEAN
  /\ group \in [News!Keys -> GroupRec] /\ told \in [News!Keys -> ToldRec]
  /\ msg \subseteq [key : News!Keys, kind : {"alert", "summary", "still-down", "recovered"}]
  /\ files \in [raised : 0..MaxFailures, alone : Nat, counted : Nat]

NewsInv ==
  /\ \A s \in News!Scopes : ScopeFits(s, standing[s], group[s], told[s], now)
  /\ FilesOK(group["files"]) /\ News!NoFailureIsUncounted
  /\ side = "node" => group["files"].phase = "none"
  /\ removed => /\ side = "node"
                /\ \A s \in News!Scopes : standing[s] = News!NotStanding /\ group[s].phase = "none"

LEMMA NotStandingFits ==
  ASSUME NEW g, NEW w, NEW n, NEW s, OutageOK(g, w, n)
  PROVE  News!NotStanding \in StandRec /\ ScopeFits(s, News!NotStanding, g, w, n)
BY DEF News!NotStanding, StandRec, ScopeFits

\* What a tick makes of one scope: what is due, then what is raised again.
Ticked(s, k, g, w, n) ==
  LET d == News!Due(g, s, n + 1)
      o == News!Offered(d.group, s, "node", n + 1)
      again == k.stands /\ n + 1 >= k.notBefore
      v == IF d.kind # "none" \/ (again /\ o.send) THEN [kind |-> "down", at |-> n + 1] ELSE w
      h == IF again THEN o.group ELSE d.group
      j == IF again THEN [k EXCEPT !.raised = TRUE] ELSE k IN
    j \in StandRec /\ h \in GroupRec /\ v \in ToldRec /\ ScopeFits(s, j, h, v, n + 1)

LEMMA ScopeTicks ==
  ASSUME NEW s \in News!Scopes, NEW st \in StandRec, NEW g \in GroupRec, NEW w \in ToldRec,
         NEW n \in Nat, ScopeFits(s, st, g, w, n), NEW k \in {st, News!NotStanding}
  PROVE  Ticked(s, k, g, w, n)
<1> DEFINE d == News!Due(g, s, n + 1)
<1> DEFINE o == News!Offered(d.group, s, "node", n + 1)
<1> DEFINE again == k.stands /\ n + 1 >= k.notBefore
<1> DEFINE w1 == IF d.kind # "none" THEN [kind |-> "down", at |-> n + 1] ELSE w
<1> DEFINE v == IF d.kind # "none" \/ (again /\ o.send) THEN [kind |-> "down", at |-> n + 1] ELSE w
<1> DEFINE j == [k EXCEPT !.raised = TRUE]
<1>0. n + 1 \in Nat /\ [kind |-> "down", at |-> n + 1] \in ToldRec
  BY DEF ToldRec
<1>k. k \in StandRec
  <2>1. News!NotStanding \in StandRec
    BY DEF News!NotStanding, StandRec
  <2> QED BY <2>1
<1>1. d.group \in GroupRec /\ OutageOK(d.group, w1, n + 1) /\ w1 \in ToldRec
  BY <1>0, DueOutage DEF ScopeFits
<1> HIDE DEF d, w1
<1>2. CASE again
  <2>1. /\ o.group \in GroupRec /\ o.group.phase # "none" /\ o.send \in BOOLEAN
        /\ OutageOK(o.group, IF o.send THEN [kind |-> "down", at |-> n + 1] ELSE w1, n + 1)
    BY <1>0, <1>1, OfferOutage
  <2>2. v = IF o.send THEN [kind |-> "down", at |-> n + 1] ELSE w1
    BY <1>2, <2>1 DEF w1
  <2> HIDE DEF o
  <2>3. j \in StandRec /\ j.stands = k.stands /\ j.notBefore = k.notBefore /\ j.raised = TRUE
    BY <1>k DEF StandRec
  <2> HIDE DEF j, v
  <2>4. v \in ToldRec /\ OutageOK(o.group, v, n + 1)
    BY <1>0, <1>1, <2>1, <2>2
  <2>5. ScopeFits(s, j, o.group, v, n + 1)
    BY <1>2, <2>1, <2>3, <2>4 DEF ScopeFits, OutageOK
  <2> QED BY <1>2, <2>1, <2>3, <2>4, <2>5 DEF o, j, v, d, Ticked
<1>3. CASE ~ again
  <2>1. v = w1
    BY <1>3 DEF w1
  <2>2. ~ k.raised
    <3>1. CASE k = st
      BY <1>3, <3>1 DEF ScopeFits, StandRec
    <3>2. CASE k = News!NotStanding
      BY <3>2 DEF News!NotStanding
    <3> QED BY <3>1, <3>2
  <2>3. ScopeFits(s, k, d.group, w1, n + 1)
    BY <1>1, <1>3, <2>2 DEF ScopeFits
  <2> QED BY <1>k, <1>1, <1>3, <2>1, <2>3 DEF d, Ticked
<1> QED BY <1>2, <1>3 DEF d

-----------------------------------------------------------------------------
(* Alerts: the steps.                                                      *)

NoRecovery == \A m \in msg' : m.kind # "recovered"

\* What a step that touches one scope, or none, leaves.
LEMMA OneScope ==
  ASSUME NewsTypes, NewsInv, NEW s \in News!Scopes, side = "node",
         UNCHANGED <<now, side, files>>, removed' = FALSE,
         NEW st \in StandRec, NEW g \in GroupRec, NEW w \in ToldRec,
         standing' = [standing EXCEPT ![s] = st], group' = [group EXCEPT ![s] = g],
         told' = [told EXCEPT ![s] = w], ScopeFits(s, st, g, w, now)
  PROVE  /\ standing' \in [News!Scopes -> StandRec] /\ group' \in [News!Keys -> GroupRec]
         /\ told' \in [News!Keys -> ToldRec] /\ NewsInv'
<1>1. s \in News!Keys /\ s # "files" /\ "files" \in News!Keys /\ News!Scopes \subseteq News!Keys
  BY DEF News!Keys, News!Scopes
<1>2. standing' \in [News!Scopes -> StandRec] /\ group' \in [News!Keys -> GroupRec] /\ told' \in [News!Keys -> ToldRec]
  BY <1>1 DEF NewsTypes
<1>3. /\ standing'[s] = st /\ group'[s] = g /\ told'[s] = w /\ group'["files"] = group["files"]
      /\ \A z \in News!Scopes : z # s => standing'[z] = standing[z] /\ group'[z] = group[z] /\ told'[z] = told[z]
  BY <1>1 DEF NewsTypes
<1>4. \A z \in News!Scopes : ScopeFits(z, standing'[z], group'[z], told'[z], now')
  BY <1>3 DEF NewsInv
<1> QED BY <1>2, <1>3, <1>4 DEF NewsInv, News!NoFailureIsUncounted

LEMMA BeginFits ==
  ASSUME NewsTypes, NewsInv, NEW s \in News!Scopes, NEW delay \in Nat, side = "node", ~ removed,
         News!Begin(s, delay), events' \in 0..MaxEvents, UNCHANGED <<now, side, files, removed>>
  PROVE  NewsTypes' /\ NewsInv' /\ NoRecovery
<1> DEFINE st == standing[s]
<1> DEFINE waits == IF st.stands THEN st.notBefore
                    ELSE IF StartupDelay > now + delay THEN StartupDelay ELSE now + delay
<1> DEFINE raise == ~ st.raised /\ now >= waits
<1> DEFINE o == News!Offered(group[s], s, "node", now)
<1> DEFINE j == [stands |-> TRUE, notBefore |-> waits, raised |-> st.raised \/ raise]
<1> DEFINE down == [kind |-> "down", at |-> now]
<1> DEFINE g == IF raise THEN o.group ELSE group[s]
<1> DEFINE w == IF raise /\ o.send THEN down ELSE told[s]
<1>0. /\ st \in StandRec /\ group[s] \in GroupRec /\ told[s] \in ToldRec /\ now \in Nat
      /\ ScopeFits(s, st, group[s], told[s], now) /\ s \in News!Keys /\ down \in ToldRec
  BY DaemonAssumption DEF NewsTypes, NewsInv, News!Keys, ToldRec
<1>1. waits \in Nat /\ j \in StandRec
  BY <1>0, DaemonAssumption DEF StandRec
<1>2. /\ o.group \in GroupRec /\ o.send \in BOOLEAN /\ o.group.phase # "none"
      /\ OutageOK(o.group, IF o.send THEN down ELSE told[s], now)
  BY <1>0, OfferOutage DEF ScopeFits
<1>3. /\ standing' = [standing EXCEPT ![s] = j]
      /\ group' = IF raise THEN [group EXCEPT ![s] = o.group] ELSE group
      /\ IF raise /\ o.send
           THEN msg' = {[key |-> s, kind |-> "alert"]} /\ told' = [told EXCEPT ![s] = down]
           ELSE msg' = {} /\ UNCHANGED told
  BY DEF News!Begin, News!Told, News!Silent
<1> HIDE DEF o, waits, down
<1>4. group' = [group EXCEPT ![s] = g] /\ told' = [told EXCEPT ![s] = w]
  BY <1>0, <1>3 DEF NewsTypes
<1>5. g \in GroupRec /\ w \in ToldRec
  BY <1>0, <1>2
<1>6. ScopeFits(s, j, g, w, now)
  <2>1. OutageOK(g, w, now)
    BY <1>0, <1>2 DEF ScopeFits
  <2>2. j.stands = TRUE /\ j.notBefore = waits /\ j.raised = (st.raised \/ raise)
    OBVIOUS
  <2>3. st.raised => now >= waits /\ w = told[s] /\ g = group[s]
    BY <1>0 DEF ScopeFits, waits
  <2>4. raise => now >= waits /\ g.phase # "none" /\ w.kind = "down"
    BY <1>2, <2>1 DEF OutageOK
  <2>5. now >= waits => st.raised \/ raise
    OBVIOUS
  <2> HIDE DEF j, g, w, raise
  <2>6. st.raised => w.kind = "down" /\ (s = "offline" => g.phase # "none")
    BY <1>0, <2>3 DEF ScopeFits
  <2> QED BY <2>1, <2>2, <2>3, <2>4, <2>5, <2>6 DEF ScopeFits
<1> HIDE DEF j, g, w, raise, st
<1>7. msg' \subseteq [key : News!Keys, kind : {"alert", "summary", "still-down", "recovered"}] /\ NoRecovery
  BY <1>0, <1>3 DEF NoRecovery
<1>8. removed' = FALSE
  BY DEF NewsTypes
<1>9. /\ standing' \in [News!Scopes -> StandRec] /\ group' \in [News!Keys -> GroupRec]
      /\ told' \in [News!Keys -> ToldRec] /\ NewsInv'
  BY <1>1, <1>3, <1>4, <1>5, <1>6, <1>8, OneScope
<1> QED BY <1>7, <1>8, <1>9 DEF NewsTypes

\* Nothing is said, and nothing changes.
LEMMA NothingSaid ==
  ASSUME NewsTypes, NewsInv, events' \in 0..MaxEvents, msg' = {},
         UNCHANGED <<now, side, files, removed, told, standing, group>>
  PROVE  NewsTypes' /\ NewsInv' /\ NoRecovery
BY DEF NewsTypes, NewsInv, News!NoFailureIsUncounted, NoRecovery

LEMMA EventCounts ==
  ASSUME NewsTypes, News!Event
  PROVE  events' \in 0..MaxEvents /\ side = "node"
BY DaemonAssumption DEF NewsTypes, News!Event

LEMMA OfflineFits ==
  ASSUME NewsTypes, NewsInv, News!NodeOffline PROVE NewsTypes' /\ NewsInv' /\ NoRecovery /\ (removed => msg' = {})
<1>1. CASE removed
  BY <1>1, EventCounts, NothingSaid DEF News!NodeOffline, News!Silent
<1>2. CASE ~ removed
  BY <1>2, EventCounts, BeginFits, DaemonAssumption DEF News!NodeOffline, News!Scopes
<1> QED BY <1>1, <1>2

LEMMA RefusedFits ==
  ASSUME NewsTypes, NewsInv, News!NodeRefused PROVE NewsTypes' /\ NewsInv' /\ NoRecovery /\ (removed => msg' = {})
<1>1. CASE removed
  BY <1>1, EventCounts, NothingSaid DEF News!NodeRefused, News!Silent
<1>2. CASE ~ removed
  <2>1. News!Begin("refused", 0) \/ (News!Silent /\ UNCHANGED <<standing, group>>)
    BY <1>2 DEF News!NodeRefused
  <2>2. News!Event /\ UNCHANGED <<side, now, removed, files>>
    BY DEF News!NodeRefused
  <2>3. CASE News!Begin("refused", 0)
    BY <1>2, <2>2, <2>3, EventCounts, BeginFits DEF News!Scopes
  <2>4. CASE News!Silent /\ UNCHANGED <<standing, group>>
    BY <1>2, <2>2, <2>4, EventCounts, NothingSaid DEF News!Silent
  <2> QED BY <2>1, <2>3, <2>4
<1> QED BY <1>1, <1>2

LEMMA OnlineFits ==
  ASSUME NewsTypes, NewsInv, News!NodeOnline
  PROVE  NewsTypes' /\ NewsInv' /\ ~ removed /\ (\A m \in msg' : told[m.key].kind = "down")
<1> DEFINE news == {s \in News!Scopes : News!Recovers(s)}
<1>0. /\ news \subseteq News!Scopes /\ News!Scopes \subseteq News!Keys /\ "files" \in News!Keys
      /\ "files" \notin News!Scopes
  BY DEF News!Keys, News!Scopes
<1>1. /\ standing' = [s \in News!Scopes |-> News!NotStanding]
      /\ group' = [k \in News!Keys |-> IF k \in news THEN News!NoGroup ELSE group[k]]
      /\ msg' = {[key |-> s, kind |-> "recovered"] : s \in news}
      /\ told' = [k \in News!Keys |-> IF k \in news THEN [kind |-> "up", at |-> now] ELSE told[k]]
      /\ UNCHANGED <<side, now, removed, files>> /\ ~ removed /\ News!Event
  BY DEF News!NodeOnline, News!Recover
<1>2. \A s \in news : told[s].kind = "down"
  BY DEF NewsInv, ScopeFits, News!Recovers
<1> HIDE DEF news
<1>3. \A m \in msg' : told[m.key].kind = "down"
  BY <1>1, <1>2
<1>4. [kind |-> "up", at |-> now] \in ToldRec
  BY DaemonAssumption DEF NewsTypes, ToldRec
<1>5. \A s \in News!Scopes : ScopeFits(s, standing'[s], group'[s], told'[s], now)
  <2> TAKE s \in News!Scopes
  <2>1. standing'[s] = News!NotStanding
    BY <1>1
  <2>2. CASE s \in news
    <3>1. group'[s] = News!NoGroup
      BY <1>0, <1>1, <2>2
    <3>2. OutageOK(News!NoGroup, told'[s], now)
      BY NoGroupTypes DEF OutageOK
    <3> QED BY <2>1, <3>1, <3>2, NotStandingFits
  <2>3. CASE s \notin news
    <3>1. group'[s] = group[s] /\ told'[s] = told[s]
      BY <1>0, <1>1, <2>3
    <3>2. OutageOK(group[s], told[s], now)
      BY DEF NewsInv, ScopeFits
    <3> QED BY <2>1, <3>1, <3>2, NotStandingFits
  <2> QED BY <2>2, <2>3
<1>6. group'["files"] = group["files"]
  BY <1>0, <1>1
<1>7. NewsInv'
  BY <1>1, <1>5, <1>6 DEF NewsInv, News!NoFailureIsUncounted
<1>8. group' \in [News!Keys -> GroupRec] /\ told' \in [News!Keys -> ToldRec]
  BY <1>1, <1>4, NoGroupTypes DEF NewsTypes
<1>9. standing' \in [News!Scopes -> StandRec]
  <2>1. News!NotStanding \in StandRec
    BY DEF News!NotStanding, StandRec
  <2> QED BY <1>1, <2>1
<1>10. msg' \subseteq [key : News!Keys, kind : {"alert", "summary", "still-down", "recovered"}]
  BY <1>0, <1>1
<1>11. events' \in 0..MaxEvents
  BY <1>1, EventCounts
<1>12. NewsTypes'
  BY <1>1, <1>8, <1>9, <1>10, <1>11 DEF NewsTypes
<1> QED BY <1>1, <1>3, <1>7, <1>12

LEMMA RemovedFits ==
  ASSUME NewsTypes, NewsInv, News!RemoveNode PROVE NewsTypes' /\ NewsInv' /\ NoRecovery /\ ~ removed
<1>0. /\ News!Scopes \subseteq News!Keys /\ "files" \in News!Keys /\ "files" \notin News!Scopes
  BY DEF News!Keys, News!Scopes
<1>1. /\ removed' = TRUE /\ msg' = {} /\ told' = told /\ News!Event /\ ~ removed
      /\ standing' = [s \in News!Scopes |-> News!NotStanding]
      /\ group' = [k \in News!Keys |-> IF k \in News!Scopes THEN News!NoGroup ELSE group[k]]
      /\ UNCHANGED <<side, now, files>>
  BY DEF News!RemoveNode, News!Silent
<1>2. events' \in 0..MaxEvents /\ side = "node"
  BY <1>1, EventCounts
<1>3. \A s \in News!Scopes : /\ standing'[s] = News!NotStanding /\ group'[s] = News!NoGroup
                           /\ ScopeFits(s, standing'[s], group'[s], told'[s], now)
  <2> TAKE s \in News!Scopes
  <2>1. standing'[s] = News!NotStanding /\ group'[s] = News!NoGroup
    BY <1>0, <1>1
  <2>2. OutageOK(News!NoGroup, told'[s], now)
    BY NoGroupTypes DEF OutageOK
  <2> QED BY <2>1, <2>2, NotStandingFits
<1>4. group'["files"] = group["files"]
  BY <1>0, <1>1
<1>5. NewsInv'
  BY <1>1, <1>2, <1>3, <1>4, NoGroupTypes DEF NewsInv, News!NoFailureIsUncounted
<1>6. group' \in [News!Keys -> GroupRec]
  BY <1>1, NoGroupTypes DEF NewsTypes
<1>7. standing' \in [News!Scopes -> StandRec]
  <2>1. News!NotStanding \in StandRec
    BY DEF News!NotStanding, StandRec
  <2> QED BY <1>1, <2>1
<1>8. NewsTypes'
  BY <1>1, <1>2, <1>6, <1>7 DEF NewsTypes
<1> QED BY <1>1, <1>5, <1>8 DEF NoRecovery

LEMMA FileFailsFits ==
  ASSUME NewsTypes, NewsInv, News!FileFails PROVE NewsTypes' /\ NewsInv' /\ NoRecovery /\ ~ removed
<1>0. /\ News!Scopes \subseteq News!Keys /\ "files" \in News!Keys /\ "files" \notin News!Scopes
      /\ now \in Nat /\ group["files"] \in GroupRec
  BY DaemonAssumption DEF News!Keys, News!Scopes, NewsTypes
<1> PICK cause \in Causes :
     LET offer == News!Offered(group["files"], "files", cause, now) IN
       /\ group' = [group EXCEPT !["files"] = offer.group]
       /\ files' = [files EXCEPT !.raised = @ + 1, !.alone = IF offer.send THEN @ + 1 ELSE @]
       /\ IF offer.send
            THEN msg' = {[key |-> "files", kind |-> "alert"]} /\ News!Told("files", "down")
            ELSE News!Silent
  BY DEF News!FileFails
<1> DEFINE o == News!Offered(group["files"], "files", cause, now)
<1> DEFINE g == group["files"]
<1>1. /\ o.group \in GroupRec /\ o.group.phase = "window" /\ o.send \in BOOLEAN
      /\ o.group.pending = IF o.send THEN g.pending ELSE g.pending + 1
  BY <1>0, OfferFile DEF NewsInv
<1>2. /\ side = "files" /\ files.raised < MaxFailures /\ ~ removed
      /\ UNCHANGED <<side, now, standing, refusals, removed, events>>
  BY DEF News!FileFails, NewsInv
<1>3. /\ group' = [group EXCEPT !["files"] = o.group]
      /\ files' = [files EXCEPT !.raised = @ + 1, !.alone = IF o.send THEN @ + 1 ELSE @]
      /\ IF o.send THEN /\ msg' = {[key |-> "files", kind |-> "alert"]}
                        /\ told' = [told EXCEPT !["files"] = [kind |-> "down", at |-> now]]
                   ELSE msg' = {} /\ UNCHANGED told
  BY DEF News!Told, News!Silent
<1> HIDE DEF o
<1>4. /\ group' \in [News!Keys -> GroupRec] /\ group'["files"] = o.group
      /\ \A s \in News!Scopes : group'[s] = group[s]
  BY <1>0, <1>1, <1>3 DEF NewsTypes
<1>5. [kind |-> "down", at |-> now] \in ToldRec
  BY <1>0 DEF ToldRec
<1>6. told' \in [News!Keys -> ToldRec] /\ \A s \in News!Scopes : told'[s] = told[s]
  BY <1>0, <1>3, <1>5 DEF NewsTypes
<1>7. /\ files' \in [raised : 0..MaxFailures, alone : Nat, counted : Nat]
      /\ files'.raised = files.raised + 1 /\ files'.counted = files.counted
      /\ files'.alone = IF o.send THEN files.alone + 1 ELSE files.alone
  <2> DEFINE one == IF o.send THEN files.alone + 1 ELSE files.alone
  <2>1. /\ files \in [raised : 0..MaxFailures, alone : Nat, counted : Nat]
        /\ files.raised + 1 \in 0..MaxFailures /\ one \in Nat
    BY <1>2, DaemonAssumption DEF NewsTypes
  <2>2. files' = [files EXCEPT !.raised = files.raised + 1, !.alone = one]
    BY <1>3, <2>1
  <2> HIDE DEF one
  <2>3. /\ files' \in [raised : 0..MaxFailures, alone : Nat, counted : Nat]
        /\ files'.raised = files.raised + 1 /\ files'.counted = files.counted /\ files'.alone = one
    BY <2>1, <2>2
  <2> QED BY <2>3 DEF one
<1>8. News!NoFailureIsUncounted'
  <2>1. g.pending \in Nat /\ files.alone \in Nat /\ files.counted \in Nat /\ files.raised \in Nat
    BY <1>0, DaemonAssumption DEF NewsTypes, GroupRec
  <2>2. files.raised = files.alone + files.counted + g.pending
    BY DEF NewsInv, News!NoFailureIsUncounted
  <2>3. files'.raised = files'.alone + files'.counted + o.group.pending
    BY <1>1, <1>7, <2>1, <2>2
  <2> QED BY <1>4, <2>3 DEF News!NoFailureIsUncounted
<1>9. FilesOK(group'["files"])
  BY <1>1, <1>4 DEF FilesOK
<1>10. NewsInv'
  BY <1>2, <1>4, <1>6, <1>8, <1>9 DEF NewsInv
<1>11. msg' \subseteq [key : News!Keys, kind : {"alert", "summary", "still-down", "recovered"}] /\ NoRecovery
  BY <1>0, <1>3 DEF NoRecovery
<1>12. NewsTypes'
  BY <1>2, <1>4, <1>6, <1>7, <1>11 DEF NewsTypes
<1> QED BY <1>2, <1>10, <1>11, <1>12

\* What a tick does to each key, its functions applied.
LEMMA TickKeys ==
  ASSUME NewsTypes, News!Tick
  PROVE  LET d(k) == News!Due(group[k], k, now + 1)
             o(s) == News!Offered(d(s).group, s, "node", now + 1)
             kept(s) == News!Kept(now + 1)[s]
             again(s) == kept(s).stands /\ now + 1 >= kept(s).notBefore
             down == [kind |-> "down", at |-> now + 1] IN
         /\ now < MaxTime /\ now' = now + 1 /\ UNCHANGED <<side, removed, events>>
         /\ standing' = [s \in News!Scopes |-> IF again(s) THEN [kept(s) EXCEPT !.raised = TRUE] ELSE kept(s)]
         /\ group' = [k \in News!Keys |-> IF k \in News!Scopes /\ again(k) THEN o(k).group ELSE d(k).group]
         /\ told' = [k \in News!Keys |-> IF d(k).kind # "none" \/ (k \in News!Scopes /\ again(k) /\ o(k).send)
                                        THEN down ELSE told[k]]
         /\ files' = [files EXCEPT !.counted =
                        IF d("files").kind # "none" THEN @ + group["files"].pending ELSE @]
         /\ \A m \in msg' : \E k \in News!Keys :
               \/ m = [key |-> k, kind |-> d(k).kind] /\ d(k).kind # "none"
               \/ m = [key |-> k, kind |-> "alert"] /\ k \in News!Scopes /\ again(k) /\ o(k).send
<1> DEFINE d(k) == News!Due(group[k], k, now + 1)
<1> DEFINE o(s) == News!Offered(d(s).group, s, "node", now + 1)
<1> DEFINE kept(s) == News!Kept(now + 1)[s]
<1> DEFINE again(s) == kept(s).stands /\ now + 1 >= kept(s).notBefore
<1> DEFINE down == [kind |-> "down", at |-> now + 1]
<1> DEFINE dues == [k \in News!Keys |-> d(k)]
<1> DEFINE R == News!Reraised(now + 1)
<1> DEFINE offers == [s \in R |-> News!Offered(dues[s].group, s, "node", now + 1)]
<1> DEFINE follow == {k \in News!Keys : dues[k].kind # "none"}
<1> DEFINE first == {s \in R : offers[s].send}
<1>1. /\ now < MaxTime /\ now' = now + 1 /\ UNCHANGED <<side, removed, events>>
      /\ standing' = [s \in News!Scopes |->
           IF s \in R THEN [News!Kept(now + 1)[s] EXCEPT !.raised = TRUE] ELSE News!Kept(now + 1)[s]]
      /\ group' = [k \in News!Keys |-> IF k \in R THEN offers[k].group ELSE dues[k].group]
      /\ msg' = {[key |-> k, kind |-> dues[k].kind] : k \in follow}
                  \cup {[key |-> s, kind |-> "alert"] : s \in first}
      /\ told' = [k \in News!Keys |-> IF k \in follow \cup first THEN down ELSE told[k]]
      /\ files' = [files EXCEPT !.counted =
                     IF "files" \in follow THEN @ + group["files"].pending ELSE @]
  BY DEF News!Tick
<1>2. /\ \A s : s \in R <=> s \in News!Scopes /\ again(s)
      /\ News!Scopes \subseteq News!Keys /\ "files" \in News!Keys
  BY DEF News!Reraised, News!Keys
<1> HIDE DEF R, d, again
<1>3. \A k \in News!Keys : dues[k] = d(k)
  OBVIOUS
<1> HIDE DEF dues
<1>4. \A s \in R : offers[s] = o(s)
  BY <1>2, <1>3
<1> HIDE DEF offers, o
<1>5. /\ \A k \in News!Keys : k \in follow <=> d(k).kind # "none"
      /\ \A k \in News!Keys : k \in first <=> (k \in News!Scopes /\ again(k) /\ o(k).send)
      /\ follow \subseteq News!Keys /\ first \subseteq R
  BY <1>2, <1>3, <1>4
<1>6. \A m \in msg' : \E k \in News!Keys :
        \/ m = [key |-> k, kind |-> d(k).kind] /\ d(k).kind # "none"
        \/ m = [key |-> k, kind |-> "alert"] /\ k \in News!Scopes /\ again(k) /\ o(k).send
  <2> TAKE m \in msg'
  <2>1. CASE \E k \in follow : m = [key |-> k, kind |-> dues[k].kind]
    <3> PICK k \in follow : m = [key |-> k, kind |-> dues[k].kind]
      BY <2>1
    <3>1. k \in News!Keys /\ dues[k] = d(k) /\ d(k).kind # "none"
      BY <1>3, <1>5
    <3> QED BY <3>1
  <2>2. CASE \E k \in first : m = [key |-> k, kind |-> "alert"]
    <3> PICK k \in first : m = [key |-> k, kind |-> "alert"]
      BY <2>2
    <3>1. k \in News!Keys /\ k \in News!Scopes /\ again(k) /\ o(k).send
      BY <1>2, <1>5
    <3> QED BY <3>1
  <2> QED BY <1>1, <2>1, <2>2
<1> HIDE DEF follow, first
<1>7. told' = [k \in News!Keys |-> IF d(k).kind # "none" \/ (k \in News!Scopes /\ again(k) /\ o(k).send)
                                 THEN down ELSE told[k]]
  BY <1>1, <1>5
<1>8. group' = [k \in News!Keys |-> IF k \in News!Scopes /\ again(k) THEN o(k).group ELSE d(k).group]
  BY <1>1, <1>2, <1>3, <1>4
<1>9. standing' = [s \in News!Scopes |-> IF again(s) THEN [kept(s) EXCEPT !.raised = TRUE] ELSE kept(s)]
  BY <1>1, <1>2
<1>10. files' = [files EXCEPT !.counted =
                   IF d("files").kind # "none" THEN @ + group["files"].pending ELSE @]
  BY <1>1, <1>2, <1>5
<1> QED BY <1>1, <1>6, <1>7, <1>8, <1>9, <1>10 DEF d, o, again

LEMMA TickFits ==
  ASSUME NewsTypes, NewsInv, News!Tick
  PROVE  NewsTypes' /\ NewsInv' /\ NoRecovery /\ (removed => msg' = {})
<1> DEFINE d(k) == News!Due(group[k], k, now + 1)
<1> DEFINE o(s) == News!Offered(d(s).group, s, "node", now + 1)
<1> DEFINE kept(s) == News!Kept(now + 1)[s]
<1> DEFINE again(s) == kept(s).stands /\ now + 1 >= kept(s).notBefore
<1> DEFINE down == [kind |-> "down", at |-> now + 1]
<1>1. /\ now < MaxTime /\ now' = now + 1 /\ UNCHANGED <<side, removed, events>>
      /\ standing' = [s \in News!Scopes |-> IF again(s) THEN [kept(s) EXCEPT !.raised = TRUE] ELSE kept(s)]
      /\ group' = [k \in News!Keys |-> IF k \in News!Scopes /\ again(k) THEN o(k).group ELSE d(k).group]
      /\ told' = [k \in News!Keys |-> IF d(k).kind # "none" \/ (k \in News!Scopes /\ again(k) /\ o(k).send)
                                     THEN down ELSE told[k]]
      /\ files' = [files EXCEPT !.counted =
                     IF d("files").kind # "none" THEN @ + group["files"].pending ELSE @]
      /\ \A m \in msg' : \E k \in News!Keys :
            \/ m = [key |-> k, kind |-> d(k).kind] /\ d(k).kind # "none"
            \/ m = [key |-> k, kind |-> "alert"] /\ k \in News!Scopes /\ again(k) /\ o(k).send
  BY TickKeys
<1>2. /\ News!Scopes \subseteq News!Keys /\ "files" \in News!Keys /\ "files" \notin News!Scopes
      /\ now \in Nat /\ News!Keys = News!Scopes \cup {"files"} /\ now + 1 \in 0..MaxTime
  BY <1>1, DaemonAssumption DEF News!Keys, News!Scopes, NewsTypes
<1>3. \A s \in News!Scopes : kept(s) \in {standing[s], News!NotStanding}
  BY DEF News!Kept
<1>4. \A s \in News!Scopes :
        /\ standing'[s] \in StandRec /\ group'[s] \in GroupRec /\ told'[s] \in ToldRec
        /\ ScopeFits(s, standing'[s], group'[s], told'[s], now + 1)
  <2> TAKE s \in News!Scopes
  <2> DEFINE v == IF d(s).kind # "none" \/ (again(s) /\ o(s).send) THEN down ELSE told[s]
  <2> DEFINE h == IF again(s) THEN o(s).group ELSE d(s).group
  <2> DEFINE j == IF again(s) THEN [kept(s) EXCEPT !.raised = TRUE] ELSE kept(s)
  <2>1. /\ standing[s] \in StandRec /\ group[s] \in GroupRec /\ told[s] \in ToldRec
        /\ ScopeFits(s, standing[s], group[s], told[s], now)
    BY <1>2 DEF NewsTypes, NewsInv
  <2>a. kept(s) \in {standing[s], News!NotStanding}
    BY <1>3
  <2>b. now \in Nat
    BY <1>2
  <2> HIDE DEF kept
  <2>2. j \in StandRec /\ h \in GroupRec /\ v \in ToldRec /\ ScopeFits(s, j, h, v, now + 1)
    <3>1. Ticked(s, kept(s), group[s], told[s], now)
      BY <2>a, <2>b, <2>1, ScopeTicks
    <3> QED BY <3>1 DEF Ticked
  <2> HIDE DEF d, o, again
  <2>3. standing'[s] = j /\ group'[s] = h /\ told'[s] = v
    BY <1>1, <1>2
  <2> QED BY <2>2, <2>3
<1> DEFINE g == group["files"]
<1>5. /\ g \in GroupRec /\ FilesOK(g) /\ told["files"] \in ToldRec
      /\ files \in [raised : 0..MaxFailures, alone : Nat, counted : Nat]
  BY <1>2 DEF NewsTypes, NewsInv
<1>6. /\ d("files").group \in GroupRec /\ FilesOK(d("files").group) /\ d("files").kind \in {"none", "summary"}
      /\ d("files").group.pending = IF d("files").kind = "none" THEN g.pending ELSE 0
      /\ g.phase = "none" => d("files").group.phase = "none" /\ d("files").kind = "none"
  <2>1. now + 1 \in Nat
    BY <1>2
  <2> QED BY <1>5, <2>1, DueFile
<1>7. \A s \in News!Scopes : d(s).kind \in {"none", "summary", "still-down"}
                          /\ (group[s].phase = "none" => d(s).kind = "none" /\ d(s).group = group[s])
  <2> TAKE s \in News!Scopes
  <2>1. group[s] \in GroupRec /\ told[s] \in ToldRec /\ OutageOK(group[s], told[s], now)
    BY <1>2 DEF NewsTypes, NewsInv, ScopeFits
  <2> DEFINE u == group[s]
  <2> DEFINE w == told[s]
  <2>2. u \in GroupRec /\ w \in ToldRec /\ OutageOK(u, w, now) /\ now \in Nat
    BY <1>2, <2>1
  <2> HIDE DEF u, w
  <2>3. /\ News!Due(u, s, now + 1).kind \in {"none", "summary", "still-down"}
        /\ u.phase = "none" => /\ News!Due(u, s, now + 1).kind = "none"
                               /\ News!Due(u, s, now + 1).group = u
    BY <2>2, DueOutage
  <2> QED BY <2>3 DEF u
<1>8. removed => \A s \in News!Scopes : kept(s) = News!NotStanding /\ ~ again(s) /\ d(s).kind = "none"
                                      /\ d(s).group.phase = "none"
  BY <1>3, <1>7 DEF NewsInv, News!NotStanding
<1>9. removed => d("files").kind = "none"
  BY <1>6 DEF NewsInv
<1> HIDE DEF d, o, kept, again
<1>10. down \in ToldRec
  BY <1>2 DEF ToldRec
<1>11. /\ group'["files"] = d("files").group
       /\ told'["files"] \in ToldRec
  BY <1>1, <1>2, <1>5, <1>10
<1>12. standing' \in [News!Scopes -> StandRec] /\ group' \in [News!Keys -> GroupRec] /\ told' \in [News!Keys -> ToldRec]
  <2>1. DOMAIN standing' = News!Scopes /\ standing' = [s \in News!Scopes |-> standing'[s]]
    BY <1>1
  <2>2. group' = [k \in News!Keys |-> group'[k]] /\ told' = [k \in News!Keys |-> told'[k]]
    BY <1>1
  <2>3. \A k \in News!Keys : group'[k] \in GroupRec /\ told'[k] \in ToldRec
    BY <1>2, <1>4, <1>6, <1>11
  <2> QED BY <1>4, <2>1, <2>2, <2>3
<1>13. /\ files' \in [raised : 0..MaxFailures, alone : Nat, counted : Nat] /\ News!NoFailureIsUncounted'
  <2> DEFINE more == IF d("files").kind # "none" THEN files.counted + g.pending ELSE files.counted
  <2>1. g.pending \in Nat /\ more \in Nat /\ files.alone \in Nat /\ files.counted \in Nat
        /\ files.raised = files.alone + files.counted + g.pending
    BY <1>5 DEF GroupRec, NewsInv, News!NoFailureIsUncounted
  <2>2. files' = [files EXCEPT !.counted = more]
    BY <1>1, <1>5
  <2>3. more + d("files").group.pending = files.counted + g.pending
    BY <1>6, <2>1
  <2> HIDE DEF more
  <2>4. /\ files' \in [raised : 0..MaxFailures, alone : Nat, counted : Nat]
        /\ files'.raised = files.raised /\ files'.alone = files.alone /\ files'.counted = more
    BY <1>5, <2>1, <2>2
  <2>5. d("files").group.pending \in Nat
    BY <1>6 DEF GroupRec
  <2>6. files'.raised = files'.alone + files'.counted + group'["files"].pending
    BY <1>11, <2>1, <2>3, <2>4, <2>5
  <2> QED BY <2>4, <2>6 DEF News!NoFailureIsUncounted
<1>14. \A m \in msg' : m.kind \in {"alert", "summary", "still-down"} /\ m \in [key : News!Keys, kind : {"alert", "summary", "still-down", "recovered"}]
  <2> TAKE m \in msg'
  <2>1. PICK k \in News!Keys :
          \/ m = [key |-> k, kind |-> d(k).kind] /\ d(k).kind # "none"
          \/ m = [key |-> k, kind |-> "alert"] /\ k \in News!Scopes /\ again(k) /\ o(k).send
    BY <1>1
  <2>2. d(k).kind \in {"none", "summary", "still-down"}
    BY <1>2, <1>6, <1>7
  <2> QED BY <2>1, <2>2
<1>15. ASSUME removed PROVE msg' = {}
  <2>1. SUFFICES ASSUME NEW m \in msg' PROVE FALSE
    OBVIOUS
  <2>2. PICK k \in News!Keys :
          \/ m = [key |-> k, kind |-> d(k).kind] /\ d(k).kind # "none"
          \/ m = [key |-> k, kind |-> "alert"] /\ k \in News!Scopes /\ again(k) /\ o(k).send
    BY <1>1
  <2> QED BY <1>2, <1>8, <1>9, <1>15, <2>2
<1>16. removed => \A s \in News!Scopes : standing'[s] = News!NotStanding /\ group'[s].phase = "none"
  <2> SUFFICES ASSUME removed, NEW s \in News!Scopes PROVE standing'[s] = News!NotStanding /\ group'[s].phase = "none"
    OBVIOUS
  <2>1. kept(s) = News!NotStanding /\ ~ again(s) /\ d(s).group.phase = "none" /\ s \in News!Keys
    BY <1>2, <1>8
  <2> QED BY <1>1, <2>1
<1>17. NewsInv'
  <2>1. \A s \in News!Scopes : ScopeFits(s, standing'[s], group'[s], told'[s], now')
    BY <1>1, <1>4
  <2>2. side' = "node" => group'["files"].phase = "none"
    BY <1>1, <1>6, <1>11 DEF NewsInv
  <2>3. removed' => side' = "node"
    BY <1>1 DEF NewsInv
  <2> QED BY <1>1, <1>6, <1>11, <1>13, <1>16, <2>1, <2>2, <2>3 DEF NewsInv
<1>18. NewsTypes'
  <2>1. now' \in 0..MaxTime
    BY <1>1, <1>2
  <2> QED BY <1>1, <1>12, <1>13, <1>14, <2>1 DEF NewsTypes
<1> QED BY <1>14, <1>15, <1>17, <1>18 DEF NoRecovery

LEMMA NewsSteps ==
  ASSUME NewsTypes, NewsInv, [News!AlertsNext]_newsVars
  PROVE  /\ NewsTypes' /\ NewsInv'
         /\ [(\A m \in msg' : m.kind = "recovered" => told[m.key].kind = "down")]_(News!alvars)
         /\ [removed => msg' = {}]_(News!alvars)
<1>1. CASE News!NodeOffline
  BY <1>1, OfflineFits DEF NoRecovery
<1>2. CASE News!NodeOnline
  BY <1>2, OnlineFits
<1>3. CASE News!NodeRefused
  BY <1>3, RefusedFits DEF NoRecovery
<1>4. CASE News!RemoveNode
  BY <1>4, RemovedFits DEF NoRecovery
<1>5. CASE News!FileFails
  BY <1>5, FileFailsFits DEF NoRecovery
<1>6. CASE News!Tick
  BY <1>6, TickFits DEF NoRecovery
<1>7. CASE UNCHANGED newsVars
  BY <1>7 DEF newsVars, News!alvars, NewsTypes, NewsInv, News!NoFailureIsUncounted
<1> QED BY <1>1, <1>2, <1>3, <1>4, <1>5, <1>6, <1>7 DEF News!AlertsNext

LEMMA NewsStarts == News!AlertsInit => NewsTypes /\ NewsInv
<1> SUFFICES ASSUME News!AlertsInit PROVE NewsTypes /\ NewsInv
  OBVIOUS
<1>0. "files" \in News!Keys /\ News!Scopes \subseteq News!Keys
  BY DEF News!Keys
<1>1. News!NotStanding \in StandRec /\ [kind |-> "none", at |-> 0] \in ToldRec
  BY DEF News!NotStanding, StandRec, ToldRec
<1>2. NewsTypes
  <2>1. standing \in [News!Scopes -> StandRec] /\ group \in [News!Keys -> GroupRec] /\ told \in [News!Keys -> ToldRec]
    BY <1>1, NoGroupTypes DEF News!AlertsInit
  <2>2. files \in [raised : 0..MaxFailures, alone : Nat, counted : Nat]
    BY DaemonAssumption DEF News!AlertsInit
  <2>3. /\ side \in {"node", "files"} /\ now \in 0..MaxTime /\ events \in 0..MaxEvents /\ removed = FALSE /\ msg = {}
    BY DaemonAssumption DEF News!AlertsInit
  <2> QED BY <2>1, <2>2, <2>3 DEF NewsTypes
<1>3. group["files"] = News!NoGroup /\ files.raised = 0 /\ files.alone = 0 /\ files.counted = 0
  BY <1>0 DEF News!AlertsInit
<1>4. \A s \in News!Scopes : ScopeFits(s, standing[s], group[s], told[s], now)
  <2> TAKE s \in News!Scopes
  <2>1. standing[s] = News!NotStanding /\ group[s] = News!NoGroup
    BY <1>0 DEF News!AlertsInit
  <2>2. OutageOK(News!NoGroup, told[s], now)
    BY NoGroupTypes DEF OutageOK
  <2> QED BY <2>1, <2>2, NotStandingFits
<1>5. News!NoFailureIsUncounted
  BY <1>3, NoGroupTypes DEF News!NoFailureIsUncounted
<1> QED BY <1>2, <1>3, <1>4, <1>5, NoGroupTypes DEF NewsInv, FilesOK, News!AlertsInit

LEMMA OutageIsRepeated == NewsTypes /\ NewsInv => News!StandingOutageIsRepeated
<1> SUFFICES ASSUME NewsTypes, NewsInv, standing["offline"].stands, now >= standing["offline"].notBefore
             PROVE  told["offline"].kind = "down" /\ now - told["offline"].at <= Repeat
  BY DEF News!StandingOutageIsRepeated
<1> DEFINE g == group["offline"]
<1> DEFINE w == told["offline"]
<1>1. g \in GroupRec /\ w \in ToldRec /\ now \in Nat
  BY DaemonAssumption DEF NewsTypes, News!Keys, News!Scopes
<1>2. ScopeFits("offline", standing["offline"], g, w, now)
  BY DEF NewsInv, News!Scopes
<1>3. g.phase # "none" /\ OutageOK(g, w, now)
  BY <1>2 DEF ScopeFits
<1> HIDE DEF g, w
<1>4. w.kind = "down" /\ w.at >= g.notice /\ w.at \in Nat /\ g.notice \in Int /\ g.phase \in {"window", "repeat"}
  BY <1>1, <1>3 DEF OutageOK, GroupRec, ToldRec
<1>5. now <= g.notice + Repeat
  BY <1>1, <1>3, <1>4, DaemonAssumption DEF OutageOK
<1>6. now - w.at <= Repeat
  BY <1>1, <1>4, <1>5, DaemonAssumption
<1> QED BY <1>4, <1>6 DEF w

LEMMA NewsMoves == [DaemonNext]_daemonVars => [News!AlertsNext]_newsVars
BY DEF DaemonNext, daemonVars

\* Every failure is sent or counted, an outage that lasts is said again, and neither a recovery
\* nor a removed node is heard of out of turn (Alerts: alerts.ts AlertCoalescer, daemon-alerts.ts).
THEOREM OutagesTold == DaemonSpec => OutagesAreTold
<1>1. DaemonInit => NewsTypes /\ NewsInv
  BY NewsStarts DEF DaemonInit
<1>2. NewsTypes /\ NewsInv /\ [DaemonNext]_daemonVars =>
        /\ (NewsTypes /\ NewsInv)'
        /\ [(\A m \in msg' : m.kind = "recovered" => told[m.key].kind = "down")]_(News!alvars)
        /\ [removed => msg' = {}]_(News!alvars)
  BY NewsMoves, NewsSteps
<1>3. NewsTypes /\ NewsInv => News!NoFailureIsUncounted /\ News!StandingOutageIsRepeated
  BY OutageIsRepeated DEF NewsInv
<1> QED BY <1>1, <1>2, <1>3, PTL DEF DaemonSpec, OutagesAreTold, News!RecoveryFollowsAlert, News!RemovedNodeIsQuiet


-----------------------------------------------------------------------------
(* The screen: the invariant.                                              *)

FrameRec == [type : {"started", "progress", "finished"}, job : Live!Tasks]
Carries(c, type, j) == \E n \in 1..Len(c) : c[n] = Live!Frame(type, j)

LiveTypes ==
  /\ task \in [Live!Tasks -> {"waiting", "running", "done"}]
  /\ channel \in Seq(FrameRec) /\ link \in {"up", "cut", "down"}
  /\ running \subseteq Live!Tasks /\ finished \subseteq Live!Tasks /\ fetched \subseteq Live!Tasks
  /\ fetch \in [at : {"none", "asked", "answered"}, rows : SUBSET Live!Tasks, fresh : BOOLEAN]
  /\ synced \in BOOLEAN

\* The debounce fires in time.
InTime == waited \in Nat /\ due \in Nat /\ waited + due <= MaxWait

\* What a frame says has happened, and so has what the reducer took from it.
FrameIsTrue(f, t) ==
  /\ f.type = "started" => t[f.job] # "waiting"
  /\ f.type = "finished" => t[f.job] = "done"
FramesAreTrue(c) == \A n \in 1..Len(c) : FrameIsTrue(c[n], task)
ReducerIsTrue == (\A j \in running : task[j] # "waiting") /\ (\A j \in finished : task[j] = "done")

\* On a connection that stands no finish is lost: it comes behind the start.
EndsFollow(c) ==
  /\ \A j \in running : task[j] = "done" => Carries(c, "finished", j)
  /\ \A n \in 1..Len(c) : \A j \in Live!Tasks : c[n] = Live!Frame("started", j) /\ task[j] = "done" =>
       \E m \in 1..Len(c) : m > n /\ c[m] = Live!Frame("finished", j)

\* Rows that were read on this connection are right up to the frames on their way.
Covers(rows, c) ==
  \A j \in Live!Tasks :
    /\ task[j] = "running" => j \in rows \/ Carries(c, "started", j) \/ j \in running
    /\ j \in rows /\ task[j] = "done" => Carries(c, "finished", j) \/ j \in finished

ScreenInv ==
  /\ FramesAreTrue(channel) /\ ReducerIsTrue
  /\ link = "up" => /\ EndsFollow(channel)
                    /\ fetch.fresh => Covers(fetch.rows, channel)
                    /\ synced => Covers(fetched, channel)
  /\ link = "down" => channel = << >> /\ running = {} /\ finished = {} /\ ~ fetch.fresh
  /\ fetch.fresh => fetch.at = "answered"
  /\ synced => link = "up" /\ (fetch.at = "answered" => fetch.fresh)

LEMMA FrameTypes ==
  ASSUME NEW j \in Live!Tasks, NEW type \in {"started", "progress", "finished"}
  PROVE  /\ Live!Frame(type, j) \in FrameRec
         /\ Live!Frame(type, j).type = type /\ Live!Frame(type, j).job = j
BY DEF Live!Frame, FrameRec

LEMMA FramesDiffer ==
  ASSUME NEW i \in Live!Tasks, NEW j \in Live!Tasks, NEW a, NEW b, Live!Frame(a, i) = Live!Frame(b, j)
  PROVE  a = b /\ i = j
<1>1. Live!Frame(a, i).type = Live!Frame(b, j).type /\ Live!Frame(a, i).job = Live!Frame(b, j).job
  OBVIOUS
<1> QED BY <1>1 DEF Live!Frame

LEMMA AppendCarries ==
  ASSUME NEW c \in Seq(FrameRec), NEW f \in FrameRec
  PROVE  /\ Append(c, f) \in Seq(FrameRec) /\ Len(Append(c, f)) = Len(c) + 1 /\ Len(c) \in Nat
         /\ Append(c, f)[Len(c) + 1] = f /\ \A n \in 1..Len(c) : Append(c, f)[n] = c[n]
OBVIOUS

LEMMA TailCarries ==
  ASSUME NEW c \in Seq(FrameRec), c # << >>
  PROVE  /\ Tail(c) \in Seq(FrameRec) /\ Len(Tail(c)) = Len(c) - 1 /\ Len(c) \in Nat /\ Len(c) > 0
         /\ Head(c) = c[1] /\ \A n \in 1..Len(c) - 1 : Tail(c)[n] = c[n + 1]
OBVIOUS

\* A frame behind the first one stays, one place nearer.
LEMMA TailKeeps ==
  ASSUME NEW c \in Seq(FrameRec), c # << >>, NEW type, NEW j, Carries(c, type, j),
         Head(c) # Live!Frame(type, j)
  PROVE  Carries(Tail(c), type, j)
<1>1. PICK n \in 1..Len(c) : c[n] = Live!Frame(type, j)
  BY DEF Carries
<1>2. n # 1 /\ n - 1 \in 1..Len(c) - 1 /\ n - 1 + 1 = n
  BY <1>1, TailCarries
<1>3. Tail(c)[n - 1] = c[n] /\ n - 1 \in 1..Len(Tail(c))
  BY <1>2, TailCarries
<1> QED BY <1>1, <1>3 DEF Carries

LEMMA AppendKeepsFrames ==
  ASSUME NEW c \in Seq(FrameRec), NEW f \in FrameRec, NEW type, NEW j,
         Carries(c, type, j) \/ f = Live!Frame(type, j)
  PROVE  Carries(Append(c, f), type, j)
<1>1. CASE Carries(c, type, j)
  <2>1. PICK n \in 1..Len(c) : c[n] = Live!Frame(type, j)
    BY <1>1 DEF Carries
  <2>2. n \in 1..Len(Append(c, f)) /\ Append(c, f)[n] = Live!Frame(type, j)
    BY <2>1, AppendCarries
  <2> QED BY <2>2 DEF Carries
<1>2. CASE f = Live!Frame(type, j)
  <2>1. Len(c) + 1 \in 1..Len(Append(c, f)) /\ Append(c, f)[Len(c) + 1] = Live!Frame(type, j)
    BY <1>2, AppendCarries
  <2> QED BY <2>1 DEF Carries
<1> QED BY <1>1, <1>2

LEMMA CutCarries ==
  ASSUME NEW c \in Seq(FrameRec), NEW k \in 0..Len(c)
  PROVE  /\ SubSeq(c, 1, k) \in Seq(FrameRec)
         /\ \A n \in 1..Len(SubSeq(c, 1, k)) : n \in 1..Len(c) /\ SubSeq(c, 1, k)[n] = c[n]
<1>1. Len(c) \in Nat /\ \A i \in 1..k : c[i] \in FrameRec
  OBVIOUS
<1> QED BY <1>1, SubSeqProperties

-----------------------------------------------------------------------------
(* The screen: the steps.                                                  *)

LEMMA EmitCases ==
  ASSUME LiveTypes, NEW f \in FrameRec, Live!Emit(f)
  PROVE  \/ UNCHANGED <<channel, link, synced>> /\ (link # "up" \/ f.type = "progress")
         \/ /\ link' = "cut" /\ synced' = FALSE /\ channel' \in Seq(FrameRec)
            /\ \A n \in 1..Len(channel') : n \in 1..Len(channel) /\ channel'[n] = channel[n]
         \/ link = "up" /\ channel' = Append(channel, f) /\ UNCHANGED <<link, synced>>
<1>1. CASE \E k \in 0..Len(channel) : channel' = SubSeq(channel, 1, k) /\ link' = "cut" /\ synced' = FALSE
  <2> PICK k \in 0..Len(channel) : channel' = SubSeq(channel, 1, k) /\ link' = "cut" /\ synced' = FALSE
    BY <1>1
  <2> QED BY CutCarries DEF LiveTypes
<1>2. CASE ~ \E k \in 0..Len(channel) : channel' = SubSeq(channel, 1, k) /\ link' = "cut" /\ synced' = FALSE
  BY <1>2 DEF Live!Emit, Live!Cosmetic, Live!socket
<1> QED BY <1>1, <1>2

LEMMA JobMoves ==
  ASSUME LiveTypes, ScreenInv, NEW j \in Live!Tasks, NEW type \in {"started", "progress", "finished"},
         NEW s \in {"running", "done"}, task' = [task EXCEPT ![j] = s],
         \/ type = "started" /\ task[j] = "waiting" /\ s = "running"
         \/ type = "finished" /\ task[j] = "running" /\ s = "done"
         \/ type = "progress" /\ task[j] = "running" /\ s = "running",
         Live!Emit(Live!Frame(type, j)), UNCHANGED <<running, finished, fetch, fetched>>
  PROVE  LiveTypes' /\ ScreenInv'
<1> DEFINE f == Live!Frame(type, j)
<1>0. f \in FrameRec /\ f.type = type /\ f.job = j
  BY FrameTypes
<1>1. /\ task' \in [Live!Tasks -> {"waiting", "running", "done"}] /\ task'[j] = s
      /\ \A i \in Live!Tasks : i # j => task'[i] = task[i]
      /\ channel \in Seq(FrameRec)
  BY DEF LiveTypes
<1>2. \A i \in Live!Tasks : /\ task[i] # "waiting" => task'[i] # "waiting"
                          /\ task[i] = "done" => task'[i] = "done"
  BY <1>1
<1>3. \A n \in 1..Len(channel) : FrameIsTrue(channel[n], task')
  <2> TAKE n \in 1..Len(channel)
  <2>1. channel[n] \in FrameRec
    BY <1>1
  <2>2. channel[n].job \in Live!Tasks
    BY <2>1 DEF FrameRec
  <2>3. FrameIsTrue(channel[n], task)
    BY DEF ScreenInv, FramesAreTrue
  <2> QED BY <1>2, <2>2, <2>3 DEF FrameIsTrue
<1>4. ReducerIsTrue'
  BY <1>2 DEF ScreenInv, ReducerIsTrue, LiveTypes
<1>5. CASE UNCHANGED <<channel, link, synced>> /\ (link # "up" \/ f.type = "progress")
  <2>1. FramesAreTrue(channel)'
    <3> SUFFICES ASSUME NEW n \in 1..Len(channel')
                 PROVE  FrameIsTrue(channel'[n], task')
      BY DEF FramesAreTrue
    <3>1. n \in 1..Len(channel) /\ channel'[n] = channel[n]
      BY <1>5
    <3> QED BY <1>3, <3>1
  <2>2. CASE link # "up"
    BY <1>1, <1>4, <1>5, <2>1, <2>2 DEF LiveTypes, ScreenInv
  <2>3. CASE type = "progress"
    <3>1. task' = task
      BY <1>1, <2>3 DEF LiveTypes
    <3> QED BY <1>4, <1>5, <2>1, <3>1 DEF LiveTypes, ScreenInv, EndsFollow, Covers, Carries
  <2> QED BY <1>0, <1>5, <2>2, <2>3
<1>6. CASE /\ link' = "cut" /\ synced' = FALSE /\ channel' \in Seq(FrameRec)
           /\ \A n \in 1..Len(channel') : n \in 1..Len(channel) /\ channel'[n] = channel[n]
  <2>1. FramesAreTrue(channel)'
    <3> SUFFICES ASSUME NEW n \in 1..Len(channel')
                 PROVE  FrameIsTrue(channel'[n], task')
      BY DEF FramesAreTrue
    <3>1. n \in 1..Len(channel) /\ channel'[n] = channel[n]
      BY <1>6
    <3> QED BY <1>3, <3>1
  <2> QED BY <1>1, <1>4, <1>6, <2>1 DEF LiveTypes, ScreenInv
<1>7. CASE link = "up" /\ channel' = Append(channel, f) /\ UNCHANGED <<link, synced>>
  <2> HIDE DEF f
  <2>1. /\ Append(channel, f) \in Seq(FrameRec) /\ Len(channel') = Len(channel) + 1 /\ Len(channel) \in Nat
        /\ channel'[Len(channel) + 1] = f /\ \A n \in 1..Len(channel) : channel'[n] = channel[n]
    BY <1>0, <1>1, <1>7, AppendCarries
  <2>2. \A a, i : Carries(channel, a, i) \/ f = Live!Frame(a, i) => Carries(channel', a, i)
    BY <1>0, <1>1, <1>7, AppendKeepsFrames
  <2>3. FramesAreTrue(channel)'
    <3> SUFFICES ASSUME NEW n \in 1..Len(channel')
                 PROVE  FrameIsTrue(channel'[n], task')
      BY DEF FramesAreTrue
    <3>1. CASE n \in 1..Len(channel)
      <4>1. channel'[n] = channel[n]
        BY <2>1, <3>1
      <4> QED BY <1>3, <3>1, <4>1
    <3>2. CASE n = Len(channel) + 1
      BY <1>0, <1>1, <2>1, <3>2 DEF FrameIsTrue
    <3> QED BY <2>1, <3>1, <3>2
  <2>4. \A i \in running : task'[i] = "done" => Carries(channel', "finished", i)
    <3> SUFFICES ASSUME NEW i \in running, task'[i] = "done" PROVE Carries(channel', "finished", i)
      OBVIOUS
    <3>1. CASE task[i] = "done"
      BY <1>7, <2>2, <3>1 DEF ScreenInv, EndsFollow
    <3>2. CASE task[i] # "done"
      <4>1. i = j /\ type = "finished"
        BY <1>1, <3>2 DEF LiveTypes
      <4> QED BY <2>2, <4>1 DEF f
    <3> QED BY <3>1, <3>2
  <2>5. \A n \in 1..Len(channel') : \A i \in Live!Tasks : channel'[n] = Live!Frame("started", i) /\ task'[i] = "done" =>
          \E m \in 1..Len(channel') : m > n /\ channel'[m] = Live!Frame("finished", i)
    <3> SUFFICES ASSUME NEW n \in 1..Len(channel'), NEW i \in Live!Tasks, channel'[n] = Live!Frame("started", i),
                        task'[i] = "done"
                 PROVE  \E m \in 1..Len(channel') : m > n /\ channel'[m] = Live!Frame("finished", i)
      OBVIOUS
    <3>1. n # Len(channel) + 1
      <4>1. SUFFICES ASSUME n = Len(channel) + 1 PROVE FALSE
        OBVIOUS
      <4>2. Live!Frame("started", i) = Live!Frame(type, j)
        BY <2>1, <4>1 DEF f
      <4>3. i = j /\ type = "started"
        BY <4>2, FramesDiffer
      <4> QED BY <1>1, <4>3
    <3>2. n \in 1..Len(channel) /\ channel[n] = Live!Frame("started", i)
      BY <2>1, <3>1
    <3>3. CASE task[i] = "done"
      <4>1. PICK m \in 1..Len(channel) : m > n /\ channel[m] = Live!Frame("finished", i)
        BY <1>7, <3>2, <3>3 DEF ScreenInv, EndsFollow
      <4> QED BY <2>1, <4>1
    <3>4. CASE task[i] # "done"
      <4>1. i = j /\ type = "finished"
        BY <1>1, <3>4
      <4>2. Len(channel) + 1 \in 1..Len(channel') /\ Len(channel) + 1 > n
        BY <2>1, <3>2
      <4> QED BY <2>1, <4>1, <4>2 DEF f
    <3> QED BY <3>3, <3>4
  <2>6. ASSUME NEW rows, Covers(rows, channel) PROVE Covers(rows, channel)'
    <3> SUFFICES ASSUME NEW i \in Live!Tasks
                 PROVE  /\ task'[i] = "running" => i \in rows \/ Carries(channel', "started", i) \/ i \in running
                        /\ i \in rows /\ task'[i] = "done" => Carries(channel', "finished", i) \/ i \in finished
      BY DEF Covers
    <3>1. CASE task'[i] = task[i]
      BY <2>2, <2>6, <3>1 DEF Covers
    <3>2. CASE task'[i] # task[i]
      <4>1. i = j /\ type \in {"started", "finished"}
        BY <1>1, <3>2
      <4> QED BY <1>1, <2>2, <4>1 DEF f
    <3> QED BY <3>1, <3>2
  <2>7. EndsFollow(channel)'
    BY <2>4, <2>5 DEF EndsFollow
  <2>8. (fetch.fresh => Covers(fetch.rows, channel)) /\ (synced => Covers(fetched, channel))
    BY <1>7 DEF ScreenInv
  <2>9. fetch.fresh => Covers(fetch.rows, channel)'
    BY <2>6, <2>8
  <2>10. synced => Covers(fetched, channel)'
    BY <2>6, <2>8
  <2>11. ScreenInv'
    BY <1>4, <1>7, <2>3, <2>7, <2>9, <2>10 DEF ScreenInv
  <2> QED BY <1>1, <1>7, <2>1, <2>11 DEF LiveTypes
<1> QED BY <1>0, <1>5, <1>6, <1>7, EmitCases

LEMMA ReadMoves ==
  ASSUME LiveTypes, ScreenInv, Live!Read
  PROVE  LiveTypes' /\ ScreenInv'
<1> DEFINE f == Head(channel)
<1> DEFINE j == f.job
<1>1. /\ channel # << >> /\ channel \in Seq(FrameRec) /\ channel' = Tail(channel) /\ link # "down"
      /\ UNCHANGED <<task, link, fetch, fetched, synced>>
  BY DEF Live!Read, Live!record, Live!rest, LiveTypes
<1>2. /\ Tail(channel) \in Seq(FrameRec) /\ Len(channel') = Len(channel) - 1 /\ Len(channel) \in Nat /\ Len(channel) > 0
      /\ f = channel[1] /\ \A n \in 1..Len(channel) - 1 : channel'[n] = channel[n + 1]
  BY <1>1, TailCarries
<1>3. f \in FrameRec /\ FrameIsTrue(f, task) /\ 1 \in 1..Len(channel)
  BY <1>1, <1>2 DEF ScreenInv, FramesAreTrue
<1>4. j \in Live!Tasks /\ f = Live!Frame(f.type, j)
  BY <1>3 DEF FrameRec, Live!Frame
<1>5. \/ f.type = "started" /\ running' = running \cup {j} /\ finished' = finished
      \/ f.type = "progress" /\ running' = running /\ finished' = finished
      \/ f.type = "finished" /\ running' = running \ {j} /\ finished' = finished \cup {j}
  BY DEF Live!Read, Live!ReadStarted, Live!ReadProgress, Live!ReadFinished, Live!live
<1>6. \A type, i : Carries(channel, type, i) /\ ~ (type = f.type /\ i = j) => Carries(channel', type, i)
  <2> SUFFICES ASSUME NEW type, NEW i, Carries(channel, type, i), ~ (type = f.type /\ i = j)
               PROVE  Carries(channel', type, i)
    OBVIOUS
  <2>1. f # Live!Frame(type, i)
    <3>1. SUFFICES ASSUME Live!Frame(f.type, j) = Live!Frame(type, i) PROVE FALSE
      BY <1>4
    <3>2. f.type = type /\ j = i
      <4>1. Live!Frame(f.type, j).type = Live!Frame(type, i).type /\ Live!Frame(f.type, j).job = Live!Frame(type, i).job
        BY <3>1
      <4> HIDE DEF f, j
      <4> QED BY <4>1 DEF Live!Frame
    <3> QED BY <3>2
  <2> QED BY <1>1, <2>1, TailKeeps
<1> HIDE DEF f, j
<1>7. LiveTypes'
  BY <1>1, <1>2, <1>4, <1>5 DEF LiveTypes
<1>8. FramesAreTrue(channel)'
  <2> SUFFICES ASSUME NEW n \in 1..Len(channel') PROVE FrameIsTrue(channel'[n], task')
    BY DEF FramesAreTrue
  <2>1. n + 1 \in 1..Len(channel) /\ channel'[n] = channel[n + 1] /\ task' = task
    BY <1>1, <1>2
  <2> QED BY <2>1 DEF ScreenInv, FramesAreTrue
<1>9. ReducerIsTrue'
  <2>1. f.type = "started" => task[j] # "waiting"
    BY <1>3 DEF FrameIsTrue, j
  <2>2. f.type = "finished" => task[j] = "done"
    BY <1>3 DEF FrameIsTrue, j
  <2>3. task' = task /\ ReducerIsTrue
    BY <1>1 DEF ScreenInv
  <2> QED BY <1>5, <2>1, <2>2, <2>3 DEF ReducerIsTrue
<1>10. ASSUME link = "up" PROVE EndsFollow(channel)'
  <2>0. EndsFollow(channel) /\ task' = task
    BY <1>1, <1>10 DEF ScreenInv
  <2>1. \A n \in 1..Len(channel') : \A i \in Live!Tasks : channel'[n] = Live!Frame("started", i) /\ task[i] = "done" =>
          \E m \in 1..Len(channel') : m > n /\ channel'[m] = Live!Frame("finished", i)
    <3> SUFFICES ASSUME NEW n \in 1..Len(channel'), NEW i \in Live!Tasks, channel'[n] = Live!Frame("started", i),
                        task[i] = "done"
                 PROVE  \E m \in 1..Len(channel') : m > n /\ channel'[m] = Live!Frame("finished", i)
      OBVIOUS
    <3>1. n + 1 \in 1..Len(channel) /\ channel[n + 1] = Live!Frame("started", i)
      BY <1>2
    <3>2. PICK m \in 1..Len(channel) : m > n + 1 /\ channel[m] = Live!Frame("finished", i)
      BY <2>0, <3>1 DEF EndsFollow
    <3>3. m - 1 \in 1..Len(channel) - 1 /\ m - 1 > n /\ m - 1 + 1 = m
      BY <1>2, <3>2
    <3>4. channel'[m - 1] = Live!Frame("finished", i) /\ m - 1 \in 1..Len(channel')
      BY <1>2, <3>2, <3>3
    <3> QED BY <3>3, <3>4
  <2>2. \A i \in running' : task[i] = "done" => Carries(channel', "finished", i)
    <3> SUFFICES ASSUME NEW i \in running', task[i] = "done" PROVE Carries(channel', "finished", i)
      OBVIOUS
    <3>1. CASE i \in running
      <4>1. Carries(channel, "finished", i)
        BY <2>0, <3>1 DEF EndsFollow
      <4>2. ~ (f.type = "finished" /\ i = j)
        BY <1>5
      <4> QED BY <1>6, <4>1, <4>2
    <3>2. CASE i \notin running
      <4>1. i = j /\ f.type = "started"
        BY <1>5, <3>2
      <4>2. channel[1] = Live!Frame("started", i) /\ i \in Live!Tasks
        BY <1>2, <1>4, <4>1
      <4>3. PICK m \in 1..Len(channel) : m > 1 /\ channel[m] = Live!Frame("finished", i)
        BY <1>3, <2>0, <4>2 DEF EndsFollow
      <4>4. Carries(channel, "finished", i)
        BY <4>3 DEF Carries
      <4> QED BY <1>6, <4>1, <4>4
    <3> QED BY <3>1, <3>2
  <2> QED BY <2>0, <2>1, <2>2 DEF EndsFollow
<1>11. ASSUME NEW rows, Covers(rows, channel) PROVE Covers(rows, channel)'
  <2> SUFFICES ASSUME NEW i \in Live!Tasks
               PROVE  /\ task[i] = "running" => i \in rows \/ Carries(channel', "started", i) \/ i \in running'
                      /\ i \in rows /\ task[i] = "done" => Carries(channel', "finished", i) \/ i \in finished'
    BY <1>1 DEF Covers
  <2>1. /\ task[i] = "running" => i \in rows \/ Carries(channel, "started", i) \/ i \in running
        /\ i \in rows /\ task[i] = "done" => Carries(channel, "finished", i) \/ i \in finished
    BY <1>11 DEF Covers
  <2>2. f.type = "finished" => task[j] = "done"
    BY <1>3 DEF FrameIsTrue, j
  <2>3. ASSUME task[i] = "running", i \notin rows, ~ Carries(channel', "started", i) PROVE i \in running'
    <3>1. CASE i \in running
      <4>1. ~ (f.type = "finished" /\ i = j)
        BY <2>2, <2>3
      <4> QED BY <1>5, <3>1, <4>1
    <3>2. CASE i \notin running
      <4>1. Carries(channel, "started", i)
        BY <2>1, <2>3, <3>2
      <4>2. "started" = f.type /\ i = j
        BY <1>6, <2>3, <4>1
      <4> QED BY <1>5, <4>2
    <3> QED BY <3>1, <3>2
  <2>4. ASSUME i \in rows, task[i] = "done", ~ Carries(channel', "finished", i) PROVE i \in finished'
    <3>1. CASE i \in finished
      BY <1>5, <3>1
    <3>2. CASE i \notin finished
      <4>1. Carries(channel, "finished", i)
        BY <2>1, <2>4, <3>2
      <4>2. "finished" = f.type /\ i = j
        BY <1>6, <2>4, <4>1
      <4> QED BY <1>5, <4>2
    <3> QED BY <3>1, <3>2
  <2> QED BY <2>3, <2>4
<1>12. link = "up" => (fetch.fresh => Covers(fetch.rows, channel)) /\ (synced => Covers(fetched, channel))
  BY DEF ScreenInv
<1>13. link = "up" => (fetch.fresh => Covers(fetch.rows, channel)')
  BY <1>1, <1>11, <1>12
<1>14. link = "up" => (synced => Covers(fetched, channel)')
  BY <1>1, <1>11, <1>12
<1>15. ScreenInv'
  <2>1. link' = "up" => EndsFollow(channel)'
    BY <1>1, <1>10
  <2>2. /\ fetch.fresh => fetch.at = "answered"
        /\ synced => link = "up" /\ (fetch.at = "answered" => fetch.fresh)
    BY DEF ScreenInv
  <2> QED BY <1>1, <1>8, <1>9, <1>13, <1>14, <2>1, <2>2 DEF ScreenInv
<1> QED BY <1>7, <1>15

\* A step that moves no frame, and no row of the reducer.
LEMMA FetchMoves ==
  ASSUME LiveTypes, ScreenInv, UNCHANGED <<task, channel, link, running, finished>>,
         NEW g \in [at : {"none", "asked", "answered"}, rows : SUBSET Live!Tasks, fresh : BOOLEAN],
         fetch' = g, NEW rows \in SUBSET Live!Tasks, fetched' = rows, NEW b \in BOOLEAN, synced' = b,
         g.fresh => g.at = "answered" /\ link # "down",
         link = "up" /\ g.fresh => Covers(g.rows, channel),
         b => link = "up" /\ Covers(rows, channel) /\ (g.at = "answered" => g.fresh)
  PROVE  LiveTypes' /\ ScreenInv'
<1>1. LiveTypes'
  BY DEF LiveTypes
<1>2. \A r : Covers(r, channel) => Covers(r, channel)'
  BY DEF Covers, Carries
<1>3. EndsFollow(channel) => EndsFollow(channel)'
  BY DEF EndsFollow, Carries
<1>4. FramesAreTrue(channel)' /\ ReducerIsTrue'
  BY DEF ScreenInv, FramesAreTrue, ReducerIsTrue
<1>5. link' = "up" => (fetch'.fresh => Covers(g.rows, channel)') /\ (synced' => Covers(rows, channel)')
  BY <1>2
<1> QED BY <1>1, <1>3, <1>4, <1>5 DEF ScreenInv

LEMMA LinkMoves ==
  ASSUME LiveTypes, ScreenInv, Live!LinkCut \/ Live!Connect \/ Live!Close
  PROVE  LiveTypes' /\ ScreenInv'
<1>1. CASE Live!LinkCut
  <2>1. PICK k \in 0..Len(channel) : channel' = SubSeq(channel, 1, k)
    BY <1>1 DEF Live!LinkCut
  <2>2. /\ channel' \in Seq(FrameRec) /\ link' = "cut" /\ synced' = FALSE
        /\ \A n \in 1..Len(channel') : n \in 1..Len(channel) /\ channel'[n] = channel[n]
        /\ UNCHANGED <<task, running, finished, fetch, fetched>>
    BY <1>1, <2>1, CutCarries DEF Live!LinkCut, Live!record, Live!live, LiveTypes
  <2>3. FramesAreTrue(channel)' /\ ReducerIsTrue'
    BY <2>2 DEF ScreenInv, FramesAreTrue, ReducerIsTrue
  <2> QED BY <2>2, <2>3 DEF ScreenInv, LiveTypes
<1>2. CASE Live!Connect
  <2>1. /\ link = "down" /\ link' = "up" /\ channel' = << >>
        /\ UNCHANGED <<task, running, finished, fetch, fetched, synced>>
    BY <1>2 DEF Live!Connect, Live!record, Live!live, Live!rest
  <2>2. running = {} /\ finished = {} /\ ~ fetch.fresh /\ ~ synced
    BY <2>1 DEF ScreenInv
  <2>3. channel' \in Seq(FrameRec) /\ Len(channel') = 0
    BY <2>1
  <2>4. FramesAreTrue(channel)' /\ ReducerIsTrue' /\ EndsFollow(channel)'
    BY <2>1, <2>2, <2>3 DEF FramesAreTrue, ReducerIsTrue, EndsFollow
  <2> QED BY <2>1, <2>2, <2>3, <2>4 DEF ScreenInv, LiveTypes
<1>3. CASE Live!Close
  <2>1. /\ link = "cut" /\ channel = << >> /\ link' = "down" /\ running' = {} /\ finished' = {}
        /\ fetch' = [fetch EXCEPT !.fresh = FALSE] /\ UNCHANGED <<task, channel, fetched, synced>>
    BY <1>3 DEF Live!Close, Live!record
  <2>2. fetch' \in [at : {"none", "asked", "answered"}, rows : SUBSET Live!Tasks, fresh : BOOLEAN] /\ fetch'.fresh = FALSE
    BY <2>1 DEF LiveTypes
  <2>3. FramesAreTrue(channel)' /\ ReducerIsTrue'
    BY <2>1 DEF ScreenInv, FramesAreTrue, ReducerIsTrue
  <2> QED BY <2>1, <2>2, <2>3 DEF ScreenInv, LiveTypes
<1> QED BY <1>1, <1>2, <1>3

LEMMA RestMoves ==
  ASSUME LiveTypes, ScreenInv,
         \/ Live!Fire \/ Live!Tick \/ Live!Answer \/ Live!Arrive \/ Live!FetchFails \/ Live!Retry
         \/ Live!Resize \/ UNCHANGED screenVars
  PROVE  LiveTypes' /\ ScreenInv'
<1> DEFINE FetchRec == [at : {"none", "asked", "answered"}, rows : SUBSET Live!Tasks, fresh : BOOLEAN]
<1>0. /\ Live!Asked \in FetchRec /\ ~ Live!Asked.fresh /\ Live!Asked.at = "asked"
      /\ Live!NoFetch \in FetchRec /\ ~ Live!NoFetch.fresh /\ Live!NoFetch.at = "none"
  BY DEF Live!Asked, Live!NoFetch
<1>a. /\ fetch \in FetchRec /\ fetched \in SUBSET Live!Tasks /\ synced \in BOOLEAN
      /\ fetch.fresh => fetch.at = "answered" /\ link # "down"
      /\ link = "up" /\ fetch.fresh => Covers(fetch.rows, channel)
      /\ synced => link = "up" /\ Covers(fetched, channel) /\ (fetch.at = "answered" => fetch.fresh)
  BY DEF LiveTypes, ScreenInv
<1> HIDE DEF FetchRec
<1>1. CASE Live!Fire \/ Live!Retry
  <2>1. UNCHANGED <<task, channel, link, running, finished, fetched, synced>> /\ fetch' = Live!Asked
    BY <1>1 DEF Live!Fire, Live!Retry, Live!Refetch, Live!record, Live!socket, Live!live
  <2> QED BY <1>0, <1>a, <2>1, FetchMoves DEF FetchRec
<1>2. CASE Live!Tick \/ Live!Resize \/ UNCHANGED screenVars
  <2>1. UNCHANGED <<task, channel, link, running, finished, fetched, synced, fetch>>
    BY <1>2 DEF Live!Tick, Live!Resize, screenVars, Live!record, Live!socket, Live!live, Live!rest
  <2> QED BY <1>a, <2>1, FetchMoves DEF FetchRec
<1>3. CASE Live!Answer
  <2> DEFINE g == [at |-> "answered", rows |-> Live!Running, fresh |-> link = "up"]
  <2>1. UNCHANGED <<task, channel, link, running, finished, fetched, synced>> /\ fetch' = g
    BY <1>3 DEF Live!Answer, Live!record, Live!socket, Live!live
  <2>2. g \in FetchRec /\ g.at = "answered" /\ g.rows = Live!Running /\ g.fresh = (link = "up")
    BY DEF FetchRec, Live!Running
  <2>3. Covers(Live!Running, channel)
    BY DEF Covers, Live!Running
  <2> HIDE DEF g
  <2> QED BY <1>a, <2>1, <2>2, <2>3, FetchMoves DEF FetchRec
<1>4. CASE Live!Arrive
  <2> DEFINE b == synced \/ (fetch.fresh /\ link = "up")
  <2>1. /\ UNCHANGED <<task, channel, link, running, finished>> /\ fetch' = Live!NoFetch
        /\ fetched' = fetch.rows /\ synced' = b /\ fetch.at = "answered"
    BY <1>4 DEF Live!Arrive, Live!record, Live!socket, Live!live
  <2>2. b \in BOOLEAN /\ fetch.rows \in SUBSET Live!Tasks
    BY <1>a DEF FetchRec
  <2>3. b => link = "up" /\ Covers(fetch.rows, channel)
    BY <1>a, <2>1
  <2> HIDE DEF b
  <2> QED BY <1>0, <2>1, <2>2, <2>3, FetchMoves DEF FetchRec
<1>5. CASE Live!FetchFails
  <2>1. UNCHANGED <<task, channel, link, running, finished, fetched, synced>> /\ fetch' = Live!NoFetch
    BY <1>5 DEF Live!FetchFails, Live!record, Live!socket, Live!live
  <2> QED BY <1>0, <1>a, <2>1, FetchMoves DEF FetchRec
<1> QED BY <1>1, <1>2, <1>3, <1>4, <1>5

LEMMA ScreenSteps == LiveTypes /\ ScreenInv /\ [Live!LiveNext]_screenVars => LiveTypes' /\ ScreenInv'
<1> SUFFICES ASSUME LiveTypes, ScreenInv, [Live!LiveNext]_screenVars PROVE LiveTypes' /\ ScreenInv'
  OBVIOUS
<1>0. task \in [Live!Tasks -> {"waiting", "running", "done"}]
  BY DEF LiveTypes
<1>1. ASSUME NEW j \in Live!Tasks, Live!JobStarts(j) PROVE LiveTypes' /\ ScreenInv'
  <2>1. /\ task[j] = "waiting" /\ task' = [task EXCEPT ![j] = "running"]
        /\ Live!Emit(Live!Frame("started", j)) /\ UNCHANGED <<running, finished, fetch, fetched>>
    BY <1>1 DEF Live!JobStarts, Live!live
  <2> QED BY <2>1, JobMoves
<1>2. ASSUME NEW j \in Live!Tasks, Live!JobProgresses(j) PROVE LiveTypes' /\ ScreenInv'
  <2>1. /\ task[j] = "running" /\ task' = task
        /\ Live!Emit(Live!Frame("progress", j)) /\ UNCHANGED <<running, finished, fetch, fetched>>
    BY <1>2 DEF Live!JobProgresses, Live!record, Live!live
  <2>2. task' = [task EXCEPT ![j] = "running"]
    BY <1>0, <2>1
  <2> QED BY <2>1, <2>2, JobMoves
<1>3. ASSUME NEW j \in Live!Tasks, Live!JobEnds(j) PROVE LiveTypes' /\ ScreenInv'
  <2>1. /\ task[j] = "running" /\ task' = [task EXCEPT ![j] = "done"]
        /\ Live!Emit(Live!Frame("finished", j)) /\ UNCHANGED <<running, finished, fetch, fetched>>
    BY <1>3 DEF Live!JobEnds, Live!live
  <2> QED BY <2>1, JobMoves
<1> QED BY <1>1, <1>2, <1>3, ReadMoves, LinkMoves, RestMoves DEF Live!LiveNext

LEMMA TimeSteps == InTime /\ [Live!LiveNext]_screenVars => InTime'
<1> SUFFICES ASSUME InTime, [Live!LiveNext]_screenVars PROVE InTime'
  OBVIOUS
<1>1. ASSUME NEW v, Live!Observe(v) PROVE InTime'
  BY <1>1, DaemonAssumption DEF Live!Observe, Live!NextDelay, Live!Lesser, InTime
<1>2. CASE UNCHANGED <<due, waited>>
  BY <1>2 DEF InTime
<1>3. CASE Live!Read
  BY <1>1, <1>2, <1>3 DEF Live!Read, Live!ReadStarted, Live!ReadProgress, Live!ReadFinished, Live!timer
<1>4. CASE Live!Close
  BY <1>1, <1>4 DEF Live!Close
<1>5. CASE Live!Fire
  BY <1>5, DaemonAssumption DEF Live!Fire, InTime
<1>6. CASE Live!Tick
  BY <1>6 DEF Live!Tick, InTime
<1>7. ASSUME NEW j \in Live!Tasks, Live!JobStarts(j) \/ Live!JobProgresses(j) \/ Live!JobEnds(j) PROVE InTime'
  BY <1>2, <1>7 DEF Live!JobStarts, Live!JobProgresses, Live!JobEnds, Live!timer
<1>8. CASE \/ Live!LinkCut \/ Live!Connect \/ Live!Answer \/ Live!Arrive \/ Live!FetchFails
           \/ Live!Retry \/ Live!Resize \/ UNCHANGED screenVars
  BY <1>2, <1>8 DEF Live!LinkCut, Live!Connect, Live!Answer, Live!Arrive, Live!FetchFails, Live!Retry,
                    Live!Resize, screenVars, Live!timer
<1> QED BY <1>3, <1>4, <1>5, <1>6, <1>7, <1>8 DEF Live!LiveNext

LEMMA ScreenStarts == Live!LiveInit => LiveTypes /\ ScreenInv /\ InTime
<1> SUFFICES ASSUME Live!LiveInit PROVE LiveTypes /\ ScreenInv /\ InTime
  OBVIOUS
<1>1. /\ Live!Asked \in [at : {"none", "asked", "answered"}, rows : SUBSET Live!Tasks, fresh : BOOLEAN]
      /\ ~ Live!Asked.fresh
  BY DEF Live!Asked
<1>2. channel \in Seq(FrameRec) /\ Len(channel) = 0
  BY DEF Live!LiveInit
<1>3. LiveTypes
  BY <1>1, <1>2 DEF Live!LiveInit, LiveTypes
<1>4. FramesAreTrue(channel) /\ ReducerIsTrue
  BY <1>2 DEF FramesAreTrue, ReducerIsTrue, Live!LiveInit
<1>5. ScreenInv
  BY <1>1, <1>4 DEF ScreenInv, Live!LiveInit
<1>6. InTime
  BY DaemonAssumption DEF InTime, Live!LiveInit
<1> QED BY <1>3, <1>5, <1>6

LEMMA CarriedFrames ==
  ASSUME LiveTypes, NEW type, NEW j, Carries(channel, type, j)
  PROVE  j \in Live!Carried(type)
<1>1. PICK n \in 1..Len(channel) : channel[n] = Live!Frame(type, j)
  BY DEF Carries
<1>2. n \in DOMAIN channel /\ channel[n].type = type /\ channel[n].job = j
  BY <1>1 DEF LiveTypes, Live!Frame
<1> QED BY <1>2 DEF Live!Carried

LEMMA RowsAreRight == LiveTypes /\ ScreenInv => Live!SyncedIsRight
<1> SUFFICES ASSUME LiveTypes, ScreenInv, synced
             PROVE  /\ Live!Shown \cap Live!Done \subseteq Live!Carried("finished")
                    /\ Live!Running \subseteq Live!Shown \cup Live!Carried("started")
  BY DEF Live!SyncedIsRight
<1>1. link = "up" /\ EndsFollow(channel) /\ Covers(fetched, channel) /\ ReducerIsTrue
  BY DEF ScreenInv
<1>2. ASSUME NEW j \in Live!Tasks, task[j] = "done", j \in Live!Shown PROVE j \in Live!Carried("finished")
  <2>1. Carries(channel, "finished", j)
    BY <1>1, <1>2 DEF Live!Shown, Live!FetchedRows, EndsFollow, Covers
  <2> QED BY <2>1, CarriedFrames
<1>3. ASSUME NEW j \in Live!Tasks, task[j] = "running" PROVE j \in Live!Shown \cup Live!Carried("started")
  <2>1. j \notin finished
    BY <1>1, <1>3 DEF ReducerIsTrue
  <2>2. j \in fetched \/ Carries(channel, "started", j) \/ j \in running
    BY <1>1, <1>3 DEF Covers
  <2> QED BY <2>1, <2>2, CarriedFrames DEF Live!Shown, Live!FetchedRows
<1> QED BY <1>2, <1>3 DEF Live!Done, Live!Running

-----------------------------------------------------------------------------
(* The cards.  A card is dealt by counting, and there are enough of them.  *)

\* Numbers have a least one among them.
LEMMA LeastNat == ASSUME NEW T, T \subseteq Nat, T # {} PROVE \E n \in T : \A m \in T : n <= m
<1> DEFINE R == OpToRel(<, Nat)
<1>1. IsWellFoundedOn(R, Nat)
  BY NatLessThanWellFounded
<1>2. \A x, y \in Nat : <<x, y>> \in R <=> x < y
  BY DEF OpToRel
<1> HIDE DEF R
<1>3. PICK n \in T : \A y \in T : ~ (<<y, n>> \in R)
  BY <1>1, WFMin
<1>4. ASSUME NEW m \in T PROVE n <= m
  <2>1. ~ (m < n)
    BY <1>2, <1>3
  <2> QED BY <2>1
<1> QED BY <1>4

LEMMA SlotsCounted == \A S : Live!Cardinality(S) = Cardinality(S)
BY DEF Live!Cardinality, Cardinality

\* Of enough slots, there is one that k others are below.
LEMMA NthThere ==
  ASSUME NEW C \in Nat, NEW slots \in SUBSET (1..C), NEW k \in Nat, k < Cardinality(slots)
  PROVE  Live!Nth(slots, k) \in slots /\ Cardinality(Live!Below(slots, Live!Nth(slots, k))) = k
<1> DEFINE T == {n \in Nat : Cardinality(Live!Below(slots, n)) > k}
<1>0. \A t \in slots : t \in Nat /\ 0 < t /\ t <= C
  OBVIOUS
<1>1. IsFiniteSet(slots)
  <2>1. IsFiniteSet(1..C)
    BY FS_Interval
  <2> QED BY <2>1, FS_Subset
<1>2. \A n \in Nat : IsFiniteSet(Live!Below(slots, n)) /\ Cardinality(Live!Below(slots, n)) \in Nat
  BY <1>1, FS_Subset, FS_CardinalityType DEF Live!Below
<1>3. Live!Below(slots, C + 1) = slots
  <2>1. \A t \in slots : t < C + 1
    BY <1>0
  <2> QED BY <2>1 DEF Live!Below
<1>4. C + 1 \in T
  BY <1>3
<1>5. PICK n \in T : \A m \in T : n <= m
  BY <1>4, LeastNat
<1>6. Live!Below(slots, 0) = {}
  <2>1. \A t \in slots : ~ (t < 0)
    BY <1>0
  <2> QED BY <2>1 DEF Live!Below
<1>7. n # 0
  BY <1>6, FS_EmptySet
<1>8. n - 1 \in Nat /\ n - 1 \notin T
  BY <1>5, <1>7
<1>9. Cardinality(Live!Below(slots, n)) > k /\ Cardinality(Live!Below(slots, n - 1)) <= k
  BY <1>2, <1>8
<1>a. \A t \in slots : t < n <=> t < n - 1 \/ t = n - 1
  BY <1>0, <1>8
<1>10. n - 1 \in slots
  <2>1. n - 1 \notin slots => Live!Below(slots, n) = Live!Below(slots, n - 1)
    BY <1>a DEF Live!Below
  <2> QED BY <1>2, <1>8, <1>9, <2>1
<1>11. Live!Below(slots, n) = Live!Below(slots, n - 1) \cup {n - 1} /\ n - 1 \notin Live!Below(slots, n - 1)
  <2>1. ~ (n - 1 < n - 1)
    BY <1>8
  <2> QED BY <1>a, <1>10, <2>1 DEF Live!Below
<1>12. Cardinality(Live!Below(slots, n)) = Cardinality(Live!Below(slots, n - 1)) + 1
  BY <1>2, <1>8, <1>11, FS_AddElement
<1>13. Cardinality(Live!Below(slots, n - 1)) = k
  BY <1>2, <1>8, <1>9, <1>12
<1>14. \E s \in slots : Live!Cardinality(Live!Below(slots, s)) = k
  BY <1>10, <1>13, SlotsCounted
<1>15. Live!Nth(slots, k) \in slots /\ Live!Cardinality(Live!Below(slots, Live!Nth(slots, k))) = k
  BY <1>14, Zenon DEF Live!Nth
<1> QED BY <1>15, SlotsCounted

\* Rows that come one after the other wait for different numbers of rows.
LEMMA TurnsDiffer ==
  ASSUME NEW new \in SUBSET Live!Tasks, IsFiniteSet(new)
  PROVE  /\ \A j \in new : Cardinality({i \in new : Live!Before(i, j)'}) \in 0..(Cardinality(new) - 1)
         /\ \A i, j \in new : i # j => Cardinality({h \in new : Live!Before(h, i)'}) # Cardinality({h \in new : Live!Before(h, j)'})
<1> DEFINE Ahead(j) == {h \in new : Live!Before(h, j)'}
<1>0. new \subseteq Nat
  BY DEF Live!Tasks
<1>1. ASSUME NEW j \in new
      PROVE  IsFiniteSet(Ahead(j)) /\ Cardinality(Ahead(j)) \in Nat /\ j \notin Ahead(j)
  <2>1. ~ Live!Before(j, j)'
    BY <1>0 DEF Live!Before
  <2> QED BY <2>1, FS_Subset, FS_CardinalityType
<1>2. ASSUME NEW j \in new PROVE Cardinality(Ahead(j)) \in 0..(Cardinality(new) - 1)
  <2>1. Ahead(j) \subseteq new \ {j}
    BY <1>1
  <2>2. Cardinality(new \ {j}) = Cardinality(new) - 1 /\ IsFiniteSet(new \ {j})
    BY FS_RemoveElement
  <2>3. Cardinality(Ahead(j)) <= Cardinality(new) - 1
    BY <2>1, <2>2, FS_Subset
  <2> QED BY <1>1, <2>3, FS_CardinalityType
<1>3. ASSUME NEW i \in new, NEW j \in new, Live!Before(i, j)' PROVE Cardinality(Ahead(i)) < Cardinality(Ahead(j))
  <2>1. Ahead(i) \cup {i} \subseteq Ahead(j)
    <3>1. \A h \in new : Live!Before(h, i)' => Live!Before(h, j)'
      BY <1>0, <1>3 DEF Live!Before
    <3> QED BY <1>3, <3>1
  <2>2. Cardinality(Ahead(i) \cup {i}) = Cardinality(Ahead(i)) + 1
    BY <1>1, FS_AddElement
  <2>3. Cardinality(Ahead(i) \cup {i}) <= Cardinality(Ahead(j))
    BY <1>1, <2>1, FS_Subset
  <2> QED BY <1>1, <2>2, <2>3
<1>4. \A i, j \in new : i # j => Live!Before(i, j)' \/ Live!Before(j, i)'
  BY <1>0 DEF Live!Before
<1>5. \A i, j \in new : i # j => Cardinality(Ahead(i)) # Cardinality(Ahead(j))
  <2> SUFFICES ASSUME NEW i \in new, NEW j \in new, i # j PROVE Cardinality(Ahead(i)) # Cardinality(Ahead(j))
    OBVIOUS
  <2>1. Cardinality(Ahead(i)) < Cardinality(Ahead(j)) \/ Cardinality(Ahead(j)) < Cardinality(Ahead(i))
    BY <1>3, <1>4
  <2>2. Cardinality(Ahead(i)) \in Nat /\ Cardinality(Ahead(j)) \in Nat
    BY <1>1
  <2> QED BY <2>1, <2>2
<1> QED BY <1>2, <1>5

Seated(rows, seats, n) ==
  /\ seats \in [rows -> 1..n]
  /\ \A i, j \in rows : seats[i] = seats[j] => i = j

\* What the rows that keep a slot leave is enough for the others.
LEMMA EnoughIsFree ==
  ASSUME NEW rows, IsFiniteSet(rows), NEW n \in Nat, Cardinality(rows) <= n,
         NEW K \in SUBSET rows, NEW kept \in [K -> 1..n]
  PROVE  Cardinality(rows \ K) <= Cardinality((1..n) \ {kept[i] : i \in K})
<1> DEFINE taken == {kept[i] : i \in K}
<1>1. IsFiniteSet(K) /\ Cardinality(K) \in Nat /\ Cardinality(rows) \in Nat
  BY FS_Subset, FS_CardinalityType
<1>2. IsFiniteSet(taken) /\ Cardinality(taken) <= Cardinality(K)
  <2>1. kept \in Surjection(K, taken)
    BY DEF Surjection
  <2> QED BY <1>1, <2>1, FS_Surjection
<1>3. IsFiniteSet(1..n) /\ Cardinality(1..n) = n
  BY FS_Interval
<1>4. taken \subseteq 1..n
  OBVIOUS
<1>5. Cardinality((1..n) \ taken) = n - Cardinality(taken)
  <2>1. (1..n) \cap taken = taken
    BY <1>4
  <2>2. Cardinality((1..n) \ taken) = Cardinality(1..n) - Cardinality((1..n) \cap taken)
    BY <1>3, FS_Difference, Zenon
  <2> QED BY <1>3, <2>1, <2>2
<1>6. Cardinality(rows \ K) = Cardinality(rows) - Cardinality(K)
  <2>1. rows \cap K = K
    OBVIOUS
  <2> QED BY <2>1, FS_Difference
<1> QED BY <1>1, <1>2, <1>5, <1>6, FS_CardinalityType

LEMMA DealtSeats ==
  ASSUME NEW kept, DOMAIN kept \subseteq Live!Shown', Live!Shown' \subseteq Live!Tasks,
         IsFiniteSet(Live!Shown'), Live!SlotCount' \in Nat, Cardinality(Live!Shown') <= Live!SlotCount',
         Seated(DOMAIN kept, kept, Live!SlotCount')
  PROVE  Seated(Live!Shown', Live!Deal(kept), Live!SlotCount')
<1> DEFINE rows     == Live!Shown'
           n        == Live!SlotCount'
           K        == DOMAIN kept
           new      == rows \ K
           free     == (1..n) \ {kept[i] : i \in K}
           turn(j)  == Live!Cardinality({i \in new : Live!Before(i, j)'})
           seats    == [j \in rows |-> IF j \in new THEN Live!Nth(free, turn(j)) ELSE kept[j]]
<1>1. kept \in [K -> 1..n]
  BY DEF Seated
<1>2. Live!Deal(kept) = seats
  BY DEF Live!Deal
<1>a. rows \subseteq Live!Tasks /\ IsFiniteSet(rows) /\ n \in Nat /\ Cardinality(rows) <= n /\ K \in SUBSET rows
  OBVIOUS
<1>b. \A j : turn(j) = Cardinality({i \in new : Live!Before(i, j)'})
  BY SlotsCounted
<1> HIDE DEF rows, n
<1>3. Cardinality(new) <= Cardinality(free)
  BY <1>1, <1>a, EnoughIsFree
<1>4. IsFiniteSet(new) /\ Cardinality(new) \in Nat /\ new \in SUBSET Live!Tasks
  BY <1>a, FS_Subset, FS_CardinalityType
<1>5. /\ \A j \in new : turn(j) \in 0..(Cardinality(new) - 1)
      /\ \A i, j \in new : i # j => turn(i) # turn(j)
  <2> HIDE DEF turn
  <2>1. /\ \A j \in new : Cardinality({i \in new : Live!Before(i, j)'}) \in 0..(Cardinality(new) - 1)
        /\ \A i, j \in new : i # j => Cardinality({h \in new : Live!Before(h, i)'}) # Cardinality({h \in new : Live!Before(h, j)'})
    BY <1>4, TurnsDiffer
  <2> HIDE DEF new
  <2> QED BY <1>b, <2>1
<1>6. free \in SUBSET (1..n) /\ Cardinality(free) \in Nat
  <2>1. IsFiniteSet(1..n)
    BY <1>a, FS_Interval
  <2> QED BY <2>1, FS_Subset, FS_CardinalityType
<1> HIDE DEF new, free, turn
<1>7. ASSUME NEW j \in new
      PROVE  Live!Nth(free, turn(j)) \in free /\ Cardinality(Live!Below(free, Live!Nth(free, turn(j)))) = turn(j)
  <2>1. turn(j) \in Nat /\ turn(j) < Cardinality(free)
    BY <1>3, <1>4, <1>5, <1>6
  <2> QED BY <1>6, <1>a, <2>1, NthThere
<1>8. \A i, j \in new : Live!Nth(free, turn(i)) = Live!Nth(free, turn(j)) => i = j
  <2> SUFFICES ASSUME NEW i \in new, NEW j \in new, Live!Nth(free, turn(i)) = Live!Nth(free, turn(j)) PROVE i = j
    OBVIOUS
  <2>1. turn(i) = turn(j)
    BY <1>7
  <2> QED BY <1>5, <2>1
<1>c. \A i, j \in K : kept[i] = kept[j] => i = j
  BY DEF Seated
<1>9. \A j \in rows : j \in new \/ (j \in K /\ j \notin new /\ kept[j] \notin free)
  BY DEF new, free
<1>10. \A j \in rows : seats[j] = (IF j \in new THEN Live!Nth(free, turn(j)) ELSE kept[j])
  OBVIOUS
<1>11. seats \in [rows -> 1..n]
  BY <1>1, <1>6, <1>7, <1>9
<1> HIDE DEF seats
<1>12. \A i, j \in rows : seats[i] = seats[j] => i = j
  <2> SUFFICES ASSUME NEW i \in rows, NEW j \in rows, seats[i] = seats[j] PROVE i = j
    OBVIOUS
  <2>1. \A h \in rows : h \in new => seats[h] = Live!Nth(free, turn(h)) /\ seats[h] \in free
    BY <1>7, <1>10
  <2>2. \A h \in rows : h \notin new => h \in K /\ seats[h] = kept[h] /\ seats[h] \notin free
    BY <1>9, <1>10
  <2>3. i \in new <=> j \in new
    BY <2>1, <2>2
  <2>4. CASE i \in new
    BY <1>8, <2>1, <2>3, <2>4
  <2>5. CASE i \notin new
    BY <1>c, <2>2, <2>3, <2>5
  <2> QED BY <2>4, <2>5
<1>13. Seated(rows, seats, n)
  BY <1>11, <1>12 DEF Seated
<1> QED BY <1>2, <1>13 DEF rows, n

CardsInv == cards \in Nat /\ Seated(Live!Shown, seat, Live!SlotCount)

LEMMA CardsEnough ==
  ASSUME NEW c \in Nat, NEW rows \in SUBSET Live!Tasks
  PROVE  /\ IsFiniteSet(rows)
         /\ Live!Greater(1, Live!Greater(c, Live!Cardinality(rows))) \in Nat
         /\ Cardinality(rows) <= Live!Greater(1, Live!Greater(c, Live!Cardinality(rows)))
<1>1. IsFiniteSet(rows)
  <2>1. IsFiniteSet(1..MaxTasks)
    BY FS_Interval, DaemonAssumption
  <2> QED BY <2>1, FS_Subset DEF Live!Tasks
<1>2. Cardinality(rows) \in Nat /\ Live!Cardinality(rows) = Cardinality(rows)
  BY <1>1, FS_CardinalityType, SlotsCounted
<1> QED BY <1>1, <1>2 DEF Live!Greater

LEMMA RenderDeals ==
  ASSUME LiveTypes, LiveTypes', CardsInv, cards' \in Nat, Live!Render
  PROVE  CardsInv'
<1> DEFINE K    == {i \in DOMAIN seat \cap Live!Shown' : seat[i] <= Live!SlotCount'}
           kept == [j \in K |-> seat[j]]
<1>1. seat' = Live!Deal(kept)
  BY DEF Live!Render, Live!Seating
<1>2. Live!Shown' \subseteq Live!Tasks
  BY DEF LiveTypes, Live!Shown, Live!FetchedRows
<1>3. /\ IsFiniteSet(Live!Shown') /\ Live!SlotCount' \in Nat
      /\ Cardinality(Live!Shown') <= Live!SlotCount'
  BY <1>2, CardsEnough DEF Live!SlotCount
<1>4. Seated(K, kept, Live!SlotCount')
  <2>1. /\ \A i \in DOMAIN seat : seat[i] \in Nat /\ seat[i] > 0
        /\ \A i, j \in DOMAIN seat : seat[i] = seat[j] => i = j
    <3>1. Live!SlotCount \in Nat
      BY CardsEnough DEF CardsInv, Live!SlotCount, LiveTypes, Live!Shown, Live!FetchedRows
    <3> QED BY <3>1 DEF CardsInv, Seated
  <2>2. kept \in [K -> 1..Live!SlotCount']
    BY <1>3, <2>1
  <2> QED BY <2>1, <2>2 DEF Seated
<1>5. DOMAIN kept = K /\ DOMAIN kept \subseteq Live!Shown'
  OBVIOUS
<1> HIDE DEF K, kept
<1>6. Seated(Live!Shown', Live!Deal(kept), Live!SlotCount')
  BY <1>2, <1>3, <1>4, <1>5, DealtSeats
<1> QED BY <1>1, <1>6 DEF CardsInv

LEMMA CardsSteps == LiveTypes /\ LiveTypes' /\ CardsInv /\ [Live!LiveNext]_screenVars => CardsInv'
<1> SUFFICES ASSUME LiveTypes, LiveTypes', CardsInv, [Live!LiveNext]_screenVars PROVE CardsInv'
  OBVIOUS
<1>1. ASSUME UNCHANGED <<running, finished, fetched, cards, seat>> PROVE CardsInv'
  <2>1. Live!Shown' = Live!Shown
    BY <1>1 DEF Live!Shown, Live!FetchedRows
  <2>2. Live!SlotCount' = Live!SlotCount
    BY <1>1, <2>1 DEF Live!SlotCount
  <2> QED BY <1>1, <2>1, <2>2 DEF CardsInv
<1>2. ASSUME Live!Read \/ Live!Close \/ Live!Arrive PROVE CardsInv'
  <2>1. Live!Render /\ cards' = cards
    BY <1>2 DEF Live!Read, Live!Close, Live!Arrive
  <2> QED BY <2>1, RenderDeals DEF CardsInv
<1>3. ASSUME Live!Resize PROVE CardsInv'
  <2>1. Live!Render /\ cards' \in Nat
    BY <1>3, DaemonAssumption DEF Live!Resize
  <2> QED BY <2>1, RenderDeals
<1>4. ASSUME NEW j \in Live!Tasks, Live!JobStarts(j) \/ Live!JobProgresses(j) \/ Live!JobEnds(j) PROVE CardsInv'
  BY <1>1, <1>4 DEF Live!JobStarts, Live!JobProgresses, Live!JobEnds, Live!live
<1>5. ASSUME \/ Live!LinkCut \/ Live!Connect \/ Live!Fire \/ Live!Tick \/ Live!Answer
             \/ Live!FetchFails \/ Live!Retry \/ UNCHANGED screenVars
      PROVE  CardsInv'
  BY <1>1, <1>5 DEF Live!LinkCut, Live!Connect, Live!Fire, Live!Tick, Live!Answer, Live!FetchFails,
                    Live!Retry, Live!Refetch, Live!live, Live!rest, screenVars
<1> QED BY <1>2, <1>3, <1>4, <1>5 DEF Live!LiveNext

LEMMA CardsStart == Live!LiveInit => CardsInv
<1> SUFFICES ASSUME Live!LiveInit PROVE CardsInv
  OBVIOUS
<1>1. cards \in Nat /\ Live!Shown = {} /\ seat = [j \in {} |-> 0]
  BY DaemonAssumption DEF Live!LiveInit, Live!Shown, Live!FetchedRows
<1> QED BY <1>1 DEF CardsInv, Seated

LEMMA CardsAreDealt == CardsInv => Live!EveryRowHasACard
BY DEF CardsInv, Seated, Live!EveryRowHasACard

LEMMA ScreenMoves == [DaemonNext]_daemonVars => [Live!LiveNext]_screenVars
BY DEF DaemonNext, daemonVars

\* Once a fetch of its connection has arrived, the screen shows the running jobs up to the frames
\* on their way, what it is told is fetched within the ceiling, and every row has a card of its
\* own that is rendered (LiveView: watch-model.ts mergeRunningRows, nextDebounceDelayMs and
\* toWorkerSlots, ws.ts accept, useLive.ts).
THEOREM RowsShown == DaemonSpec => []ScreenIsRight
<1> DEFINE I == LiveTypes /\ ScreenInv /\ InTime /\ CardsInv
<1>1. DaemonInit => I
  BY ScreenStarts, CardsStart DEF DaemonInit
<1>2. I /\ [DaemonNext]_daemonVars => I'
  BY ScreenMoves, ScreenSteps, TimeSteps, CardsSteps
<1>3. I => ScreenIsRight
  BY RowsAreRight, CardsAreDealt, DaemonAssumption DEF InTime, Live!NeverPutOff, ScreenIsRight
<1> QED BY <1>1, <1>2, <1>3, PTL DEF DaemonSpec


-----------------------------------------------------------------------------
(* The library: what its rows are.                                         *)

OnDiskFiles == [inode : Inodes, content : Contents]
ItemRec == [row : Rows, path : Paths, probe : BOOLEAN, got : Contents \cup {0}]

ScanIsTyped ==
  /\ scan \in [at : ScanSteps, todo : SUBSET Paths, path : Paths \cup {"none"},
               stat : OnDiskFiles \cup {NoFile}, hash : Contents \cup {0}, tries : 0..3]
  /\ scan.at \in {"hash", "restat", "upsert"} => scan.path \in Paths /\ scan.stat \in OnDiskFiles
  /\ scan.at \in {"restat", "upsert"} => scan.hash \in Contents
  /\ scan.at = "restat" => scan.tries < 3

LibraryTypes ==
  /\ disk \in [Paths -> OnDiskFiles \cup {NoFile}]
  /\ rowOf \in [Rows -> RowRecord \cup {NoRow}]
  /\ ScanIsTyped /\ seen \subseteq Rows /\ pending \subseteq ItemRec /\ checks \subseteq Rows \X Paths
  /\ run \in [row : Rows \cup {0}, path : Paths \cup {"none"}, left : Paths \cup {"none"}]
  /\ forget \in [row : Rows \cup {0}, verdict : {"none", "gone", "back", "unconfirmed"}]
  /\ forget.row # 0 => forget.verdict # "none"

\* A step gives the rows what rows are made of, and leaves the run's row to the run.
RowsStay ==
  /\ rowOf' \in [Rows -> RowRecord \cup {NoRow}]
  /\ run.row \in Known' => /\ run.row \in Known /\ rowOf'[run.row].state = rowOf[run.row].state
                          /\ (rowOf'[run.row].missing => rowOf[run.row].missing)

LEMMA KnownRows ==
  ASSUME LibraryTypes, NEW r \in Known
  PROVE  r \in Rows /\ rowOf[r] \in RowRecord /\ rowOf[r] # NoRow
BY DEF LibraryTypes, Known

\* One row is written.
LEMMA RowWritten ==
  ASSUME LibraryTypes, NEW r \in Rows, NEW w \in RowRecord, rowOf' = [rowOf EXCEPT ![r] = w],
         r = run.row => r \in Known /\ w.state = rowOf[r].state /\ (w.missing => rowOf[r].missing)
  PROVE  RowsStay
<1>1. rowOf' \in [Rows -> RowRecord \cup {NoRow}] /\ rowOf'[r] = w /\ \A q \in Rows : q # r => rowOf'[q] = rowOf[q]
  BY DEF LibraryTypes
<1>2. CASE run.row = r
  BY <1>1, <1>2 DEF RowsStay
<1>3. CASE run.row # r
  BY <1>1, <1>3 DEF RowsStay, Known
<1> QED BY <1>1, <1>2, <1>3

\* Taking an inode from other rows changes nothing else of them.
LEMMA InodeTaken ==
  ASSUME LibraryTypes, NEW r \in Rows, NEW w \in RowRecord, NEW i,
         rowOf' = WithoutInode([rowOf EXCEPT ![r] = w], i, r),
         r = run.row => r \in Known /\ w.state = rowOf[r].state /\ (w.missing => rowOf[r].missing)
  PROVE  RowsStay
<1> DEFINE rows == [rowOf EXCEPT ![r] = w]
<1>1. /\ rows \in [Rows -> RowRecord \cup {NoRow}] /\ rows[r] = w
      /\ \A q \in Rows : q # r => rows[q] = rowOf[q]
  BY DEF LibraryTypes
<1> HIDE DEF rows
<1>2. rowOf' = [q \in Rows |-> IF q \in Known \ {r} /\ rows[q].inode = i
                              THEN [rows[q] EXCEPT !.inode = NoInode] ELSE rows[q]]
  BY DEF WithoutInode, rows
<1>3. \A q \in Rows :
        /\ rowOf'[q] \in RowRecord \cup {NoRow}
        /\ \/ rowOf'[q] = rows[q]
           \/ /\ q \in Known /\ q # r /\ rowOf'[q] \in RowRecord
              /\ rowOf'[q].state = rowOf[q].state /\ rowOf'[q].missing = rowOf[q].missing
  <2> TAKE q \in Rows
  <2>1. CASE q \in Known \ {r} /\ rows[q].inode = i
    <3>1. rows[q] \in RowRecord /\ rows[q] = rowOf[q]
      BY <1>1, <2>1, KnownRows
    <3>2. rowOf'[q] = [rows[q] EXCEPT !.inode = NoInode]
      BY <1>2, <2>1
    <3> QED BY <2>1, <3>1, <3>2 DEF RowRecord
  <2>2. CASE ~ (q \in Known \ {r} /\ rows[q].inode = i)
    <3>1. rowOf'[q] = rows[q]
      BY <1>2, <2>2
    <3> QED BY <1>1, <3>1
  <2> QED BY <2>1, <2>2
<1>4. rowOf' \in [Rows -> RowRecord \cup {NoRow}]
  <2>1. rowOf' = [q \in Rows |-> rowOf'[q]]
    BY <1>2
  <2> QED BY <1>3, <2>1
<1>5. ASSUME run.row \in Known'
      PROVE  /\ run.row \in Known /\ rowOf'[run.row].state = rowOf[run.row].state
             /\ (rowOf'[run.row].missing => rowOf[run.row].missing)
  <2>1. run.row \in Rows /\ rowOf'[run.row] # NoRow
    BY <1>5 DEF Known
  <2>2. CASE run.row = r
    BY <1>1, <1>3, <2>1, <2>2
  <2>3. CASE run.row # r
    BY <1>1, <1>3, <2>1, <2>3 DEF Known
  <2> QED BY <2>2, <2>3
<1> QED BY <1>4, <1>5 DEF RowsStay

LEMMA UpsertTypes ==
  ASSUME LibraryTypes, NEW p \in Paths, NEW f \in OnDiskFiles, Upsert(p, f)
  PROVE  RowsStay /\ seen' \subseteq Rows /\ pending' \subseteq ItemRec
<1>0. f.inode \in Inodes /\ f.content \in Contents
  BY DEF OnDiskFiles
<1>1. CASE Existing(f) = {}
  <2>1. PICK r \in Least(FreeRows) :
          /\ rowOf' = [rowOf EXCEPT ![r] = NewRow(p, f)]
          /\ seen' = seen \cup {r}
          /\ pending' = pending \cup {[row |-> r, path |-> p, probe |-> TRUE, got |-> 0]}
    BY <1>1 DEF Upsert
  <2>2. r \in Rows /\ r # run.row
    BY DEF Least, FreeRows
  <2>3. NewRow(p, f) \in RowRecord
    BY <1>0 DEF NewRow, RowRecord, RowStates
  <2>4. RowsStay
    BY <2>1, <2>2, <2>3, RowWritten
  <2>5. [row |-> r, path |-> p, probe |-> TRUE, got |-> 0] \in ItemRec
    BY <2>2 DEF ItemRec
  <2> QED BY <2>1, <2>2, <2>4, <2>5 DEF LibraryTypes
<1>2. CASE Existing(f) # {}
  <2>1. PICK r \in Existing(f) :
         LET before == rowOf[r]
             doProbe == before.probed = 0 \/ before.content # f.content
         IN  /\ rowOf' = WithoutInode([rowOf EXCEPT ![r] = Refreshed(before, p, f)], f.inode, r)
             /\ seen' = seen \cup {r}
             /\ pending' = pending \cup {[row |-> r, path |-> p, probe |-> doProbe, got |-> 0]}
    BY <1>2 DEF Upsert
  <2>2. r \in Known
    BY DEF Existing, ByInode, ByContent
  <2>3. r \in Rows /\ rowOf[r] \in RowRecord
    BY <2>2, KnownRows
  <2> DEFINE w == Refreshed(rowOf[r], p, f)
  <2>4. w \in RowRecord /\ w.state = rowOf[r].state /\ w.missing = FALSE
    BY <1>0, <2>3 DEF Refreshed, RowRecord
  <2> HIDE DEF w
  <2>5. rowOf' = WithoutInode([rowOf EXCEPT ![r] = w], f.inode, r)
    BY <2>1 DEF w
  <2>6. RowsStay
    BY <2>2, <2>3, <2>4, <2>5, InodeTaken
  <2> DEFINE b == rowOf[r].probed = 0 \/ rowOf[r].content # f.content
  <2>7. b \in BOOLEAN
    OBVIOUS
  <2>8. seen' = seen \cup {r} /\ pending' = pending \cup {[row |-> r, path |-> p, probe |-> b, got |-> 0]}
    BY <2>1
  <2> HIDE DEF b
  <2>9. [row |-> r, path |-> p, probe |-> b, got |-> 0] \in ItemRec
    BY <2>3, <2>7 DEF ItemRec
  <2> QED BY <2>3, <2>6, <2>8, <2>9 DEF LibraryTypes
<1> QED BY <1>1, <1>2

-----------------------------------------------------------------------------
(* The library: the walk and what it writes.                               *)

LEMMA SomethingThere ==
  ASSUME LibraryTypes, NEW p \in Paths, disk[p] # NoFile
  PROVE  disk[p] \in OnDiskFiles
BY DEF LibraryTypes

\* A step of the scan that moves it on to a step without a path.
LEMMA ElsewhereTyped ==
  ASSUME LibraryTypes, NEW s \in {"walk", "probe"}, scan' = Elsewhere(s)
  PROVE  ScanIsTyped'
<1>1. scan' = [at |-> s, todo |-> scan.todo, path |-> "none", stat |-> NoFile, hash |-> 0, tries |-> 0]
  BY DEF LibraryTypes, ScanIsTyped, Elsewhere
<1>2. scan.todo \subseteq Paths
  BY DEF LibraryTypes, ScanIsTyped
<1>3. s \in ScanSteps
  BY DEF ScanSteps
<1> QED BY <1>1, <1>2, <1>3 DEF ScanIsTyped

\* What the scan's own steps leave of the library when its bookkeeping is typed.
LEMMA ScanMoved ==
  ASSUME LibraryTypes, RunKeepsItsRow, ScanIsTyped', RowsStay, seen' \subseteq Rows,
         pending' \subseteq ItemRec, checks' \subseteq Rows \X Paths, UNCHANGED <<disk, run, forget>>
  PROVE  LibraryTypes' /\ RunKeepsItsRow'
<1>1. LibraryTypes'
  BY DEF LibraryTypes, RowsStay
<1>2. RunKeepsItsRow'
  <2> SUFFICES ASSUME run.row \in Known' PROVE rowOf'[run.row].state = "running" /\ ~ rowOf'[run.row].missing
    BY DEF RunKeepsItsRow
  <2> QED BY DEF RunKeepsItsRow, RowsStay
<1> QED BY <1>1, <1>2

LEMMA SameRows ==
  ASSUME LibraryTypes, UNCHANGED rowOf
  PROVE  RowsStay
BY DEF RowsStay, LibraryTypes, Known

LEMMA ScanTypes ==
  ASSUME LibraryTypes
  PROVE  /\ ScanIsTyped /\ seen \subseteq Rows /\ pending \subseteq ItemRec /\ checks \subseteq Rows \X Paths
         /\ scan = [at |-> scan.at, todo |-> scan.todo, path |-> scan.path, stat |-> scan.stat,
                    hash |-> scan.hash, tries |-> scan.tries]
         /\ scan.at \in ScanSteps /\ scan.todo \subseteq Paths /\ scan.path \in Paths \cup {"none"}
         /\ scan.stat \in OnDiskFiles \cup {NoFile} /\ scan.hash \in Contents \cup {0} /\ scan.tries \in 0..3
BY DEF LibraryTypes, ScanIsTyped

LEMMA WalkKeeps ==
  ASSUME LibraryTypes, RunKeepsItsRow, NEW p \in Paths, WalkTo(p)
  PROVE  LibraryTypes' /\ RunKeepsItsRow'
<1>1. RowsStay
  BY SameRows DEF WalkTo
<1>2. ScanIsTyped'
  <2>1. CASE OnDisk(p)
    <3>1. scan' = [at |-> "hash", todo |-> scan.todo \ {p}, path |-> p, stat |-> disk[p],
                   hash |-> scan.hash, tries |-> 1]
      BY <2>1, ScanTypes DEF WalkTo
    <3>2. disk[p] \in OnDiskFiles
      BY <2>1, SomethingThere DEF OnDisk
    <3>3. "hash" \in ScanSteps /\ 1 \in 0..3
      BY DEF ScanSteps
    <3> QED BY <3>1, <3>2, <3>3, ScanTypes DEF ScanIsTyped
  <2>2. CASE ~ OnDisk(p)
    <3>1. scan' = [scan EXCEPT !.todo = @ \ {p}] /\ scan.at = "walk"
      BY <2>2 DEF WalkTo
    <3> QED BY <3>1, ScanTypes DEF ScanIsTyped
  <2> QED BY <2>1, <2>2
<1> QED BY <1>1, <1>2, ScanTypes, ScanMoved DEF WalkTo

LEMMA HashKeeps ==
  ASSUME LibraryTypes, RunKeepsItsRow, Hash
  PROVE  LibraryTypes' /\ RunKeepsItsRow'
<1>0. scan.at = "hash" /\ scan.path \in Paths /\ scan.stat \in OnDiskFiles
  BY ScanTypes DEF Hash, ScanIsTyped
<1>1. RowsStay
  BY SameRows DEF Hash
<1>2. ScanIsTyped'
  <2>1. CASE ~ OnDisk(scan.path)
    BY <2>1, ElsewhereTyped DEF Hash
  <2>2. CASE OnDisk(scan.path)
    <3> DEFINE h == disk[scan.path].content
               s == IF scan.tries >= 3 THEN "upsert" ELSE "restat"
    <3>1. disk[scan.path] \in OnDiskFiles
      BY <1>0, <2>2, SomethingThere DEF OnDisk
    <3>2. h \in Contents
      BY <3>1 DEF OnDiskFiles
    <3>3. s \in {"restat", "upsert"} /\ (s = "restat" => scan.tries < 3)
      BY ScanTypes
    <3>4. scan' = [scan EXCEPT !.hash = h, !.at = s]
      BY <2>2 DEF Hash
    <3> HIDE DEF h, s
    <3>5. scan' = [at |-> s, todo |-> scan.todo, path |-> scan.path, stat |-> scan.stat,
                   hash |-> h, tries |-> scan.tries]
      BY <3>4, ScanTypes
    <3>6. s \in ScanSteps
      BY <3>3 DEF ScanSteps
    <3> QED BY <1>0, <3>2, <3>3, <3>5, <3>6, ScanTypes DEF ScanIsTyped
  <2> QED BY <2>1, <2>2
<1> QED BY <1>1, <1>2, ScanTypes, ScanMoved DEF Hash

LEMMA EntryTypes ==
  ASSUME LibraryTypes, scan.path \in Paths, NEW f \in OnDiskFiles, Entry(f)
  PROVE  ScanIsTyped' /\ RowsStay /\ seen' \subseteq Rows /\ pending' \subseteq ItemRec
<1>1. ScanIsTyped'
  BY ElsewhereTyped DEF Entry
<1>2. CASE UNCHANGED <<rowOf, seen, pending>>
  BY <1>1, <1>2, SameRows, ScanTypes
<1>3. CASE Upsert(scan.path, f)
  BY <1>1, <1>3, UpsertTypes
<1> QED BY <1>2, <1>3 DEF Entry

LEMMA RestatKeeps ==
  ASSUME LibraryTypes, RunKeepsItsRow, Restat
  PROVE  LibraryTypes' /\ RunKeepsItsRow'
<1>0. /\ scan.at = "restat" /\ scan.path \in Paths /\ scan.stat \in OnDiskFiles
      /\ scan.hash \in Contents /\ scan.tries < 3
  BY ScanTypes DEF Restat, ScanIsTyped
<1> DEFINE now0 == disk[scan.path]
<1>1. CASE OnDisk(scan.path) /\ now0 = scan.stat /\ Entry([inode |-> now0.inode, content |-> scan.hash])
  <2>1. [inode |-> now0.inode, content |-> scan.hash] \in OnDiskFiles
    BY <1>0, <1>1 DEF OnDiskFiles
  <2>2. ScanIsTyped' /\ RowsStay /\ seen' \subseteq Rows /\ pending' \subseteq ItemRec
    BY <1>0, <1>1, <2>1, EntryTypes
  <2> QED BY <2>2, ScanTypes, ScanMoved DEF Restat
<1>2. CASE /\ OnDisk(scan.path)
           /\ scan' = [scan EXCEPT !.at = "hash", !.stat = now0, !.tries = @ + 1]
           /\ UNCHANGED <<rowOf, seen, pending>>
  <2>1. now0 \in OnDiskFiles
    BY <1>0, <1>2, SomethingThere DEF OnDisk
  <2>2. scan.tries + 1 \in 0..3 /\ "hash" \in ScanSteps
    BY <1>0, ScanTypes DEF ScanSteps
  <2>3. scan' = [at |-> "hash", todo |-> scan.todo, path |-> scan.path, stat |-> now0,
                 hash |-> scan.hash, tries |-> scan.tries + 1]
    BY <1>2, ScanTypes
  <2> HIDE DEF now0
  <2>4. ScanIsTyped'
    BY <1>0, <2>1, <2>2, <2>3, ScanTypes DEF ScanIsTyped
  <2> QED BY <1>2, <2>4, SameRows, ScanTypes, ScanMoved DEF Restat
<1>3. CASE scan' = Elsewhere("walk") /\ UNCHANGED <<rowOf, seen, pending>>
  BY <1>3, ElsewhereTyped, SameRows, ScanTypes, ScanMoved DEF Restat
<1> QED BY <1>1, <1>2, <1>3 DEF Restat

LEMMA UnverifiedKeeps ==
  ASSUME LibraryTypes, RunKeepsItsRow, UnverifiedEntry
  PROVE  LibraryTypes' /\ RunKeepsItsRow'
<1>0. scan.path \in Paths /\ scan.stat \in OnDiskFiles /\ scan.hash \in Contents
  BY ScanTypes DEF UnverifiedEntry, ScanIsTyped
<1>1. [inode |-> scan.stat.inode, content |-> scan.hash] \in OnDiskFiles
  BY <1>0 DEF OnDiskFiles
<1>2. ScanIsTyped' /\ RowsStay /\ seen' \subseteq Rows /\ pending' \subseteq ItemRec
  BY <1>0, <1>1, EntryTypes DEF UnverifiedEntry
<1> QED BY <1>2, ScanTypes, ScanMoved DEF UnverifiedEntry

-----------------------------------------------------------------------------
(* The library: probing, reconciling, forgetting.                          *)

LEMMA StartKeeps ==
  ASSUME LibraryTypes, RunKeepsItsRow, ScanStarts
  PROVE  LibraryTypes' /\ RunKeepsItsRow'
<1>1. scan' = [at |-> "walk", todo |-> Paths, path |-> "none", stat |-> NoFile, hash |-> 0, tries |-> 0]
  BY DEF ScanStarts, IdleScan
<1>2. ScanIsTyped'
  BY <1>1 DEF ScanIsTyped, ScanSteps
<1> QED BY <1>2, SameRows, ScanMoved DEF ScanStarts

LEMMA ProbeKeeps ==
  ASSUME LibraryTypes, RunKeepsItsRow, NEW item \in pending, Probe(item)
  PROVE  LibraryTypes' /\ RunKeepsItsRow'
<1> DEFINE got == IF OnDisk(item.path) THEN disk[item.path].content ELSE 0
<1>1. item \in ItemRec
  BY ScanTypes
<1>2. got \in Contents \cup {0}
  <2>1. CASE OnDisk(item.path)
    <3>1. disk[item.path] \in OnDiskFiles
      BY <1>1, <2>1, SomethingThere DEF OnDisk, ItemRec
    <3> QED BY <2>1, <3>1 DEF OnDiskFiles
  <2> QED BY <2>1
<1>3. pending' = (pending \ {item}) \cup {[item EXCEPT !.probe = FALSE, !.got = got]}
  BY DEF Probe
<1> HIDE DEF got
<1>4. [item EXCEPT !.probe = FALSE, !.got = got] \in ItemRec
  BY <1>1, <1>2 DEF ItemRec
<1>5. pending' \subseteq ItemRec
  BY <1>3, <1>4, ScanTypes
<1>6. ScanIsTyped'
  BY ScanTypes DEF Probe, ScanIsTyped
<1> QED BY <1>5, <1>6, SameRows, ScanTypes, ScanMoved DEF Probe

\* A row that a run holds is not queued again.
LEMMA PersistKeeps ==
  ASSUME LibraryTypes, RunKeepsItsRow, NEW item \in pending, Persist(item)
  PROVE  LibraryTypes' /\ RunKeepsItsRow'
<1> DEFINE r == item.row
           probed == IF item.got = 0 THEN rowOf[r] ELSE [rowOf[r] EXCEPT !.probed = item.got]
           w == IF Requeued(probed) THEN [probed EXCEPT !.state = "queued"] ELSE probed
<1>1. item \in ItemRec
  BY ScanTypes
<1>2. RowsStay
  <2>1. CASE r \notin Known
    <3>1. UNCHANGED rowOf
      BY <2>1 DEF Persist
    <3> QED BY <3>1, SameRows
  <2>2. CASE r \in Known
    <3>1. r \in Rows /\ rowOf[r] \in RowRecord
      BY <2>2, KnownRows
    <3>2. item.got \in Contents \cup {0}
      BY <1>1 DEF ItemRec
    <3>3. probed \in RowRecord /\ probed.state = rowOf[r].state /\ probed.missing = rowOf[r].missing
      BY <3>1, <3>2 DEF RowRecord
    <3>4. rowOf' = [rowOf EXCEPT ![r] = w]
      BY <2>2 DEF Persist
    <3> HIDE DEF probed
    <3>5. w \in RowRecord /\ w.missing = rowOf[r].missing /\ (rowOf[r].state = "running" => w.state = "running")
      BY <3>3 DEF RowRecord, RowStates, Requeued
    <3>6. r = run.row => r \in Known /\ w.state = rowOf[r].state /\ (w.missing => rowOf[r].missing)
      BY <2>2, <3>5 DEF RunKeepsItsRow
    <3> HIDE DEF w
    <3> QED BY <3>1, <3>4, <3>5, <3>6, RowWritten
  <2> QED BY <2>1, <2>2
<1>3. pending' \subseteq ItemRec
  BY ScanTypes DEF Persist
<1>4. ScanIsTyped'
  BY ScanTypes DEF Persist, ScanIsTyped
<1> QED BY <1>2, <1>3, <1>4, ScanTypes, ScanMoved DEF Persist

LEMMA WalkEndKeeps ==
  ASSUME LibraryTypes, RunKeepsItsRow, WalkEnds
  PROVE  LibraryTypes' /\ RunKeepsItsRow'
BY ElsewhereTyped, SameRows, ScanTypes, ScanMoved DEF WalkEnds

LEMMA ReconcileKeeps ==
  ASSUME LibraryTypes, RunKeepsItsRow, ReconcileStarts
  PROVE  LibraryTypes' /\ RunKeepsItsRow'
<1>1. scan' = [scan EXCEPT !.at = "reconcile"] /\ "reconcile" \in ScanSteps
  BY DEF ReconcileStarts, ScanSteps
<1>2. ScanIsTyped'
  BY <1>1, ScanTypes DEF ScanIsTyped
<1>3. checks' \subseteq Rows \X Paths
  <2> SUFFICES ASSUME NEW c \in checks' PROVE c \in Rows \X Paths
    OBVIOUS
  <2>1. PICK r \in Known : c = <<r, rowOf[r].path>>
    BY DEF ReconcileStarts
  <2> QED BY <2>1, KnownRows DEF RowRecord
<1> QED BY <1>2, <1>3, SameRows, ScanTypes, ScanMoved DEF ReconcileStarts

LEMMA CheckKeeps ==
  ASSUME LibraryTypes, RunKeepsItsRow, NEW c \in checks, Check(c)
  PROVE  LibraryTypes' /\ RunKeepsItsRow'
<1>0. c[2] \in Paths /\ scan.at = "reconcile"
  BY ScanTypes DEF Check
<1>1. ScanIsTyped'
  <2>1. CASE scan' = [scan EXCEPT !.path = c[2]]
    BY <1>0, <2>1, ScanTypes DEF ScanIsTyped
  <2>2. CASE UNCHANGED scan
    BY <2>2, ScanTypes DEF ScanIsTyped
  <2> QED BY <2>1, <2>2 DEF Check
<1>2. checks' \subseteq Rows \X Paths
  BY ScanTypes DEF Check
<1> QED BY <1>1, <1>2, SameRows, ScanTypes, ScanMoved DEF Check

\* A row that a run holds is not marked, whatever was listed.
LEMMA MarkKeeps ==
  ASSUME LibraryTypes, RunKeepsItsRow, NEW c \in checks, Mark(c)
  PROVE  LibraryTypes' /\ RunKeepsItsRow'
<1>0. c[1] \in Rows /\ scan.at = "reconcile" /\ scan' = [scan EXCEPT !.path = "none"]
  BY ScanTypes DEF Mark
<1>1. ScanIsTyped'
  BY <1>0, ScanTypes DEF ScanIsTyped
<1>2. RowsStay
  <2>1. CASE c[1] \in Known /\ rowOf[c[1]].state # "running"
    <3> DEFINE w == [rowOf[c[1]] EXCEPT !.missing = TRUE]
    <3>1. rowOf[c[1]] \in RowRecord
      BY <2>1, KnownRows
    <3>2. w \in RowRecord
      BY <3>1 DEF RowRecord
    <3>3. c[1] # run.row
      BY <2>1 DEF RunKeepsItsRow
    <3>4. rowOf' = [rowOf EXCEPT ![c[1]] = w] \/ UNCHANGED rowOf
      BY DEF Mark, MarkMissing
    <3> HIDE DEF w
    <3> QED BY <1>0, <3>2, <3>3, <3>4, RowWritten, SameRows
  <2>2. CASE ~ (c[1] \in Known /\ rowOf[c[1]].state # "running")
    <3>1. UNCHANGED rowOf
      BY <2>2 DEF Mark, MarkMissing
    <3> QED BY <3>1, SameRows
  <2> QED BY <2>1, <2>2
<1>3. checks' \subseteq Rows \X Paths
  BY ScanTypes DEF Mark
<1> QED BY <1>1, <1>2, <1>3, ScanTypes, ScanMoved DEF Mark

LEMMA ScanEndKeeps ==
  ASSUME LibraryTypes, RunKeepsItsRow, ScanEnds
  PROVE  LibraryTypes' /\ RunKeepsItsRow'
<1>1. scan' = [at |-> "idle", todo |-> {}, path |-> "none", stat |-> NoFile, hash |-> 0, tries |-> 0]
  BY DEF ScanEnds, IdleScan
<1>2. ScanIsTyped'
  BY <1>1 DEF ScanIsTyped, ScanSteps
<1> QED BY <1>2, SameRows, ScanTypes, ScanMoved DEF ScanEnds

LEMMA VerifyKeeps ==
  ASSUME LibraryTypes, RunKeepsItsRow, NEW r \in Rows, Verify(r)
  PROVE  LibraryTypes' /\ RunKeepsItsRow'
<1>1. /\ forget' \in [row : Rows \cup {0}, verdict : {"none", "gone", "back", "unconfirmed"}]
      /\ forget'.verdict # "none"
  BY DEF Verify
<1>2. LibraryTypes'
  BY <1>1 DEF Verify, LibraryTypes, ScanIsTyped
<1>3. RunKeepsItsRow'
  BY DEF Verify, RunKeepsItsRow, Known
<1> QED BY <1>2, <1>3

\* A row may go under a run; what stays keeps its state.
LEMMA ForgetKeeps ==
  ASSUME LibraryTypes, RunKeepsItsRow, Forget
  PROVE  LibraryTypes' /\ RunKeepsItsRow'
<1> DEFINE k == forget.row
<1>1. RowsStay
  <2>1. CASE UNCHANGED rowOf
    BY <2>1, SameRows
  <2>2. CASE k \in Known /\ rowOf' = [rowOf EXCEPT ![k].missing = FALSE]
    <3> DEFINE w == [rowOf[k] EXCEPT !.missing = FALSE]
    <3>1. k \in Rows /\ rowOf[k] \in RowRecord
      BY <2>2, KnownRows
    <3>2. w \in RowRecord /\ w.state = rowOf[k].state /\ w.missing = FALSE
      BY <3>1 DEF RowRecord
    <3>3. rowOf' = [rowOf EXCEPT ![k] = w]
      BY <2>2
    <3> HIDE DEF w
    <3> QED BY <2>2, <3>1, <3>2, <3>3, RowWritten
  <2>3. CASE rowOf' = [rowOf EXCEPT ![k] = NoRow]
    BY <2>3 DEF RowsStay, LibraryTypes, Known
  <2>4. forget.verdict \in {"gone", "back", "unconfirmed"}
    BY DEF LibraryTypes, Forget
  <2>5. CASE k \notin Known
    BY <2>1, <2>5 DEF Forget
  <2>8. CASE k \in Known /\ forget.verdict = "unconfirmed"
    BY <2>1, <2>8 DEF Forget
  <2>6. CASE k \in Known /\ forget.verdict = "back"
    BY <2>2, <2>6 DEF Forget
  <2>7. CASE k \in Known /\ forget.verdict = "gone"
    BY <2>3, <2>7 DEF Forget
  <2> QED BY <2>4, <2>5, <2>6, <2>7, <2>8
<1>2. /\ forget' \in [row : Rows \cup {0}, verdict : {"none", "gone", "back", "unconfirmed"}]
      /\ forget'.row = 0
  BY DEF Forget, NoForget
<1>3. LibraryTypes'
  BY <1>1, <1>2 DEF Forget, LibraryTypes, ScanIsTyped, RowsStay
<1>4. RunKeepsItsRow'
  <2> SUFFICES ASSUME run.row \in Known' PROVE rowOf'[run.row].state = "running" /\ ~ rowOf'[run.row].missing
    BY DEF RunKeepsItsRow, Forget
  <2> QED BY <1>1 DEF RunKeepsItsRow, RowsStay
<1> QED BY <1>3, <1>4

-----------------------------------------------------------------------------
(* The library: the worker, the user, and the theorem.                     *)

\* What the worker and the user leave of the library when the scan is not concerned.
LEMMA ScanLeft ==
  ASSUME LibraryTypes, UNCHANGED <<scan, seen, pending, checks, forget>>,
         disk' \in [Paths -> OnDiskFiles \cup {NoFile}],
         rowOf' \in [Rows -> RowRecord \cup {NoRow}],
         run' \in [row : Rows \cup {0}, path : Paths \cup {"none"}, left : Paths \cup {"none"}]
  PROVE  LibraryTypes'
BY DEF LibraryTypes, ScanIsTyped

LEMMA ClaimKeeps ==
  ASSUME LibraryTypes, RunKeepsItsRow, NEW r \in Rows, Claim(r)
  PROVE  LibraryTypes' /\ RunKeepsItsRow'
<1> DEFINE w == [rowOf[r] EXCEPT !.state = "running"]
<1>1. r \in Known /\ rowOf[r] \in RowRecord /\ ~ rowOf[r].missing
  BY KnownRows DEF Claim
<1>2. w \in RowRecord /\ w.state = "running" /\ ~ w.missing
  BY <1>1 DEF RowRecord, RowStates
<1>3. rowOf' = [rowOf EXCEPT ![r] = w]
  BY DEF Claim
<1> HIDE DEF w
<1>4. rowOf' \in [Rows -> RowRecord \cup {NoRow}] /\ rowOf'[r] = w
  BY <1>2, <1>3 DEF LibraryTypes
<1>5. run' = [row |-> r, path |-> rowOf[r].path, left |-> "none"] /\ rowOf[r].path \in Paths
  BY <1>1 DEF Claim, RowRecord
<1>6. LibraryTypes'
  BY <1>4, <1>5, ScanLeft DEF Claim, LibraryTypes
<1>7. RunKeepsItsRow'
  BY <1>2, <1>4, <1>5 DEF RunKeepsItsRow
<1> QED BY <1>6, <1>7

LEMMA NewFileTypes ==
  ASSUME NEW f \in NewFiles
  PROVE  f \in OnDiskFiles
BY DEF NewFiles, FreeInodes, FreeBytes, Least, OnDiskFiles

LEMMA ReplaceKeeps ==
  ASSUME LibraryTypes, RunKeepsItsRow, NEW p \in Paths, NEW f, Replace(p, f)
  PROVE  LibraryTypes' /\ RunKeepsItsRow'
<1>1. f \in OnDiskFiles
  BY NewFileTypes DEF Replace
<1>2. disk' \in [Paths -> OnDiskFiles \cup {NoFile}]
  BY <1>1 DEF Replace, LibraryTypes
<1>3. run' = [run EXCEPT !.left = p]
  BY DEF Replace
<1>4. /\ run' \in [row : Rows \cup {0}, path : Paths \cup {"none"}, left : Paths \cup {"none"}]
      /\ run'.row = run.row
  BY <1>3 DEF LibraryTypes
<1>5. LibraryTypes'
  BY <1>2, <1>4, ScanLeft DEF Replace, LibraryTypes
<1>6. RunKeepsItsRow'
  BY <1>4 DEF Replace, RunKeepsItsRow, Known
<1> QED BY <1>5, <1>6

LEMMA InodeLost ==
  ASSUME NEW rows \in [Rows -> RowRecord \cup {NoRow}], NEW i, NEW k,
         \A q \in Known \ {k} : rows[q] \in RowRecord
  PROVE  WithoutInode(rows, i, k) \in [Rows -> RowRecord \cup {NoRow}]
<1>1. ASSUME NEW q \in Known \ {k} PROVE [rows[q] EXCEPT !.inode = NoInode] \in RowRecord
  <2>1. rows[q] \in RowRecord
    BY <1>1
  <2> QED BY <2>1 DEF RowRecord
<1> QED BY <1>1 DEF WithoutInode

\* Recording: the run lets its row go, whatever it writes.
LEMMA RecordKeeps ==
  ASSUME LibraryTypes, RunKeepsItsRow, 0 \notin Rows, Record
  PROVE  LibraryTypes' /\ RunKeepsItsRow'
<1> DEFINE k == run.row
           f == disk[run.left]
<1>1. rowOf' \in [Rows -> RowRecord \cup {NoRow}]
  <2>0. rowOf \in [Rows -> RowRecord \cup {NoRow}]
    BY DEF LibraryTypes
  <2>1. CASE k \notin Known
    BY <2>0, <2>1 DEF Record
  <2>2. CASE k \in Known
    <3>1. k \in Rows /\ rowOf[k] \in RowRecord
      BY <2>2, KnownRows
    <3>2. \A s \in {"held", "good"} : [rowOf[k] EXCEPT !.state = s] \in RowRecord
      BY <3>1 DEF RowRecord, RowStates
    <3>3. CASE rowOf' = [rowOf EXCEPT ![k].state = "held"]
      <4>1. rowOf' = [rowOf EXCEPT ![k] = [rowOf[k] EXCEPT !.state = "held"]]
        BY <3>3
      <4> QED BY <2>0, <3>1, <3>2, <4>1
    <3>4. CASE rowOf' = [rowOf EXCEPT ![k].state = "good", ![k].signature = rowOf[k].probed]
      <4> DEFINE w == [rowOf[k] EXCEPT !.state = "good", !.signature = rowOf[k].probed]
      <4>1. w \in RowRecord
        BY <3>1 DEF RowRecord, RowStates
      <4>2. rowOf' = [rowOf EXCEPT ![k] = w]
        BY <2>0, <3>1, <3>4
      <4> HIDE DEF w
      <4> QED BY <2>0, <3>1, <4>1, <4>2
    <3>5. CASE /\ run.left # "none" /\ disk[run.left] # NoFile
               /\ rowOf' = WithoutInode([rowOf EXCEPT ![k].path = run.left, ![k].inode = f.inode,
                                           ![k].content = f.content, ![k].probed = f.content,
                                           ![k].signature = f.content, ![k].state = "good"], f.inode, k)
      <4> DEFINE w == [rowOf[k] EXCEPT !.path = run.left, !.inode = f.inode, !.content = f.content,
                                       !.probed = f.content, !.signature = f.content, !.state = "good"]
                 rows == [rowOf EXCEPT ![k].path = run.left, ![k].inode = f.inode,
                                       ![k].content = f.content, ![k].probed = f.content,
                                       ![k].signature = f.content, ![k].state = "good"]
      <4>1. run.left \in Paths
        BY <3>5 DEF LibraryTypes
      <4>2. f \in OnDiskFiles
        BY <3>5, <4>1, SomethingThere
      <4>3. f.inode \in Inodes /\ f.content \in Contents
        BY <4>2 DEF OnDiskFiles
      <4> HIDE DEF f
      <4>4. w \in RowRecord
        BY <3>1, <4>1, <4>3 DEF RowRecord, RowStates
      <4>5. rows = [rowOf EXCEPT ![k] = w]
        BY <2>0, <3>1
      <4> HIDE DEF w
      <4>6. rowOf' = WithoutInode(rows, f.inode, k)
        BY <3>5 DEF f
      <4> HIDE DEF rows
      <4>7. rows \in [Rows -> RowRecord \cup {NoRow}] /\ \A q \in Known \ {k} : rows[q] \in RowRecord
        BY <2>0, <3>1, <4>4, <4>5 DEF Known
      <4> QED BY <4>6, <4>7, InodeLost
    <3> QED BY <2>2, <3>3, <3>4, <3>5 DEF Record
  <2> QED BY <2>1, <2>2
<1>2. run' = [row |-> 0, path |-> "none", left |-> "none"]
  BY DEF Record, NoRun
<1>3. LibraryTypes'
  BY <1>1, <1>2, ScanLeft DEF Record, LibraryTypes
<1>4. RunKeepsItsRow'
  BY <1>2 DEF RunKeepsItsRow, Known
<1> QED BY <1>3, <1>4

LEMMA UserKeeps ==
  ASSUME LibraryTypes, RunKeepsItsRow, UserActs, disk' \in [Paths -> OnDiskFiles \cup {NoFile}]
  PROVE  LibraryTypes' /\ RunKeepsItsRow'
<1>1. LibraryTypes'
  BY ScanLeft DEF UserActs, LibraryTypes
<1>2. RunKeepsItsRow'
  BY DEF UserActs, RunKeepsItsRow, Known
<1> QED BY <1>1, <1>2

LEMMA UserSteps ==
  ASSUME LibraryTypes, RunKeepsItsRow, NEW p \in Paths, NEW q \in Paths, NEW f,
         Move(p, q) \/ Unlink(p) \/ Write(p, f) \/ Mount
  PROVE  LibraryTypes' /\ RunKeepsItsRow'
<1>0. disk \in [Paths -> OnDiskFiles \cup {NoFile}]
  BY DEF LibraryTypes
<1>1. CASE Move(p, q)
  BY <1>0, <1>1, UserKeeps DEF Move
<1>2. CASE Unlink(p)
  BY <1>0, <1>2, UserKeeps DEF Unlink
<1>3. CASE Write(p, f)
  BY <1>0, <1>3, UserKeeps, NewFileTypes DEF Write
<1>4. CASE Mount
  BY <1>0, <1>4, UserKeeps DEF Mount
<1> QED BY <1>1, <1>2, <1>3, <1>4

LEMMA LibrarySteps ==
  ASSUME 0 \notin Rows, LibraryTypes, RunKeepsItsRow, Next
  PROVE  LibraryTypes' /\ RunKeepsItsRow'
<1>1. CASE ScanStarts \/ Hash \/ Restat \/ UnverifiedEntry \/ WalkEnds \/ ReconcileStarts \/ ScanEnds
  BY <1>1, StartKeeps, HashKeeps, RestatKeeps, UnverifiedKeeps, WalkEndKeeps, ReconcileKeeps, ScanEndKeeps
<1>2. CASE \E p \in Paths : WalkTo(p)
  BY <1>2, WalkKeeps
<1>3. CASE \E item \in pending : Probe(item) \/ Persist(item)
  BY <1>3, ProbeKeeps, PersistKeeps
<1>4. CASE \E c \in checks : Check(c) \/ Mark(c)
  BY <1>4, CheckKeeps, MarkKeeps
<1>5. CASE \E r \in Rows : Verify(r) \/ Claim(r)
  BY <1>5, VerifyKeeps, ClaimKeeps
<1>6. CASE Forget \/ Record
  BY <1>6, ForgetKeeps, RecordKeeps
<1>7. CASE \E p \in Paths : \E f \in Files : Replace(p, f)
  BY <1>7, ReplaceKeeps
<1>8. CASE \E p \in Paths : \E f \in Files : Write(p, f)
  BY <1>8, UserSteps
<1>9. CASE \E p, q \in Paths : Move(p, q)
  BY <1>9, UserSteps
<1>10. CASE \E p \in Paths : Unlink(p)
  BY <1>10, UserSteps
<1>11. CASE Mount
  BY <1>11, UserKeeps DEF Mount, LibraryTypes
<1> QED BY <1>1, <1>2, <1>3, <1>4, <1>5, <1>6, <1>7, <1>8, <1>9, <1>10, <1>11 DEF Next

LEMMA LibraryStart ==
  ASSUME 0 \notin Rows, Init
  PROVE  LibraryTypes /\ RunKeepsItsRow
<1>1. disk \in [Paths -> OnDiskFiles \cup {NoFile}]
  BY DEF Init, OnDiskFiles, Least
<1>2. rowOf \in [Rows -> RowRecord \cup {NoRow}] /\ Known = {}
  BY DEF Init, Known
<1>3. ScanIsTyped
  BY DEF Init, IdleScan, ScanIsTyped, ScanSteps
<1>4. LibraryTypes
  BY <1>1, <1>2, <1>3 DEF Init, LibraryTypes, NoRun, NoForget
<1> QED BY <1>2, <1>4 DEF RunKeepsItsRow

LEMMA LibraryLasts == DaemonSpec => [](LibraryTypes /\ RunKeepsItsRow)
<1>0. 0 \notin Rows
  BY DaemonAssumption
<1>1. DaemonInit => LibraryTypes /\ RunKeepsItsRow
  BY <1>0, LibraryStart DEF DaemonInit
<1>2. LibraryTypes /\ RunKeepsItsRow /\ [DaemonNext]_daemonVars => (LibraryTypes /\ RunKeepsItsRow)'
  <2> SUFFICES ASSUME LibraryTypes, RunKeepsItsRow, [DaemonNext]_daemonVars
               PROVE  LibraryTypes' /\ RunKeepsItsRow'
    OBVIOUS
  <2>1. CASE Next
    BY <1>0, <2>1, LibrarySteps
  <2>2. CASE UNCHANGED vars
    BY <2>2 DEF vars, LibraryTypes, ScanIsTyped, RunKeepsItsRow, Known
  <2> QED BY <2>1, <2>2 DEF DaemonNext, daemonVars
<1> QED BY <1>1, <1>2, PTL DEF DaemonSpec

-----------------------------------------------------------------------------
(* The library: one row for a file.  A file is known to one row, and a row *)
(* whose path holds a file knows no other file; what a run leaves behind   *)
(* is known to no row but its own.                                         *)

\* The file at q has the inode or the content of row r.
Shows(q, r) == disk[q] # NoFile /\ (disk[q].inode = rowOf[r].inode \/ disk[q].content = rowOf[r].content)

FilesDiffer ==
  \A p, q \in Paths : p # q /\ disk[p] # NoFile /\ disk[q] # NoFile
                      => disk[p].inode # disk[q].inode /\ disk[p].content # disk[q].content

RowsDiffer == \A r, q \in Known : r # q => rowOf[r].content # rowOf[q].content

RowsAreHome ==
  \A r \in Known : disk[rowOf[r].path] # NoFile => \A q \in Paths : Shows(q, r) => q = rowOf[r].path

\* Before the run has replaced its file, its row is at the path it was given; after that it
\* may have been found again at either, and no other row knows what the run left.
RunIsHome ==
  run.row \in Known =>
    /\ run.path \in Paths
    /\ run.left = "none" => (disk[run.path] # NoFile => rowOf[run.row].path = run.path)
    /\ run.left # "none" =>
         /\ disk[run.left] # NoFile /\ Stem[run.left] = Stem[run.path]
         /\ rowOf[run.row].path \in {run.path, run.left}
         /\ \A q \in Paths : Shows(q, run.row) => q = run.left
         /\ \A r \in Known \ {run.row} : ~ Shows(run.left, r)

HomeInv == ~ reused => ghosts = 0 /\ RowsAreHome /\ RunIsHome

\* What an upsert of f at p leaves: row r, and the others without the inode.
Written(r, p, f) ==
  /\ Known' = Known \cup {r} /\ seen' = seen \cup {r}
  /\ rowOf'[r].path = p /\ rowOf'[r].inode = f.inode /\ rowOf'[r].content = f.content
  /\ ~ rowOf'[r].missing
  /\ \A q \in Known \ {r} :
       /\ rowOf'[q].path = rowOf[q].path /\ rowOf'[q].content = rowOf[q].content
       /\ rowOf'[q].missing = rowOf[q].missing
       /\ rowOf'[q].inode = IF rowOf[q].inode = f.inode THEN NoInode ELSE rowOf[q].inode
  /\ \A q \in Known' : rowOf'[q].state = "running" => q \in Known /\ rowOf[q].state = "running"

LEMMA UpsertWrites ==
  ASSUME LibraryTypes, NEW p \in Paths, NEW f \in OnDiskFiles, Upsert(p, f)
  PROVE  \E r \in Rows : /\ Written(r, p, f)
                         /\ Existing(f) = {} => r \notin Known \cup seen /\ r # run.row
                         /\ Existing(f) # {} => r \in Existing(f)
<1>0. f.inode \in Inodes /\ f.content \in Contents
  BY DEF OnDiskFiles
<1>1. CASE Existing(f) = {}
  <2>1. PICK r \in Least(FreeRows) :
          /\ rowOf' = [rowOf EXCEPT ![r] = NewRow(p, f)]
          /\ seen' = seen \cup {r}
    BY <1>1 DEF Upsert
  <2>2. r \in Rows /\ r \notin Known \cup seen /\ r # run.row
    BY <2>1 DEF Least, FreeRows
  <2> DEFINE w == NewRow(p, f)
  <2>3. /\ w \in RowRecord /\ w.path = p /\ w.inode = f.inode /\ w.content = f.content
        /\ ~ w.missing /\ w.state # "running"
    BY <1>0 DEF NewRow, RowRecord, RowStates
  <2>4. w # NoRow
    BY DEF NewRow, NoRow
  <2> HIDE DEF w
  <2>5. rowOf' = [rowOf EXCEPT ![r] = w]
    BY <2>1 DEF w
  <2>6. rowOf'[r] = w /\ \A q \in Rows : q # r => rowOf'[q] = rowOf[q]
    BY <2>2, <2>5 DEF LibraryTypes
  <2>7. Known' = Known \cup {r}
    BY <2>2, <2>4, <2>6 DEF Known
  <2>8. \A q \in Known \ {r} : rowOf'[q] = rowOf[q] /\ rowOf[q].inode # f.inode
    BY <1>0, <1>1, <2>6, ScannerAssumption DEF Known, Existing, ByInode, NoInode
  <2>10. \A q \in Known' : rowOf'[q].state = "running" => q \in Known /\ rowOf[q].state = "running"
    BY <2>3, <2>6, <2>7, <2>8
  <2>9. Written(r, p, f)
    BY <2>1, <2>3, <2>6, <2>7, <2>8, <2>10 DEF Written
  <2> QED BY <1>1, <2>2, <2>9
<1>2. CASE Existing(f) # {}
  <2>1. PICK r \in Existing(f) :
          /\ rowOf' = WithoutInode([rowOf EXCEPT ![r] = Refreshed(rowOf[r], p, f)], f.inode, r)
          /\ seen' = seen \cup {r}
    BY <1>2 DEF Upsert
  <2>2. r \in Known
    BY DEF Existing, ByInode, ByContent
  <2>3. r \in Rows /\ rowOf[r] \in RowRecord
    BY <2>2, KnownRows
  <2> DEFINE w == Refreshed(rowOf[r], p, f)
             rows == [rowOf EXCEPT ![r] = w]
  <2>4. /\ w \in RowRecord /\ w.path = p /\ w.inode = f.inode /\ w.content = f.content
        /\ ~ w.missing /\ w.state = rowOf[r].state
    BY <1>0, <2>3 DEF Refreshed, RowRecord
  <2>5. w # NoRow
    BY <2>4 DEF RowRecord, NoRow
  <2> HIDE DEF w
  <2>6. rows[r] = w /\ \A q \in Rows : q # r => rows[q] = rowOf[q]
    BY <2>3 DEF LibraryTypes
  <2>7. rowOf' = [q \in Rows |-> IF q \in Known \ {r} /\ rows[q].inode = f.inode
                                THEN [rows[q] EXCEPT !.inode = NoInode] ELSE rows[q]]
    BY <2>1 DEF WithoutInode, w
  <2> HIDE DEF rows
  <2>8. rowOf'[r] = w
    BY <2>3, <2>6, <2>7
  <2>9. ASSUME NEW q \in Known \ {r}
        PROVE  /\ rowOf'[q] \in RowRecord
               /\ rowOf'[q].path = rowOf[q].path /\ rowOf'[q].content = rowOf[q].content
               /\ rowOf'[q].missing = rowOf[q].missing /\ rowOf'[q].state = rowOf[q].state
               /\ rowOf'[q].inode = IF rowOf[q].inode = f.inode THEN NoInode ELSE rowOf[q].inode
    <3>1. q \in Rows /\ rowOf[q] \in RowRecord /\ rows[q] = rowOf[q]
      BY <2>6, KnownRows
    <3>2. CASE rowOf[q].inode = f.inode
      <4>1. rowOf'[q] = [rowOf[q] EXCEPT !.inode = NoInode]
        BY <2>7, <3>1, <3>2
      <4> QED BY <3>1, <3>2, <4>1 DEF RowRecord
    <3>3. CASE rowOf[q].inode # f.inode
      <4>1. rowOf'[q] = rowOf[q]
        BY <2>7, <3>1, <3>3
      <4> QED BY <3>1, <3>3, <4>1
    <3> QED BY <3>2, <3>3
  <2>10. \A q \in RowRecord : q # NoRow
    BY DEF RowRecord, NoRow
  <2>11. \A q \in Rows \ Known : q # r => rowOf'[q] = NoRow
    BY <2>6, <2>7 DEF Known
  <2>12. Known' = Known \cup {r}
    BY <2>3, <2>5, <2>8, <2>9, <2>10, <2>11 DEF Known
  <2>13. \A q \in Known' : rowOf'[q].state = "running" => q \in Known /\ rowOf[q].state = "running"
    BY <2>2, <2>4, <2>8, <2>9, <2>12
  <2>14. Written(r, p, f)
    BY <2>1, <2>4, <2>8, <2>9, <2>12, <2>13 DEF Written
  <2> QED BY <1>2, <2>1, <2>3, <2>14
<1> QED BY <1>1, <1>2

\* A step that changes neither the disk nor the run, and at most forgets rows or the inode
\* of one, changes nothing of this.
LEMMA IdentityKept ==
  ASSUME LibraryTypes, HomeInv, UNCHANGED <<disk, run, ghosts>>, reused => reused',
         \A r \in Known' : /\ r \in Known /\ rowOf'[r].path = rowOf[r].path
                           /\ rowOf'[r].content = rowOf[r].content /\ rowOf'[r].inode = rowOf[r].inode
  PROVE  HomeInv'
<1> SUFFICES ASSUME ~ reused' PROVE (ghosts = 0 /\ RowsAreHome /\ RunIsHome)'
  BY DEF HomeInv
<1>1. ghosts = 0 /\ RowsAreHome /\ RunIsHome
  BY DEF HomeInv
<1>2. \A r \in Known' : \A q : Shows(q, r)' => Shows(q, r)
  BY DEF Shows
<1>3. \A r \in Known' : r \in Known /\ rowOf'[r].path = rowOf[r].path
  OBVIOUS
<1>4. RowsAreHome'
  BY <1>1, <1>2, <1>3 DEF RowsAreHome
<1>5. RunIsHome'
  BY <1>1, <1>2, <1>3 DEF RunIsHome
<1> QED BY <1>1, <1>4, <1>5

\* What a row is written with is at the path, so it is the row of that file; what a run has
\* left there is the run's.
LEMMA UpsertHome ==
  ASSUME LibraryTypes, RunKeepsItsRow, FilesDiffer, HomeInv, scan.path \in Paths,
         NEW f \in OnDiskFiles, Entry(f), UNCHANGED <<disk, run, ghosts>>
  PROVE  HomeInv'
<1> DEFINE s == scan.path
<1>1. CASE UNCHANGED rowOf /\ UNCHANGED reused
  BY <1>1, IdentityKept DEF Known
<1>2. CASE /\ ~ (Match(f) = {} /\ InFlightOutput(s)) /\ Upsert(s, f)
           /\ reused' = (reused \/ f # disk[s])
  <2> SUFFICES ASSUME ~ reused' PROVE (ghosts = 0 /\ RowsAreHome /\ RunIsHome)'
    BY DEF HomeInv
  <2>1. f = disk[s] /\ ghosts = 0 /\ RowsAreHome /\ RunIsHome
    BY <1>2 DEF HomeInv
  <2>2. f.inode \in Inodes /\ f.inode # NoInode /\ disk[s] # NoFile
    BY <2>1, ScannerAssumption DEF OnDiskFiles, NoInode, NoFile
  <2>3. PICK r \in Rows : /\ Written(r, s, f)
                          /\ Existing(f) = {} => r \notin Known \cup seen /\ r # run.row
                          /\ Existing(f) # {} => r \in Existing(f)
    BY <1>2, UpsertWrites
  <2>4. Known' = Known \cup {r} /\ rowOf'[r].path = s
    BY <2>3 DEF Written
  <2>5. \A q \in Paths : Shows(q, r)' => q = s
    <3>1. rowOf'[r].inode = f.inode /\ rowOf'[r].content = f.content
      BY <2>3 DEF Written
    <3> QED BY <2>1, <2>2, <3>1 DEF Shows, FilesDiffer
  <2>6. ASSUME NEW k \in Known \ {r} PROVE rowOf'[k].path = rowOf[k].path /\ \A q \in Paths : Shows(q, k)' => Shows(q, k)
    <3>1. /\ rowOf'[k].path = rowOf[k].path /\ rowOf'[k].content = rowOf[k].content
          /\ rowOf'[k].inode \in {rowOf[k].inode, NoInode}
      BY <2>3 DEF Written
    <3>2. \A q \in Paths : disk[q] # NoFile => disk[q].inode # NoInode
      BY SomethingThere, ScannerAssumption DEF OnDiskFiles, NoInode
    <3> QED BY <3>1, <3>2 DEF Shows
  <2>7. RowsAreHome'
    BY <2>1, <2>4, <2>5, <2>6 DEF RowsAreHome
  <2>8. RunIsHome'
    <3> SUFFICES ASSUME run.row \in Known' PROVE RunIsHome'
      BY DEF RunIsHome
    <3>1. run.row \in Known
      BY <2>3, <2>4 DEF Existing, ByInode, ByContent
    <3>2. Existing(f) # {} => r \in Known /\ Shows(s, r)
      BY <2>1, <2>2, <2>3 DEF Existing, ByInode, ByContent, Shows
    <3>3. CASE run.left = "none"
      <4>1. CASE run.row = r
        BY <2>1, <2>2, <2>3, <2>4, <3>1, <3>2, <3>3, <4>1 DEF RunIsHome, RowsAreHome
      <4>2. CASE run.row # r
        BY <2>1, <2>6, <3>1, <3>3, <4>2 DEF RunIsHome
      <4> QED BY <4>1, <4>2
    <3>4. CASE run.left # "none"
      <4>0. /\ run.path \in Paths /\ disk[run.left] # NoFile /\ Stem[run.left] = Stem[run.path]
            /\ rowOf[run.row].path \in {run.path, run.left}
            /\ \A q \in Paths : Shows(q, run.row) => q = run.left
            /\ \A k \in Known \ {run.row} : ~ Shows(run.left, k)
        BY <2>1, <3>1, <3>4 DEF RunIsHome
      <4>1. run.left \in Paths
        BY <3>4 DEF LibraryTypes
      <4>2. s = run.left => r = run.row
        <5> SUFFICES ASSUME s = run.left, r # run.row PROVE FALSE
          OBVIOUS
        <5>1. Existing(f) = {}
          BY <3>2, <4>0
        <5>2. Match(f) = {}
          BY <5>1 DEF Existing, Match
        <5>3. InFlightOutput(s)
          BY <3>1, <4>0 DEF InFlightOutput, RunKeepsItsRow
        <5> QED BY <1>2, <5>2, <5>3
      <4>3. r = run.row => s = run.left
        BY <2>3, <3>1, <3>2, <4>0
      <4>4. rowOf'[run.row].path \in {run.path, run.left} /\ \A q \in Paths : Shows(q, run.row)' => q = run.left
        BY <2>4, <2>5, <2>6, <3>1, <4>0, <4>3
      <4>5. \A k \in Known' \ {run.row} : ~ Shows(run.left, k)'
        BY <2>4, <2>5, <2>6, <4>0, <4>1, <4>2
      <4> QED BY <3>4, <4>0, <4>4, <4>5 DEF RunIsHome
    <3> QED BY <3>3, <3>4
  <2> QED BY <2>1, <2>7, <2>8
<1> QED BY <1>1, <1>2 DEF Entry

\* Probing, marking and forgetting leave a row the identity it has.
Identity == /\ \A r \in Known' : /\ r \in Known /\ rowOf'[r].path = rowOf[r].path
                                 /\ rowOf'[r].content = rowOf[r].content /\ rowOf'[r].inode = rowOf[r].inode
            /\ UNCHANGED <<disk, run, ghosts, reused>>

LEMMA PersistIdentity ==
  ASSUME LibraryTypes, NEW item \in pending, Persist(item)
  PROVE  Identity
<1> DEFINE r == item.row
           probed == IF item.got = 0 THEN rowOf[r] ELSE [rowOf[r] EXCEPT !.probed = item.got]
           w == IF Requeued(probed) THEN [probed EXCEPT !.state = "queued"] ELSE probed
<1>1. CASE r \notin Known
  BY <1>1 DEF Persist, Identity, Known
<1>2. CASE r \in Known
  <2>1. rowOf[r] \in RowRecord /\ r \in Rows
    BY <1>2, KnownRows
  <2>2. probed.path = rowOf[r].path /\ probed.content = rowOf[r].content /\ probed.inode = rowOf[r].inode
        /\ probed.missing = rowOf[r].missing
    BY <2>1 DEF RowRecord
  <2>3. probed = [path |-> probed.path, inode |-> probed.inode, content |-> probed.content, state |-> probed.state,
                  missing |-> probed.missing, probed |-> probed.probed, signature |-> probed.signature]
    BY <2>1 DEF RowRecord
  <2>4. rowOf' = [rowOf EXCEPT ![r] = w]
    BY <1>2 DEF Persist
  <2> HIDE DEF probed
  <2>5. w.path = rowOf[r].path /\ w.content = rowOf[r].content /\ w.inode = rowOf[r].inode
    BY <2>2, <2>3
  <2> HIDE DEF w
  <2>6. \A q \in Rows : rowOf'[q] = IF q = r THEN w ELSE rowOf[q]
    BY <2>1, <2>4 DEF LibraryTypes
  <2> QED BY <1>2, <2>5, <2>6 DEF Persist, Identity, Known
<1> QED BY <1>1, <1>2

LEMMA MarkIdentity ==
  ASSUME LibraryTypes, NEW c \in checks, Mark(c)
  PROVE  Identity
<1> DEFINE r == c[1]
           w == [rowOf[r] EXCEPT !.missing = TRUE]
<1>1. CASE UNCHANGED rowOf
  BY <1>1 DEF Mark, Identity, Known
<1>2. CASE r \in Known /\ rowOf' = [rowOf EXCEPT ![r] = w]
  <2>1. rowOf[r] \in RowRecord /\ r \in Rows
    BY <1>2, KnownRows
  <2>2. w.path = rowOf[r].path /\ w.content = rowOf[r].content /\ w.inode = rowOf[r].inode
    BY <2>1 DEF RowRecord
  <2> HIDE DEF w
  <2>3. \A q \in Rows : rowOf'[q] = IF q = r THEN w ELSE rowOf[q]
    BY <1>2, <2>1 DEF LibraryTypes
  <2> QED BY <1>2, <2>2, <2>3 DEF Mark, Identity, Known
<1> QED BY <1>1, <1>2 DEF Mark, MarkMissing

LEMMA ForgetIdentity ==
  ASSUME LibraryTypes, Forget
  PROVE  Identity
<1> DEFINE r == forget.row
           w == [rowOf[r] EXCEPT !.missing = FALSE]
<1>0. forget.verdict \in {"gone", "back", "unconfirmed"}
  BY DEF LibraryTypes, Forget
<1>1. CASE UNCHANGED rowOf
  BY <1>1 DEF Forget, Identity, Known
<1>2. CASE r \in Known /\ rowOf' = [rowOf EXCEPT ![r] = w]
  <2>1. rowOf[r] \in RowRecord /\ r \in Rows
    BY <1>2, KnownRows
  <2>2. w.path = rowOf[r].path /\ w.content = rowOf[r].content /\ w.inode = rowOf[r].inode
    BY <2>1 DEF RowRecord
  <2> HIDE DEF w
  <2>3. \A q \in Rows : rowOf'[q] = IF q = r THEN w ELSE rowOf[q]
    BY <1>2, <2>1 DEF LibraryTypes
  <2> QED BY <1>2, <2>2, <2>3 DEF Forget, Identity, Known
<1>3. CASE r \in Known /\ rowOf' = [rowOf EXCEPT ![r] = NoRow]
  <2>1. \A q \in Rows : rowOf'[q] = IF q = r THEN NoRow ELSE rowOf[q]
    BY <1>3 DEF LibraryTypes
  <2> QED BY <1>3, <2>1 DEF Forget, Identity, Known
<1>4. CASE r \notin Known
  BY <1>1, <1>4 DEF Forget
<1>5. CASE r \in Known /\ forget.verdict = "gone"
  BY <1>3, <1>5 DEF Forget
<1>6. CASE r \in Known /\ forget.verdict = "back"
  BY <1>2, <1>6 DEF Forget
<1>7. CASE r \in Known /\ forget.verdict = "unconfirmed"
  BY <1>1, <1>7 DEF Forget
<1> QED BY <1>0, <1>4, <1>5, <1>6, <1>7

LEMMA SameIdentity ==
  ASSUME UNCHANGED <<rowOf, disk, run, ghosts, reused>>
  PROVE  Identity
BY DEF Identity, Known

\* The steps of the scan but for the upsert, and those of forgetting.
LEMMA ScanHome ==
  ASSUME LibraryTypes, RunKeepsItsRow, FilesDiffer, HomeInv,
         \/ ScanStarts \/ Hash \/ Restat \/ UnverifiedEntry \/ WalkEnds \/ ReconcileStarts \/ ScanEnds \/ Forget
         \/ \E p \in Paths : WalkTo(p)
         \/ \E item \in pending : Probe(item) \/ Persist(item)
         \/ \E c \in checks : Check(c) \/ Mark(c)
         \/ \E r \in Rows : Verify(r)
  PROVE  FilesDiffer' /\ HomeInv'
<1>1. ASSUME Identity PROVE FilesDiffer' /\ HomeInv'
  BY <1>1, IdentityKept DEF Identity, FilesDiffer
<1>2. CASE ScanStarts \/ Hash \/ WalkEnds \/ ReconcileStarts \/ ScanEnds
  BY <1>1, <1>2, SameIdentity DEF ScanStarts, Hash, WalkEnds, ReconcileStarts, ScanEnds
<1>3. CASE \E p \in Paths : WalkTo(p)
  BY <1>1, <1>3, SameIdentity DEF WalkTo
<1>4. CASE \E item \in pending : Probe(item) \/ Persist(item)
  BY <1>1, <1>4, SameIdentity, PersistIdentity DEF Probe
<1>5. CASE \E c \in checks : Check(c) \/ Mark(c)
  BY <1>1, <1>5, SameIdentity, MarkIdentity DEF Check
<1>6. CASE \E r \in Rows : Verify(r)
  BY <1>1, <1>6, SameIdentity DEF Verify
<1>7. CASE Forget
  BY <1>1, <1>7, ForgetIdentity
<1>8. CASE Restat
  <2>0. scan.path \in Paths /\ scan.hash \in Contents /\ scan.stat \in OnDiskFiles
    BY <1>8, ScanTypes DEF Restat, ScanIsTyped
  <2>1. CASE UNCHANGED <<rowOf, reused>>
    BY <1>1, <1>8, <2>1, SameIdentity DEF Restat
  <2>2. CASE /\ disk[scan.path] = scan.stat /\ Entry([inode |-> disk[scan.path].inode, content |-> scan.hash])
    <3>1. [inode |-> disk[scan.path].inode, content |-> scan.hash] \in OnDiskFiles
      BY <2>0, <2>2 DEF OnDiskFiles
    <3>2. UNCHANGED <<disk, run, ghosts>>
      BY <1>8 DEF Restat
    <3>3. HomeInv'
      BY <2>0, <2>2, <3>1, <3>2, UpsertHome
    <3> QED BY <3>2, <3>3 DEF FilesDiffer
  <2> QED BY <1>8, <2>1, <2>2 DEF Restat
<1>9. CASE UnverifiedEntry
  <2>0. scan.path \in Paths /\ scan.hash \in Contents /\ scan.stat \in OnDiskFiles
    BY <1>9, ScanTypes DEF UnverifiedEntry, ScanIsTyped
  <2>1. [inode |-> scan.stat.inode, content |-> scan.hash] \in OnDiskFiles
    BY <2>0 DEF OnDiskFiles
  <2>2. UNCHANGED <<disk, run, ghosts>> /\ Entry([inode |-> scan.stat.inode, content |-> scan.hash])
    BY <1>9 DEF UnverifiedEntry
  <2>3. HomeInv'
    BY <2>0, <2>1, <2>2, UpsertHome
  <2> QED BY <2>2, <2>3 DEF FilesDiffer
<1> QED BY <1>2, <1>3, <1>4, <1>5, <1>6, <1>7, <1>8, <1>9

LEMMA ClaimHome ==
  ASSUME LibraryTypes, FilesDiffer, HomeInv, NEW r \in Rows, Claim(r)
  PROVE  FilesDiffer' /\ HomeInv'
<1>0. /\ r \in Known /\ UNCHANGED <<disk, ghosts, reused>>
      /\ run' = [row |-> r, path |-> rowOf[r].path, left |-> "none"]
  BY DEF Claim
<1>1. rowOf[r] \in RowRecord /\ rowOf[r].path \in Paths
  BY <1>0, KnownRows DEF RowRecord
<1> DEFINE w == [rowOf[r] EXCEPT !.state = "running"]
<1>2. rowOf' = [rowOf EXCEPT ![r] = w]
  BY DEF Claim
<1>3. w.path = rowOf[r].path /\ w.content = rowOf[r].content /\ w.inode = rowOf[r].inode
  BY <1>1 DEF RowRecord
<1> HIDE DEF w
<1>4. \A q \in Rows : rowOf'[q] = IF q = r THEN w ELSE rowOf[q]
  BY <1>2 DEF LibraryTypes
<1>5. \A q \in Known' : /\ q \in Known /\ rowOf'[q].path = rowOf[q].path
                        /\ rowOf'[q].content = rowOf[q].content /\ rowOf'[q].inode = rowOf[q].inode
  BY <1>0, <1>3, <1>4 DEF Known
<1>6. \A q \in Known' : \A p : Shows(p, q)' => Shows(p, q)
  BY <1>0, <1>5 DEF Shows
<1>7. HomeInv'
  BY <1>0, <1>1, <1>5, <1>6 DEF HomeInv, RowsAreHome, RunIsHome
<1> QED BY <1>0, <1>7 DEF FilesDiffer

\* A new file is no file that is on the disk, and has the content of no row.
LEMMA NewFileDiffers ==
  ASSUME LibraryTypes, NEW f \in NewFiles
  PROVE  /\ f \in OnDiskFiles /\ f # NoFile
         /\ \A p \in Paths : disk[p].inode # f.inode /\ disk[p].content # f.content
         /\ \A r \in Known : rowOf[r].content # f.content
<1>1. f \in OnDiskFiles
  BY NewFileTypes
<1>2. f.inode \in FreeInodes /\ f.content \in FreeBytes
  BY DEF NewFiles, Least
<1> QED BY <1>1, <1>2, ScannerAssumption
        DEF FreeInodes, FreeBytes, OnDiskNow, RowBytes, OnDiskFiles, NoFile, NoInode

\* What the run leaves is known to no row; its row knew the file it replaces, and no other.
LEMMA ReplaceHome ==
  ASSUME LibraryTypes, FilesDiffer, HomeInv, NEW p \in Paths, NEW f, Replace(p, f)
  PROVE  FilesDiffer' /\ HomeInv'
<1>0. /\ run.left = "none" /\ disk[run.path] # NoFile /\ Stem[p] = Stem[run.path]
      /\ p = run.path \/ disk[p] = NoFile
      /\ f \in NewFiles /\ disk' = [disk EXCEPT ![run.path] = NoFile, ![p] = f]
      /\ run' = [run EXCEPT !.left = p] /\ UNCHANGED <<rowOf, ghosts>>
      /\ reused' = (reused \/ f.inode \in RowInodes \/ (p # run.path /\ Named(p)))
  BY DEF Replace, OnDisk
<1>1. /\ f \in OnDiskFiles /\ f # NoFile
      /\ \A q \in Paths : disk[q].inode # f.inode /\ disk[q].content # f.content
      /\ \A r \in Known : rowOf[r].content # f.content
  BY <1>0, NewFileDiffers
<1>2. \A q \in Paths : disk'[q] = IF q = p THEN f ELSE IF q = run.path THEN NoFile ELSE disk[q]
  BY <1>0 DEF LibraryTypes
<1>3. FilesDiffer'
  BY <1>1, <1>2 DEF FilesDiffer
<1>4. run'.row = run.row /\ run'.path = run.path /\ run'.left = p /\ p # "none" /\ Known' = Known
  <2>1. p # "none"
    BY ScannerAssumption
  <2> QED BY <1>0, <2>1 DEF LibraryTypes, Known
<1>5. HomeInv'
  <2> SUFFICES ASSUME ~ reused' PROVE (ghosts = 0 /\ RowsAreHome /\ RunIsHome)'
    BY DEF HomeInv
  <2>1. /\ ghosts = 0 /\ RowsAreHome /\ RunIsHome /\ f.inode \notin RowInodes
        /\ p # run.path => ~ Named(p)
    BY <1>0 DEF HomeInv
  <2>2. \A r \in Known : rowOf[r].inode # f.inode
    BY <2>1 DEF RowInodes
  <2>3. \A r \in Known : \A q \in Paths : Shows(q, r)' => Shows(q, r) /\ q # p /\ q # run.path
    BY <1>0, <1>1, <1>2, <2>2 DEF Shows
  <2>4. RowsAreHome'
    <3> SUFFICES ASSUME NEW r \in Known, disk'[rowOf[r].path] # NoFile, NEW q \in Paths, Shows(q, r)'
                 PROVE  q = rowOf[r].path
      BY <1>0, <1>4 DEF RowsAreHome
    <3>1. rowOf[r].path \in Paths
      BY KnownRows DEF RowRecord
    <3>2. rowOf[r].path = p => p = run.path
      BY <2>1 DEF Named
    <3>3. disk[rowOf[r].path] # NoFile
      BY <1>0, <1>2, <3>1, <3>2
    <3> QED BY <2>1, <2>3, <3>3 DEF RowsAreHome
  <2>5. RunIsHome'
    <3> SUFFICES ASSUME run.row \in Known PROVE RunIsHome'
      BY <1>4 DEF RunIsHome
    <3>1. run.path \in Paths /\ rowOf[run.row].path = run.path
      BY <1>0, <2>1 DEF RunIsHome
    <3>2. \A q \in Paths : ~ Shows(q, run.row)'
      BY <1>0, <2>1, <2>3, <3>1 DEF RowsAreHome
    <3>3. \A r \in Known : ~ Shows(p, r)'
      BY <2>3
    <3>4. disk'[p] = f
      BY <1>2
    <3> QED BY <1>0, <1>1, <1>4, <3>1, <3>2, <3>3, <3>4 DEF RunIsHome
  <2> QED BY <2>1, <1>0, <2>4, <2>5
<1> QED BY <1>3, <1>5

\* The run records what it left as its own: no other row knows it, so there is no conflict.
LEMMA RecordHome ==
  ASSUME LibraryTypes, FilesDiffer, HomeInv, Record
  PROVE  FilesDiffer' /\ HomeInv'
<1> SUFFICES ASSUME NEW k, k = run.row PROVE HomeInv'
  BY DEF Record, FilesDiffer
<1> DEFINE f == disk[run.left]
           w == [rowOf[k] EXCEPT !.path = run.left, !.inode = f.inode, !.content = f.content,
                                 !.probed = f.content, !.signature = f.content, !.state = "good"]
<1>0. /\ UNCHANGED <<disk, reused>> /\ run' = [row |-> 0, path |-> "none", left |-> "none"]
  BY DEF Record, NoRun
<1>1. run'.row \notin Known'
  <2>1. 0 \notin Rows
    BY DaemonAssumption
  <2> QED BY <1>0, <2>1 DEF Known
<1>2. rowOf \in [Rows -> RowRecord \cup {NoRow}]
  BY DEF LibraryTypes
<1>3. ASSUME ghosts' = ghosts,
             \A r \in Known' : /\ r \in Known /\ rowOf'[r].path = rowOf[r].path
                               /\ rowOf'[r].content = rowOf[r].content /\ rowOf'[r].inode = rowOf[r].inode
      PROVE  HomeInv'
  <2>1. \A r \in Known' : \A q : Shows(q, r)' => Shows(q, r)
    BY <1>0, <1>3 DEF Shows
  <2> QED BY <1>0, <1>1, <1>3, <2>1 DEF HomeInv, RowsAreHome, RunIsHome
<1>4. CASE k \notin Known
  <2>1. rowOf' = rowOf /\ ghosts' = ghosts
    BY <1>4 DEF Record
  <2>2. Known' = Known
    BY <2>1 DEF Known
  <2>3. \A r \in Known' : /\ r \in Known /\ rowOf'[r].path = rowOf[r].path
                          /\ rowOf'[r].content = rowOf[r].content /\ rowOf'[r].inode = rowOf[r].inode
    BY <2>1, <2>2
  <2> QED BY <1>3, <2>1, <2>3
<1>5. CASE k \in Known
  <2>0. k \in Rows /\ rowOf[k] \in RowRecord
    BY <1>5, KnownRows
  <2>1. ASSUME NEW u, rowOf' = [rowOf EXCEPT ![k] = u], u.path = rowOf[k].path,
               u.content = rowOf[k].content, u.inode = rowOf[k].inode, ghosts' = ghosts
        PROVE  HomeInv'
    <3>1. \A q \in Rows : rowOf'[q] = IF q = k THEN u ELSE rowOf[q]
      BY <1>2, <2>1
    <3>2. \A r \in Known' : /\ r \in Known /\ rowOf'[r].path = rowOf[r].path
                            /\ rowOf'[r].content = rowOf[r].content /\ rowOf'[r].inode = rowOf[r].inode
      BY <1>5, <2>1, <3>1 DEF Known
    <3> QED BY <1>3, <2>1, <3>2
  <2>2. ASSUME rowOf' = [rowOf EXCEPT ![k].state = "held"], ghosts' = ghosts PROVE HomeInv'
    <3> DEFINE u == [rowOf[k] EXCEPT !.state = "held"]
    <3>1. u.path = rowOf[k].path /\ u.content = rowOf[k].content /\ u.inode = rowOf[k].inode
      BY <2>0 DEF RowRecord
    <3>2. rowOf' = [rowOf EXCEPT ![k] = u]
      BY <2>2, Zenon
    <3> HIDE DEF u
    <3> QED BY <2>1, <2>2, <3>1, <3>2
  <2>3. ASSUME rowOf' = [rowOf EXCEPT ![k].state = "good", ![k].signature = rowOf[k].probed], ghosts' = ghosts
        PROVE  HomeInv'
    <3> DEFINE u == [rowOf[k] EXCEPT !.state = "good", !.signature = rowOf[k].probed]
    <3>1. u.path = rowOf[k].path /\ u.content = rowOf[k].content /\ u.inode = rowOf[k].inode
      BY <2>0 DEF RowRecord
    <3>2. rowOf' = [rowOf EXCEPT ![k] = u]
      BY <1>2, <2>0, <2>3
    <3> HIDE DEF u
    <3> QED BY <2>1, <2>3, <3>1, <3>2
  <2>4. ASSUME run.left # "none", f # NoFile PROVE HomeInv'
    <3> SUFFICES ASSUME ~ reused' PROVE (ghosts = 0 /\ RowsAreHome /\ RunIsHome)'
      BY DEF HomeInv
    <3>1. ghosts = 0 /\ RowsAreHome /\ RunIsHome
      BY <1>0 DEF HomeInv
    <3>2. run.left \in Paths
      BY <2>4 DEF LibraryTypes
    <3>3. f \in OnDiskFiles
      BY <2>4, <3>2, SomethingThere
    <3>4. ByContent(f.content) \ {k} = {}
      BY <1>5, <2>4, <3>1 DEF RunIsHome, Shows, ByContent
    <3> DEFINE rows == [rowOf EXCEPT ![k].path = run.left, ![k].inode = f.inode,
                                     ![k].content = f.content, ![k].probed = f.content,
                                     ![k].signature = f.content, ![k].state = "good"]
    <3>5. rowOf' = WithoutInode(rows, f.inode, k) /\ ghosts' = ghosts
      BY <1>5, <2>4, <3>4 DEF Record
    <3>6. rows = [rowOf EXCEPT ![k] = w]
      BY <1>2, <2>0
    <3>7. w.path = run.left /\ w.inode = f.inode /\ w.content = f.content
      BY <2>0 DEF RowRecord
    <3> HIDE DEF w
    <3>8. \A q \in Rows : rows[q] = IF q = k THEN w ELSE rowOf[q]
      BY <1>2, <3>6
    <3> HIDE DEF rows
    <3>9. \A q \in Rows : rowOf'[q] = IF q \in Known \ {k} /\ rows[q].inode = f.inode
                                     THEN [rows[q] EXCEPT !.inode = NoInode] ELSE rows[q]
      BY <3>5 DEF WithoutInode
    <3>10. \A r \in Known' : r \in Known
      BY <1>5, <3>8, <3>9 DEF Known
    <3>11. rowOf'[k].path = run.left /\ \A q \in Paths : Shows(q, k)' => q = run.left
      <4>1. rowOf'[k].path = run.left /\ rowOf'[k].inode = f.inode /\ rowOf'[k].content = f.content
        BY <2>0, <3>7, <3>8, <3>9
      <4>2. \A q \in Paths : disk[q] # NoFile /\ (disk[q].inode = f.inode \/ disk[q].content = f.content)
                             => q = run.left
        BY <2>4, <3>2 DEF FilesDiffer
      <4>3. disk' = disk
        BY <1>0
      <4> HIDE DEF f
      <4>4. ASSUME NEW q \in Paths, Shows(q, k)' PROVE q = run.left
        <5>1. disk[q] # NoFile /\ (disk[q].inode = f.inode \/ disk[q].content = f.content)
          BY <4>1, <4>3, <4>4 DEF Shows
        <5> QED BY <4>2, <5>1
      <4> QED BY <4>1, <4>4
    <3>12. ASSUME NEW r \in Known' \ {k}
           PROVE  rowOf'[r].path = rowOf[r].path /\ \A q \in Paths : Shows(q, r)' => Shows(q, r)
      <4>1. r \in Known /\ r \in Rows /\ rowOf[r] \in RowRecord /\ rows[r] = rowOf[r]
        BY <3>8, <3>10, <3>12, KnownRows
      <4>2. /\ rowOf'[r].path = rowOf[r].path /\ rowOf'[r].content = rowOf[r].content
            /\ rowOf'[r].inode \in {rowOf[r].inode, NoInode}
        <5>1. CASE rowOf[r].inode = f.inode
          <6>1. rowOf'[r] = [rowOf[r] EXCEPT !.inode = NoInode]
            BY <3>9, <3>12, <4>1, <5>1
          <6> QED BY <4>1, <6>1 DEF RowRecord
        <5>2. CASE rowOf[r].inode # f.inode
          BY <3>9, <4>1, <5>2
        <5> QED BY <5>1, <5>2
      <4>3. \A q \in Paths : disk[q] # NoFile => disk[q].inode # NoInode
        BY SomethingThere, ScannerAssumption DEF OnDiskFiles, NoInode
      <4> QED BY <1>0, <4>2, <4>3 DEF Shows
    <3>13. RowsAreHome'
      <4> SUFFICES ASSUME NEW r \in Known', disk[rowOf'[r].path] # NoFile, NEW q \in Paths, Shows(q, r)'
                   PROVE  q = rowOf'[r].path
        BY <1>0 DEF RowsAreHome
      <4>1. CASE r = k
        <5>1. \A t \in Paths : Shows(t, k)' => t = run.left
          BY <3>11
        <5>2. Shows(q, k)'
          BY <4>1
        <5> QED BY <3>11, <4>1, <5>1, <5>2
      <4>2. CASE r # k
        BY <3>1, <3>10, <3>12, <4>2 DEF RowsAreHome
      <4> QED BY <4>1, <4>2
    <3>14. RunIsHome'
      BY <1>1 DEF RunIsHome
    <3> QED BY <3>1, <3>5, <3>13, <3>14
  <2>5. CASE ~ (run.left # "none" /\ f # NoFile)
    <3>1. ghosts' = ghosts
      BY <1>5, <2>5 DEF Record
    <3>2. \/ rowOf' = [rowOf EXCEPT ![k].state = "held"]
          \/ rowOf' = [rowOf EXCEPT ![k].state = "good", ![k].signature = rowOf[k].probed]
      BY <1>5, <2>5 DEF Record
    <3>3. CASE rowOf' = [rowOf EXCEPT ![k].state = "held"]
      BY <2>2, <3>1, <3>3
    <3>4. CASE rowOf' = [rowOf EXCEPT ![k].state = "good", ![k].signature = rowOf[k].probed]
      BY <2>3, <3>1, <3>4
    <3> QED BY <3>2, <3>3, <3>4
  <2> QED BY <2>4, <2>5
<1> QED BY <1>4, <1>5

\* The user gives a file a name no row has, or the step counts as a reuse; and keeps to
\* other names than those of a file that is being replaced.
LEMMA UserHome ==
  ASSUME LibraryTypes, FilesDiffer, HomeInv,
         \/ Mount
         \/ \E p \in Paths : Unlink(p)
         \/ \E p \in Paths : \E f \in Files : Write(p, f)
         \/ \E p, q \in Paths : Move(p, q)
  PROVE  FilesDiffer' /\ HomeInv'
<1>0. UNCHANGED <<rowOf, run, ghosts>> /\ Known' = Known /\ (reused => reused')
  <2>1. UNCHANGED <<rowOf, run, ghosts>>
    BY DEF Mount, Unlink, Write, Move, UserActs
  <2>2. reused => reused'
    BY Zenon DEF Mount, Unlink, Write, Move
  <2> QED BY <2>1, <2>2 DEF Known
\* A path that changes holds nothing, or a file that no row at another path shows.
<1>1. ASSUME NEW changed \in SUBSET Paths, \A p \in changed : Untouched(p),
             \A p \in Paths \ changed : disk'[p] = disk[p],
             ~ reused' => \A p \in changed : disk'[p] # NoFile =>
               /\ ~ Named(p)
               /\ \A r \in Known : Shows(p, r)' => disk[rowOf[r].path] = NoFile \/ rowOf[r].path \in changed
               /\ run.row \in Known /\ run.left # "none" => ~ Shows(p, run.row)'
      PROVE  HomeInv'
  <2> SUFFICES ASSUME ~ reused' PROVE (ghosts = 0 /\ RowsAreHome /\ RunIsHome)'
    BY DEF HomeInv
  <2>1. ghosts = 0 /\ RowsAreHome /\ RunIsHome
    BY <1>0 DEF HomeInv
  <2>2. RowsAreHome'
    <3> SUFFICES ASSUME NEW r \in Known, disk'[rowOf[r].path] # NoFile, NEW q \in Paths, Shows(q, r)'
                 PROVE  q = rowOf[r].path
      BY <1>0 DEF RowsAreHome
    <3>1. rowOf[r].path \in Paths /\ Named(rowOf[r].path)
      BY KnownRows DEF RowRecord, Named
    <3>2. rowOf[r].path \notin changed /\ disk[rowOf[r].path] # NoFile
      BY <1>1, <3>1
    <3>3. q \notin changed
      BY <1>1, <3>2 DEF Shows
    <3>4. Shows(q, r)
      BY <1>0, <1>1, <3>3 DEF Shows
    <3> QED BY <2>1, <3>2, <3>4 DEF RowsAreHome
  <2>3. RunIsHome'
    <3> SUFFICES ASSUME run.row \in Known PROVE RunIsHome'
      BY <1>0 DEF RunIsHome
    <3>1. run.path \in Paths /\ run.path \notin changed
      BY <1>1, <2>1 DEF RunIsHome, Untouched
    <3>2. disk'[run.path] = disk[run.path]
      BY <1>1, <3>1
    <3>3. CASE run.left = "none"
      BY <1>0, <2>1, <3>1, <3>2, <3>3 DEF RunIsHome
    <3>4. CASE run.left # "none"
      <4>1. run.left \in Paths /\ run.left \notin changed
        BY <1>1, <2>1, <3>1, <3>4 DEF RunIsHome, Untouched, LibraryTypes
      <4>2. disk'[run.left] = disk[run.left]
        BY <1>1, <4>1
      <4>3. \A r : Shows(run.left, r)' => Shows(run.left, r)
        BY <1>0, <4>2 DEF Shows
      <4>4. \A q \in Paths : Shows(q, run.row)' => Shows(q, run.row)
        BY <1>0, <1>1, <3>4 DEF Shows
      <4> QED BY <1>0, <2>1, <3>1, <3>4, <4>2, <4>3, <4>4 DEF RunIsHome
    <3> QED BY <3>3, <3>4
  <2> QED BY <1>0, <2>1, <2>2, <2>3
<1>2. CASE Mount
  BY <1>0, <1>2, IdentityKept DEF Mount, FilesDiffer
<1>3. CASE \E p \in Paths : Unlink(p)
  <2>1. PICK p \in Paths : Unlink(p)
    BY <1>3
  <2>2. Untouched(p) /\ \A q \in Paths : disk'[q] = IF q = p THEN NoFile ELSE disk[q]
    BY <2>1 DEF Unlink, LibraryTypes
  <2>3. {p} \in SUBSET Paths /\ \A t \in Paths \ {p} : disk'[t] = disk[t]
    BY <2>2
  <2>4. \A t \in {p} : Untouched(t) /\ disk'[t] = NoFile
    BY <2>2
  <2>5. HomeInv'
    BY <1>1, <2>3, <2>4
  <2> QED BY <2>2, <2>5 DEF FilesDiffer
<1>4. CASE \E p \in Paths : \E f \in Files : Write(p, f)
  <2>1. PICK p \in Paths, f \in Files : Write(p, f)
    BY <1>4
  <2>2. /\ Untouched(p) /\ \A q \in Paths : disk'[q] = IF q = p THEN f ELSE disk[q]
        /\ f \in NewFiles /\ reused' = (reused \/ Named(p) \/ f.inode \in RowInodes)
    BY <2>1 DEF Write, LibraryTypes
  <2>3. /\ \A q \in Paths : disk[q].inode # f.inode /\ disk[q].content # f.content
        /\ \A r \in Known : rowOf[r].content # f.content
    BY <2>2, NewFileDiffers
  <2>4. ~ reused' => ~ Named(p) /\ \A r \in Known : ~ Shows(p, r)'
    BY <1>0, <2>2, <2>3 DEF Shows, RowInodes
  <2>7. {p} \in SUBSET Paths /\ \A t \in Paths \ {p} : disk'[t] = disk[t]
    BY <2>2
  <2>8. \A t \in {p} : Untouched(t) /\ (t = p)
    BY <2>2
  <2>9. ~ reused' => \A t \in {p} :
          /\ ~ Named(t)
          /\ \A r \in Known : Shows(t, r)' => disk[rowOf[r].path] = NoFile \/ rowOf[r].path \in {p}
          /\ run.row \in Known /\ run.left # "none" => ~ Shows(t, run.row)'
    BY <1>0, <2>4
  <2>5. HomeInv'
    BY <1>1, <2>7, <2>8, <2>9
  <2>6. FilesDiffer'
    BY <2>2, <2>3 DEF FilesDiffer
  <2> QED BY <2>5, <2>6
<1>5. CASE \E p, q \in Paths : Move(p, q)
  <2>1. PICK p, q \in Paths : Move(p, q)
    BY <1>5
  <2>2. /\ Untouched(p) /\ Untouched(q) /\ disk[p] # NoFile /\ disk[q] = NoFile
        /\ \A t \in Paths : disk'[t] = IF t = q THEN disk[p] ELSE IF t = p THEN NoFile ELSE disk[t]
        /\ reused' = (reused \/ Named(q))
    BY <2>1 DEF Move, OnDisk, LibraryTypes
  <2>3. FilesDiffer'
    BY <2>2 DEF FilesDiffer
  <2>4. \A r \in Known : Shows(q, r)' => Shows(p, r)
    BY <1>0, <2>2 DEF Shows
  <2>5. ASSUME ~ reused'
        PROVE  /\ ~ Named(q)
               /\ \A r \in Known : Shows(q, r)' => disk[rowOf[r].path] = NoFile \/ rowOf[r].path = p
               /\ run.row \in Known /\ run.left # "none" => ~ Shows(q, run.row)'
    <3>1. RowsAreHome /\ RunIsHome /\ ~ Named(q)
      BY <1>0, <2>2, <2>5 DEF HomeInv
    <3>2. \A r \in Known : Shows(q, r)' => disk[rowOf[r].path] = NoFile \/ rowOf[r].path = p
      BY <2>4, <3>1 DEF RowsAreHome
    <3>3. ASSUME run.row \in Known, run.left # "none", Shows(q, run.row)' PROVE FALSE
      <4>1. p = run.left /\ run.path \in Paths /\ Stem[run.left] = Stem[run.path]
        BY <1>0, <2>4, <3>1, <3>3 DEF RunIsHome
      <4> QED BY <2>2, <4>1 DEF Untouched
    <3> QED BY <3>1, <3>2, <3>3
  <2>6. {p, q} \in SUBSET Paths /\ \A t \in Paths \ {p, q} : disk'[t] = disk[t]
    BY <2>2
  <2>7. disk'[p] = NoFile
    BY <2>2
  <2>8. HomeInv'
    BY <1>1, <2>2, <2>5, <2>6, <2>7
  <2> QED BY <2>3, <2>8
<1> QED BY <1>2, <1>3, <1>4, <1>5

LEMMA HomeSteps ==
  ASSUME LibraryTypes, RunKeepsItsRow, FilesDiffer, HomeInv, Next
  PROVE  FilesDiffer' /\ HomeInv'
<1>1. CASE ScanStarts \/ Hash \/ Restat \/ UnverifiedEntry \/ WalkEnds \/ ReconcileStarts \/ ScanEnds \/ Forget
  BY <1>1, ScanHome
<1>2. CASE \E p \in Paths : WalkTo(p)
  BY <1>2, ScanHome
<1>3. CASE \E item \in pending : Probe(item) \/ Persist(item)
  BY <1>3, ScanHome
<1>4. CASE \E c \in checks : Check(c) \/ Mark(c)
  BY <1>4, ScanHome
<1>5. CASE \E r \in Rows : Verify(r)
  BY <1>5, ScanHome
<1>6. CASE \E r \in Rows : Claim(r)
  BY <1>6, ClaimHome
<1>7. CASE Record
  BY <1>7, RecordHome
<1>8. CASE \E p \in Paths : \E f \in Files : Replace(p, f)
  BY <1>8, ReplaceHome
<1>9. CASE Mount \/ (\E p \in Paths : Unlink(p)) \/ (\E p \in Paths : \E f \in Files : Write(p, f))
           \/ (\E p, q \in Paths : Move(p, q))
  BY <1>9, UserHome
<1> QED BY <1>1, <1>2, <1>3, <1>4, <1>5, <1>6, <1>7, <1>8, <1>9 DEF Next

LEMMA HomeStart ==
  ASSUME 0 \notin Rows, Init
  PROVE  FilesDiffer /\ HomeInv
<1>1. PICK at \in Paths : \E f : disk = [p \in Paths |-> IF p = at THEN f ELSE NoFile]
  BY DEF Init
<1>2. FilesDiffer
  BY <1>1 DEF FilesDiffer
<1>3. Known = {} /\ ghosts = 0
  BY DEF Init, Known
<1> QED BY <1>2, <1>3 DEF HomeInv, RowsAreHome, RunIsHome

LEMMA HomeLasts == DaemonSpec => [](LibraryTypes /\ RunKeepsItsRow /\ FilesDiffer /\ HomeInv)
<1>1. DaemonInit => FilesDiffer /\ HomeInv
  BY DaemonAssumption, HomeStart DEF DaemonInit
<1>2. LibraryTypes /\ RunKeepsItsRow /\ FilesDiffer /\ HomeInv /\ [DaemonNext]_daemonVars => (FilesDiffer /\ HomeInv)'
  <2> SUFFICES ASSUME LibraryTypes, RunKeepsItsRow, FilesDiffer, HomeInv, [DaemonNext]_daemonVars
               PROVE  FilesDiffer' /\ HomeInv'
    OBVIOUS
  <2>1. CASE Next
    BY <2>1, HomeSteps
  <2>2. CASE UNCHANGED vars
    <3>1. UNCHANGED <<rowOf, disk, run, ghosts, reused>>
      BY <2>2 DEF vars
    <3> QED BY <3>1, SameIdentity, IdentityKept DEF Identity, FilesDiffer
  <2> QED BY <2>1, <2>2 DEF DaemonNext, daemonVars
<1> QED BY <1>1, <1>2, LibraryLasts, PTL DEF DaemonSpec

-----------------------------------------------------------------------------
(* The library: a scan during which nothing else happens.  Every row it    *)
(* has seen is the row of a file it has passed, every such file has been   *)
(* seen, and what it holds of the file it reads is still so.               *)

OnlyRunRuns == \A r \in Known : rowOf[r].state = "running" => r = run.row

RowsApart == RowsDiffer /\ OnlyRunRuns

\* No row appears, changes its content or is started.
NoneStarts ==
  /\ \A r \in Known' : /\ r \in Known /\ rowOf'[r].content = rowOf[r].content
                       /\ (rowOf'[r].state = "running" => rowOf[r].state = "running")
  /\ UNCHANGED run

LEMMA ApartKept ==
  ASSUME RowsApart, NoneStarts
  PROVE  RowsApart'
BY DEF RowsApart, RowsDiffer, OnlyRunRuns, NoneStarts

\* A step that writes one row.
LEMMA OneWritten ==
  ASSUME LibraryTypes, NEW r \in Known, NEW w, w # NoRow, rowOf' = [rowOf EXCEPT ![r] = w]
  PROVE  Known' = Known /\ \A q \in Rows : rowOf'[q] = IF q = r THEN w ELSE rowOf[q]
<1>1. r \in Rows
  BY DEF Known
<1>2. \A q \in Rows : rowOf'[q] = IF q = r THEN w ELSE rowOf[q]
  BY DEF LibraryTypes
<1> QED BY <1>1, <1>2 DEF Known

\* Persisting keeps all rows, their marks and their identities, and starts none.
LEMMA PersistKeepsMarks ==
  ASSUME LibraryTypes, NEW item \in pending, Persist(item)
  PROVE  /\ Known' = Known
         /\ \A q \in Known : /\ rowOf'[q].missing = rowOf[q].missing
                              /\ (rowOf'[q].state = "running" => rowOf[q].state = "running")
<1> DEFINE r == item.row
           probed == IF item.got = 0 THEN rowOf[r] ELSE [rowOf[r] EXCEPT !.probed = item.got]
           w == IF Requeued(probed) THEN [probed EXCEPT !.state = "queued"] ELSE probed
<1>1. CASE r \notin Known
  BY <1>1 DEF Persist, Known
<1>2. CASE r \in Known
  <2>1. rowOf[r] \in RowRecord /\ r \in Rows
    BY <1>2, KnownRows
  <2>2. probed.missing = rowOf[r].missing /\ probed.state = rowOf[r].state
    BY <2>1 DEF RowRecord
  <2>3. probed = [path |-> probed.path, inode |-> probed.inode, content |-> probed.content, state |-> probed.state,
                  missing |-> probed.missing, probed |-> probed.probed, signature |-> probed.signature]
    BY <2>1 DEF RowRecord
  <2>4. rowOf' = [rowOf EXCEPT ![r] = w]
    BY <1>2 DEF Persist
  <2> HIDE DEF probed
  <2>5. w.missing = rowOf[r].missing /\ (w.state = "running" => rowOf[r].state = "running")
    BY <2>2, <2>3
  <2>6. w # NoRow
    BY <2>3 DEF NoRow
  <2> HIDE DEF w
  <2>7. Known' = Known /\ \A q \in Rows : rowOf'[q] = IF q = r THEN w ELSE rowOf[q]
    BY <1>2, <2>4, <2>6, OneWritten
  <2> QED BY <2>5, <2>7 DEF Known
<1> QED BY <1>1, <1>2

\* Marking marks the row of the check, unless it was claimed, moved or forgotten since.
LEMMA MarkMarks ==
  ASSUME LibraryTypes, NEW c \in checks, Mark(c)
  PROVE  /\ Known' = Known
         /\ \A q \in Known : /\ rowOf'[q].state = rowOf[q].state
                              /\ (q # c[1] => rowOf'[q].missing = rowOf[q].missing)
                              /\ (rowOf[q].missing => rowOf'[q].missing)
                              /\ (q = c[1] /\ rowOf[q].state # "running" /\ rowOf[q].path = c[2] => rowOf'[q].missing)
<1> DEFINE r == c[1]
           w == [rowOf[r] EXCEPT !.missing = TRUE]
<1>1. CASE ~ (r \in Known /\ rowOf[r].state # "running" /\ rowOf[r].path = c[2])
  BY <1>1 DEF Mark, MarkMissing, Known
<1>2. CASE r \in Known /\ rowOf[r].state # "running" /\ rowOf[r].path = c[2]
  <2>1. rowOf[r] \in RowRecord /\ r \in Rows
    BY <1>2, KnownRows
  <2>2. w.missing /\ w.state = rowOf[r].state
    BY <2>1 DEF RowRecord
  <2>3. w # NoRow
    BY <2>1 DEF NoRow, RowRecord
  <2>4. rowOf' = [rowOf EXCEPT ![r] = w]
    BY <1>2 DEF Mark, MarkMissing
  <2>5. r \in Known
    BY <1>2
  <2> HIDE DEF w, r
  <2>6. Known' = Known /\ \A q \in Rows : rowOf'[q] = IF q = r THEN w ELSE rowOf[q]
    BY <2>3, <2>4, <2>5, OneWritten
  <2> QED BY <2>2, <2>6 DEF Known, r
<1> QED BY <1>1, <1>2

\* The bytes decide over the inode, so that the row an upsert writes is the only one with them.
LEMMA UpsertApart ==
  ASSUME LibraryTypes, RowsApart, NEW p \in Paths, NEW f \in OnDiskFiles, Upsert(p, f), run' = run
  PROVE  RowsApart'
<1>1. PICK r \in Rows : /\ Written(r, p, f)
                        /\ Existing(f) = {} => r \notin Known \cup seen /\ r # run.row
                        /\ Existing(f) # {} => r \in Existing(f)
  BY UpsertWrites
<1>2. \A q \in Known \ {r} : rowOf[q].content # f.content
  BY <1>1 DEF Existing, ByInode, ByContent, RowsApart, RowsDiffer
<1>3. RowsDiffer'
  BY <1>1, <1>2 DEF Written, RowsApart, RowsDiffer
<1>4. OnlyRunRuns'
  BY <1>1 DEF Written, RowsApart, OnlyRunRuns
<1> QED BY <1>3, <1>4 DEF RowsApart

LEMMA EntryApart ==
  ASSUME LibraryTypes, RowsApart, scan.path \in Paths, NEW f \in OnDiskFiles, Entry(f), run' = run
  PROVE  RowsApart'
<1>1. CASE UNCHANGED rowOf
  BY <1>1, ApartKept DEF NoneStarts, Known
<1>2. CASE Upsert(scan.path, f)
  BY <1>2, UpsertApart
<1> QED BY <1>1, <1>2 DEF Entry

LEMMA ForgetApart ==
  ASSUME LibraryTypes, RowsApart, Forget
  PROVE  RowsApart'
<1> DEFINE r == forget.row
           w == [rowOf[r] EXCEPT !.missing = FALSE]
<1>0. forget.verdict \in {"gone", "back", "unconfirmed"} /\ UNCHANGED run
  BY DEF LibraryTypes, Forget
<1>1. CASE UNCHANGED rowOf
  BY <1>0, <1>1, ApartKept DEF NoneStarts, Known
<1>2. CASE r \in Known /\ rowOf' = [rowOf EXCEPT ![r] = w]
  <2>1. rowOf[r] \in RowRecord /\ r \in Rows
    BY <1>2, KnownRows
  <2>2. w.content = rowOf[r].content /\ w.state = rowOf[r].state
    BY <2>1 DEF RowRecord
  <2> HIDE DEF w
  <2>3. \A q \in Rows : rowOf'[q] = IF q = r THEN w ELSE rowOf[q]
    BY <1>2, <2>1 DEF LibraryTypes
  <2>4. NoneStarts
    BY <1>0, <1>2, <2>2, <2>3 DEF NoneStarts, Known
  <2> QED BY <2>4, ApartKept
<1>3. CASE r \in Known /\ rowOf' = [rowOf EXCEPT ![r] = NoRow]
  <2>1. \A q \in Rows : rowOf'[q] = IF q = r THEN NoRow ELSE rowOf[q]
    BY <1>3 DEF LibraryTypes
  <2>2. NoneStarts
    BY <1>0, <2>1 DEF NoneStarts, Known
  <2> QED BY <2>2, ApartKept
<1>4. CASE r \notin Known
  BY <1>1, <1>4 DEF Forget
<1>5. CASE r \in Known /\ forget.verdict = "gone"
  BY <1>3, <1>5 DEF Forget
<1>6. CASE r \in Known /\ forget.verdict = "back"
  BY <1>2, <1>6 DEF Forget
<1>7. CASE r \in Known /\ forget.verdict = "unconfirmed"
  BY <1>1, <1>7 DEF Forget
<1> QED BY <1>0, <1>4, <1>5, <1>6, <1>7

LEMMA ClaimApart ==
  ASSUME LibraryTypes, RowsApart, NEW r \in Rows, Claim(r)
  PROVE  RowsApart'
<1> DEFINE w == [rowOf[r] EXCEPT !.state = "running"]
<1>1. r \in Known /\ run = NoRun /\ rowOf' = [rowOf EXCEPT ![r] = w] /\ run'.row = r
  BY DEF Claim
<1>2. w.content = rowOf[r].content /\ w # NoRow
  BY <1>1, KnownRows DEF RowRecord, NoRow
<1> HIDE DEF w
<1>3. Known' = Known /\ \A q \in Rows : rowOf'[q] = IF q = r THEN w ELSE rowOf[q]
  BY <1>1, <1>2, OneWritten
<1>4. \A q \in Known : rowOf[q].state # "running"
  BY <1>1, DaemonAssumption DEF RowsApart, OnlyRunRuns, NoRun, Known
<1> QED BY <1>1, <1>2, <1>3, <1>4 DEF RowsApart, RowsDiffer, OnlyRunRuns, Known

\* What a run records is in no other row, or its row keeps what it had.
LEMMA RecordApart ==
  ASSUME LibraryTypes, RowsApart, Record
  PROVE  RowsApart'
<1> SUFFICES ASSUME NEW k, k = run.row, NEW f, f = disk[run.left] PROVE RowsApart'
  OBVIOUS
<1>1. \A q \in Known : q # k => rowOf[q].state # "running"
  BY DEF RowsApart, OnlyRunRuns
<1>2. ASSUME k \in Known, NEW u, u # NoRow, rowOf' = [rowOf EXCEPT ![k] = u],
             u.content = rowOf[k].content, u.state # "running"
      PROVE  RowsApart'
  <2>1. Known' = Known /\ \A q \in Rows : rowOf'[q] = IF q = k THEN u ELSE rowOf[q]
    BY <1>2, OneWritten
  <2> QED BY <1>1, <1>2, <2>1 DEF RowsApart, RowsDiffer, OnlyRunRuns, Known
<1>3. CASE k \notin Known
  <2>1. rowOf' = rowOf /\ Known' = Known
    BY <1>3 DEF Record, Known
  <2> QED BY <1>1, <1>3, <2>1 DEF RowsApart, RowsDiffer, OnlyRunRuns
<1>4. ASSUME k \in Known, rowOf' = [rowOf EXCEPT ![k].state = "held"] PROVE RowsApart'
  <2> DEFINE u == [rowOf[k] EXCEPT !.state = "held"]
  <2>1. u.content = rowOf[k].content /\ u # NoRow /\ u.state = "held"
    BY <1>4, KnownRows DEF RowRecord, NoRow
  <2>2. rowOf' = [rowOf EXCEPT ![k] = u]
    BY <1>4, Zenon
  <2> HIDE DEF u
  <2> QED BY <1>2, <1>4, <2>1, <2>2
<1>5. ASSUME k \in Known, rowOf' = [rowOf EXCEPT ![k].state = "good", ![k].signature = rowOf[k].probed]
      PROVE  RowsApart'
  <2> DEFINE u == [rowOf[k] EXCEPT !.state = "good", !.signature = rowOf[k].probed]
  <2>1. u.content = rowOf[k].content /\ u # NoRow /\ u.state = "good"
    BY <1>5, KnownRows DEF RowRecord, NoRow
  <2>2. rowOf' = [rowOf EXCEPT ![k] = u]
    BY <1>5, KnownRows DEF LibraryTypes
  <2> HIDE DEF u
  <2> QED BY <1>2, <1>5, <2>1, <2>2
<1>6. CASE k \in Known /\ run.left # "none" /\ f # NoFile
  <2> DEFINE rows == [rowOf EXCEPT ![k].path = run.left, ![k].inode = f.inode,
                                   ![k].content = f.content, ![k].probed = f.content,
                                   ![k].signature = f.content, ![k].state = "good"]
             w == [rowOf[k] EXCEPT !.path = run.left, !.inode = f.inode, !.content = f.content,
                                   !.probed = f.content, !.signature = f.content, !.state = "good"]
  <2>1. \/ ByContent(f.content) \ {k} = {} /\ rowOf' = WithoutInode(rows, f.inode, k)
        \/ rowOf' = [rowOf EXCEPT ![k].state = "held"]
    BY <1>6 DEF Record
  <2>2. CASE rowOf' = [rowOf EXCEPT ![k].state = "held"]
    BY <1>4, <1>6, <2>2
  <2>3. CASE ByContent(f.content) \ {k} = {} /\ rowOf' = WithoutInode(rows, f.inode, k)
    <3>1. k \in Rows /\ rowOf[k] \in RowRecord
      BY <1>6, KnownRows
    <3>2. rows = [rowOf EXCEPT ![k] = w]
      BY <3>1 DEF LibraryTypes
    <3>3. w.content = f.content /\ w.state = "good"
      BY <3>1 DEF RowRecord
    <3> HIDE DEF w
    <3>4. \A q \in Rows : rows[q] = IF q = k THEN w ELSE rowOf[q]
      BY <3>1, <3>2 DEF LibraryTypes
    <3> HIDE DEF rows
    <3>5. \A q \in Rows : rowOf'[q] = IF q \in Known \ {k} /\ rows[q].inode = f.inode
                                     THEN [rows[q] EXCEPT !.inode = NoInode] ELSE rows[q]
      BY <2>3 DEF WithoutInode
    <3>6. Known' \subseteq Known
      BY <1>6, <3>4, <3>5 DEF Known
    <3>7. rowOf'[k].content = f.content /\ rowOf'[k].state = "good"
      BY <3>1, <3>3, <3>4, <3>5
    <3>8. ASSUME NEW r \in Known \ {k}
          PROVE  rowOf'[r].content = rowOf[r].content /\ rowOf'[r].state = rowOf[r].state
      <4>1. r \in Rows /\ rowOf[r] \in RowRecord /\ rows[r] = rowOf[r]
        BY <3>4, KnownRows
      <4>2. CASE rowOf[r].inode = f.inode
        <5>1. rowOf'[r] = [rowOf[r] EXCEPT !.inode = NoInode]
          BY <3>5, <4>1, <4>2
        <5> QED BY <4>1, <5>1 DEF RowRecord
      <4>3. CASE rowOf[r].inode # f.inode
        BY <3>5, <4>1, <4>3
      <4> QED BY <4>2, <4>3
    <3>9. \A r \in Known \ {k} : rowOf[r].content # f.content
      BY <2>3 DEF ByContent
    <3>10. RowsDiffer'
      BY <3>6, <3>7, <3>8, <3>9 DEF RowsApart, RowsDiffer
    <3>11. OnlyRunRuns'
      BY <1>1, <3>6, <3>7, <3>8 DEF OnlyRunRuns
    <3> QED BY <3>10, <3>11 DEF RowsApart
  <2> QED BY <2>1, <2>2, <2>3
<1>7. CASE k \in Known /\ ~ (run.left # "none" /\ f # NoFile)
  <2>1. \/ rowOf' = [rowOf EXCEPT ![k].state = "held"]
        \/ rowOf' = [rowOf EXCEPT ![k].state = "good", ![k].signature = rowOf[k].probed]
    BY <1>7 DEF Record
  <2>2. CASE rowOf' = [rowOf EXCEPT ![k].state = "held"]
    BY <1>4, <1>7, <2>2
  <2>3. CASE rowOf' = [rowOf EXCEPT ![k].state = "good", ![k].signature = rowOf[k].probed]
    BY <1>5, <1>7, <2>3
  <2> QED BY <2>1, <2>2, <2>3
<1> QED BY <1>3, <1>6, <1>7

LEMMA ApartSteps ==
  ASSUME LibraryTypes, RowsApart, Next
  PROVE  RowsApart'
<1>1. ASSUME UNCHANGED <<rowOf, run>> PROVE RowsApart'
  BY <1>1, ApartKept DEF NoneStarts, Known
<1>2. CASE ScanStarts \/ Hash \/ WalkEnds \/ ReconcileStarts \/ ScanEnds
  BY <1>1, <1>2 DEF ScanStarts, Hash, WalkEnds, ReconcileStarts, ScanEnds
<1>3. CASE \E p \in Paths : WalkTo(p)
  BY <1>1, <1>3 DEF WalkTo
<1>4. CASE \E item \in pending : Probe(item)
  BY <1>1, <1>4 DEF Probe
<1>5. CASE \E item \in pending : Persist(item)
  <2>1. NoneStarts
    BY <1>5, PersistIdentity, PersistKeepsMarks DEF NoneStarts, Identity
  <2> QED BY <2>1, ApartKept
<1>6. CASE \E c \in checks : Check(c)
  BY <1>1, <1>6 DEF Check
<1>7. CASE \E c \in checks : Mark(c)
  <2>1. NoneStarts
    BY <1>7, MarkIdentity, MarkMarks DEF NoneStarts, Identity
  <2> QED BY <2>1, ApartKept
<1>8. CASE Restat
  <2>0. scan.path \in Paths /\ scan.hash \in Contents /\ scan.stat \in OnDiskFiles
    BY <1>8, ScanTypes DEF Restat, ScanIsTyped
  <2>1. run' = run
    BY <1>8 DEF Restat
  <2>2. CASE disk[scan.path] = scan.stat /\ Entry([inode |-> disk[scan.path].inode, content |-> scan.hash])
    <3>1. [inode |-> disk[scan.path].inode, content |-> scan.hash] \in OnDiskFiles
      BY <2>0, <2>2 DEF OnDiskFiles
    <3> QED BY <2>0, <2>1, <2>2, <3>1, EntryApart
  <2> QED BY <1>1, <1>8, <2>1, <2>2 DEF Restat
<1>9. CASE UnverifiedEntry
  <2>0. scan.path \in Paths /\ scan.hash \in Contents /\ scan.stat \in OnDiskFiles
    BY <1>9, ScanTypes DEF UnverifiedEntry, ScanIsTyped
  <2>1. [inode |-> scan.stat.inode, content |-> scan.hash] \in OnDiskFiles
    BY <2>0 DEF OnDiskFiles
  <2> QED BY <1>9, <2>0, <2>1, EntryApart DEF UnverifiedEntry
<1>10. CASE \E r \in Rows : Verify(r)
  BY <1>1, <1>10 DEF Verify
<1>11. CASE (\E r \in Rows : Claim(r)) \/ Forget \/ Record
  BY <1>11, ClaimApart, ForgetApart, RecordApart
<1>12. CASE \E p \in Paths : \E f \in Files : Replace(p, f)
  <2>1. PICK p \in Paths, f \in Files : Replace(p, f)
    BY <1>12
  <2>2. Known' = Known /\ rowOf' = rowOf /\ run'.row = run.row
    BY <2>1 DEF Replace, LibraryTypes, Known
  <2> QED BY <2>2 DEF RowsApart, RowsDiffer, OnlyRunRuns
<1>13. CASE Mount \/ (\E p \in Paths : Unlink(p)) \/ (\E p \in Paths : \E f \in Files : Write(p, f))
            \/ (\E p, q \in Paths : Move(p, q))
  BY <1>1, <1>13 DEF Mount, Unlink, Write, Move, UserActs
<1> QED BY <1>2, <1>3, <1>4, <1>5, <1>6, <1>7, <1>8, <1>9, <1>10, <1>11, <1>12, <1>13 DEF Next

Reading   == scan.at \in {"hash", "restat", "upsert"}
Passed(p) == p \notin scan.todo /\ ~ (Reading /\ p = scan.path)

ReadIsTrue ==
  Reading => /\ OnDisk(scan.path) /\ scan.stat = disk[scan.path] /\ scan.path \notin scan.todo
             /\ scan.at # "hash" => scan.hash = disk[scan.path].content

SeenAreTrue ==
  \A r \in seen : /\ r \in Known /\ ~ rowOf[r].missing
                  /\ OnDisk(rowOf[r].path) /\ Passed(rowOf[r].path)
                  /\ rowOf[r].inode = disk[rowOf[r].path].inode
                  /\ rowOf[r].content = disk[rowOf[r].path].content

PassedAreSeen == \A p \in Paths : OnDisk(p) /\ Passed(p) => \E r \in seen : rowOf[r].path = p

UnseenAreChecked ==
  scan.at = "reconcile" /\ RootHasEntries =>
    \A r \in Known \ seen : rowOf[r].missing \/ OnDisk(rowOf[r].path) \/ <<r, rowOf[r].path>> \in checks

WalkIsTrue ==
  /\ ReadIsTrue /\ SeenAreTrue /\ PassedAreSeen /\ UnseenAreChecked
  /\ scan.at \in {"probe", "reconcile"} => scan.todo = {}

Calm == quiet /\ run = NoRun /\ scan.at # "idle"

ChecksAreUnseen == (checks # {} => scan.at = "reconcile") /\ \A c \in checks : c[1] \notin seen

ExactInv == ChecksAreUnseen /\ (Calm => WalkIsTrue)

LEMMA ExactEnough ==
  ASSUME LibraryTypes, RowsApart, ExactInv
  PROVE  QuietScanIsExact
<1> SUFFICES ASSUME scan.at = "reconcile", checks = {}, quiet, run = NoRun
             PROVE  /\ \A p \in Paths : OnDisk(p) => Cardinality(RowsAt(p)) = 1
                    /\ RootHasEntries => \A r \in Known : rowOf[r].missing \/ OnDisk(rowOf[r].path)
  BY DEF QuietScanIsExact
<1>1. SeenAreTrue /\ PassedAreSeen /\ UnseenAreChecked /\ scan.todo = {} /\ ~ Reading
  BY DEF ExactInv, Calm, WalkIsTrue, Reading
<1>2. ASSUME NEW p \in Paths, OnDisk(p) PROVE Cardinality(RowsAt(p)) = 1
  <2>1. PICK r \in seen : rowOf[r].path = p
    BY <1>1, <1>2 DEF PassedAreSeen, Passed
  <2>2. r \in RowsAt(p)
    BY <1>1, <2>1 DEF SeenAreTrue, RowsAt
  <2>3. RowsAt(p) = {r}
    BY <2>2 DEF RowsAt, RowsApart, RowsDiffer
  <2> QED BY <2>3, FS_Singleton
<1>3. ASSUME RootHasEntries, NEW r \in Known PROVE rowOf[r].missing \/ OnDisk(rowOf[r].path)
  BY <1>1, <1>3 DEF SeenAreTrue, UnseenAreChecked
<1> QED BY <1>2, <1>3

LEMMA ElsewhereIs ==
  ASSUME LibraryTypes, NEW step, scan' = Elsewhere(step)
  PROVE  scan'.at = step /\ scan'.todo = scan.todo /\ scan'.path = "none"
BY ScanTypes DEF Elsewhere

\* The read file gets its row, and no row that was seen loses its file to it.
LEMMA CalmEntry ==
  ASSUME LibraryTypes, RowsApart, FilesDiffer, WalkIsTrue, run = NoRun, Reading, scan.path \in Paths,
         NEW f, f = disk[scan.path], Entry(f), UNCHANGED <<disk, mounted>>
  PROVE  WalkIsTrue'
<1> SUFFICES ASSUME NEW s, s = scan.path PROVE WalkIsTrue'
  OBVIOUS
<1>0. s \in Paths /\ f = disk[s] /\ OnDisk(s) /\ s \notin scan.todo /\ f \in OnDiskFiles
      /\ SeenAreTrue /\ PassedAreSeen
  BY SomethingThere DEF WalkIsTrue, ReadIsTrue, OnDisk
<1>1. ~ InFlightOutput(s)
  BY DaemonAssumption DEF InFlightOutput, RowsApart, OnlyRunRuns, NoRun, Known
<1>2. Upsert(s, f) /\ scan' = Elsewhere("walk")
  BY <1>1 DEF Entry
<1>3. PICK r \in Rows : /\ Written(r, s, f)
                        /\ Existing(f) = {} => r \notin Known \cup seen /\ r # run.row
                        /\ Existing(f) # {} => r \in Existing(f)
  BY <1>0, <1>2, UpsertWrites
<1>4. scan'.at = "walk" /\ scan'.todo = scan.todo
  BY <1>2, ElsewhereIs
<1>5. ~ Reading' /\ \A p : Passed(p)' <=> p \notin scan.todo
  BY <1>4 DEF Reading, Passed
<1>6. \A p : OnDisk(p)' <=> OnDisk(p)
  BY DEF OnDisk
<1>7. ASSUME NEW q \in seen
      PROVE  /\ q # r /\ rowOf[q].inode # f.inode
             /\ q \in Known' /\ rowOf'[q].path = rowOf[q].path /\ rowOf'[q].content = rowOf[q].content
             /\ rowOf'[q].missing = rowOf[q].missing /\ rowOf'[q].inode = rowOf[q].inode
  <2>1. /\ q \in Known /\ OnDisk(rowOf[q].path) /\ rowOf[q].path # s /\ rowOf[q].path \in Paths
        /\ rowOf[q].inode = disk[rowOf[q].path].inode /\ rowOf[q].content = disk[rowOf[q].path].content
    BY <1>0, KnownRows DEF SeenAreTrue, Passed, RowRecord
  <2>2. rowOf[q].inode # f.inode /\ rowOf[q].content # f.content
    BY <1>0, <2>1 DEF FilesDiffer, OnDisk
  <2>3. q # r
    BY <1>3, <2>1, <2>2 DEF Existing, ByInode, ByContent
  <2> QED BY <1>3, <2>1, <2>2, <2>3 DEF Written
<1>8. r \in Known' /\ rowOf'[r].path = s /\ rowOf'[r].inode = f.inode /\ rowOf'[r].content = f.content
      /\ ~ rowOf'[r].missing /\ seen' = seen \cup {r}
  BY <1>3 DEF Written
<1>9. SeenAreTrue'
  <2> SUFFICES ASSUME NEW q \in seen'
               PROVE  /\ q \in Known' /\ ~ rowOf'[q].missing
                      /\ OnDisk(rowOf'[q].path) /\ rowOf'[q].path \notin scan.todo
                      /\ rowOf'[q].inode = disk[rowOf'[q].path].inode
                      /\ rowOf'[q].content = disk[rowOf'[q].path].content
    BY <1>5 DEF SeenAreTrue, Passed, OnDisk
  <2>1. CASE q = r
    BY <1>0, <1>6, <1>8, <2>1
  <2>2. CASE q \in seen
    <3>1. /\ q \in Known /\ ~ rowOf[q].missing /\ OnDisk(rowOf[q].path) /\ rowOf[q].path \notin scan.todo
          /\ rowOf[q].inode = disk[rowOf[q].path].inode /\ rowOf[q].content = disk[rowOf[q].path].content
      BY <1>0, <2>2 DEF SeenAreTrue, Passed
    <3> QED BY <1>6, <1>7, <2>2, <3>1
  <2> QED BY <1>8, <2>1, <2>2
<1>10. PassedAreSeen'
  <2> SUFFICES ASSUME NEW p \in Paths, OnDisk(p), p \notin scan.todo PROVE \E q \in seen' : rowOf'[q].path = p
    BY <1>5, <1>6 DEF PassedAreSeen
  <2>1. CASE p = s
    BY <1>8, <2>1
  <2>2. CASE p # s
    <3>1. PICK q \in seen : rowOf[q].path = p
      BY <1>0, <2>2 DEF PassedAreSeen, Passed
    <3> QED BY <1>7, <1>8, <3>1
  <2> QED BY <2>1, <2>2
<1> QED BY <1>4, <1>5, <1>9, <1>10 DEF WalkIsTrue, ReadIsTrue, UnseenAreChecked

\* A step that changes neither what the scan knows nor what it is true of.
LEMMA SameWalk ==
  ASSUME LibraryTypes, ExactInv, UNCHANGED <<disk, mounted, seen, checks, run, quiet>>,
         scan'.at = scan.at, scan'.todo = scan.todo, scan'.path = scan.path,
         scan'.stat = scan.stat, scan'.hash = scan.hash, Known' = Known,
         \A r \in Known : /\ rowOf'[r].path = rowOf[r].path /\ rowOf'[r].missing = rowOf[r].missing
                          /\ rowOf'[r].content = rowOf[r].content /\ rowOf'[r].inode = rowOf[r].inode
  PROVE  ExactInv'
<1>1. ChecksAreUnseen'
  BY DEF ExactInv, ChecksAreUnseen
<1>2. ASSUME Calm' PROVE WalkIsTrue'
  <2>1. ReadIsTrue /\ SeenAreTrue /\ PassedAreSeen /\ UnseenAreChecked
        /\ (scan.at \in {"probe", "reconcile"} => scan.todo = {})
    BY <1>2 DEF Calm, ExactInv, WalkIsTrue
  <2>2. Reading' = Reading /\ (\A p : OnDisk(p)' <=> OnDisk(p)) /\ (\A p : Passed(p)' <=> Passed(p))
    BY DEF Reading, OnDisk, Passed
  <2>3. ReadIsTrue'
    BY <2>1, <2>2 DEF ReadIsTrue, OnDisk, Reading
  <2>4. SeenAreTrue'
    BY <2>1, <2>2 DEF SeenAreTrue, OnDisk, Passed, Reading
  <2>5. PassedAreSeen'
    BY <2>1, <2>2 DEF PassedAreSeen, SeenAreTrue, OnDisk, Passed, Reading
  <2>6. UnseenAreChecked'
    BY <2>1 DEF UnseenAreChecked, RootHasEntries, OnDisk
  <2> QED BY <2>1, <2>3, <2>4, <2>5, <2>6 DEF WalkIsTrue
<1> QED BY <1>1, <1>2 DEF ExactInv

LEMMA CalmGoesOn ==
  ASSUME ExactInv, Calm', scan.at # "idle", run' = run, quiet' => quiet
  PROVE  WalkIsTrue /\ run = NoRun
BY DEF ExactInv, Calm

LEMMA WalkToExact ==
  ASSUME LibraryTypes, ExactInv, NEW p \in Paths, WalkTo(p)
  PROVE  ExactInv'
<1>0. /\ scan.at = "walk" /\ p \in scan.todo
      /\ UNCHANGED <<disk, mounted, rowOf, seen, checks, run, quiet>>
  BY DEF WalkTo
<1>1. \/ /\ OnDisk(p) /\ scan'.at = "hash" /\ scan'.todo = scan.todo \ {p} /\ scan'.path = p
         /\ scan'.stat = disk[p]
      \/ ~ OnDisk(p) /\ scan'.at = "walk" /\ scan'.todo = scan.todo \ {p}
  BY <1>0, ScanTypes DEF WalkTo
<1>2. ChecksAreUnseen'
  BY <1>0, <1>1 DEF ExactInv, ChecksAreUnseen
<1>3. ASSUME Calm' PROVE WalkIsTrue'
  <2>1. WalkIsTrue
    BY <1>0, <1>3, CalmGoesOn
  <2>2. ~ Reading /\ (\A q : OnDisk(q)' <=> OnDisk(q))
    BY <1>0 DEF Reading, OnDisk
  <2>3. \A q : OnDisk(q) => (Passed(q)' <=> Passed(q))
    BY <1>0, <1>1, <2>2 DEF Passed, Reading
  <2>4. ReadIsTrue'
    BY <1>0, <1>1 DEF ReadIsTrue, Reading, OnDisk
  <2>5. SeenAreTrue'
    BY <1>0, <2>1, <2>2, <2>3 DEF WalkIsTrue, SeenAreTrue, Known
  <2>6. PassedAreSeen'
    BY <1>0, <2>1, <2>2, <2>3 DEF WalkIsTrue, PassedAreSeen
  <2> QED BY <1>1, <2>4, <2>5, <2>6 DEF WalkIsTrue, UnseenAreChecked
<1> QED BY <1>2, <1>3 DEF ExactInv

LEMMA HashExact ==
  ASSUME LibraryTypes, ExactInv, Hash
  PROVE  ExactInv'
<1>0. scan.at = "hash" /\ UNCHANGED <<disk, mounted, rowOf, seen, checks, run, quiet>>
  BY DEF Hash
<1>2. ChecksAreUnseen'
  BY <1>0 DEF ExactInv, ChecksAreUnseen
<1>3. ASSUME Calm' PROVE WalkIsTrue'
  <2>1. WalkIsTrue /\ OnDisk(scan.path)
    BY <1>0, <1>3, CalmGoesOn DEF WalkIsTrue, ReadIsTrue, Reading
  <2>2. /\ scan'.at \in {"restat", "upsert"} /\ scan'.todo = scan.todo /\ scan'.path = scan.path
        /\ scan'.stat = scan.stat /\ scan'.hash = disk[scan.path].content
    <3>1. scan' = [scan EXCEPT !.hash = disk[scan.path].content,
                               !.at = IF scan.tries >= 3 THEN "upsert" ELSE "restat"]
      BY <2>1 DEF Hash
    <3> QED BY <3>1, ScanTypes
  <2>3. Reading /\ Reading' /\ (\A q : OnDisk(q)' <=> OnDisk(q)) /\ \A q : (Passed(q)' <=> Passed(q))
    BY <1>0, <2>2 DEF Reading, OnDisk, Passed
  <2>4. ReadIsTrue'
    BY <1>0, <2>1, <2>2, <2>3 DEF WalkIsTrue, ReadIsTrue, OnDisk
  <2>5. SeenAreTrue'
    BY <1>0, <2>1, <2>3 DEF WalkIsTrue, SeenAreTrue, Known
  <2>6. PassedAreSeen'
    BY <1>0, <2>1, <2>3 DEF WalkIsTrue, PassedAreSeen
  <2> QED BY <2>2, <2>4, <2>5, <2>6 DEF WalkIsTrue, UnseenAreChecked
<1> QED BY <1>2, <1>3 DEF ExactInv

LEMMA EntryExact ==
  ASSUME LibraryTypes, RowsApart, FilesDiffer, ExactInv, Restat \/ UnverifiedEntry
  PROVE  ExactInv'
<1>0. /\ scan.at \in {"restat", "upsert"} /\ UNCHANGED <<disk, mounted, checks, run, quiet>>
      /\ scan.path \in Paths
  BY ScanTypes DEF Restat, UnverifiedEntry, ScanIsTyped
<1>1. ChecksAreUnseen'
  <2>1. checks = {}
    BY <1>0 DEF ExactInv, ChecksAreUnseen
  <2> QED BY <1>0, <2>1 DEF ChecksAreUnseen
<1>2. ASSUME Calm' PROVE WalkIsTrue'
  <2>1. WalkIsTrue /\ run = NoRun
    BY <1>0, <1>2, CalmGoesOn
  <2>2. /\ Reading /\ OnDisk(scan.path) /\ scan.stat = disk[scan.path]
        /\ scan.hash = disk[scan.path].content
    BY <1>0, <2>1 DEF WalkIsTrue, ReadIsTrue, Reading
  <2>3. disk[scan.path] \in OnDiskFiles
    BY <1>0, <2>2, SomethingThere DEF OnDisk
  <2> DEFINE f == [inode |-> disk[scan.path].inode, content |-> disk[scan.path].content]
  <2>4. f = disk[scan.path]
    BY <2>3 DEF OnDiskFiles
  <2>5. Entry(f)
    BY <1>0, <2>2 DEF Restat, UnverifiedEntry
  <2> HIDE DEF f
  <2> QED BY <1>0, <2>1, <2>2, <2>4, <2>5, CalmEntry
<1> QED BY <1>1, <1>2 DEF ExactInv

LEMMA WalkEndsExact ==
  ASSUME LibraryTypes, ExactInv, WalkEnds
  PROVE  ExactInv'
<1>0. /\ scan.at = "walk" /\ scan.todo = {} /\ UNCHANGED <<disk, mounted, rowOf, seen, checks, run, quiet>>
      /\ scan'.at = "probe" /\ scan'.todo = scan.todo
  BY ElsewhereIs DEF WalkEnds
<1>1. ChecksAreUnseen'
  BY <1>0 DEF ExactInv, ChecksAreUnseen
<1>2. ASSUME Calm' PROVE WalkIsTrue'
  <2>1. WalkIsTrue
    BY <1>0, <1>2, CalmGoesOn
  <2>2. (\A q : OnDisk(q)' <=> OnDisk(q)) /\ (\A q : Passed(q)' <=> Passed(q)) /\ ~ Reading'
    BY <1>0 DEF OnDisk, Passed, Reading
  <2>3. SeenAreTrue'
    BY <1>0, <2>1, <2>2 DEF WalkIsTrue, SeenAreTrue, Known
  <2>4. PassedAreSeen'
    BY <1>0, <2>1, <2>2 DEF WalkIsTrue, PassedAreSeen
  <2> QED BY <1>0, <2>2, <2>3, <2>4 DEF WalkIsTrue, ReadIsTrue, UnseenAreChecked
<1> QED BY <1>1, <1>2 DEF ExactInv

\* Every row that was not seen is marked already or is checked, but those of an unavailable root.
LEMMA ReconcileStartsExact ==
  ASSUME LibraryTypes, RowsApart, ExactInv, ReconcileStarts
  PROVE  ExactInv'
<1>0. /\ scan.at = "probe" /\ UNCHANGED <<disk, mounted, rowOf, seen, run, quiet>>
      /\ scan' = [scan EXCEPT !.at = "reconcile"]
      /\ checks' = IF RootHasEntries
                   THEN {<<r, rowOf[r].path>> : r \in {r \in Known \ seen :
                           ~ rowOf[r].missing /\ rowOf[r].state # "running"}}
                   ELSE {}
  BY DEF ReconcileStarts
<1>1. scan'.at = "reconcile" /\ scan'.todo = scan.todo
  BY <1>0, ScanTypes
<1>2. ChecksAreUnseen'
  BY <1>0, <1>1 DEF ChecksAreUnseen
<1>3. ASSUME Calm' PROVE WalkIsTrue'
  <2>1. WalkIsTrue /\ run = NoRun
    BY <1>0, <1>3, CalmGoesOn
  <2>2. (\A q : OnDisk(q)' <=> OnDisk(q)) /\ (\A q : Passed(q)' <=> Passed(q)) /\ ~ Reading'
    BY <1>0, <1>1 DEF OnDisk, Passed, Reading
  <2>3. SeenAreTrue'
    BY <1>0, <2>1, <2>2 DEF WalkIsTrue, SeenAreTrue, Known
  <2>4. PassedAreSeen'
    BY <1>0, <2>1, <2>2 DEF WalkIsTrue, PassedAreSeen
  <2>5. \A r \in Known : rowOf[r].state # "running"
    BY <2>1, DaemonAssumption DEF RowsApart, OnlyRunRuns, NoRun, Known
  <2>6. UnseenAreChecked'
    <3> SUFFICES ASSUME RootHasEntries, NEW r \in Known \ seen, ~ rowOf[r].missing
                 PROVE  <<r, rowOf[r].path>> \in checks'
      BY <1>0 DEF UnseenAreChecked, RootHasEntries, Known
    <3> QED BY <1>0, <2>5
  <2> QED BY <1>0, <1>1, <2>1, <2>2, <2>3, <2>4, <2>6 DEF WalkIsTrue, ReadIsTrue
<1> QED BY <1>2, <1>3 DEF ExactInv

LEMMA CheckExact ==
  ASSUME LibraryTypes, ExactInv, NEW c \in checks, Check(c)
  PROVE  ExactInv'
<1>0. scan.at = "reconcile" /\ UNCHANGED <<disk, mounted, rowOf, seen, run>>
  BY DEF Check
<1>1. \/ UNCHANGED <<checks, quiet>> /\ scan' = [scan EXCEPT !.path = c[2]]
      \/ checks' = checks \ {c} /\ quiet' = (quiet /\ OnDisk(c[2])) /\ scan' = scan
  BY DEF Check
<1>2. scan'.at = scan.at /\ scan'.todo = scan.todo
  BY <1>1, ScanTypes
<1>3. ChecksAreUnseen'
  BY <1>0, <1>1, <1>2 DEF ExactInv, ChecksAreUnseen
<1>4. ASSUME Calm' PROVE WalkIsTrue'
  <2>0. quiet' => quiet
    BY <1>1, Zenon
  <2>1. WalkIsTrue
    BY <1>0, <1>4, <2>0, CalmGoesOn
  <2>2. (\A q : OnDisk(q)' <=> OnDisk(q)) /\ (\A q : Passed(q)' <=> Passed(q)) /\ ~ Reading'
    BY <1>0, <1>2 DEF OnDisk, Passed, Reading
  <2>3. SeenAreTrue'
    BY <1>0, <2>1, <2>2 DEF WalkIsTrue, SeenAreTrue, Known
  <2>4. PassedAreSeen'
    BY <1>0, <2>1, <2>2 DEF WalkIsTrue, PassedAreSeen
  <2>5. \A d \in checks : d \in checks' \/ OnDisk(d[2])
    BY <1>1, <1>4 DEF Calm
  <2>6. UnseenAreChecked'
    <3> SUFFICES ASSUME RootHasEntries, NEW r \in Known \ seen, ~ rowOf[r].missing, ~ OnDisk(rowOf[r].path)
                 PROVE  <<r, rowOf[r].path>> \in checks'
      BY <1>0, <2>2 DEF UnseenAreChecked, RootHasEntries, Known
    <3>1. <<r, rowOf[r].path>> \in checks
      BY <1>0, <2>1 DEF WalkIsTrue, UnseenAreChecked
    <3> QED BY <2>5, <3>1
  <2> QED BY <1>0, <1>2, <2>1, <2>2, <2>3, <2>4, <2>6 DEF WalkIsTrue, ReadIsTrue
<1> QED BY <1>3, <1>4 DEF ExactInv

LEMMA MarkExact ==
  ASSUME LibraryTypes, RowsApart, ExactInv, NEW c \in checks, Mark(c)
  PROVE  ExactInv'
<1>0. /\ scan.at = "reconcile" /\ UNCHANGED <<disk, mounted, seen, run, quiet>>
      /\ checks' = checks \ {c} /\ scan' = [scan EXCEPT !.path = "none"]
  BY DEF Mark
<1>1. scan'.at = scan.at /\ scan'.todo = scan.todo
  BY <1>0, ScanTypes
<1>2. /\ Known' = Known
      /\ \A q \in Known : /\ rowOf'[q].path = rowOf[q].path /\ rowOf'[q].content = rowOf[q].content
                           /\ rowOf'[q].inode = rowOf[q].inode
                           /\ (q # c[1] => rowOf'[q].missing = rowOf[q].missing)
                           /\ (rowOf[q].missing => rowOf'[q].missing)
                           /\ (q = c[1] /\ rowOf[q].state # "running" /\ rowOf[q].path = c[2] => rowOf'[q].missing)
  BY MarkIdentity, MarkMarks DEF Identity
<1>3. ChecksAreUnseen'
  BY <1>0, <1>1 DEF ExactInv, ChecksAreUnseen
<1>4. ASSUME Calm' PROVE WalkIsTrue'
  <2>1. WalkIsTrue /\ run = NoRun
    BY <1>0, <1>4, CalmGoesOn
  <2>2. (\A q : OnDisk(q)' <=> OnDisk(q)) /\ (\A q : Passed(q)' <=> Passed(q)) /\ ~ Reading'
    BY <1>0, <1>1 DEF OnDisk, Passed, Reading
  <2>3. c[1] \notin seen /\ \A q \in seen : q \in Known
    BY <2>1 DEF ExactInv, ChecksAreUnseen, WalkIsTrue, SeenAreTrue
  <2>4. SeenAreTrue'
    BY <1>0, <1>2, <2>1, <2>2, <2>3 DEF WalkIsTrue, SeenAreTrue
  <2>5. PassedAreSeen'
    BY <1>0, <1>2, <2>1, <2>2, <2>3 DEF WalkIsTrue, PassedAreSeen
  <2>6. \A r \in Known : rowOf[r].state # "running"
    BY <2>1, DaemonAssumption DEF RowsApart, OnlyRunRuns, NoRun, Known
  <2>7. UnseenAreChecked'
    <3> SUFFICES ASSUME RootHasEntries, NEW r \in Known \ seen, ~ rowOf'[r].missing, ~ OnDisk(rowOf[r].path)
                 PROVE  <<r, rowOf[r].path>> \in checks'
      BY <1>0, <1>2, <2>2 DEF UnseenAreChecked, RootHasEntries
    <3>1. <<r, rowOf[r].path>> \in checks
      BY <1>0, <1>2, <2>1 DEF WalkIsTrue, UnseenAreChecked
    <3>2. <<r, rowOf[r].path>> # c
      BY <1>2, <2>6
    <3> QED BY <1>0, <3>1, <3>2
  <2> QED BY <1>0, <1>1, <2>1, <2>2, <2>4, <2>5, <2>7 DEF WalkIsTrue, ReadIsTrue
<1> QED BY <1>3, <1>4 DEF ExactInv

LEMMA ExactSteps ==
  ASSUME LibraryTypes, RowsApart, FilesDiffer, ExactInv, Next
  PROVE  ExactInv'
<1>1. CASE ScanStarts
  <2>1. /\ scan'.at = "walk" /\ scan'.todo = Paths /\ seen' = {} /\ checks' = {}
    BY <1>1 DEF ScanStarts, IdleScan
  <2>2. \A p \in Paths : ~ Passed(p)'
    BY <2>1 DEF Passed
  <2>3. WalkIsTrue'
    BY <2>1, <2>2 DEF WalkIsTrue, ReadIsTrue, Reading, SeenAreTrue, PassedAreSeen, UnseenAreChecked
  <2> QED BY <2>1, <2>3 DEF ExactInv, ChecksAreUnseen
<1>2. CASE ScanEnds
  <2>1. scan'.at = "idle" /\ checks' = {}
    BY <1>2 DEF ScanEnds, IdleScan
  <2> QED BY <2>1 DEF ExactInv, ChecksAreUnseen, Calm
<1>3. CASE Hash \/ Restat \/ UnverifiedEntry \/ WalkEnds \/ ReconcileStarts
  BY <1>3, HashExact, EntryExact, WalkEndsExact, ReconcileStartsExact
<1>4. CASE \E p \in Paths : WalkTo(p)
  BY <1>4, WalkToExact
<1>5. CASE \E item \in pending : Probe(item)
  BY <1>5, SameWalk DEF Probe, Known
<1>6. CASE \E item \in pending : Persist(item)
  <2>1. PICK item \in pending : Persist(item)
    BY <1>6
  <2>2. /\ Known' = Known
        /\ \A r \in Known : /\ rowOf'[r].path = rowOf[r].path /\ rowOf'[r].missing = rowOf[r].missing
                             /\ rowOf'[r].content = rowOf[r].content /\ rowOf'[r].inode = rowOf[r].inode
    BY <2>1, PersistIdentity, PersistKeepsMarks DEF Identity
  <2>3. UNCHANGED <<disk, mounted, seen, checks, run, quiet, scan>>
    BY <2>1 DEF Persist
  <2> QED BY <2>2, <2>3, SameWalk
<1>7. CASE \E c \in checks : Check(c) \/ Mark(c)
  BY <1>7, CheckExact, MarkExact
<1>8. CASE \E r \in Rows : Verify(r)
  BY <1>8, SameWalk DEF Verify, Known
<1>9. ASSUME UNCHANGED <<scan, seen, checks>>, quiet' = FALSE PROVE ExactInv'
  BY <1>9 DEF ExactInv, ChecksAreUnseen, Calm
<1>10. CASE (\E r \in Rows : Claim(r)) \/ Forget \/ Record
  BY <1>9, <1>10 DEF Claim, Forget, Record
<1>11. CASE \E p \in Paths : \E f \in Files : Replace(p, f)
  BY <1>9, <1>11 DEF Replace
<1>12. CASE Mount \/ (\E p \in Paths : Unlink(p)) \/ (\E p \in Paths : \E f \in Files : Write(p, f))
            \/ (\E p, q \in Paths : Move(p, q))
  BY <1>9, <1>12 DEF Mount, Unlink, Write, Move, UserActs
<1> QED BY <1>1, <1>2, <1>3, <1>4, <1>5, <1>6, <1>7, <1>8, <1>10, <1>11, <1>12 DEF Next

LEMMA ExactLasts ==
  DaemonSpec => [](LibraryTypes /\ RunKeepsItsRow /\ FilesDiffer /\ HomeInv /\ RowsApart /\ ExactInv)
<1>1. DaemonInit => RowsApart /\ ExactInv
  <2> SUFFICES ASSUME Init PROVE RowsApart /\ ExactInv
    BY DEF DaemonInit
  <2>1. Known = {} /\ checks = {} /\ scan.at = "idle"
    BY DEF Init, Known, IdleScan
  <2> QED BY <2>1 DEF RowsApart, RowsDiffer, OnlyRunRuns, ExactInv, ChecksAreUnseen, Calm
<1>2. LibraryTypes /\ FilesDiffer /\ RowsApart /\ ExactInv /\ [DaemonNext]_daemonVars => (RowsApart /\ ExactInv)'
  <2> SUFFICES ASSUME LibraryTypes, FilesDiffer, RowsApart, ExactInv, [DaemonNext]_daemonVars
               PROVE  RowsApart' /\ ExactInv'
    OBVIOUS
  <2>1. CASE Next
    BY <2>1, ApartSteps, ExactSteps
  <2>2. CASE UNCHANGED vars
    <3>1. UNCHANGED <<rowOf, disk, mounted, run, scan, seen, checks, quiet>>
      BY <2>2 DEF vars
    <3> QED BY <3>1, ApartKept, SameWalk DEF NoneStarts, Known
  <2> QED BY <2>1, <2>2 DEF DaemonNext, daemonVars
<1> QED BY <1>1, <1>2, HomeLasts, PTL DEF DaemonSpec

\* A scan during which nothing else changes anything leaves one unmarked row, at its path, for
\* each file of the library, and marks the rows of those that are gone unless the root looks
\* empty; through every interleaving a run has its row to itself, and a file has one row
\* (scan-library.ts scanLibrary, reconcile.ts reconcileMissing).
THEOREM RowsFollow == DaemonSpec => []RowsFollowTheDisk
<1>1. LibraryTypes /\ RunKeepsItsRow /\ HomeInv /\ RowsApart /\ ExactInv => RowsFollowTheDisk
  BY ExactEnough DEF RowsFollowTheDisk, HomeInv, NoGhostRow
<1> QED BY <1>1, ExactLasts, PTL


-----------------------------------------------------------------------------
(* The types of every part.                                                *)

CountTypes ==
  /\ mounted \in BOOLEAN /\ quiet \in BOOLEAN /\ reused \in BOOLEAN
  /\ users \in 0..MaxUser /\ runs \in 0..MaxRuns /\ ghosts \in Nat

\* A scan counts nothing, and may find that it is no longer alone.
LEMMA ScanCounts ==
  ASSUME CountTypes, quiet' \in BOOLEAN, reused' \in BOOLEAN, UNCHANGED <<mounted, users, runs, ghosts>>
  PROVE  CountTypes'
BY DEF CountTypes

LEMMA CountSteps == CountTypes /\ Next => CountTypes'
<1> SUFFICES ASSUME CountTypes, Next PROVE CountTypes'
  OBVIOUS
<1>0. /\ mounted \in BOOLEAN /\ reused \in BOOLEAN
      /\ users \in 0..MaxUser /\ runs \in 0..MaxRuns /\ ghosts \in Nat
  BY DEF CountTypes
<1>1. CASE \/ ScanStarts \/ Hash \/ WalkEnds \/ ReconcileStarts \/ ScanEnds
           \/ \E p \in Paths : WalkTo(p)
           \/ \E item \in pending : Probe(item) \/ Persist(item)
           \/ \E c \in checks : Mark(c)
           \/ \E r \in Rows : Verify(r)
  <2>1. UNCHANGED <<mounted, users, runs, ghosts, reused>> /\ quiet' \in {quiet, TRUE}
    BY <1>1 DEF ScanStarts, Hash, WalkEnds, ReconcileStarts, ScanEnds, WalkTo, Probe, Persist, Mark, Verify
  <2> QED BY <2>1, ScanCounts DEF CountTypes
<1>2. CASE \E c \in checks : Check(c)
  <2>1. PICK c \in checks : Check(c)
    BY <1>2
  <2>2. UNCHANGED <<mounted, users, runs, ghosts, reused>> /\ (quiet' = quiet \/ quiet' = (quiet /\ OnDisk(c[2])))
    BY <2>1 DEF Check
  <2>3. quiet' \in BOOLEAN
    BY <2>2, Zenon DEF CountTypes
  <2> QED BY <2>2, <2>3, ScanCounts DEF CountTypes
<1>3. CASE Restat \/ UnverifiedEntry
  <2>1. /\ UNCHANGED <<mounted, users, runs, ghosts, quiet>>
        /\ reused' = reused \/ \E f : reused' = (reused \/ f # disk[scan.path])
    BY <1>3 DEF Restat, UnverifiedEntry, Entry
  <2>2. reused' \in BOOLEAN
    BY <2>1, Zenon DEF CountTypes
  <2> QED BY <2>1, <2>2, ScanCounts DEF CountTypes
<1>4. CASE Forget
  BY <1>4, ScanCounts DEF Forget, CountTypes
<1>5. CASE \E r \in Rows : Claim(r)
  <2>1. UNCHANGED <<mounted, users, ghosts, reused>> /\ quiet' = FALSE /\ runs < MaxRuns /\ runs' = runs + 1
    BY <1>5 DEF Claim
  <2>2. users' \in 0..MaxUser /\ runs' \in 0..MaxRuns /\ ghosts' \in Nat
    BY <1>0, <2>1, DaemonAssumption
  <2> QED BY <1>0, <2>1, <2>2, Zenon DEF CountTypes
<1>6. CASE \E p \in Paths : \E f \in Files : Replace(p, f)
  <2>1. PICK p \in Paths, f \in Files : Replace(p, f)
    BY <1>6
  <2>2. /\ UNCHANGED <<mounted, users, runs, ghosts>> /\ quiet' = FALSE
        /\ reused' = (reused \/ f.inode \in RowInodes \/ (p # run.path /\ Named(p)))
    BY <2>1 DEF Replace
  <2>3. reused' \in BOOLEAN
    BY <2>2, Zenon
  <2> QED BY <2>2, <2>3, ScanCounts
<1>7. CASE Record
  <2>1. UNCHANGED <<mounted, users, runs, reused>> /\ quiet' = FALSE /\ ghosts' \in {ghosts, ghosts + 1}
    BY <1>7 DEF Record
  <2>2. users' \in 0..MaxUser /\ runs' \in 0..MaxRuns /\ ghosts' \in Nat
    BY <1>0, <2>1
  <2> QED BY <1>0, <2>1, <2>2, Zenon DEF CountTypes
<1>8. ASSUME UserActs, mounted' \in BOOLEAN, reused' \in BOOLEAN PROVE CountTypes'
  <2>1. users < MaxUser /\ users' = users + 1 /\ quiet' = FALSE /\ UNCHANGED <<runs, ghosts>>
    BY <1>8 DEF UserActs
  <2>2. users' \in 0..MaxUser /\ runs' \in 0..MaxRuns /\ ghosts' \in Nat
    BY <1>0, <2>1, DaemonAssumption
  <2> QED BY <1>8, <2>1, <2>2, Zenon DEF CountTypes
<1>9. CASE Mount
  <2>1. mounted' = ~ mounted /\ reused' = reused /\ UserActs
    BY <1>9 DEF Mount
  <2>2. mounted' \in BOOLEAN
    BY <2>1, Zenon
  <2> QED BY <1>8, <2>1, <2>2 DEF CountTypes
<1>10. CASE \E p \in Paths : Unlink(p)
  <2>1. UNCHANGED <<mounted, reused>> /\ UserActs
    BY <1>10 DEF Unlink
  <2> QED BY <1>8, <2>1 DEF CountTypes
<1>11. CASE \E p, q \in Paths : Move(p, q)
  <2>1. PICK q \in Paths : mounted' = mounted /\ reused' = (reused \/ Named(q)) /\ UserActs
    BY <1>11 DEF Move
  <2>2. reused' \in BOOLEAN
    BY <2>1, Zenon
  <2> QED BY <1>8, <2>1, <2>2 DEF CountTypes
<1>12. CASE \E p \in Paths : \E f \in Files : Write(p, f)
  <2>1. PICK p \in Paths, f \in Files : /\ mounted' = mounted /\ UserActs
                                       /\ reused' = (reused \/ Named(p) \/ f.inode \in RowInodes)
    BY <1>12 DEF Write
  <2>2. reused' \in BOOLEAN
    BY <2>1, Zenon
  <2> QED BY <1>8, <2>1, <2>2 DEF CountTypes
<1> QED BY <1>1, <1>2, <1>3, <1>4, <1>5, <1>6, <1>7, <1>9, <1>10, <1>11, <1>12 DEF Next

LEMMA LibraryIsTyped == LibraryTypes /\ CountTypes => TypeOK
<1> SUFFICES ASSUME LibraryTypes, CountTypes PROVE TypeOK
  OBVIOUS
<1>1. OnDiskFiles \cup {NoFile} \subseteq Files
  BY DEF OnDiskFiles, Files, NoFile
<1>2. disk \in [Paths -> Files]
  BY <1>1 DEF LibraryTypes
<1>3. scan \in ScanRecord
  BY <1>1 DEF LibraryTypes, ScanIsTyped, ScanRecord
<1>4. \A r \in Known : rowOf[r] \in RowRecord
  BY KnownRows
<1> QED BY <1>2, <1>3, <1>4 DEF TypeOK, LibraryTypes, CountTypes, ItemRec

\* When the node was refused lately.
RefusalTypes == refusals \in Seq(0..MaxTime) /\ Len(refusals) <= RefusalsToAlert

\* What is left of a sequence from its m-th element on.
LEMMA Rest ==
  ASSUME NEW S, NEW times \in Seq(S), NEW m \in Int, 1 <= m
  PROVE  /\ SubSeq(times, m, Len(times)) \in Seq(S)
         /\ Len(SubSeq(times, m, Len(times))) = IF m <= Len(times) THEN Len(times) - m + 1 ELSE 0
<1>1. Len(times) \in Int /\ \A i \in m..Len(times) : times[i] \in S
  OBVIOUS
<1> QED BY <1>1, SubSeqProperties

LEMMA RecentTypes ==
  ASSUME NEW S, NEW times \in Seq(S), NEW t
  PROVE  News!Recent(times, t) \in Seq(S) /\ Len(News!Recent(times, t)) <= Len(times)
<1> DEFINE passed == {n \in DOMAIN times : t - times[n] > RefusalWindow}
<1>1. Len(times) \in Nat /\ DOMAIN times = 1..Len(times)
  OBVIOUS
<1>2. IsFiniteSet(1..Len(times)) /\ Cardinality(1..Len(times)) = Len(times)
  BY <1>1, FS_Interval
<1>3. Cardinality(passed) \in Nat /\ Cardinality(passed) <= Len(times)
  BY <1>1, <1>2, FS_Subset, FS_CardinalityType
<1>4. News!Recent(times, t) = SubSeq(times, Cardinality(passed) + 1, Len(times))
  BY DEF News!Recent, News!Cardinality, Cardinality
<1> HIDE DEF passed
<1> DEFINE m == Cardinality(passed) + 1
<1>5. m \in Int /\ 1 <= m
  BY <1>3
<1>6. News!Recent(times, t) = SubSeq(times, m, Len(times))
  BY <1>4
<1> HIDE DEF m
<1> QED BY <1>1, <1>5, <1>6, Rest

LEMMA LastTypes ==
  ASSUME NEW S, NEW times \in Seq(S), NEW n \in Nat
  PROVE  News!LastOf(times, n) \in Seq(S) /\ Len(News!LastOf(times, n)) <= n
<1>1. Len(times) \in Nat
  OBVIOUS
<1>2. CASE Len(times) > n
  <2> DEFINE m == Len(times) - n + 1
  <2>1. m \in Int /\ 1 <= m /\ (m <= Len(times) => Len(times) - m + 1 = n) /\ 0 <= n
    BY <1>1, <1>2
  <2>2. News!LastOf(times, n) = SubSeq(times, m, Len(times))
    BY <1>2 DEF News!LastOf
  <2> HIDE DEF m
  <2> QED BY <1>1, <2>1, <2>2, Rest
<1>3. CASE ~ (Len(times) > n)
  BY <1>1, <1>3 DEF News!LastOf
<1> QED BY <1>2, <1>3

LEMMA RefusalSteps == NewsTypes /\ RefusalTypes /\ [News!AlertsNext]_newsVars => RefusalTypes'
<1> SUFFICES ASSUME NewsTypes, RefusalTypes, [News!AlertsNext]_newsVars PROVE RefusalTypes'
  OBVIOUS
<1>0. RefusalsToAlert \in Nat /\ now \in 0..MaxTime
  BY DaemonAssumption DEF NewsTypes
<1>1. CASE refusals' = refusals
  BY <1>1 DEF RefusalTypes
<1>2. CASE refusals' = << >>
  BY <1>0, <1>2 DEF RefusalTypes
<1>3. CASE News!NodeRefused
  <2>1. \/ refusals' = refusals
        \/ refusals' = News!LastOf(Append(News!Recent(refusals, now), now), RefusalsToAlert)
    BY <1>3 DEF News!NodeRefused
  <2>2. Append(News!Recent(refusals, now), now) \in Seq(0..MaxTime)
    BY <1>0, RecentTypes DEF RefusalTypes
  <2> QED BY <1>0, <1>1, <2>1, <2>2, LastTypes DEF RefusalTypes
<1>4. CASE News!Tick
  <2>1. refusals' = News!Recent(refusals, now + 1)
    BY <1>4 DEF News!Tick
  <2>2. Len(News!Recent(refusals, now + 1)) \in Nat /\ Len(refusals) \in Nat
    BY RecentTypes DEF RefusalTypes
  <2> QED BY <1>0, <2>1, <2>2, RecentTypes DEF RefusalTypes
<1>5. CASE News!NodeOffline \/ News!NodeOnline \/ News!RemoveNode \/ News!FileFails \/ UNCHANGED newsVars
  BY <1>1, <1>2, <1>5 DEF News!NodeOffline, News!NodeOnline, News!RemoveNode, News!FileFails, newsVars
<1> QED BY <1>3, <1>4, <1>5 DEF News!AlertsNext

\* How much waits in the socket, and for how long the screen may.
TrafficTypes == Len(channel) <= CutAbove + 1 /\ stale \in Nat /\ debounced \in Nat /\ due \in 0..Delay

LEMMA EmitTypes ==
  ASSUME LiveTypes, TrafficTypes, NEW f \in FrameRec, Live!Emit(f)
  PROVE  Len(channel') <= CutAbove + 1
<1>a. channel \in Seq(FrameRec)
  BY DEF LiveTypes
<1>0. channel \in Seq(FrameRec) /\ Len(channel) \in Nat /\ CutAbove \in Nat
  BY <1>a, DaemonAssumption
<1>1. CASE channel' = channel
  BY <1>1 DEF TrafficTypes
<1>2. CASE \E k \in 0..Len(channel) : channel' = SubSeq(channel, 1, k)
  BY <1>0, <1>2 DEF TrafficTypes
<1>3. CASE Len(channel) <= CutAbove /\ channel' = Append(channel, f)
  BY <1>0, <1>3
<1> QED BY <1>1, <1>2, <1>3 DEF Live!Emit, Live!socket

LEMMA TrafficSteps ==
  LiveTypes /\ InTime /\ TrafficTypes /\ [Live!LiveNext]_screenVars => TrafficTypes'
<1> SUFFICES ASSUME LiveTypes, InTime, TrafficTypes, [Live!LiveNext]_screenVars PROVE TrafficTypes'
  OBVIOUS
<1>a. channel \in Seq(FrameRec)
  BY DEF LiveTypes
<1>b. CutAbove \in Nat /\ Delay \in Nat /\ MaxWait \in Nat
  BY DaemonAssumption
<1>c. waited \in Nat /\ waited <= MaxWait
  BY <1>b DEF InTime
<1>0. /\ channel \in Seq(FrameRec) /\ Len(channel) \in Nat /\ CutAbove \in Nat /\ Len(<< >>) = 0
      /\ Delay \in Nat /\ MaxWait \in Nat /\ waited \in Nat /\ waited <= MaxWait
  BY <1>a, <1>b, <1>c
<1>1. ASSUME NEW v \in Nat, Live!Observe(v) PROVE debounced' \in Nat /\ due' \in 0..Delay
  BY <1>0, <1>1 DEF Live!Observe, Live!NextDelay, Live!Lesser, TrafficTypes
<1>2. ASSUME NEW j \in Live!Tasks, Live!JobStarts(j) \/ Live!JobProgresses(j) \/ Live!JobEnds(j) PROVE TrafficTypes'
  <2>1. UNCHANGED <<stale, debounced, due>>
    BY <1>2 DEF Live!JobStarts, Live!JobProgresses, Live!JobEnds, Live!live, Live!timer
  <2>2. PICK type \in {"started", "progress", "finished"} : Live!Emit(Live!Frame(type, j))
    BY <1>2 DEF Live!JobStarts, Live!JobProgresses, Live!JobEnds
  <2>3. Live!Frame(type, j) \in FrameRec
    BY DEF Live!Frame, FrameRec
  <2> QED BY <2>1, <2>2, <2>3, EmitTypes DEF TrafficTypes
<1>3. CASE Live!LinkCut
  <2>1. UNCHANGED <<stale, debounced, due>> /\ \E k \in 0..Len(channel) : channel' = SubSeq(channel, 1, k)
    BY <1>3 DEF Live!LinkCut, Live!live, Live!timer
  <2> QED BY <1>0, <2>1 DEF TrafficTypes
<1>4. CASE Live!Connect
  <2>1. UNCHANGED <<stale, debounced, due>> /\ channel' = << >>
    BY <1>4 DEF Live!Connect, Live!live, Live!timer
  <2> QED BY <1>0, <2>1 DEF TrafficTypes
<1>5. CASE Live!Read
  <2>1. channel' = Tail(channel) /\ channel # << >>
    BY <1>5 DEF Live!Read
  <2>2. \/ UNCHANGED <<stale, debounced, due>>
        \/ stale' = stale + 1 /\ Live!Observe(stale + 1)
    BY <1>5 DEF Live!Read, Live!ReadStarted, Live!ReadProgress, Live!ReadFinished, Live!live, Live!timer
  <2>3. Len(channel') <= CutAbove + 1
    BY <1>0, <2>1 DEF TrafficTypes
  <2>4. stale' \in Nat /\ debounced' \in Nat /\ due' \in 0..Delay
    BY <1>1, <2>2 DEF TrafficTypes
  <2> QED BY <2>3, <2>4 DEF TrafficTypes
<1>6. CASE Live!Close
  <2>1. channel' = channel /\ stale' = 0 /\ Live!Observe(0)
    BY <1>6 DEF Live!Close
  <2> QED BY <1>1, <2>1 DEF TrafficTypes
<1>7. CASE Live!Fire
  BY <1>0, <1>7 DEF Live!Fire, Live!socket, Live!live, TrafficTypes
<1>8. CASE Live!Tick
  <2>1. due' = due - 1 /\ due > 0 /\ UNCHANGED <<channel, stale, debounced>>
    BY <1>8 DEF Live!Tick, Live!socket, Live!live
  <2> QED BY <1>0, <2>1 DEF TrafficTypes
<1>9. CASE Live!Answer \/ Live!Arrive \/ Live!FetchFails \/ Live!Retry \/ Live!Resize \/ UNCHANGED screenVars
  <2>1. UNCHANGED <<channel, stale, debounced, due>>
    BY <1>9 DEF Live!Answer, Live!Arrive, Live!FetchFails, Live!Retry, Live!Resize, Live!socket, Live!live,
                Live!timer, screenVars
  <2> QED BY <2>1 DEF TrafficTypes
<1> QED BY <1>2, <1>3, <1>4, <1>5, <1>6, <1>7, <1>8, <1>9 DEF Live!LiveNext

LEMMA TypesStart == DaemonInit => CountTypes /\ RefusalTypes /\ TrafficTypes
<1> SUFFICES ASSUME DaemonInit PROVE CountTypes /\ RefusalTypes /\ TrafficTypes
  OBVIOUS
<1>1. CountTypes
  <2>1. mounted = TRUE /\ users = 0 /\ runs = 0 /\ quiet = FALSE /\ reused = FALSE /\ ghosts = 0
    BY DEF DaemonInit, Init
  <2>2. users \in 0..MaxUser /\ runs \in 0..MaxRuns /\ ghosts \in Nat
    BY <2>1, DaemonAssumption
  <2> QED BY <2>1, <2>2, Zenon DEF CountTypes
<1>2. RefusalTypes
  BY DaemonAssumption DEF DaemonInit, News!AlertsInit, RefusalTypes
<1>3. channel = << >> /\ stale = 0 /\ debounced = 0 /\ due = 0
  BY DEF DaemonInit, Live!LiveInit
<1>4. TrafficTypes
  BY <1>3, DaemonAssumption DEF TrafficTypes
<1> QED BY <1>1, <1>2, <1>4

LEMMA LibraryStays == [DaemonNext]_daemonVars => [Next]_vars
BY DEF DaemonNext, daemonVars

\* Every part keeps the types of its variables (Scanner, DataDirectory, Alerts, LiveView).
THEOREM DaemonTypes == DaemonSpec => []DaemonTypeOK
<1> DEFINE N == NewsTypes /\ NewsInv /\ RefusalTypes
           L == LiveTypes /\ ScreenInv /\ InTime /\ TrafficTypes
<1>1. DaemonInit => N /\ L /\ CountTypes
  BY NewsStarts, ScreenStarts, TypesStart DEF DaemonInit
<1>2. N /\ [DaemonNext]_daemonVars => N'
  BY NewsMoves, NewsSteps, RefusalSteps
<1>3. L /\ [DaemonNext]_daemonVars => L'
  BY ScreenMoves, ScreenSteps, TimeSteps, TrafficSteps
<1>4. CountTypes /\ [DaemonNext]_daemonVars => CountTypes'
  <2>1. CountTypes /\ UNCHANGED vars => CountTypes'
    BY DEF vars, CountTypes
  <2> QED BY <2>1, LibraryStays, CountSteps
<1>5. ASSUME LibraryTypes, CountTypes, Dir!DirTypeOK, N, L PROVE DaemonTypeOK
  <2>1. News!AlertsTypeOK
    BY <1>5 DEF News!AlertsTypeOK, NewsTypes, RefusalTypes, StandRec, GroupRec, CauseNames, ToldRec
  <2>2. Live!LiveTypeOK
    BY <1>5 DEF Live!LiveTypeOK, LiveTypes, TrafficTypes
  <2> QED BY <1>5, <2>1, <2>2, LibraryIsTyped DEF DaemonTypeOK
<1> QED BY <1>1, <1>2, <1>3, <1>4, <1>5, LibraryLasts, DirLasts, PTL DEF DaemonSpec
=============================================================================
