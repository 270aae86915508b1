------------------------ MODULE FileOwnership_proofs ------------------------
(***************************************************************************)
(* The locks of FileOwnership exclude: two jobs write one file only after  *)
(* one of them was waived.  RemoteJobs is checked to implement that module,*)
(* so what is proved here is what its refinement inherits.                 *)
(***************************************************************************)
EXTENDS FileOwnership, TLAPS

LockInv == TypeOK /\ LockDiscipline

LEMMA InitLocks == Init => LockInv
BY DEF Init, LockInv, TypeOK, LockDiscipline

LEMMA AcquireLocks ==
  ASSUME NoFile \notin Files, LockInv, NEW j \in Jobs, NEW f \in Files, Acquire(j, f)
  PROVE  LockInv'
<1>1. TypeOK'
  BY DEF Acquire, LockInv, TypeOK
<1>2. j \notin held
  BY DEF Acquire, LockInv, LockDiscipline
<1>3. /\ target'[j] = f
      /\ \A k \in held : target'[k] = target[k] /\ target[k] # f
  BY <1>2 DEF Acquire, LockInv, TypeOK
<1>4. LockDiscipline'
  BY <1>3 DEF Acquire, LockInv, LockDiscipline
<1> QED BY <1>1, <1>4 DEF LockInv

LEMMA StepLocks ==
  ASSUME NoFile \notin Files, LockInv, [Next]_vars
  PROVE  LockInv'
<1> USE DEF LockInv, TypeOK, LockDiscipline
<1>1. CASE \E j \in Jobs, f \in Files : Acquire(j, f)
  BY <1>1, AcquireLocks
<1>2. ASSUME NEW j \in Jobs, Permit(j) PROVE LockInv'
  BY <1>2 DEF Permit
<1>3. ASSUME NEW j \in Jobs, Begin(j) PROVE LockInv'
  BY <1>3 DEF Begin
<1>4. ASSUME NEW j \in Jobs, End(j) PROVE LockInv'
  BY <1>4 DEF End
<1>5. ASSUME NEW j \in Jobs, Withdraw(j) PROVE LockInv'
  BY <1>5 DEF Withdraw
<1>6. ASSUME NEW j \in Jobs, Waive(j) PROVE LockInv'
  BY <1>6 DEF Waive
<1>7. ASSUME NEW J \in SUBSET Jobs, Stop(J) PROVE LockInv'
  BY <1>7 DEF Stop
<1>8. ASSUME NEW J \in SUBSET Jobs, Free(J) PROVE LockInv'
  BY <1>8 DEF Free
<1>9. CASE UNCHANGED vars
  BY <1>9 DEF vars
<1> QED BY <1>1, <1>2, <1>3, <1>4, <1>5, <1>6, <1>7, <1>8, <1>9 DEF Next

\* Two jobs write one file at a time only after one of them was waived.
THEOREM LocksExclude ==
  ASSUME NoFile \notin Files
  PROVE  Spec => []Exclusive
<1>1. LockInv => Exclusive
  BY DEF LockInv, LockDiscipline, Exclusive
<1>2. LockInv /\ [Next]_vars => LockInv'
  BY StepLocks
<1> QED BY InitLocks, <1>1, <1>2, PTL DEF Spec

=============================================================================
