-------------------------- MODULE RemoteJobs_proofs --------------------------
(***************************************************************************)
(* Type correctness of RemoteJobs, and that a file never has two open      *)
(* jobs.  OneOpenJobPerFile is not inductive: a settlement must know that  *)
(* its handle belongs to the open job, and a claim that no earlier job of  *)
(* its file is open.  ClaimInv adds both.                                  *)
(***************************************************************************)
EXTENDS RemoteJobs, TLAPS

USE DEF LeaseStates

LEMMA LeaseTypes ==
  \A l \in Lease : /\ LeaseOnClaim \in Lease
                   /\ LeaseOnDisconnect(l) \in Lease
                   /\ LeaseOnDaemonStart(l) \in Lease
                   /\ LeaseOnReconnect(l) \in Lease
                   /\ LeaseAfterStep(l) \in Lease
                   /\ \A k : LeaseOnGrant(l, k) \in Lease
BY DEF Lease, LeaseOnClaim, LeaseOnDisconnect, LeaseOnDaemonStart, LeaseOnReconnect,
       LeaseAfterStep, LeaseOnGrant, LeaseIsExpired

LEMMA LedgerTypes ==
  \A r \in LedgerRecord :
    /\ RecordFailedAttempt(r) \in LedgerRecord
    /\ ApplyStall(r) \in LedgerRecord
    /\ ApplyRequeue(r) \in LedgerRecord
    /\ ApplyReleaseUnpenalised(r) \in LedgerRecord
    /\ \A o \in RunReports : ApplyRunOutcome(r, o) \in LedgerRecord
<1> SUFFICES ASSUME NEW r \in LedgerRecord
             PROVE  /\ RecordFailedAttempt(r) \in LedgerRecord
                    /\ ApplyStall(r) \in LedgerRecord
                    /\ ApplyRequeue(r) \in LedgerRecord
                    /\ ApplyReleaseUnpenalised(r) \in LedgerRecord
                    /\ \A o \in RunReports : ApplyRunOutcome(r, o) \in LedgerRecord
  OBVIOUS
<1>1. RecordFailedAttempt(r) \in LedgerRecord
  <2> DEFINE n == r.attempts + 1
             more == n < MAX_ATTEMPTS
             failed == [r EXCEPT !.state = IF n >= MAX_ATTEMPTS THEN "failed" ELSE "held",
                                 !.attempts = n, !.backoff = more]
  <2>1. n \in Nat
    BY DEF LedgerRecord
  <2>2. more \in BOOLEAN
    OBVIOUS
  <2> HIDE DEF n, more
  <2>3. failed \in LedgerRecord
    BY <2>1, <2>2 DEF LedgerRecord, FileStates
  <2>4. [r EXCEPT !.state = "held", !.backoff = FALSE] \in LedgerRecord
    BY DEF LedgerRecord, FileStates
  <2> QED BY <2>3, <2>4 DEF RecordFailedAttempt, n, more
<1>2. ApplyRequeue(r) \in LedgerRecord /\ ApplyReleaseUnpenalised(r) \in LedgerRecord
  BY DEF LedgerRecord, ApplyRequeue, ApplyReleaseUnpenalised, FileStates
<1>3. RecordSuccess(r, TRUE) \in LedgerRecord /\ RecordSuccess(r, FALSE) \in LedgerRecord
  BY DEF LedgerRecord, RecordSuccess, FileStates, NOOP_LIMIT
<1>4. RecordReviewHold(r) \in LedgerRecord
  BY DEF LedgerRecord, RecordReviewHold, FileStates
<1>5. \A o \in RunReports : ApplyRunOutcome(r, o) \in LedgerRecord
  BY <1>1, <1>3, <1>4 DEF ApplyRunOutcome, RunReports
<1> QED BY <1>1, <1>2, <1>5 DEF ApplyStall

LEMMA HubSendsType ==
  ASSUME NEW q \in [Jobs -> Seq(DownFrame)], NEW j \in Jobs, NEW m \in DownFrame
  PROVE  HubSends(q, j, m) \in [Jobs -> Seq(DownFrame)]
BY DEF HubSends

LEMMA NodeSendsType ==
  ASSUME NEW q \in [Jobs -> Seq(UpFrame)], NEW j \in Jobs, NEW m \in UpFrame
  PROVE  NodeSends(q, j, m) \in [Jobs -> Seq(UpFrame)]
BY DEF NodeSends

LEMMA FrameTypes ==
  /\ StepFrame \in UpFrame
  /\ \A id \in 0 .. MaxCommits, k \in CommitKinds : AskFrame(id, k) \in UpFrame
  /\ \A f \in Finals : FinalFrame(f) \in UpFrame
  /\ \A t \in {"job", "cancel", "abandon", "ack-report"} : Notice(t) \in DownFrame
  /\ \A id \in 0 .. MaxCommits, g \in BOOLEAN : Reply(id, g) \in DownFrame
BY ConstantsAssumption
   DEF UpFrame, DownFrame, StepFrame, AskFrame, FinalFrame, Notice, Reply, Finals

LEMMA NoticeSentType ==
  ASSUME TypeOK, NEW j \in Jobs, NEW t \in {"job", "cancel", "abandon", "ack-report"}
  PROVE  HubSends(down, j, Notice(t)) \in [Jobs -> Seq(DownFrame)]
<1>1. Notice(t) \in DownFrame
  BY FrameTypes
<1>2. down \in [Jobs -> Seq(DownFrame)]
  BY DEF TypeOK
<1> QED BY <1>1, <1>2, HubSendsType

LEMMA LeasedType ==
  ASSUME TypeOK, NEW j \in Jobs, Leased(j)
  PROVE  row[j].lease \in Lease /\ Expired(j) \in Lease
<1>1. row[j] \in Row
  BY DEF TypeOK
<1>2. row[j].lease \in Lease
  BY <1>1 DEF Row, Leased, NoLease
<1> QED BY <1>2 DEF Expired, Lease

DbOK == file \in [Files -> LedgerRecord] /\ row \in [Jobs -> Row]

HandleOK ==
  /\ handle \in [Jobs -> Handle]
  /\ \A j \in Jobs : handle[j].phase \in {"settling", "hung"}
                    => handle[j].report \in RunReports \cup {"cancelled"}

Outcomes == RunReports \cup {"cancelled", "unsent", "superseded", "unrecordable", "error"}

LEMMA SettledType ==
  ASSUME TypeOK, NEW j \in Jobs, NEW o \in Outcomes, row[j].file \in Files
  PROVE  Settled(j, o) \in LedgerRecord
<1> DEFINE r == file[row[j].file]
           kept == r.review \/ handle[j].report = "review"
<1>1. r \in LedgerRecord
  BY DEF TypeOK
<1>2. kept \in BOOLEAN
  BY <1>1 DEF LedgerRecord
<1>3. [r EXCEPT !.review = kept] \in LedgerRecord
  <2> HIDE DEF kept
  <2> QED BY <1>1, <1>2 DEF LedgerRecord
<1>4. ApplyStall([r EXCEPT !.review = kept]) \in LedgerRecord
  BY <1>3, LedgerTypes
<1>5. CASE o \in RunReports
  BY <1>1, <1>5, LedgerTypes DEF Settled, RunReports
<1>6. CASE o \notin RunReports
  BY <1>1, <1>4, <1>6, LedgerTypes DEF Settled, Outcomes, RunReports
<1> QED BY <1>5, <1>6

LEMMA SettleType ==
  ASSUME TypeOK, NEW j \in Jobs, NEW o \in Outcomes, NEW l \in Lease \cup {NoLease},
         Settle(j, o, l)
  PROVE  DbOK' /\ HandleOK'
<1>1. file' \in [Files -> LedgerRecord]
  BY SettledType DEF Settle, TypeOK
<1>2. row' \in [Jobs -> Row]
  <2>1. row[j] \in Row
    BY DEF TypeOK
  <2>2. [row[j] EXCEPT !.phase = "ended", !.lease = l] \in Row
    BY <2>1 DEF Row
  <2>3. row' = [row EXCEPT ![j] = [row[j] EXCEPT !.phase = "ended", !.lease = l]]
    BY DEF Settle, TypeOK
  <2> QED BY <2>2, <2>3 DEF TypeOK
<1>3. NoHandle \in Handle /\ NoHandle.phase = "none"
  BY DEF NoHandle, Handle
<1> QED BY <1>1, <1>2, <1>3 DEF Settle, TypeOK, DbOK, HandleOK

-----------------------------------------------------------------------------
(* Every step keeps the types: one lemma per action, grouped as in RemoteJobs *)

LEMMA ClaimType ==
  ASSUME TypeOK, NEW f \in Files, NEW n \in Nodes, NEW j \in Jobs, Claim(f, n, j)
  PROVE  TypeOK'
<1>1. file' \in [Files -> LedgerRecord]
  <2>1. file[f] \in LedgerRecord
    BY DEF TypeOK
  <2>2. [file[f] EXCEPT !.state = "running"] \in LedgerRecord
    BY <2>1 DEF LedgerRecord, FileStates
  <2> QED BY <2>2 DEF Claim, TypeOK
<1>2. row' \in [Jobs -> Row]
  <2>1. [UnusedRow EXCEPT !.phase = "open", !.file = f, !.node = n] \in Row
    BY DEF UnusedRow, Row
  <2> QED BY <2>1 DEF Claim, TypeOK
<1>3. HandleOK'
  <2>1. /\ [NoHandle EXCEPT !.phase = "preparing"] \in Handle
        /\ [NoHandle EXCEPT !.phase = "preparing"].phase = "preparing"
    BY DEF NoHandle, Handle
  <2> QED BY <2>1 DEF Claim, TypeOK, HandleOK
<1> QED BY <1>1, <1>2, <1>3 DEF Claim, TypeOK, HandleOK, wireVars, nodeVars, histVars

LEMMA PreparedType ==
  ASSUME TypeOK, NEW j \in Jobs, Prepared(j)
  PROVE  TypeOK'
<1>1. down' \in [Jobs -> Seq(DownFrame)]
  BY NoticeSentType DEF Prepared, TypeOK
<1>2. NoLease \in Lease \cup {NoLease} /\ LeaseOnClaim \in Lease
  BY DEF LeaseOnClaim, Lease
<1>3. DbOK' /\ HandleOK'
  <2>1. CASE Settle(j, "cancelled", NoLease)
    BY <2>1, <1>2, SettleType DEF Outcomes
  <2>2. CASE Settle(j, "unsent", LeaseOnClaim)
    BY <2>2, <1>2, SettleType DEF Outcomes
  <2>3. CASE /\ row' = [row EXCEPT ![j].lease = LeaseOnClaim]
             /\ handle' = [handle EXCEPT ![j].phase = "running"]
             /\ UNCHANGED file
    <3>1. row[j] \in Row /\ handle[j] \in Handle
      BY DEF TypeOK
    <3>2. [row[j] EXCEPT !.lease = LeaseOnClaim] \in Row
      BY <3>1, <1>2 DEF Row
    <3>3. [handle[j] EXCEPT !.phase = "running"] \in Handle
      BY <3>1 DEF Handle
    <3>4. [handle[j] EXCEPT !.phase = "running"].phase = "running"
      BY <3>1 DEF Handle
    <3> QED BY <2>3, <3>2, <3>3, <3>4 DEF TypeOK, DbOK, HandleOK
  <2> QED BY <2>1, <2>2, <2>3 DEF Prepared
<1> QED BY <1>1, <1>3 DEF Prepared, TypeOK, DbOK, HandleOK, nodeVars, histVars

LEMMA FailureOfType ==
  ASSUME NEW j \in Jobs, NEW o \in Outcomes
  PROVE  FailureOf(j, o) \in Outcomes
BY DEF FailureOf, Outcomes

LEMMA ReleaseType ==
  ASSUME TypeOK, NEW j \in Jobs, Leased(j), Release(j)
  PROVE  DbOK' /\ HandleOK' /\ down' \in [Jobs -> Seq(DownFrame)]
<1>1. FailureOf(j, "error") \in Outcomes
  BY DEF FailureOf, Outcomes
<1>2. DbOK' /\ HandleOK'
  BY <1>1, LeasedType, SettleType DEF Release
<1>3. Notice("ack-report") \in DownFrame
  BY FrameTypes
<1>4. down' \in [Jobs -> Seq(DownFrame)]
  BY <1>3, NoticeSentType, HubSendsType DEF Release
<1> QED BY <1>2, <1>4

LEMMA PrepareFailsType ==
  ASSUME TypeOK, NEW j \in Jobs, PrepareFails(j)
  PROVE  TypeOK'
<1>1. down' \in [Jobs -> Seq(DownFrame)]
  BY NoticeSentType DEF PrepareFails, TypeOK
<1>2. PICK o \in Outcomes : Settle(j, o, NoLease)
  BY FailureOfType DEF PrepareFails, Outcomes
<1>3. DbOK' /\ HandleOK'
  BY <1>2, SettleType
<1> QED BY <1>1, <1>3 DEF PrepareFails, TypeOK, DbOK, HandleOK, nodeVars, histVars

\* A lease written to an existing row.
LEMMA LeaseWrittenType ==
  ASSUME TypeOK, NEW j \in Jobs, NEW l \in Lease, row' = [row EXCEPT ![j].lease = l]
  PROVE  row' \in [Jobs -> Row]
<1>1. row[j] \in Row
  BY DEF TypeOK
<1>2. [row[j] EXCEPT !.lease = l] \in Row
  BY <1>1 DEF Row
<1> QED BY <1>2 DEF TypeOK

LEMMA LapseType ==
  ASSUME TypeOK, NEW j \in Jobs, Lapse(j)
  PROVE  TypeOK'
<1>1. [row[j].lease EXCEPT !.lapsed = TRUE] \in Lease
  BY LeasedType DEF Lapse, Lease
<1>2. row' = [row EXCEPT ![j].lease = [row[j].lease EXCEPT !.lapsed = TRUE]]
  BY DEF Lapse, TypeOK
<1>3. row' \in [Jobs -> Row]
  BY <1>1, <1>2, LeaseWrittenType
<1> QED BY <1>3 DEF Lapse, TypeOK, hubVars, wireVars, nodeVars, histVars

LEMMA SweepType ==
  ASSUME TypeOK, NEW j \in Jobs, Sweep(j)
  PROVE  TypeOK'
BY ReleaseType DEF Sweep, TypeOK, DbOK, HandleOK, nodeVars, histVars

LEMMA FloorType ==
  ASSUME TypeOK, NEW j \in Jobs, Floor(j)
  PROVE  TypeOK'
BY ReleaseType DEF Floor, TypeOK, DbOK, HandleOK, nodeVars

LEMMA OperatorCancelType ==
  ASSUME TypeOK, NEW j \in Jobs, OperatorCancel(j)
  PROVE  TypeOK'
<1>1. row' \in [Jobs -> Row]
  <2>1. row[j] \in Row
    BY DEF TypeOK
  <2>2. [row[j] EXCEPT !.cancel = TRUE] \in Row
    BY <2>1 DEF Row
  <2> QED BY <2>2 DEF OperatorCancel, TypeOK
<1>2. HandleOK'
  <2> DEFINE waits == ~ Online(j)
             h == [handle[j] EXCEPT !.cancelled = TRUE, !.pending = waits]
  <2>1. waits \in BOOLEAN
    OBVIOUS
  <2>2. handle[j] \in Handle
    BY DEF TypeOK
  <2>3. handle' = [handle EXCEPT ![j] = h]
    BY DEF OperatorCancel, TypeOK
  <2> HIDE DEF waits
  <2>4. h \in Handle /\ h.phase = handle[j].phase /\ h.report = handle[j].report
    BY <2>1, <2>2 DEF Handle
  <2> HIDE DEF h
  <2> QED BY <2>3, <2>4 DEF TypeOK, HandleOK
<1>3. down' \in [Jobs -> Seq(DownFrame)]
  BY NoticeSentType DEF OperatorCancel
<1> QED BY <1>1, <1>2, <1>3 DEF OperatorCancel, TypeOK, HandleOK, nodeVars, histVars

LEMMA RequeueType ==
  ASSUME TypeOK, NEW f \in Files, Requeue(f)
  PROVE  TypeOK'
<1>1. ApplyRequeue(file[f]) \in LedgerRecord
  BY LedgerTypes DEF TypeOK
<1> QED BY <1>1 DEF Requeue, TypeOK, hubVars, wireVars, nodeVars, histVars

\* A frame leaves the queue of a job.
LEMMA HubReadsType ==
  ASSUME TypeOK, NEW j \in Jobs, NEW t, HubReads(j, t)
  PROVE  Head(up[j]) \in UpFrame /\ up' \in [Jobs -> Seq(UpFrame)]
<1>1. up[j] \in Seq(UpFrame) /\ up[j] # <<>>
  BY DEF HubReads, TypeOK
<1>2. Head(up[j]) \in UpFrame /\ Tail(up[j]) \in Seq(UpFrame)
  BY <1>1
<1> QED BY <1>2 DEF HubReads, TypeOK

LEMMA HubStepType ==
  ASSUME TypeOK, NEW j \in Jobs, HubStep(j)
  PROVE  TypeOK'
<1>1. up' \in [Jobs -> Seq(UpFrame)]
  BY HubReadsType DEF HubStep
<1>2. row' \in [Jobs -> Row]
  <2>1. CASE row' = row
    BY <2>1 DEF TypeOK
  <2>2. CASE Leased(j) /\ row' = [row EXCEPT ![j].lease = LeaseAfterStep(@)]
    <3>1. LeaseAfterStep(row[j].lease) \in Lease
      BY <2>2, LeasedType, LeaseTypes
    <3>2. row' = [row EXCEPT ![j].lease = LeaseAfterStep(row[j].lease)]
      BY <2>2 DEF TypeOK
    <3> QED BY <3>1, <3>2, LeaseWrittenType
  <2> QED BY <2>1, <2>2 DEF HubStep
<1> QED BY <1>1, <1>2 DEF HubStep, TypeOK, hubVars, nodeVars, histVars

LEMMA HubAskType ==
  ASSUME TypeOK, NEW j \in Jobs, HubAsk(j)
  PROVE  TypeOK'
<1> DEFINE ask == Head(up[j])
<1>1. ask \in UpFrame /\ up' \in [Jobs -> Seq(UpFrame)]
  BY HubReadsType DEF HubAsk
<1>2. down' \in [Jobs -> Seq(DownFrame)]
  <2>1. Granted(j) \in BOOLEAN
    BY DEF Granted
  <2>2. ask.id \in 0 .. MaxCommits
    BY <1>1 DEF UpFrame
  <2>3. Reply(ask.id, Granted(j)) \in DownFrame
    BY <2>1, <2>2, FrameTypes
  <2>4. down' = HubSends(down, j, Reply(ask.id, Granted(j)))
    BY DEF HubAsk
  <2> QED BY <2>3, <2>4, HubSendsType DEF TypeOK
<1>3. row' \in [Jobs -> Row]
  <2>1. CASE Granted(j)
    <3>1. LeaseOnGrant(row[j].lease, ask.body) \in Lease
      BY <2>1, LeasedType, LeaseTypes DEF Granted
    <3>2. row' = [row EXCEPT ![j].lease = LeaseOnGrant(row[j].lease, ask.body)]
      BY <2>1 DEF HubAsk, TypeOK
    <3> QED BY <3>1, <3>2, LeaseWrittenType
  <2>2. CASE ~ Granted(j)
    BY <2>2 DEF HubAsk, TypeOK
  <2> QED BY <2>1, <2>2
<1> QED BY <1>1, <1>2, <1>3 DEF HubAsk, TypeOK, hubVars, nodeVars, histVars

LEMMA HubIgnoresType ==
  ASSUME TypeOK, NEW j \in Jobs, HubIgnores(j)
  PROVE  TypeOK'
<1>1. up' \in [Jobs -> Seq(UpFrame)]
  BY HubReadsType DEF HubIgnores
<1> QED BY <1>1 DEF HubIgnores, TypeOK, dbVars, hubVars, nodeVars, histVars

LEMMA HubDoneType ==
  ASSUME TypeOK, NEW j \in Jobs, HubDone(j)
  PROVE  TypeOK'
<1>1. up' \in [Jobs -> Seq(UpFrame)]
  BY HubReadsType DEF HubDone
<1>2. HandleOK'
  <2> DEFINE f == Head(up[j]).body
             h == [handle[j] EXCEPT !.phase = "settling", !.report = f]
  <2>1. handle[j] \in Handle /\ f \in RunReports \cup {"cancelled"}
    BY DEF TypeOK, HubDone
  <2>2. h \in Handle /\ h.report \in RunReports \cup {"cancelled"}
    BY <2>1 DEF Handle, Finals
  <2>3. handle' = [handle EXCEPT ![j] = h]
    BY DEF HubDone, TypeOK
  <2> HIDE DEF h
  <2> QED BY <2>2, <2>3 DEF TypeOK, HandleOK
<1> QED BY <1>1, <1>2 DEF HubDone, TypeOK, HandleOK, dbVars, nodeVars, histVars

LEMMA LeaseKeptType ==
  ASSUME TypeOK, NEW j \in Jobs
  PROVE  row[j].lease \in Lease \cup {NoLease}
BY DEF TypeOK, Row

LEMMA HubFailedType ==
  ASSUME TypeOK, NEW j \in Jobs, HubFailed(j)
  PROVE  TypeOK'
<1>1. up' \in [Jobs -> Seq(UpFrame)]
  BY HubReadsType DEF HubFailed
<1>2. Head(up[j]).body \in Outcomes
  BY DEF HubFailed, Outcomes
<1>3. DbOK' /\ HandleOK'
  BY <1>2, FailureOfType, LeaseKeptType, SettleType DEF HubFailed
<1>4. down' \in [Jobs -> Seq(DownFrame)]
  BY NoticeSentType DEF HubFailed
<1> QED BY <1>1, <1>3, <1>4 DEF HubFailed, TypeOK, DbOK, HandleOK, nodeVars, histVars

LEMMA HubLateType ==
  ASSUME TypeOK, NEW j \in Jobs, HubLate(j)
  PROVE  TypeOK'
<1>1. up' \in [Jobs -> Seq(UpFrame)]
  BY HubReadsType DEF HubLate
<1>2. down' \in [Jobs -> Seq(DownFrame)]
  BY NoticeSentType DEF HubLate, TypeOK
<1> QED BY <1>1, <1>2 DEF HubLate, TypeOK, dbVars, hubVars, nodeVars, histVars

LEMMA StatAnsweredType ==
  ASSUME TypeOK, NEW j \in Jobs, StatAnswered(j)
  PROVE  TypeOK'
<1>1. PICK o \in {handle[j].report, "unrecordable"} : Settle(j, o, row[j].lease)
  BY DEF StatAnswered
<1>2. o \in Outcomes
  BY <1>1 DEF StatAnswered, TypeOK, Outcomes
<1>3. DbOK' /\ HandleOK'
  BY <1>1, <1>2, LeaseKeptType, SettleType
<1>4. down' \in [Jobs -> Seq(DownFrame)]
  BY NoticeSentType DEF StatAnswered
<1> QED BY <1>3, <1>4 DEF StatAnswered, TypeOK, DbOK, HandleOK, nodeVars, histVars

LEMMA StatFailedType ==
  ASSUME TypeOK, NEW j \in Jobs, StatFailed(j)
  PROVE  TypeOK'
<1>1. FailureOf(j, "error") \in Outcomes
  BY FailureOfType DEF Outcomes
<1>2. DbOK' /\ HandleOK'
  BY <1>1, LeaseKeptType, SettleType DEF StatFailed
<1>3. down' \in [Jobs -> Seq(DownFrame)]
  BY NoticeSentType DEF StatFailed
<1> QED BY <1>2, <1>3 DEF StatFailed, TypeOK, DbOK, HandleOK, nodeVars, histVars

\* A fault is counted while the bound allows it.
LEMMA FaultType ==
  ASSUME TypeOK, Fault
  PROVE  faults' \in 0 .. MaxFaults
BY ConstantsAssumption DEF Fault, TypeOK

LEMMA StatHangsType ==
  ASSUME TypeOK, NEW j \in Jobs, StatHangs(j)
  PROVE  TypeOK'
<1>1. HandleOK'
  <2> DEFINE h == [handle[j] EXCEPT !.phase = "hung"]
  <2>1. handle[j] \in Handle
    BY DEF TypeOK
  <2>2. h \in Handle /\ h.report = handle[j].report
    BY <2>1 DEF Handle
  <2> HIDE DEF h
  <2>3. handle' = [handle EXCEPT ![j] = h]
    BY DEF StatHangs, h, TypeOK
  <2> QED BY <2>2, <2>3 DEF TypeOK, HandleOK, StatHangs
<1> QED BY <1>1, FaultType DEF StatHangs, TypeOK, HandleOK, dbVars, wireVars, nodeVars

LEMMA ConnectType ==
  ASSUME TypeOK, NEW n \in Nodes, Connect(n)
  PROVE  TypeOK'
<1> DEFINE told == [j \in Jobs |-> IF row[j].node = n THEN journal[j].state ELSE "none"]
<1>1. told \in [Jobs -> Directives]
  BY DEF TypeOK, Entry, Directives
<1>2. [stage |-> "hello", jobs |-> told] \in Greeting
  BY <1>1 DEF Greeting
<1>3. greet' \in [Nodes -> Greeting]
  BY <1>2 DEF Connect, TypeOK
<1>4. /\ up' \in [Jobs -> Seq(UpFrame)]
      /\ down' \in [Jobs -> Seq(DownFrame)]
  BY DEF Connect, TypeOK
<1> QED BY <1>3, <1>4 DEF Connect, TypeOK, dbVars, histVars

\* What a hello leaves of one row, of one file and of one directive.
LEMMA HelloTypes ==
  ASSUME TypeOK, NEW j \in Jobs, NEW s \in Directives
  PROVE  /\ RowAfterHello(j, s) \in Row
         /\ Directive(j, s) \in Directives
<1>1. row[j] \in Row
  BY DEF TypeOK
<1>2. Directive(j, s) \in Directives
  BY DEF Directive, Directives
<1>3. CASE Live(j)
  <2>1. row[j].lease \in Lease /\ Expired(j) \in Lease
    BY <1>3, LeasedType DEF Live
  <2>2. LeaseOnReconnect(row[j].lease) \in Lease /\ LeaseOnClaim \in Lease
    BY <2>1, LeaseTypes
  <2>3. /\ [row[j] EXCEPT !.phase = "ended", !.lease = Expired(j)] \in Row
        /\ [row[j] EXCEPT !.lease = LeaseOnReconnect(row[j].lease)] \in Row
        /\ [row[j] EXCEPT !.lease = LeaseOnClaim] \in Row
    BY <1>1, <2>1, <2>2 DEF Row
  <2> QED BY <1>1, <1>2, <2>3 DEF RowAfterHello
<1>4. CASE ~ Live(j)
  BY <1>1, <1>2, <1>4 DEF RowAfterHello, ReleasedBy, Continues, Delivers
<1> QED BY <1>3, <1>4

LEMMA HubHelloType ==
  ASSUME TypeOK, NEW n \in Nodes, HubHello(n)
  PROVE  TypeOK'
<1> DEFINE snap     == greet[n].jobs
           mine     == JobsOn(n)
           released == {j \in mine : ReleasedBy(j, snap[j])}
           flushed  == {j \in mine : /\ Continues(j, snap[j]) \/ Delivers(j, snap[j])
                                     /\ handle[j].phase # "none" /\ handle[j].pending}
           ended(f) == CHOOSE j \in released : row[j].file = f
           heard    == link[n] # "down"
<1>1. snap \in [Jobs -> Directives]
  BY DEF TypeOK, Greeting
<1>2. mine \subseteq Jobs /\ released \subseteq Jobs /\ flushed \subseteq Jobs
  BY DEF JobsOn
<1>3. row' \in [Jobs -> Row]
  <2>1. row' = [j \in Jobs |-> IF j \in mine THEN RowAfterHello(j, snap[j]) ELSE row[j]]
    BY DEF HubHello
  <2> HIDE DEF mine, snap
  <2> QED BY <1>1, <2>1, HelloTypes DEF TypeOK
<1>4. file' \in [Files -> LedgerRecord]
  <2>1. ASSUME NEW f \in Files, \E j \in released : row[j].file = f
        PROVE  Settled(ended(f), FailureOf(ended(f), "error")) \in LedgerRecord
    <3>1. ended(f) \in Jobs /\ row[ended(f)].file = f
      BY <2>1, <1>2
    <3>2. FailureOf(ended(f), "error") \in Outcomes
      BY <3>1, FailureOfType DEF Outcomes
    <3> QED BY <3>1, <3>2, SettledType
  <2>2. file' = [f \in Files |-> IF \E j \in released : row[j].file = f
                                 THEN Settled(ended(f), FailureOf(ended(f), "error"))
                                 ELSE file[f]]
    BY DEF HubHello
  <2> HIDE DEF released, ended
  <2> QED BY <2>1, <2>2 DEF TypeOK
<1>5. HandleOK'
  <2>1. handle' = [j \in Jobs |-> CASE j \in released -> NoHandle
                                    [] j \in flushed  -> [handle[j] EXCEPT !.pending = FALSE]
                                    [] OTHER          -> handle[j]]
    BY DEF HubHello
  <2> HIDE DEF released, flushed
  <2>2. NoHandle \in Handle /\ NoHandle.phase = "none"
    BY DEF NoHandle, Handle
  <2>3. \A j \in Jobs : LET h == [handle[j] EXCEPT !.pending = FALSE]
                        IN  h \in Handle /\ h.phase = handle[j].phase /\ h.report = handle[j].report
    BY DEF TypeOK, Handle
  <2>4. \A j \in Jobs : \/ handle'[j] = NoHandle
                        \/ handle'[j] = [handle[j] EXCEPT !.pending = FALSE]
                        \/ handle'[j] = handle[j]
    BY <2>1
  <2>5. DOMAIN handle' = Jobs /\ handle' = [j \in Jobs |-> handle'[j]]
    BY <2>1
  <2>6. \A j \in Jobs : /\ handle'[j] \in Handle
                        /\ handle'[j].phase = "none" \/ (/\ handle'[j].phase = handle[j].phase
                                                        /\ handle'[j].report = handle[j].report)
    BY <2>2, <2>3, <2>4 DEF TypeOK
  <2> QED BY <2>5, <2>6 DEF TypeOK, HandleOK
<1>6. greet' \in [Nodes -> Greeting]
  <2> DEFINE told == [j \in Jobs |-> IF j \in mine THEN Directive(j, snap[j]) ELSE "none"]
  <2>1. told \in [Jobs -> Directives]
    <3> HIDE DEF mine, snap
    <3> QED BY <1>1, HelloTypes DEF Directives
  <2>2. [stage |-> "welcome", jobs |-> told] \in Greeting /\ NoGreeting \in Greeting
    BY <2>1 DEF Greeting, NoGreeting, Directives
  <2>3. greet' = [greet EXCEPT ![n] = IF heard THEN [stage |-> "welcome", jobs |-> told]
                                      ELSE NoGreeting]
    BY DEF HubHello
  <2> HIDE DEF told
  <2> QED BY <2>2, <2>3 DEF TypeOK
<1>7. down' \in [Jobs -> Seq(DownFrame)]
  <2>1. Notice("ack-report") \in DownFrame /\ Notice("cancel") \in DownFrame
    BY FrameTypes
  <2>2. down' = [j \in Jobs |-> CASE heard /\ j \in released -> Append(down[j], Notice("ack-report"))
                                  [] heard /\ j \in flushed  -> Append(down[j], Notice("cancel"))
                                  [] OTHER                   -> down[j]]
    BY DEF HubHello
  <2> HIDE DEF released, flushed, heard
  <2>3. \A j \in Jobs : \/ down'[j] = Append(down[j], Notice("ack-report"))
                        \/ down'[j] = Append(down[j], Notice("cancel"))
                        \/ down'[j] = down[j]
    BY <2>2
  <2>4. ASSUME NEW j \in Jobs
        PROVE  down'[j] \in Seq(DownFrame)
    <3>1. down[j] \in Seq(DownFrame)
      BY DEF TypeOK
    <3>2. /\ Append(down[j], Notice("ack-report")) \in Seq(DownFrame)
          /\ Append(down[j], Notice("cancel")) \in Seq(DownFrame)
      <4> HIDE DEF Notice
      <4> QED BY <2>1, <3>1
    <3> QED BY <2>3, <3>1, <3>2
  <2> QED BY <2>2, <2>4
<1>8. conn' \in [Nodes -> {"none", "open", "welcomed"}]
  BY DEF HubHello, TypeOK
<1>9. UNCHANGED <<daemon, up, nodeVars, histVars>>
  BY DEF HubHello
<1> QED BY <1>3, <1>4, <1>5, <1>6, <1>7, <1>8, <1>9 DEF TypeOK, HandleOK, nodeVars, histVars

LEMMA GreetingDroppedType ==
  ASSUME TypeOK, NEW n \in Nodes, NEW stage,
         greet' = [greet EXCEPT ![n] = IF @.stage = stage THEN NoGreeting ELSE @]
  PROVE  greet' \in [Nodes -> Greeting]
<1>1. NoGreeting \in Greeting
  BY DEF NoGreeting, Greeting, Directives
<1> QED BY <1>1 DEF TypeOK

LEMMA HubCloseType ==
  ASSUME TypeOK, NEW n \in Nodes, HubClose(n)
  PROVE  TypeOK'
<1>1. row' \in [Jobs -> Row]
  <2>1. ASSUME NEW j \in Jobs, Leased(j)
        PROVE  [row[j] EXCEPT !.lease = LeaseOnDisconnect(row[j].lease)] \in Row
    <3>1. LeaseOnDisconnect(row[j].lease) \in Lease
      BY <2>1, LeasedType, LeaseTypes
    <3>2. row[j] \in Row
      BY DEF TypeOK
    <3> QED BY <3>1, <3>2 DEF Row
  <2>2. row' = [j \in Jobs |-> IF row[j].node = n /\ Leased(j)
                 THEN [row[j] EXCEPT !.lease = LeaseOnDisconnect(row[j].lease)] ELSE row[j]]
    BY DEF HubClose
  <2> QED BY <2>1, <2>2 DEF TypeOK
<1>2. greet' \in [Nodes -> Greeting]
  BY GreetingDroppedType DEF HubClose
<1>3. up' \in [Jobs -> Seq(UpFrame)]
  BY DEF HubClose, TypeOK
<1>4. faults' \in 0 .. MaxFaults
  BY FaultType DEF HubClose, TypeOK
<1> QED BY <1>1, <1>2, <1>3, <1>4 DEF HubClose, TypeOK, nodeVars

LEMMA NodeDropType ==
  ASSUME TypeOK, NEW n \in Nodes, NodeDrop(n)
  PROVE  TypeOK'
<1>1. greet' \in [Nodes -> Greeting]
  BY GreetingDroppedType DEF NodeDrop
<1>2. down' \in [Jobs -> Seq(DownFrame)]
  BY DEF NodeDrop, TypeOK
<1>3. faults' \in 0 .. MaxFaults
  BY FaultType DEF NodeDrop, TypeOK
<1> QED BY <1>1, <1>2, <1>3 DEF NodeDrop, TypeOK, dbVars, hubVars

LEMMA DaemonGoneType ==
  ASSUME TypeOK, DaemonGone, DbOK'
  PROVE  TypeOK'
<1>1. HandleOK'
  <2>1. NoHandle \in Handle /\ NoHandle.phase = "none"
    BY DEF NoHandle, Handle
  <2> QED BY <2>1 DEF DaemonGone, HandleOK
<1>2. greet' \in [Nodes -> Greeting]
  <2>1. NoGreeting \in Greeting
    BY DEF NoGreeting, Greeting, Directives
  <2> QED BY <2>1 DEF DaemonGone, TypeOK
<1>3. up' \in [Jobs -> Seq(UpFrame)]
  BY DEF DaemonGone
<1> QED BY <1>1, <1>2, <1>3, FaultType DEF DaemonGone, TypeOK, DbOK, HandleOK, nodeVars

LEMMA DaemonCrashType ==
  ASSUME TypeOK, DaemonCrash
  PROVE  TypeOK'
BY DaemonGoneType DEF DaemonCrash, dbVars, TypeOK, DbOK

LEMMA CrashInClaimType ==
  ASSUME TypeOK, NEW f \in Files, CrashInClaim(f)
  PROVE  TypeOK'
<1>1. [file[f] EXCEPT !.state = "running"] \in LedgerRecord
  BY DEF TypeOK, LedgerRecord, FileStates
<1>2. DbOK'
  BY <1>1 DEF CrashInClaim, TypeOK, DbOK
<1> QED BY <1>2, DaemonGoneType DEF CrashInClaim

LEMMA CrashInReleaseType ==
  ASSUME TypeOK, NEW j \in Jobs, CrashInRelease(j)
  PROVE  TypeOK'
<1>1. row' \in [Jobs -> Row]
  BY LeasedType, LeaseWrittenType DEF CrashInRelease
<1>2. DbOK'
  BY <1>1 DEF CrashInRelease, TypeOK, DbOK
<1> QED BY <1>2, DaemonGoneType DEF CrashInRelease

LEMMA DaemonStartType ==
  ASSUME TypeOK, DaemonStart
  PROVE  TypeOK'
BY DEF DaemonStart, TypeOK, dbVars, wireVars, nodeVars, histVars

LEMMA DaemonReadyType ==
  ASSUME TypeOK, DaemonReady
  PROVE  TypeOK'
BY DEF DaemonReady, TypeOK, dbVars, wireVars, nodeVars, histVars

\* A failed attempt written to one file.
LEMMA StallWrittenType ==
  ASSUME TypeOK, NEW f, file' = [file EXCEPT ![f] = ApplyStall(@)]
  PROVE  file' \in [Files -> LedgerRecord]
<1>1. \A g \in Files : file[g] \in LedgerRecord /\ ApplyStall(file[g]) \in LedgerRecord
  BY LedgerTypes DEF TypeOK
<1> QED BY <1>1 DEF TypeOK

LEMMA StallUnsentType ==
  ASSUME TypeOK, NEW j \in Jobs, StallUnsent(j)
  PROVE  TypeOK'
<1>1. row' \in [Jobs -> Row]
  <2>1. row[j] \in Row
    BY DEF TypeOK
  <2>2. [row[j] EXCEPT !.phase = "ended"] \in Row
    BY <2>1 DEF Row
  <2> QED BY <2>2 DEF StallUnsent, TypeOK
<1>2. file' \in [Files -> LedgerRecord]
  BY StallWrittenType DEF StallUnsent, TypeOK
<1> QED BY <1>1, <1>2 DEF StallUnsent, TypeOK, hubVars, wireVars, nodeVars, histVars

LEMMA AdoptType ==
  ASSUME TypeOK, NEW j \in Jobs, Adopt(j)
  PROVE  TypeOK'
<1> DEFINE lease == LeaseOnDaemonStart(row[j].lease)
<1>1. lease \in Lease
  BY LeasedType, LeaseTypes DEF Adopt
<1>2. DbOK' /\ HandleOK'
  <2>1. CASE lease.state = "expired"
    <3>1. PICK o \in Outcomes : Settle(j, o, lease)
      BY <2>1 DEF Adopt, Outcomes
    <3> QED BY <1>1, <3>1, SettleType
  <2>2. CASE lease.state # "expired"
    <3>1. row' = [row EXCEPT ![j].lease = lease] /\ UNCHANGED file
      BY <2>2 DEF Adopt
    <3>2. row' \in [Jobs -> Row]
      BY <1>1, <3>1, LeaseWrittenType
    <3>3. row[j].cancel \in BOOLEAN
      BY DEF TypeOK, Row
    <3> DEFINE cancel == row[j].cancel
               h == [NoHandle EXCEPT !.phase = "running", !.cancelled = cancel, !.pending = cancel]
    <3>4. handle' = [handle EXCEPT ![j] = h]
      BY <2>2 DEF Adopt
    <3>5. h \in Handle /\ h.phase = "running"
      <4> HIDE DEF cancel
      <4>1. cancel \in BOOLEAN
        BY <3>3 DEF cancel
      <4> QED BY <4>1 DEF NoHandle, Handle
    <3>6. HandleOK'
      <4> HIDE DEF h
      <4> QED BY <3>4, <3>5 DEF TypeOK, HandleOK
    <3> QED BY <3>1, <3>2, <3>6 DEF TypeOK, DbOK
  <2> QED BY <2>1, <2>2
<1> QED BY <1>2 DEF Adopt, TypeOK, DbOK, HandleOK, wireVars, nodeVars, histVars

LEMMA ReapOrphanType ==
  ASSUME TypeOK, NEW f \in Files, ReapOrphan(f)
  PROVE  TypeOK'
BY StallWrittenType DEF ReapOrphan, TypeOK, hubVars, wireVars, nodeVars, histVars

\* The node's side.
LEMMA NodeReadsType ==
  ASSUME TypeOK, NEW j \in Jobs, NEW t, NodeReads(j, t)
  PROVE  Head(down[j]) \in DownFrame /\ down' \in [Jobs -> Seq(DownFrame)]
<1>1. down[j] \in Seq(DownFrame) /\ down[j] # <<>>
  BY DEF NodeReads, TypeOK
<1>2. Head(down[j]) \in DownFrame /\ Tail(down[j]) \in Seq(DownFrame)
  BY <1>1
<1> QED BY <1>2 DEF NodeReads, TypeOK

LEMMA HoldType ==
  ASSUME TypeOK, NEW j \in Jobs, NEW f \in Finals, Hold(j, f)
  PROVE  /\ agent' \in [Jobs -> Agent]
         /\ journal' \in [Jobs -> Entry]
         /\ up' \in [Jobs -> Seq(UpFrame)]
<1>1. NoAgent \in Agent
  BY ConstantsAssumption DEF NoAgent, Agent
<1>2. [state |-> "held", final |-> f] \in Entry
  BY DEF Entry
<1>3. NodeSends(up, j, FinalFrame(f)) \in [Jobs -> Seq(UpFrame)]
  BY FrameTypes, NodeSendsType DEF TypeOK
<1> QED BY <1>1, <1>2, <1>3 DEF Hold, TypeOK

LEMMA AgentTypes ==
  ASSUME NEW a \in Agent
  PROVE  Stopped(a) \in Agent /\ Abandoned(a) \in Agent
<1>1. Stopped(a) \in Agent
  BY DEF Stopped, Agent
<1> QED BY <1>1 DEF Abandoned, Agent

LEMMA ReceiveJobType ==
  ASSUME TypeOK, NEW j \in Jobs, ReceiveJob(j)
  PROVE  TypeOK'
<1>1. down' \in [Jobs -> Seq(DownFrame)]
  BY NodeReadsType DEF ReceiveJob
<1>2. [NoAgent EXCEPT !.phase = "fetching"] \in Agent
  <2>1. NoAgent \in Agent
    BY ConstantsAssumption DEF NoAgent, Agent
  <2> QED BY <2>1 DEF Agent
<1>3. [journal[j] EXCEPT !.state = "running"] \in Entry
  BY DEF TypeOK, Entry
<1>4. faults' \in 0 .. MaxFaults
  BY FaultType DEF ReceiveJob, TypeOK
<1>5. agent' \in [Jobs -> Agent] /\ journal' \in [Jobs -> Entry]
  BY <1>2, <1>3 DEF ReceiveJob, TypeOK
<1> QED BY <1>1, <1>4, <1>5 DEF ReceiveJob, TypeOK, dbVars, hubVars

LEMMA ReceiveCancelType ==
  ASSUME TypeOK, NEW j \in Jobs, ReceiveCancel(j)
  PROVE  TypeOK'
<1>1. down' \in [Jobs -> Seq(DownFrame)]
  BY NodeReadsType DEF ReceiveCancel
<1>2. agent' \in [Jobs -> Agent]
  BY AgentTypes DEF ReceiveCancel, TypeOK
<1> QED BY <1>1, <1>2 DEF ReceiveCancel, TypeOK, dbVars, hubVars, histVars

LEMMA ReceiveAbandonType ==
  ASSUME TypeOK, NEW j \in Jobs, ReceiveAbandon(j)
  PROVE  TypeOK'
<1>1. down' \in [Jobs -> Seq(DownFrame)]
  BY NodeReadsType DEF ReceiveAbandon
<1>2. agent' \in [Jobs -> Agent]
  BY AgentTypes DEF ReceiveAbandon, TypeOK
<1> QED BY <1>1, <1>2 DEF ReceiveAbandon, TypeOK, dbVars, hubVars, histVars

LEMMA ReceiveReplyType ==
  ASSUME TypeOK, NEW j \in Jobs, ReceiveReply(j)
  PROVE  TypeOK'
<1>1. down' \in [Jobs -> Seq(DownFrame)]
  BY NodeReadsType DEF ReceiveReply
<1>2. \A p \in {"writing", "refused"} : [agent[j] EXCEPT !.phase = p] \in Agent
  BY DEF TypeOK, Agent
<1>3. agent' \in [Jobs -> Agent]
  BY <1>2 DEF ReceiveReply, TypeOK
<1> QED BY <1>1, <1>3 DEF ReceiveReply, TypeOK, dbVars, hubVars, histVars

LEMMA ReceiveAckType ==
  ASSUME TypeOK, NEW j \in Jobs, ReceiveAck(j)
  PROVE  TypeOK'
<1>1. down' \in [Jobs -> Seq(DownFrame)]
  BY NodeReadsType DEF ReceiveAck
<1>2. NoEntry \in Entry
  BY DEF NoEntry, Entry
<1> QED BY <1>1, <1>2 DEF ReceiveAck, TypeOK, dbVars, hubVars, histVars

LEMMA PendingFramesType ==
  ASSUME TypeOK, NEW j \in Jobs
  PROVE  PendingFrames(j) \in Seq(UpFrame)
<1>1. AskFrame(agent[j].commits, agent[j].kind) \in UpFrame
  BY DEF TypeOK, Agent, AskFrame, UpFrame
<1>2. FinalFrame(journal[j].final) \in UpFrame
  BY ConstantsAssumption DEF TypeOK, Entry, FinalFrame, UpFrame
<1> DEFINE asked    == AskFrame(agent[j].commits, agent[j].kind)
           reported == FinalFrame(journal[j].final)
<1> HIDE DEF asked, reported
<1>3. <<asked>> \in Seq(UpFrame) /\ <<reported>> \in Seq(UpFrame) /\ <<>> \in Seq(UpFrame)
  BY <1>1, <1>2 DEF asked, reported
<1>4. \A s, t \in Seq(UpFrame) : s \o t \in Seq(UpFrame)
  OBVIOUS
<1> QED BY <1>3, <1>4 DEF PendingFrames, asked, reported

LEMMA WelcomedType ==
  ASSUME TypeOK, NEW n \in Nodes, Welcomed(n)
  PROVE  TypeOK'
<1> DEFINE told      == greet[n].jobs
           known     == {j \in Jobs : journal[j].state # "none"}
           sending   == {j \in known : told[j] \in {"continue", "apply"} /\ conn[n] = "welcomed"}
           forgotten == {j \in known : told[j] \in {"abandon", "lost"}}
<1>1. up' \in [Jobs -> Seq(UpFrame)]
  <2>1. up' = [j \in Jobs |-> IF j \in sending THEN up[j] \o PendingFrames(j) ELSE up[j]]
    BY DEF Welcomed
  <2>2. \A j \in Jobs : up[j] \in Seq(UpFrame)
    BY DEF TypeOK
  <2>3. \A j \in Jobs : up[j] \o PendingFrames(j) \in Seq(UpFrame)
    BY <2>2, PendingFramesType
  <2> HIDE DEF sending
  <2> QED BY <2>1, <2>2, <2>3
<1>2. journal' \in [Jobs -> Entry]
  <2>1. journal' = [j \in Jobs |-> IF j \in forgotten THEN NoEntry ELSE journal[j]]
    BY DEF Welcomed
  <2>2. NoEntry \in Entry
    BY DEF NoEntry, Entry
  <2> HIDE DEF forgotten
  <2> QED BY <2>1, <2>2 DEF TypeOK
<1>3. agent' \in [Jobs -> Agent]
  <2>1. agent' = [j \in Jobs |-> IF j \in forgotten THEN Abandoned(agent[j]) ELSE agent[j]]
    BY DEF Welcomed
  <2> HIDE DEF forgotten
  <2> QED BY <2>1, AgentTypes DEF TypeOK
<1>4. greet' \in [Nodes -> Greeting]
  BY DEF Welcomed, TypeOK, NoGreeting, Greeting, Directives
<1>5. link' \in [Nodes -> {"down", "hello", "up"}]
  BY DEF Welcomed, TypeOK
<1>6. UNCHANGED <<dbVars, hubVars, down, histVars>>
  BY DEF Welcomed
<1> QED BY <1>1, <1>2, <1>3, <1>4, <1>5, <1>6 DEF TypeOK, dbVars, hubVars, histVars

LEMMA FetchedType ==
  ASSUME TypeOK, NEW j \in Jobs, Fetched(j)
  PROVE  TypeOK'
<1>1. [agent[j] EXCEPT !.phase = "working"] \in Agent
  BY DEF TypeOK, Agent
<1>2. /\ agent' \in [Jobs -> Agent]
      /\ journal' \in [Jobs -> Entry]
      /\ up' \in [Jobs -> Seq(UpFrame)]
  BY <1>1, HoldType DEF Fetched, TypeOK, Finals
<1> QED BY <1>2 DEF Fetched, TypeOK, dbVars, hubVars, histVars

LEMMA AskType ==
  ASSUME TypeOK, NEW j \in Jobs, NEW k \in Kinds, Ask(j, k)
  PROVE  TypeOK'
<1>1. k \in CommitKinds
  BY ConstantsAssumption
<1>2. agent[j] \in Agent /\ agent[j].commits + 1 \in 0 .. MaxCommits
  BY ConstantsAssumption DEF Ask, TypeOK, Agent
<1>3. up' \in [Jobs -> Seq(UpFrame)]
  <2>1. AskFrame(agent[j].commits + 1, k) \in UpFrame
    BY <1>1, <1>2, FrameTypes
  <2> QED BY <2>1, NodeSendsType DEF Ask, TypeOK
<1>4. agent' \in [Jobs -> Agent]
  <2> DEFINE c == agent[j].commits + 1
  <2>1. \A p \in {"refused", "asking"} :
          [agent[j] EXCEPT !.phase = p, !.kind = k, !.commits = c] \in Agent
    <3>1. c \in 0 .. MaxCommits
      BY <1>2
    <3> HIDE DEF c
    <3> QED BY <1>1, <1>2, <3>1 DEF Agent
  <2>2. PICK p \in {"refused", "asking"} :
          agent' = [agent EXCEPT ![j] = [agent[j] EXCEPT !.phase = p, !.kind = k, !.commits = c]]
    BY DEF Ask, TypeOK
  <2> QED BY <2>1, <2>2 DEF TypeOK
<1> QED BY <1>3, <1>4 DEF Ask, TypeOK, dbVars, hubVars, histVars

LEMMA WroteType ==
  ASSUME TypeOK, NEW j \in Jobs, Wrote(j)
  PROVE  TypeOK'
<1>1. [agent[j] EXCEPT !.phase = "working"] \in Agent
  BY DEF TypeOK, Agent
<1>2. up' \in [Jobs -> Seq(UpFrame)]
  BY FrameTypes, NodeSendsType DEF Wrote, TypeOK
<1> QED BY <1>1, <1>2 DEF Wrote, TypeOK, dbVars, hubVars, histVars

LEMMA FinishType ==
  ASSUME TypeOK, NEW j \in Jobs, Finish(j)
  PROVE  TypeOK'
<1>1. PICK f \in Finals : Hold(j, f)
  BY ConstantsAssumption DEF Finish, Finals
<1> QED BY <1>1, HoldType DEF Finish, TypeOK, dbVars, hubVars, histVars

LEMMA DiesType ==
  ASSUME TypeOK, NEW j \in Jobs, Dies(j)
  PROVE  TypeOK'
<1>1. "error" \in Finals
  BY DEF Finals
<1> QED BY <1>1, HoldType DEF Dies, TypeOK, dbVars, hubVars, histVars

LEMMA NodeCrashType ==
  ASSUME TypeOK, NEW n \in Nodes, NodeCrash(n)
  PROVE  TypeOK'
<1>1. agent' \in [Jobs -> Agent]
  <2>1. NoAgent \in Agent
    BY ConstantsAssumption DEF NoAgent, Agent
  <2> QED BY <2>1 DEF NodeCrash, TypeOK
<1>2. journal' \in [Jobs -> Entry]
  <2>1. \A j \in Jobs : [journal[j] EXCEPT !.state = "lost"] \in Entry
    BY DEF TypeOK, Entry
  <2> QED BY <2>1 DEF NodeCrash, TypeOK
<1>3. greet' \in [Nodes -> Greeting]
  BY GreetingDroppedType DEF NodeCrash
<1>4. down' \in [Jobs -> Seq(DownFrame)]
  BY DEF NodeCrash, TypeOK
<1> QED BY <1>1, <1>2, <1>3, <1>4, FaultType DEF NodeCrash, TypeOK, dbVars, hubVars

-----------------------------------------------------------------------------
(* The type theorem *)

LEMMA InitType == Init => TypeOK
<1> SUFFICES ASSUME Init PROVE TypeOK
  OBVIOUS
<1>1. file \in [Files -> LedgerRecord]
  BY DEF Init, NewLedgerRecord, LedgerRecord, FileStates
<1>2. row \in [Jobs -> Row]
  BY DEF Init, UnusedRow, Row
<1>3. HandleOK
  BY DEF Init, NoHandle, Handle, HandleOK
<1>4. greet \in [Nodes -> Greeting]
  BY DEF Init, NoGreeting, Greeting, Directives
<1>5. up \in [Jobs -> Seq(UpFrame)] /\ down \in [Jobs -> Seq(DownFrame)]
  BY DEF Init
<1>6. journal \in [Jobs -> Entry]
  BY DEF Init, NoEntry, Entry
<1>7. agent \in [Jobs -> Agent]
  BY ConstantsAssumption DEF Init, NoAgent, Agent
<1>8. faults \in 0 .. MaxFaults
  BY ConstantsAssumption DEF Init
<1> QED BY <1>1, <1>2, <1>3, <1>4, <1>5, <1>6, <1>7, <1>8 DEF Init, TypeOK, HandleOK

LEMMA ServerStepType ==
  ASSUME TypeOK, NEW j \in Jobs, ServerJobStep(j)
  PROVE  TypeOK'
<1>1. CASE Prepared(j)     BY <1>1, PreparedType
<1>2. CASE PrepareFails(j) BY <1>2, PrepareFailsType
<1>3. CASE Lapse(j)        BY <1>3, LapseType
<1>4. CASE Sweep(j)        BY <1>4, SweepType
<1>5. CASE Floor(j)        BY <1>5, FloorType
<1>6. CASE HubStep(j)      BY <1>6, HubStepType
<1>7. CASE HubAsk(j)       BY <1>7, HubAskType
<1>8. CASE HubIgnores(j)   BY <1>8, HubIgnoresType
<1>9. CASE HubDone(j)      BY <1>9, HubDoneType
<1>10. CASE HubFailed(j)   BY <1>10, HubFailedType
<1>11. CASE HubLate(j)     BY <1>11, HubLateType
<1>12. CASE StatAnswered(j) BY <1>12, StatAnsweredType
<1>13. CASE StatFailed(j)  BY <1>13, StatFailedType
<1>14. CASE StallUnsent(j) BY <1>14, StallUnsentType
<1>15. CASE Adopt(j)       BY <1>15, AdoptType
<1> QED BY <1>1, <1>2, <1>3, <1>4, <1>5, <1>6, <1>7, <1>8, <1>9, <1>10, <1>11, <1>12,
           <1>13, <1>14, <1>15 DEF ServerJobStep

LEMMA NodeStepType ==
  ASSUME TypeOK, NEW j \in Jobs, NodeJobStep(j)
  PROVE  TypeOK'
<1>1. CASE ReceiveJob(j)     BY <1>1, ReceiveJobType
<1>2. CASE ReceiveCancel(j)  BY <1>2, ReceiveCancelType
<1>3. CASE ReceiveAbandon(j) BY <1>3, ReceiveAbandonType
<1>4. CASE ReceiveReply(j)   BY <1>4, ReceiveReplyType
<1>5. CASE ReceiveAck(j)     BY <1>5, ReceiveAckType
<1>6. CASE Fetched(j)        BY <1>6, FetchedType
<1>7. CASE Wrote(j)          BY <1>7, WroteType
<1>8. CASE Finish(j)         BY <1>8, FinishType
<1>9. CASE Dies(j)           BY <1>9, DiesType
<1>10. CASE \E k \in Kinds : Ask(j, k) BY <1>10, AskType
<1> QED BY <1>1, <1>2, <1>3, <1>4, <1>5, <1>6, <1>7, <1>8, <1>9, <1>10 DEF NodeJobStep

LEMMA EnvironmentType ==
  ASSUME TypeOK, Environment
  PROVE  TypeOK'
<1>1. CASE \E j \in Jobs : OperatorCancel(j) \/ StatHangs(j) \/ CrashInRelease(j)
  BY <1>1, OperatorCancelType, StatHangsType, CrashInReleaseType
<1>2. CASE \E f \in Files : Requeue(f) \/ CrashInClaim(f)
  BY <1>2, RequeueType, CrashInClaimType
<1>3. CASE \E n \in Nodes : HubClose(n) \/ NodeDrop(n) \/ NodeCrash(n)
  BY <1>3, HubCloseType, NodeDropType, NodeCrashType
<1>4. CASE DaemonCrash
  BY <1>4, DaemonCrashType
<1> QED BY <1>1, <1>2, <1>3, <1>4 DEF Environment

LEMMA StutterType ==
  ASSUME TypeOK, UNCHANGED vars
  PROVE  TypeOK'
BY DEF TypeOK, vars, dbVars, hubVars, wireVars, nodeVars, histVars

\* Every variable keeps its type in every reachable state, whatever the number
\* of files, nodes, jobs, commits and faults.
THEOREM TypeCorrect == Spec => []TypeOK
<1>1. TypeOK /\ [Next]_vars => TypeOK'
  <2> SUFFICES ASSUME TypeOK, [Next]_vars PROVE TypeOK'
    OBVIOUS
  <2>1. CASE \E f \in Files, n \in Nodes, j \in Jobs : Claim(f, n, j)
    BY <2>1, ClaimType
  <2>2. CASE \E j \in Jobs : ServerJobStep(j) \/ NodeJobStep(j)
    BY <2>2, ServerStepType, NodeStepType
  <2>3. CASE \E n \in Nodes : Connect(n) \/ HubHello(n) \/ Welcomed(n)
    BY <2>3, ConnectType, HubHelloType, WelcomedType
  <2>4. CASE \E f \in Files : ReapOrphan(f)
    BY <2>4, ReapOrphanType
  <2>5. CASE DaemonStart \/ DaemonReady
    BY <2>5, DaemonStartType, DaemonReadyType
  <2>6. CASE Environment
    BY <2>6, EnvironmentType
  <2>7. CASE UNCHANGED vars
    BY <2>7, StutterType
  <2> QED BY <2>1, <2>2, <2>3, <2>4, <2>5, <2>6, <2>7 DEF Next
<1> QED BY InitType, <1>1, PTL DEF Spec

-----------------------------------------------------------------------------
(* One open job per file *)

\* Jobs that end leave the others' claims alone, provided no file of an open
\* job is moved.  Most steps end no job (E is empty) and move no file.
LEMMA ClaimsKept ==
  ASSUME TypeOK, JobOrder, OpenJobLeads, NEW E \in SUBSET Jobs,
         \A j \in Jobs : row'[j].file = row[j].file,
         \A j \in Jobs \ E : row'[j].phase = row[j].phase,
         \A j \in E : Open(j) /\ row'[j].phase = "ended",
         \A j \in Jobs \ E : Open(j) => file'[row[j].file].state = "running"
  PROVE  JobOrder' /\ OpenJobLeads'
<1>1. \A j \in Jobs : (row'[j].phase = "unused") <=> (row[j].phase = "unused")
  BY DEF Open
<1>2. JobOrder'
  BY <1>1 DEF JobOrder
<1>3. \A f : JobsOf(f)' = JobsOf(f)
  BY <1>1 DEF JobsOf
<1>4. \A j \in Jobs : Open(j)' => j \notin E /\ Open(j)
  BY DEF Open
<1>5. OpenJobLeads'
  BY <1>3, <1>4 DEF OpenJobLeads
<1> QED BY <1>2, <1>5

\* No other open job is on the file of an open one.
LEMMA OpenJobsApart ==
  ASSUME OpenJobLeads, NEW j \in Jobs, NEW k \in Jobs, Open(j), Open(k),
         row[j].file = row[k].file
  PROVE  j = k
<1>1. j \in JobsOf(row[k].file) /\ k \in JobsOf(row[j].file)
  BY DEF JobsOf, Open
<1>2. j <= k /\ k <= j
  BY <1>1 DEF OpenJobLeads
<1> QED BY <1>2, ConstantsAssumption DEF Jobs

\* A settlement ends one open job and moves its file only.
LEMMA SettleKeepsClaims ==
  ASSUME TypeOK, ClaimInv, NEW j \in Jobs, NEW o, NEW l, Open(j), Settle(j, o, l),
         UNCHANGED daemon
  PROVE  ClaimInv'
<1>1. /\ \A k \in Jobs : row'[k].file = row[k].file
      /\ \A k \in Jobs \ {j} : row'[k] = row[k]
      /\ row'[j].phase = "ended"
  BY DEF Settle, TypeOK, Row
<1>2. \A k \in Jobs \ {j} : Open(k) => file'[row[k].file].state = "running"
  BY OpenJobsApart DEF Settle, TypeOK, ClaimInv, OpenJobLeads
<1>3. JobOrder' /\ OpenJobLeads'
  BY <1>1, <1>2, ClaimsKept, {j} \in SUBSET Jobs DEF ClaimInv
<1>4. \A k \in Jobs : handle'[k] = IF k = j THEN NoHandle ELSE handle[k]
  BY DEF Settle, TypeOK
<1>5. HandleOpen'
  BY <1>1, <1>4 DEF ClaimInv, HandleOpen, Open, NoHandle
<1> QED BY <1>3, <1>5 DEF ClaimInv

\* A step that neither starts nor ends a job, and gives no job a handle.
LEMMA OthersKeepClaims ==
  ASSUME TypeOK, ClaimInv,
         \A j \in Jobs : row'[j].file = row[j].file /\ row'[j].phase = row[j].phase,
         \A j \in Jobs : Open(j) => file'[row[j].file].state = "running",
         \A j \in Jobs : handle'[j].phase # "none" =>
            /\ handle[j].phase # "none" \/ Leased(j)
            /\ daemon' # "down"
            /\ daemon' = "starting" => row'[j].lease.state # "none"
  PROVE  ClaimInv'
<1>1. {} \in SUBSET Jobs
  OBVIOUS
<1>2. JobOrder' /\ OpenJobLeads'
  BY <1>1, ClaimsKept DEF ClaimInv
<1>3. HandleOpen'
  BY DEF ClaimInv, HandleOpen, Open, Leased
<1> QED BY <1>2, <1>3 DEF ClaimInv

\* Steps of the wire, of a node and of an agent touch neither rows nor handles.
LEMMA QuietKeepsClaims ==
  ASSUME ClaimInv, UNCHANGED <<file, row, handle, daemon>>
  PROVE  ClaimInv'
BY DEF ClaimInv, JobOrder, OpenJobLeads, HandleOpen, Open, JobsOf

LEMMA ClaimKeepsClaims ==
  ASSUME TypeOK, ClaimInv, NEW f \in Files, NEW n \in Nodes, NEW j \in Jobs, Claim(f, n, j)
  PROVE  ClaimInv'
<1>1. /\ row'[j].phase = "open" /\ row'[j].file = f
      /\ \A k \in Jobs \ {j} : row'[k] = row[k]
  BY DEF Claim, TypeOK, UnusedRow
<1>2. \A k \in Jobs : Open(k) => row[k].file # f
  BY DEF Claim, IsEligible, ClaimInv, OpenJobLeads
<1>3. \A k \in Jobs : row[k].phase # "unused" => k < j
  <2>1. row[j].phase = "unused"
    BY DEF Claim
  <2> QED BY <2>1, ConstantsAssumption DEF ClaimInv, JobOrder, Jobs
<1>4. JobOrder'
  BY <1>1, <1>3, ConstantsAssumption DEF Claim, ClaimInv, JobOrder, Jobs
<1>5. OpenJobLeads'
  <2> SUFFICES ASSUME NEW i \in Jobs, Open(i)'
               PROVE  /\ row'[i].file \in Files
                      /\ file'[row'[i].file].state = "running"
                      /\ \A k \in JobsOf(row[i].file)' : k <= i
    BY DEF OpenJobLeads
  <2>1. CASE i = j
    <3>1. file'[f].state = "running"
      BY DEF Claim, TypeOK, LedgerRecord
    <3>2. \A k \in JobsOf(f)' : k <= j
      BY <1>1, <1>3, ConstantsAssumption DEF JobsOf, Jobs
    <3> QED BY <2>1, <1>1, <3>1, <3>2
  <2>2. CASE i # j
    <3>1. Open(i) /\ row'[i] = row[i] /\ row[i].file # f
      BY <2>2, <1>1, <1>2 DEF Open
    <3>2. JobsOf(row[i].file)' = JobsOf(row[i].file)
      BY <1>1, <1>3, <3>1 DEF JobsOf, Claim
    <3>3. file'[row[i].file] = file[row[i].file]
      BY <3>1 DEF Claim, TypeOK, ClaimInv, OpenJobLeads
    <3> QED BY <3>1, <3>2, <3>3 DEF ClaimInv, OpenJobLeads
  <2> QED BY <2>1, <2>2
<1>6. HandleOpen'
  BY <1>1 DEF Claim, ClaimInv, HandleOpen, Open, TypeOK
<1> QED BY <1>4, <1>5, <1>6 DEF ClaimInv

LEMMA PreparedKeepsClaims ==
  ASSUME TypeOK, ClaimInv, NEW j \in Jobs, Prepared(j)
  PROVE  ClaimInv'
<1>1. Open(j) /\ daemon' = daemon
  BY DEF Prepared, ClaimInv, HandleOpen
<1>2. CASE \E o, l : Settle(j, o, l)
  BY <1>1, <1>2, SettleKeepsClaims
<1>3. CASE /\ row' = [row EXCEPT ![j].lease = LeaseOnClaim]
           /\ handle' = [handle EXCEPT ![j].phase = "running"]
           /\ UNCHANGED file
  <2>1. /\ \A k \in Jobs : row'[k].file = row[k].file /\ row'[k].phase = row[k].phase
        /\ row'[j].lease.state = "connected"
        /\ \A k \in Jobs \ {j} : row'[k] = row[k] /\ handle'[k] = handle[k]
    BY <1>3 DEF TypeOK, Row, LeaseOnClaim
  <2>2. handle[j].phase # "none"
    BY DEF Prepared
  <2> QED BY <1>1, <1>3, <2>1, <2>2, OthersKeepClaims DEF ClaimInv, OpenJobLeads, HandleOpen
<1> QED BY <1>2, <1>3 DEF Prepared

LEMMA SettlingKeepsClaims ==
  ASSUME TypeOK, ClaimInv, NEW j \in Jobs,
         \/ PrepareFails(j) \/ HubFailed(j) \/ StatAnswered(j) \/ StatFailed(j)
         \/ Sweep(j) \/ Floor(j)
  PROVE  ClaimInv'
<1>1. Open(j)
  BY DEF PrepareFails, HubFailed, StatAnswered, StatFailed, Sweep, Floor, Leased,
         ClaimInv, HandleOpen
<1>2. daemon' = daemon /\ \E o, l : Settle(j, o, l)
  BY DEF PrepareFails, HubFailed, StatAnswered, StatFailed, Sweep, Floor, Release
<1> QED BY <1>1, <1>2, SettleKeepsClaims

\* A lease moves.
LEMMA LeaseStepKeepsClaims ==
  ASSUME TypeOK, ClaimInv, UNCHANGED <<file, daemon, handle>>,
         \A j \in Jobs : /\ row'[j].file = row[j].file
                         /\ row'[j].phase = row[j].phase
                         /\ row[j].lease.state # "none" => row'[j].lease.state # "none"
  PROVE  ClaimInv'
BY OthersKeepClaims DEF ClaimInv, OpenJobLeads, HandleOpen

LEMMA LapseKeepsClaims ==
  ASSUME TypeOK, ClaimInv, NEW j \in Jobs, Lapse(j)
  PROVE  ClaimInv'
<1>1. row[j].lease \in Lease
  BY LeasedType DEF Lapse
<1>2. [row[j].lease EXCEPT !.lapsed = TRUE].state = row[j].lease.state
  BY <1>1 DEF Lease
<1>3. row' = [row EXCEPT ![j].lease = [row[j].lease EXCEPT !.lapsed = TRUE]]
  BY DEF Lapse, TypeOK
<1> QED BY <1>2, <1>3, LeaseStepKeepsClaims DEF Lapse, hubVars, TypeOK, Row

\* A lease that was written is never erased.
LEMMA LeaseStays ==
  ASSUME NEW l \in Lease
  PROVE  /\ l.state # "none"
         /\ LeaseAfterStep(l).state # "none"
         /\ LeaseOnDisconnect(l).state # "none"
         /\ \A k : LeaseOnGrant(l, k).state # "none"
BY LeaseTypes DEF Lease

LEMMA HubStepKeepsClaims ==
  ASSUME TypeOK, ClaimInv, NEW j \in Jobs, HubStep(j)
  PROVE  ClaimInv'
<1>1. CASE row' = row
  BY <1>1, QuietKeepsClaims DEF HubStep, hubVars
<1>2. CASE Leased(j) /\ row' = [row EXCEPT ![j].lease = LeaseAfterStep(@)]
  BY <1>2, LeasedType, LeaseStays, LeaseStepKeepsClaims DEF HubStep, hubVars, TypeOK, Row
<1> QED BY <1>1, <1>2 DEF HubStep

LEMMA HubAskKeepsClaims ==
  ASSUME TypeOK, ClaimInv, NEW j \in Jobs, HubAsk(j)
  PROVE  ClaimInv'
<1>1. CASE ~ Granted(j)
  BY <1>1, QuietKeepsClaims DEF HubAsk, hubVars
<1>2. CASE Granted(j)
  <2>1. row[j].lease \in Lease
    BY <1>2, LeasedType DEF Granted
  <2>2. row' = [row EXCEPT ![j].lease = LeaseOnGrant(row[j].lease, Head(up[j]).body)]
    BY <1>2 DEF HubAsk, TypeOK
  <2> QED BY <2>1, <2>2, LeaseStays, LeaseStepKeepsClaims DEF HubAsk, hubVars, TypeOK, Row
<1> QED BY <1>1, <1>2

LEMMA HubCloseKeepsClaims ==
  ASSUME TypeOK, ClaimInv, NEW n \in Nodes, HubClose(n)
  PROVE  ClaimInv'
<1>1. ASSUME NEW j \in Jobs
      PROVE  /\ row'[j].file = row[j].file /\ row'[j].phase = row[j].phase
             /\ row[j].lease.state # "none" => row'[j].lease.state # "none"
  <2>1. row'[j] = IF row[j].node = n /\ Leased(j)
                  THEN [row[j] EXCEPT !.lease = LeaseOnDisconnect(row[j].lease)] ELSE row[j]
    BY DEF HubClose
  <2>2. row[j] \in Row
    BY DEF TypeOK
  <2> QED BY <2>1, <2>2, LeasedType, LeaseStays DEF Row
<1> QED BY <1>1, LeaseStepKeepsClaims DEF HubClose

\* A handle that is already there moves on.
LEMMA HandleStepKeepsClaims ==
  ASSUME TypeOK, ClaimInv, NEW j \in Jobs,
         OperatorCancel(j) \/ HubDone(j) \/ StatHangs(j)
  PROVE  ClaimInv'
<1>1. /\ \A k \in Jobs \ {j} : row'[k] = row[k] /\ handle'[k] = handle[k]
      /\ row'[j].file = row[j].file /\ row'[j].phase = row[j].phase
      /\ row'[j].lease = row[j].lease
  BY DEF OperatorCancel, HubDone, StatHangs, dbVars, TypeOK, Row
<1>2. handle[j].phase # "none" /\ UNCHANGED <<file, daemon>>
  BY DEF OperatorCancel, HubDone, StatHangs, dbVars
<1> QED BY <1>1, <1>2, OthersKeepClaims DEF ClaimInv, OpenJobLeads, HandleOpen

\* A ledger record moves on a file no open job is on.
LEMMA FileStepKeepsClaims ==
  ASSUME TypeOK, ClaimInv, NEW f \in Files,
         Requeue(f) \/ ReapOrphan(f)
  PROVE  ClaimInv'
<1>1. \A j \in Jobs : Open(j) => row[j].file # f
  BY DEF Requeue, ReapOrphan, JobsOf, Open
<1>2. \A g \in Files \ {f} : file'[g] = file[g]
  BY DEF Requeue, ReapOrphan, TypeOK
<1>3. UNCHANGED <<row, daemon, handle>>
  BY DEF Requeue, ReapOrphan, hubVars
<1> QED BY <1>1, <1>2, <1>3, OthersKeepClaims DEF ClaimInv, OpenJobLeads, HandleOpen

LEMMA DaemonGoneKeepsClaims ==
  ASSUME TypeOK, ClaimInv,
         DaemonCrash \/ (\E f \in Files : CrashInClaim(f)) \/ (\E j \in Jobs : CrashInRelease(j))
  PROVE  ClaimInv'
<1>1. \A j \in Jobs : handle'[j].phase = "none"
  <2>1. DaemonGone
    BY DEF DaemonCrash, CrashInClaim, CrashInRelease
  <2> QED BY <2>1 DEF DaemonGone, NoHandle
<1>2. \A j \in Jobs : row'[j].file = row[j].file /\ row'[j].phase = row[j].phase
  <2>1. CASE row' = row
    BY <2>1
  <2>2. CASE \E j \in Jobs : row' = [row EXCEPT ![j].lease = Expired(j)]
    BY <2>2 DEF TypeOK, Row
  <2> QED BY <2>1, <2>2 DEF DaemonCrash, CrashInClaim, CrashInRelease, dbVars
<1>3. \A j \in Jobs : Open(j) => file'[row[j].file].state = "running"
  BY DEF DaemonCrash, CrashInClaim, CrashInRelease, dbVars, TypeOK, LedgerRecord,
         ClaimInv, OpenJobLeads, IsEligible
<1> QED BY <1>1, <1>2, <1>3, OthersKeepClaims

LEMMA DaemonStepKeepsClaims ==
  ASSUME TypeOK, ClaimInv, DaemonStart \/ DaemonReady
  PROVE  ClaimInv'
<1>1. UNCHANGED <<file, row, handle>> /\ daemon' # "down"
  BY DEF DaemonStart, DaemonReady, dbVars
<1>2. daemon' = "starting" => daemon = "down"
  BY DEF DaemonStart, DaemonReady
<1> QED BY <1>1, <1>2, OthersKeepClaims DEF ClaimInv, OpenJobLeads, HandleOpen

LEMMA StallUnsentKeepsClaims ==
  ASSUME TypeOK, ClaimInv, NEW j \in Jobs, StallUnsent(j)
  PROVE  ClaimInv'
<1>1. Open(j) /\ handle[j].phase = "none"
  BY DEF StallUnsent, Unsent, ClaimInv, HandleOpen
<1>2. /\ \A k \in Jobs : row'[k].file = row[k].file /\ row'[k].lease = row[k].lease
      /\ \A k \in Jobs \ {j} : row'[k] = row[k]
      /\ row'[j].phase = "ended"
  BY DEF StallUnsent, TypeOK, Row
<1>3. \A k \in Jobs \ {j} : Open(k) => file'[row[k].file].state = "running"
  BY <1>1, OpenJobsApart DEF StallUnsent, TypeOK, ClaimInv, OpenJobLeads
<1>4. JobOrder' /\ OpenJobLeads'
  BY <1>1, <1>2, <1>3, ClaimsKept, {j} \in SUBSET Jobs DEF ClaimInv
<1>5. HandleOpen'
  BY <1>1, <1>2 DEF StallUnsent, hubVars, ClaimInv, HandleOpen, Open
<1> QED BY <1>4, <1>5 DEF ClaimInv

LEMMA AdoptKeepsClaims ==
  ASSUME TypeOK, ClaimInv, NEW j \in Jobs, Adopt(j)
  PROVE  ClaimInv'
<1> DEFINE lease == LeaseOnDaemonStart(row[j].lease)
<1>1. CASE lease.state = "expired"
  <2>1. Open(j) /\ daemon' = daemon /\ \E o, l : Settle(j, o, l)
    BY <1>1 DEF Adopt, Leased
  <2> QED BY <2>1, SettleKeepsClaims
<1>2. CASE lease.state # "expired"
  <2>1. row' = [row EXCEPT ![j].lease = lease] /\ UNCHANGED <<file, daemon>>
    BY <1>2 DEF Adopt
  <2>2. lease.state # "none"
    BY LeasedType, LeaseTypes DEF Adopt, Lease
  <2>3. /\ \A k \in Jobs \ {j} : row'[k] = row[k] /\ handle'[k] = handle[k]
        /\ row'[j].file = row[j].file /\ row'[j].phase = row[j].phase
        /\ row'[j].lease = lease
    <3> HIDE DEF lease
    <3> QED BY <1>2, <2>1 DEF Adopt, TypeOK, Row, lease
  <2>4. Leased(j) /\ daemon = "starting"
    BY DEF Adopt
  <2> HIDE DEF lease
  <2> QED BY <2>1, <2>2, <2>3, <2>4, OthersKeepClaims DEF ClaimInv, OpenJobLeads, HandleOpen
<1> QED BY <1>1, <1>2

LEMMA HubHelloKeepsClaims ==
  ASSUME TypeOK, ClaimInv, NEW n \in Nodes, HubHello(n)
  PROVE  ClaimInv'
<1> DEFINE snap     == greet[n].jobs
           mine     == JobsOn(n)
           released == {j \in mine : ReleasedBy(j, snap[j])}
           flushed  == {j \in mine : /\ Continues(j, snap[j]) \/ Delivers(j, snap[j])
                                     /\ handle[j].phase # "none" /\ handle[j].pending}
<1>1. released \in SUBSET Jobs /\ \A j \in released : Open(j)
  BY DEF JobsOn, ReleasedBy, Live, Leased
<1>2. \A j \in Jobs : row'[j] = IF j \in mine THEN RowAfterHello(j, snap[j]) ELSE row[j]
  BY DEF HubHello
<1>3. ASSUME NEW j \in Jobs
      PROVE  /\ row'[j].file = row[j].file
             /\ j \in released => row'[j].phase = "ended"
             /\ j \notin released => row'[j].phase = row[j].phase
  <2>1. row[j] \in Row
    BY DEF TypeOK
  <2>2. CASE j \in released
    <3>1. ReleasedBy(j, snap[j]) /\ ~ Continues(j, snap[j]) /\ ~ Delivers(j, snap[j])
      BY <2>2 DEF ReleasedBy, Delivers, Continues
    <3>2. row'[j] = [row[j] EXCEPT !.phase = "ended", !.lease = Expired(j)]
      BY <1>2, <2>2, <3>1 DEF RowAfterHello
    <3> QED BY <2>1, <2>2, <3>2 DEF Row
  <2>3. CASE j \notin released
    <3>1. row'[j] \in {row[j], [row[j] EXCEPT !.lease = LeaseOnReconnect(@)],
                       [row[j] EXCEPT !.lease = LeaseOnClaim]}
      BY <1>2, <2>3 DEF RowAfterHello
    <3> QED BY <2>1, <2>3, <3>1 DEF Row
  <2> QED BY <2>2, <2>3
<1>4. \A j \in Jobs \ released : Open(j) => file'[row[j].file].state = "running"
  <2> SUFFICES ASSUME NEW j \in Jobs \ released, Open(j)
               PROVE  file'[row[j].file].state = "running"
    OBVIOUS
  <2>1. ~ \E k \in released : row[k].file = row[j].file
    BY <1>1, OpenJobsApart DEF ClaimInv
  <2>2. file'[row[j].file] = file[row[j].file]
    BY <2>1 DEF HubHello, ClaimInv, OpenJobLeads
  <2> QED BY <2>2 DEF ClaimInv, OpenJobLeads
<1>5. JobOrder' /\ OpenJobLeads'
  <2> HIDE DEF released
  <2> QED BY <1>1, <1>3, <1>4, ClaimsKept DEF ClaimInv
<1>6. HandleOpen'
  <2>1. handle' = [j \in Jobs |-> CASE j \in released -> NoHandle
                                    [] j \in flushed  -> [handle[j] EXCEPT !.pending = FALSE]
                                    [] OTHER          -> handle[j]]
    BY DEF HubHello
  <2>2. daemon = "up" /\ daemon' = "up"
    BY DEF HubHello
  <2> SUFFICES ASSUME NEW j \in Jobs, handle'[j].phase # "none"
               PROVE  Open(j)'
    BY <2>2 DEF HandleOpen
  <2>3. j \notin released /\ handle[j].phase # "none"
    <3>1. handle[j] \in Handle
      BY DEF TypeOK
    <3>4. j \in released => j \notin flushed
      BY DEF ReleasedBy, Continues, Delivers
    <3> HIDE DEF released, flushed
    <3>2. CASE j \in released
      BY <2>1, <3>2, <3>4 DEF NoHandle
    <3>3. CASE j \notin released
      <4>1. handle'[j] \in {[handle[j] EXCEPT !.pending = FALSE], handle[j]}
        BY <2>1, <3>3
      <4> QED BY <3>1, <3>3, <4>1 DEF Handle
    <3> QED BY <3>2, <3>3
  <2> QED BY <1>3, <2>3 DEF ClaimInv, HandleOpen, Open
<1> QED BY <1>5, <1>6 DEF ClaimInv

LEMMA InitClaims == Init => ClaimInv
BY DEF Init, ClaimInv, JobOrder, OpenJobLeads, HandleOpen, Open, UnusedRow, NoHandle

LEMMA StepKeepsClaims ==
  ASSUME TypeOK, ClaimInv, [Next]_vars
  PROVE  ClaimInv'
<1>1. CASE \E f \in Files, n \in Nodes, j \in Jobs : Claim(f, n, j)
  BY <1>1, ClaimKeepsClaims
<1>2. ASSUME NEW j \in Jobs, ServerJobStep(j)
      PROVE  ClaimInv'
  <2>1. CASE HubIgnores(j) \/ HubLate(j)
    BY <2>1, QuietKeepsClaims DEF HubIgnores, HubLate, dbVars, hubVars
  <2>2. CASE HubDone(j)
    BY <2>2, HandleStepKeepsClaims
  <2> QED BY <1>2, <2>1, <2>2, PreparedKeepsClaims, SettlingKeepsClaims, LapseKeepsClaims,
             HubStepKeepsClaims, HubAskKeepsClaims, StallUnsentKeepsClaims, AdoptKeepsClaims
          DEF ServerJobStep
<1>3. ASSUME NEW j \in Jobs, NodeJobStep(j)
      PROVE  ClaimInv'
  <2>1. UNCHANGED <<file, row, handle, daemon>>
    BY <1>3 DEF NodeJobStep, ReceiveJob, ReceiveCancel, ReceiveAbandon, ReceiveReply,
                ReceiveAck, Fetched, Wrote, Finish, Dies, Ask, dbVars, hubVars
  <2> QED BY <2>1, QuietKeepsClaims
<1>4. ASSUME NEW n \in Nodes, Connect(n) \/ Welcomed(n) \/ NodeDrop(n) \/ NodeCrash(n)
      PROVE  ClaimInv'
  BY <1>4, QuietKeepsClaims DEF Connect, Welcomed, NodeDrop, NodeCrash, dbVars, hubVars
<1>5. CASE Environment
  BY <1>4, <1>5, HandleStepKeepsClaims, FileStepKeepsClaims, DaemonGoneKeepsClaims,
     HubCloseKeepsClaims DEF Environment
<1>6. CASE UNCHANGED vars
  BY <1>6, QuietKeepsClaims DEF vars, dbVars, hubVars
<1> QED BY <1>1, <1>2, <1>3, <1>4, <1>5, <1>6, HubHelloKeepsClaims, FileStepKeepsClaims,
           DaemonStepKeepsClaims DEF Next

\* The last job started for a file is the open one.
LEMMA ClaimsGiveOwnership ==
  ASSUME ClaimInv
  PROVE  OneOpenJobPerFile
<1> SUFFICES ASSUME NEW j \in Jobs, Open(j) PROVE Holds(j)
  BY DEF OneOpenJobPerFile
<1> DEFINE js == JobsOf(row[j].file)
<1>1. j \in js /\ \A k \in js : k <= j
  BY DEF JobsOf, Open, ClaimInv, OpenJobLeads
<1>2. Latest(row[j].file) = j
  <2>1. Latest(row[j].file) \in js /\ \A k \in js : k <= Latest(row[j].file)
    BY <1>1 DEF Latest
  <2>2. j \in Nat /\ Latest(row[j].file) \in Nat
    BY <1>1, <2>1, ConstantsAssumption DEF JobsOf, Jobs
  <2>3. j <= Latest(row[j].file) /\ Latest(row[j].file) <= j
    BY <1>1, <2>1
  <2> QED BY <2>2, <2>3
<1> QED BY <1>2 DEF Holds, ClaimInv, OpenJobLeads

\* Jobs start in order, an open job is the last one of its file and the file is
\* in work, and only an open job has a handle: every action of the daemon, of a
\* node and of the network keeps it so.
THEOREM ClaimsHold == Spec => []ClaimInv
<1>1. TypeOK /\ ClaimInv /\ [Next]_vars => ClaimInv'
  BY StepKeepsClaims
<1> QED BY TypeCorrect, InitClaims, <1>1, PTL DEF Spec

\* In every reachable state a file in work has one open job, the last one
\* started for it, through crashes of the daemon and of the nodes, lost sockets,
\* requeues and cancels.
THEOREM OneOpenJob == Spec => []OneOpenJobPerFile
BY ClaimsHold, ClaimsGiveOwnership, PTL
=============================================================================
