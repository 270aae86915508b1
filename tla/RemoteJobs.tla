----------------------------- MODULE RemoteJobs -----------------------------
(***************************************************************************)
(* Jobs run on remote nodes: who may write a library file, and what        *)
(* becomes of a job when a socket, a node or the daemon goes away.         *)
(*                                                                         *)
(*   daemon   daemon/supervisor.ts, nodes/hub.ts, nodes/remote-agent.ts,   *)
(*            db/job-repo.ts, db/media-file-repo.ts, worker/apply-report.ts *)
(*   node     node/node-host.ts, node/journal.ts and the agent it runs     *)
(*                                                                         *)
(* JavaScript runs a handler, and the microtasks it queues, to completion, *)
(* so one action is one handler together with the settlement it triggers.  *)
(* Frames of one job are delivered in order; a frame handed to a socket    *)
(* the peer has left is lost.                                              *)
(***************************************************************************)
EXTENDS Naturals, Sequences, FiniteSets, Lease, Ledger

CONSTANTS
  Files,       \* media_file rows
  Nodes,       \* enrolled remote nodes
  MaxJobs,     \* bound: job rows ever started
  MaxCommits,  \* bound: commits one run asks for
  MaxFaults,   \* bound: crashes, dropped sockets, refused jobs, hung stats
  Kinds,       \* the commits the flows ask for, a subset of CommitKinds
  Reports,     \* the ways a run may finish by itself, a subset of RunReports
  Cancellable  \* the jobs an operator may cancel

Jobs == 1 .. MaxJobs   \* in the order they are started

CommitKinds == {"replace", "plugin"}
RunReports  == {"success", "noop", "failure", "review"}

ASSUME ConstantsAssumption ==
  /\ MaxJobs \in Nat /\ MaxCommits \in Nat /\ MaxFaults \in Nat
  /\ Kinds \subseteq CommitKinds
  /\ Reports \subseteq RunReports
  /\ Cancellable \subseteq Jobs
  /\ "none" \notin Files /\ "none" \notin Nodes

VARIABLES
  \* the database
  file,     \* media_file: the ledger record of each file
  row,      \* job: phase, file, node, lease and cancel_requested_at of each job
  \* the daemon's memory
  daemon,   \* "down", "starting" (adopting what the last one left), "up"
  conn,     \* the hub's current socket for each node
  handle,   \* the remote agent handle of each job
  \* the wire
  greet,    \* the hello or welcome in flight on each node's socket
  up,       \* frames of each job from its node to the hub
  down,     \* frames of each job from the hub to its node
  \* the nodes
  link,     \* each node's side of its socket
  journal,  \* the journal entry of each job
  agent,    \* the agent process of each job
  \* history and bounds
  floored,  \* jobs whose writer the 24 h floor gave up on
  faults

dbVars   == <<file, row>>
hubVars  == <<daemon, conn, handle>>
wireVars == <<greet, up, down>>
nodeVars == <<link, journal, agent>>
histVars == <<floored, faults>>
vars     == <<dbVars, hubVars, wireVars, nodeVars, histVars>>

-----------------------------------------------------------------------------
(* Values *)

\* What ends a run.  Beside its own report, an agent may fail ("error": it
\* died, or never started), find its commit refused ("superseded"), or report
\* that it was stopped by a cancel ("cancelled").
Finals == RunReports \cup {"error", "superseded", "cancelled"}

UpFrame   == [type : {"step", "ask", "final"}, id : 0 .. MaxCommits,
              body : {"none"} \cup CommitKinds \cup Finals]
DownFrame == [type : {"job", "cancel", "abandon", "ack-report", "commit-result"},
              id : 0 .. MaxCommits, granted : BOOLEAN]

StepFrame         == [type |-> "step", id |-> 0, body |-> "none"]
AskFrame(id, k)   == [type |-> "ask", id |-> id, body |-> k]
FinalFrame(f)     == [type |-> "final", id |-> 0, body |-> f]
Notice(t)         == [type |-> t, id |-> 0, granted |-> FALSE]
Reply(id, grant)  == [type |-> "commit-result", id |-> id, granted |-> grant]

Row     == [phase : {"unused", "open", "ended"}, file : Files \cup {"none"},
            node : Nodes \cup {"none"}, lease : Lease \cup {NoLease}, cancel : BOOLEAN]
Handle  == [phase : {"none", "preparing", "running", "settling", "hung"},
            cancelled : BOOLEAN, pending : BOOLEAN, report : {"none"} \cup Finals]
Entry   == [state : {"none", "running", "held", "lost"}, final : {"none"} \cup Finals]
Agent   == [phase : {"none", "fetching", "working", "asking", "writing", "refused"},
            kind : {"none"} \cup CommitKinds, commits : 0 .. MaxCommits,
            stop : BOOLEAN, abandoned : BOOLEAN]

\* A hello carries journal states, a welcome one directive for each of them.
Directives == {"none", "running", "held", "lost", "continue", "apply", "abandon"}
Greeting   == [stage : {"none", "hello", "welcome"}, jobs : [Jobs -> Directives]]

UnusedRow == [phase |-> "unused", file |-> "none", node |-> "none",
              lease |-> NoLease, cancel |-> FALSE]
NoHandle  == [phase |-> "none", cancelled |-> FALSE, pending |-> FALSE, report |-> "none"]
NoEntry   == [state |-> "none", final |-> "none"]
NoAgent   == [phase |-> "none", kind |-> "none", commits |-> 0,
              stop |-> FALSE, abandoned |-> FALSE]
NoGreeting == [stage |-> "none", jobs |-> [j \in Jobs |-> "none"]]

Init ==
  /\ file = [f \in Files |-> [NewLedgerRecord EXCEPT !.state = "queued"]]
  /\ row = [j \in Jobs |-> UnusedRow]
  /\ daemon = "up"
  /\ conn = [n \in Nodes |-> "none"]
  /\ handle = [j \in Jobs |-> NoHandle]
  /\ greet = [n \in Nodes |-> NoGreeting]
  /\ up = [j \in Jobs |-> <<>>]
  /\ down = [j \in Jobs |-> <<>>]
  /\ link = [n \in Nodes |-> "down"]
  /\ journal = [j \in Jobs |-> NoEntry]
  /\ agent = [j \in Jobs |-> NoAgent]
  /\ floored = {}
  /\ faults = 0

-----------------------------------------------------------------------------
(* Reading the state *)

Open(j)     == row[j].phase = "open"
Leased(j)   == Open(j) /\ row[j].lease.state # "none"
Live(j)     == Leased(j) /\ row[j].lease.state # "expired"
JobsOf(f)   == {j \in Jobs : row[j].phase # "unused" /\ row[j].file = f}
JobsOn(n)   == {j \in Jobs : row[j].node = n}
Latest(f)   == CHOOSE j \in JobsOf(f) : \A k \in JobsOf(f) : k <= j
Holds(j)    == /\ file[row[j].file].state = "running"
               /\ Latest(row[j].file) = j
               /\ Open(j)
Online(j)   == row[j].node \in Nodes /\ conn[row[j].node] = "welcomed"
Running(j)  == agent[j].phase # "none"
Writing(j)  == agent[j].phase = "writing"
Settling(j) == handle[j].phase = "settling"

\* A frame the hub sends for job j: into a socket its node still reads, or lost.
\* Nothing is sent when the node has no welcomed socket.
HubSends(q, j, frame) ==
  IF Online(j) /\ link[row[j].node] # "down" THEN [q EXCEPT ![j] = Append(@, frame)] ELSE q

\* A frame node-host sends for job j: only on a welcomed socket.
NodeSends(q, j, frame) ==
  IF link[row[j].node] = "up" /\ Online(j) THEN [q EXCEPT ![j] = Append(@, frame)] ELSE q

Fault == faults < MaxFaults /\ faults' = faults + 1

-----------------------------------------------------------------------------
(* Settlement: supervisor settleJob and the folds of apply-report.ts *)

Rivals(j) == {k \in JobsOf(row[j].file) \ {j} : Open(k) \/ k > j}

\* The ledger record that outcome o of job j leaves its file with.
Settled(j, o) ==
  LET r == file[row[j].file] IN
  CASE o \in RunReports   -> ApplyRunOutcome(r, o)
    [] o = "cancelled"    -> IF Rivals(j) = {} THEN ApplyRequeue(r) ELSE r
    [] o = "unsent"       -> ApplyReleaseUnpenalised(r)
    [] o = "superseded"   -> IF Holds(j) THEN ApplyStall(r) ELSE r
    [] o = "unrecordable" -> ApplyStall([r EXCEPT !.review = @ \/ handle[j].report = "review"])
    [] o = "error"        -> ApplyStall(r)

\* Mutant: the settlement leaves the handle of the job behind.
SettleKeepsHandle(j, o, lease) ==
  /\ file' = [file EXCEPT ![row[j].file] = Settled(j, o)]
  /\ row' = [row EXCEPT ![j].phase = "ended", ![j].lease = lease]
  /\ UNCHANGED handle

\* Every ending closes the row; the node is then told to forget its report.
Settle(j, o, lease) ==
  /\ file' = [file EXCEPT ![row[j].file] = Settled(j, o)]
  /\ row' = [row EXCEPT ![j].phase = "ended", ![j].lease = lease]
  /\ handle' = [handle EXCEPT ![j] = NoHandle]

\* A failure of a run whose handle was cancelled is the operator's decision.
FailureOf(j, o) == IF handle[j].cancelled THEN "cancelled" ELSE o

Expired(j) == [row[j].lease EXCEPT !.state = "expired"]

-----------------------------------------------------------------------------
(* Claiming a file and sending its job *)

\* supervisor reconcile + startWorker, with claimNext.
Claim(f, n, j) ==
  /\ daemon = "up" /\ conn[n] = "welcomed"
  /\ IsEligible(file[f], TRUE)
  /\ row[j].phase = "unused" /\ \A k \in Jobs : k < j => row[k].phase # "unused"
  /\ file' = [file EXCEPT ![f].state = "running"]
  /\ row' = [row EXCEPT ![j] = [UnusedRow EXCEPT !.phase = "open", !.file = f, !.node = n]]
  /\ handle' = [handle EXCEPT ![j] = [NoHandle EXCEPT !.phase = "preparing"]]
  /\ UNCHANGED <<daemon, conn, wireVars, nodeVars, histVars>>

\* prepare answered: the lease is written, then the job frame is sent.
Prepared(j) ==
  /\ handle[j].phase = "preparing"
  /\ \/ /\ handle[j].cancelled
        /\ Settle(j, "cancelled", NoLease)
        /\ down' = HubSends(down, j, Notice("ack-report"))
     \/ /\ ~ handle[j].cancelled /\ Online(j)
        /\ row' = [row EXCEPT ![j].lease = LeaseOnClaim]
        /\ handle' = [handle EXCEPT ![j].phase = "running"]
        /\ down' = HubSends(down, j, Notice("job"))
        /\ UNCHANGED file
     \/ /\ ~ handle[j].cancelled /\ ~ Online(j)
        /\ Settle(j, "unsent", LeaseOnClaim)
        /\ UNCHANGED down
  /\ UNCHANGED <<daemon, conn, greet, up, nodeVars, histVars>>

\* prepare threw: the path no longer maps ("unsent"), or any other error.
PrepareFails(j) ==
  /\ handle[j].phase = "preparing"
  /\ \E o \in {"unsent", "error"} : Settle(j, FailureOf(j, o), NoLease)
  /\ down' = HubSends(down, j, Notice("ack-report"))
  /\ UNCHANGED <<daemon, conn, greet, up, nodeVars, histVars>>

-----------------------------------------------------------------------------
(* Releasing a claim: hub release *)

Release(j) ==
  /\ Settle(j, FailureOf(j, "error"), Expired(j))
  /\ down' = HubSends(HubSends(down, j, Notice("abandon")), j, Notice("ack-report"))

\* The clock reaches a grace lease's deadline.
Lapse(j) ==
  /\ Leased(j) /\ row[j].lease.state = "grace" /\ ~ row[j].lease.lapsed
  /\ row' = [row EXCEPT ![j].lease.lapsed = TRUE]
  /\ UNCHANGED <<file, hubVars, wireVars, nodeVars, histVars>>

\* sweepLeases, for a grace that has run out.
Sweep(j) ==
  /\ daemon = "up" /\ Leased(j) /\ LeaseIsExpired(row[j].lease) /\ ~ Settling(j)
  /\ Release(j)
  /\ UNCHANGED <<daemon, conn, greet, up, nodeVars, histVars>>

\* An agent sends a heartbeat a minute for as long as its socket is welcomed.
Audible(j) == Running(j) /\ Online(j) /\ link[row[j].node] = "up"

\* sweepLeases, for a job silent for 24 hours.  A node that still answers pings
\* has read every frame by then; one that is suspended may read a grant later.
Floor(j) ==
  /\ daemon = "up" /\ Leased(j) /\ row[j].lease.state \in {"connected", "committing"}
  /\ ~ Settling(j) /\ ~ Audible(j)
  /\ \/ row[j].lease.state = "committing"
     \/ Online(j) /\ link[row[j].node] = "up" /\ up[j] = <<>> /\ down[j] = <<>>
  /\ Release(j)
  /\ floored' = floored \cup {j}
  /\ UNCHANGED <<daemon, conn, greet, up, nodeVars, faults>>

\* An operator cancels a job: supervisor cancelJob, requestCancel.
OperatorCancel(j) ==
  /\ daemon = "up" /\ j \in Cancellable
  /\ handle[j].phase # "none" /\ ~ row[j].cancel
  /\ row' = [row EXCEPT ![j].cancel = TRUE]
  /\ handle' = [handle EXCEPT ![j].cancelled = TRUE, ![j].pending = ~ Online(j)]
  /\ down' = HubSends(down, j, Notice("cancel"))
  /\ UNCHANGED <<file, daemon, conn, greet, up, nodeVars, histVars>>

\* Mutant: a requeue that does not look for a claim.
RequeueAnyFile(f) ==
  /\ daemon = "up" /\ file[f].state # "queued"
  /\ \E j \in Jobs : row[j].phase = "unused"
  /\ file' = [file EXCEPT ![f] = ApplyRequeue(@)]
  /\ UNCHANGED <<row, hubVars, wireVars, nodeVars, histVars>>

\* An operator requeues a file no job holds: requeueUnlessClaimed.
Requeue(f) ==
  /\ daemon = "up" /\ file[f].state \notin {"running", "queued"}
  /\ \A j \in JobsOf(f) : ~ Open(j)
  /\ \E j \in Jobs : row[j].phase = "unused"
  /\ file' = [file EXCEPT ![f] = ApplyRequeue(@)]
  /\ UNCHANGED <<row, hubVars, wireVars, nodeVars, histVars>>

-----------------------------------------------------------------------------
(* Frames from a node: hub handleAgentFrame, remote-agent receive *)

HubReads(j, type) ==
  /\ daemon = "up" /\ Online(j)
  /\ up[j] # <<>> /\ Head(up[j]).type = type
  /\ up' = [up EXCEPT ![j] = Tail(@)]

HubStep(j) ==
  /\ HubReads(j, "step")
  /\ row' = IF handle[j].phase \in {"preparing", "running"} /\ Leased(j)
            THEN [row EXCEPT ![j].lease = LeaseAfterStep(@)]
            ELSE row
  /\ UNCHANGED <<file, hubVars, greet, down, nodeVars, histVars>>

\* answerCommit and decideCommitFor.
Granted(j) ==
  /\ handle[j].phase = "running" /\ ~ handle[j].cancelled
  /\ Leased(j) /\ ~ row[j].cancel
  /\ CommitAllowed(row[j].lease, Holds(j))

HubAsk(j) ==
  LET ask == Head(up[j]) IN
  /\ HubReads(j, "ask")
  /\ handle[j].phase \notin {"settling", "hung"}
  /\ down' = HubSends(down, j, Reply(ask.id, Granted(j)))
  /\ row' = IF Granted(j) THEN [row EXCEPT ![j].lease = LeaseOnGrant(@, ask.body)] ELSE row
  /\ UNCHANGED <<file, hubVars, greet, nodeVars, histVars>>

\* A frame for a run whose report is already in hand changes nothing.
HubIgnores(j) ==
  /\ handle[j].phase \in {"settling", "hung"}
  /\ \E t \in {"ask", "final"} : HubReads(j, t)
  /\ UNCHANGED <<dbVars, hubVars, greet, down, nodeVars, histVars>>

\* A "done" report waits on the server's stat of the file.  A run superseded
\* because its handle was cancelled counts as cancelled.
HubDone(j) ==
  LET f == Head(up[j]).body IN
  /\ HubReads(j, "final")
  /\ f \in RunReports \cup {"cancelled"}
  /\ handle[j].phase = "running"
  /\ handle' = [handle EXCEPT ![j].phase = "settling", ![j].report = f]
  /\ UNCHANGED <<dbVars, daemon, conn, greet, down, nodeVars, histVars>>

\* A "failed" report settles at once.  (So does, here, the "done" form of a
\* superseded run that had replaced the file before: the same fold.)
HubFailed(j) ==
  LET f == Head(up[j]).body IN
  /\ HubReads(j, "final")
  /\ f \in {"error", "superseded"}
  /\ handle[j].phase = "running"
  /\ Settle(j, FailureOf(j, f), row[j].lease)
  /\ down' = HubSends(down, j, Notice("ack-report"))
  /\ UNCHANGED <<daemon, conn, greet, nodeVars, histVars>>

\* Mutant: a late failure is folded into the ledger although its row has ended.
LateFailureCounts(j) ==
  /\ HubReads(j, "final")
  /\ handle[j].phase = "none" /\ ~ Open(j)
  /\ file' = IF Head(up[j]).body \in {"failure", "error"}
             THEN [file EXCEPT ![row[j].file] = ApplyStall(@)] ELSE file
  /\ down' = HubSends(down, j, Notice("ack-report"))
  /\ UNCHANGED <<row, hubVars, greet, nodeVars, histVars>>

\* Mutant: a late report is dropped without an acknowledgement.
LateReportDropped(j) ==
  /\ HubReads(j, "final")
  /\ handle[j].phase = "none"
  /\ UNCHANGED <<dbVars, hubVars, greet, down, nodeVars, histVars>>

\* A report nothing waits for: kept by the node while the row is open, and
\* acknowledged - appended to the row, never applied - once it has ended.
HubLate(j) ==
  /\ HubReads(j, "final")
  /\ handle[j].phase = "none"
  /\ down' = IF Open(j) THEN down ELSE HubSends(down, j, Notice("ack-report"))
  /\ UNCHANGED <<dbVars, hubVars, greet, nodeVars, histVars>>

\* The stat answered: the report is applied, or cannot be recorded.
StatAnswered(j) ==
  /\ handle[j].phase \in {"settling", "hung"}
  /\ \E o \in {handle[j].report, "unrecordable"} :
       /\ Settle(j, o, row[j].lease)
  /\ down' = HubSends(down, j, Notice("ack-report"))
  /\ UNCHANGED <<daemon, conn, greet, up, nodeVars, histVars>>

\* The stat failed: an ordinary failure of the run.
StatFailed(j) ==
  /\ handle[j].phase \in {"settling", "hung"}
  /\ Settle(j, FailureOf(j, "error"), row[j].lease)
  /\ down' = HubSends(down, j, Notice("ack-report"))
  /\ UNCHANGED <<daemon, conn, greet, up, nodeVars, histVars>>

\* SETTLING_WAIT_MS passed without an answer: a release may win again.
StatHangs(j) ==
  /\ Fault
  /\ handle[j].phase = "settling"
  /\ handle' = [handle EXCEPT ![j].phase = "hung"]
  /\ UNCHANGED <<dbVars, daemon, conn, wireVars, nodeVars, floored>>

-----------------------------------------------------------------------------
(* Sockets *)

\* A node opens a socket; its hello lists its journal.  The hub's previous
\* socket for the node is replaced, and no lease moves.
Connect(n) ==
  /\ daemon = "up" /\ link[n] = "down"
  /\ link' = [link EXCEPT ![n] = "hello"]
  /\ conn' = [conn EXCEPT ![n] = "open"]
  /\ greet' = [greet EXCEPT ![n] =
                 [stage |-> "hello",
                  jobs  |-> [j \in Jobs |-> IF row[j].node = n THEN journal[j].state ELSE "none"]]]
  /\ up' = [j \in Jobs |-> IF row[j].node = n THEN <<>> ELSE up[j]]
  /\ down' = [j \in Jobs |-> IF row[j].node = n THEN <<>> ELSE down[j]]
  /\ UNCHANGED <<dbVars, daemon, handle, journal, agent, histVars>>

\* reconcile: what the hub makes of journal state s of job j.
Continues(j, s)  == s = "running" /\ Live(j) /\ LeaseOnReconnect(row[j].lease).state # "expired"
Delivers(j, s)   == s = "held" /\ Live(j)
ReleasedBy(j, s) == /\ Live(j) /\ ~ Settling(j)
                    /\ s \in {"lost", "none"} \/ (s = "running" /\ ~ Continues(j, s))

Directive(j, s) ==
  CASE s = "running" -> IF Continues(j, s) THEN "continue" ELSE "abandon"
    [] s = "held"    -> "apply"
    [] OTHER         -> s

RowAfterHello(j, s) ==
  CASE ReleasedBy(j, s) -> [row[j] EXCEPT !.phase = "ended", !.lease = Expired(j)]
    [] Continues(j, s)  -> [row[j] EXCEPT !.lease = LeaseOnReconnect(@)]
    [] Delivers(j, s) /\ row[j].lease.state = "grace"
                        -> [row[j] EXCEPT !.lease = LeaseOnClaim]
    [] OTHER            -> row[j]

\* handleHello: every job of the node is reconciled, then it is welcomed, told
\* each directive, and sent the cancels that were waiting for it.
HubHello(n) ==
  LET snap     == greet[n].jobs
      mine     == JobsOn(n)
      released == {j \in mine : ReleasedBy(j, snap[j])}
      flushed  == {j \in mine : /\ Continues(j, snap[j]) \/ Delivers(j, snap[j])
                                /\ handle[j].phase # "none" /\ handle[j].pending}
      ended(f) == CHOOSE j \in released : row[j].file = f
      heard    == link[n] # "down"
  IN
  /\ daemon = "up" /\ conn[n] = "open" /\ greet[n].stage = "hello"
  /\ conn' = [conn EXCEPT ![n] = "welcomed"]
  /\ row' = [j \in Jobs |-> IF j \in mine THEN RowAfterHello(j, snap[j]) ELSE row[j]]
  /\ file' = [f \in Files |-> IF \E j \in released : row[j].file = f
                              THEN Settled(ended(f), FailureOf(ended(f), "error"))
                              ELSE file[f]]
  /\ handle' = [j \in Jobs |-> CASE j \in released -> NoHandle
                                 [] j \in flushed  -> [handle[j] EXCEPT !.pending = FALSE]
                                 [] OTHER          -> handle[j]]
  /\ greet' = [greet EXCEPT ![n] =
                 IF heard
                 THEN [stage |-> "welcome",
                       jobs  |-> [j \in Jobs |-> IF j \in mine THEN Directive(j, snap[j]) ELSE "none"]]
                 ELSE NoGreeting]
  /\ down' = [j \in Jobs |-> CASE heard /\ j \in released -> Append(down[j], Notice("ack-report"))
                               [] heard /\ j \in flushed  -> Append(down[j], Notice("cancel"))
                               [] OTHER                   -> down[j]]
  /\ UNCHANGED <<daemon, up, nodeVars, histVars>>

\* The hub loses the socket (a close, a missed pong, an operator's disconnect):
\* detach, which starts the grace of the node's connected leases.
HubClose(n) ==
  /\ daemon = "up" /\ conn[n] # "none"
  /\ (link[n] = "down" /\ UNCHANGED faults) \/ Fault
  /\ conn' = [conn EXCEPT ![n] = "none"]
  /\ row' = [j \in Jobs |-> IF row[j].node = n /\ Leased(j)
                            THEN [row[j] EXCEPT !.lease = LeaseOnDisconnect(@)] ELSE row[j]]
  /\ greet' = [greet EXCEPT ![n] = IF @.stage = "hello" THEN NoGreeting ELSE @]
  /\ up' = [j \in Jobs |-> IF row[j].node = n THEN <<>> ELSE up[j]]
  /\ UNCHANGED <<file, daemon, handle, down, nodeVars, floored>>

\* The node loses the socket; the hub may not notice yet.
NodeDrop(n) ==
  /\ link[n] # "down"
  /\ (conn[n] = "none" /\ UNCHANGED faults) \/ Fault
  /\ link' = [link EXCEPT ![n] = "down"]
  /\ greet' = [greet EXCEPT ![n] = IF @.stage = "welcome" THEN NoGreeting ELSE @]
  /\ down' = [j \in Jobs |-> IF row[j].node = n THEN <<>> ELSE down[j]]
  /\ UNCHANGED <<dbVars, hubVars, up, journal, agent, floored>>

-----------------------------------------------------------------------------
(* The daemon stops and starts again *)

\* A stop never touches remote work, so it differs from a crash in nothing here.
DaemonGone ==
  /\ Fault
  /\ daemon # "down" /\ daemon' = "down"
  /\ conn' = [n \in Nodes |-> "none"]
  /\ handle' = [j \in Jobs |-> NoHandle]
  /\ greet' = [n \in Nodes |-> IF greet[n].stage = "hello" THEN NoGreeting ELSE greet[n]]
  /\ up' = [j \in Jobs |-> <<>>]
  /\ UNCHANGED <<down, nodeVars, floored>>

DaemonCrash == DaemonGone /\ UNCHANGED dbVars

\* It died after claimNext had taken the file and before the job row existed.
CrashInClaim(f) ==
  /\ daemon = "up" /\ \E n \in Nodes : conn[n] = "welcomed"
  /\ IsEligible(file[f], TRUE)
  /\ file' = [file EXCEPT ![f].state = "running"]
  /\ DaemonGone /\ UNCHANGED row

\* It died in release, after the lease was written and before the settlement.
CrashInRelease(j) ==
  /\ daemon = "up" /\ Leased(j) /\ LeaseIsExpired(row[j].lease) /\ ~ Settling(j)
  /\ row' = [row EXCEPT ![j].lease = Expired(j)]
  /\ DaemonGone /\ UNCHANGED file

DaemonStart ==
  /\ daemon = "down" /\ daemon' = "starting"
  /\ UNCHANGED <<dbVars, conn, handle, wireVars, nodeVars, histVars>>

Unsent(j) == Open(j) /\ row[j].lease.state = "none"

\* stallUnsentRemoteJobs: a job that never left is a failed attempt.
StallUnsent(j) ==
  /\ daemon = "starting" /\ Unsent(j)
  /\ row' = [row EXCEPT ![j].phase = "ended"]
  /\ file' = IF Holds(j) THEN [file EXCEPT ![row[j].file] = ApplyStall(@)] ELSE file
  /\ UNCHANGED <<hubVars, wireVars, nodeVars, histVars>>

\* Mutant: an adopted job's cancel is not read back from its row.
AdoptForgetsCancel(j) ==
  LET lease == LeaseOnDaemonStart(row[j].lease) IN
  /\ daemon = "starting" /\ \A k \in Jobs : ~ Unsent(k)
  /\ Leased(j) /\ handle[j].phase = "none"
  /\ IF lease.state = "expired"
     THEN Settle(j, "error", lease)
     ELSE /\ row' = [row EXCEPT ![j].lease = lease]
          /\ handle' = [handle EXCEPT ![j] = [NoHandle EXCEPT !.phase = "running"]]
          /\ UNCHANGED file
  /\ UNCHANGED <<daemon, conn, wireVars, nodeVars, histVars>>

\* adoptLeasedJobs, for one leased job.
Adopt(j) ==
  LET lease == LeaseOnDaemonStart(row[j].lease) IN
  /\ daemon = "starting" /\ \A k \in Jobs : ~ Unsent(k)
  /\ Leased(j) /\ handle[j].phase = "none"
  /\ IF lease.state = "expired"
     THEN Settle(j, IF row[j].cancel THEN "cancelled" ELSE "error", lease)
     ELSE /\ row' = [row EXCEPT ![j].lease = lease]
          /\ handle' = [handle EXCEPT ![j] = [NoHandle EXCEPT !.phase = "running",
                          !.cancelled = row[j].cancel, !.pending = row[j].cancel]]
          /\ UNCHANGED file
  /\ UNCHANGED <<daemon, conn, wireVars, nodeVars, histVars>>

DaemonReady ==
  /\ daemon = "starting" /\ \A j \in Jobs : Open(j) => handle[j].phase # "none"
  /\ daemon' = "up"
  /\ UNCHANGED <<dbVars, conn, handle, wireVars, nodeVars, histVars>>

\* Mutant: only claims with a job row are reaped.
ReapJobsOnly(f) ==
  /\ daemon = "up" /\ file[f].state = "running"
  /\ JobsOf(f) # {} /\ \A j \in JobsOf(f) : ~ Open(j)
  /\ file' = [file EXCEPT ![f] = ApplyStall(@)]
  /\ UNCHANGED <<row, hubVars, wireVars, nodeVars, histVars>>

\* reapStalled, for a claim that never got a job row (24 h without activity).
ReapOrphan(f) ==
  /\ daemon = "up" /\ file[f].state = "running" /\ \A j \in JobsOf(f) : ~ Open(j)
  /\ file' = [file EXCEPT ![f] = ApplyStall(@)]
  /\ UNCHANGED <<row, hubVars, wireVars, nodeVars, histVars>>

-----------------------------------------------------------------------------
(* The node: node-host.ts *)

\* holdAndSend: the journal keeps the report before it is sent.  An entry the
\* server had removed (an abandoned or lost job) has nothing to hold.
Hold(j, f) ==
  /\ agent' = [agent EXCEPT ![j] = NoAgent]
  /\ IF journal[j].state = "none"
     THEN UNCHANGED <<journal, up>>
     ELSE /\ journal' = [journal EXCEPT ![j] = [state |-> "held", final |-> f]]
          /\ up' = NodeSends(up, j, FinalFrame(f))

NodeReads(j, type) ==
  /\ row[j].node \in Nodes /\ link[row[j].node] = "up"
  /\ down[j] # <<>> /\ Head(down[j]).type = type
  /\ down' = [down EXCEPT ![j] = Tail(@)]

\* Mutant: a job that cannot be journalled is run all the same.
RunUnjournalled(j) ==
  /\ NodeReads(j, "job")
  /\ journal[j].state = "none" /\ ~ Running(j)
  /\ agent' = [agent EXCEPT ![j] = [NoAgent EXCEPT !.phase = "fetching"]]
  /\ \/ journal' = [journal EXCEPT ![j].state = "running"] /\ UNCHANGED faults
     \/ Fault /\ UNCHANGED journal
  /\ UNCHANGED <<dbVars, hubVars, greet, up, link, floored>>

\* startJob: journalled before anything runs; a job it already has is ignored,
\* and one it cannot journal is refused in silence.
ReceiveJob(j) ==
  /\ NodeReads(j, "job")
  /\ \/ /\ journal[j].state = "none" /\ ~ Running(j)
        /\ journal' = [journal EXCEPT ![j].state = "running"]
        /\ agent' = [agent EXCEPT ![j] = [NoAgent EXCEPT !.phase = "fetching"]]
        /\ UNCHANGED faults
     \/ /\ journal[j].state # "none" \/ Running(j)
        /\ UNCHANGED <<journal, agent, faults>>
     \/ Fault /\ UNCHANGED <<journal, agent>>
  /\ UNCHANGED <<dbVars, hubVars, greet, up, link, floored>>

\* agents.get(jobId)?.cancel(): nothing to tell while the bundles are fetched.
Stopped(a) == IF a.phase \in {"none", "fetching"} THEN a ELSE [a EXCEPT !.stop = TRUE]

ReceiveCancel(j) ==
  /\ NodeReads(j, "cancel")
  /\ agent' = [agent EXCEPT ![j] = Stopped(@)]
  /\ UNCHANGED <<dbVars, hubVars, greet, up, link, journal, histVars>>

\* abandonJob: the agent is cancelled and a commit it waits for is refused.
Abandoned(a) ==
  IF a.phase = "none" THEN a
  ELSE [Stopped(a) EXCEPT !.abandoned = TRUE,
                          !.phase = IF @ = "asking" THEN "refused" ELSE @]

ReceiveAbandon(j) ==
  /\ NodeReads(j, "abandon")
  /\ agent' = [agent EXCEPT ![j] = Abandoned(@)]
  /\ UNCHANGED <<dbVars, hubVars, greet, up, link, journal, histVars>>

\* A commit-result answers the request that is waiting, by its id.
ReceiveReply(j) ==
  LET reply == Head(down[j]) IN
  /\ NodeReads(j, "commit-result")
  /\ agent' = IF agent[j].phase = "asking" /\ reply.id = agent[j].commits
              THEN [agent EXCEPT ![j].phase = IF reply.granted THEN "writing" ELSE "refused"]
              ELSE agent
  /\ UNCHANGED <<dbVars, hubVars, greet, up, link, journal, histVars>>

\* Only a held report is forgotten.
ReceiveAck(j) ==
  /\ NodeReads(j, "ack-report")
  /\ journal' = IF journal[j].state = "held" THEN [journal EXCEPT ![j] = NoEntry] ELSE journal
  /\ UNCHANGED <<dbVars, hubVars, greet, up, link, agent, histVars>>

\* handleWelcome: for each job it knows, what the server decided.
PendingFrames(j) ==
  (IF agent[j].phase = "asking" THEN <<AskFrame(agent[j].commits, agent[j].kind)>> ELSE <<>>)
  \o (IF journal[j].state = "held" THEN <<FinalFrame(journal[j].final)>> ELSE <<>>)

Welcomed(n) ==
  LET told == greet[n].jobs
      known == {j \in Jobs : journal[j].state # "none"}
      sending == {j \in known : told[j] \in {"continue", "apply"} /\ conn[n] = "welcomed"}
      forgotten == {j \in known : told[j] \in {"abandon", "lost"}}
  IN
  /\ link[n] = "hello" /\ greet[n].stage = "welcome"
  /\ link' = [link EXCEPT ![n] = "up"]
  /\ greet' = [greet EXCEPT ![n] = NoGreeting]
  /\ up' = [j \in Jobs |-> IF j \in sending THEN up[j] \o PendingFrames(j) ELSE up[j]]
  /\ journal' = [j \in Jobs |-> IF j \in forgotten THEN NoEntry ELSE journal[j]]
  /\ agent' = [j \in Jobs |-> IF j \in forgotten THEN Abandoned(agent[j]) ELSE agent[j]]
  /\ UNCHANGED <<dbVars, hubVars, down, histVars>>

-----------------------------------------------------------------------------
(* The agent process of one job: runJob, run-payload.ts, run-flow.ts *)

\* The bundles are there and the agent starts, or the run ends before it.
Fetched(j) ==
  /\ agent[j].phase = "fetching"
  /\ \/ /\ ~ agent[j].abandoned
        /\ agent' = [agent EXCEPT ![j].phase = "working"]
        /\ UNCHANGED <<journal, up>>
     \/ Hold(j, "error")
  /\ UNCHANGED <<dbVars, hubVars, greet, down, link, histVars>>

\* The commit gate, before a node that writes.  The node never grants: it asks
\* the server, and refuses by itself only for a job the server abandoned.
Ask(j, k) ==
  /\ agent[j].phase = "working" /\ agent[j].commits < MaxCommits
  /\ agent' = [agent EXCEPT ![j].phase = IF agent[j].abandoned THEN "refused" ELSE "asking",
                            ![j].kind = k, ![j].commits = @ + 1]
  /\ up' = IF agent[j].abandoned THEN up
           ELSE NodeSends(up, j, AskFrame(agent[j].commits + 1, k))
  /\ UNCHANGED <<dbVars, hubVars, greet, down, link, journal, histVars>>

\* The node of the flow that wrote has returned, and its step is reported.
Wrote(j) ==
  /\ agent[j].phase = "writing"
  /\ agent' = [agent EXCEPT ![j].phase = "working"]
  /\ up' = NodeSends(up, j, StepFrame)
  /\ UNCHANGED <<dbVars, hubVars, greet, down, link, journal, histVars>>

\* The flow has ended.  A stopped run reports "cancelled" whatever it reached.
Finish(j) ==
  /\ \/ agent[j].phase = "refused" /\ Hold(j, "superseded")
     \/ /\ agent[j].phase = "working"
        /\ \E f \in IF agent[j].stop THEN {"cancelled"} ELSE Reports : Hold(j, f)
  /\ UNCHANGED <<dbVars, hubVars, greet, down, link, histVars>>

\* The agent process dies: by itself, or by the ladder a cancel starts.
Dies(j) ==
  /\ agent[j].phase \notin {"none", "fetching"}
  /\ Hold(j, "error")
  /\ UNCHANGED <<dbVars, hubVars, greet, down, link, histVars>>

Killed(j) == agent[j].stop /\ Dies(j)

\* The node process goes away and takes its agents with it.  What its journal
\* says was running is lost when it is next loaded.
NodeCrash(n) ==
  /\ Fault
  /\ \E j \in JobsOn(n) : journal[j].state # "none" \/ Running(j)
  /\ link' = [link EXCEPT ![n] = "down"]
  /\ agent' = [j \in Jobs |-> IF row[j].node = n THEN NoAgent ELSE agent[j]]
  /\ journal' = [j \in Jobs |-> IF row[j].node = n /\ journal[j].state = "running"
                                THEN [journal[j] EXCEPT !.state = "lost"] ELSE journal[j]]
  /\ greet' = [greet EXCEPT ![n] = IF @.stage = "welcome" THEN NoGreeting ELSE @]
  /\ down' = [j \in Jobs |-> IF row[j].node = n THEN <<>> ELSE down[j]]
  /\ UNCHANGED <<dbVars, hubVars, up, floored>>

-----------------------------------------------------------------------------
(* Specification *)

ServerJobStep(j) ==
  \/ Prepared(j) \/ PrepareFails(j)
  \/ Lapse(j) \/ Sweep(j) \/ Floor(j)
  \/ HubStep(j) \/ HubAsk(j) \/ HubIgnores(j)
  \/ HubDone(j) \/ HubFailed(j) \/ HubLate(j)
  \/ StatAnswered(j) \/ StatFailed(j)
  \/ StallUnsent(j) \/ Adopt(j)

NodeJobStep(j) ==
  \/ ReceiveJob(j) \/ ReceiveCancel(j) \/ ReceiveAbandon(j) \/ ReceiveReply(j) \/ ReceiveAck(j)
  \/ Fetched(j) \/ Wrote(j) \/ Finish(j) \/ Dies(j)
  \/ \E k \in Kinds : Ask(j, k)

Environment ==
  \/ \E j \in Jobs : OperatorCancel(j) \/ StatHangs(j) \/ CrashInRelease(j)
  \/ \E f \in Files : Requeue(f) \/ CrashInClaim(f)
  \/ \E n \in Nodes : HubClose(n) \/ NodeDrop(n) \/ NodeCrash(n)
  \/ DaemonCrash

Next ==
  \/ \E f \in Files, n \in Nodes, j \in Jobs : Claim(f, n, j)
  \/ \E j \in Jobs : ServerJobStep(j) \/ NodeJobStep(j)
  \/ \E n \in Nodes : Connect(n) \/ HubHello(n) \/ Welcomed(n)
  \/ \E f \in Files : ReapOrphan(f)
  \/ DaemonStart \/ DaemonReady
  \/ Environment

Spec == Init /\ [][Next]_vars

\* What the code schedules by itself: timers (Lapse, Sweep, Floor, the reaper,
\* reconnects, the silence timers behind HubClose and NodeDrop), frames handed
\* to a live socket, awaited calls, and runs that end.  Nothing is promised of
\* a stat that has outlived SETTLING_WAIT_MS, and no agent has to ask.
JobFairness(j) ==
  /\ WF_vars(Prepared(j)) /\ WF_vars(Lapse(j)) /\ WF_vars(Sweep(j)) /\ WF_vars(Floor(j))
  /\ WF_vars(HubStep(j)) /\ WF_vars(HubAsk(j)) /\ WF_vars(HubIgnores(j))
  /\ WF_vars(HubDone(j)) /\ WF_vars(HubFailed(j)) /\ WF_vars(HubLate(j))
  /\ WF_vars(handle[j].phase = "settling" /\ StatAnswered(j)) /\ WF_vars(StallUnsent(j)) /\ WF_vars(Adopt(j))
  /\ WF_vars(ReceiveJob(j)) /\ WF_vars(ReceiveCancel(j)) /\ WF_vars(ReceiveAbandon(j))
  /\ WF_vars(ReceiveReply(j)) /\ WF_vars(ReceiveAck(j))
  /\ WF_vars(Fetched(j)) /\ WF_vars(Wrote(j)) /\ WF_vars(Finish(j)) /\ WF_vars(Killed(j))

Fairness ==
  /\ \A j \in Jobs : JobFairness(j)
  /\ \A n \in Nodes : /\ WF_vars(Connect(n)) /\ WF_vars(HubHello(n)) /\ WF_vars(Welcomed(n))
                      /\ WF_vars(link[n] = "down" /\ HubClose(n))
                      /\ WF_vars(conn[n] = "none" /\ NodeDrop(n))
  /\ \A f \in Files : WF_vars(ReapOrphan(f))
  /\ WF_vars(DaemonStart) /\ WF_vars(DaemonReady)

FairSpec == Spec /\ Fairness

-----------------------------------------------------------------------------
(* Types *)

\* Every variable stays in its set, and a handle that is settling has a report.
TypeOK ==
  /\ file \in [Files -> LedgerRecord]
  /\ row \in [Jobs -> Row]
  /\ daemon \in {"down", "starting", "up"}
  /\ conn \in [Nodes -> {"none", "open", "welcomed"}]
  /\ handle \in [Jobs -> Handle]
  /\ \A j \in Jobs : handle[j].phase \in {"settling", "hung"}
                    => handle[j].report \in RunReports \cup {"cancelled"}
  /\ greet \in [Nodes -> Greeting]
  /\ up \in [Jobs -> Seq(UpFrame)]
  /\ down \in [Jobs -> Seq(DownFrame)]
  /\ link \in [Nodes -> {"down", "hello", "up"}]
  /\ journal \in [Jobs -> Entry]
  /\ agent \in [Jobs -> Agent]
  /\ floored \in SUBSET Jobs
  /\ faults \in 0 .. MaxFaults

-----------------------------------------------------------------------------
(* Properties *)

\* A file in work has one open job: the last one started for it, and its ledger
\* row says "running".  Two open jobs on a file are what claimNext, the requeue
\* guard and every settlement together must prevent.
OneOpenJobPerFile ==
  \A j \in Jobs : Open(j) => Holds(j)

\* What OneOpenJobPerFile rests on: jobs are started in order, ...
JobOrder ==
  \A j, k \in Jobs : j < k /\ row[j].phase = "unused" => row[k].phase = "unused"

\* ... an open job is the last one of a file that is in work, ...
OpenJobLeads ==
  \A j \in Jobs : Open(j) =>
    /\ row[j].file \in Files
    /\ file[row[j].file].state = "running"
    /\ \A k \in JobsOf(row[j].file) : k <= j

\* ... and only an open job has a handle: a starting daemon gives one only to
\* jobs it has adopted, and a stopped daemon has none.
HandleOpen ==
  \A j \in Jobs : handle[j].phase # "none" =>
    /\ Open(j) /\ daemon # "down"
    /\ daemon = "starting" => row[j].lease.state # "none"

ClaimInv == JobOrder /\ OpenJobLeads /\ HandleOpen

\* "A file is never written by two workers" (core/src/lease.ts), short of the
\* 24 hour floor, which gives up on a silent writer by design.
SingleWriter ==
  \A j, k \in Jobs :
    Writing(j) /\ Writing(k) /\ row[j].file = row[k].file /\ j # k
      => j \in floored \/ k \in floored

\* Whatever happened to its socket, its node's hub or the daemon since the
\* grant, a run that is replacing a file still holds it under a lease that does
\* not run out.
WriterHoldsClaim ==
  \A j \in Jobs :
    Writing(j) /\ agent[j].kind = "replace" /\ j \notin floored
      => Holds(j) /\ row[j].lease.state = "committing"

\* A job costs its file at most one attempt: attempts rise only by the step
\* that ends the one open job of the file, or that reaps a claim without a job.
\* A late, repeated or superseded report never counts again.
AttemptOncePerJob ==
  [][\A f \in Files : file'[f].attempts > file[f].attempts =>
       LET ending == {j \in JobsOf(f) : Open(j) /\ row'[j].phase = "ended"} IN
       /\ file'[f].attempts = file[f].attempts + 1
       /\ file[f].state = "running"
       /\ Cardinality(ending) = 1 \/ \A j \in JobsOf(f) : ~ Open(j)]_vars

\* A job an operator cancelled after it was sent costs no attempt, whether the
\* agent is stopped, dies, loses its commit, vanishes with its node, or is found
\* expired by the next daemon.  (A report already in hand is applied as it is.)
CancelCostsNoAttempt ==
  [][\A j \in Jobs :
       Leased(j) /\ row[j].cancel /\ row'[j].phase = "ended"
         /\ handle[j].phase \notin {"settling", "hung"}
       => file'[row[j].file].attempts <= file[row[j].file].attempts]_vars

\* "A cancelled job is requeued unpenalised" (api/routes/jobs.ts:106), the one
\* that was never sent included.
CancelBeforeSendCostsNoAttempt ==
  [][\A j \in Jobs :
       Unsent(j) /\ row[j].cancel /\ row'[j].phase = "ended"
       => file'[row[j].file].attempts <= file[row[j].file].attempts]_vars

\* "The cancel signal was delivered" (api/routes/jobs.ts:97): on a node that is
\* connected and has read every frame, a cancelled run has been told to stop.
CancelReachesAgent ==
  \A j \in Jobs :
    /\ Running(j) /\ agent[j].phase # "fetching"
    /\ row[j].cancel /\ handle[j].phase = "running"
    /\ Audible(j) /\ down[j] = <<>> /\ greet[row[j].node] = NoGreeting
    => agent[j].stop

\* "cancel sent while a node is offline is kept on the job row and delivered on
\* reconnect" (remote-nodes-design.md:234): the hello of a node that still runs
\* a cancelled job, and was not told, is answered with the cancel.
CancelDeliveredOnReconnect ==
  [][\A n \in Nodes : HubHello(n) =>
       \A j \in JobsOn(n) :
         /\ row[j].cancel /\ row'[j].phase = "open" /\ greet[n].jobs[j] = "running"
         /\ agent[j].phase \in {"working", "asking"} /\ ~ agent[j].stop
         => \E i \in 1 .. Len(down'[j]) : down'[j][i] = Notice("cancel")]_vars

\* A node forgets a report only when the server's row of the job has ended: no
\* finished run is lost between the two, whatever was acknowledged when.
ReportForgottenOnlyWhenEnded ==
  [][\A j \in Jobs : journal[j].state = "held" /\ journal'[j].state = "none"
       => row[j].phase = "ended"]_vars

\* An agent the server has not given up on is in the journal, so that the next
\* hello names it and no restart of the daemon takes it for gone.
JournalCoversAgent ==
  \A j \in Jobs : Running(j) /\ ~ agent[j].abandoned => journal[j].state = "running"

\* No file stays "running" for ever.
EveryClaimEnds ==
  \A f \in Files : file[f].state = "running" ~> file[f].state # "running"

\* Every report a node holds is acknowledged in the end.
EveryReportAcknowledged ==
  \A j \in Jobs : journal[j].state = "held" ~> journal[j].state # "held"

\* The protocol keeps the promise of FileOwnership: the lock is the open job
\* row, the permission the committing lease of a run that is alive.
Ownership ==
  INSTANCE FileOwnership WITH
    NoFile    <- "none",
    target    <- [j \in Jobs |-> row[j].file],
    held      <- {j \in Jobs : Open(j)},
    permitted <- {j \in Jobs : Open(j) /\ Running(j) /\ row[j].lease.state = "committing"},
    writing   <- {j \in Jobs : Writing(j)},
    waived    <- floored

ImplementsOwnership == Ownership!Spec

=============================================================================
