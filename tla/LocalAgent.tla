----------------------------- MODULE LocalAgent -----------------------------
(***************************************************************************)
(* One forked worker and the handle the daemon holds on it:                *)
(* server/src/worker/agent-handle.ts (the daemon's side) and               *)
(* server/src/worker/agent.ts (the child's).  One job per process.         *)
(*                                                                         *)
(* The two sides talk over a pipe in each direction, read in order.  What  *)
(* the operating system says of the child (it exited, the channel is at    *)
(* its end) comes on two other handles, in either order and before or      *)
(* after the messages still in the pipe: that is what the handle has to    *)
(* get right.  A plugin may start a process of its own, which belongs to   *)
(* the group of the worker, survives it and may hold its end of the pipe.  *)
(*                                                                         *)
(* Abstracted: steps, heartbeats, progress, log lines and document         *)
(* requests, which the handle forwards without a change of its own state;  *)
(* the text of an outcome; the length of the timers.                       *)
(***************************************************************************)
EXTENDS Naturals, Sequences

VARIABLES
  proc,      \* the child: see Phases
  group,     \* TRUE while a process a plugin started is alive in its group
  aborted,   \* the child's AbortController
  inbox,     \* daemon to child, unread
  pipe,      \* child to daemon, unread
  handle,    \* the closure of createAgentHandle
  wrote,     \* the report its run wrote, "none" before
  daemonUp   \* FALSE once the daemon has died under its worker

avars == <<proc, group, aborted, inbox, pipe, handle, wrote, daemonUp>>

Phases == {"booting", "waiting", "running", "leaving", "dead", "unforked"}

\* What a run ends as; "none" before run(), "open" until it ends.
Reports  == {"done", "cancelled", "failed", "superseded"}
Failures == {"vanished", "not_run", "not_given"}
Rungs    == {"none", "grace", "kill"}

HandleState ==
  [ready : BOOLEAN, cancelled : BOOLEAN, gone : BOOLEAN, started : BOOLEAN,
   pending : BOOLEAN, drained : BOOLEAN, exited : BOOLEAN,
   drainTimer : {"none", "armed", "fired"}, rung : Rungs,
   run : {"none", "open"} \cup Reports \cup Failures]

AgentTypeOK ==
  /\ proc \in Phases
  /\ group \in BOOLEAN /\ aborted \in BOOLEAN /\ daemonUp \in BOOLEAN
  /\ inbox \in Seq({"job", "cancel"})
  /\ pipe \in Seq({"ready"} \cup Reports)
  /\ handle \in HandleState
  /\ wrote \in {"none"} \cup Reports

AgentInit ==
  /\ proc = "booting" /\ group = FALSE /\ aborted = FALSE /\ daemonUp = TRUE
  /\ inbox = << >> /\ pipe = << >> /\ wrote = "none"
  /\ handle = [ready |-> FALSE, cancelled |-> FALSE, gone |-> FALSE, started |-> FALSE,
               pending |-> FALSE, drained |-> FALSE, exited |-> FALSE,
               drainTimer |-> "none", rung |-> "none", run |-> "none"]

Alive == proc \in {"booting", "waiting", "running", "leaving"}

-----------------------------------------------------------------------------
(* The child.                                                              *)

ChildStarts ==
  /\ proc = "booting"
  /\ proc' = "waiting" /\ pipe' = Append(pipe, "ready")
  /\ UNCHANGED <<group, aborted, inbox, handle, wrote, daemonUp>>

\* sendAndExit: the message is written before the child leaves.
SendAndExit(message) == pipe' = Append(pipe, message) /\ proc' = "leaving"

ChildSpeaksAnotherProtocol ==
  /\ proc = "booting" /\ SendAndExit("failed")
  /\ UNCHANGED <<group, aborted, inbox, handle, wrote, daemonUp>>

\* A job starts the run, once; a cancel aborts it, or ends a child without one.
ChildReads ==
  /\ proc \in {"waiting", "running"} /\ inbox # << >>
  /\ inbox' = Tail(inbox)
  /\ \/ /\ Head(inbox) = "job"
        /\ proc' = "running" /\ UNCHANGED aborted
     \/ /\ Head(inbox) = "cancel"
        /\ aborted' = TRUE
        /\ proc' = IF proc = "waiting" THEN "dead" ELSE proc
  /\ UNCHANGED <<group, pipe, handle, wrote, daemonUp>>

ChildReports ==
  /\ proc = "running"
  /\ \E message \in Reports :
       /\ message = "cancelled" => aborted
       /\ SendAndExit(message) /\ wrote' = message
  /\ UNCHANGED <<group, aborted, inbox, handle, daemonUp>>

ChildLeaves ==
  /\ proc = "leaving" /\ proc' = "dead"
  /\ UNCHANGED <<group, aborted, inbox, pipe, handle, wrote, daemonUp>>

ChildCrashes ==
  /\ proc \in {"booting", "waiting", "running"} /\ proc' = "dead"
  /\ UNCHANGED <<group, aborted, inbox, pipe, handle, wrote, daemonUp>>

\* A plugin runs a program without the runner that would track it.
PluginSpawns ==
  /\ proc = "running" /\ ~ group /\ group' = TRUE
  /\ UNCHANGED <<proc, aborted, inbox, pipe, handle, wrote, daemonUp>>

PluginChildEnds ==
  /\ group /\ group' = FALSE
  /\ UNCHANGED <<proc, aborted, inbox, pipe, handle, wrote, daemonUp>>

DaemonDies ==
  /\ daemonUp /\ daemonUp' = FALSE
  /\ UNCHANGED <<proc, group, aborted, inbox, pipe, handle, wrote>>

\* The channel closed under a child that is not already on its way out.
ChildLosesDaemon ==
  /\ ~ daemonUp /\ proc \in {"booting", "waiting", "running"}
  /\ aborted' = TRUE /\ proc' = "dead"
  /\ UNCHANGED <<group, inbox, pipe, handle, wrote, daemonUp>>

-----------------------------------------------------------------------------
(* The handle.                                                             *)

\* post: a message to a child that is gone goes nowhere.
Post(message) == inbox' = IF Alive THEN Append(inbox, message) ELSE inbox

\* Mutant: a run that has ended is ended again.
FinishAgain(h, outcome) == [h EXCEPT !.run = outcome, !.drainTimer = "none"]

\* finish: a run ends once, and what ends it stops the wait for the channel.
Finish(h, outcome) ==
  IF h.run # "open" THEN h
  ELSE [h EXCEPT !.run = outcome,
                 !.drainTimer = IF @ = "armed" THEN "none" ELSE @]

\* Mutant: an exit is taken as proof that nothing was reported.
SettleOnExit(h) == IF h.exited THEN Finish(h, "vanished") ELSE h

DrainThenSettle(h) == IF h.exited /\ h.drained THEN Finish(h, "vanished") ELSE h

\* Mutant: whether the worker was cancelled is not asked.
RunRegardless ==
  /\ daemonUp /\ ~ handle.started
  /\ LET h == [handle EXCEPT !.started = TRUE]
     IN  \/ /\ h.gone
            /\ handle' = [h EXCEPT !.run = "not_given"] /\ UNCHANGED inbox
         \/ /\ ~ h.gone /\ h.ready
            /\ handle' = [h EXCEPT !.run = "open"] /\ Post("job")
         \/ /\ ~ h.gone /\ ~ h.ready
            /\ handle' = [h EXCEPT !.run = "open", !.pending = TRUE] /\ UNCHANGED inbox
  /\ UNCHANGED <<proc, group, aborted, pipe, wrote, daemonUp>>

Run ==
  /\ daemonUp /\ ~ handle.started
  /\ LET h == [handle EXCEPT !.started = TRUE]
     IN  \/ /\ h.gone
            /\ handle' = [h EXCEPT !.run = "not_given"] /\ UNCHANGED inbox
         \/ /\ ~ h.gone /\ h.cancelled
            /\ handle' = [h EXCEPT !.run = "open"] /\ UNCHANGED inbox
         \/ /\ ~ h.gone /\ ~ h.cancelled /\ h.ready
            /\ handle' = [h EXCEPT !.run = "open"] /\ Post("job")
         \/ /\ ~ h.gone /\ ~ h.cancelled /\ ~ h.ready
            /\ handle' = [h EXCEPT !.run = "open", !.pending = TRUE] /\ UNCHANGED inbox
  /\ UNCHANGED <<proc, group, aborted, pipe, wrote, daemonUp>>

HearReady ==
  /\ Head(pipe) = "ready"
  /\ IF handle.cancelled
     THEN Post("cancel") /\ handle' = [handle EXCEPT !.ready = TRUE]
     ELSE /\ IF handle.pending THEN Post("job") ELSE UNCHANGED inbox
          /\ handle' = [handle EXCEPT !.ready = TRUE, !.pending = FALSE]

HearReport ==
  /\ Head(pipe) \in Reports
  /\ handle' = Finish([handle EXCEPT !.rung = "none"], Head(pipe))
  /\ UNCHANGED inbox

HandleReads ==
  /\ daemonUp /\ pipe # << >> /\ ~ handle.drained
  /\ pipe' = Tail(pipe)
  /\ HearReady \/ HearReport
  /\ UNCHANGED <<proc, group, aborted, wrote, daemonUp>>

\* The end of the channel follows every message in it, and needs every holder of
\* its other end gone.
SeeDisconnect ==
  /\ daemonUp /\ proc = "dead" /\ ~ group /\ pipe = << >> /\ ~ handle.drained
  /\ handle' = DrainThenSettle([handle EXCEPT !.drained = TRUE])
  /\ UNCHANGED <<proc, group, aborted, inbox, pipe, wrote, daemonUp>>

\* Mutant: the rest of a cancelled worker's group is left running.
SeeExitOnly ==
  /\ daemonUp /\ proc = "dead" /\ ~ handle.exited
  /\ LET h == [handle EXCEPT !.gone = TRUE, !.rung = "none", !.exited = TRUE]
         waits == h.run = "open" /\ ~ h.drained /\ h.drainTimer = "none"
     IN  handle' = IF h.run # "open" THEN h
                   ELSE DrainThenSettle(IF waits THEN [h EXCEPT !.drainTimer = "armed"] ELSE h)
  /\ UNCHANGED <<proc, aborted, inbox, pipe, wrote, group, daemonUp>>

\* Mutant: no timer bounds the wait for the channel.
SeeExitUntimed ==
  /\ daemonUp /\ proc = "dead" /\ ~ handle.exited
  /\ handle' = DrainThenSettle([handle EXCEPT !.gone = TRUE, !.rung = "none", !.exited = TRUE])
  /\ group' = (group /\ ~ handle.cancelled)
  /\ UNCHANGED <<proc, aborted, inbox, pipe, wrote, daemonUp>>

\* An exit ends the ladder, takes a cancelled worker's group with it, and starts
\* the wait for the end of the channel.
SeeExit ==
  /\ daemonUp /\ proc = "dead" /\ ~ handle.exited
  /\ LET h == [handle EXCEPT !.gone = TRUE, !.rung = "none", !.exited = TRUE]
         waits == h.run = "open" /\ ~ h.drained /\ h.drainTimer = "none"
     IN  handle' = IF h.run # "open" THEN h
                   ELSE DrainThenSettle(IF waits THEN [h EXCEPT !.drainTimer = "armed"] ELSE h)
  /\ group' = (group /\ ~ handle.cancelled)
  /\ UNCHANGED <<proc, aborted, inbox, pipe, wrote, daemonUp>>

DrainTimerFires ==
  /\ daemonUp /\ handle.drainTimer = "armed"
  /\ handle' = DrainThenSettle([handle EXCEPT !.drainTimer = "fired", !.drained = TRUE])
  /\ UNCHANGED <<proc, group, aborted, inbox, pipe, wrote, daemonUp>>

\* 'error': the child could not be run at all.
ForkFails ==
  /\ daemonUp /\ proc = "booting" /\ pipe = << >>
  /\ proc' = "unforked"
  /\ handle' = Finish([handle EXCEPT !.gone = TRUE, !.rung = "none"], "not_run")
  /\ UNCHANGED <<group, aborted, inbox, pipe, wrote, daemonUp>>

Cancel ==
  /\ daemonUp /\ ~ handle.cancelled /\ ~ handle.gone
  /\ handle' = [handle EXCEPT !.cancelled = TRUE, !.pending = FALSE, !.rung = "grace"]
  /\ IF handle.ready THEN Post("cancel") ELSE UNCHANGED inbox
  /\ UNCHANGED <<proc, group, aborted, pipe, wrote, daemonUp>>

\* SIGTERM to the group: each process in it may end, and may not.
GraceExpires ==
  /\ daemonUp /\ handle.rung = "grace"
  /\ handle' = [handle EXCEPT !.rung = "kill"]
  /\ proc' \in {proc, IF Alive THEN "dead" ELSE proc}
  /\ group' \in {group, FALSE}
  /\ UNCHANGED <<aborted, inbox, pipe, wrote, daemonUp>>

\* SIGKILL to the group.
KillGraceExpires ==
  /\ daemonUp /\ handle.rung = "kill"
  /\ handle' = [handle EXCEPT !.rung = "none"]
  /\ proc' = (IF Alive THEN "dead" ELSE proc) /\ group' = FALSE
  /\ UNCHANGED <<aborted, inbox, pipe, wrote, daemonUp>>

AgentNext ==
  \/ ChildStarts \/ ChildSpeaksAnotherProtocol \/ ChildReads \/ ChildReports
  \/ ChildLeaves \/ ChildCrashes \/ PluginSpawns \/ PluginChildEnds
  \/ DaemonDies \/ ChildLosesDaemon
  \/ Run \/ HandleReads \/ SeeDisconnect \/ SeeExit \/ DrainTimerFires
  \/ ForkFails \/ Cancel \/ GraceExpires \/ KillGraceExpires

\* The event loops run and armed timers fire; work and plugins need not end.
AgentFairness ==
  /\ WF_avars(ChildLeaves) /\ WF_avars(ChildLosesDaemon)
  /\ WF_avars(HandleReads) /\ WF_avars(SeeDisconnect) /\ WF_avars(SeeExit)
  /\ WF_avars(DrainTimerFires) /\ WF_avars(GraceExpires) /\ WF_avars(KillGraceExpires)

AgentSpec == AgentInit /\ [][AgentNext]_avars /\ AgentFairness

-----------------------------------------------------------------------------

\* A report the worker wrote is what its run ends as: a worker is recorded as
\* vanished over a report in the pipe only when the drain timer gave up on it
\* (agent-handle.ts drainThenSettle).
ReportIsKept ==
  handle.run = "vanished" /\ wrote # "none" => handle.drainTimer = "fired"

\* A run ends once: the report, the exit, the end of the channel and the timer can
\* all come, and the first of them stands (agent-handle.ts finish).
RunEndsOnce ==
  [][handle.run \notin {"none", "open"} => handle'.run = handle.run]_handle

\* Cancelling a worker leaves nothing of its process group behind once its exit
\* has been seen, the programs its plugins started included (agent-handle.ts exit).
CancelledGroupIsGone == handle.cancelled /\ handle.exited => ~ group

\* No job is sent to a worker after the operator cancelled it
\* (agent-handle.ts run, cancel and the ready message).
NoJobAfterCancel ==
  [][handle.cancelled /\ Len(inbox') > Len(inbox) => inbox'[Len(inbox')] # "job"]_avars

\* A run that was cancelled, or whose process is gone, ends, whatever the worker
\* and the programs it started do (agent-handle.ts cancel, exit).
StoppedRunEnds ==
  handle.run = "open" /\ (handle.cancelled \/ proc = "dead") ~> handle.run # "open" \/ ~ daemonUp

\* A worker does not outlive its daemon (agent.ts disconnect).
NoOrphanWorker == ~ daemonUp ~> proc \in {"dead", "unforked"}

=============================================================================
