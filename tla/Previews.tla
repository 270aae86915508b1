------------------------------ MODULE Previews ------------------------------
(***************************************************************************)
(* The library-wide dry runs behind the flow editor (flow/dry-run-runs.ts):*)
(* a run walks every file of the flow's libraries twice, once against the  *)
(* canvas and once against the published definition, and gives way to the  *)
(* event loop in between.  A flow has one run that can be asked for; what  *)
(* it replaces, drops or evicts may still be walking.                      *)
(***************************************************************************)
EXTENDS Naturals, FiniteSets

CONSTANTS
  Flows,
  MaxRuns,       \* bound: previews started
  MaxPublishes   \* bound: publishes while they run

VARIABLES
  stored,    \* the published definition of each flow, 0 once it is deleted
  runs,      \* every run there has been
  current,   \* the run of each flow that can be asked for, 0 for none
  publishes,
  closing    \* "open", "closing" (stopAll waits) or "closed"

previewVars == <<stored, runs, current, publishes, closing>>

Ids   == 1..MaxRuns
Files == 2   \* files of a snapshot
NoRun == [flow |-> "none", status |-> "none", at |-> "none", processed |-> 0,
          published |-> 0, compared |-> {}]

\* "at" is where the walk stands: before a file, after the canvas half of one,
\* after both, or over.  "compared" is what its rows were compared with.
PreviewTypeOK ==
  /\ stored \in [Flows -> 0..MaxPublishes + 1]
  /\ runs \in [Ids -> [flow : Flows \cup {"none"},
                       status : {"none", "running", "cancelled", "done", "failed"},
                       at : {"none", "file", "canvas", "both", "over"}, processed : 0..Files,
                       published : 0..MaxPublishes + 1, compared : SUBSET (1..MaxPublishes + 1)]]
  /\ current \in [Flows -> 0..MaxRuns]
  /\ closing \in {"open", "closing", "closed"}

PreviewInit ==
  /\ stored = [f \in Flows |-> 1] /\ runs = [i \in Ids |-> NoRun]
  /\ current = [f \in Flows |-> 0] /\ publishes = 0 /\ closing = "open"

Walking(i) == runs[i].at \in {"file", "canvas", "both"}

\* cancelRun: only a running one changes.
Cancelled(r) == IF r.status = "running" THEN [r EXCEPT !.status = "cancelled"] ELSE r

CancelAll(is) == [i \in Ids |-> IF i \in is THEN Cancelled(runs[i]) ELSE runs[i]]

Gone == {f \in Flows : current[f] # 0 /\ stored[f] = 0}

-----------------------------------------------------------------------------
(* The routes.                                                             *)

StartBeside(f) ==
  /\ closing = "open" /\ stored[f] # 0
  /\ \E i \in Ids :
       /\ runs[i] = NoRun /\ \A j \in 1..(i - 1) : runs[j] # NoRun
       /\ runs' = [CancelAll({current[g] : g \in Gone} \ {0}) EXCEPT ![i] =
            [NoRun EXCEPT !.flow = f, !.status = "running", !.at = "file",
                          !.published = stored[f]]]
       /\ current' = [g \in Flows |-> IF g = f THEN i ELSE IF g \in Gone THEN 0 ELSE current[g]]
  /\ UNCHANGED <<stored, publishes, closing>>

\* A start drops the runs of flows that are gone, and cancels the one it replaces.
Start(f) ==
  /\ closing = "open" /\ stored[f] # 0
  /\ \E i \in Ids :
       /\ runs[i] = NoRun /\ \A j \in 1..(i - 1) : runs[j] # NoRun
       /\ runs' = [CancelAll({current[g] : g \in Gone \cup {f}} \ {0}) EXCEPT ![i] =
            [NoRun EXCEPT !.flow = f, !.status = "running", !.at = "file",
                          !.published = stored[f]]]
       /\ current' = [g \in Flows |-> IF g = f THEN i ELSE IF g \in Gone THEN 0 ELSE current[g]]
  /\ UNCHANGED <<stored, publishes, closing>>

\* POST cancel: stops a walking run and never drops one.
StopRun(f) ==
  /\ closing = "open" /\ stored[f] # 0 /\ current[f] # 0
  /\ runs' = CancelAll({current[f]})
  /\ UNCHANGED <<stored, current, publishes, closing>>

\* DELETE: a running run is cancelled and stays readable, any other is dropped.
CancelOrDrop(f) ==
  /\ closing = "open" /\ stored[f] # 0 /\ current[f] # 0
  /\ IF runs[current[f]].status = "running"
     THEN runs' = CancelAll({current[f]}) /\ UNCHANGED current
     ELSE current' = [current EXCEPT ![f] = 0] /\ UNCHANGED runs
  /\ UNCHANGED <<stored, publishes, closing>>

Publish(f) ==
  /\ stored[f] # 0 /\ publishes < MaxPublishes
  /\ publishes' = publishes + 1 /\ stored' = [stored EXCEPT ![f] = publishes + 2]
  /\ UNCHANGED <<runs, current, closing>>

DeleteFlow(f) ==
  /\ stored[f] # 0 /\ stored' = [stored EXCEPT ![f] = 0]
  /\ UNCHANGED <<runs, current, publishes, closing>>

\* stopAll cancels what can be asked for and waits for every walk.
StopAll ==
  /\ closing = "open" /\ closing' = "closing"
  /\ runs' = CancelAll({current[f] : f \in Flows} \ {0})
  /\ UNCHANGED <<stored, current, publishes>>

Stopped ==
  /\ closing = "closing" /\ \A i \in Ids : ~Walking(i)
  /\ closing' = "closed" /\ UNCHANGED <<stored, runs, current, publishes>>

-----------------------------------------------------------------------------
(* The walk.                                                               *)

\* The next file, unless the run was cancelled while it waited.
Canvas(i) ==
  /\ runs[i].at = "file"
  /\ runs' = [runs EXCEPT ![i].at =
       IF runs[i].status = "cancelled" THEN "over" ELSE "canvas"]
  /\ UNCHANGED <<stored, current, publishes, closing>>

Rereads(i) == stored[runs[i].flow]

\* What the published half walks: the definition of the moment of the start.
Against(i) == runs[i].published

PublishedHalf(i) ==
  /\ runs[i].at = "canvas"
  /\ runs' = [runs EXCEPT
       ![i].at = IF runs[i].status = "cancelled" THEN "over" ELSE "both",
       ![i].compared = IF runs[i].status = "cancelled" THEN @ ELSE @ \cup ({Against(i)} \ {0})]
  /\ UNCHANGED <<stored, current, publishes, closing>>

RowAnyway(i) ==
  /\ runs[i].at = "both"
  /\ runs' = [runs EXCEPT ![i] =
       IF @.processed + 1 = Files
       THEN [@ EXCEPT !.processed = Files, !.at = "over", !.status = "done"]
       ELSE [@ EXCEPT !.processed = runs[i].processed + 1, !.at = "file"]]
  /\ UNCHANGED <<stored, current, publishes, closing>>

\* A row is added, unless the run was cancelled; after the last it is done.
Row(i) ==
  /\ runs[i].at = "both"
  /\ runs' = [runs EXCEPT ![i] =
       IF @.status = "cancelled" THEN [@ EXCEPT !.at = "over"]
       ELSE IF @.processed + 1 = Files
            THEN [@ EXCEPT !.processed = Files, !.at = "over", !.status = "done"]
            ELSE [@ EXCEPT !.processed = runs[i].processed + 1, !.at = "file"]]
  /\ UNCHANGED <<stored, current, publishes, closing>>

\* The walk itself throws.
Throws(i) ==
  /\ Walking(i)
  /\ runs' = [runs EXCEPT ![i].at = "over",
                          ![i].status = IF @ = "cancelled" THEN @ ELSE "failed"]
  /\ UNCHANGED <<stored, current, publishes, closing>>

PreviewNext ==
  \/ \E f \in Flows : Start(f) \/ StopRun(f) \/ CancelOrDrop(f) \/ Publish(f) \/ DeleteFlow(f)
  \/ \E i \in Ids : Canvas(i) \/ PublishedHalf(i) \/ Row(i) \/ Throws(i)
  \/ StopAll \/ Stopped

PreviewSpec == PreviewInit /\ [][PreviewNext]_previewVars

-----------------------------------------------------------------------------

\* A preview answers one question: all its rows compare the canvas with the
\* definition whose hash it reports, whatever is published while it walks.
OneComparison == \A i \in Ids : runs[i].compared \subseteq {runs[i].published}

\* Nobody walks a library for a run nobody can read, but for flows deleted
\* under it: what was replaced, dropped or evicted is cancelled.  Shutdown
\* relies on it, which cancels what can be asked for and waits for all.
OrphansAreCancelled ==
  \A i \in Ids :
     /\ Walking(i) /\ runs[i].status = "running" => current[runs[i].flow] = i
     /\ closing = "closed" => ~Walking(i)

\* A run that reads "cancelled" stays as it was read: no row is added and it
\* is never done.
CancelledStaysPut ==
  [][\A i \in Ids : runs[i].status = "cancelled" =>
       runs'[i].status = "cancelled" /\ runs'[i].processed = runs[i].processed]_previewVars
=============================================================================
