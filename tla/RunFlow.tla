------------------------------- MODULE RunFlow -------------------------------
(***************************************************************************)
(* One run of a flow over one file: engine/src/executor/run-flow.ts (the   *)
(* walk), server/src/worker/run-payload.ts (the commit gate, what Replace  *)
(* left behind and the report), engine/src/executor/dry-run.ts (the same   *)
(* walk with stand-ins) and core/src/flow-validate.ts (what a stored flow  *)
(* may look like).                                                         *)
(*                                                                         *)
(* A flow is a graph: kind[n] is the plugin of node n, edges the triples   *)
(* <<from, output, to>>.  The program searches its arrays for the first    *)
(* start node, error handler or edge; the order of the arrays is the       *)
(* author's, so the model takes any that fits.  A plugin is known by what  *)
(* the walk can see of it (Kinds) and returns any of its outputs.          *)
(*                                                                         *)
(* Abstracted: the arguments and variables of a plugin (but the error      *)
(* outcome), logs, progress, the probe and the hash of the file.  How a    *)
(* replacement proceeds inside its node is module Replacement.             *)
(***************************************************************************)
EXTENDS Naturals, Sequences, FiniteSets

CONSTANTS
  Casts,       \* the plugins of the nodes of a flow, in any of these ways
  Wirings,     \* its edges, <<from, output, to>>
  MaxSteps     \* maxSteps: the budget of a walk

VARIABLES
  flow,        \* the flow of this run
  mode,        \* "real" or "dry"
  at,          \* the node to run next, 0 outside a walk
  steps,       \* steps recorded so far
  last,        \* the last step: [node, out, outcome, error]
  errorVars,        \* flowErrorOutcome: "none" until an On Error node sets it
  handlerUsed, \* the error handler was entered without an edge
  gate,        \* the daemon's answer so far: "granted", "refused", "unanswered"
  library,     \* the path that holds the library file
  installed,   \* TRUE once a replacement of this run landed
  replaces,    \* replaceOutputs: the path each Replace returned, oldest first
  open,        \* a failure nobody has dealt with (history)
  touched,     \* community code ran in this run (history)
  ended        \* what the run came to: see Report

rvars == <<flow, mode, at, steps, last, errorVars, handlerUsed, gate, library,
           installed, replaces, open, touched, ended>>

-----------------------------------------------------------------------------
(* Plugins, by what details() and the classification say of them.          *)

Kinds == {"start", "verify", "replace", "fail", "hold", "onError", "recover",
          "handler", "community", "broken"}

Outputs == [k \in Kinds |->
  CASE k \in {"verify", "replace", "community"} -> {1, 2}
    [] k \in {"fail", "hold", "broken"}         -> {}
    [] OTHER                                    -> {1}]

IsStart(k)   == k = "start"
IsHandler(k) == k \in {"onError", "recover", "handler"}
IsReview(k)  == k = "hold"

\* The output a first-party node declares to mean failure.
Outcome(k, out) == IF k \in {"verify", "replace"} /\ out = 2 THEN "failure" ELSE "none"

\* classifySideEffects: an installed plugin may do anything to the library.
Unknown(k) == k \in {"community", "handler", "broken"}

Controlled(k) == k \in {"verify", "replace"}

\* Mutant: The dry run vouches for every plugin that loads.
LoadsInAnyMode(k) == k # "broken"

\* createPluginLoader finds no file for it; a dry run refuses what it cannot vouch for.
Loads(k) == k # "broken" /\ (mode = "dry" => ~ Unknown(k))

Nodes(f) == DOMAIN f.kind

\* Mutant: Only a flow's edges are checked, not where it starts.
ProblemsOfEdges(f) ==
  {e \in f.edges : {e[1], e[3]} \ Nodes(f) # {}}

\* validateFlowDefinition with a resolver that cannot resolve "broken".
Resolved(k) == k # "broken"
Problems(f) ==
  LET starts == {n \in Nodes(f) : IsStart(f.kind[n])}
      sources(e) == {d \in f.edges : d[1] = e[1] /\ d[2] = e[2]} IN
    {p \in {"unknown-node", "ambiguous", "undeclared-output", "error-handlers", "start-nodes"} :
       CASE p = "unknown-node"      -> \E e \in f.edges : {e[1], e[3]} \ Nodes(f) # {}
         [] p = "ambiguous"         -> \E e \in f.edges : Cardinality(sources(e)) > 1
         [] p = "undeclared-output" -> \E e \in f.edges :
              /\ e[1] \in Nodes(f) /\ Resolved(f.kind[e[1]])
              /\ e[2] \notin Outputs[f.kind[e[1]]]
         [] p = "error-handlers"    ->
              Cardinality({n \in Nodes(f) : IsHandler(f.kind[n])}) > 1
         [] p = "start-nodes"       ->
              \/ Cardinality(starts) > 1
              \/ starts = {} /\ \A n \in Nodes(f) : Resolved(f.kind[n])}

-----------------------------------------------------------------------------

Stops == {"end-of-flow", "plugin-error", "step-budget", "missing-node",
          "no-start-node", "held-for-review"}

NoStep == [node |-> 0, out |-> 0, outcome |-> "none", error |-> FALSE]

\* "walking"; "stopped" with runFlow's stop reason, or "aborted"; then what
\* runPayload resolves with, or "rejected".
Report(kind, stop, success, replaced) ==
  [kind |-> kind, stop |-> stop, success |-> success, replaced |-> replaced]
Walking == Report("walking", "none", FALSE, "none")

Paths == {"old", "new"}

RunTypeOK ==
  /\ flow.kind \in Casts /\ flow.edges \in Wirings /\ mode \in {"real", "dry"}
  /\ at \in Nodes(flow) \cup {0} /\ steps \in 0..MaxSteps
  /\ last \in [node : Nodes(flow) \cup {0}, out : 0..2, outcome : {"none", "failure"},
               error : BOOLEAN]
  /\ errorVars \in {"none", "failure", "success"}
  /\ gate \in {"granted", "refused", "unanswered"}
  /\ library \in Paths /\ replaces \in Seq(Paths)
  /\ handlerUsed \in BOOLEAN /\ installed \in BOOLEAN /\ open \in BOOLEAN /\ touched \in BOOLEAN
  /\ ended.kind \in {"walking", "stopped", "aborted", "reported", "rejected"}
  /\ ended.stop \in Stops \cup {"none"} /\ ended.success \in BOOLEAN
  /\ ended.replaced \in Paths \cup {"none"}

RunInit ==
  /\ \E kind \in Casts, edges \in Wirings : flow = [kind |-> kind, edges |-> edges]
  /\ mode \in {"real", "dry"}
  /\ at = 0 /\ steps = 0 /\ last = NoStep /\ errorVars = "none" /\ handlerUsed = FALSE
  /\ gate = "granted" /\ library = "old" /\ installed = FALSE /\ replaces = << >>
  /\ open = FALSE /\ touched = FALSE /\ ended = Walking

Stop(reason) == at' = 0 /\ ended' = Report("stopped", reason, FALSE, "none")

\* findStartNode; a node that does not load is not the start.
Start ==
  /\ ended = Walking /\ at = 0 /\ steps = 0
  /\ LET starts == {n \in Nodes(flow) : Loads(flow.kind[n]) /\ IsStart(flow.kind[n])} IN
       IF starts = {} THEN Stop("no-start-node")
                      ELSE at' \in starts /\ UNCHANGED ended
  /\ UNCHANGED <<flow, mode, steps, last, errorVars, handlerUsed, gate, library,
                 installed, replaces, open, touched>>

\* observeCurrentFile found the file changed and could not probe it, or no
\* scratch directory could be made: the run rejects before its first node.
CannotStart ==
  /\ ended = Walking /\ at = 0 /\ steps = 0 /\ mode = "real"
  /\ ended' = Report("rejected", "none", FALSE, "none")
  /\ UNCHANGED <<flow, mode, at, steps, last, errorVars, handlerUsed, gate, library,
                 installed, replaces, open, touched>>

Handlers(node) ==
  {n \in Nodes(flow) : n # node /\ Loads(flow.kind[n]) /\ IsHandler(flow.kind[n])}

\* A failure goes to the error handler, once; without one the walk stops.
RouteFailure(node, stop) ==
  IF ~ handlerUsed /\ Handlers(node) # {}
    THEN /\ handlerUsed' = TRUE /\ at' \in Handlers(node)
         /\ UNCHANGED ended
    ELSE /\ Stop(stop) /\ UNCHANGED handlerUsed

Record(node, out, outcome, error) ==
  /\ steps' = steps + 1
  /\ last' = [node |-> node, out |-> out, outcome |-> outcome, error |-> error]

InBudget == ended = Walking /\ at # 0 /\ steps < MaxSteps

\* Mutant: The budget only warns, and counts anew.
OverBudgetWarns ==
  /\ ended = Walking /\ at # 0 /\ steps >= MaxSteps /\ steps' = 0
  /\ UNCHANGED <<flow, mode, at, last, errorVars, handlerUsed, gate, library,
                 installed, replaces, open, touched, ended>>

OverBudget ==
  /\ ended = Walking /\ at # 0 /\ steps >= MaxSteps
  /\ Stop("step-budget")
  /\ UNCHANGED <<flow, mode, steps, last, errorVars, handlerUsed, gate, library,
                 installed, replaces, open, touched>>

\* The plugin of a node does not load: a step with an error.  A dry run's
\* loader refuses to vouch for a node, and that is not routed.
LoadFails ==
  /\ InBudget /\ ~ Loads(flow.kind[at])
  /\ Record(at, 0, "none", TRUE) /\ open' = TRUE
  /\ IF mode = "dry" THEN Stop("plugin-error") /\ UNCHANGED handlerUsed
                     ELSE RouteFailure(at, "plugin-error")
  /\ UNCHANGED <<flow, mode, errorVars, gate, library, installed, replaces, touched>>

\* The commit gate: asked before a replacement and before code nobody vouches for.
Asks(k) == mode = "real" /\ (k = "replace" \/ Unknown(k))

\* Mutant: The refusal is thrown as an ordinary error.
AbortIsRouted ==
  /\ Record(at, 0, "none", TRUE) /\ open' = TRUE
  /\ RouteFailure(at, "plugin-error")

\* A FlowAbort leaves the walk: no step, no error handler.  A gate that could
\* not answer has not granted.
Abort ==
  /\ at' = 0 /\ ended' = Report("aborted", "none", FALSE, "none")
  /\ UNCHANGED <<steps, last, handlerUsed, open>>

Refused ==
  /\ InBudget /\ Loads(flow.kind[at]) /\ Asks(flow.kind[at])
  /\ gate' \in {"refused", "unanswered"}
  /\ Abort
  /\ UNCHANGED <<flow, mode, errorVars, library, installed, replaces, touched>>

Calls == InBudget /\ Loads(flow.kind[at])

\* What Replace Original File does and returns.  It lands the new file under
\* the old name or another, and may land it and still take its failure
\* output; refusing, it names the file the run was given.
Replaces(out) ==
  \/ /\ library = "old"
     /\ library' \in Paths /\ installed' = TRUE
     /\ replaces' = Append(replaces, library')
  \/ /\ out = 2
     /\ replaces' = Append(replaces, "old")
     /\ UNCHANGED <<library, installed>>

\* The stand-in of a dry run takes the first output and touches nothing.
Effect(k, out) ==
  IF k = "replace" /\ mode = "real"
    THEN Replaces(out)
    ELSE UNCHANGED <<library, installed, replaces>>

OutputsOf(k) == IF mode = "dry" /\ Controlled(k) THEN {1} ELSE Outputs[k]

ErrorOutcome(k) ==
  CASE k = "onError" -> "failure" [] k = "recover" -> "success" [] OTHER -> errorVars

\* The next node by an edge; a failure nobody wired goes to the handler.
Follow(node, out, outcome) ==
  LET targets == {e[3] : e \in {d \in flow.edges : d[1] = node /\ d[2] = out}} IN
    IF targets # {}
      THEN /\ \E to \in targets :
                IF to \in Nodes(flow) THEN at' = to /\ UNCHANGED ended
                                      ELSE Stop("missing-node")
           /\ UNCHANGED handlerUsed
      ELSE IF outcome = "failure" THEN RouteFailure(node, "end-of-flow")
                                  ELSE Stop("end-of-flow") /\ UNCHANGED handlerUsed

Wired(node, out) == \E e \in flow.edges : e[1] = node /\ e[2] = out

\* A node runs and takes one of its outputs.
Visit ==
  /\ Calls
  /\ LET k == flow.kind[at] IN \E out \in OutputsOf(k) :
       /\ Effect(k, out)
       /\ Record(at, out, Outcome(k, out), FALSE)
       /\ errorVars' = ErrorOutcome(k)
       /\ touched' = (touched \/ Unknown(k))
       /\ open' = \/ Outcome(k, out) = "failure" /\ ~ Wired(at, out)
                  \/ open /\ k \notin {"recover", "handler"}
       /\ Follow(at, out, Outcome(k, out))
  /\ UNCHANGED <<flow, mode, gate>>

\* A node throws; Fail File always does, Hold for Review asks for a person.
Throws ==
  /\ Calls /\ flow.kind[at] \notin {"start", "onError", "recover", "hold"}
  /\ mode = "dry" => ~ Controlled(flow.kind[at])
  /\ Record(at, 0, "none", TRUE) /\ open' = TRUE
  /\ touched' = (touched \/ Unknown(flow.kind[at]))
  /\ RouteFailure(at, "plugin-error")
  /\ UNCHANGED <<flow, mode, errorVars, gate, library, installed, replaces>>

Holds ==
  /\ Calls /\ IsReview(flow.kind[at])
  /\ Record(at, 0, "none", FALSE)
  /\ Stop("held-for-review")
  /\ UNCHANGED <<flow, mode, errorVars, handlerUsed, gate, library, installed, replaces,
                 open, touched>>

-----------------------------------------------------------------------------
(* The report.                                                             *)

\* finish: what runFlow itself calls failed.
FlowFailed == ended.stop # "end-of-flow" \/ errorVars = "failure"

\* Mutant: An allow-list of nodes forgets one, so nothing is an unrouted failure.
UnroutedFailureUnseen == FALSE

\* The flow stopped on a declared failure its author routed nowhere.
UnroutedFailure == ended.stop = "end-of-flow" /\ last.outcome = "failure"

\* Mutant: Only the last Replace is looked at.
ReplacedByTheLast ==
  IF replaces # << >> /\ replaces[Len(replaces)] = library THEN library ELSE "none"

\* What the library file is now: the latest Replace whose path still exists.
Replaced ==
  LET found == {i \in DOMAIN replaces : replaces[i] = library} IN
    IF found = {} THEN "none" ELSE library

\* runPayload resolves.  Removing the scratch directory and closing the log
\* may fail, which changes nothing here.
Reports ==
  /\ ended.kind = "stopped"
  /\ ended' = Report("reported", ended.stop, ~ FlowFailed /\ ~ UnroutedFailure, Replaced)
  /\ UNCHANGED <<flow, mode, at, steps, last, errorVars, handlerUsed, gate, library,
                 installed, replaces, open, touched>>

\* An abort before any replacement rejects; after one it is reported, failed.
ReportsAbort ==
  /\ ended.kind = "aborted"
  /\ ended' = IF replaces = << >> THEN Report("rejected", "none", FALSE, "none")
                                  ELSE Report("reported", "plugin-error", FALSE, Replaced)
  /\ UNCHANGED <<flow, mode, at, steps, last, errorVars, handlerUsed, gate, library,
                 installed, replaces, open, touched>>

RunNext == Start \/ CannotStart \/ OverBudget \/ LoadFails \/ Refused \/ Visit
             \/ Throws \/ Holds \/ Reports \/ ReportsAbort

\* A plugin returns or throws, and the walk goes on by itself.
RunFairness == WF_rvars(RunNext)
RunSpec == RunInit /\ [][RunNext]_rvars /\ RunFairness

-----------------------------------------------------------------------------
(* What a run promises.                                                    *)

\* Two workers, one file: once the daemon has refused this run (or could not
\* answer), no node runs, the error handler included.
RefusalEndsTheRun == [][gate # "granted" => steps' = steps /\ UNCHANGED <<library, touched>>]_rvars

\* A replacement that landed is never lost from the record: however the run
\* ended, it reports the path that holds the file now.
ReplacedIsReported ==
  ended.kind \in {"reported", "rejected"} /\ installed =>
    ended.kind = "reported" /\ ended.replaced = library

\* A run counts as a success only when every failure in it was wired
\* somewhere by its author or taken over by a handler that recovers.
SuccessIsEarned == ended.success => ~ open /\ ended.stop = "end-of-flow"

\* A flow that was accepted never stops for a reason the validation exists
\* to exclude, unless a plugin cannot be found where it runs.
AcceptedFlowsRun ==
  ended.stop \in {"missing-node", "no-start-node"} =>
    Problems(flow) # {} \/ \E n \in Nodes(flow) : ~ Resolved(flow.kind[n])

\* A dry run installs nothing and runs no code nobody vouches for.
DryRunTouchesNothing == mode = "dry" => ~ installed /\ ~ touched

\* Cycles are legal, and every run still ends with a report or a rejection.
EveryRunEnds == <>(ended.kind \in {"reported", "rejected"})

=============================================================================
