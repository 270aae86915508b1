---------------------------- MODULE LibraryHealth ----------------------------
(***************************************************************************)
(* Libraries, the flow they are attached to and the two authorities that   *)
(* pause them: the operator and the health check of the flow               *)
(* (library-health.ts, routes/libraries.ts, routes/flows.ts,               *)
(* library-repo.ts).  Neither may lift the other's pause, and a change of  *)
(* what "converged" means must reach a scan.                               *)
(***************************************************************************)
EXTENDS Naturals

CONSTANTS
  Graphs,      \* definitions of the flow; the hash of each is itself
  Using,       \* those of them that name an installed plugin
  Libraries

VARIABLES
  live,        \* the flow's published definition, or NoFlow once it is deleted
  plugin,      \* that plugin on this host: "absent", "good", or "changed" in what it declares
  libs         \* the library rows and the scan each is due

healthVars == <<live, plugin, libs>>

NoFlow == 0
Reasons == {"no flow", "invalid", "unresolved"}

\* "checked" is the plugin as the last check of the library saw it; nothing reads it.
HealthTypeOK ==
  /\ live \in Graphs \cup {NoFlow}
  /\ plugin \in {"absent", "good", "changed"}
  /\ libs \in [Libraries -> [attached : BOOLEAN, pause : Reasons \cup {"none", "operator"},
                             due : BOOLEAN, scanning : BOOLEAN, reads : Graphs \cup {NoFlow},
                             under : Graphs \cup {NoFlow},
                             checked : {"absent", "good", "changed"}]]

Valid(d, p)      == ~(d \in Using /\ p = "changed")
Resolvable(d, p) == ~(d \in Using /\ p = "absent")

\* What is wrong with the flow of a library, in the order the check asks.
FlowInvalidReason(attached, d, p) ==
  CASE ~attached \/ d = NoFlow -> "no flow"
    [] attached /\ d # NoFlow /\ ~Valid(d, p) -> "invalid"
    [] attached /\ d # NoFlow /\ Valid(d, p) /\ ~Resolvable(d, p) -> "unresolved"
    [] OTHER -> "none"

CheckTakesOver(l, d, p) ==
  [l EXCEPT !.pause = FlowInvalidReason(l.attached, d, p), !.checked = p]

\* One check: an operator's pause is left alone, and any other follows the flow.
CheckLibraryHealth(l, d, p) ==
  IF l.pause = "operator" THEN [l EXCEPT !.checked = p]
  ELSE [l EXCEPT !.pause = FlowInvalidReason(l.attached, d, p), !.checked = p]

CheckAllLibraries(rows, d) == [l \in Libraries |-> CheckLibraryHealth(rows[l], d, plugin)]

NewLibrary == [attached |-> FALSE, pause |-> "none", due |-> TRUE, scanning |-> FALSE,
               reads |-> NoFlow, under |-> NoFlow, checked |-> "good"]

HealthInit ==
  /\ live \in Graphs /\ plugin = "good"
  /\ libs = [l \in Libraries |-> CheckLibraryHealth(NewLibrary, live, "good")]

-----------------------------------------------------------------------------

\* A publish that asks only for the libraries it finds enabled.
PublishSkipsPaused ==
  /\ live # NoFlow
  /\ \E d \in Graphs :
       /\ Valid(d, plugin)
       /\ live' = d
       /\ libs' = [l \in Libraries |->
            [CheckAllLibraries(libs, d)[l] EXCEPT
               !.due = @ \/ (libs[l].attached /\ libs[l].pause = "none")]]
  /\ UNCHANGED plugin

\* Every publish, a restore among them: store, check, and ask for a scan of
\* each library that uses the flow.
PublishFlow ==
  /\ live # NoFlow
  /\ \E d \in Graphs :
       /\ Valid(d, plugin)
       /\ live' = d
       /\ libs' = [l \in Libraries |->
            [CheckAllLibraries(libs, d)[l] EXCEPT !.due = @ \/ libs[l].attached]]
  /\ UNCHANGED plugin

DeleteFlowUnchecked ==
  /\ live # NoFlow /\ live' = NoFlow
  /\ libs' = [l \in Libraries |-> [libs[l] EXCEPT !.attached = FALSE]]
  /\ UNCHANGED plugin

\* library.flow_id is set to null with the row it names.
DeleteFlow ==
  /\ live # NoFlow /\ live' = NoFlow
  /\ libs' = CheckAllLibraries([l \in Libraries |-> [libs[l] EXCEPT !.attached = FALSE]], NoFlow)
  /\ UNCHANGED plugin

\* PATCH: attach or detach, or an edit that leaves the flow alone.
UpdateLibrary(l) ==
  /\ \E attached \in BOOLEAN :
       /\ attached => live # NoFlow
       /\ libs' = [libs EXCEPT ![l] =
            [CheckLibraryHealth([libs[l] EXCEPT !.attached = attached], live, plugin)
               EXCEPT !.due = @ \/ attached # libs[l].attached]]
  /\ UNCHANGED <<live, plugin>>

\* The operator's pause replaces whatever pause there is.
Pause(l) ==
  /\ libs' = [libs EXCEPT ![l].pause = "operator"]
  /\ UNCHANGED <<live, plugin>>

\* Refused while the row says the flow is at fault; the flow is not asked again.
Resume(l) ==
  /\ libs[l].pause \notin Reasons
  /\ libs' = [libs EXCEPT ![l] = CheckLibraryHealth([libs[l] EXCEPT !.pause = "none"], live, plugin)]
  /\ UNCHANGED <<live, plugin>>

\* A sync or the removal of a source changes the plugin, and checks nothing.
PluginChanges ==
  /\ \E p \in {"absent", "good", "changed"} : p # plugin /\ plugin' = p
  /\ UNCHANGED <<live, libs>>

\* A scan reads the flow when it starts, and marks its files when it ends.
ScanStarts(l) ==
  /\ libs[l].due /\ ~libs[l].scanning
  /\ libs' = [libs EXCEPT ![l].due = FALSE, ![l].scanning = TRUE,
                          ![l].reads = IF libs[l].attached THEN live ELSE NoFlow]
  /\ UNCHANGED <<live, plugin>>

ScanEnds(l) ==
  /\ libs[l].scanning
  /\ libs' = [libs EXCEPT ![l].scanning = FALSE, ![l].under = libs[l].reads, ![l].reads = NoFlow]
  /\ UNCHANGED <<live, plugin>>

\* The daemon starts again: every library is checked, and scanned.
Restart ==
  /\ libs' = [l \in Libraries |->
       [CheckLibraryHealth(libs[l], live, plugin) EXCEPT
          !.due = TRUE, !.scanning = FALSE, !.reads = NoFlow]]
  /\ UNCHANGED <<live, plugin>>

HealthNext ==
  \/ PublishFlow \/ DeleteFlow \/ PluginChanges \/ Restart
  \/ \E l \in Libraries : UpdateLibrary(l) \/ Pause(l) \/ Resume(l) \/ ScanStarts(l) \/ ScanEnds(l)

HealthSpec == HealthInit /\ [][HealthNext]_healthVars

-----------------------------------------------------------------------------

\* As far as the plugins are as the last check saw them, a library is held
\* for its flow exactly when the flow cannot be run: no flow, library or
\* operator request leaves a runnable one held, or hands the files of one
\* that is not to a flow that fails on each of them.
PauseIsTheFlows ==
  \A l \in Libraries :
     libs[l].checked = plugin /\ libs[l].pause # "operator" =>
        libs[l].pause = FlowInvalidReason(libs[l].attached, live, plugin)

\* No file stays "converged" under a definition it was never compared with:
\* until a library's files have been scanned under the flow as it now
\* stands, a scan of it is due or has read that flow.
NothingConvergesUnseen ==
  \A l \in Libraries :
     libs[l].attached =>
        \/ libs[l].due
        \/ libs[l].scanning /\ libs[l].reads = live
        \/ ~libs[l].scanning /\ libs[l].under = live

\* The health check never lifts an operator's pause, nor rewrites it: it ends
\* by the operator's own request.
OperatorPauseIsTheOperators ==
  [][\A l \in Libraries :
       libs[l].pause = "operator" /\ libs'[l].pause # "operator" =>
          live' = live /\ plugin' = plugin /\ libs'[l] = [libs[l] EXCEPT
            !.pause = FlowInvalidReason(libs[l].attached, live, plugin), !.checked = plugin]]_healthVars

\* "The pause clears itself as soon as the flow is runnable"
\* (routes/libraries.ts:545).
HeldOnlyWhileUnrunnable ==
  \A l \in Libraries :
     libs[l].pause \in Reasons => FlowInvalidReason(libs[l].attached, live, plugin) # "none"
=============================================================================
