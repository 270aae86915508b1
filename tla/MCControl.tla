----------------------------- MODULE MCControl -----------------------------
(***************************************************************************)
(* What the operator works on through the daemon's API, one part at a time:*)
(* a flow and its drafts, the libraries attached to it, the sources of its *)
(* plugins, the previews of it, the nodes: how they are enrolled, what they*)
(* are told and the bundles they are served, the settings, and the files.  *)
(***************************************************************************)
EXTENDS Naturals, Sequences, FiniteSets, TLC

CONSTANTS
  Graphs, Unfinished, Tabs, MaxVersions,
  Plugins, OpenFlows, SmallFlows, MaxNodeId, MaxPast, MaxCanvasEdits, MaxLayoutCuts,
  Using, Libraries,
  MaxSyncs, MaxSources,
  Flows, MaxRuns, MaxPublishes,
  ServerPaths, NodePaths, Layouts, FilePath, NodeTree, MapsInUse, MaxChanges, MaxCuts,
  NodeIds, NodeNames, Calls,
  Roots, Contents, Requests, MaxEdits,
  Seedings, MaxStarts, MaxSaves, DayMinutes,
  DestNames, Hosts, MaxRows, MaxHeaders, MaxFormEdits, MaxPuts,
  FileIds, Deletes, MaxClicks, MaxWork,
  Paths, States, Searches, Matches, PageSize, MaxTurns, MaxMoves

\* A variable of the environment that may be left out.
Optional(S) == {<<>>} \cup {<<x>> : x \in S}

\* What a field holds that nobody filled in.
NoText == ""

\* A request and a file are known by their number, and 0 is none; a path is the sequence of
\* its segments; a page has at least one row; the environment may name a zone nobody knows; a
\* host has a name.
ASSUME ControlAssumption ==
  /\ 0 \notin Calls /\ 0 \notin FileIds
  /\ IsFiniteSet(Paths) /\ PageSize \in Nat \ {0}
  /\ ServerPaths \subseteq Seq(STRING) /\ NodePaths \subseteq Seq(STRING)
  /\ Seedings \subseteq [timezone : Optional({"UTC", "paris", "nowhere"}), counts : Optional(0..2),
                         issuer : Optional({NoText, "idp"}), enabled : Optional(BOOLEAN)]
  /\ DayMinutes \in Nat \ {0} /\ MaxHeaders \in Nat /\ NoText \notin Hosts

VARIABLES
  part,
  published, versions, draft, tabs, buffers,
  shown, history, sequence, store, wire, kept, canvasEdits, layoutCuts,
  live, plugin, libs,
  source, rows, disk, sync, status, asked, added, job, failed, host,
  stored, runs, current, publishes, closing,
  map, library, linked, fresh, toNode, toHub, probed, config, probes, mounted, sentJob, recorded,
  refused, changes, losses,
  nodeRow, call,
  tree, cacheByRoot, rootByHash, request, edits,
  setting, daemon, page, starts, saves,
  destination, used, screen, formEdits, puts,
  row, onDisk, jobs, reserved, deletion, panel, loads, answers, disturbed, clicks, work,
  ledger, filters, field, list, fetches, moved, turns, moves

Editor  == INSTANCE FlowEditor
Health  == INSTANCE LibraryHealth
Sources == INSTANCE PluginSources
Dry     == INSTANCE Previews
Config  == INSTANCE NodeConfig
Enrol   == INSTANCE Enrolment
Store   == INSTANCE BundleStore
Draw    == INSTANCE FlowCanvas
Stored  == INSTANCE Settings WITH Pages <- Tabs
Dests   == INSTANCE AlertSettings WITH Screens <- Tabs
Panel   == INSTANCE FilePanel
Listed  == INSTANCE FileList

editorVars  == <<published, versions, draft, tabs, buffers>>
drawVars    == <<shown, history, sequence, store, wire, kept, canvasEdits, layoutCuts>>
healthVars  == <<live, plugin, libs>>
sourceVars  == <<source, rows, disk, sync, status, asked, added, job, failed, host>>
previewVars == <<stored, runs, current, publishes, closing>>
configVars  == <<map, library, linked, fresh, toNode, toHub, probed, config, probes, mounted,
                 sentJob, recorded, refused, changes, losses>>
enrolVars   == <<nodeRow, call>>
storeVars   == <<tree, cacheByRoot, rootByHash, request, edits>>
settingVars == <<setting, daemon, page, starts, saves>>
destVars    == <<destination, used, screen, formEdits, puts>>
panelVars   == <<row, onDisk, jobs, reserved, deletion, panel, loads, answers, disturbed, clicks, work>>
listVars    == <<ledger, filters, field, list, fetches, moved, turns, moves>>
nodeVars    == <<configVars, enrolVars, storeVars>>
flowVars    == <<editorVars, drawVars, healthVars, sourceVars, previewVars>>
fileVars    == <<panelVars, listVars>>
restVars    == <<settingVars, destVars, fileVars>>
controlVars == <<part, flowVars, nodeVars, restVars>>

\* Two maps that agree with the other paths of the node, one that swaps them, and one from
\* before its nesting was refused; a library whose trash is elsewhere, and another.
MCServerPaths == {<<"a">>, <<"b">>, <<"a", "b">>}
MCNodePaths   == {<<"m">>, <<"n">>, <<"m", "b">>, <<"m", "c">>}
MCLayouts     == {[roots |-> {<<"a">>}, dirs |-> {<<"b">>}], [roots |-> {<<"b">>}, dirs |-> {}]}
MCFile        == <<"a", "b">>
MCTree        == {<<"m">>, <<"n">>}
MCEntry(s, n) == [server |-> s, node |-> n]
MCMaps == {<<MCEntry(<<"a">>, <<"m">>)>>, <<MCEntry(<<"b">>, <<"n">>)>>,
           <<MCEntry(<<"a">>, <<"n">>), MCEntry(<<"b">>, <<"m">>)>>,
           <<MCEntry(<<"a">>, <<"m">>), MCEntry(<<"a", "b">>, <<"n">>)>>}

\* A compose file that says nothing, one that says all, and one with a zone nobody knows
\* and sign-on without its provider.
MCSeeds(zone, counts, issuer, on) == [timezone |-> zone, counts |-> counts, issuer |-> issuer, enabled |-> on]
MCSeedings == {MCSeeds(<<>>, <<>>, <<>>, <<>>), MCSeeds(<<"paris">>, <<2>>, <<"idp">>, <<TRUE>>),
               MCSeeds(<<"nowhere">>, <<0>>, <<>>, <<TRUE>>)}

\* A start, nodes of one output and of two, an error entry, and one that is disabled.
MCPlugin(start, error, enabled, outs) == [start |-> start, error |-> error, enabled |-> enabled, outs |-> outs]
MCStart  == MCPlugin(TRUE, FALSE, TRUE, 1)
MCPlain  == MCPlugin(FALSE, FALSE, TRUE, 1)
MCBranch == MCPlugin(FALSE, FALSE, TRUE, 2)
MCPlugins == {MCStart, MCBranch, MCPlugin(FALSE, TRUE, TRUE, 1), MCPlugin(FALSE, FALSE, FALSE, 1)}
MCMatches == [q \in Searches |-> {1, 3}]

MCFlow(kinds, edges) ==
  [nodes |-> [i \in DOMAIN kinds |-> [plugin |-> kinds[i], inputs |-> 0]],
   edges |-> {[from |-> e[1], out |-> e[2], to |-> e[3]] : e \in edges}]
MCFlows == {MCFlow(<<MCStart, MCBranch>>, {<<1, 1, 2>>}), MCFlow(<<MCStart>>, {})}
MCSmallFlows ==
  {MCFlow(kinds, {<<1, 1, 2>>} \cup {e \in {<<2, 1, a>>, <<3, 1, b>>, <<3, 2, c>>, <<4, 1, d>>} :
                                      e[3] # 0 /\ e[2] <= kinds[e[1]].outs}) :
     kinds \in {<<MCStart, MCPlain, MCPlain, MCPlain>>, <<MCStart, MCPlain, MCBranch, MCPlain>>},
     a \in {0, 3}, b \in {0, 2, 3, 4}, c \in {0, 4}, d \in {0, 1, 3}}

\* A part that is not at work has one initial state; a flow may as well begin with the first
\* of its graphs, which are alike.
ControlInit ==
  /\ part \in {"editor", "canvas", "health", "sources", "previews", "config", "enrolment", "bundles",
              "settings", "alerts", "file", "list"}
  /\ Editor!EditorInit /\ (\A g \in Graphs : published <= g)
  /\ Health!HealthInit /\ (part # "health" => \A g \in Graphs : live <= g)
  /\ Draw!CanvasInit /\ (part # "canvas" => Cardinality(shown.edges) = 0)
  /\ Sources!SourcesInit
  /\ Dry!PreviewInit
  /\ Config!ConfigInit /\ (part # "config" => Len(map) = 2 /\ Len(map[2].server) = 2 /\ library.dirs = {})
  /\ Enrol!EnrolInit
  /\ Store!StoreInit /\ (part # "bundles" => \A r \in Roots : tree[r].content = "x")
  /\ Stored!SettingsInit
  /\ Dests!AlertSettingsInit /\ (part # "alerts" => \A n \in DestNames : destination[n].host = "h")
  /\ Panel!PanelInit /\ (part # "file" => \A f \in FileIds : row[f].state = "queued")
  /\ Listed!ListInit /\ (part # "list" => \A p \in Paths : ledger[p] = Listed!Absent)

ControlNext ==
  \/ part = "editor" /\ Editor!EditorNext
     /\ UNCHANGED <<part, drawVars, healthVars, sourceVars, previewVars, nodeVars, restVars>>
  \/ part = "canvas" /\ Draw!CanvasNext
     /\ UNCHANGED <<part, editorVars, healthVars, sourceVars, previewVars, nodeVars, restVars>>
  \/ part = "health" /\ Health!HealthNext
     /\ UNCHANGED <<part, editorVars, drawVars, sourceVars, previewVars, nodeVars, restVars>>
  \/ part = "sources" /\ Sources!SourcesNext
     /\ UNCHANGED <<part, editorVars, drawVars, healthVars, previewVars, nodeVars, restVars>>
  \/ part = "previews" /\ Dry!PreviewNext
     /\ UNCHANGED <<part, editorVars, drawVars, healthVars, sourceVars, nodeVars, restVars>>
  \/ part = "config" /\ Config!ConfigNext /\ UNCHANGED <<part, flowVars, enrolVars, storeVars, restVars>>
  \/ part = "enrolment" /\ Enrol!EnrolNext /\ UNCHANGED <<part, flowVars, configVars, storeVars, restVars>>
  \/ part = "bundles" /\ Store!StoreNext /\ UNCHANGED <<part, flowVars, configVars, enrolVars, restVars>>
  \/ part = "settings" /\ Stored!SettingsNext /\ UNCHANGED <<part, flowVars, nodeVars, destVars, fileVars>>
  \/ part = "alerts" /\ Dests!AlertSettingsNext /\ UNCHANGED <<part, flowVars, nodeVars, settingVars, fileVars>>
  \/ part = "file" /\ Panel!PanelNext
     /\ UNCHANGED <<part, flowVars, nodeVars, settingVars, destVars, listVars>>
  \/ part = "list" /\ Listed!ListNext
     /\ UNCHANGED <<part, flowVars, nodeVars, settingVars, destVars, panelVars>>

\* The tabs are alike.
TabSymmetry == Permutations(Tabs)

ControlSpec == ControlInit /\ [][ControlNext]_controlVars

-----------------------------------------------------------------------------

\* The part at work keeps the types of its variables; the others stay as they were.
ControlTypeOK ==
  CASE part = "editor" -> Editor!EditorTypeOK  [] part = "canvas" -> Draw!CanvasTypeOK
    [] part = "health" -> Health!HealthTypeOK  [] part = "sources" -> Sources!SourcesTypeOK
    [] part = "previews" -> Dry!PreviewTypeOK  [] part = "config" -> Config!ConfigTypeOK
    [] part = "enrolment" -> Enrol!EnrolTypeOK [] part = "bundles" -> Store!StoreTypeOK
    [] part = "settings" -> Stored!SettingsTypeOK
    [] part = "alerts" -> Dests!AlertSettingsTypeOK
    [] part = "file" -> Panel!PanelTypeOK      [] part = "list" -> Listed!ListTypeOK

\* Nobody's publish is overwritten unseen (FlowEditor).
NothingOverwrittenUnseen == part = "editor" => Editor!NothingOverwrittenUnseen

\* A library is held for its flow exactly when the flow cannot run, none of its files stays
\* converged under a flow it was not compared with, and what the operator has paused is
\* resumed at the operator's request (LibraryHealth).
PauseIsTheFlows ==
  /\ [](part = "health" => Health!PauseIsTheFlows /\ Health!NothingConvergesUnseen)
  /\ Health!OperatorPauseIsTheOperators

\* The plugins that are installed are on disk and are those of their source, no tree
\* outlives the next sync, and no sync meets a closed database (PluginSources).
InstalledIsOnDisk ==
  part = "sources" => /\ Sources!InstalledIsOnDisk /\ Sources!RowsAreTheSources
                      /\ Sources!SlotIsBounded /\ Sources!NoSyncAfterClose

\* A preview compares with one definition, none walks on unread, and a cancelled one gets no
\* row (Previews).
OneComparison ==
  /\ [](part = "previews" => Dry!OneComparison /\ Dry!OrphansAreCancelled)
  /\ Dry!CancelledStaysPut

\* Path maps, their probes and the reports that come back stay together (NodeConfig), a
\* machine that was let in stays in under its own name (Enrolment), and a bundle is what its
\* hash says (BundleStore).
NodesAreServedRight ==
  /\ part = "config" => /\ Config!ValidMapsRoundTrip /\ Config!ReportsComeHome
                        /\ Config!QuietProbeIsCurrent /\ Config!NoClaimLoop
  /\ part = "enrolment" => Enrol!NamesAreUnique /\ Enrol!AnsweredSecretsWork
  /\ part = "bundles" => Store!ServedHashIsTheLast /\ Store!BytesAreTheHash

\* The environment fills what is unset and overrides nothing, a save changes what its section
\* shows, what was typed stays, a schedule means what its windows say (Settings), and a secret
\* stays with the host it was typed for, by one rule in two places (AlertSettings).
SettingsAreKept ==
  /\ [](/\ (part = "settings" /\ starts = 0 => Stored!WindowMeansItsSpan)
        /\ (part = "settings" => Stored!SeedsFillOnly)
        /\ (part = "alerts" => Dests!SecretsStayHome /\ Dests!BothChecksAgree))
  /\ Stored!SavesAreNarrow /\ Stored!TypedIsKept

\* A file is deleted while nothing has it, and whole or not at all, the panel shows one file
\* at a time (FilePanel), and the list holds what its filters take (FileList).
FilesAreTold ==
  /\ part = "file" => /\ Panel!DeletedWhileFree /\ Panel!HistoryGoesWithTheFile
                      /\ Panel!NothingStaysParked /\ Panel!PanelIsOfOneFile
  /\ part = "list" => Listed!ListIsWhole /\ Listed!ListEnds /\ Listed!DraftIsTheFilter

\* No edit breaks the graph or joins what a file would not have joined, undo and redo move
\* along the steps that were made, and the layout that is drawn is saved or said not to be
\* (FlowCanvas).
CanvasIsTrue ==
  /\ [](part = "canvas" => Draw!EditsKeepTheShape /\ Draw!DrawnIsHeld /\ Draw!LayoutIsSaved)
  /\ [](part = "canvas" /\ canvasEdits = 0 => Draw!HealsTheOnlyWay)
  /\ Draw!UndoIsExact
=============================================================================
