----------------------------- MODULE NodeConfig -----------------------------
(***************************************************************************)
(* What a remote node is told and what it answers: the path map and the    *)
(* roots of a library (core/src/path-map.ts, server/src/nodes/             *)
(* map-payload.ts), the configuration the hub pushes and the probe of the  *)
(* libraries the node sends back (nodes/hub.ts, node/node-host.ts), and    *)
(* the jobs that are offered, mapped and recorded on the strength of it.   *)
(*                                                                         *)
(* A path is the sequence of its segments.  The journal, the leases and    *)
(* the runs themselves are RemoteJobs.                                     *)
(***************************************************************************)
EXTENDS Naturals, Sequences, FiniteSets

CONSTANTS
  ServerPaths, NodePaths, \* ends of the entries of a path map
  Layouts,     \* roots and configured directories a library may be given
  FilePath,    \* the file that is queued
  NodeTree,    \* directories of the node while its share is mounted
  MapsInUse,   \* bound: the maps the node may have
  MaxChanges,  \* bound: edits by the operator and mounts
  MaxCuts      \* bound: connections that are lost

VARIABLES
  map,         \* node.path_map_json
  library,     \* the library as it is configured
  linked,      \* a welcomed connection
  fresh,       \* conn.probeFresh
  toNode, toHub, \* frames under way
  probed,      \* node.libraries: the last probe that was recorded
  config,      \* what the node was last sent
  probes,      \* probes the node has not finished
  mounted,     \* the share of the node
  sentJob,     \* the job of the file, with the map it was sent under
  recorded,    \* ghost: the last report that was recorded
  refused,     \* ghost: a job failed to map, and no probe has been recorded since
  changes, losses

cvars == <<map, library, linked, fresh, toNode, toHub, probed, config, probes, mounted, sentJob,
           recorded, refused, changes, losses>>

-----------------------------------------------------------------------------
(* path-map.ts.                                                            *)

Unmapped == <<"unmapped">>
Entry(server, node) == [server |-> server, node |-> node]
Flip(m) == [n \in DOMAIN m |-> Entry(m[n].node, m[n].server)]

Within(root, path) == Len(root) <= Len(path) /\ SubSeq(path, 1, Len(root)) = root
Below(root, path) == SubSeq(path, Len(root) + 1, Len(path))

\* The entry mapPath picks: the longest, and the first of those.
Best(m, path) ==
  {n \in DOMAIN m : /\ Within(m[n].server, path)
                    /\ \A k \in DOMAIN m : Within(m[k].server, path) =>
                         \/ Len(m[k].server) < Len(m[n].server)
                         \/ Len(m[k].server) = Len(m[n].server) /\ n <= k}

ToNode(m, path) ==
  IF Best(m, path) = {} THEN Unmapped
  ELSE LET e == m[CHOOSE n \in Best(m, path) : TRUE] IN e.node \o Below(e.server, path)

ToServer(m, path) == ToNode(Flip(m), path)

\* Mutant: nested entries may sit at different places.
ValidAnywhere(m) ==
  \A k, n \in DOMAIN m : k # n =>
    /\ m[k].server # m[n].server /\ m[k].node # m[n].node
    /\ Within(m[k].node, m[n].node) <=> Within(m[k].server, m[n].server)

\* validatePathMap.
Valid(m) ==
  \A k, n \in DOMAIN m : k # n =>
    /\ m[k].server # m[n].server /\ m[k].node # m[n].node
    /\ Within(m[k].node, m[n].node) <=> Within(m[k].server, m[n].server)
    /\ Within(m[k].server, m[n].server) =>
         Below(m[k].server, m[n].server) = Below(m[k].node, m[n].node)

Maps ==
  LET entries == {Entry(s, n) : s \in ServerPaths, n \in NodePaths} IN
    {<< >>} \cup {<<e>> : e \in entries} \cup {<<d, e>> : d, e \in entries}

\* The roots and directories of a library as the node is to see them
\* (libraryRootsForNode, libraryDirsForNode).
Seen(l, m) == [roots |-> {ToNode(m, p) : p \in l.roots}, dirs |-> {ToNode(m, p) : p \in l.dirs}]
Maps2Node(l, m) == Unmapped \notin Seen(l, m).roots \cup Seen(l, m).dirs

-----------------------------------------------------------------------------

NoConfig == [roots |-> {}, dirs |-> {}]
NoJob    == [at |-> "none", map |-> << >>, library |-> [roots |-> {}, dirs |-> {}],
             wrote |-> Unmapped]
NoRecord == [wrote |-> Unmapped, path |-> Unmapped, map |-> << >>]

ConfigInit ==
  /\ map \in MapsInUse /\ library \in Layouts
  /\ linked = FALSE /\ fresh = FALSE /\ toNode = << >> /\ toHub = << >>
  /\ probed = [of |-> NoConfig, reachable |-> FALSE]
  /\ config = NoConfig /\ probes = {} /\ mounted = TRUE
  /\ sentJob = NoJob /\ recorded = NoRecord /\ refused = FALSE /\ changes = 0 /\ losses = 0

ConfigFrame(l, m) == [type |-> "config", config |-> Seen(l, m)]
JobFrame == [type |-> "job"]

\* The hello is done: the welcome carries the configuration.
Welcome ==
  /\ ~ linked /\ linked' = TRUE /\ fresh' = FALSE
  /\ toNode' = <<ConfigFrame(library, map)>> /\ toHub' = << >>
  /\ UNCHANGED <<map, library, probed, config, probes, mounted, sentJob, recorded, refused, changes, losses>>

LinkLost ==
  /\ linked /\ losses < MaxCuts /\ losses' = losses + 1
  /\ linked' = FALSE /\ fresh' = FALSE /\ toNode' = << >> /\ toHub' = << >>
  /\ UNCHANGED <<map, library, probed, config, probes, mounted, sentJob, recorded, refused, changes>>

\* pushConfigTo: an edit is written and pushed in one go.
Push(l, m) ==
  IF linked THEN fresh' = FALSE /\ toNode' = Append(toNode, ConfigFrame(l, m))
  ELSE UNCHANGED <<fresh, toNode>>

PutMap(m) ==
  /\ changes < MaxChanges /\ changes' = changes + 1
  /\ m # map /\ Valid(m) /\ map' = m /\ Push(library, m)
  /\ UNCHANGED <<library, linked, toHub, probed, config, probes, mounted, sentJob, recorded, refused, losses>>

PatchLibrary(l) ==
  /\ changes < MaxChanges /\ changes' = changes + 1
  /\ l # library /\ library' = l /\ Push(l, map)
  /\ UNCHANGED <<map, linked, toHub, probed, config, probes, mounted, sentJob, recorded, refused, losses>>

Mount ==
  /\ changes < MaxChanges /\ changes' = changes + 1
  /\ mounted' = ~ mounted
  /\ UNCHANGED <<map, library, linked, fresh, toNode, toHub, probed, config, probes, sentJob, recorded, refused, losses>>

-----------------------------------------------------------------------------
(* The node.                                                               *)

Present == IF mounted THEN NodeTree ELSE {}

\* probeLibrary: a directory need not be there, but must have a path.
Reachable(c) ==
  c.roots # {} /\ c.roots \subseteq Present /\ Unmapped \notin c.dirs

ApplyConfig ==
  /\ toNode # << >> /\ Head(toNode).type = "config"
  /\ config' = Head(toNode).config /\ toNode' = Tail(toNode)
  /\ probes' = {[p EXCEPT !.current = FALSE] : p \in probes}
                 \cup {[of |-> Head(toNode).config, current |-> TRUE]}
  /\ UNCHANGED <<map, library, linked, fresh, toHub, probed, mounted, sentJob, recorded, refused, changes, losses>>

\* The interval of probeLibraries, which goes on while the node is away.
ProbeAgain ==
  /\ config # NoConfig /\ \A p \in probes : ~ p.current
  /\ toHub = << >>
  /\ probes' = probes \cup {[of |-> config, current |-> TRUE]}
  /\ UNCHANGED <<map, library, linked, fresh, toNode, toHub, probed, config, mounted, sentJob, recorded, refused, changes, losses>>

\* Mutant: the result of any probe is sent.
StillWanted(p) == TRUE

\* A newer configuration's own probe supersedes this one.
Wanted(p) == p.current

ProbeEnds(p) ==
  /\ probes' = probes \ {p}
  /\ toHub' = IF linked /\ Wanted(p)
                THEN Append(toHub, [type |-> "libraries", of |-> p.of, reachable |-> Reachable(p.of)])
                ELSE toHub
  /\ UNCHANGED <<map, library, linked, fresh, toNode, probed, config, mounted, sentJob, recorded, refused, changes, losses>>

StartJob ==
  /\ toNode # << >> /\ Head(toNode).type = "job" /\ toNode' = Tail(toNode)
  /\ sentJob' = [sentJob EXCEPT !.at = "running"]
  /\ UNCHANGED <<map, library, linked, fresh, toHub, probed, config, probes, mounted, recorded, refused, changes, losses>>

\* A flow replaces its file where it was, or somewhere else.
JobEnds ==
  /\ sentJob.at = "running"
  /\ \E path \in {ToNode(sentJob.map, FilePath)} \cup NodeTree :
       sentJob' = [sentJob EXCEPT !.at = "reported", !.wrote = path]
  /\ UNCHANGED <<map, library, linked, fresh, toNode, toHub, probed, config, probes, mounted, recorded, refused, changes, losses>>

-----------------------------------------------------------------------------
(* The hub.                                                                *)

\* recordLibraries.
HearLibraries ==
  /\ toHub # << >>
  /\ probed' = [of |-> Head(toHub).of, reachable |-> Head(toHub).reachable]
  /\ fresh' = TRUE /\ toHub' = Tail(toHub) /\ refused' = FALSE
  /\ UNCHANGED <<map, library, linked, toNode, config, probes, mounted, sentJob, recorded, changes, losses>>

\* onlineNodes.
Offered == linked /\ fresh /\ Valid(map) /\ probed.reachable /\ Maps2Node(library, map)

\* A claim, and the part of prepareFor before it waits for the bundles: both in
\* one turn of the supervisor.
Claim ==
  /\ sentJob = NoJob /\ Offered
  /\ sentJob' = [NoJob EXCEPT !.at = "preparing", !.map = map, !.library = library]
  /\ recorded' = NoRecord
  /\ UNCHANGED <<map, library, linked, fresh, toNode, toHub, probed, config, probes, mounted, refused, changes, losses>>

\* payloadToNode.
Mappable(j) ==
  /\ ToNode(j.map, FilePath) # Unmapped
  /\ ToServer(j.map, ToNode(j.map, FilePath)) = FilePath
  /\ Maps2Node(j.library, j.map)

\* Mutant: the probe is left as it is.
StaysFresh == fresh

\* prepare, on an UnmappedPathError.
GoesStale == FALSE

PrepareFails ==
  /\ sentJob.at = "preparing" /\ ~ Mappable(sentJob)
  /\ fresh' = GoesStale /\ refused' = TRUE /\ sentJob' = NoJob
  /\ UNCHANGED <<map, library, linked, toNode, toHub, probed, config, probes, mounted, recorded, changes, losses>>

\* runFresh: the row has the map before the job leaves.
SendJob ==
  /\ sentJob.at = "preparing" /\ Mappable(sentJob)
  /\ IF linked THEN toNode' = Append(toNode, JobFrame) /\ sentJob' = [sentJob EXCEPT !.at = "sent"]
     ELSE sentJob' = NoJob /\ UNCHANGED toNode
  /\ UNCHANGED <<map, library, linked, fresh, toHub, probed, config, probes, mounted, recorded, refused, changes, losses>>

\* A job the node never read is released when the node returns without it.
JobLost ==
  /\ sentJob.at = "sent" /\ toNode = << >> /\ sentJob' = NoJob
  /\ UNCHANGED <<map, library, linked, fresh, toNode, toHub, probed, config, probes, mounted, recorded, refused, changes, losses>>

\* Mutant: a report is read with the map of the day.
MapOfTheDay(j) == map

\* The map of the row, which a restart reads back.
MapOf(j) == j.map

\* reportToServer: a path that does not come back is a failed attempt.
ReportArrives ==
  /\ sentJob.at = "reported" /\ linked
  /\ LET path == ToServer(MapOf(sentJob), sentJob.wrote) IN
       recorded' = IF path # Unmapped /\ ToNode(MapOf(sentJob), path) = sentJob.wrote
                     THEN [wrote |-> sentJob.wrote, path |-> path, map |-> sentJob.map]
                     ELSE NoRecord
  /\ sentJob' = NoJob
  /\ UNCHANGED <<map, library, linked, fresh, toNode, toHub, probed, config, probes, mounted, refused, changes, losses>>

ConfigNext ==
  \/ Welcome \/ LinkLost \/ Mount \/ ApplyConfig \/ ProbeAgain \/ StartJob \/ JobEnds
  \/ HearLibraries \/ Claim \/ PrepareFails \/ SendJob \/ JobLost \/ ReportArrives
  \/ \E m \in MapsInUse : PutMap(m)
  \/ \E l \in Layouts : PatchLibrary(l)
  \/ \E p \in probes : ProbeEnds(p)

ConfigSpec == ConfigInit /\ [][ConfigNext]_cvars

-----------------------------------------------------------------------------

ConfigTypeOK ==
  /\ map \in MapsInUse /\ library \in Layouts
  /\ sentJob.at \in {"none", "preparing", "sent", "running", "reported"}
  /\ \A p \in probes : p.current => p.of = config
  /\ ~ linked => ~ fresh /\ toNode = << >> /\ toHub = << >>

\* A path that is mapped to a node and back is itself, in either order, under a map
\* that may be saved (path-map.ts validatePathMap).
ValidMapsRoundTrip ==
  \A m \in Maps : Valid(m) =>
    /\ \A p \in ServerPaths \cup {Append(q, "b") : q \in ServerPaths} :
         ToNode(m, p) # Unmapped => ToServer(m, ToNode(m, p)) = p
    /\ \A p \in NodePaths \cup {Append(q, "b") : q \in NodePaths} :
         ToServer(m, p) # Unmapped => ToNode(m, ToServer(m, p)) = p

\* A report is recorded against the file the node wrote, whatever the operator has
\* done to the map since the job was sent (map-payload.ts reportToServer).
ReportsComeHome ==
  recorded # NoRecord => ToNode(recorded.map, recorded.path) = recorded.wrote

\* Once nothing is under way, a probe that vouches for a library vouches for the
\* library and the map as they are (hub.ts probeFresh, node-host.ts probeLibraries).
QuietProbeIsCurrent ==
  linked /\ fresh /\ toNode = << >> /\ toHub = << >> /\ probes = {} => probed.of = Seen(library, map)

\* A file that cannot be mapped is not claimed straight back by the same node
\* (hub.ts prepare).
NoClaimLoop == refused => sentJob = NoJob

\* A job is offered only on a probe of what the node would be sent (hub.ts:178-181).
\* Does not hold: a probe that is already on the wire when the configuration is
\* pushed vouches for it.
ProbeVouches == linked /\ fresh => probed.of = Seen(library, map)
=============================================================================
