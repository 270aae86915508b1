---------------------------- MODULE PluginSources ----------------------------
(***************************************************************************)
(* A plugin source of the daemon: its row, the plugins installed from it,  *)
(* the trees its archives were unpacked into, and the sync that replaces   *)
(* them (sync-coordinator.ts, sync-source.ts, fetch-source.ts,             *)
(* plugin-repo.ts, routes/plugins.ts).  A job names the files of its       *)
(* plugins when it is built and loads them when their node is reached.     *)
(***************************************************************************)
EXTENDS Integers

CONSTANTS
  MaxSyncs,    \* bound: syncs asked for
  MaxSources   \* bound: times a source of this name is added

VARIABLES
  source,      \* its row: which registration it is (0: none) and its kind
  rows,        \* the tree its installed plugins point into, and the registration it was read for
  disk,        \* the trees in its slot, and the operator's own directory
  sync,        \* the sync in flight
  status,      \* what GET /plugins/sources/:id says of the last one
  asked,       \* syncs asked for so far
  added,       \* registrations so far
  job,         \* the tree a running job was given, 0 for none
  failed,      \* a job met a plugin file that was gone
  host         \* "up", "stopping", "closed"

sourceVars == <<source, rows, disk, sync, status, asked, added, job, failed, host>>

Own     == -1    \* the directory of a local source: nobody's but the operator's
NoRow   == [reg |-> 0, kind |-> "local"]
NoRows  == [tree |-> 0, reg |-> 0]
Idle    == [stage |-> "idle", tree |-> 0, reg |-> 0, kind |-> "local", run |-> 0]
Blank   == [run |-> 0, running |-> FALSE, ended |-> "never"]
Syncing == sync.stage # "idle"

SourcesTypeOK ==
  /\ source \in [reg : 0..MaxSources, kind : {"local", "tarball"}]
  /\ rows \in [tree : 0..MaxSyncs \cup {Own}, reg : 0..MaxSources]
  /\ disk \subseteq 1..MaxSyncs \cup {Own}
  /\ sync.stage \in {"idle", "fetching", "validating", "ending"}
  /\ status \in [run : 0..MaxSyncs, running : BOOLEAN, ended : {"never", "report", "error"}]
  /\ host \in {"up", "stopping", "closed"}

SourcesInit ==
  /\ source = NoRow /\ rows = NoRows /\ disk = {Own} /\ sync = Idle /\ status = Blank
  /\ asked = 0 /\ added = 0 /\ job = 0 /\ failed = FALSE /\ host = "up"

-----------------------------------------------------------------------------
(* The routes.                                                             *)

AddSource(kind) ==
  /\ host = "up" /\ source = NoRow /\ added < MaxSources
  /\ added' = added + 1 /\ source' = [reg |-> added + 1, kind |-> kind]
  /\ UNCHANGED <<rows, disk, sync, status, asked, job, failed, host>>

RemoveAtAnyTime ==
  /\ host = "up" /\ source # NoRow
  /\ source' = NoRow /\ rows' = NoRows
  /\ UNCHANGED <<disk, sync, status, asked, added, job, failed, host>>

\* Refused while it syncs; the installed plugins go with the row, the trees stay.
RemoveSource ==
  /\ host = "up" /\ source # NoRow /\ ~Syncing
  /\ source' = NoRow /\ rows' = NoRows
  /\ UNCHANGED <<disk, sync, status, asked, added, job, failed, host>>

\* A second request for a sync in flight starts nothing.  Up to its first wait
\* the sync runs with the request: a tarball has its directory by then.
RequestSync ==
  /\ host = "up" /\ source # NoRow /\ ~Syncing /\ asked < MaxSyncs
  /\ asked' = asked + 1
  /\ sync' = [stage |-> "fetching", tree |-> IF source.kind = "local" THEN Own ELSE asked + 1,
              reg |-> source.reg, kind |-> source.kind, run |-> asked + 1]
  /\ disk' = disk \cup {sync'.tree}
  /\ status' = [run |-> asked + 1, running |-> TRUE, ended |-> "never"]
  /\ UNCHANGED <<source, rows, added, job, failed, host>>

-----------------------------------------------------------------------------
(* The sync.                                                               *)

CleanupTidied(tree, kind) == disk \ {tree}

\* What a sync that wrote nothing leaves: a local source's tree is not its own.
Cleanup(tree, kind) == IF kind = "tarball" THEN disk \ {tree} ELSE disk

PruneNothing(tree, kind) == disk

\* What one that wrote its rows leaves of the slot.
Prune(tree, kind) == IF kind = "tarball" THEN disk \cap {tree, Own} ELSE disk

Settle(how) ==
  /\ sync' = Idle
  /\ status' = [run |-> sync.run, running |-> FALSE, ended |-> how]

\* The archive is unpacked, or refused anywhere on the way, which leaves nothing of it.
Fetched ==
  /\ sync.stage = "fetching"
  /\ \/ /\ sync' = [sync EXCEPT !.stage = "validating"] /\ UNCHANGED <<disk, status>>
     \/ Settle("error") /\ disk' = Cleanup(sync.tree, sync.kind)
  /\ UNCHANGED <<source, rows, asked, added, job, failed, host>>

\* Every candidate is loaded, with a turn of the event loop before each; then
\* the rows are replaced in one transaction and the slot is pruned.  The rows
\* of a source that is gone are refused.
Write ==
  /\ sync.stage = "validating"
  /\ IF source = NoRow
     THEN /\ disk' = Cleanup(sync.tree, sync.kind) /\ Settle("error") /\ UNCHANGED rows
     ELSE /\ rows' = [tree |-> sync.tree, reg |-> sync.reg]
          /\ \/ disk' = Prune(sync.tree, sync.kind) /\ Settle("report")
             \/ sync.kind = "tarball" /\ Settle("error") /\ UNCHANGED disk
  /\ UNCHANGED <<source, asked, added, job, failed, host>>

\* A plugin name that cannot form an id fails the whole transaction.
WriteRefused ==
  /\ sync.stage = "validating"
  /\ disk' = Cleanup(sync.tree, sync.kind) /\ Settle("error")
  /\ UNCHANGED <<source, rows, asked, added, job, failed, host>>

\* The daemon dies, before or after the rows are committed, and starts again.
Crash ==
  /\ host # "closed"
  /\ \/ UNCHANGED rows
     \/ /\ sync.stage = "validating" /\ source # NoRow
        /\ rows' = [tree |-> sync.tree, reg |-> sync.reg]
  /\ sync' = Idle /\ status' = Blank /\ job' = 0 /\ host' = "up"
  /\ UNCHANGED <<source, disk, asked, added, failed>>

-----------------------------------------------------------------------------
(* Jobs and shutdown.                                                      *)

BuildJob ==
  /\ host = "up" /\ job = 0 /\ rows # NoRows /\ job' = rows.tree
  /\ UNCHANGED <<source, rows, disk, sync, status, asked, added, failed, host>>

\* A node of the job's flow is reached: its plugin is read from the tree.
LoadPlugin ==
  /\ job # 0 /\ job \notin disk /\ failed' = TRUE /\ job' = 0
  /\ UNCHANGED <<source, rows, disk, sync, status, asked, added, host>>

JobEnds ==
  /\ job # 0 /\ job' = 0
  /\ UNCHANGED <<source, rows, disk, sync, status, asked, added, failed, host>>

StopRequests ==
  /\ host = "up" /\ host' = "stopping"
  /\ UNCHANGED <<source, rows, disk, sync, status, asked, added, job, failed>>

CloseAtOnce ==
  /\ host = "stopping" /\ job = 0 /\ host' = "closed"
  /\ UNCHANGED <<source, rows, disk, sync, status, asked, added, job, failed>>

\* The database closes once the jobs have drained and no sync is in flight.
CloseDb ==
  /\ host = "stopping" /\ job = 0 /\ ~Syncing /\ host' = "closed"
  /\ UNCHANGED <<source, rows, disk, sync, status, asked, added, job, failed>>

SourcesNext ==
  \/ \E kind \in {"local", "tarball"} : AddSource(kind)
  \/ RemoveSource \/ RequestSync \/ Fetched \/ Write \/ WriteRefused \/ Crash
  \/ BuildJob \/ LoadPlugin \/ JobEnds \/ StopRequests \/ CloseDb

SourcesSpec == SourcesInit /\ [][SourcesNext]_sourceVars

-----------------------------------------------------------------------------

\* The files an installed plugin points to exist, whatever sync failed, was
\* pruned or died since, and the operator's own directory is never removed.
InstalledIsOnDisk == (rows # NoRows => rows.tree \in disk) /\ Own \in disk

\* The plugins installed under a source's name were read from that source: a
\* sync never fills in for one that was removed and added again meanwhile.
RowsAreTheSources == rows # NoRows => rows.reg = source.reg

\* A sync of an archive that reports success leaves one tree in the slot: the
\* trees of failed, interrupted and removed ones do not pile up.
SlotIsBounded ==
  status.ended = "report" /\ rows # NoRows /\ rows.tree # Own => disk \subseteq {rows.tree, Own}

\* Nothing uses the database once it is closed.
NoSyncAfterClose == host = "closed" => ~Syncing

\* "A plugin that installs is a plugin that runs" (sync-source.ts:176).
InstalledRuns == ~failed
=============================================================================
