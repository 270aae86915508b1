------------------------------ MODULE MCDaemon ------------------------------
(***************************************************************************)
(* What the daemon keeps for itself, one part at a time: the rows of its   *)
(* library, its data directory, what it has told the operator, and what    *)
(* the operator's screen shows of it.                                      *)
(***************************************************************************)
EXTENDS Scanner, Sequences

CONSTANTS
  Daemons, Commands, MaxAttempts,
  Causes, Window, Repeat, StartupDelay, OfflineGrace, RefusalWindow, CausesPerWindow,
  RefusalsToAlert, MaxTime, MaxFailures, MaxEvents,
  MaxTasks, Pool, DropAbove, CutAbove, Delay, MaxWait, MaxCuts

VARIABLES
  part,
  locks, containers, kernel, record, marker, daemon, command, row, workers,
  side, now, standing, refusals, removed, group, msg, told, files, events,
  task, channel, link, running, finished, stale, debounced, due, waited, fetch, fetched,
  runningFailure, cards, seat, cuts, synced

Dir  == INSTANCE DataDirectory
News == INSTANCE Alerts
Live == INSTANCE LiveView

dirVars    == <<locks, containers, kernel, record, marker, daemon, command, row, workers>>
newsVars   == <<side, now, standing, refusals, removed, group, msg, told, files, events>>
screenVars == <<task, channel, link, running, finished, stale, debounced, due, waited, fetch,
                fetched, runningFailure, cards, seat, cuts, synced>>
daemonVars == <<part, vars, dirVars, newsVars, screenVars>>

\* No process has the name of nobody, and two stale files cost two attempts (MAX_ATTEMPTS is
\* 5); a window is no longer than the time after which an outage is said again (WINDOW_MS,
\* REPEAT_MS).
ASSUME DaemonAssumption ==
  /\ 0 \notin Daemons
  /\ MaxAttempts \in Nat /\ MaxAttempts > 2
  /\ {Window, Repeat, CausesPerWindow} \subseteq Nat \ {0} /\ Window <= Repeat
  /\ {StartupDelay, OfflineGrace, RefusalsToAlert} \subseteq Nat
  /\ {MaxUser, MaxRuns, MaxTime, MaxFailures, MaxEvents} \subseteq Nat
  /\ {MaxTasks, Pool, CutAbove, Delay, MaxWait} \subseteq Nat /\ 0 \notin Rows

\* Two containers of one title, and another title.
MCPaths == {"a.mkv", "a.mp4", "b.mkv"}
MCStem  == [p \in MCPaths |-> IF p = "b.mkv" THEN "b" ELSE "a"]

\* A part that is not at work has one initial state.
DaemonInit ==
  /\ part \in {"library", "directory", "news", "screen"}
  /\ Init /\ (part # "library" => disk["b.mkv"] # NoFile)
  /\ Dir!DirInit /\ (part # "directory" => locks /\ ~ containers)
  /\ News!AlertsInit /\ (part # "news" => side = "files")
  /\ Live!LiveInit /\ (part # "screen" => cards = 1)

DaemonNext ==
  \/ part = "library" /\ Next /\ UNCHANGED <<part, dirVars, newsVars, screenVars>>
  \/ part = "directory" /\ Dir!DirNext /\ UNCHANGED <<part, vars, newsVars, screenVars>>
  \/ part = "news" /\ News!AlertsNext /\ UNCHANGED <<part, vars, dirVars, screenVars>>
  \/ part = "screen" /\ Live!LiveNext /\ UNCHANGED <<part, vars, dirVars, newsVars>>

DaemonSpec == DaemonInit /\ [][DaemonNext]_daemonVars

-----------------------------------------------------------------------------

\* Every part keeps the types of its variables.
DaemonTypeOK == TypeOK /\ Dir!DirTypeOK /\ News!AlertsTypeOK /\ Live!LiveTypeOK

\* A file has one row, a scan leaves the library as it is, and a run its row (Scanner).
RowsFollowTheDisk == NoGhostRow /\ QuietScanIsExact /\ RunKeepsItsRow

\* One daemon owns a data directory, the one that does is advertised there, and only the
\* living keep another out (DataDirectory).
OneDaemon == [](Dir!OneDaemon /\ Dir!OwnerIsAdvertised) /\ Dir!RefusedByTheLivingOnly

\* A flood of failures is summed up and none of it lost, a long outage is not silent after
\* its first message, a recovery follows what it recovers from, and a removed node is quiet
\* (Alerts).
OutagesAreTold ==
  /\ [](News!NoFailureIsUncounted /\ News!StandingOutageIsRepeated)
  /\ News!RecoveryFollowsAlert /\ News!RemovedNodeIsQuiet

\* The screen shows what runs, however late its frames and its answers are, asks again in
\* time, and gives each row a card (LiveView).
ScreenIsRight == Live!SyncedIsRight /\ Live!NeverPutOff /\ Live!EveryRowHasACard
=============================================================================
