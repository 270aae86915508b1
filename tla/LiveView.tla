------------------------------ MODULE LiveView ------------------------------
(***************************************************************************)
(* The Watch screen of one browser tab (web/src/screens/watch) and the     *)
(* live channel it is fed by: the bus and the socket of the daemon         *)
(* (server/src/daemon/events.ts, api/ws.ts), the reducer and the reconnect *)
(* of the client (web/src/api/events.ts, shell/useLive.ts).                *)
(*                                                                         *)
(* The running jobs are fetched over REST; frames are laid over what was   *)
(* fetched, and tell the screen when to fetch again.  A fetch is answered  *)
(* from the record at one moment and arrives at a later one.  The socket   *)
(* may be cut anywhere in what it still holds; a client that reads slowly  *)
(* is first spared the cosmetic frames and then let go.                    *)
(*                                                                         *)
(* Time is in ticks of the debounce.  The first reconnect comes after      *)
(* 500 ms and the debounce after 400, so no reconnect finds it pending.    *)
(***************************************************************************)
EXTENDS Naturals, Sequences, FiniteSets

CONSTANTS
  MaxTasks,    \* bound: jobs, numbered in the order they start
  Pool,        \* jobs that run at once, and cards the operator may configure
  DropAbove,   \* frames in the socket above which cosmetic ones are dropped
  CutAbove,    \* frames above which the client is let go
  Delay,       \* ticks a staleness waits for a quiet moment
  MaxWait,     \* ticks it waits at most
  MaxCuts      \* bound: connections that are lost

VARIABLES
  task,        \* the record of each job: waiting, running or done
  channel,     \* frames the socket holds
  link,        \* the socket as the client has it
  running,     \* live.jobs
  finished,    \* live.finishedJobIds (of which the last 200 are kept)
  stale,       \* live.staleness.jobs
  debounced,   \* the staleness the screen has fetched for
  due,         \* ticks until the debounce fires, while it is pending
  waited,      \* ticks since the first change it is pending for
  fetch,       \* the fetch whose answer is awaited
  fetched,     \* restRunning
  runningFailure, \* the last fetch failed
  cards,       \* configured slots
  seat,        \* assignedSlots: a card for each row
  cuts,        \* connections lost so far
  synced       \* ghost: a fetch of this connection has arrived

record == <<task>>
socket == <<channel, link>>
live   == <<running, finished, stale>>
timer  == <<debounced, due, waited>>
rest   == <<fetch, fetched, runningFailure, synced>>
lvars  == <<record, socket, live, timer, rest, cards, seat, cuts>>

Tasks == 1..MaxTasks

Frame(type, j) == [type |-> type, job |-> j]
Cosmetic == {"progress"}

NoFetch == [at |-> "none", rows |-> {}, fresh |-> FALSE]
Asked   == [at |-> "asked", rows |-> {}, fresh |-> FALSE]

Running == {j \in Tasks : task[j] = "running"}
Done    == {j \in Tasks : task[j] = "done"}
Carried(type) == {channel[n].job : n \in {k \in DOMAIN channel : channel[k].type = type}}

-----------------------------------------------------------------------------
(* The screen.                                                             *)

FetchedRows == fetched \ finished
Shown == FetchedRows \cup running

\* mergeRunningRows: fetched rows first, the latest foremost, and those only the
\* socket knows after.
Before(i, j) ==
  IF i \in FetchedRows THEN j \in FetchedRows => i > j
                       ELSE j \notin FetchedRows /\ i < j

Greater(a, b) == IF a > b THEN a ELSE b
SlotCount == Greater(1, Greater(cards, Cardinality(Shown)))

\* The one of the slots that k others are below.
Below(slots, s) == {t \in slots : t < s}
Nth(slots, k) == CHOOSE s \in slots : Cardinality(Below(slots, s)) = k

\* The rows that keep no slot take the free ones in turn, the lowest first.
Deal(kept) ==
  LET free == (1..SlotCount') \ {kept[i] : i \in DOMAIN kept}
      new  == Shown' \ DOMAIN kept IN
    [j \in Shown' |-> IF j \in new THEN Nth(free, Cardinality({i \in new : Before(i, j)'})) ELSE kept[j]]

\* Mutant: A row keeps its slot, whatever is left of the pool.
SeatingKept == Deal([j \in DOMAIN seat \cap Shown' |-> seat[j]])

\* toWorkerSlots: a row keeps its slot while it runs and the slot is rendered.
Seating == Deal([j \in {i \in DOMAIN seat \cap Shown' : seat[i] <= SlotCount'} |-> seat[j]])

Render == seat' = Seating

Pending == stale # debounced
Lesser(a, b) == IF a < b THEN a ELSE b

\* Mutant: Every change restarts the delay.
RestartDelay(since) == Delay

\* nextDebounceDelayMs, when a change finds the debounce `since` ticks old.
NextDelay(since) == Lesser(Delay, MaxWait - since)

\* useDebouncedValue sees a new value.
Observe(value) ==
  IF value = debounced THEN due' = 0 /\ waited' = 0 /\ UNCHANGED debounced
  ELSE due' = NextDelay(waited) /\ UNCHANGED <<debounced, waited>>

Refetch == fetch' = Asked /\ UNCHANGED <<fetched, runningFailure, synced>>

-----------------------------------------------------------------------------
(* The daemon.                                                             *)

LiveInit ==
  /\ task = [j \in Tasks |-> "waiting"]
  /\ channel = << >> /\ link = "down"
  /\ running = {} /\ finished = {} /\ stale = 0
  /\ debounced = 0 /\ due = 0 /\ waited = 0
  /\ fetch = Asked /\ fetched = {} /\ runningFailure = FALSE /\ synced = FALSE
  /\ cards \in 1..Pool /\ seat = [j \in {} |-> 0] /\ cuts = 0

\* Mutant: A slow client is spared every frame.
EmitUnlessSlow(f) ==
  IF link # "up" \/ Len(channel) > DropAbove THEN UNCHANGED <<socket, synced, cuts>>
  ELSE channel' = Append(channel, f) /\ UNCHANGED <<link, synced, cuts>>

\* The listener of one socket: emit never waits and never throws.
Emit(f) ==
  \/ /\ link # "up" \/ (Len(channel) > DropAbove /\ Len(channel) <= CutAbove /\ f.type \in Cosmetic)
     /\ UNCHANGED <<socket, synced, cuts>>
  \/ /\ link = "up" /\ Len(channel) > CutAbove
     /\ \E k \in 0..Len(channel) : channel' = SubSeq(channel, 1, k)
     /\ link' = "cut" /\ synced' = FALSE /\ cuts' = cuts + 1
  \/ /\ link = "up" /\ Len(channel) <= CutAbove
     /\ Len(channel) <= DropAbove \/ f.type \notin Cosmetic
     /\ channel' = Append(channel, f) /\ UNCHANGED <<link, synced, cuts>>

\* A write to the record, then its notification.
JobStarts(j) ==
  /\ task[j] = "waiting" /\ \A i \in Tasks : i < j => task[i] # "waiting"
  /\ Cardinality(Running) < Pool
  /\ task' = [task EXCEPT ![j] = "running"] /\ Emit(Frame("started", j))
  /\ UNCHANGED <<live, timer, fetch, fetched, runningFailure, cards, seat>>

JobProgresses(j) ==
  /\ task[j] = "running" /\ j \notin Carried("progress") /\ link = "up"
  /\ Emit(Frame("progress", j))
  /\ UNCHANGED <<record, live, timer, fetch, fetched, runningFailure, cards, seat>>

JobEnds(j) ==
  /\ task[j] = "running"
  /\ task' = [task EXCEPT ![j] = "done"] /\ Emit(Frame("finished", j))
  /\ UNCHANGED <<live, timer, fetch, fetched, runningFailure, cards, seat>>

\* The network, or a stop of the daemon, takes the socket.
LinkCut ==
  /\ link = "up" /\ cuts < MaxCuts
  /\ \E k \in 0..Len(channel) : channel' = SubSeq(channel, 1, k)
  /\ link' = "cut" /\ synced' = FALSE /\ cuts' = cuts + 1
  /\ UNCHANGED <<record, live, timer, fetch, fetched, runningFailure, cards, seat>>

-----------------------------------------------------------------------------
(* The client.                                                             *)

\* useLive: createSocket, onopen.  Nothing is replayed.
Connect ==
  /\ link = "down" /\ ~ Pending
  /\ link' = "up" /\ channel' = << >>
  /\ UNCHANGED <<record, live, timer, rest, cards, seat, cuts>>

\* reduceLive.
ReadStarted(f) ==
  /\ f.type = "started" /\ running' = running \cup {f.job}
  /\ UNCHANGED <<finished, stale, timer>>

ReadProgress(f) ==
  f.type = "progress" /\ UNCHANGED <<live, timer>>

\* Mutant: A finish takes the row the socket made, and no other.
ReadFinishedForgets(f) ==
  /\ f.type = "finished" /\ running' = running \ {f.job}
  /\ stale' = stale + 1 /\ Observe(stale + 1) /\ UNCHANGED finished

ReadFinished(f) ==
  /\ f.type = "finished" /\ running' = running \ {f.job}
  /\ finished' = finished \cup {f.job}
  /\ stale' = stale + 1 /\ Observe(stale + 1)

Read ==
  /\ channel # << >> /\ link # "down"
  /\ ReadStarted(Head(channel)) \/ ReadProgress(Head(channel)) \/ ReadFinished(Head(channel))
  /\ channel' = Tail(channel)
  /\ UNCHANGED <<record, link, rest, cards, cuts>>
  /\ Render

\* onclose: a reset, not a resume.
Close ==
  /\ link = "cut" /\ channel = << >>
  /\ link' = "down" /\ running' = {} /\ finished' = {} /\ stale' = 0 /\ Observe(0)
  /\ fetch' = [fetch EXCEPT !.fresh = FALSE]
  /\ UNCHANGED <<record, channel, fetched, runningFailure, synced, cards, cuts>>
  /\ Render

\* The debounce fires: the screen fetches for what it has been told.
Fire ==
  /\ Pending /\ due = 0
  /\ debounced' = stale /\ waited' = 0 /\ UNCHANGED due
  /\ Refetch
  /\ UNCHANGED <<record, socket, live, cards, seat, cuts>>

\* Time passes while the debounce is pending; it fires on time.
Tick ==
  /\ Pending /\ due > 0
  /\ due' = due - 1 /\ waited' = waited + 1
  /\ UNCHANGED <<record, socket, live, debounced, rest, cards, seat, cuts>>

\* GET /jobs?state=running reads the record.
Answer ==
  /\ fetch.at = "asked"
  /\ fetch' = [at |-> "answered", rows |-> Running, fresh |-> link = "up"]
  /\ UNCHANGED <<record, socket, live, timer, fetched, runningFailure, synced, cards, seat, cuts>>

Arrive ==
  /\ fetch.at = "answered"
  /\ fetch' = NoFetch /\ fetched' = fetch.rows /\ runningFailure' = FALSE
  /\ synced' = (synced \/ (fetch.fresh /\ link = "up"))
  /\ UNCHANGED <<record, socket, live, timer, cards, cuts>>
  /\ Render

FetchFails ==
  /\ fetch.at # "none" /\ fetch' = NoFetch /\ runningFailure' = TRUE
  /\ UNCHANGED <<record, socket, live, timer, fetched, synced, cards, seat, cuts>>

\* The operator retries a section that failed.
Retry ==
  /\ runningFailure /\ fetch.at = "none" /\ Refetch
  /\ UNCHANGED <<record, socket, live, timer, cards, seat, cuts>>

\* GET /workers brings another size of the pool.
Resize ==
  /\ \E n \in 1..Pool : n # cards /\ cards' = n
  /\ UNCHANGED <<record, socket, live, timer, rest, cuts>>
  /\ Render

LiveNext ==
  \/ \E j \in Tasks : JobStarts(j) \/ JobProgresses(j) \/ JobEnds(j)
  \/ LinkCut \/ Connect \/ Read \/ Close \/ Fire \/ Tick
  \/ Answer \/ Arrive \/ FetchFails \/ Retry \/ Resize

LiveSpec == LiveInit /\ [][LiveNext]_lvars

-----------------------------------------------------------------------------

LiveTypeOK ==
  /\ task \in [Tasks -> {"waiting", "running", "done"}]
  /\ link \in {"up", "cut", "down"} /\ Len(channel) <= CutAbove + 1
  /\ running \subseteq Tasks /\ finished \subseteq Tasks
  /\ stale \in Nat /\ debounced \in Nat /\ due \in 0..Delay
  /\ fetch.at \in {"none", "asked", "answered"} /\ fetched \subseteq Tasks

\* However slowly a tab reads, and whatever of its fetches are late, once one of
\* its connection has arrived the rows are the running jobs, up to the frames
\* that are still on their way (watch-model.ts mergeRunningRows, ws.ts accept).
SyncedIsRight ==
  synced =>
    /\ Shown \cap Done \subseteq Carried("finished")
    /\ Running \subseteq Shown \cup Carried("started")

\* A sweep of short jobs does not put a fetch off: a screen that was told it is
\* out of date fetches within the ceiling (watch-model.ts nextDebounceDelayMs).
NeverPutOff == waited <= MaxWait

\* Every row has a card of its own that is rendered, while the pool shrinks and
\* grows under it (watch-model.ts toWorkerSlots).
EveryRowHasACard ==
  /\ DOMAIN seat = Shown
  /\ \A i, j \in Shown : seat[i] \in 1..SlotCount /\ (seat[i] = seat[j] => i = j)

\* A client that has reconnected fetches again (events.ts:117-121, useLive.ts:49-53).
\* Does not hold: the counters are back at zero before the socket is back, so
\* what happened in between is not asked for.
ReconnectRefetches ==
  link = "up" /\ cuts > 0 => synced \/ runningFailure \/ Pending \/ fetch.at # "none"
=============================================================================
