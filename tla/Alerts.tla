-------------------------------- MODULE Alerts --------------------------------
(***************************************************************************)
(* From a daemon event to a message: server/src/alerts/daemon-alerts.ts    *)
(* (which outages stand), server/src/alerts/alert-service.ts (raise, clear *)
(* and tick) and core/src/alerts.ts (the coalescer).                       *)
(*                                                                         *)
(* Two sides, of which a behaviour has one: the outages of one node (it is *)
(* offline; its connection is refused), and the failing files of one       *)
(* library.  Time is counted in alert ticks.                               *)
(*                                                                         *)
(* Abstracted: the text of a message, the destinations and their filters   *)
(* (module AlertDelivery takes over from there), the outages of a library  *)
(* and of the hardware check, which begin and recover as a node's does,    *)
(* the caps on the maps of names and removed nodes.                        *)
(***************************************************************************)
EXTENDS Integers, Sequences, FiniteSets

CONSTANTS
  Causes,        \* the causes files fail for
  Window, Repeat, StartupDelay, OfflineGrace, RefusalWindow,  \* in ticks
  CausesPerWindow, RefusalsToAlert,
  MaxTime, MaxFailures, MaxEvents   \* bounds of the model

VARIABLES
  side,          \* "node" or "files"
  now,
  standing,      \* DaemonAlerts' map: per scope, none or when it may be raised
  refusals,      \* when the node was refused lately
  removed,       \* the operator revoked or deleted the node
  group,         \* the coalescer's map, per key
  msg,           \* what this step sent: [key, kind]
  told,          \* per key, the kind of the last message sent and when (history)
  files,         \* failures raised, sent alone, counted in a summary (history)
  events         \* node events so far (bound)

alvars == <<side, now, standing, refusals, removed, group, msg, told, files, events>>

Scopes == {"offline", "refused"}
Keys   == Scopes \cup {"files"}
Outage(key) == key \in Scopes

NoGroup == [phase |-> "none", end |-> 0, notice |-> 0, causes |-> {}, seen |-> {},
            sent |-> 0, overflow |-> {}, pending |-> 0]
NotStanding == [stands |-> FALSE, notBefore |-> 0, raised |-> FALSE]

AlertsTypeOK ==
  /\ side \in {"node", "files"} /\ now \in 0..MaxTime /\ events \in 0..MaxEvents
  /\ standing \in [Scopes -> [stands : BOOLEAN, notBefore : Nat, raised : BOOLEAN]]
  /\ refusals \in Seq(0..MaxTime) /\ Len(refusals) <= RefusalsToAlert
  /\ removed \in BOOLEAN
  /\ group \in [Keys -> [phase : {"none", "window", "repeat"}, end : Nat, notice : Int,
                         causes : SUBSET (Causes \cup {"node"}),
                         seen : SUBSET (Causes \cup {"node"}), sent : 0..CausesPerWindow,
                         overflow : SUBSET Causes, pending : Nat]]
  /\ msg \subseteq [key : Keys, kind : {"alert", "summary", "still-down", "recovered"}]
  /\ told \in [Keys -> [kind : {"none", "down", "up"}, at : Nat]]
  /\ files \in [raised : 0..MaxFailures, alone : Nat, counted : Nat]

AlertsInit ==
  /\ side \in {"node", "files"} /\ now = 0 /\ events = 0
  /\ standing = [s \in Scopes |-> NotStanding] /\ refusals = << >> /\ removed = FALSE
  /\ group = [k \in Keys |-> NoGroup] /\ msg = {}
  /\ told = [k \in Keys |-> [kind |-> "none", at |-> 0]]
  /\ files = [raised |-> 0, alone |-> 0, counted |-> 0]

-----------------------------------------------------------------------------
(* The coalescer, as functions of a group.                                 *)

\* take: what a follow-up says is forgotten by the group.
Taken(g) == [g EXCEPT !.pending = 0, !.sent = 0, !.overflow = {}]

\* Mutant: a cause past the cap is named in the summary and not counted.
OfferedUncounted(g, key, cause, t) ==
  CASE g.phase = "none" ->
         [send |-> TRUE,
          group |-> [NoGroup EXCEPT !.phase = "window", !.end = t + Window,
                       !.notice = t, !.causes = {cause}, !.seen = {cause}, !.sent = 1]]
    [] g.phase # "none" /\ cause \notin g.causes /\ g.sent < CausesPerWindow ->
         [send |-> TRUE, group |-> [g EXCEPT !.causes = @ \cup {cause}, !.sent = @ + 1]]
    [] g.phase # "none" /\ cause \notin g.causes /\ g.sent >= CausesPerWindow ->
         [send |-> FALSE, group |-> [g EXCEPT !.overflow = @ \cup {cause}]]
    [] OTHER -> [send |-> FALSE, group |-> [g EXCEPT !.pending = @ + 1]]

\* Mutant: every new cause is sent.
OfferedUncapped(g, key, cause, t) ==
  IF g.phase = "none"
    THEN [send |-> TRUE,
          group |-> [NoGroup EXCEPT !.phase = "window", !.end = t + Window,
                       !.notice = t, !.causes = {cause}, !.seen = {cause}, !.sent = 1]]
  ELSE IF cause \notin g.causes
    THEN [send |-> TRUE, group |-> [g EXCEPT !.causes = @ \cup {cause}, !.sent = @ + 1]]
    ELSE [send |-> FALSE, group |-> [g EXCEPT !.pending = @ + 1]]

\* The first offer, and every new cause up to a cap, is sent; the others are
\* counted, but for the same outage said again while its window is open.
Offered(g, key, cause, t) ==
  LET counted == [g EXCEPT !.pending = @ + 1,
                           !.seen = IF cause \in g.causes THEN @ \cup {cause} ELSE @,
                           !.overflow = IF cause \in g.causes THEN @ ELSE @ \cup {cause}] IN
  CASE g.phase = "none" ->
         [send |-> TRUE,
          group |-> [NoGroup EXCEPT !.phase = "window", !.end = t + Window,
                       !.notice = t, !.causes = {cause}, !.seen = {cause}, !.sent = 1]]
    [] g.phase # "none" /\ cause \notin g.causes /\ g.sent < CausesPerWindow ->
         [send |-> TRUE,
          group |-> [g EXCEPT !.causes = @ \cup {cause}, !.seen = @ \cup {cause},
                              !.sent = @ + 1]]
    [] g.phase = "window" /\ cause \in g.causes /\ Outage(key) ->
         [send |-> FALSE, group |-> g]
    [] OTHER -> [send |-> FALSE, group |-> counted]

\* Mutant: the hour of a standing outage runs from the end of its first window.
DueFromWindow(g, key, t) ==
  CASE g.phase = "window" /\ t >= g.end /\ Outage(key) ->
         [kind |-> "none", group |-> [Taken(g) EXCEPT !.phase = "repeat", !.notice = t]]
    [] g.phase = "repeat" /\ t >= g.notice + Repeat /\ g.pending > 0 ->
         [kind |-> "still-down", group |-> [Taken(g) EXCEPT !.notice = t]]
    [] OTHER -> [kind |-> "none", group |-> g]

\* due: a window that closes is summed up; a flood goes on into the next one;
\* an outage is said again every Repeat while it is being reported.
Due(g, key, t) ==
  LET some == g.pending > 0 \/ g.overflow # {} IN
  CASE g.phase = "window" /\ t >= g.end /\ Outage(key) ->
         [kind |-> IF some THEN "summary" ELSE "none",
          group |-> [Taken(g) EXCEPT !.phase = "repeat",
                       !.notice = IF g.pending > 0 THEN t ELSE g.end - Window]]
    [] g.phase = "window" /\ t >= g.end /\ ~ Outage(key) /\ some ->
         [kind |-> "summary",
          group |-> [Taken(g) EXCEPT !.end = t + Window, !.causes = g.seen, !.seen = {}]]
    [] g.phase = "window" /\ t >= g.end /\ ~ Outage(key) /\ ~ some ->
         [kind |-> "none", group |-> NoGroup]
    [] g.phase = "repeat" /\ t >= g.notice + Repeat /\ g.pending = 0 ->
         [kind |-> "none", group |-> NoGroup]
    [] g.phase = "repeat" /\ t >= g.notice + Repeat /\ g.pending > 0 ->
         [kind |-> "still-down", group |-> [Taken(g) EXCEPT !.notice = t]]
    [] OTHER -> [kind |-> "none", group |-> g]

-----------------------------------------------------------------------------
(* DaemonAlerts.                                                           *)

Told(key, kind) == told' = [told EXCEPT ![key] = [kind |-> kind, at |-> now]]
Silent == msg' = {} /\ UNCHANGED told

\* begin: an outage already standing keeps its schedule; one that is already
\* out is left to reraise.
Begin(scope, delay) ==
  LET previous == standing[scope]
      waits    == IF previous.stands THEN previous.notBefore
                  ELSE IF StartupDelay > now + delay THEN StartupDelay ELSE now + delay
      raise    == ~ previous.raised /\ now >= waits
      offer    == Offered(group[scope], scope, "node", now) IN
    /\ standing' = [standing EXCEPT ![scope] =
                      [stands |-> TRUE, notBefore |-> waits,
                       raised |-> previous.raised \/ raise]]
    /\ group' = IF raise THEN [group EXCEPT ![scope] = offer.group] ELSE group
    /\ IF raise /\ offer.send
         THEN msg' = {[key |-> scope, kind |-> "alert"]} /\ Told(scope, "down")
         ELSE Silent

\* Mutant: whoever is back is said to be back.
RecoveryNews(scope) == standing[scope].stands

\* recover: only an outage that was raised has a recovery to announce.
Recovers(scope) == standing[scope].stands /\ standing[scope].raised

\* raise of a recovery also forgets the group, so that the next outage is news.
Recover(scopes) ==
  LET news == {s \in scopes : Recovers(s)} IN
    /\ standing' = [s \in Scopes |-> IF s \in scopes THEN NotStanding ELSE standing[s]]
    /\ group' = [k \in Keys |-> IF k \in news THEN NoGroup ELSE group[k]]
    /\ msg' = {[key |-> s, kind |-> "recovered"] : s \in news}
    /\ told' = [k \in Keys |-> IF k \in news THEN [kind |-> "up", at |-> now] ELSE told[k]]

Event == side = "node" /\ events < MaxEvents /\ events' = events + 1

\* nodes.changed, offline.  Revoking a node disconnects it, too.
NodeOffline ==
  /\ Event
  /\ IF removed THEN Silent /\ UNCHANGED <<standing, group>>
                ELSE Begin("offline", OfflineGrace)
  /\ UNCHANGED <<side, now, refusals, removed, files>>

\* nodes.changed, online: it authenticated, so it is not refused either.
NodeOnline ==
  /\ Event /\ ~ removed
  /\ Recover(Scopes) /\ refusals' = << >>
  /\ UNCHANGED <<side, now, removed, files>>

\* The times are in order: the ones that have passed come first.
Recent(times, t) ==
  SubSeq(times, Cardinality({n \in DOMAIN times : t - times[n] > RefusalWindow}) + 1, Len(times))
LastOf(times, n) == IF Len(times) > n THEN SubSeq(times, Len(times) - n + 1, Len(times)) ELSE times

\* node.refused: a node that proved who it is counts at once, another only
\* after a few refusals close together.
NodeRefused ==
  /\ Event
  /\ \E authenticated \in BOOLEAN :
       LET recent == LastOf(Append(Recent(refusals, now), now), RefusalsToAlert) IN
         IF removed THEN Silent /\ UNCHANGED <<standing, group, refusals>>
         ELSE /\ refusals' = IF authenticated THEN refusals ELSE recent
              /\ IF authenticated \/ Len(recent) = RefusalsToAlert
                   THEN Begin("refused", 0)
                   ELSE Silent /\ UNCHANGED <<standing, group>>
  /\ UNCHANGED <<side, now, removed, files>>

\* Mutant: later events are ignored, but what stands already is not forgotten.
RemoveNodeLater ==
  /\ Event /\ ~ removed /\ removed' = TRUE /\ Silent
  /\ UNCHANGED <<side, now, standing, refusals, group, files>>

\* node.removed: the operator's own act, so nothing is announced any more.
RemoveNode ==
  /\ Event /\ ~ removed /\ removed' = TRUE /\ Silent
  /\ standing' = [s \in Scopes |-> NotStanding] /\ refusals' = << >>
  /\ group' = [k \in Keys |-> IF k \in Scopes THEN NoGroup ELSE group[k]]
  /\ UNCHANGED <<side, now, files>>

\* job.finished, failed: raised at once, under the name of its library.
FileFails ==
  /\ side = "files" /\ files.raised < MaxFailures
  /\ \E cause \in Causes :
       LET offer == Offered(group["files"], "files", cause, now) IN
         /\ group' = [group EXCEPT !["files"] = offer.group]
         /\ files' = [files EXCEPT !.raised = @ + 1, !.alone = IF offer.send THEN @ + 1 ELSE @]
         /\ IF offer.send
              THEN msg' = {[key |-> "files", kind |-> "alert"]} /\ Told("files", "down")
              ELSE Silent
  /\ UNCHANGED <<side, now, standing, refusals, removed, events>>

\* reraise drops a refusal that has gone quiet and offers the rest again.
Kept(t) ==
  [s \in Scopes |->
     IF s = "refused" /\ refusals # << >> /\ Recent(refusals, t) = << >>
       THEN NotStanding ELSE standing[s]]

\* Mutant: an outage that waited is never released.
ReraisedOnlyRaised(t) == {s \in Scopes : Kept(t)[s].stands /\ Kept(t)[s].raised}

Reraised(t) == {s \in Scopes : Kept(t)[s].stands /\ t >= Kept(t)[s].notBefore}

\* The daemon's alert tick: the follow-ups that are due, then reraise.
Tick ==
  /\ now < MaxTime /\ now' = now + 1
  /\ LET due    == [k \in Keys |-> Due(group[k], k, now + 1)]
         offers == [s \in Reraised(now + 1) |-> Offered(due[s].group, s, "node", now + 1)]
         follow == {k \in Keys : due[k].kind # "none"}
         first  == {s \in Reraised(now + 1) : offers[s].send} IN
       /\ standing' = [s \in Scopes |->
            IF s \in Reraised(now + 1) THEN [Kept(now + 1)[s] EXCEPT !.raised = TRUE]
                                       ELSE Kept(now + 1)[s]]
       /\ refusals' = Recent(refusals, now + 1)
       /\ group' = [k \in Keys |-> IF k \in Reraised(now + 1) THEN offers[k].group
                                                              ELSE due[k].group]
       /\ msg' = {[key |-> k, kind |-> due[k].kind] : k \in follow}
                   \cup {[key |-> s, kind |-> "alert"] : s \in first}
       /\ told' = [k \in Keys |-> IF k \in follow \cup first
                                    THEN [kind |-> "down", at |-> now + 1] ELSE told[k]]
       /\ files' = [files EXCEPT !.counted =
                      IF "files" \in follow THEN @ + group["files"].pending ELSE @]
  /\ UNCHANGED <<side, removed, events>>

AlertsNext == NodeOffline \/ NodeOnline \/ NodeRefused \/ RemoveNode \/ FileFails \/ Tick

AlertsSpec == AlertsInit /\ [][AlertsNext]_alvars

-----------------------------------------------------------------------------
(* What the operator may rely on.                                          *)

\* A flood is summed up and none of it lost: every failure was sent by
\* itself, was counted in a summary, or waits in the window that is open.
NoFailureIsUncounted == files.raised = files.alone + files.counted + group["files"].pending

\* An outage that stands past its grace has been announced, and is again
\* within every Repeat: a long outage is not silent after message one.
StandingOutageIsRepeated ==
  standing["offline"].stands /\ now >= standing["offline"].notBefore =>
    told["offline"].kind = "down" /\ now - told["offline"].at <= Repeat

\* Nobody is told of the end of something they were not told began.
RecoveryFollowsAlert ==
  [][\A m \in msg' : m.kind = "recovered" => told[m.key].kind = "down"]_alvars

\* A node the operator removed is not heard of again, though removing it
\* disconnects it and its connection attempts are refused.
RemovedNodeIsQuiet == [][removed => msg' = {}]_alvars

\* What is not so: a refusal that reraise dropped keeps its group, and the
\* next one within the hour is counted, where it would be news.
RefusalIsTold ==
  standing["refused"].raised => told["refused"].kind = "down"
    /\ now - told["refused"].at <= Repeat
=============================================================================
