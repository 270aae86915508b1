------------------------------ MODULE Settings ------------------------------
(***************************************************************************)
(* The stored settings (db/settings-repo.ts), what the environment seeds   *)
(* them with when the daemon starts (config/env-settings.ts), the routes   *)
(* that change them, and the sections of the configure screen that show    *)
(* and send them (web, screens/config).  A setting is a row of its own; a  *)
(* group of them is validated together and written row by row.             *)
(***************************************************************************)
EXTENDS Naturals, Sequences, FiniteSets, SequencesExt

CONSTANTS
  Pages,       \* browsers, each on one section
  Seedings,    \* what the variables of a compose file may say
  MaxStarts,   \* bound: starts of the daemon
  MaxSaves     \* bound: saves sent

VARIABLES
  setting,     \* the rows: <<>> while nobody has written one
  daemon,      \* "down" or "up"
  page,        \* what each browser shows
  starts, saves

settingVars == <<setting, daemon, page, starts, saves>>

\* A group in the order its rows are written: the schedule; single sign-on, whose
\* issuer stands for the four provider fields; and the scan group's path map.
Groups == {<<"timezone", "counts", "windows">>, <<"enabled", "issuer">>, <<"paths">>}
Keys   == UNION {ToSet(g) : g \in Groups}
Group(k) == CHOOSE g \in Groups : k \in ToSet(g)

Unset   == <<>>
Default == [timezone |-> "UTC", counts |-> 1, windows |-> {}, enabled |-> FALSE,
            issuer |-> "", paths |-> ""]
Value(r, k) == IF r[k] = Unset THEN Default[k] ELSE r[k][1]
Values(r)   == [k \in Keys |-> Value(r, k)]

\* validateSchedule refuses a zone nobody knows, validateAuth sign-on without its provider.
Valid(v, g) == /\ "timezone" \in ToSet(g) => v.timezone # "nowhere"
               /\ "enabled" \in ToSet(g) => (v.enabled => v.issuer # "")

Patched(r, patch) == [k \in Keys |-> IF k \in DOMAIN patch THEN patch[k] ELSE Value(r, k)]

\* The siblings of what the patch names go back to their defaults.
WrittenBare(r, g, patch, n) ==
  [k \in Keys |-> IF k \in ToSet(SubSeq(g, 1, n))
                  THEN <<IF k \in DOMAIN patch THEN patch[k] ELSE Default[k]>> ELSE r[k]]

\* A setter reads its group, merges the patch, validates the whole, and writes every row
\* of the group; n of them when the daemon dies in between.
Accepts(r, g, patch)    == Valid(Values(r), g) /\ Valid(Patched(r, patch), g)
Written(r, g, patch, n) ==
  [k \in Keys |-> IF k \in ToSet(SubSeq(g, 1, n)) THEN <<Patched(r, patch)[k]>> ELSE r[k]]

Only(k, v) == [x \in {k} |-> v]

-----------------------------------------------------------------------------
(* The start of the daemon.                                                *)

\* The variables in the order they are applied: sign-on is enabled last.
Seeds == <<"timezone", "counts", "issuer", "enabled">>

\* Whether a row was set is read before the first variable is applied, since each one
\* writes the rows beside its own.
SeedsAsItGoes(e, before, r, k) == e[k] # Unset /\ r[k] = Unset
SeedsNow(e, before, r, k) == e[k] # Unset /\ before[k] = Unset

Seeded(e, before, r, k) ==
  IF SeedsNow(e, before, r, k) /\ Accepts(r, Group(k), Only(k, e[k][1]))
  THEN Written(r, Group(k), Only(k, e[k][1]), Len(Group(k))) ELSE r

SeededUpTo(e, n) ==
  LET rows[m \in 0..Len(Seeds)] ==
        IF m = 0 THEN setting ELSE Seeded(e, setting, rows[m - 1], Seeds[m])
  IN rows[n]

Start(e) ==
  /\ daemon = "down" /\ starts < MaxStarts
  /\ setting' = SeededUpTo(e, Len(Seeds))
  /\ daemon' = "up" /\ starts' = starts + 1
  /\ UNCHANGED <<page, saves>>

\* The daemon dies among its seeds.
StartDies(e) ==
  /\ daemon = "down" /\ starts < MaxStarts
  /\ \E n \in 0..(Len(Seeds) - 1) :
       LET r == SeededUpTo(e, n)
           k == Seeds[n + 1]
           g == Group(k)
       IN /\ SeedsNow(e, setting, r, k) /\ Accepts(r, g, Only(k, e[k][1]))
          /\ \E m \in 0..(Len(g) - 1) : setting' = Written(r, g, Only(k, e[k][1]), m)
  /\ starts' = starts + 1
  /\ UNCHANGED <<daemon, page, saves>>

\* A request that was not answered is refused by the socket.
Lost(w) == IF w.at = "sent" THEN [w EXCEPT !.at = "refused"] ELSE w

Hangup(p) == [page[p] EXCEPT !.get = Lost(@), !.put = Lost(@)]

StopDaemon ==
  /\ daemon = "up" /\ daemon' = "down"
  /\ page' = [p \in Pages |-> Hangup(p)]
  /\ UNCHANGED <<setting, starts, saves>>

-----------------------------------------------------------------------------
(* The sections.  "shown" is what the operator sees and edits, "kept" what *)
(* the daemon answered last, "loaded" whether it has answered, and "dirty" *)
(* (a ghost) that something was typed since.                               *)

Sections == {"workers", "schedule", "auth", "paths"}
Shows(s) == CASE s = "workers" -> {"counts"} [] s = "schedule" -> {"timezone", "counts", "windows"}
              [] s = "auth" -> {"enabled", "issuer"} [] s = "paths" -> {"paths"}

\* The sections whose inputs are disabled while a save is on its way.
Locked == {"paths", "schedule"}

NoWire  == [at |-> "none", value |-> Default]
NoPage  == [section |-> "none", loaded |-> FALSE, shown |-> Default, kept |-> Default,
            dirty |-> FALSE, get |-> NoWire, put |-> NoWire]
Asking  == [at |-> "sent", value |-> Default]

OpenSection(p, s) ==
  /\ page[p].section = "none"
  /\ page' = [page EXCEPT ![p] = [NoPage EXCEPT !.section = s, !.get = Asking]]
  /\ UNCHANGED <<setting, daemon, starts, saves>>

\* The workers section asks again when an event says its counts are stale; any
\* section retries a first load that failed.
AskAgain(p) ==
  /\ page[p].section # "none" /\ page[p].get.at = "none"
  /\ page[p].section = "workers" \/ ~page[p].loaded
  /\ page' = [page EXCEPT ![p].get = Asking]
  /\ UNCHANGED <<setting, daemon, starts, saves>>

\* The provider's fields are shown while sign-on is ticked.
Typeable(g) == CASE g.section = "workers" -> {Only("counts", 2)}
                 [] g.section = "auth" -> {Only("enabled", b) : b \in BOOLEAN}
                                          \cup (IF g.shown.enabled THEN {Only("issuer", "idp")} ELSE {})
                 [] g.section = "paths" -> {Only("paths", "map")}
                 [] OTHER -> {}

MayTypeAlways(s, saving) == TRUE
MayType(s, saving) == s \in Locked => ~saving

TypeIn(p, patch) ==
  /\ page[p].loaded /\ MayType(page[p].section, page[p].put.at # "none")
  /\ patch \in Typeable(page[p])
  /\ page' = [page EXCEPT ![p].shown = [k \in Keys |-> IF k \in DOMAIN patch THEN patch[k] ELSE @[k]],
                          ![p].dirty = TRUE]
  /\ UNCHANGED <<setting, daemon, starts, saves>>

\* Save sends the fields of the section, and is not offered while one is on its way; single
\* sign-on is sent when it differs from what was answered, and never without its provider.
Save(p) ==
  /\ page[p].loaded /\ page[p].section # "schedule" /\ page[p].put.at = "none" /\ saves < MaxSaves
  /\ page[p].section = "auth" => /\ page[p].shown # page[p].kept
                                 /\ Valid(page[p].shown, Group("enabled"))
  /\ page' = [page EXCEPT ![p].put = [at |-> "sent", value |-> page[p].shown]]
  /\ saves' = saves + 1
  /\ UNCHANGED <<setting, daemon, starts>>

\* Adding or removing a window sends the schedule as it was loaded with that window in or out.
SaveWindow(p, w) ==
  /\ page[p].loaded /\ page[p].section = "schedule" /\ page[p].put.at = "none" /\ saves < MaxSaves
  /\ page' = [page EXCEPT ![p].put =
       [at |-> "sent", value |-> [page[p].shown EXCEPT !.windows = IF w \in @ THEN @ \ {w} ELSE @ \cup {w}]]]
  /\ saves' = saves + 1
  /\ UNCHANGED <<setting, daemon, starts>>

\* AuthSection puts its draft back to what was answered.
Discard(p) ==
  /\ page[p].loaded /\ page[p].section = "auth" /\ page[p].shown # page[p].kept
  /\ page[p].put.at = "none"
  /\ page' = [page EXCEPT ![p].shown = page[p].kept, ![p].dirty = FALSE]
  /\ UNCHANGED <<setting, daemon, starts, saves>>

-----------------------------------------------------------------------------
(* The routes.                                                             *)

\* The workers and the schedule are answered from their own group, the others from all of
\* the settings, so that one group nobody can read refuses them.
Answer(r, s) == IF s \in {"workers", "schedule"} \/ \A g \in Groups : Valid(Values(r), g)
                THEN [at |-> "served", value |-> [k \in Keys |-> IF k \in Shows(s) THEN Value(r, k) ELSE Default[k]]]
                ELSE [at |-> "refused", value |-> Default]

ServeGet(p) ==
  /\ daemon = "up" /\ page[p].get.at = "sent"
  /\ page' = [page EXCEPT ![p].get = Answer(setting, page[p].section)]
  /\ UNCHANGED <<setting, daemon, starts, saves>>

PatchOf(p) == [k \in Shows(page[p].section) |-> page[p].put.value[k]]
GroupOf(p) == CHOOSE g \in Groups : Shows(page[p].section) \subseteq ToSet(g)

\* PUT /workers/counts, PUT /system/schedule, PATCH /system/settings.
ServePut(p) ==
  /\ daemon = "up" /\ page[p].put.at = "sent"
  /\ IF Accepts(setting, GroupOf(p), PatchOf(p))
     THEN /\ setting' = Written(setting, GroupOf(p), PatchOf(p), Len(GroupOf(p)))
          /\ page' = [page EXCEPT ![p].put = Answer(setting', page[p].section)]
     ELSE /\ page' = [page EXCEPT ![p].put.at = "refused"] /\ UNCHANGED setting
  /\ UNCHANGED <<daemon, starts, saves>>

\* The rows of a save are not one transaction.
ServeDies(p) ==
  /\ daemon = "up" /\ page[p].put.at = "sent" /\ Accepts(setting, GroupOf(p), PatchOf(p))
  /\ \E n \in 1..(Len(GroupOf(p)) - 1) : setting' = Written(setting, GroupOf(p), PatchOf(p), n)
  /\ daemon' = "down" /\ page' = [q \in Pages |-> Hangup(q)]
  /\ UNCHANGED <<starts, saves>>

\* The workers section seeds its inputs from the first answer only.
SeedsInputsEver(g) == TRUE
SeedsInputs(g)     == ~(g.section = "workers" /\ g.loaded)

TakeGet(p) ==
  LET g == page[p]
      first == SeedsInputs(g)
  IN /\ g.get.at \in {"served", "refused"}
     /\ page' = [page EXCEPT ![p] =
          IF g.get.at = "served"
          THEN [g EXCEPT !.get = NoWire, !.loaded = TRUE, !.kept = g.get.value,
                         !.shown = IF first THEN g.get.value ELSE g.shown,
                         !.dirty = IF first THEN FALSE ELSE g.dirty]
          ELSE [g EXCEPT !.get = NoWire]]
     /\ UNCHANGED <<setting, daemon, starts, saves>>

\* The answer to a save replaces what is shown; a refusal leaves it.
TakePut(p) ==
  /\ page[p].put.at \in {"served", "refused"}
  /\ page' = [page EXCEPT ![p] =
       IF @.put.at = "served"
       THEN [@ EXCEPT !.put = NoWire, !.shown = page[p].put.value, !.kept = page[p].put.value,
                      !.dirty = FALSE]
       ELSE [@ EXCEPT !.put = NoWire]]
  /\ UNCHANGED <<setting, daemon, starts, saves>>

-----------------------------------------------------------------------------
(* core/src/schedule.ts: which windows are in force at a weekday and a     *)
(* minute, and the counts they leave.                                      *)

CONSTANT DayMinutes   \* minutes of a day; the code's are 1440

Week == 7

InSpan(w, minute) ==
  IF w.end <= w.start THEN minute >= w.start \/ minute < w.end ELSE minute >= w.start /\ minute < w.end

\* A window that wraps past midnight belongs to the day it started on.
StartedToday(w, day, minute) == day
StartedOn(w, day, minute) == IF w.end <= w.start /\ minute < w.end THEN (day + 6) % Week ELSE day

WindowContains(w, day, minute) ==
  InSpan(w, minute) /\ (w.days = {} \/ StartedOn(w, day, minute) \in w.days)

\* Each window in force overwrites the classes it names, in order.
EvaluateSchedule(base, windows, day, minute) ==
  LET Overwrite(counts, w) ==
        [c \in DOMAIN counts |-> IF c \in DOMAIN w.counts THEN w.counts[c] ELSE counts[c]]
      after[n \in 0..Len(windows)] ==
        IF n = 0 THEN base
        ELSE IF WindowContains(windows[n], day, minute) THEN Overwrite(after[n - 1], windows[n])
             ELSE after[n - 1]
  IN after[Len(windows)]

-----------------------------------------------------------------------------

SettingsInit ==
  /\ setting = [k \in Keys |-> Unset]
  /\ daemon = "down"
  /\ page = [p \in Pages |-> NoPage] /\ starts = 0 /\ saves = 0

SettingsNext ==
  \/ \E e \in Seedings : Start(e) \/ StartDies(e)
  \/ StopDaemon
  \/ \E p \in Pages :
       \/ \E s \in Sections : OpenSection(p, s)
       \/ \E patch \in Typeable(page[p]) : TypeIn(p, patch)
       \/ AskAgain(p) \/ Save(p) \/ SaveWindow(p, "night") \/ Discard(p)
       \/ ServeGet(p) \/ ServePut(p) \/ ServeDies(p) \/ TakeGet(p) \/ TakePut(p)

-----------------------------------------------------------------------------

\* Every row holds a value of its key, and every page shows one of each.
SettingsTypeOK ==
  LET Of == [timezone |-> {"UTC", "paris"}, counts |-> 0..2, windows |-> SUBSET {"night"},
             enabled |-> BOOLEAN, issuer |-> {"", "idp"}, paths |-> {"", "map"}]
      IsWire(w) == w.at \in {"none", "sent", "served", "refused"} /\ \A k \in Keys : w.value[k] \in Of[k]
  IN /\ \A k \in Keys : setting[k] = Unset \/ (Len(setting[k]) = 1 /\ setting[k][1] \in Of[k])
     /\ daemon \in {"up", "down"} /\ starts \in 0..MaxStarts /\ saves \in 0..MaxSaves
     /\ \A p \in Pages :
          /\ page[p].section \in Sections \cup {"none"}
          /\ page[p].loaded \in BOOLEAN /\ page[p].dirty \in BOOLEAN
          /\ \A k \in Keys : page[p].shown[k] \in Of[k] /\ page[p].kept[k] \in Of[k]
          /\ IsWire(page[p].get) /\ IsWire(page[p].put)

\* "Seeding, not overriding": a start changes no row that was there before it, and one that
\* comes up has given every other row of a readable group its variable, whatever the rows beside it
\* (config/env-settings.ts applyEnvSettings).
SeedsFillOnly ==
  daemon = "down" =>
    \A e \in Seedings :
      LET up == SeededUpTo(e, Len(Seeds)) IN
        /\ \A k \in Keys : setting[k] # Unset => up[k] = setting[k]
        /\ \A k \in ToSet(Seeds) :
             ( /\ setting[k] = Unset /\ e[k] # Unset
               /\ Valid(Values(setting), Group(k)) /\ Valid(Patched(up, Only(k, e[k][1])), Group(k)) )
             => up[k] = e[k]

\* A save changes the settings its section shows and no other (db/settings-repo.ts, whose
\* setters write the rows beside them).
SavesAreNarrow ==
  [][daemon = "up" =>
       \A k \in Keys : Value(setting', k) # Value(setting, k) =>
         \E p \in Pages : /\ page[p].put.at = "sent" /\ page'[p].put.at # "sent"
                          /\ k \in Shows(page[p].section) /\ Value(setting', k) = page[p].put.value[k]]_settingVars

\* What was typed and not saved goes only when the operator discards it or a save of the
\* section is answered, and where the inputs are locked that save had sent it (Config.tsx,
\* NotificationPaths.tsx).
TypedIsKept ==
  [][\A p \in Pages :
       page[p].dirty /\ ~page'[p].dirty =>
         \/ page'[p].shown = page[p].kept /\ page'[p].put = page[p].put /\ page'[p].get = page[p].get
         \/ /\ page[p].put.at = "served"
            /\ page[p].section \in Locked => \A k \in Shows(page[p].section) : page[p].shown[k] = page[p].put.value[k]]_settingVars

\* What the schedule should mean: a window covers the minutes of the week from its start on,
\* on each of its days, over midnight and the end of the week.
SomeWindows == [days : {{}, {0}, {6}, {3, 4}}, start : 0..(DayMinutes - 1), end : 1..DayMinutes,
                counts : {[transcode |-> 2], [transcode |-> 0, health |-> 1]}]
Length(w) == IF w.end > w.start THEN w.end - w.start ELSE w.end + DayMinutes - w.start
Covers(w, m) ==
  \E d \in (IF w.days = {} THEN 0..(Week - 1) ELSE w.days), i \in 0..(Length(w) - 1) :
    m = (d * DayMinutes + w.start + i) % (Week * DayMinutes)

\* A window is in force in the minutes it covers, and the last window that names a class gives
\* its count (core/src/schedule.ts).
WindowMeansItsSpan ==
  LET Base == [transcode |-> 1, health |-> 0]
      Naming(ws, m, c) == {i \in DOMAIN ws : Covers(ws[i], m) /\ c \in DOMAIN ws[i].counts}
  IN \A v, w \in SomeWindows : \A day \in {0, 1, 6}, minute \in 0..(DayMinutes - 1) :
       LET m == day * DayMinutes + minute
       IN \A c \in DOMAIN Base :
            EvaluateSchedule(Base, <<v, w>>, day, minute)[c] =
              CASE 2 \in Naming(<<v, w>>, m, c) -> w.counts[c]
                [] Naming(<<v, w>>, m, c) = {1} -> v.counts[c]
                [] OTHER -> Base[c]

\* Does not hold: the rows of a save are not one transaction, and a daemon that dies after
\* "enabled" and before the provider leaves a group that neither reads nor takes a patch
\* (db/settings-repo.ts setAuth).
AuthIsReadable == Valid(Values(setting), Group("enabled"))

\* Does not hold: a window is added to the schedule as it was loaded, and takes a worker count
\* saved meanwhile back with it (Config.tsx ScheduleSection).
WindowsKeepTheCounts ==
  [][\A p \in Pages : page[p].section = "schedule" /\ page[p].put.at = "sent" /\ page'[p].put.at = "served"
       => Value(setting', "counts") = Value(setting, "counts")]_settingVars

SettingsSpec == SettingsInit /\ [][SettingsNext]_settingVars
=============================================================================
