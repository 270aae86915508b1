----------------------------- MODULE FilePanel -----------------------------
(***************************************************************************)
(* What an operator does to one file: the panel that shows it              *)
(* (web/src/screens/files/FileDetail.tsx), the routes it calls             *)
(* (server/src/api/routes/files.ts), and the row they change beside the    *)
(* queue that claims it (server/src/db/media-file-repo.ts).                *)
(*                                                                         *)
(* A delete is two steps that cannot be one, the file on disk and then its *)
(* row, so the row is parked out of the queue's reach in between.  The     *)
(* panel is one component for every file: an answer that comes after the   *)
(* operator has moved to another file is still applied to it.              *)
(***************************************************************************)
EXTENDS Naturals, FiniteSets

CONSTANTS
  FileIds,    \* the files, in the order they were discovered
  Deletes,    \* the delete requests the daemon may have in hand
  MaxClicks,  \* bound: what the operator does
  MaxWork     \* bound: what the queue, the disk and the daemon do meanwhile

VARIABLES
  row,        \* the row of each file: its ledger state, its hold and its priority
  onDisk,     \* the files that are on disk
  jobs,       \* the open jobs of each file
  reserved,   \* the files a delete has parked, in the daemon's memory
  deletion,   \* each delete request in hand
  panel,      \* the panel, its file and its buttons
  loads,      \* the loads the panel has begun
  answers,    \* the answers on their way to the panel
  disturbed,  \* what happened that the properties make an exception of
  clicks, work

panelVars == <<row, onDisk, jobs, reserved, deletion, panel, loads, answers, disturbed, clicks, work>>

\* No file, where one is expected.
Nobody == 0

NoRow   == [state |-> "none", until |-> "none", raised |-> FALSE]
NewRow  == [state |-> "queued", until |-> "none", raised |-> FALSE]
Idle    == [step |-> "idle", file |-> Nobody, previous |-> NoRow, by |-> "other"]
Closed  == [id |-> Nobody, loading |-> FALSE, file |-> Nobody, history |-> Nobody, flow |-> Nobody,
            confirming |-> FALSE, deleteBusy |-> FALSE, armedFor |-> Nobody]
Nothing == [unguarded |-> {}, crashed |-> FALSE, crossed |-> FALSE]

PanelInit ==
  /\ row \in [FileIds -> {NewRow, [NewRow EXCEPT !.state = "failed"]}]
  /\ onDisk = FileIds
  /\ jobs = [f \in FileIds |-> 0]
  /\ reserved = {}
  /\ deletion = [d \in Deletes |-> Idle]
  /\ panel = Closed
  /\ loads = {} /\ answers = {}
  /\ disturbed = Nothing
  /\ clicks = 0 /\ work = 0

Known(f) == row[f].state # "none"

Click == clicks < MaxClicks /\ clicks' = clicks + 1 /\ UNCHANGED work
Work  == work < MaxWork /\ work' = work + 1 /\ UNCHANGED clicks
Quiet == UNCHANGED <<clicks, work>>

Answer(kind, f, ok, by) == [kind |-> kind, of |-> f, ok |-> ok, by |-> by]

-----------------------------------------------------------------------------

(* The queue and the disk. *)

Claimable(f) == row[f].state \in {"queued", "held"} /\ row[f].until \in {"none", "due"}

\* The claim takes the row of the highest priority, the oldest of them first.
Ahead(f, g) == (row[f].raised /\ ~ row[g].raised) \/ (row[f].raised = row[g].raised /\ f <= g)

Claim(f) ==
  /\ Claimable(f) /\ (\A g \in FileIds : Claimable(g) => Ahead(f, g))
  /\ jobs[f] < 2
  /\ row' = [row EXCEPT ![f].state = "running"]
  /\ jobs' = [jobs EXCEPT ![f] = @ + 1]
  /\ Work /\ UNCHANGED <<onDisk, reserved, deletion, panel, loads, answers, disturbed>>

\* A run ends, here with its file held for another attempt.
Settle(f) ==
  /\ jobs[f] > 0
  /\ jobs' = [jobs EXCEPT ![f] = @ - 1]
  /\ row' = IF Known(f) THEN [row EXCEPT ![f].state = "held", ![f].until = "later"] ELSE row
  /\ Quiet /\ UNCHANGED <<onDisk, reserved, deletion, panel, loads, answers, disturbed>>

\* A deadline passes.  A delete's own is an hour ahead: it outlasts the request.
HoldEnds(f) ==
  /\ \/ row[f].until = "later"
     \/ row[f].until = "parked" /\ (\A d \in Deletes : deletion[d].file # f)
  /\ row' = [row EXCEPT ![f].until = "due"]
  /\ Work /\ UNCHANGED <<onDisk, jobs, reserved, deletion, panel, loads, answers, disturbed>>

\* A file is removed by somebody else.
Vanish(f) ==
  /\ f \in onDisk /\ onDisk' = onDisk \ {f}
  /\ Work /\ UNCHANGED <<row, jobs, reserved, deletion, panel, loads, answers, disturbed>>

\* The daemon dies and starts again: its reservations are gone with it, the requests in hand
\* are never answered as done, and an open job is settled.
Crash ==
  /\ reserved' = {} /\ deletion' = [d \in Deletes |-> Idle]
  /\ jobs' = [f \in FileIds |-> 0]
  /\ row' = [f \in FileIds |-> IF jobs[f] > 0 /\ Known(f) THEN [row[f] EXCEPT !.state = "held", !.until = "later"] ELSE row[f]]
  /\ answers' = answers \cup {Answer("delete", deletion[d].file, FALSE, deletion[d].by) :
                                d \in {x \in Deletes : deletion[x].by # "other"}}
  /\ disturbed' = [disturbed EXCEPT !.crashed = TRUE]
  /\ Work /\ UNCHANGED <<onDisk, panel, loads>>

-----------------------------------------------------------------------------

(* The routes.  Each but the delete runs in one step of the daemon. *)

\* The panel gets the answer to what it asked.
Answered(kind, f, ok, by) ==
  answers' = IF by = "other" THEN answers ELSE answers \cup {Answer(kind, f, ok, by)}

\* A requeue is refused while a delete or a job has the file.
RequeueBlocked(f) == f \in reserved \/ jobs[f] > 0 \/ row[f].state = "running"

requeue(f) ==
  IF ~ Known(f) \/ RequeueBlocked(f)
  THEN Answered("requeue", f, FALSE, "panel") /\ UNCHANGED row
  ELSE /\ Answered("requeue", f, TRUE, "panel")
       /\ row' = [row EXCEPT ![f].state = "queued", ![f].until = "none"]

setPriority(f) ==
  /\ Answered("priority", f, Known(f), "panel")
  /\ row' = IF Known(f) THEN [row EXCEPT ![f].raised = TRUE] ELSE row

\* A hold is another tab's or a script's: no button of the panel sends it.  It is written
\* whatever has the file.
Hold(f) ==
  /\ Known(f)
  /\ row' = [row EXCEPT ![f].state = "held", ![f].until = "later"]
  /\ disturbed' = IF f \in reserved THEN [disturbed EXCEPT !.unguarded = @ \cup {f}] ELSE disturbed
  /\ Click /\ UNCHANGED <<onDisk, jobs, reserved, deletion, panel, loads, answers>>

\* A row is taken out of the queue's reach unless something is running it.
MayReserveByState(f) == Known(f) /\ row[f].state # "running"

MayReserve(f) == MayReserveByState(f) /\ jobs[f] = 0

reserveForDeletion(d, f, who) ==
  /\ row' = [row EXCEPT ![f].state = "held", ![f].until = "parked"]
  /\ reserved' = reserved \cup {f}
  /\ deletion' = [deletion EXCEPT ![d] = [step |-> "unlink", file |-> f, previous |-> row[f], by |-> who]]

DeleteAsked(f, who) ==
  \/ /\ ~ MayReserve(f)
     /\ Answered("delete", f, FALSE, who) /\ UNCHANGED <<row, reserved, deletion, disturbed>>
  \/ /\ MayReserve(f)
     /\ \E d \in Deletes : /\ deletion[d].step = "idle"
                           /\ \A e \in Deletes : deletion[e].step = "idle" => d <= e
                           /\ reserveForDeletion(d, f, who)
     /\ disturbed' = IF f \in reserved THEN [disturbed EXCEPT !.unguarded = @ \cup {f}] ELSE disturbed
     /\ UNCHANGED answers

\* The disk answers: the file is gone, or was already, or it could not be removed.
Unlink(d) ==
  LET f == deletion[d].file IN
  /\ deletion[d].step = "unlink"
  /\ \/ onDisk' = onDisk \ {f} /\ deletion' = [deletion EXCEPT ![d].step = "drop"]
     \/ f \in onDisk /\ UNCHANGED onDisk /\ deletion' = [deletion EXCEPT ![d].step = "restore"]
  /\ Quiet /\ UNCHANGED <<row, jobs, reserved, panel, loads, answers, disturbed>>

\* The row and its history go with the file.
delete(d) ==
  LET f == deletion[d].file IN
  /\ deletion[d].step = "drop"
  /\ row' = [row EXCEPT ![f] = NoRow]
  /\ reserved' = reserved \ {f}
  /\ deletion' = [deletion EXCEPT ![d] = Idle]
  /\ Answered("delete", f, TRUE, deletion[d].by)
  /\ Quiet /\ UNCHANGED <<onDisk, jobs, panel, loads, disturbed>>

\* The row goes back as it was, its priority apart.
restoreFromDeletion(d) ==
  LET f == deletion[d].file
      p == deletion[d].previous
  IN /\ deletion[d].step = "restore"
     /\ row' = IF Known(f) THEN [row EXCEPT ![f].state = p.state, ![f].until = p.until] ELSE row
     /\ reserved' = reserved \ {f}
     /\ deletion' = [deletion EXCEPT ![d] = Idle]
     /\ Answered("delete", f, FALSE, deletion[d].by)
     /\ Quiet /\ UNCHANGED <<onDisk, jobs, panel, loads, disturbed>>

-----------------------------------------------------------------------------

(* The panel. *)

\* A file is chosen in the list.  The effect drops what was being loaded and loads the file
\* anew; what is shown meanwhile is a skeleton, but the buttons keep their state.
Open(f) ==
  /\ panel.id # f
  /\ panel' = [panel EXCEPT !.id = f, !.loading = TRUE]
  /\ loads' = {[l EXCEPT !.cancelled = TRUE] : l \in loads} \cup
                {[of |-> f, stage |-> "file", found |-> FALSE, cancelled |-> FALSE]}
  /\ disturbed' = [disturbed EXCEPT !.crossed = FALSE]
  /\ Click /\ UNCHANGED <<row, onDisk, jobs, reserved, deletion, answers>>

\* The row and its history are read; then the library it is in.
ReadFile(l) ==
  /\ l.stage = "file"
  /\ loads' = (loads \ {l}) \cup (IF l.cancelled THEN {} ELSE {[l EXCEPT !.stage = "library", !.found = Known(l.of)]})
  /\ Quiet /\ UNCHANGED <<row, onDisk, jobs, reserved, deletion, panel, answers, disturbed>>

\* The file, its streams, its history and its flow are shown together, if this is still the
\* file that is asked for; an unknown file is a failure.
Show(l) ==
  /\ l.stage = "library"
  /\ loads' = loads \ {l}
  /\ panel' = IF l.cancelled THEN panel
              ELSE IF l.found
              THEN [panel EXCEPT !.loading = FALSE, !.file = l.of, !.history = l.of, !.flow = l.of]
              ELSE panel
  /\ Quiet /\ UNCHANGED <<row, onDisk, jobs, reserved, deletion, answers, disturbed>>

Shown == panel.id # Nobody /\ ~ panel.loading

Waiting(kind) == \E a \in answers : a.kind = kind

\* Every button sends the file of the address, whatever row is shown.
PressRequeue ==
  /\ Shown /\ ~ Waiting("requeue")
  /\ requeue(panel.id)
  /\ Click /\ UNCHANGED <<onDisk, jobs, reserved, deletion, panel, loads, disturbed>>

PressPriority ==
  /\ Shown /\ ~ Waiting("priority")
  /\ setPriority(panel.id)
  /\ Click /\ UNCHANGED <<onDisk, jobs, reserved, deletion, panel, loads, disturbed>>

\* The first click only arms the confirmation.
PressDelete ==
  /\ Shown /\ ~ panel.confirming /\ ~ panel.deleteBusy
  /\ panel' = [panel EXCEPT !.confirming = TRUE, !.armedFor = panel.file]
  /\ Click /\ UNCHANGED <<row, onDisk, jobs, reserved, deletion, loads, answers, disturbed>>

PressCancel ==
  /\ Shown /\ panel.confirming /\ ~ panel.deleteBusy
  /\ panel' = [panel EXCEPT !.confirming = FALSE, !.armedFor = Nobody]
  /\ Click /\ UNCHANGED <<row, onDisk, jobs, reserved, deletion, loads, answers, disturbed>>

PressConfirm ==
  /\ Shown /\ panel.confirming /\ ~ panel.deleteBusy
  /\ panel' = [panel EXCEPT !.deleteBusy = TRUE]
  /\ DeleteAsked(panel.id, "panel")
  /\ Click /\ UNCHANGED <<onDisk, jobs, loads>>

\* Another tab deletes the file.
DeleteElsewhere(f) ==
  /\ Known(f) /\ MayReserve(f)
  /\ DeleteAsked(f, "other")
  /\ Click /\ UNCHANGED <<onDisk, jobs, panel, loads>>

\* The panel closes: what it has asked no longer reaches it, though a delete that succeeds
\* still leads to the list.
Leave(coming) ==
  /\ panel' = Closed
  /\ loads' = {[l EXCEPT !.cancelled = TRUE] : l \in loads}
  /\ answers' = {[a EXCEPT !.by = "left"] : a \in {b \in coming : b.kind = "delete"}}
  /\ deletion' = [d \in Deletes |-> IF deletion[d].by = "panel" THEN [deletion[d] EXCEPT !.by = "left"] ELSE deletion[d]]

Back ==
  /\ panel.id # Nobody
  /\ Leave(answers)
  /\ Click /\ UNCHANGED <<row, onDisk, jobs, reserved, disturbed>>

\* An answer to a button shows the row it carries, of whatever file.
ApplyRow(a) ==
  /\ a \in answers /\ a.kind # "delete"
  /\ answers' = answers \ {a}
  /\ panel' = IF a.ok /\ panel.id # Nobody THEN [panel EXCEPT !.file = a.of] ELSE panel
  /\ disturbed' = IF a.ok /\ panel.id \notin {Nobody, a.of} THEN [disturbed EXCEPT !.crossed = TRUE] ELSE disturbed
  /\ Quiet /\ UNCHANGED <<row, onDisk, jobs, reserved, deletion, loads>>

\* A delete that is done leaves for the list; one that failed disarms the confirmation.
ApplyDelete(a) ==
  /\ a \in answers /\ a.kind = "delete"
  /\ IF a.ok THEN Leave(answers \ {a})
     ELSE /\ panel' = IF a.by = "left" THEN panel
                      ELSE [panel EXCEPT !.confirming = FALSE, !.deleteBusy = FALSE, !.armedFor = Nobody]
          /\ answers' = answers \ {a} /\ UNCHANGED <<loads, deletion>>
  /\ Quiet /\ UNCHANGED <<row, onDisk, jobs, reserved, disturbed>>

PanelNext ==
  \/ \E f \in FileIds : \/ Claim(f) \/ Settle(f) \/ HoldEnds(f) \/ Vanish(f)
                        \/ Hold(f) \/ Open(f) \/ DeleteElsewhere(f)
  \/ \E d \in Deletes : Unlink(d) \/ delete(d) \/ restoreFromDeletion(d)
  \/ \E l \in loads : ReadFile(l) \/ Show(l)
  \/ \E a \in answers : ApplyRow(a) \/ ApplyDelete(a)
  \/ PressRequeue \/ PressPriority \/ PressDelete \/ PressCancel \/ PressConfirm \/ Back
  \/ Crash

PanelTypeOK ==
  /\ row \in [FileIds -> [state : {"none", "queued", "running", "held", "failed"},
                        until : {"none", "later", "due", "parked"}, raised : BOOLEAN]]
  /\ onDisk \subseteq FileIds /\ reserved \subseteq FileIds /\ jobs \in [FileIds -> 0..2]
  /\ \A d \in Deletes : deletion[d].step = "idle" <=> deletion[d].file = Nobody

\* A file is deleted only while no worker has it, and none takes it while the delete is
\* under way (routes/files.ts: two deletes of one file, or a hold, do take that guard away).
DeletedWhileFree ==
  \A d \in Deletes :
    deletion[d].step # "idle" /\ deletion[d].file \notin disturbed.unguarded =>
      jobs[deletion[d].file] = 0 /\ row[deletion[d].file].state # "running"

\* No row goes, with its history, while its file is still there.
HistoryGoesWithTheFile == \A f \in FileIds : ~ Known(f) => f \notin onDisk

\* A row is out of the queue's reach only while its delete is under way: one that failed
\* leaves the file where it was in the queue, and may be asked to run again.
NothingStaysParked ==
  \A f \in FileIds \ disturbed.unguarded :
    /\ f \in reserved <=> \E d \in Deletes : deletion[d].file = f
    /\ row[f].until = "parked" /\ ~ disturbed.crashed => f \in reserved

\* The panel shows the file of its address, with its own history and its own flow, however
\* late the loads of other files are answered (the late answer to a button is not held off).
PanelIsOfOneFile ==
  Shown => /\ panel.history = panel.id /\ panel.flow = panel.id
           /\ panel.file = panel.id \/ disturbed.crossed

\* Does not hold: what is deleted is what the operator armed the confirmation for.
ConfirmedIsDeleted ==
  panel.deleteBusy => \A d \in Deletes : deletion[d].by = "panel" => deletion[d].file = panel.armedFor

PanelSpec == PanelInit /\ [][PanelNext]_panelVars
=============================================================================
