---------------------------- MODULE Replacement ----------------------------
(***************************************************************************)
(* Replacing the original: engine/executor/replace-original.ts, the swap   *)
(* notes of server/worker/swap-note.ts, the recovery of interrupted swaps  *)
(* in server/library/swap-recovery.ts, and the sweeps that clean up.       *)
(*                                                                         *)
(* A file system is a function from names to files; two names of one file  *)
(* are two links.  Every call that changes a name is a step of its own,    *)
(* may fail, and a worker may be killed between any two of them.  Files of *)
(* the model have one stem: they differ in their extension only, so each   *)
(* may be the destination of another's replacement.                        *)
(***************************************************************************)
EXTENDS Naturals, FiniteSets

CONSTANTS
  Paths,            \* paths in the library
  Files,            \* rows of media_file; each starts at the path of its name
  Jobs,
  FileOf,           \* the file each job is for
  Containers,       \* paths the results of the flows may go to
  Noteless,         \* jobs whose host has no data directory for a swap note
  Links,            \* which files link(2) may work for: "all", "own" ones, "none"
  Crossing,         \* jobs whose staging directory is on another device
  AllowHardlinked,  \* the library's setting
  Guests,           \* paths at which something else may put a file
  MaxFaults         \* bound: calls that fail and workers that are killed

ASSUME ReplacementAssumption ==
  /\ Files \subseteq Paths /\ Guests \subseteq Paths /\ Containers \subseteq Paths
  /\ FileOf \in [Jobs -> Files] /\ Noteless \subseteq Jobs /\ Crossing \subseteq Jobs
  /\ Links \subseteq {"all", "own", "none"} /\ AllowHardlinked \in BOOLEAN
  /\ MaxFaults \in Nat
  /\ "none" \notin Jobs

VARIABLES
  fs,         \* the file each name has, or Nothing
  links,      \* the files link(2) works for here: "own" are those a worker made
  reserved,   \* the job whose reservation each library path has
  notes,      \* swap notes on disk
  row,        \* path and inode of each file in the database
  job,        \* where the worker of each job is
  rec,        \* where the recovery is
  unguarded,  \* history: a rename into the library that its reservation, if any,
              \*   does not keep from what others link or rename there
  faults

vars == <<fs, links, reserved, notes, row, job, rec, unguarded, faults>>

-----------------------------------------------------------------------------
(* Names and files *)

Lib(p)    == <<"lib", p>>
New(j)    == <<"new", j>>      \* the result, in the job's scratch directory
Staged(j) == <<"staged", j>>   \* .trawlarr-replace-*, beside the destination
Trash(j)  == <<"trash", j>>    \* the entry the job's time stamp names

LibNames == {Lib(p) : p \in Paths}
JobNames == {New(j) : j \in Jobs} \cup {Staged(j) : j \in Jobs} \cup {Trash(j) : j \in Jobs}
Names    == LibNames \cup JobNames

Nothing    == <<"nothing">>
Original(f) == <<"original", f>>
Guest(p)    == <<"guest", p>>
Result(j)   == <<"result", j>>
Copy(j)     == <<"copy", j>>
Partial(j)  == <<"partial", j>>

Contents ==
  {Original(f) : f \in Files} \cup {Guest(p) : p \in Paths}
  \cup {Result(j) : j \in Jobs} \cup {Copy(j) : j \in Jobs} \cup {Partial(j) : j \in Jobs}

\* A name that is gone fails before its owner is looked at.
CanLink(c) == c = Nothing \/ links = "all" \/ (links = "own" /\ c[1] \in {"result", "copy"})

NamesOf(c) == {n \in Names : fs[n] = c}
Linked(n)  == NamesOf(fs[n]) # {n}

Phases == {"idle", "checking", "staging", "copying", "noting",
           "moving", "looking", "renaming", "dropping", "undoing",
           "unscratching", "backing", "giving", "discarding", "spoiled", "judging",
           "closing", "reporting", "dead", "ended"}
Outs == {"none", "replaced", "linked", "original", "urgent"}

Job == [phase : Phases, move : {"none", "trash", "install", "restore"},
        orig : Paths, dest : Paths, staged : {"none", "link", "copy"}, out : Outs]
IdleJob(f) == [phase |-> "idle", move |-> "none", orig |-> f, dest |-> f,
               staged |-> "none", out |-> "none"]

Recovery == [phase : {"idle", "looking", "linking", "renaming", "verifying"},
             job : Jobs \cup {"none"}, path : Paths \cup {"none"}, inode : Contents \cup {Nothing}]
IdleRec  == [phase |-> "idle", job |-> "none", path |-> "none", inode |-> Nothing]

Alive(j) == job[j].phase \notin {"idle", "dead", "ended"}
Open(j)  == job[j].phase \notin {"idle", "ended"}

Init ==
  /\ links \in Links
  /\ fs = [n \in Names |-> IF n \in {Lib(f) : f \in Files} THEN Original(n[2]) ELSE Nothing]
  /\ reserved = [p \in Paths |-> "none"]
  /\ notes = {}
  /\ row = [f \in Files |-> [path |-> f, inode |-> Original(f)]]
  /\ job = [j \in Jobs |-> IdleJob(FileOf[j])]
  /\ rec = IdleRec
  /\ unguarded = FALSE
  /\ faults = 0

Fault   == faults < MaxFaults /\ faults' = faults + 1
NoFault == UNCHANGED faults

\* A worker that is gone remembers nothing.
End(j)          == job' = [job EXCEPT ![j] = [IdleJob(FileOf[j]) EXCEPT !.phase = "ended"]]
Go(j, phase)    == job' = [job EXCEPT ![j].phase = phase]
GoMove(j, move) == job' = [job EXCEPT ![j].phase = "moving", ![j].move = move]

-----------------------------------------------------------------------------
(* A run up to the first change *)

\* The supervisor claims the file, and its flow has produced a result in some
\* container: the destination has the name of the original and that extension.
Start(j) ==
  /\ job[j].phase = "idle"
  /\ \A k \in Jobs : FileOf[k] = FileOf[j] => ~ Open(k)
  /\ fs' = [fs EXCEPT ![New(j)] = Result(j)]
  /\ \E p \in Containers :
       job' = [job EXCEPT ![j].phase = "checking", ![j].orig = row[FileOf[j]].path, ![j].dest = p]
  /\ UNCHANGED <<links, reserved, notes, row, rec, unguarded, faults>>

Refused(j) ==
  \/ fs[Lib(job[j].orig)] = Nothing
  \/ Linked(Lib(job[j].orig)) /\ ~ AllowHardlinked
  \/ job[j].dest # job[j].orig /\ fs[Lib(job[j].dest)] # Nothing

\* Everything that can be refused before a move is; the duration gate and a
\* file that cannot be read refuse in the same way.
Check(j) ==
  /\ job[j].phase = "checking"
  /\ \/ ~ Refused(j) /\ Go(j, "staging") /\ NoFault
     \/ /\ job' = [job EXCEPT ![j].phase = "reporting", ![j].out = "original"]
        /\ (Refused(j) /\ NoFault) \/ Fault
  /\ UNCHANGED <<fs, links, reserved, notes, row, rec, unguarded>>

\* stageReplacement: a second name on one device, a copy from another one, and
\* nothing where there are no links.
Stage(j) ==
  /\ job[j].phase = "staging"
  /\ \/ /\ j \in Crossing
        /\ job' = [job EXCEPT ![j].phase = "copying", ![j].staged = "copy"]
        /\ fs' = [fs EXCEPT ![Staged(j)] = Partial(j)]
     \/ /\ j \notin Crossing /\ CanLink(fs[New(j)])
        /\ job' = [job EXCEPT ![j].phase = "noting", ![j].staged = "link"]
        /\ fs' = [fs EXCEPT ![Staged(j)] = fs[New(j)]]
     \/ /\ j \notin Crossing /\ ~ CanLink(fs[New(j)])
        /\ GoMove(j, "trash")
        /\ UNCHANGED fs
  /\ UNCHANGED <<links, reserved, notes, row, rec, unguarded, faults>>

\* Mutant: the size of the copy is not compared.
CopiedUnverified(j) ==
  /\ job[j].phase = "copying"
  /\ \/ fs' = [fs EXCEPT ![Staged(j)] = Copy(j)] /\ NoFault
     \/ UNCHANGED fs /\ Fault
  /\ Go(j, "noting")
  /\ UNCHANGED <<links, reserved, notes, row, rec, unguarded>>

\* The copy has the size of its source, or is removed.
Copied(j) ==
  /\ job[j].phase = "copying"
  /\ \/ /\ fs' = [fs EXCEPT ![Staged(j)] = Copy(j)] /\ Go(j, "noting") /\ NoFault
     \/ Go(j, "discarding") /\ UNCHANGED fs /\ Fault
  /\ UNCHANGED <<links, reserved, notes, row, rec, unguarded>>

\* Mutant: a note that cannot be written is done without.
BeginNoteIfItCan(j) ==
  /\ job[j].phase = "noting"
  /\ \/ notes' = (IF j \in Noteless THEN notes ELSE notes \cup {j}) /\ NoFault
     \/ j \notin Noteless /\ UNCHANGED notes /\ Fault
  /\ GoMove(j, "trash")
  /\ UNCHANGED <<fs, links, reserved, row, rec, unguarded>>

\* Nothing moves without a note, on a host that can keep one.
BeginNote(j) ==
  /\ job[j].phase = "noting"
  /\ \/ /\ notes' = IF j \in Noteless THEN notes ELSE notes \cup {j}
        /\ GoMove(j, "trash") /\ NoFault
     \/ j \notin Noteless /\ Go(j, "discarding") /\ UNCHANGED notes /\ Fault
  /\ UNCHANGED <<fs, links, reserved, row, rec, unguarded>>

-----------------------------------------------------------------------------
(* moveExclusively: into trash, into the library, and back *)

From(j) ==
  CASE job[j].move = "install" -> IF job[j].staged = "none" THEN New(j) ELSE Staged(j)
    [] job[j].move = "restore" -> Trash(j)
    [] OTHER                   -> Lib(job[j].orig)

Goal(j) == IF job[j].move = "install" THEN job[j].dest ELSE job[j].orig

To(j) == IF job[j].move = "trash" THEN Trash(j) ELSE Lib(Goal(j))

\* What follows a move that was made ...
Moved(j) ==
  CASE job[j].move = "trash" -> GoMove(j, "install")
    [] job[j].move = "restore" ->
         job' = [job EXCEPT ![j].phase = "closing", ![j].out = "original"]
    [] OTHER ->
         IF job[j].staged = "none"
         THEN job' = [job EXCEPT ![j].phase = "closing", ![j].out = "replaced"]
         ELSE Go(j, "unscratching")

\* ... and one that was not.
NotMoved(j) ==
  CASE job[j].move = "trash" -> Go(j, "giving")
    [] job[j].move = "restore" ->
         job' = [job EXCEPT ![j].phase = "reporting", ![j].out = "urgent"]
    [] OTHER -> Go(j, IF job[j].staged = "none" THEN "judging" ELSE "spoiled")

\* Mutant: a name that is taken is taken for its own.
LinkOrAssume(j) ==
  /\ job[j].phase = "moving" /\ CanLink(fs[From(j)])
  /\ fs' = IF fs[To(j)] = Nothing THEN [fs EXCEPT ![To(j)] = fs[From(j)]] ELSE fs
  /\ Go(j, "dropping") /\ NoFault
  /\ UNCHANGED <<links, reserved, notes, row, rec, unguarded>>

\* link(2) fails when the new name is taken.
Link(j) ==
  /\ job[j].phase = "moving" /\ CanLink(fs[From(j)])
  /\ \/ /\ fs[From(j)] # Nothing /\ fs[To(j)] = Nothing
        /\ fs' = [fs EXCEPT ![To(j)] = fs[From(j)]]
        /\ Go(j, "dropping") /\ NoFault
     \/ /\ NotMoved(j) /\ UNCHANGED fs
        /\ ((fs[From(j)] = Nothing \/ fs[To(j)] # Nothing) /\ NoFault) \/ Fault
  /\ UNCHANGED <<links, reserved, notes, row, rec, unguarded>>

\* The old name goes; if it cannot, the new one does, except in a restore.
DropOld(j) ==
  /\ job[j].phase = "dropping"
  /\ \/ fs' = [fs EXCEPT ![From(j)] = Nothing] /\ Moved(j) /\ NoFault
     \/ /\ UNCHANGED fs /\ Fault
        /\ IF job[j].move = "restore" THEN Moved(j) ELSE Go(j, "undoing")
  /\ UNCHANGED <<links, reserved, notes, row, rec, unguarded>>

Undo(j) ==
  /\ job[j].phase = "undoing"
  /\ \/ fs' = [fs EXCEPT ![To(j)] = Nothing] /\ NoFault
     \/ UNCHANGED fs /\ Fault
  /\ NotMoved(j)
  /\ UNCHANGED <<links, reserved, notes, row, rec, unguarded>>

\* Without links the destination is reserved first.  A reservation nobody keeps
\* alive is reclaimed, once it is an hour old.  Trash names are a job's own.
Reserve(j) ==
  LET holder == reserved[Goal(j)] IN
  /\ job[j].phase = "moving" /\ ~ CanLink(fs[From(j)])
  /\ \/ /\ job[j].move = "trash"
        /\ Go(j, "renaming") /\ UNCHANGED reserved /\ NoFault
     \/ /\ job[j].move # "trash"
        /\ holder \in {"none"} \cup {k \in Jobs : ~ Alive(k)}
        /\ reserved' = [reserved EXCEPT ![Goal(j)] = j]
        /\ Go(j, "looking") /\ NoFault
     \/ /\ NotMoved(j) /\ UNCHANGED reserved
        /\ job[j].move # "trash"
        /\ (holder # "none" /\ NoFault) \/ Fault
  /\ UNCHANGED <<fs, links, notes, row, rec, unguarded>>

Freed(j) == [reserved EXCEPT ![Goal(j)] = IF @ = j THEN "none" ELSE @]

\* Mutant: the reservation alone is relied on.
LookAtNothing(j) ==
  /\ job[j].phase = "looking"
  /\ Go(j, "renaming")
  /\ UNCHANGED <<fs, links, reserved, notes, row, rec, unguarded, faults>>

\* Under the reservation: something outside may have taken the name.
LookFirst(j) ==
  /\ job[j].phase = "looking"
  /\ \/ fs[To(j)] = Nothing /\ Go(j, "renaming") /\ UNCHANGED reserved
     \/ fs[To(j)] # Nothing /\ NotMoved(j) /\ reserved' = Freed(j)
  /\ UNCHANGED <<fs, links, notes, row, rec, unguarded, faults>>

\* rename(2) replaces what it finds.
Rename(j) ==
  /\ job[j].phase = "renaming"
  /\ reserved' = Freed(j)
  /\ \/ /\ fs[From(j)] # Nothing
        /\ fs' = [fs EXCEPT ![To(j)] = fs[From(j)], ![From(j)] = Nothing]
        /\ unguarded' = (unguarded \/ (links = "own" /\ job[j].move # "trash"))
        /\ Moved(j) /\ NoFault
     \/ /\ NotMoved(j) /\ UNCHANGED <<fs, unguarded>>
        /\ (fs[From(j)] = Nothing /\ NoFault) \/ Fault
  /\ UNCHANGED <<links, notes, row, rec>>

-----------------------------------------------------------------------------
(* What follows the moves *)

\* The original did not move: the note and the staged file have no purpose.
GiveUp(j) ==
  /\ job[j].phase = "giving"
  /\ notes' = notes \ {j}
  /\ Go(j, "discarding")
  /\ UNCHANGED <<fs, links, reserved, row, rec, unguarded, faults>>

Discard(j) ==
  /\ job[j].phase = "discarding"
  /\ \/ fs' = [fs EXCEPT ![Staged(j)] = Nothing] /\ NoFault
     \/ UNCHANGED fs /\ Fault
  /\ job' = [job EXCEPT ![j].phase = "reporting", ![j].out = "original"]
  /\ UNCHANGED <<links, reserved, notes, row, rec, unguarded>>

\* Installed: the name in the scratch directory goes.  A copy may stay behind; a
\* second link may not, and takes the installed name with it.
Unscratch(j) ==
  /\ job[j].phase = "unscratching"
  /\ \/ /\ fs' = [fs EXCEPT ![New(j)] = Nothing]
        /\ job' = [job EXCEPT ![j].phase = "closing", ![j].out = "replaced"]
        /\ NoFault
     \/ /\ UNCHANGED fs /\ Fault
        /\ IF job[j].staged = "link" THEN Go(j, "backing")
           ELSE job' = [job EXCEPT ![j].phase = "closing", ![j].out = "replaced"]
  /\ UNCHANGED <<links, reserved, notes, row, rec, unguarded>>

BackOut(j) ==
  /\ job[j].phase = "backing"
  /\ \/ fs' = [fs EXCEPT ![Lib(job[j].dest)] = Nothing] /\ NoFault
     \/ UNCHANGED fs /\ Fault
  /\ Go(j, "judging")
  /\ UNCHANGED <<links, reserved, notes, row, rec, unguarded>>

\* The install failed: its staged file goes ...
Spoil(j) ==
  /\ job[j].phase = "spoiled"
  /\ \/ fs' = [fs EXCEPT ![Staged(j)] = Nothing] /\ NoFault
     \/ UNCHANGED fs /\ Fault
  /\ Go(j, "judging")
  /\ UNCHANGED <<links, reserved, notes, row, rec, unguarded>>

\* Mutant: any result at the destination counts, as by its size.
LandedBySize(j) ==
  \E k \in Jobs : fs[Lib(job[j].dest)] \in {Result(k), Copy(k)}

\* swapLanded, by identity: the destination is one file with a source that is
\* still there, or has the size of one when none is.
Landed(j) ==
  LET found == fs[Lib(job[j].dest)]
      sources == {fs[New(j)], fs[Staged(j)]} \ {Nothing} IN
  /\ found # Nothing
  /\ IF sources = {} THEN found \in {Result(j), Copy(j)} ELSE found \in sources

\* ... and the file system is asked whether it happened all the same.
Judge(j) ==
  /\ job[j].phase = "judging"
  /\ \/ /\ Landed(j)
        /\ job' = [job EXCEPT ![j].phase = "closing",
                              ![j].out = IF Linked(Lib(job[j].dest)) THEN "linked" ELSE "replaced"]
     \/ ~ Landed(j) /\ GoMove(j, "restore")
  /\ UNCHANGED <<fs, links, reserved, notes, row, rec, unguarded, faults>>

\* endNote, once the outcome is settled.
EndNote(j) ==
  /\ job[j].phase = "closing"
  /\ notes' = notes \ {j}
  /\ Go(j, "reporting")
  /\ UNCHANGED <<fs, links, reserved, row, rec, unguarded, faults>>

\* Mutant: the row is written without a look at the path.
ReportUnseen(j) ==
  LET p == IF job[j].out \in {"replaced", "linked"} THEN job[j].dest ELSE job[j].orig IN
  /\ job[j].phase = "reporting"
  /\ End(j)
  /\ fs' = [fs EXCEPT ![New(j)] = Nothing]
  /\ row' = [row EXCEPT ![FileOf[j]] = [path |-> p, inode |-> fs[Lib(p)]]]
  /\ UNCHANGED <<links, reserved, notes, rec, unguarded, faults>>

\* The run reports the path its file is at, and the row follows what is found
\* there, unless another row has it.  The scratch directory is removed.
Report(j) ==
  LET p == IF job[j].out \in {"replaced", "linked"} THEN job[j].dest ELSE job[j].orig
      found == fs[Lib(p)] IN
  /\ job[j].phase = "reporting"
  /\ End(j)
  /\ fs' = [fs EXCEPT ![New(j)] = Nothing]
  /\ row' = IF found # Nothing /\ \A f \in Files \ {FileOf[j]} : row[f].inode # found
            THEN [row EXCEPT ![FileOf[j]] = [path |-> p, inode |-> found]] ELSE row
  /\ UNCHANGED <<links, reserved, notes, rec, unguarded, faults>>

-----------------------------------------------------------------------------
(* The environment *)

\* The worker is killed.
Kill(j) ==
  /\ Alive(j) /\ Fault
  /\ job' = [job EXCEPT ![j] = [IdleJob(FileOf[j]) EXCEPT !.phase = "dead", !.staged = job[j].staged]]
  /\ UNCHANGED <<fs, links, reserved, notes, row, rec, unguarded>>

\* The reaper closes its row.
Reap(j) ==
  /\ job[j].phase = "dead"
  /\ End(j)
  /\ UNCHANGED <<fs, links, reserved, notes, row, rec, unguarded, faults>>

\* An importer, or a person, puts a file at a free path.
Arrive(p) ==
  /\ p \in Guests /\ fs[Lib(p)] = Nothing /\ NamesOf(Guest(p)) = {}
  /\ fs' = [fs EXCEPT ![Lib(p)] = Guest(p)]
  /\ UNCHANGED <<links, reserved, notes, row, job, rec, unguarded, faults>>

\* The sweeps: a scratch directory whose job has ended, and working files and
\* reservations in a directory no job owns.
SweepScratch(j) ==
  /\ job[j].phase = "ended" /\ fs[New(j)] # Nothing
  /\ fs' = [fs EXCEPT ![New(j)] = Nothing]
  /\ UNCHANGED <<links, reserved, notes, row, job, rec, unguarded, faults>>

SweepWorking ==
  /\ \A j \in Jobs : ~ Open(j)
  /\ \/ \E j \in Jobs : /\ fs[Staged(j)] # Nothing
                        /\ fs' = [fs EXCEPT ![Staged(j)] = Nothing]
                        /\ UNCHANGED reserved
     \/ \E p \in Paths : /\ reserved[p] # "none"
                         /\ reserved' = [reserved EXCEPT ![p] = "none"]
                         /\ UNCHANGED fs
  /\ UNCHANGED <<links, notes, row, job, rec, unguarded, faults>>

-----------------------------------------------------------------------------
(* recoverInterruptedSwaps *)

Settle(j) == notes' = notes \ {j} /\ rec' = IdleRec
Refuse    == UNCHANGED notes /\ rec' = IdleRec
GoOn(phase) == UNCHANGED notes /\ rec' = [rec EXCEPT !.phase = phase]

\* A note is acted on when its job has ended and nothing works on the file.
Examine(j) ==
  /\ rec.phase = "idle" /\ j \in notes /\ job[j].phase = "ended"
  /\ \A k \in Jobs : FileOf[k] = FileOf[j] => ~ Open(k)
  /\ rec' = [IdleRec EXCEPT !.phase = "looking", !.job = j]
  /\ UNCHANGED <<fs, links, reserved, notes, row, job, unguarded, faults>>

\* A file at the path settles the note; one beside it, or an entry in trash that
\* is not the row's file, leaves it.
Look(j) ==
  LET home == row[FileOf[j]].path
      inode == row[FileOf[j]].inode IN
  /\ rec.phase = "looking" /\ rec.job = j
  /\ \/ fs[Lib(home)] # Nothing /\ Settle(j)
     \/ /\ fs[Lib(home)] = Nothing
        /\ (\E p \in Paths : fs[Lib(p)] # Nothing) \/ fs[Trash(j)] # inode
        /\ Refuse
     \/ /\ \A p \in Paths : fs[Lib(p)] = Nothing
        /\ fs[Trash(j)] = inode
        /\ rec' = [rec EXCEPT !.phase = "linking", !.path = home, !.inode = inode]
        /\ UNCHANGED notes
  /\ UNCHANGED <<fs, links, reserved, row, job, unguarded, faults>>

\* Mutant: there is no way back without links.
LinkBackOnly(j) ==
  LET home == Lib(rec.path) IN
  /\ rec.phase = "linking" /\ rec.job = j
  /\ \/ /\ CanLink(rec.inode) /\ fs[Trash(j)] = rec.inode /\ fs[home] = Nothing
        /\ fs' = [fs EXCEPT ![home] = rec.inode] /\ GoOn("verifying") /\ NoFault
     \/ fs[Trash(j)] = rec.inode /\ fs[home] # Nothing /\ Settle(j) /\ UNCHANGED fs /\ NoFault
     \/ Refuse /\ UNCHANGED fs /\ NoFault
  /\ UNCHANGED <<links, reserved, row, job, unguarded>>

\* The entry is examined again and linked back; where there are no links, a look
\* at the path comes before a rename, and no reservation is taken.
LinkBack(j) ==
  LET home == Lib(rec.path) IN
  /\ rec.phase = "linking" /\ rec.job = j
  /\ \/ /\ fs[Trash(j)] = rec.inode /\ fs[home] = Nothing
        /\ IF CanLink(rec.inode) THEN fs' = [fs EXCEPT ![home] = rec.inode] /\ GoOn("verifying")
                                   ELSE UNCHANGED fs /\ GoOn("renaming")
        /\ NoFault
     \/ fs[Trash(j)] = rec.inode /\ fs[home] # Nothing /\ Settle(j) /\ UNCHANGED fs /\ NoFault
     \/ /\ Refuse /\ UNCHANGED fs
        /\ (fs[Trash(j)] # rec.inode /\ NoFault) \/ Fault
  /\ UNCHANGED <<links, reserved, row, job, unguarded>>

RenameBack(j) ==
  /\ rec.phase = "renaming" /\ rec.job = j
  /\ \/ /\ fs[Trash(j)] # Nothing
        /\ fs' = [fs EXCEPT ![Lib(rec.path)] = fs[Trash(j)], ![Trash(j)] = Nothing]
        /\ unguarded' = TRUE
        /\ GoOn("verifying") /\ NoFault
     \/ /\ Refuse /\ UNCHANGED <<fs, unguarded>>
        /\ (fs[Trash(j)] = Nothing /\ NoFault) \/ Fault
  /\ UNCHANGED <<links, reserved, row, job>>

\* The new name is looked at; then the one in trash, if it can be removed, and the
\* note go.
Verify(j) ==
  /\ rec.phase = "verifying" /\ rec.job = j
  /\ \/ /\ fs[Lib(rec.path)] = rec.inode
        /\ \/ fs' = [fs EXCEPT ![Trash(j)] = Nothing] /\ Settle(j) /\ NoFault
           \/ UNCHANGED fs /\ Settle(j) /\ Fault
     \/ fs[Lib(rec.path)] # rec.inode /\ Refuse /\ UNCHANGED fs /\ NoFault
  /\ UNCHANGED <<links, reserved, row, job, unguarded>>

\* The daemon dies with what it remembers of the note; the next one starts over.
DaemonCrash ==
  /\ rec.phase # "idle" /\ Fault
  /\ rec' = IdleRec
  /\ UNCHANGED <<fs, links, reserved, notes, row, job, unguarded>>

-----------------------------------------------------------------------------

Worker(j) ==
  \/ Check(j) \/ Stage(j) \/ Copied(j) \/ BeginNote(j)
  \/ Link(j) \/ DropOld(j) \/ Undo(j) \/ Reserve(j) \/ LookFirst(j) \/ Rename(j)
  \/ GiveUp(j) \/ Discard(j) \/ Unscratch(j) \/ BackOut(j) \/ Spoil(j) \/ Judge(j)
  \/ EndNote(j) \/ Report(j)

Recover(j) == Look(j) \/ LinkBack(j) \/ RenameBack(j) \/ Verify(j)

Next ==
  \/ \E j \in Jobs : \/ Start(j) \/ Worker(j) \/ Kill(j) \/ Reap(j)
                     \/ SweepScratch(j) \/ Examine(j) \/ Recover(j)
  \/ \E p \in Paths : Arrive(p)
  \/ SweepWorking
  \/ DaemonCrash

Spec == Init /\ [][Next]_vars

\* While workers run one of them goes on, the reaper comes to the dead, and the
\* pass over the notes to every note, again and again.
Fairness ==
  /\ WF_vars(\E j \in Jobs : Worker(j) \/ Reap(j))
  /\ WF_vars(\E j \in Jobs : Recover(j))
  /\ \A j \in Jobs \ Noteless : SF_vars(Examine(j))

FairSpec == Spec /\ Fairness

-----------------------------------------------------------------------------
(* What is claimed *)

TypeOK ==
  /\ fs \in [Names -> Contents \cup {Nothing}]
  /\ links \in {"all", "own", "none"}
  /\ reserved \in [Paths -> Jobs \cup {"none"}]
  /\ notes \subseteq Jobs
  /\ row \in [Files -> [path : Paths, inode : Contents]]
  /\ job \in [Jobs -> Job]
  /\ rec \in Recovery
  /\ unguarded \in BOOLEAN
  /\ faults \in 0..MaxFaults

\* A killed copy never is a library file: whatever is at a path of the library is
\* whole, and so is whatever was moved to trash.
LibraryFilesAreWhole ==
  \A n \in LibNames \cup {Trash(j) : j \in Jobs} : \A k \in Jobs : fs[n] # Partial(k)

\* Each original, and the product of its own runs that its row has recorded since,
\* keeps a name in the library or in trash whatever fails and whoever dies.  The
\* exception is named: a rename into the library that no reservation guards.
Kept(c) == \E n \in LibNames \cup {Trash(j) : j \in Jobs} : fs[n] = c

Products(f) == UNION {{Result(j), Copy(j)} : j \in {k \in Jobs : FileOf[k] = f}}

OriginalsAreKept ==
  ~ unguarded => \A f \in Files : /\ Kept(Original(f))
                                  /\ row[f].inode \in Products(f) => Kept(row[f].inode)

\* No step puts a file where another one is: workers of two files that compute
\* one destination, a restore into a path taken meanwhile.  What a rename may meet
\* is a file from outside that came after the look, and where only own files can be
\* linked, or the recovery renames, also what those do beside a reservation.
NothingIsOverwritten ==
  [][\A p \in Paths :
       fs[Lib(p)] # Nothing /\ fs'[Lib(p)] # fs[Lib(p)]
       => \/ fs'[Lib(p)] = Nothing
          \/ unguarded'
          \/ links # "all" /\ fs[Lib(p)] = Guest(p)]_vars

\* A worker that dies between the two moves, or cannot restore what it moved,
\* leaves a note, if it had staged the result and its host can keep one: the path
\* its row names is empty and its file is in trash.
Stranded(j) ==
  /\ fs[Lib(row[FileOf[j]].path)] = Nothing
  /\ fs[Trash(j)] = row[FileOf[j]].inode
  /\ \A p \in Paths : fs[Lib(p)] # row[FileOf[j]].inode
  /\ ~ Kept(Result(j)) /\ ~ Kept(Copy(j))

GapsAreNoted ==
  ~ unguarded =>
    \A j \in Jobs : (job[j].phase = "dead" \/ (job[j].phase = "reporting" /\ job[j].out = "urgent"))
                   /\ Stranded(j)
                   => j \in notes \/ j \in Noteless \/ job[j].staged = "none"

\* A run says "replaced" only when its result has left every working name and is in
\* the library at the path it reports, or in trash, where the next run of a file
\* that claims the same path may already have moved it.
ReplacedIsInstalled ==
  [][\A j \in Jobs : job'[j].out = "replaced" /\ job[j].out # "replaced" /\ ~ unguarded
       => \E c \in {Result(j), Copy(j)} :
            /\ Kept(c)'
            /\ \A n \in LibNames \cup {New(j), Staged(j)} : fs'[n] = c => n = Lib(job[j].dest)]_vars

\* What a note is for: in the end no original of an interrupted swap is missing from
\* its path, unless a file is there or beside it.
GapsClose ==
  <>[](\A j \in Jobs : j \in notes /\ Stranded(j) => \E p \in Paths : fs[Lib(p)] # Nothing)

\* What createExclusively says of a move without links: no worker can be between its
\* look and its rename.  One that can link its result takes no reservation.
DestinationsAreExclusive ==
  [][\A p \in Paths :
       fs[Lib(p)] # Nothing /\ fs'[Lib(p)] # fs[Lib(p)] => fs'[Lib(p)] = Nothing]_vars
=============================================================================
