------------------------ MODULE MCReplacement_proofs ------------------------
(***************************************************************************)
(* What the swaps do to the files of a library, for any number of jobs, of *)
(* files and of paths, and any number of faults (Replacement).             *)
(*                                                                         *)
(* WholeInv is inductive as it stands; KeptInv needs it and AloneAtItsPath.*)
(***************************************************************************)
EXTENDS MCReplacement, TLAPS

-----------------------------------------------------------------------------
(* The condition *)

\* The worker has linked the new name of its file and not yet dropped the old one, or may
\* still have to take the new one back.
HalfMade(j) ==
  \/ job[j].phase \in {"dropping", "undoing", "backing"}
  \/ job[j].phase = "unscratching" /\ job[j].staged = "link"

\* No two workers are half-way at one path: unlink(2) names a path, and what it removes is
\* whatever has come to be there.  TLC finds it an invariant of the instance of the run.
AloneAtItsPath ==
  ~ unguarded =>
    \A j, k \in Jobs :
      /\ j # k /\ HalfMade(j)
      /\ HalfMade(k) \/ (job[k].phase = "renaming" /\ job[k].move = "trash")
      => Goal(j) # Goal(k)

-----------------------------------------------------------------------------
(* The parts of the invariant *)

ProductsOf(j) == {Result(j), Copy(j)}

\* The names of a job hold what it made, and a copy in the making is at the staged name of
\* a worker that copies, or gave the copy up.
Scratch(j) ==
  /\ fs[New(j)] \in {Nothing, Result(j)}
  /\ job[j].phase \in {"checking", "staging"} => fs[New(j)] = Result(j)
  /\ fs[Staged(j)] \in {Nothing, Result(j), Copy(j), Partial(j)}
  /\ fs[Staged(j)] = Partial(j)
       => job[j].phase \in {"copying", "discarding", "reporting", "dead", "ended"}
  /\ job[j].staged = "link" => fs[Staged(j)] \in {Nothing, Result(j)}
OwnFiles == \A j \in Jobs : Scratch(j)

\* Nothing is the product of a job that has not begun.
Made == \A j \in Jobs : \A n \in Names : fs[n] \in ProductsOf(j) => job[j].phase # "idle"

OneOpen == \A j, k \in Jobs : j # k /\ FileOf[j] = FileOf[k] => ~ (Open(j) /\ Open(k))

\* Which way a worker came: by links where there are some, by a rename where not.
Course(j) ==
  /\ job[j].phase \in {"looking", "renaming"} => links # "all"
  /\ job[j].staged = "link" => links # "none"
  /\ job[j].phase \in {"dropping", "undoing", "backing"} => links # "none"
  /\ job[j].phase \in {"unscratching", "backing"} => job[j].move = "install"
  /\ job[j].phase = "backing" => job[j].staged = "link"
  /\ job[j].phase = "copying" => job[j].staged = "copy"
  /\ job[j].phase = "looking" => job[j].move # "trash"
  /\ job[j].phase \in {"moving", "looking", "renaming", "dropping", "undoing"} => job[j].move # "none"
Courses == \A j \in Jobs : Course(j)

\* Who looks at a path before a rename, and who then renames, has reserved it ...
Reserving ==
  \A j \in Jobs : job[j].phase \in {"looking", "renaming"} /\ job[j].move # "trash"
                  => reserved[Goal(j)] = j

\* ... so that only a file from outside can be at the path when the rename comes.
Clear ==
  links = "none" /\ ~ unguarded =>
    \A j \in Jobs : job[j].phase = "renaming" /\ job[j].move # "trash"
                    => fs[Lib(Goal(j))] \in {Nothing, Guest(Goal(j))}

\* The recovery works on the note of a job that has ended, and on the file in its trash.
Recovering ==
  /\ rec.phase # "idle" => rec.job \in Jobs /\ job[rec.job].phase = "ended"
  /\ rec.phase \in {"linking", "renaming", "verifying"} => rec.path \in Paths
Verifying  == rec.phase = "verifying" /\ ~ unguarded => fs[Trash(rec.job)] \in {Nothing, rec.inode}

\* A job that has moved nothing yet has nothing in trash.
Before(j) ==
  \/ job[j].phase \in {"idle", "checking", "staging", "copying", "noting"}
  \/ job[j].phase \in {"moving", "renaming"} /\ job[j].move = "trash"
TrashIsFree == \A j \in Jobs : Before(j) => fs[Trash(j)] = Nothing

\* Both names of a half-made move are those of one file.
Half(j) ==
  /\ job[j].phase \in {"dropping", "undoing"} => fs[To(j)] = fs[From(j)] /\ fs[To(j)] # Nothing
  /\ job[j].phase \in {"unscratching", "backing"} /\ job[j].staged = "link"
       => fs[Lib(job[j].dest)] = Result(j)
HalfMoves == ~ unguarded => \A j \in Jobs : Half(j)

\* A row records the product of a run that has ended.
RowsAreRuns == \A j \in Jobs : row[FileOf[j]].inode \in ProductsOf(j) => job[j].phase = "ended"

\* No row, and no recovery, knows the product of a job that has not begun.
Unknown(j) == rec.inode \notin ProductsOf(j) /\ \A f \in Files : row[f].inode \notin ProductsOf(j)
KnownAreMade == \A j \in Jobs : job[j].phase = "idle" => Unknown(j)

\* While its worker lives, a product is at the one path of the library its run computed; in
\* the trash of a run that lives it came from there, and a row, or the recovery, that has it
\* has that path.
Rests(j) ==
  /\ \A p \in Paths : fs[Lib(p)] \in ProductsOf(j) => p = job[j].dest
  /\ \A k \in Jobs : Alive(k) /\ fs[Trash(k)] \in ProductsOf(j) => job[k].orig = job[j].dest
  /\ \A f \in Files : row[f].inode \in ProductsOf(j) => row[f].path = job[j].dest
  /\ rec.inode \in ProductsOf(j) => rec.path = job[j].dest
ProductsRest == ~ unguarded => \A j \in Jobs : Alive(j) => Rests(j)

\* What is at the staged name, by the way the result was staged.
StagedEnd(j) ==
  /\ Alive(j) /\ job[j].staged = "none" => fs[Staged(j)] = Nothing
  /\ Alive(j) /\ job[j].staged = "copy" => fs[Staged(j)] # Result(j)
  /\ job[j].phase = "unscratching" => job[j].staged # "none" /\ fs[Staged(j)] = Nothing
StagedEnds == \A j \in Jobs : StagedEnd(j)

\* A copy that has been installed keeps a name; another run may have moved it to trash.
CopiesStay ==
  ~ unguarded =>
    \A j \in Jobs : job[j].phase = "unscratching" /\ job[j].staged = "copy" => Kept(Copy(j))

-----------------------------------------------------------------------------

(* Names, files and places *)

LEMMA NameFacts ==
  /\ \A p \in Paths : Lib(p) \in Names /\ Lib(p) \in LibNames
  /\ \A j \in Jobs : New(j) \in Names /\ Staged(j) \in Names /\ Trash(j) \in Names
  /\ \A n \in LibNames : n \in Names /\ \E p \in Paths : n = Lib(p)
  /\ \A p, q : Lib(p) = Lib(q) => p = q
  /\ \A j, k : New(j) = New(k) \/ Staged(j) = Staged(k) \/ Trash(j) = Trash(k) => j = k
  /\ \A p, j : Lib(p) # New(j) /\ Lib(p) # Staged(j) /\ Lib(p) # Trash(j)
  /\ \A j, k : New(j) # Staged(k) /\ New(j) # Trash(k) /\ Staged(j) # Trash(k)
BY DEF Names, LibNames, JobNames, Lib, New, Staged, Trash

LEMMA ContentFacts ==
  /\ \A f, j : Original(f) \notin {Nothing, Result(j), Copy(j), Partial(j), Guest(j)}
  /\ \A p, j : Guest(p) \notin {Nothing, Result(j), Copy(j), Partial(j)}
  /\ \A j, k : Partial(j) \notin {Nothing, Result(k), Copy(k)}
  /\ \A j, k : Result(j) # Copy(k) /\ Result(j) # Nothing /\ Copy(j) # Nothing
  /\ \A j, k : Result(j) = Result(k) \/ Copy(j) = Copy(k) \/ Partial(j) = Partial(k) => j = k
  /\ \A j \in Jobs : Result(j) \in Contents /\ Copy(j) \in Contents /\ Partial(j) \in Contents
  /\ \A p \in Paths : Guest(p) \in Contents
  /\ \A f \in Files : Original(f) \in Contents
BY DEF Original, Guest, Nothing, Result, Copy, Partial, Contents

LEMMA PlaceFacts ==
  ASSUME TypeOK, NEW j \in Jobs
  PROVE  /\ From(j) \in Names /\ To(j) \in Names /\ Goal(j) \in Paths
         /\ job[j].orig \in Paths /\ job[j].dest \in Paths
         /\ job[j].move # "none" => From(j) # To(j)
         /\ row[FileOf[j]].path \in Paths
<1>1. job[j] \in Job
  BY DEF TypeOK
<1>2. job[j].orig \in Paths /\ job[j].dest \in Paths
  BY <1>1 DEF Job
<1>3. Goal(j) \in Paths
  BY <1>2 DEF Goal
<1>4. From(j) \in Names /\ To(j) \in Names /\ (job[j].move # "none" => From(j) # To(j))
  <2>1. CASE job[j].move = "install"
    BY <2>1, <1>2, <1>3, NameFacts DEF From, To
  <2>2. CASE job[j].move = "restore"
    BY <2>2, <1>2, <1>3, NameFacts DEF From, To
  <2>3. CASE job[j].move = "trash"
    BY <2>3, <1>2, <1>3, NameFacts DEF From, To
  <2>4. CASE job[j].move = "none"
    BY <2>4, <1>2, <1>3, NameFacts DEF From, To
  <2> QED BY <2>1, <2>2, <2>3, <2>4, <1>1 DEF Job
<1>5. row[FileOf[j]].path \in Paths
  <2>1. row[FileOf[j]] \in [path : Paths, inode : Contents]
    BY ReplacementAssumption DEF TypeOK
  <2>2. \A r \in [path : Paths, inode : Contents] : r.path \in Paths
    OBVIOUS
  <2> QED BY <2>1, <2>2
<1> QED BY <1>2, <1>3, <1>4, <1>5

-----------------------------------------------------------------------------

(* How the record of a worker changes *)

Step(j, phase, move, staged, out) ==
  /\ job' \in [Jobs -> Job] /\ \A k \in Jobs : k # j => job'[k] = job[k]
  /\ job'[j].phase = phase /\ job'[j].move = move /\ job'[j].staged = staged
  /\ job'[j].out = out /\ job'[j].orig = job[j].orig /\ job'[j].dest = job[j].dest

Goes(j, phase) == Step(j, phase, job[j].move, job[j].staged, job[j].out)
Ends(j, phase, out) == Step(j, phase, job[j].move, job[j].staged, out)
Turns(j, move) == Step(j, "moving", move, job[j].staged, job[j].out)

Fails(j) ==
  \/ job[j].move = "trash" /\ Goes(j, "giving")
  \/ job[j].move = "restore" /\ Ends(j, "reporting", "urgent")
  \/ job[j].move \notin {"trash", "restore"} /\ job[j].staged = "none" /\ Goes(j, "judging")
  \/ job[j].move \notin {"trash", "restore"} /\ job[j].staged # "none" /\ Goes(j, "spoiled")

Succeeds(j) ==
  \/ job[j].move = "trash" /\ Turns(j, "install")
  \/ job[j].move = "restore" /\ Ends(j, "closing", "original")
  \/ job[j].move \notin {"trash", "restore"} /\ job[j].staged = "none" /\ Ends(j, "closing", "replaced")
  \/ job[j].move \notin {"trash", "restore"} /\ job[j].staged # "none" /\ Goes(j, "unscratching")

Leaves(j, phase) ==
  /\ job' \in [Jobs -> Job] /\ \A k \in Jobs : k # j => job'[k] = job[k]
  /\ job'[j].phase = phase /\ job'[j].move = "none" /\ job'[j].out = "none"
  /\ job'[j].staged \in {"none", job[j].staged}

Moves == {"trash", "install", "restore"}
Halts == {"closing", "reporting"}

LEMMA GoStep ==
  ASSUME TypeOK, NEW j \in Jobs, NEW x \in Phases, Go(j, x)
  PROVE  Goes(j, x)
BY DEF TypeOK, Go, Job, Goes, Step

\* A worker whose record becomes another takes the step that record describes.
LEMMA RecordStep ==
  ASSUME TypeOK, NEW j \in Jobs, NEW r \in Job, job' = [job EXCEPT ![j] = r]
  PROVE  /\ job' \in [Jobs -> Job] /\ \A k \in Jobs : k # j => job'[k] = job[k]
         /\ job'[j] = r
<1>1. job \in [Jobs -> Job]
  BY DEF TypeOK
<1> HIDE DEF Job
<1> QED BY <1>1

LEMMA GoMoveStep ==
  ASSUME TypeOK, NEW j \in Jobs, NEW m \in Moves, GoMove(j, m)
  PROVE  Turns(j, m)
<1> DEFINE r == [job[j] EXCEPT !.phase = "moving", !.move = m]
<1>1. job[j] \in Job
  BY DEF TypeOK
<1>2. r \in Job
  BY <1>1 DEF Job, Moves, Phases
<1>3. /\ r.phase = "moving" /\ r.move = m /\ r.staged = job[j].staged /\ r.out = job[j].out
      /\ r.orig = job[j].orig /\ r.dest = job[j].dest
  BY <1>1 DEF Job
<1>4. job' = [job EXCEPT ![j] = r]
  BY Zenon DEF GoMove
<1> HIDE DEF r
<1> QED BY <1>2, <1>3, <1>4, RecordStep DEF Turns, Step

LEMMA OutStep ==
  ASSUME TypeOK, NEW j \in Jobs, NEW x \in Halts, NEW o \in Outs,
         job' = [job EXCEPT ![j].phase = x, ![j].out = o]
  PROVE  Ends(j, x, o)
<1> DEFINE r == [job[j] EXCEPT !.phase = x, !.out = o]
<1>1. job[j] \in Job
  BY DEF TypeOK
<1>2. r \in Job
  BY <1>1 DEF Job, Halts, Phases
<1>3. /\ r.phase = x /\ r.move = job[j].move /\ r.staged = job[j].staged /\ r.out = o
      /\ r.orig = job[j].orig /\ r.dest = job[j].dest
  BY <1>1 DEF Job
<1>4. job' = [job EXCEPT ![j] = r]
  BY Zenon
<1> HIDE DEF r
<1> QED BY <1>2, <1>3, <1>4, RecordStep DEF Ends, Step

LEMMA NotMovedStep ==
  ASSUME TypeOK, NEW j \in Jobs, NotMoved(j)
  PROVE  Fails(j)
<1>1. CASE job[j].move = "trash"
  <2>1. Go(j, "giving")
    BY <1>1 DEF NotMoved
  <2> QED BY <2>1, <1>1, GoStep DEF Fails, Phases
<1>2. CASE job[j].move = "restore"
  <2>1. job' = [job EXCEPT ![j].phase = "reporting", ![j].out = "urgent"]
    BY <1>2 DEF NotMoved
  <2> QED BY <2>1, <1>2, OutStep DEF Fails, Halts, Outs
<1>3. CASE job[j].move \notin {"trash", "restore"}
  <2>1. Go(j, IF job[j].staged = "none" THEN "judging" ELSE "spoiled")
    BY <1>3 DEF NotMoved
  <2>2. CASE job[j].staged = "none"
    BY <2>1, <2>2, <1>3, GoStep DEF Fails, Phases
  <2>3. CASE job[j].staged # "none"
    BY <2>1, <2>3, <1>3, GoStep DEF Fails, Phases
  <2> QED BY <2>2, <2>3
<1> QED BY <1>1, <1>2, <1>3

LEMMA MovedStep ==
  ASSUME TypeOK, NEW j \in Jobs, Moved(j)
  PROVE  Succeeds(j)
<1>1. CASE job[j].move = "trash"
  <2>1. GoMove(j, "install")
    BY <1>1 DEF Moved
  <2> QED BY <2>1, <1>1, GoMoveStep DEF Succeeds, Moves
<1>2. CASE job[j].move = "restore"
  <2>1. job' = [job EXCEPT ![j].phase = "closing", ![j].out = "original"]
    BY <1>2 DEF Moved
  <2> QED BY <2>1, <1>2, OutStep DEF Succeeds, Halts, Outs
<1>3. CASE job[j].move \notin {"trash", "restore"}
  <2>1. IF job[j].staged = "none"
        THEN job' = [job EXCEPT ![j].phase = "closing", ![j].out = "replaced"]
        ELSE Go(j, "unscratching")
    BY <1>3 DEF Moved
  <2>2. CASE job[j].staged = "none"
    BY <2>1, <2>2, <1>3, OutStep DEF Succeeds, Halts, Outs
  <2>3. CASE job[j].staged # "none"
    BY <2>1, <2>3, <1>3, GoStep DEF Succeeds, Phases
  <2> QED BY <2>2, <2>3
<1> QED BY <1>1, <1>2, <1>3

LEMMA StartStep ==
  ASSUME TypeOK, NEW j \in Jobs, Start(j)
  PROVE  /\ job' \in [Jobs -> Job] /\ \A k \in Jobs : k # j => job'[k] = job[k]
         /\ job'[j].phase = "checking" /\ job'[j].move = job[j].move
         /\ job'[j].staged = job[j].staged /\ job'[j].out = job[j].out
<1> DEFINE R(p) == [job[j] EXCEPT !.phase = "checking", !.orig = row[FileOf[j]].path, !.dest = p]
<1>1. PICK p \in Containers :
        job' = [job EXCEPT ![j].phase = "checking", ![j].orig = row[FileOf[j]].path, ![j].dest = p]
  BY DEF Start
<1>2. row[FileOf[j]].path \in Paths /\ p \in Paths
  BY PlaceFacts, ReplacementAssumption
<1>3. job' = [job EXCEPT ![j] = R(p)]
  BY <1>1, Zenon
<1>4. job[j] \in Job
  BY DEF TypeOK
<1>5. R(p) \in Job
  BY <1>2, <1>4 DEF Job, Phases
<1>6. /\ R(p).phase = "checking" /\ R(p).move = job[j].move
      /\ R(p).staged = job[j].staged /\ R(p).out = job[j].out
  BY <1>4 DEF Job
<1> HIDE DEF R
<1> QED BY <1>3, <1>5, <1>6, RecordStep

LEMMA StageDoes ==
  ASSUME TypeOK, NEW j \in Jobs, Stage(j)
  PROVE  /\ job[j].phase = "staging"
         /\ \/ /\ Step(j, "copying", job[j].move, "copy", job[j].out)
               /\ fs' = [fs EXCEPT ![Staged(j)] = Partial(j)]
            \/ /\ Step(j, "noting", job[j].move, "link", job[j].out) /\ CanLink(fs[New(j)])
               /\ fs' = [fs EXCEPT ![Staged(j)] = fs[New(j)]]
            \/ Turns(j, "trash") /\ fs' = fs
<1>1. ASSUME NEW x \in {"copying", "noting"}, NEW s \in {"copy", "link"},
             job' = [job EXCEPT ![j].phase = x, ![j].staged = s]
      PROVE  Step(j, x, job[j].move, s, job[j].out)
  <2> DEFINE r == [job[j] EXCEPT !.phase = x, !.staged = s]
  <2>1. job[j] \in Job
    BY DEF TypeOK
  <2>2. r \in Job
    BY <2>1 DEF Job, Phases
  <2>3. /\ r.phase = x /\ r.move = job[j].move /\ r.staged = s /\ r.out = job[j].out
        /\ r.orig = job[j].orig /\ r.dest = job[j].dest
    BY <2>1 DEF Job
  <2>4. job' = [job EXCEPT ![j] = r]
    BY <1>1, Zenon
  <2> HIDE DEF r
  <2> QED BY <2>2, <2>3, <2>4, RecordStep DEF Step
<1>2. GoMove(j, "trash") => Turns(j, "trash")
  BY GoMoveStep DEF Moves
<1> QED BY <1>1, <1>2 DEF Stage

LEMMA IdleRecord ==
  ASSUME NEW f, NEW x, NEW s
  PROVE  [IdleJob(f) EXCEPT !.phase = x, !.staged = s]
         = [phase |-> x, move |-> "none", orig |-> f, dest |-> f, staged |-> s, out |-> "none"]
<1> DEFINE A == [IdleJob(f) EXCEPT !.phase = x]
<1> DEFINE B == [A EXCEPT !.staged = s]
<1>1. A = [phase |-> x, move |-> "none", orig |-> f, dest |-> f, staged |-> "none", out |-> "none"]
  BY DEF IdleJob
<1>2. B = [phase |-> x, move |-> "none", orig |-> f, dest |-> f, staged |-> s, out |-> "none"]
  <2> HIDE DEF A
  <2> QED BY <1>1
<1>3. [IdleJob(f) EXCEPT !.phase = x, !.staged = s] = B
  BY Zenon
<1> QED BY <1>2, <1>3

LEMMA LeaveStep ==
  ASSUME TypeOK, NEW j \in Jobs
  PROVE  /\ End(j) => Leaves(j, "ended")
         /\ Kill(j) => Leaves(j, "dead")
<1> DEFINE R(x, s) == [phase |-> x, move |-> "none", orig |-> FileOf[j], dest |-> FileOf[j],
                       staged |-> s, out |-> "none"]
<1>1. job[j] \in Job /\ FileOf[j] \in Paths
  BY ReplacementAssumption DEF TypeOK
<1>2. ASSUME NEW x \in Phases, NEW s \in {"none", job[j].staged}, job' = [job EXCEPT ![j] = R(x, s)]
      PROVE  Leaves(j, x)
  <2>1. R(x, s) \in Job
    BY <1>1 DEF Job, Outs
  <2> QED BY <1>2, <2>1 DEF Leaves, TypeOK
<1>3. ASSUME End(j) PROVE Leaves(j, "ended")
  <2>1. [IdleJob(FileOf[j]) EXCEPT !.phase = "ended"] = R("ended", "none")
    BY DEF IdleJob
  <2>2. job' = [job EXCEPT ![j] = R("ended", "none")]
    BY <1>3, <2>1 DEF End
  <2> QED BY <1>2, <2>2 DEF Phases
<1>4. ASSUME Kill(j) PROVE Leaves(j, "dead")
  <2>1. [IdleJob(FileOf[j]) EXCEPT !.phase = "dead", !.staged = job[j].staged] = R("dead", job[j].staged)
    BY IdleRecord
  <2>2. job' = [job EXCEPT ![j] = R("dead", job[j].staged)]
    BY <1>4, <2>1 DEF Kill
  <2> QED BY <1>2, <2>2 DEF Phases
<1> QED BY <1>3, <1>4

LEMMA Types ==
  ASSUME TypeOK, [Next]_vars
  PROVE  TypeOK'
<1>1. ASSUME NEW j \in Jobs, Start(j) PROVE TypeOK'
  <2>1. fs' \in [Names -> Contents \cup {Nothing}]
    BY <1>1, NameFacts, ContentFacts, PlaceFacts DEF Start, TypeOK
  <2>2. job' \in [Jobs -> Job]
    BY <1>1, StartStep DEF Start, TypeOK
  <2>3. reserved' \in [Paths -> Jobs \cup {"none"}]
    BY <1>1, PlaceFacts DEF Start, TypeOK
  <2>4. row' \in [Files -> [path : Paths, inode : Contents]]
    BY <1>1, NameFacts, ReplacementAssumption, PlaceFacts DEF Start, TypeOK, Nothing
  <2>5. rec' \in Recovery
    BY <1>1, PlaceFacts DEF Start, TypeOK, Recovery
  <2>6. notes' \subseteq Jobs /\ links' \in {"all", "own", "none"} /\ unguarded' \in BOOLEAN
    BY <1>1 DEF Start, TypeOK, Settle, Refuse, GoOn
  <2>7. faults' \in 0..MaxFaults
    BY <1>1, ReplacementAssumption DEF Start, TypeOK, Fault, NoFault
  <2> QED BY <2>1, <2>2, <2>3, <2>4, <2>5, <2>6, <2>7 DEF TypeOK
<1>2. ASSUME NEW j \in Jobs, Check(j) PROVE TypeOK'
  <2>1. fs' \in [Names -> Contents \cup {Nothing}]
    BY <1>2, NameFacts, ContentFacts, PlaceFacts DEF Check, TypeOK
  <2>2. job' \in [Jobs -> Job]
    BY <1>2, GoStep, OutStep DEF Check, Goes, Step, Phases, Ends, Halts, Outs, TypeOK
  <2>3. reserved' \in [Paths -> Jobs \cup {"none"}]
    BY <1>2, PlaceFacts DEF Check, TypeOK
  <2>4. row' \in [Files -> [path : Paths, inode : Contents]]
    BY <1>2, NameFacts, ReplacementAssumption, PlaceFacts DEF Check, TypeOK, Nothing
  <2>5. rec' \in Recovery
    BY <1>2, PlaceFacts DEF Check, TypeOK, Recovery
  <2>6. notes' \subseteq Jobs /\ links' \in {"all", "own", "none"} /\ unguarded' \in BOOLEAN
    BY <1>2 DEF Check, TypeOK, Settle, Refuse, GoOn
  <2>7. faults' \in 0..MaxFaults
    BY <1>2, ReplacementAssumption DEF Check, TypeOK, Fault, NoFault
  <2> QED BY <2>1, <2>2, <2>3, <2>4, <2>5, <2>6, <2>7 DEF TypeOK
<1>3. ASSUME NEW j \in Jobs, Stage(j) PROVE TypeOK'
  <2>1. fs' \in [Names -> Contents \cup {Nothing}]
    <3>1. New(j) \in Names /\ Staged(j) \in Names /\ fs[New(j)] \in Contents \cup {Nothing}
      BY NameFacts DEF TypeOK
    <3>2. fs' = fs \/ fs' = [fs EXCEPT ![Staged(j)] = Partial(j)]
            \/ fs' = [fs EXCEPT ![Staged(j)] = fs[New(j)]]
      BY <1>3 DEF Stage
    <3> QED BY <3>1, <3>2, ContentFacts DEF TypeOK
  <2>2. job' \in [Jobs -> Job]
    BY <1>3, StageDoes DEF Stage, Step, Turns, TypeOK
  <2>3. reserved' \in [Paths -> Jobs \cup {"none"}]
    BY <1>3, PlaceFacts DEF Stage, TypeOK
  <2>4. row' \in [Files -> [path : Paths, inode : Contents]]
    BY <1>3, NameFacts, ReplacementAssumption, PlaceFacts DEF Stage, TypeOK, Nothing
  <2>5. rec' \in Recovery
    BY <1>3, PlaceFacts DEF Stage, TypeOK, Recovery
  <2>6. notes' \subseteq Jobs /\ links' \in {"all", "own", "none"} /\ unguarded' \in BOOLEAN
    BY <1>3 DEF Stage, TypeOK, Settle, Refuse, GoOn
  <2>7. faults' \in 0..MaxFaults
    BY <1>3, ReplacementAssumption DEF Stage, TypeOK, Fault, NoFault
  <2> QED BY <2>1, <2>2, <2>3, <2>4, <2>5, <2>6, <2>7 DEF TypeOK
<1>4. ASSUME NEW j \in Jobs, Copied(j) PROVE TypeOK'
  <2>1. fs' \in [Names -> Contents \cup {Nothing}]
    BY <1>4, NameFacts, ContentFacts, PlaceFacts DEF Copied, TypeOK
  <2>2. job' \in [Jobs -> Job]
    BY <1>4, GoStep DEF Copied, Goes, Step, Phases, TypeOK
  <2>3. reserved' \in [Paths -> Jobs \cup {"none"}]
    BY <1>4, PlaceFacts DEF Copied, TypeOK
  <2>4. row' \in [Files -> [path : Paths, inode : Contents]]
    BY <1>4, NameFacts, ReplacementAssumption, PlaceFacts DEF Copied, TypeOK, Nothing
  <2>5. rec' \in Recovery
    BY <1>4, PlaceFacts DEF Copied, TypeOK, Recovery
  <2>6. notes' \subseteq Jobs /\ links' \in {"all", "own", "none"} /\ unguarded' \in BOOLEAN
    BY <1>4 DEF Copied, TypeOK, Settle, Refuse, GoOn
  <2>7. faults' \in 0..MaxFaults
    BY <1>4, ReplacementAssumption DEF Copied, TypeOK, Fault, NoFault
  <2> QED BY <2>1, <2>2, <2>3, <2>4, <2>5, <2>6, <2>7 DEF TypeOK
<1>5. ASSUME NEW j \in Jobs, BeginNote(j) PROVE TypeOK'
  <2>1. fs' \in [Names -> Contents \cup {Nothing}]
    BY <1>5, NameFacts, ContentFacts, PlaceFacts DEF BeginNote, TypeOK
  <2>2. job' \in [Jobs -> Job]
    BY <1>5, GoStep, GoMoveStep DEF BeginNote, Goes, Step, Phases, Turns, Moves, TypeOK
  <2>3. reserved' \in [Paths -> Jobs \cup {"none"}]
    BY <1>5, PlaceFacts DEF BeginNote, TypeOK
  <2>4. row' \in [Files -> [path : Paths, inode : Contents]]
    BY <1>5, NameFacts, ReplacementAssumption, PlaceFacts DEF BeginNote, TypeOK, Nothing
  <2>5. rec' \in Recovery
    BY <1>5, PlaceFacts DEF BeginNote, TypeOK, Recovery
  <2>6. notes' \subseteq Jobs /\ links' \in {"all", "own", "none"} /\ unguarded' \in BOOLEAN
    BY <1>5 DEF BeginNote, TypeOK, Settle, Refuse, GoOn
  <2>7. faults' \in 0..MaxFaults
    BY <1>5, ReplacementAssumption DEF BeginNote, TypeOK, Fault, NoFault
  <2> QED BY <2>1, <2>2, <2>3, <2>4, <2>5, <2>6, <2>7 DEF TypeOK
<1>6. ASSUME NEW j \in Jobs, Link(j) PROVE TypeOK'
  <2>1. fs' \in [Names -> Contents \cup {Nothing}]
    BY <1>6, NameFacts, ContentFacts, PlaceFacts DEF Link, TypeOK
  <2>2. job' \in [Jobs -> Job]
    BY <1>6, GoStep, NotMovedStep DEF Link, Goes, Step, Phases, Fails, Ends, TypeOK
  <2>3. reserved' \in [Paths -> Jobs \cup {"none"}]
    BY <1>6, PlaceFacts DEF Link, TypeOK
  <2>4. row' \in [Files -> [path : Paths, inode : Contents]]
    BY <1>6, NameFacts, ReplacementAssumption, PlaceFacts DEF Link, TypeOK, Nothing
  <2>5. rec' \in Recovery
    BY <1>6, PlaceFacts DEF Link, TypeOK, Recovery
  <2>6. notes' \subseteq Jobs /\ links' \in {"all", "own", "none"} /\ unguarded' \in BOOLEAN
    BY <1>6 DEF Link, TypeOK, Settle, Refuse, GoOn
  <2>7. faults' \in 0..MaxFaults
    BY <1>6, ReplacementAssumption DEF Link, TypeOK, Fault, NoFault
  <2> QED BY <2>1, <2>2, <2>3, <2>4, <2>5, <2>6, <2>7 DEF TypeOK
<1>7. ASSUME NEW j \in Jobs, DropOld(j) PROVE TypeOK'
  <2>1. fs' \in [Names -> Contents \cup {Nothing}]
    BY <1>7, NameFacts, ContentFacts, PlaceFacts DEF DropOld, TypeOK
  <2>2. job' \in [Jobs -> Job]
    BY <1>7, GoStep, MovedStep DEF DropOld, Goes, Step, Phases, Succeeds, Ends, Turns, TypeOK
  <2>3. reserved' \in [Paths -> Jobs \cup {"none"}]
    BY <1>7, PlaceFacts DEF DropOld, TypeOK
  <2>4. row' \in [Files -> [path : Paths, inode : Contents]]
    BY <1>7, NameFacts, ReplacementAssumption, PlaceFacts DEF DropOld, TypeOK, Nothing
  <2>5. rec' \in Recovery
    BY <1>7, PlaceFacts DEF DropOld, TypeOK, Recovery
  <2>6. notes' \subseteq Jobs /\ links' \in {"all", "own", "none"} /\ unguarded' \in BOOLEAN
    BY <1>7 DEF DropOld, TypeOK, Settle, Refuse, GoOn
  <2>7. faults' \in 0..MaxFaults
    BY <1>7, ReplacementAssumption DEF DropOld, TypeOK, Fault, NoFault
  <2> QED BY <2>1, <2>2, <2>3, <2>4, <2>5, <2>6, <2>7 DEF TypeOK
<1>8. ASSUME NEW j \in Jobs, Undo(j) PROVE TypeOK'
  <2>1. fs' \in [Names -> Contents \cup {Nothing}]
    BY <1>8, NameFacts, ContentFacts, PlaceFacts DEF Undo, TypeOK
  <2>2. job' \in [Jobs -> Job]
    BY <1>8, NotMovedStep DEF Undo, Fails, Goes, Ends, Step, TypeOK
  <2>3. reserved' \in [Paths -> Jobs \cup {"none"}]
    BY <1>8, PlaceFacts DEF Undo, TypeOK
  <2>4. row' \in [Files -> [path : Paths, inode : Contents]]
    BY <1>8, NameFacts, ReplacementAssumption, PlaceFacts DEF Undo, TypeOK, Nothing
  <2>5. rec' \in Recovery
    BY <1>8, PlaceFacts DEF Undo, TypeOK, Recovery
  <2>6. notes' \subseteq Jobs /\ links' \in {"all", "own", "none"} /\ unguarded' \in BOOLEAN
    BY <1>8 DEF Undo, TypeOK, Settle, Refuse, GoOn
  <2>7. faults' \in 0..MaxFaults
    BY <1>8, ReplacementAssumption DEF Undo, TypeOK, Fault, NoFault
  <2> QED BY <2>1, <2>2, <2>3, <2>4, <2>5, <2>6, <2>7 DEF TypeOK
<1>9. ASSUME NEW j \in Jobs, Reserve(j) PROVE TypeOK'
  <2>1. fs' \in [Names -> Contents \cup {Nothing}]
    BY <1>9, NameFacts, ContentFacts, PlaceFacts DEF Reserve, TypeOK
  <2>2. job' \in [Jobs -> Job]
    BY <1>9, GoStep, NotMovedStep DEF Reserve, Goes, Step, Phases, Fails, Ends, TypeOK
  <2>3. reserved' \in [Paths -> Jobs \cup {"none"}]
    BY <1>9, PlaceFacts DEF Reserve, TypeOK
  <2>4. row' \in [Files -> [path : Paths, inode : Contents]]
    BY <1>9, NameFacts, ReplacementAssumption, PlaceFacts DEF Reserve, TypeOK, Nothing
  <2>5. rec' \in Recovery
    BY <1>9, PlaceFacts DEF Reserve, TypeOK, Recovery
  <2>6. notes' \subseteq Jobs /\ links' \in {"all", "own", "none"} /\ unguarded' \in BOOLEAN
    BY <1>9 DEF Reserve, TypeOK, Settle, Refuse, GoOn
  <2>7. faults' \in 0..MaxFaults
    BY <1>9, ReplacementAssumption DEF Reserve, TypeOK, Fault, NoFault
  <2> QED BY <2>1, <2>2, <2>3, <2>4, <2>5, <2>6, <2>7 DEF TypeOK
<1>10. ASSUME NEW j \in Jobs, LookFirst(j) PROVE TypeOK'
  <2>1. fs' \in [Names -> Contents \cup {Nothing}]
    BY <1>10, NameFacts, ContentFacts, PlaceFacts DEF LookFirst, Freed, TypeOK
  <2>2. job' \in [Jobs -> Job]
    BY <1>10, GoStep, NotMovedStep DEF LookFirst, Freed, Goes, Step, Phases, Fails, Ends, TypeOK
  <2>3. reserved' \in [Paths -> Jobs \cup {"none"}]
    BY <1>10, PlaceFacts DEF LookFirst, Freed, TypeOK
  <2>4. row' \in [Files -> [path : Paths, inode : Contents]]
    BY <1>10, NameFacts, ReplacementAssumption, PlaceFacts DEF LookFirst, Freed, TypeOK, Nothing
  <2>5. rec' \in Recovery
    BY <1>10, PlaceFacts DEF LookFirst, Freed, TypeOK, Recovery
  <2>6. notes' \subseteq Jobs /\ links' \in {"all", "own", "none"} /\ unguarded' \in BOOLEAN
    BY <1>10 DEF LookFirst, Freed, TypeOK, Settle, Refuse, GoOn
  <2>7. faults' \in 0..MaxFaults
    BY <1>10, ReplacementAssumption DEF LookFirst, Freed, TypeOK, Fault, NoFault
  <2> QED BY <2>1, <2>2, <2>3, <2>4, <2>5, <2>6, <2>7 DEF TypeOK
<1>11. ASSUME NEW j \in Jobs, Rename(j) PROVE TypeOK'
  <2>1. fs' \in [Names -> Contents \cup {Nothing}]
    BY <1>11, NameFacts, ContentFacts, PlaceFacts DEF Rename, Freed, TypeOK
  <2>2. job' \in [Jobs -> Job]
    BY <1>11, MovedStep, NotMovedStep DEF Rename, Freed, Fails, Goes, Ends, Step, Succeeds, Turns, TypeOK
  <2>3. reserved' \in [Paths -> Jobs \cup {"none"}]
    BY <1>11, PlaceFacts DEF Rename, Freed, TypeOK
  <2>4. row' \in [Files -> [path : Paths, inode : Contents]]
    BY <1>11, NameFacts, ReplacementAssumption, PlaceFacts DEF Rename, Freed, TypeOK, Nothing
  <2>5. rec' \in Recovery
    BY <1>11, PlaceFacts DEF Rename, Freed, TypeOK, Recovery
  <2>6. notes' \subseteq Jobs /\ links' \in {"all", "own", "none"} /\ unguarded' \in BOOLEAN
    BY <1>11 DEF Rename, Freed, TypeOK, Settle, Refuse, GoOn
  <2>7. faults' \in 0..MaxFaults
    BY <1>11, ReplacementAssumption DEF Rename, Freed, TypeOK, Fault, NoFault
  <2> QED BY <2>1, <2>2, <2>3, <2>4, <2>5, <2>6, <2>7 DEF TypeOK
<1>12. ASSUME NEW j \in Jobs, GiveUp(j) PROVE TypeOK'
  <2>1. fs' \in [Names -> Contents \cup {Nothing}]
    BY <1>12, NameFacts, ContentFacts, PlaceFacts DEF GiveUp, TypeOK
  <2>2. job' \in [Jobs -> Job]
    BY <1>12, GoStep DEF GiveUp, Goes, Step, Phases, TypeOK
  <2>3. reserved' \in [Paths -> Jobs \cup {"none"}]
    BY <1>12, PlaceFacts DEF GiveUp, TypeOK
  <2>4. row' \in [Files -> [path : Paths, inode : Contents]]
    BY <1>12, NameFacts, ReplacementAssumption, PlaceFacts DEF GiveUp, TypeOK, Nothing
  <2>5. rec' \in Recovery
    BY <1>12, PlaceFacts DEF GiveUp, TypeOK, Recovery
  <2>6. notes' \subseteq Jobs /\ links' \in {"all", "own", "none"} /\ unguarded' \in BOOLEAN
    BY <1>12 DEF GiveUp, TypeOK, Settle, Refuse, GoOn
  <2>7. faults' \in 0..MaxFaults
    BY <1>12, ReplacementAssumption DEF GiveUp, TypeOK, Fault, NoFault
  <2> QED BY <2>1, <2>2, <2>3, <2>4, <2>5, <2>6, <2>7 DEF TypeOK
<1>13. ASSUME NEW j \in Jobs, Discard(j) PROVE TypeOK'
  <2>1. fs' \in [Names -> Contents \cup {Nothing}]
    BY <1>13, NameFacts, ContentFacts, PlaceFacts DEF Discard, TypeOK
  <2>2. job' \in [Jobs -> Job]
    BY <1>13, OutStep DEF Discard, Ends, Step, Halts, Outs, TypeOK
  <2>3. reserved' \in [Paths -> Jobs \cup {"none"}]
    BY <1>13, PlaceFacts DEF Discard, TypeOK
  <2>4. row' \in [Files -> [path : Paths, inode : Contents]]
    BY <1>13, NameFacts, ReplacementAssumption, PlaceFacts DEF Discard, TypeOK, Nothing
  <2>5. rec' \in Recovery
    BY <1>13, PlaceFacts DEF Discard, TypeOK, Recovery
  <2>6. notes' \subseteq Jobs /\ links' \in {"all", "own", "none"} /\ unguarded' \in BOOLEAN
    BY <1>13 DEF Discard, TypeOK, Settle, Refuse, GoOn
  <2>7. faults' \in 0..MaxFaults
    BY <1>13, ReplacementAssumption DEF Discard, TypeOK, Fault, NoFault
  <2> QED BY <2>1, <2>2, <2>3, <2>4, <2>5, <2>6, <2>7 DEF TypeOK
<1>14. ASSUME NEW j \in Jobs, Unscratch(j) PROVE TypeOK'
  <2>1. fs' \in [Names -> Contents \cup {Nothing}]
    BY <1>14, NameFacts, ContentFacts, PlaceFacts DEF Unscratch, TypeOK
  <2>2. job' \in [Jobs -> Job]
    BY <1>14, GoStep, OutStep DEF Unscratch, Goes, Step, Phases, Ends, Halts, Outs, TypeOK
  <2>3. reserved' \in [Paths -> Jobs \cup {"none"}]
    BY <1>14, PlaceFacts DEF Unscratch, TypeOK
  <2>4. row' \in [Files -> [path : Paths, inode : Contents]]
    BY <1>14, NameFacts, ReplacementAssumption, PlaceFacts DEF Unscratch, TypeOK, Nothing
  <2>5. rec' \in Recovery
    BY <1>14, PlaceFacts DEF Unscratch, TypeOK, Recovery
  <2>6. notes' \subseteq Jobs /\ links' \in {"all", "own", "none"} /\ unguarded' \in BOOLEAN
    BY <1>14 DEF Unscratch, TypeOK, Settle, Refuse, GoOn
  <2>7. faults' \in 0..MaxFaults
    BY <1>14, ReplacementAssumption DEF Unscratch, TypeOK, Fault, NoFault
  <2> QED BY <2>1, <2>2, <2>3, <2>4, <2>5, <2>6, <2>7 DEF TypeOK
<1>15. ASSUME NEW j \in Jobs, BackOut(j) PROVE TypeOK'
  <2>1. fs' \in [Names -> Contents \cup {Nothing}]
    BY <1>15, NameFacts, ContentFacts, PlaceFacts DEF BackOut, TypeOK
  <2>2. job' \in [Jobs -> Job]
    BY <1>15, GoStep DEF BackOut, Goes, Step, Phases, TypeOK
  <2>3. reserved' \in [Paths -> Jobs \cup {"none"}]
    BY <1>15, PlaceFacts DEF BackOut, TypeOK
  <2>4. row' \in [Files -> [path : Paths, inode : Contents]]
    BY <1>15, NameFacts, ReplacementAssumption, PlaceFacts DEF BackOut, TypeOK, Nothing
  <2>5. rec' \in Recovery
    BY <1>15, PlaceFacts DEF BackOut, TypeOK, Recovery
  <2>6. notes' \subseteq Jobs /\ links' \in {"all", "own", "none"} /\ unguarded' \in BOOLEAN
    BY <1>15 DEF BackOut, TypeOK, Settle, Refuse, GoOn
  <2>7. faults' \in 0..MaxFaults
    BY <1>15, ReplacementAssumption DEF BackOut, TypeOK, Fault, NoFault
  <2> QED BY <2>1, <2>2, <2>3, <2>4, <2>5, <2>6, <2>7 DEF TypeOK
<1>16. ASSUME NEW j \in Jobs, Spoil(j) PROVE TypeOK'
  <2>1. fs' \in [Names -> Contents \cup {Nothing}]
    BY <1>16, NameFacts, ContentFacts, PlaceFacts DEF Spoil, TypeOK
  <2>2. job' \in [Jobs -> Job]
    BY <1>16, GoStep DEF Spoil, Goes, Step, Phases, TypeOK
  <2>3. reserved' \in [Paths -> Jobs \cup {"none"}]
    BY <1>16, PlaceFacts DEF Spoil, TypeOK
  <2>4. row' \in [Files -> [path : Paths, inode : Contents]]
    BY <1>16, NameFacts, ReplacementAssumption, PlaceFacts DEF Spoil, TypeOK, Nothing
  <2>5. rec' \in Recovery
    BY <1>16, PlaceFacts DEF Spoil, TypeOK, Recovery
  <2>6. notes' \subseteq Jobs /\ links' \in {"all", "own", "none"} /\ unguarded' \in BOOLEAN
    BY <1>16 DEF Spoil, TypeOK, Settle, Refuse, GoOn
  <2>7. faults' \in 0..MaxFaults
    BY <1>16, ReplacementAssumption DEF Spoil, TypeOK, Fault, NoFault
  <2> QED BY <2>1, <2>2, <2>3, <2>4, <2>5, <2>6, <2>7 DEF TypeOK
<1>17. ASSUME NEW j \in Jobs, Judge(j) PROVE TypeOK'
  <2>1. fs' \in [Names -> Contents \cup {Nothing}]
    BY <1>17, NameFacts, ContentFacts, PlaceFacts DEF Judge, TypeOK
  <2>2. job' \in [Jobs -> Job]
    BY <1>17, GoMoveStep, OutStep DEF Judge, Turns, Step, Moves, Ends, Halts, Outs, TypeOK
  <2>3. reserved' \in [Paths -> Jobs \cup {"none"}]
    BY <1>17, PlaceFacts DEF Judge, TypeOK
  <2>4. row' \in [Files -> [path : Paths, inode : Contents]]
    BY <1>17, NameFacts, ReplacementAssumption, PlaceFacts DEF Judge, TypeOK, Nothing
  <2>5. rec' \in Recovery
    BY <1>17, PlaceFacts DEF Judge, TypeOK, Recovery
  <2>6. notes' \subseteq Jobs /\ links' \in {"all", "own", "none"} /\ unguarded' \in BOOLEAN
    BY <1>17 DEF Judge, TypeOK, Settle, Refuse, GoOn
  <2>7. faults' \in 0..MaxFaults
    BY <1>17, ReplacementAssumption DEF Judge, TypeOK, Fault, NoFault
  <2> QED BY <2>1, <2>2, <2>3, <2>4, <2>5, <2>6, <2>7 DEF TypeOK
<1>18. ASSUME NEW j \in Jobs, EndNote(j) PROVE TypeOK'
  <2>1. fs' \in [Names -> Contents \cup {Nothing}]
    BY <1>18, NameFacts, ContentFacts, PlaceFacts DEF EndNote, TypeOK
  <2>2. job' \in [Jobs -> Job]
    BY <1>18, GoStep DEF EndNote, Goes, Step, Phases, TypeOK
  <2>3. reserved' \in [Paths -> Jobs \cup {"none"}]
    BY <1>18, PlaceFacts DEF EndNote, TypeOK
  <2>4. row' \in [Files -> [path : Paths, inode : Contents]]
    BY <1>18, NameFacts, ReplacementAssumption, PlaceFacts DEF EndNote, TypeOK, Nothing
  <2>5. rec' \in Recovery
    BY <1>18, PlaceFacts DEF EndNote, TypeOK, Recovery
  <2>6. notes' \subseteq Jobs /\ links' \in {"all", "own", "none"} /\ unguarded' \in BOOLEAN
    BY <1>18 DEF EndNote, TypeOK, Settle, Refuse, GoOn
  <2>7. faults' \in 0..MaxFaults
    BY <1>18, ReplacementAssumption DEF EndNote, TypeOK, Fault, NoFault
  <2> QED BY <2>1, <2>2, <2>3, <2>4, <2>5, <2>6, <2>7 DEF TypeOK
<1>19. ASSUME NEW j \in Jobs, Report(j) PROVE TypeOK'
  <2>1. fs' \in [Names -> Contents \cup {Nothing}]
    BY <1>19, NameFacts, ContentFacts, PlaceFacts DEF Report, TypeOK
  <2>2. job' \in [Jobs -> Job]
    BY <1>19, LeaveStep DEF Report, Leaves, TypeOK
  <2>3. reserved' \in [Paths -> Jobs \cup {"none"}]
    BY <1>19, PlaceFacts DEF Report, TypeOK
  <2>4. row' \in [Files -> [path : Paths, inode : Contents]]
    BY <1>19, NameFacts, ReplacementAssumption, PlaceFacts DEF Report, TypeOK, Nothing
  <2>5. rec' \in Recovery
    BY <1>19, PlaceFacts DEF Report, TypeOK, Recovery
  <2>6. notes' \subseteq Jobs /\ links' \in {"all", "own", "none"} /\ unguarded' \in BOOLEAN
    BY <1>19 DEF Report, TypeOK, Settle, Refuse, GoOn
  <2>7. faults' \in 0..MaxFaults
    BY <1>19, ReplacementAssumption DEF Report, TypeOK, Fault, NoFault
  <2> QED BY <2>1, <2>2, <2>3, <2>4, <2>5, <2>6, <2>7 DEF TypeOK
<1>20. ASSUME NEW j \in Jobs, Kill(j) PROVE TypeOK'
  <2>1. fs' \in [Names -> Contents \cup {Nothing}]
    BY <1>20, NameFacts, ContentFacts, PlaceFacts DEF Kill, TypeOK
  <2>2. job' \in [Jobs -> Job]
    BY <1>20, LeaveStep DEF Kill, Leaves, TypeOK
  <2>3. reserved' \in [Paths -> Jobs \cup {"none"}]
    BY <1>20, PlaceFacts DEF Kill, TypeOK
  <2>4. row' \in [Files -> [path : Paths, inode : Contents]]
    BY <1>20, NameFacts, ReplacementAssumption, PlaceFacts DEF Kill, TypeOK, Nothing
  <2>5. rec' \in Recovery
    BY <1>20, PlaceFacts DEF Kill, TypeOK, Recovery
  <2>6. notes' \subseteq Jobs /\ links' \in {"all", "own", "none"} /\ unguarded' \in BOOLEAN
    BY <1>20 DEF Kill, TypeOK, Settle, Refuse, GoOn
  <2>7. faults' \in 0..MaxFaults
    BY <1>20, ReplacementAssumption DEF Kill, TypeOK, Fault, NoFault
  <2> QED BY <2>1, <2>2, <2>3, <2>4, <2>5, <2>6, <2>7 DEF TypeOK
<1>21. ASSUME NEW j \in Jobs, Reap(j) PROVE TypeOK'
  <2>1. fs' \in [Names -> Contents \cup {Nothing}]
    BY <1>21, NameFacts, ContentFacts, PlaceFacts DEF Reap, TypeOK
  <2>2. job' \in [Jobs -> Job]
    BY <1>21, LeaveStep DEF Reap, Leaves, TypeOK
  <2>3. reserved' \in [Paths -> Jobs \cup {"none"}]
    BY <1>21, PlaceFacts DEF Reap, TypeOK
  <2>4. row' \in [Files -> [path : Paths, inode : Contents]]
    BY <1>21, NameFacts, ReplacementAssumption, PlaceFacts DEF Reap, TypeOK, Nothing
  <2>5. rec' \in Recovery
    BY <1>21, PlaceFacts DEF Reap, TypeOK, Recovery
  <2>6. notes' \subseteq Jobs /\ links' \in {"all", "own", "none"} /\ unguarded' \in BOOLEAN
    BY <1>21 DEF Reap, TypeOK, Settle, Refuse, GoOn
  <2>7. faults' \in 0..MaxFaults
    BY <1>21, ReplacementAssumption DEF Reap, TypeOK, Fault, NoFault
  <2> QED BY <2>1, <2>2, <2>3, <2>4, <2>5, <2>6, <2>7 DEF TypeOK
<1>22. ASSUME NEW j \in Jobs, SweepScratch(j) PROVE TypeOK'
  <2>1. fs' \in [Names -> Contents \cup {Nothing}]
    BY <1>22, NameFacts, ContentFacts, PlaceFacts DEF SweepScratch, TypeOK
  <2>2. job' \in [Jobs -> Job]
    BY <1>22 DEF SweepScratch, TypeOK
  <2>3. reserved' \in [Paths -> Jobs \cup {"none"}]
    BY <1>22, PlaceFacts DEF SweepScratch, TypeOK
  <2>4. row' \in [Files -> [path : Paths, inode : Contents]]
    BY <1>22, NameFacts, ReplacementAssumption, PlaceFacts DEF SweepScratch, TypeOK, Nothing
  <2>5. rec' \in Recovery
    BY <1>22, PlaceFacts DEF SweepScratch, TypeOK, Recovery
  <2>6. notes' \subseteq Jobs /\ links' \in {"all", "own", "none"} /\ unguarded' \in BOOLEAN
    BY <1>22 DEF SweepScratch, TypeOK, Settle, Refuse, GoOn
  <2>7. faults' \in 0..MaxFaults
    BY <1>22, ReplacementAssumption DEF SweepScratch, TypeOK, Fault, NoFault
  <2> QED BY <2>1, <2>2, <2>3, <2>4, <2>5, <2>6, <2>7 DEF TypeOK
<1>23. ASSUME NEW j \in Jobs, Examine(j) PROVE TypeOK'
  <2>1. fs' \in [Names -> Contents \cup {Nothing}]
    BY <1>23, NameFacts, ContentFacts, PlaceFacts DEF Examine, IdleRec, TypeOK
  <2>2. job' \in [Jobs -> Job]
    BY <1>23 DEF Examine, IdleRec, TypeOK
  <2>3. reserved' \in [Paths -> Jobs \cup {"none"}]
    BY <1>23, PlaceFacts DEF Examine, IdleRec, TypeOK
  <2>4. row' \in [Files -> [path : Paths, inode : Contents]]
    BY <1>23, NameFacts, ReplacementAssumption, PlaceFacts DEF Examine, IdleRec, TypeOK, Nothing
  <2>5. rec' \in Recovery
    BY <1>23, PlaceFacts DEF Examine, IdleRec, TypeOK, Recovery
  <2>6. notes' \subseteq Jobs /\ links' \in {"all", "own", "none"} /\ unguarded' \in BOOLEAN
    BY <1>23 DEF Examine, IdleRec, TypeOK, Settle, Refuse, GoOn
  <2>7. faults' \in 0..MaxFaults
    BY <1>23, ReplacementAssumption DEF Examine, IdleRec, TypeOK, Fault, NoFault
  <2> QED BY <2>1, <2>2, <2>3, <2>4, <2>5, <2>6, <2>7 DEF TypeOK
<1>24. ASSUME NEW j \in Jobs, Look(j) PROVE TypeOK'
  <2>1. fs' \in [Names -> Contents \cup {Nothing}]
    BY <1>24, NameFacts, ContentFacts, PlaceFacts DEF Look, Settle, Refuse, IdleRec, TypeOK
  <2>2. job' \in [Jobs -> Job]
    BY <1>24 DEF Look, Settle, Refuse, IdleRec, TypeOK
  <2>3. reserved' \in [Paths -> Jobs \cup {"none"}]
    BY <1>24, PlaceFacts DEF Look, Settle, Refuse, IdleRec, TypeOK
  <2>4. row' \in [Files -> [path : Paths, inode : Contents]]
    BY <1>24, NameFacts, ReplacementAssumption, PlaceFacts DEF Look, Settle, Refuse, IdleRec, TypeOK, Nothing
  <2>5. rec' \in Recovery
    <3> DEFINE R == [rec EXCEPT !.phase = "linking", !.path = row[FileOf[j]].path,
                               !.inode = row[FileOf[j]].inode]
    <3>1. rec \in Recovery /\ row[FileOf[j]].path \in Paths
      BY PlaceFacts DEF TypeOK
    <3>2. row[FileOf[j]] \in [path : Paths, inode : Contents]
      BY ReplacementAssumption DEF TypeOK
    <3>3. row[FileOf[j]].inode \in Contents
      BY <3>2
    <3>4. R \in Recovery
      BY <3>1, <3>3 DEF Recovery
    <3>5. IdleRec \in Recovery
      BY DEF IdleRec, Recovery
    <3>6. rec' = R \/ rec' = IdleRec
      BY <1>24, Zenon DEF Look, Settle, Refuse
    <3> QED BY <3>4, <3>5, <3>6
  <2>6. notes' \subseteq Jobs /\ links' \in {"all", "own", "none"} /\ unguarded' \in BOOLEAN
    BY <1>24 DEF Look, Settle, Refuse, IdleRec, TypeOK, Settle, Refuse, GoOn
  <2>7. faults' \in 0..MaxFaults
    BY <1>24, ReplacementAssumption DEF Look, Settle, Refuse, IdleRec, TypeOK, Fault, NoFault
  <2> QED BY <2>1, <2>2, <2>3, <2>4, <2>5, <2>6, <2>7 DEF TypeOK
<1>25. ASSUME NEW j \in Jobs, LinkBack(j) PROVE TypeOK'
  <2>1. fs' \in [Names -> Contents \cup {Nothing}]
    BY <1>25, NameFacts, ContentFacts, PlaceFacts DEF LinkBack, Settle, Refuse, GoOn, IdleRec, TypeOK
  <2>2. job' \in [Jobs -> Job]
    BY <1>25 DEF LinkBack, Settle, Refuse, GoOn, IdleRec, TypeOK
  <2>3. reserved' \in [Paths -> Jobs \cup {"none"}]
    BY <1>25, PlaceFacts DEF LinkBack, Settle, Refuse, GoOn, IdleRec, TypeOK
  <2>4. row' \in [Files -> [path : Paths, inode : Contents]]
    BY <1>25, NameFacts, ReplacementAssumption, PlaceFacts DEF LinkBack, Settle, Refuse, GoOn, IdleRec, TypeOK, Nothing
  <2>5. rec' \in Recovery
    BY <1>25, PlaceFacts DEF LinkBack, Settle, Refuse, GoOn, IdleRec, TypeOK, Recovery
  <2>6. notes' \subseteq Jobs /\ links' \in {"all", "own", "none"} /\ unguarded' \in BOOLEAN
    BY <1>25 DEF LinkBack, Settle, Refuse, GoOn, IdleRec, TypeOK, Settle, Refuse, GoOn
  <2>7. faults' \in 0..MaxFaults
    BY <1>25, ReplacementAssumption DEF LinkBack, Settle, Refuse, GoOn, IdleRec, TypeOK, Fault, NoFault
  <2> QED BY <2>1, <2>2, <2>3, <2>4, <2>5, <2>6, <2>7 DEF TypeOK
<1>26. ASSUME NEW j \in Jobs, RenameBack(j) PROVE TypeOK'
  <2>1. fs' \in [Names -> Contents \cup {Nothing}]
    BY <1>26, NameFacts, ContentFacts, PlaceFacts DEF RenameBack, Refuse, GoOn, IdleRec, TypeOK
  <2>2. job' \in [Jobs -> Job]
    BY <1>26 DEF RenameBack, Refuse, GoOn, IdleRec, TypeOK
  <2>3. reserved' \in [Paths -> Jobs \cup {"none"}]
    BY <1>26, PlaceFacts DEF RenameBack, Refuse, GoOn, IdleRec, TypeOK
  <2>4. row' \in [Files -> [path : Paths, inode : Contents]]
    BY <1>26, NameFacts, ReplacementAssumption, PlaceFacts DEF RenameBack, Refuse, GoOn, IdleRec, TypeOK, Nothing
  <2>5. rec' \in Recovery
    BY <1>26, PlaceFacts DEF RenameBack, Refuse, GoOn, IdleRec, TypeOK, Recovery
  <2>6. notes' \subseteq Jobs /\ links' \in {"all", "own", "none"} /\ unguarded' \in BOOLEAN
    BY <1>26 DEF RenameBack, Refuse, GoOn, IdleRec, TypeOK, Settle, Refuse, GoOn
  <2>7. faults' \in 0..MaxFaults
    BY <1>26, ReplacementAssumption DEF RenameBack, Refuse, GoOn, IdleRec, TypeOK, Fault, NoFault
  <2> QED BY <2>1, <2>2, <2>3, <2>4, <2>5, <2>6, <2>7 DEF TypeOK
<1>27. ASSUME NEW j \in Jobs, Verify(j) PROVE TypeOK'
  <2>1. fs' \in [Names -> Contents \cup {Nothing}]
    BY <1>27, NameFacts, ContentFacts, PlaceFacts DEF Verify, Settle, Refuse, IdleRec, TypeOK
  <2>2. job' \in [Jobs -> Job]
    BY <1>27 DEF Verify, Settle, Refuse, IdleRec, TypeOK
  <2>3. reserved' \in [Paths -> Jobs \cup {"none"}]
    BY <1>27, PlaceFacts DEF Verify, Settle, Refuse, IdleRec, TypeOK
  <2>4. row' \in [Files -> [path : Paths, inode : Contents]]
    BY <1>27, NameFacts, ReplacementAssumption, PlaceFacts DEF Verify, Settle, Refuse, IdleRec, TypeOK, Nothing
  <2>5. rec' \in Recovery
    BY <1>27, PlaceFacts DEF Verify, Settle, Refuse, IdleRec, TypeOK, Recovery
  <2>6. notes' \subseteq Jobs /\ links' \in {"all", "own", "none"} /\ unguarded' \in BOOLEAN
    BY <1>27 DEF Verify, Settle, Refuse, IdleRec, TypeOK, Settle, Refuse, GoOn
  <2>7. faults' \in 0..MaxFaults
    BY <1>27, ReplacementAssumption DEF Verify, Settle, Refuse, IdleRec, TypeOK, Fault, NoFault
  <2> QED BY <2>1, <2>2, <2>3, <2>4, <2>5, <2>6, <2>7 DEF TypeOK
<1>28. ASSUME NEW p \in Paths, Arrive(p) PROVE TypeOK'
  <2>1. fs' \in [Names -> Contents \cup {Nothing}]
    BY <1>28, NameFacts, ContentFacts, PlaceFacts DEF Arrive, TypeOK
  <2>2. job' \in [Jobs -> Job]
    BY <1>28 DEF Arrive, TypeOK
  <2>3. reserved' \in [Paths -> Jobs \cup {"none"}]
    BY <1>28, PlaceFacts DEF Arrive, TypeOK
  <2>4. row' \in [Files -> [path : Paths, inode : Contents]]
    BY <1>28, NameFacts, ReplacementAssumption, PlaceFacts DEF Arrive, TypeOK, Nothing
  <2>5. rec' \in Recovery
    BY <1>28, PlaceFacts DEF Arrive, TypeOK, Recovery
  <2>6. notes' \subseteq Jobs /\ links' \in {"all", "own", "none"} /\ unguarded' \in BOOLEAN
    BY <1>28 DEF Arrive, TypeOK, Settle, Refuse, GoOn
  <2>7. faults' \in 0..MaxFaults
    BY <1>28, ReplacementAssumption DEF Arrive, TypeOK, Fault, NoFault
  <2> QED BY <2>1, <2>2, <2>3, <2>4, <2>5, <2>6, <2>7 DEF TypeOK
<1>29. ASSUME SweepWorking PROVE TypeOK'
  <2>1. fs' \in [Names -> Contents \cup {Nothing}]
    BY <1>29, NameFacts, ContentFacts, PlaceFacts DEF SweepWorking, TypeOK
  <2>2. job' \in [Jobs -> Job]
    BY <1>29 DEF SweepWorking, TypeOK
  <2>3. reserved' \in [Paths -> Jobs \cup {"none"}]
    BY <1>29, PlaceFacts DEF SweepWorking, TypeOK
  <2>4. row' \in [Files -> [path : Paths, inode : Contents]]
    BY <1>29, NameFacts, ReplacementAssumption, PlaceFacts DEF SweepWorking, TypeOK, Nothing
  <2>5. rec' \in Recovery
    BY <1>29, PlaceFacts DEF SweepWorking, TypeOK, Recovery
  <2>6. notes' \subseteq Jobs /\ links' \in {"all", "own", "none"} /\ unguarded' \in BOOLEAN
    BY <1>29 DEF SweepWorking, TypeOK, Settle, Refuse, GoOn
  <2>7. faults' \in 0..MaxFaults
    BY <1>29, ReplacementAssumption DEF SweepWorking, TypeOK, Fault, NoFault
  <2> QED BY <2>1, <2>2, <2>3, <2>4, <2>5, <2>6, <2>7 DEF TypeOK
<1>30. ASSUME DaemonCrash PROVE TypeOK'
  <2>1. fs' \in [Names -> Contents \cup {Nothing}]
    BY <1>30, NameFacts, ContentFacts, PlaceFacts DEF DaemonCrash, IdleRec, TypeOK
  <2>2. job' \in [Jobs -> Job]
    BY <1>30 DEF DaemonCrash, IdleRec, TypeOK
  <2>3. reserved' \in [Paths -> Jobs \cup {"none"}]
    BY <1>30, PlaceFacts DEF DaemonCrash, IdleRec, TypeOK
  <2>4. row' \in [Files -> [path : Paths, inode : Contents]]
    BY <1>30, NameFacts, ReplacementAssumption, PlaceFacts DEF DaemonCrash, IdleRec, TypeOK, Nothing
  <2>5. rec' \in Recovery
    BY <1>30, PlaceFacts DEF DaemonCrash, IdleRec, TypeOK, Recovery
  <2>6. notes' \subseteq Jobs /\ links' \in {"all", "own", "none"} /\ unguarded' \in BOOLEAN
    BY <1>30 DEF DaemonCrash, IdleRec, TypeOK, Settle, Refuse, GoOn
  <2>7. faults' \in 0..MaxFaults
    BY <1>30, ReplacementAssumption DEF DaemonCrash, IdleRec, TypeOK, Fault, NoFault
  <2> QED BY <2>1, <2>2, <2>3, <2>4, <2>5, <2>6, <2>7 DEF TypeOK
<1>31. CASE UNCHANGED vars
  BY <1>31 DEF TypeOK, vars, TypeOK
<1> QED BY <1>1, <1>2, <1>3, <1>4, <1>5, <1>6, <1>7, <1>8, <1>9, <1>10, <1>11, <1>12, <1>13, <1>14, <1>15, <1>16, <1>17, <1>18, <1>19, <1>20, <1>21, <1>22, <1>23, <1>24, <1>25, <1>26, <1>27, <1>28, <1>29, <1>30, <1>31 DEF Next, Worker, Recover


-----------------------------------------------------------------------------
(* What each action does to the files and to the record of its worker *)

Wrote(n, c) == fs'[n] = c /\ \A m \in Names : m # n => fs'[m] = fs[m]

LEMMA StartDoes ==
  ASSUME TypeOK, NEW j \in Jobs, Start(j)
  PROVE  /\ job[j].phase = "idle" /\ job'[j].phase = "checking" /\ job'[j].move = job[j].move
         /\ job'[j].staged = job[j].staged /\ job'[j].out = job[j].out /\ job' \in [Jobs -> Job]
         /\ \A k \in Jobs : k # j => job'[k] = job[k]
         /\ \A k \in Jobs : FileOf[k] = FileOf[j] => ~ Open(k)
         /\ Wrote(New(j), Result(j))
BY NameFacts, StartStep DEF TypeOK, Wrote, Start

LEMMA CheckDoes ==
  ASSUME TypeOK, NEW j \in Jobs, Check(j)
  PROVE  /\ job[j].phase = "checking" /\ fs' = fs
         /\ (Goes(j, "staging") \/ Ends(j, "reporting", "original"))
BY GoStep, OutStep DEF Check, Phases, Halts, Outs

LEMMA CopiedDoes ==
  ASSUME TypeOK, NEW j \in Jobs, Copied(j)
  PROVE  /\ job[j].phase = "copying"
         /\ \/ Wrote(Staged(j), Copy(j)) /\ Goes(j, "noting")
            \/ fs' = fs /\ Goes(j, "discarding")
BY NameFacts, PlaceFacts, GoStep DEF TypeOK, Wrote, Copied, Phases

LEMMA BeginNoteDoes ==
  ASSUME TypeOK, NEW j \in Jobs, BeginNote(j)
  PROVE  /\ job[j].phase = "noting" /\ fs' = fs
         /\ (Turns(j, "trash") \/ Goes(j, "discarding"))
BY GoStep, GoMoveStep DEF BeginNote, Phases, Moves

LEMMA LinkDoes ==
  ASSUME TypeOK, NEW j \in Jobs, Link(j)
  PROVE  /\ job[j].phase = "moving" /\ CanLink(fs[From(j)])
         /\ \/ /\ fs[From(j)] # Nothing /\ fs[To(j)] = Nothing
               /\ Wrote(To(j), fs[From(j)]) /\ Goes(j, "dropping")
            \/ fs' = fs /\ Fails(j)
BY NameFacts, PlaceFacts, GoStep, NotMovedStep DEF TypeOK, Wrote, Link, Phases

LEMMA DropOldDoes ==
  ASSUME TypeOK, NEW j \in Jobs, DropOld(j)
  PROVE  /\ job[j].phase = "dropping"
         /\ \/ Wrote(From(j), Nothing) /\ Succeeds(j)
            \/ fs' = fs /\ job[j].move = "restore" /\ Succeeds(j)
            \/ fs' = fs /\ job[j].move # "restore" /\ Goes(j, "undoing")
BY NameFacts, PlaceFacts, GoStep, MovedStep DEF TypeOK, Wrote, DropOld, Phases

LEMMA UndoDoes ==
  ASSUME TypeOK, NEW j \in Jobs, Undo(j)
  PROVE  /\ job[j].phase = "undoing" /\ Fails(j)
         /\ (Wrote(To(j), Nothing) \/ fs' = fs)
BY NameFacts, PlaceFacts, NotMovedStep DEF TypeOK, Wrote, Undo

LEMMA ReserveDoes ==
  ASSUME TypeOK, NEW j \in Jobs, Reserve(j)
  PROVE  /\ job[j].phase = "moving" /\ ~ CanLink(fs[From(j)]) /\ fs' = fs
         /\ \/ job[j].move = "trash" /\ Goes(j, "renaming") /\ reserved' = reserved
            \/ /\ job[j].move # "trash" /\ Goes(j, "looking")
               /\ reserved[Goal(j)] \in {"none"} \cup {k \in Jobs : ~ Alive(k)}
               /\ reserved' = [reserved EXCEPT ![Goal(j)] = j]
            \/ Fails(j) /\ reserved' = reserved
BY GoStep, NotMovedStep DEF Reserve, Phases

LEMMA LookFirstDoes ==
  ASSUME TypeOK, NEW j \in Jobs, LookFirst(j)
  PROVE  /\ job[j].phase = "looking" /\ fs' = fs
         /\ \/ fs[To(j)] = Nothing /\ Goes(j, "renaming") /\ reserved' = reserved
            \/ Fails(j) /\ reserved' = Freed(j)
BY GoStep, NotMovedStep DEF LookFirst, Phases

LEMMA RenameDoes ==
  ASSUME TypeOK, NEW j \in Jobs, Rename(j)
  PROVE  /\ job[j].phase = "renaming" /\ reserved' = Freed(j)
         /\ \/ /\ fs[From(j)] # Nothing /\ Succeeds(j)
               /\ fs' = [fs EXCEPT ![To(j)] = fs[From(j)], ![From(j)] = Nothing]
               /\ unguarded' = (unguarded \/ (links = "own" /\ job[j].move # "trash"))
            \/ fs' = fs /\ Fails(j) /\ unguarded' = unguarded
BY MovedStep, NotMovedStep DEF Rename

LEMMA GiveUpDoes ==
  ASSUME TypeOK, NEW j \in Jobs, GiveUp(j)
  PROVE  /\ job[j].phase = "giving" /\ fs' = fs /\ Goes(j, "discarding")
BY GoStep DEF GiveUp, Phases

LEMMA DiscardDoes ==
  ASSUME TypeOK, NEW j \in Jobs, Discard(j)
  PROVE  /\ job[j].phase = "discarding" /\ Ends(j, "reporting", "original")
         /\ (Wrote(Staged(j), Nothing) \/ fs' = fs)
BY NameFacts, PlaceFacts, OutStep DEF TypeOK, Wrote, Discard, Halts, Outs

LEMMA UnscratchDoes ==
  ASSUME TypeOK, NEW j \in Jobs, Unscratch(j)
  PROVE  /\ job[j].phase = "unscratching"
         /\ \/ Wrote(New(j), Nothing) /\ Ends(j, "closing", "replaced")
            \/ fs' = fs /\ job[j].staged = "link" /\ Goes(j, "backing")
            \/ fs' = fs /\ job[j].staged # "link" /\ Ends(j, "closing", "replaced")
BY NameFacts, PlaceFacts, GoStep, OutStep DEF TypeOK, Wrote, Unscratch, Phases, Halts, Outs

LEMMA BackOutDoes ==
  ASSUME TypeOK, NEW j \in Jobs, BackOut(j)
  PROVE  /\ job[j].phase = "backing" /\ Goes(j, "judging")
         /\ (Wrote(Lib(job[j].dest), Nothing) \/ fs' = fs)
BY NameFacts, PlaceFacts, GoStep DEF TypeOK, Wrote, BackOut, Phases

LEMMA SpoilDoes ==
  ASSUME TypeOK, NEW j \in Jobs, Spoil(j)
  PROVE  /\ job[j].phase = "spoiled" /\ Goes(j, "judging")
         /\ (Wrote(Staged(j), Nothing) \/ fs' = fs)
BY NameFacts, PlaceFacts, GoStep DEF TypeOK, Wrote, Spoil, Phases

LEMMA JudgeDoes ==
  ASSUME TypeOK, NEW j \in Jobs, Judge(j)
  PROVE  /\ job[j].phase = "judging" /\ fs' = fs
         /\ \/ Landed(j) /\ Ends(j, "closing", IF Linked(Lib(job[j].dest)) THEN "linked" ELSE "replaced")
            \/ ~ Landed(j) /\ Turns(j, "restore")
BY GoMoveStep, OutStep DEF Judge, Moves, Halts, Outs

LEMMA EndNoteDoes ==
  ASSUME TypeOK, NEW j \in Jobs, EndNote(j)
  PROVE  /\ job[j].phase = "closing" /\ fs' = fs /\ Goes(j, "reporting")
BY GoStep DEF EndNote, Phases

LEMMA ReportDoes ==
  ASSUME TypeOK, NEW j \in Jobs, Report(j)
  PROVE  /\ job[j].phase = "reporting" /\ Wrote(New(j), Nothing) /\ Leaves(j, "ended")
BY NameFacts, PlaceFacts, LeaveStep DEF TypeOK, Wrote, Report

LEMMA KillDoes ==
  ASSUME TypeOK, NEW j \in Jobs, Kill(j)
  PROVE  /\ Alive(j) /\ fs' = fs /\ Leaves(j, "dead")
BY LeaveStep DEF Kill

LEMMA ReapDoes ==
  ASSUME TypeOK, NEW j \in Jobs, Reap(j)
  PROVE  /\ job[j].phase = "dead" /\ fs' = fs /\ Leaves(j, "ended")
BY LeaveStep DEF Reap

\* The recovery goes on with the note it has.
Follows(phase) ==
  rec'.phase = phase /\ rec'.job = rec.job /\ rec'.path = rec.path /\ rec'.inode = rec.inode

LEMMA ExamineDoes ==
  ASSUME TypeOK, NEW j \in Jobs, Examine(j)
  PROVE  /\ job[j].phase = "ended" /\ fs' = fs
         /\ rec'.phase = "looking" /\ rec'.job = j
BY DEF Examine, IdleRec

LEMMA LookDoes ==
  ASSUME TypeOK, NEW j \in Jobs, Look(j)
  PROVE  /\ rec.phase = "looking" /\ rec.job = j /\ fs' = fs
         /\ \/ rec'.phase = "idle"
            \/ rec'.phase = "linking" /\ rec'.job = j
<1>1. CASE rec' = IdleRec
  BY <1>1 DEF Look, IdleRec
<1>2. CASE rec' = [rec EXCEPT !.phase = "linking", !.path = row[FileOf[j]].path,
                              !.inode = row[FileOf[j]].inode]
  BY <1>2 DEF Look, TypeOK, Recovery
<1> QED BY <1>1, <1>2 DEF Look, Settle, Refuse

LEMMA LinkBackDoes ==
  ASSUME TypeOK, NEW j \in Jobs, LinkBack(j)
  PROVE  /\ rec.phase = "linking" /\ rec.job = j
         /\ \/ /\ fs[Trash(j)] = rec.inode /\ fs[Lib(rec.path)] = Nothing
               /\ fs' = [fs EXCEPT ![Lib(rec.path)] = rec.inode] /\ Follows("verifying")
               /\ CanLink(rec.inode)
            \/ fs' = fs /\ Follows("renaming")
            \/ fs' = fs /\ rec'.phase = "idle"
<1>1. ASSUME NEW x \in {"verifying", "renaming"}, GoOn(x) PROVE Follows(x)
  BY <1>1 DEF GoOn, Follows, TypeOK, Recovery
<1>2. Refuse \/ Settle(j) => rec'.phase = "idle"
  BY DEF Refuse, Settle, IdleRec
<1> QED BY <1>1, <1>2 DEF LinkBack

LEMMA RenameBackDoes ==
  ASSUME TypeOK, NEW j \in Jobs, RenameBack(j)
  PROVE  /\ rec.phase = "renaming" /\ rec.job = j
         /\ \/ unguarded' /\ Follows("verifying")
               /\ fs' = [fs EXCEPT ![Lib(rec.path)] = fs[Trash(j)], ![Trash(j)] = Nothing]
            \/ fs' = fs /\ rec'.phase = "idle" /\ unguarded' = unguarded
<1>1. ASSUME NEW x \in {"verifying", "renaming"}, GoOn(x) PROVE Follows(x)
  BY <1>1 DEF GoOn, Follows, TypeOK, Recovery
<1>2. Refuse => rec'.phase = "idle"
  BY DEF Refuse, IdleRec
<1> QED BY <1>1, <1>2 DEF RenameBack

LEMMA VerifyDoes ==
  ASSUME TypeOK, NEW j \in Jobs, Verify(j)
  PROVE  /\ rec.phase = "verifying" /\ rec.job = j /\ rec'.phase = "idle"
         /\ \/ fs' = fs
            \/ fs[Lib(rec.path)] = rec.inode /\ fs' = [fs EXCEPT ![Trash(j)] = Nothing]
BY DEF Verify, Settle, Refuse, IdleRec

-----------------------------------------------------------------------------
(* One worker acts, or none does *)

Acts(j) == Start(j) \/ Worker(j) \/ Kill(j) \/ Reap(j)

LEMMA OthersStay ==
  ASSUME TypeOK, NEW j \in Jobs, Acts(j)
  PROVE  /\ job' \in [Jobs -> Job] /\ \A k \in Jobs : k # j => job'[k] = job[k]
         /\ links' = links
<1>1. CASE Start(j)
  BY <1>1, StartDoes DEF Start
<1>2. CASE Check(j)
  BY <1>2, CheckDoes DEF Check, Goes, Ends, Step
<1>3. CASE Stage(j)
  BY <1>3, StageDoes DEF Stage, Step, Turns
<1>4. CASE Copied(j)
  BY <1>4, CopiedDoes DEF Copied, Goes, Step
<1>5. CASE BeginNote(j)
  BY <1>5, BeginNoteDoes DEF BeginNote, Goes, Turns, Step
<1>6. CASE Link(j)
  BY <1>6, LinkDoes DEF Link, Goes, Fails, Ends, Step
<1>7. CASE DropOld(j)
  BY <1>7, DropOldDoes DEF DropOld, Goes, Succeeds, Ends, Turns, Step
<1>8. CASE Undo(j)
  BY <1>8, UndoDoes DEF Undo, Fails, Goes, Ends, Step
<1>9. CASE Reserve(j)
  BY <1>9, ReserveDoes DEF Reserve, Goes, Fails, Ends, Step
<1>10. CASE LookFirst(j)
  BY <1>10, LookFirstDoes DEF LookFirst, Goes, Fails, Ends, Step
<1>11. CASE Rename(j)
  BY <1>11, RenameDoes DEF Rename, Succeeds, Fails, Goes, Ends, Turns, Step
<1>12. CASE GiveUp(j)
  BY <1>12, GiveUpDoes DEF GiveUp, Goes, Step
<1>13. CASE Discard(j)
  BY <1>13, DiscardDoes DEF Discard, Ends, Step
<1>14. CASE Unscratch(j)
  BY <1>14, UnscratchDoes DEF Unscratch, Goes, Ends, Step
<1>15. CASE BackOut(j)
  BY <1>15, BackOutDoes DEF BackOut, Goes, Step
<1>16. CASE Spoil(j)
  BY <1>16, SpoilDoes DEF Spoil, Goes, Step
<1>17. CASE Judge(j)
  BY <1>17, JudgeDoes DEF Judge, Ends, Turns, Step
<1>18. CASE EndNote(j)
  BY <1>18, EndNoteDoes DEF EndNote, Goes, Step
<1>19. CASE Report(j)
  BY <1>19, ReportDoes DEF Report, Leaves
<1>20. CASE Kill(j)
  BY <1>20, KillDoes DEF Kill, Leaves
<1>21. CASE Reap(j)
  BY <1>21, ReapDoes DEF Reap, Leaves
<1> QED BY <1>1, <1>2, <1>3, <1>4, <1>5, <1>6, <1>7, <1>8, <1>9, <1>10, <1>11, <1>12, <1>13, <1>14, <1>15, <1>16, <1>17, <1>18, <1>19, <1>20, <1>21 DEF Acts, Worker

LEMMA WhoActs ==
  ASSUME [Next]_vars
  PROVE  \/ \E j \in Jobs : Acts(j)
         \/ /\ job' = job /\ links' = links
            /\ \/ \E j \in Jobs : SweepScratch(j) \/ Examine(j) \/ Recover(j)
               \/ \E p \in Paths : Arrive(p)
               \/ SweepWorking \/ DaemonCrash \/ UNCHANGED vars
BY DEF Next, Acts, vars, SweepScratch, Examine, Recover, Look, LinkBack, RenameBack, Verify,
       Arrive, SweepWorking, DaemonCrash

LEMMA CoursesHold ==
  ASSUME TypeOK, OwnFiles, Courses, [Next]_vars
  PROVE  Courses'
<1>1. ASSUME NEW j \in Jobs, Acts(j) PROVE Courses'
  <2>1. \A k \in Jobs : k # j => Course(k)'
    BY <1>1, OthersStay DEF Courses, Course
  <2>2. Course(j)'
    <3>0. Course(j) /\ links' = links /\ job[j] \in Job
      BY <1>1, OthersStay DEF Courses, TypeOK
    <3>1. CASE Start(j)
      BY <3>1, StartDoes, <3>0 DEF Course
    <3>2. CASE Check(j)
      BY <3>2, CheckDoes, <3>0 DEF Goes, Ends, Step, Course
    <3>3. CASE Stage(j)
      BY <3>3, StageDoes, <3>0, ContentFacts DEF Step, Turns, Course, CanLink, OwnFiles, Scratch
    <3>4. CASE Copied(j)
      BY <3>4, CopiedDoes, <3>0 DEF Goes, Step, Course
    <3>5. CASE BeginNote(j)
      BY <3>5, BeginNoteDoes, <3>0 DEF Goes, Turns, Step, Course
    <3>6. CASE Link(j)
      BY <3>6, LinkDoes, <3>0 DEF Goes, Fails, Ends, Step, Course, CanLink
    <3>7. CASE DropOld(j)
      BY <3>7, DropOldDoes, <3>0 DEF Goes, Succeeds, Ends, Turns, Step, Course, Job
    <3>8. CASE Undo(j)
      BY <3>8, UndoDoes, <3>0 DEF Fails, Goes, Ends, Step, Course
    <3>9. CASE Reserve(j)
      BY <3>9, ReserveDoes, <3>0 DEF Goes, Fails, Ends, Step, Course, CanLink
    <3>10. CASE LookFirst(j)
      BY <3>10, LookFirstDoes, <3>0 DEF Goes, Fails, Ends, Step, Course
    <3>11. CASE Rename(j)
      BY <3>11, RenameDoes, <3>0 DEF Succeeds, Fails, Goes, Ends, Turns, Step, Course, Job
    <3>12. CASE GiveUp(j)
      BY <3>12, GiveUpDoes, <3>0 DEF Goes, Step, Course
    <3>13. CASE Discard(j)
      BY <3>13, DiscardDoes, <3>0 DEF Ends, Step, Course
    <3>14. CASE Unscratch(j)
      BY <3>14, UnscratchDoes, <3>0 DEF Goes, Ends, Step, Course
    <3>15. CASE BackOut(j)
      BY <3>15, BackOutDoes, <3>0 DEF Goes, Step, Course
    <3>16. CASE Spoil(j)
      BY <3>16, SpoilDoes, <3>0 DEF Goes, Step, Course
    <3>17. CASE Judge(j)
      BY <3>17, JudgeDoes, <3>0 DEF Ends, Turns, Step, Course
    <3>18. CASE EndNote(j)
      BY <3>18, EndNoteDoes, <3>0 DEF Goes, Step, Course
    <3>19. CASE Report(j)
      BY <3>19, ReportDoes, <3>0 DEF Leaves, Course
    <3>20. CASE Kill(j)
      BY <3>20, KillDoes, <3>0 DEF Leaves, Course
    <3>21. CASE Reap(j)
      BY <3>21, ReapDoes, <3>0 DEF Leaves, Course
    <3> QED BY <3>1, <3>2, <3>3, <3>4, <3>5, <3>6, <3>7, <3>8, <3>9, <3>10, <3>11, <3>12, <3>13, <3>14, <3>15, <3>16, <3>17, <3>18, <3>19, <3>20, <3>21, <1>1 DEF Acts, Worker
  <2> QED BY <2>1, <2>2 DEF Courses
<1>2. CASE job' = job /\ links' = links
  BY <1>2 DEF Courses, Course
<1> QED BY <1>1, <1>2, WhoActs

LEMMA OneOpens ==
  ASSUME TypeOK, OneOpen, [Next]_vars
  PROVE  OneOpen'
<1>1. ASSUME NEW j \in Jobs, Acts(j) PROVE OneOpen'
  <2>1. \A k \in Jobs : k # j => (Open(k)' <=> Open(k))
    BY <1>1, OthersStay DEF Open
  <2>2. Open(j)' => Open(j) \/ \A k \in Jobs : FileOf[k] = FileOf[j] => ~ Open(k)
    <3>1. CASE Start(j)
      BY <3>1, StartDoes DEF Open, Alive
    <3>2. CASE Check(j)
      BY <3>2, CheckDoes DEF Goes, Ends, Step, Open, Alive
    <3>3. CASE Stage(j)
      BY <3>3, StageDoes DEF Step, Turns, Open, Alive
    <3>4. CASE Copied(j)
      BY <3>4, CopiedDoes DEF Goes, Step, Open, Alive
    <3>5. CASE BeginNote(j)
      BY <3>5, BeginNoteDoes DEF Goes, Turns, Step, Open, Alive
    <3>6. CASE Link(j)
      BY <3>6, LinkDoes DEF Goes, Fails, Ends, Step, Open, Alive
    <3>7. CASE DropOld(j)
      BY <3>7, DropOldDoes DEF Goes, Succeeds, Ends, Turns, Step, Open, Alive
    <3>8. CASE Undo(j)
      BY <3>8, UndoDoes DEF Fails, Goes, Ends, Step, Open, Alive
    <3>9. CASE Reserve(j)
      BY <3>9, ReserveDoes DEF Goes, Fails, Ends, Step, Open, Alive
    <3>10. CASE LookFirst(j)
      BY <3>10, LookFirstDoes DEF Goes, Fails, Ends, Step, Open, Alive
    <3>11. CASE Rename(j)
      BY <3>11, RenameDoes DEF Succeeds, Fails, Goes, Ends, Turns, Step, Open, Alive
    <3>12. CASE GiveUp(j)
      BY <3>12, GiveUpDoes DEF Goes, Step, Open, Alive
    <3>13. CASE Discard(j)
      BY <3>13, DiscardDoes DEF Ends, Step, Open, Alive
    <3>14. CASE Unscratch(j)
      BY <3>14, UnscratchDoes DEF Goes, Ends, Step, Open, Alive
    <3>15. CASE BackOut(j)
      BY <3>15, BackOutDoes DEF Goes, Step, Open, Alive
    <3>16. CASE Spoil(j)
      BY <3>16, SpoilDoes DEF Goes, Step, Open, Alive
    <3>17. CASE Judge(j)
      BY <3>17, JudgeDoes DEF Ends, Turns, Step, Open, Alive
    <3>18. CASE EndNote(j)
      BY <3>18, EndNoteDoes DEF Goes, Step, Open, Alive
    <3>19. CASE Report(j)
      BY <3>19, ReportDoes DEF Leaves, Open, Alive
    <3>20. CASE Kill(j)
      BY <3>20, KillDoes DEF Leaves, Open, Alive
    <3>21. CASE Reap(j)
      BY <3>21, ReapDoes DEF Leaves, Open, Alive
    <3> QED BY <3>1, <3>2, <3>3, <3>4, <3>5, <3>6, <3>7, <3>8, <3>9, <3>10, <3>11, <3>12, <3>13, <3>14, <3>15, <3>16, <3>17, <3>18, <3>19, <3>20, <3>21, <1>1 DEF Acts, Worker
  <2> QED BY <2>1, <2>2 DEF OneOpen
<1>2. CASE job' = job
  BY <1>2 DEF OneOpen, Open
<1> QED BY <1>1, <1>2, WhoActs

LEMMA Ends2 ==
  ASSUME TypeOK, NEW j \in Jobs
  PROVE  /\ job[j].move = "install" => To(j) = Lib(job[j].dest) /\ From(j) \in {New(j), Staged(j)}
                                       /\ (job[j].staged = "none" <=> From(j) = New(j))
                                       /\ Goal(j) = job[j].dest
         /\ job[j].move = "restore" => To(j) = Lib(job[j].orig) /\ From(j) = Trash(j) /\ Goal(j) = job[j].orig
         /\ job[j].move = "trash" => To(j) = Trash(j) /\ From(j) = Lib(job[j].orig) /\ Goal(j) = job[j].orig
         /\ job[j].move = "none" => To(j) = Lib(job[j].orig) /\ From(j) = Lib(job[j].orig)
         /\ job[j].move \in {"install", "restore", "trash", "none"}
<1>1. job[j].move \in {"install", "restore", "trash", "none"}
  BY DEF TypeOK, Job
<1> QED BY <1>1, NameFacts DEF From, To, Goal

LEMMA FilesOfOthers ==
  ASSUME TypeOK, NEW j \in Jobs, Acts(j), NEW k \in Jobs, k # j
  PROVE  fs'[New(k)] = fs[New(k)] /\ fs'[Staged(k)] = fs[Staged(k)] /\ fs'[Trash(k)] = fs[Trash(k)]
<1>0. /\ New(k) \in Names /\ Staged(k) \in Names /\ Trash(k) \in Names
      /\ {New(k), Staged(k), Trash(k)} \cap {New(j), Staged(j), From(j), To(j), Lib(job[j].dest)} = {}
  BY NameFacts, Ends2
<1>1. CASE Start(j)
  BY <1>1, StartDoes, <1>0 DEF Wrote
<1>2. CASE Check(j)
  BY <1>2, CheckDoes, <1>0 DEF Goes, Ends, Step, Wrote
<1>3. CASE Stage(j)
  <2>1. fs' = fs \/ fs' = [fs EXCEPT ![Staged(j)] = Partial(j)] \/ fs' = [fs EXCEPT ![Staged(j)] = fs[New(j)]]
    BY <1>3, StageDoes
  <2>2. Staged(j) \notin {New(k), Staged(k), Trash(k)}
    BY <1>0
  <2>3. DOMAIN fs = Names
    BY DEF TypeOK
  <2> QED BY <2>1, <2>2, <2>3, <1>0
<1>4. CASE Copied(j)
  BY <1>4, CopiedDoes, <1>0 DEF Goes, Step, Wrote
<1>5. CASE BeginNote(j)
  BY <1>5, BeginNoteDoes, <1>0 DEF Goes, Turns, Step, Wrote
<1>6. CASE Link(j)
  <2>1. fs' = fs \/ Wrote(To(j), fs[From(j)])
    BY <1>6, LinkDoes
  <2> QED BY <2>1, <1>0 DEF Wrote
<1>7. CASE DropOld(j)
  BY <1>7, DropOldDoes, <1>0 DEF Goes, Succeeds, Ends, Turns, Step, Wrote
<1>8. CASE Undo(j)
  BY <1>8, UndoDoes, <1>0 DEF Fails, Goes, Ends, Step, Wrote
<1>9. CASE Reserve(j)
  BY <1>9, ReserveDoes, <1>0 DEF Goes, Fails, Ends, Step, Wrote
<1>10. CASE LookFirst(j)
  BY <1>10, LookFirstDoes, <1>0 DEF Goes, Fails, Ends, Step, Wrote
<1>11. CASE Rename(j)
  <2>1. fs' = fs \/ fs' = [fs EXCEPT ![To(j)] = fs[From(j)], ![From(j)] = Nothing]
    BY <1>11, RenameDoes
  <2>2. {To(j), From(j)} \cap {New(k), Staged(k), Trash(k)} = {}
    BY <1>0
  <2>3. DOMAIN fs = Names
    BY DEF TypeOK
  <2> QED BY <2>1, <2>2, <2>3, <1>0
<1>12. CASE GiveUp(j)
  BY <1>12, GiveUpDoes, <1>0 DEF Goes, Step, Wrote
<1>13. CASE Discard(j)
  BY <1>13, DiscardDoes, <1>0 DEF Ends, Step, Wrote
<1>14. CASE Unscratch(j)
  BY <1>14, UnscratchDoes, <1>0 DEF Goes, Ends, Step, Wrote
<1>15. CASE BackOut(j)
  BY <1>15, BackOutDoes, <1>0 DEF Goes, Step, Wrote
<1>16. CASE Spoil(j)
  BY <1>16, SpoilDoes, <1>0 DEF Goes, Step, Wrote
<1>17. CASE Judge(j)
  BY <1>17, JudgeDoes, <1>0 DEF Ends, Turns, Step, Wrote
<1>18. CASE EndNote(j)
  BY <1>18, EndNoteDoes, <1>0 DEF Goes, Step, Wrote
<1>19. CASE Report(j)
  BY <1>19, ReportDoes, <1>0 DEF Leaves, Wrote
<1>20. CASE Kill(j)
  BY <1>20, KillDoes, <1>0 DEF Leaves, Wrote
<1>21. CASE Reap(j)
  BY <1>21, ReapDoes, <1>0 DEF Leaves, Wrote
<1> QED BY <1>1, <1>2, <1>3, <1>4, <1>5, <1>6, <1>7, <1>8, <1>9, <1>10, <1>11, <1>12, <1>13, <1>14, <1>15, <1>16, <1>17, <1>18, <1>19, <1>20, <1>21 DEF Acts, Worker

LEMMA FilesSpread ==
  ASSUME TypeOK, NEW j \in Jobs, Acts(j), NEW n \in Names
  PROVE  fs'[n] \in {Nothing, Result(j), Copy(j), Partial(j)} \/ \E m \in Names : fs'[n] = fs[m]
<1>0. New(j) \in Names /\ Staged(j) \in Names /\ From(j) \in Names /\ To(j) \in Names /\ Lib(job[j].dest) \in Names
  BY NameFacts, PlaceFacts
<1>1. CASE Start(j)
  BY <1>1, StartDoes, <1>0 DEF Wrote
<1>2. CASE Check(j)
  BY <1>2, CheckDoes, <1>0 DEF Goes, Ends, Step, Wrote
<1>3. CASE Stage(j)
  BY <1>3, StageDoes, <1>0 DEF Step, Turns, Wrote, TypeOK
<1>4. CASE Copied(j)
  BY <1>4, CopiedDoes, <1>0 DEF Goes, Step, Wrote
<1>5. CASE BeginNote(j)
  BY <1>5, BeginNoteDoes, <1>0 DEF Goes, Turns, Step, Wrote
<1>6. CASE Link(j)
  BY <1>6, LinkDoes, <1>0 DEF Goes, Fails, Ends, Step, Wrote
<1>7. CASE DropOld(j)
  BY <1>7, DropOldDoes, <1>0 DEF Goes, Succeeds, Ends, Turns, Step, Wrote
<1>8. CASE Undo(j)
  BY <1>8, UndoDoes, <1>0 DEF Fails, Goes, Ends, Step, Wrote
<1>9. CASE Reserve(j)
  BY <1>9, ReserveDoes, <1>0 DEF Goes, Fails, Ends, Step, Wrote
<1>10. CASE LookFirst(j)
  BY <1>10, LookFirstDoes, <1>0 DEF Goes, Fails, Ends, Step, Wrote
<1>11. CASE Rename(j)
  BY <1>11, RenameDoes, <1>0 DEF Succeeds, Fails, Goes, Ends, Turns, Step, Wrote, TypeOK
<1>12. CASE GiveUp(j)
  BY <1>12, GiveUpDoes, <1>0 DEF Goes, Step, Wrote
<1>13. CASE Discard(j)
  BY <1>13, DiscardDoes, <1>0 DEF Ends, Step, Wrote
<1>14. CASE Unscratch(j)
  BY <1>14, UnscratchDoes, <1>0 DEF Goes, Ends, Step, Wrote
<1>15. CASE BackOut(j)
  BY <1>15, BackOutDoes, <1>0 DEF Goes, Step, Wrote
<1>16. CASE Spoil(j)
  BY <1>16, SpoilDoes, <1>0 DEF Goes, Step, Wrote
<1>17. CASE Judge(j)
  BY <1>17, JudgeDoes, <1>0 DEF Ends, Turns, Step, Wrote
<1>18. CASE EndNote(j)
  BY <1>18, EndNoteDoes, <1>0 DEF Goes, Step, Wrote
<1>19. CASE Report(j)
  BY <1>19, ReportDoes, <1>0 DEF Leaves, Wrote
<1>20. CASE Kill(j)
  BY <1>20, KillDoes, <1>0 DEF Leaves, Wrote
<1>21. CASE Reap(j)
  BY <1>21, ReapDoes, <1>0 DEF Leaves, Wrote
<1> QED BY <1>1, <1>2, <1>3, <1>4, <1>5, <1>6, <1>7, <1>8, <1>9, <1>10, <1>11, <1>12, <1>13, <1>14, <1>15, <1>16, <1>17, <1>18, <1>19, <1>20, <1>21 DEF Acts, Worker

LEMMA StaysBegun ==
  ASSUME TypeOK, NEW j \in Jobs, Acts(j)
  PROVE  job'[j].phase # "idle"
<1>1. CASE Start(j)
  BY <1>1, StartDoes
<1>2. CASE Check(j)
  BY <1>2, CheckDoes DEF Goes, Ends, Step
<1>3. CASE Stage(j)
  BY <1>3, StageDoes DEF Step, Turns
<1>4. CASE Copied(j)
  BY <1>4, CopiedDoes DEF Goes, Step
<1>5. CASE BeginNote(j)
  BY <1>5, BeginNoteDoes DEF Goes, Turns, Step
<1>6. CASE Link(j)
  BY <1>6, LinkDoes DEF Goes, Fails, Ends, Step
<1>7. CASE DropOld(j)
  BY <1>7, DropOldDoes DEF Goes, Succeeds, Ends, Turns, Step
<1>8. CASE Undo(j)
  BY <1>8, UndoDoes DEF Fails, Goes, Ends, Step
<1>9. CASE Reserve(j)
  BY <1>9, ReserveDoes DEF Goes, Fails, Ends, Step
<1>10. CASE LookFirst(j)
  BY <1>10, LookFirstDoes DEF Goes, Fails, Ends, Step
<1>11. CASE Rename(j)
  BY <1>11, RenameDoes DEF Succeeds, Fails, Goes, Ends, Turns, Step
<1>12. CASE GiveUp(j)
  BY <1>12, GiveUpDoes DEF Goes, Step
<1>13. CASE Discard(j)
  BY <1>13, DiscardDoes DEF Ends, Step
<1>14. CASE Unscratch(j)
  BY <1>14, UnscratchDoes DEF Goes, Ends, Step
<1>15. CASE BackOut(j)
  BY <1>15, BackOutDoes DEF Goes, Step
<1>16. CASE Spoil(j)
  BY <1>16, SpoilDoes DEF Goes, Step
<1>17. CASE Judge(j)
  BY <1>17, JudgeDoes DEF Ends, Turns, Step
<1>18. CASE EndNote(j)
  BY <1>18, EndNoteDoes DEF Goes, Step
<1>19. CASE Report(j)
  BY <1>19, ReportDoes DEF Leaves
<1>20. CASE Kill(j)
  BY <1>20, KillDoes DEF Leaves
<1>21. CASE Reap(j)
  BY <1>21, ReapDoes DEF Leaves
<1> QED BY <1>1, <1>2, <1>3, <1>4, <1>5, <1>6, <1>7, <1>8, <1>9, <1>10, <1>11, <1>12, <1>13, <1>14, <1>15, <1>16, <1>17, <1>18, <1>19, <1>20, <1>21 DEF Acts, Worker

LEMMA FilesOfRecovery ==
  ASSUME TypeOK, NEW j \in Jobs, Recover(j), NEW n \in Names
  PROVE  /\ fs'[n] = Nothing \/ \E m \in Names : fs'[n] = fs[m]
         /\ n \notin LibNames /\ n # Trash(j) => fs'[n] = fs[n]
<1>0. Trash(j) \in Names /\ (n \notin LibNames => n # Lib(rec.path))
  BY DEF Names, JobNames, Lib, New, Staged, Trash
<1>1. CASE Look(j)
  BY <1>1, LookDoes
<1>2. CASE LinkBack(j)
  <2>1. fs' = fs \/ (fs[Trash(j)] = rec.inode /\ fs' = [fs EXCEPT ![Lib(rec.path)] = rec.inode])
    BY <1>2, LinkBackDoes
  <2> QED BY <1>0, <2>1 DEF TypeOK
<1>3. CASE RenameBack(j)
  <2>1. fs' = fs \/ fs' = [fs EXCEPT ![Lib(rec.path)] = fs[Trash(j)], ![Trash(j)] = Nothing]
    BY <1>3, RenameBackDoes
  <2> QED BY <1>0, <2>1 DEF TypeOK
<1>4. CASE Verify(j)
  BY <1>0, <1>4, VerifyDoes DEF TypeOK
<1> QED BY <1>1, <1>2, <1>3, <1>4 DEF Recover

LEMMA MadeHolds ==
  ASSUME TypeOK, Made, [Next]_vars
  PROVE  Made'
<1>1. ASSUME NEW j \in Jobs, Acts(j) PROVE Made'
  <2>1. SUFFICES ASSUME NEW k \in Jobs, NEW n \in Names, fs'[n] \in ProductsOf(k)
                 PROVE  job'[k].phase # "idle"
    BY DEF Made, ProductsOf
  <2>2. CASE k = j
    BY <2>2, <1>1, StaysBegun
  <2>3. CASE k # j
    <3>1. \E m \in Names : fs[m] \in ProductsOf(k)
      BY <1>1, <2>1, <2>3, FilesSpread, ContentFacts DEF ProductsOf
    <3> QED BY <3>1, <1>1, <2>3, OthersStay DEF Made
  <2> QED BY <2>2, <2>3
<1>2. ASSUME job' = job, \A n \in Names : \A k \in Jobs :
               fs'[n] \in ProductsOf(k) => \E m \in Names : fs[m] \in ProductsOf(k)
      PROVE  Made'
  BY <1>2 DEF Made, ProductsOf
<1>3. ASSUME NEW j \in Jobs, SweepScratch(j) \/ Examine(j) \/ Recover(j), job' = job PROVE Made'
  <2>1. CASE SweepScratch(j)
    BY <2>1, <1>2, <1>3, NameFacts, ContentFacts DEF SweepScratch, TypeOK, ProductsOf
  <2>2. CASE Examine(j)
    BY <2>2, <1>2, <1>3, ExamineDoes
  <2>3. CASE Recover(j)
    BY <2>3, <1>2, <1>3, FilesOfRecovery, ContentFacts DEF ProductsOf
  <2> QED BY <1>3, <2>1, <2>2, <2>3
<1>4. ASSUME NEW p \in Paths, Arrive(p), job' = job PROVE Made'
  BY <1>4, <1>2, NameFacts, ContentFacts DEF Arrive, TypeOK, ProductsOf
<1>5. ASSUME SweepWorking, job' = job PROVE Made'
  BY <1>5, <1>2, NameFacts, ContentFacts DEF SweepWorking, TypeOK, ProductsOf
<1>6. ASSUME DaemonCrash \/ UNCHANGED vars, job' = job PROVE Made'
  BY <1>6, <1>2 DEF DaemonCrash, vars
<1> QED BY <1>1, <1>3, <1>4, <1>5, <1>6, WhoActs

LEMMA OwnFilesHold ==
  ASSUME TypeOK, OwnFiles, Courses, [Next]_vars
  PROVE  OwnFiles'
<1>1. ASSUME NEW j \in Jobs, Acts(j) PROVE OwnFiles'
  <2>1. \A k \in Jobs : k # j => Scratch(k)'
    BY <1>1, OthersStay, FilesOfOthers DEF OwnFiles, Scratch
  <2>2. Scratch(j)'
    <3>0. /\ Scratch(j) /\ New(j) \in Names /\ Staged(j) \in Names /\ New(j) # Staged(j)
          /\ job[j].move # "install" => {New(j), Staged(j)} \cap {From(j), To(j)} = {}
          /\ {New(j), Staged(j)} \cap {To(j), Lib(job[j].dest)} = {}
          /\ job[j].move = "install" => From(j) \in {New(j), Staged(j)}
          /\ job[j].phase = "copying" => job[j].staged = "copy"
      BY NameFacts, Ends2 DEF OwnFiles, Courses, Course
    <3>1. CASE Start(j)
      BY <3>1, StartDoes, <3>0 DEF Wrote, Scratch
    <3>2. CASE Check(j)
      BY <3>2, CheckDoes, <3>0 DEF Goes, Ends, Step, Wrote, Scratch
    <3>3. CASE Stage(j)
      BY <3>3, StageDoes, <3>0, ContentFacts DEF Step, Turns, Wrote, Scratch, TypeOK
    <3>4. CASE Copied(j)
      <4>1. job'[j].staged = job[j].staged /\ fs'[New(j)] = fs[New(j)] /\ job'[j].phase \notin {"checking", "staging"}
               /\ job[j].phase = "copying"
        BY <3>4, CopiedDoes, <3>0 DEF Goes, Step, Wrote
      <4>2. \/ fs'[Staged(j)] = Copy(j)
            \/ fs'[Staged(j)] = fs[Staged(j)] /\ job'[j].phase = "discarding"
        BY <3>4, CopiedDoes, <3>0 DEF Goes, Step, Wrote
      <4> QED BY <4>1, <4>2, <3>0, ContentFacts DEF Scratch
    <3>5. CASE BeginNote(j)
      BY <3>5, BeginNoteDoes, <3>0 DEF Goes, Turns, Step, Wrote, Scratch
    <3>6. CASE Link(j)
      BY <3>6, LinkDoes, <3>0 DEF Goes, Fails, Ends, Step, Wrote, Scratch
    <3>7. CASE DropOld(j)
      <4>1. job'[j].staged = job[j].staged /\ job'[j].phase \notin {"checking", "staging"} /\ job[j].phase = "dropping"
        BY <3>7, DropOldDoes DEF Goes, Succeeds, Ends, Turns, Step
      <4>2. fs'[New(j)] \in {Nothing, fs[New(j)]} /\ fs'[Staged(j)] \in {Nothing, fs[Staged(j)]}
        BY <3>7, DropOldDoes, <3>0 DEF Wrote
      <4> QED BY <4>1, <4>2, <3>0, ContentFacts DEF Scratch
    <3>8. CASE Undo(j)
      BY <3>8, UndoDoes, <3>0 DEF Fails, Goes, Ends, Step, Wrote, Scratch
    <3>9. CASE Reserve(j)
      BY <3>9, ReserveDoes, <3>0 DEF Goes, Fails, Ends, Step, Wrote, Scratch
    <3>10. CASE LookFirst(j)
      BY <3>10, LookFirstDoes, <3>0 DEF Goes, Fails, Ends, Step, Wrote, Scratch
    <3>11. CASE Rename(j)
      <4>1. job'[j].staged = job[j].staged /\ job'[j].phase \notin {"checking", "staging"} /\ job[j].phase = "renaming"
        BY <3>11, RenameDoes DEF Goes, Succeeds, Fails, Ends, Turns, Step
      <4>2. fs' = fs \/ fs' = [fs EXCEPT ![To(j)] = fs[From(j)], ![From(j)] = Nothing]
        BY <3>11, RenameDoes
      <4>3. fs'[New(j)] \in {Nothing, fs[New(j)]} /\ fs'[Staged(j)] \in {Nothing, fs[Staged(j)]}
        BY <4>2, <3>0 DEF TypeOK
      <4> QED BY <4>1, <4>3, <3>0, ContentFacts DEF Scratch
    <3>12. CASE GiveUp(j)
      BY <3>12, GiveUpDoes, <3>0 DEF Goes, Step, Wrote, Scratch
    <3>13. CASE Discard(j)
      BY <3>13, DiscardDoes, <3>0 DEF Ends, Step, Wrote, Scratch
    <3>14. CASE Unscratch(j)
      BY <3>14, UnscratchDoes, <3>0 DEF Goes, Ends, Step, Wrote, Scratch
    <3>15. CASE BackOut(j)
      BY <3>15, BackOutDoes, <3>0 DEF Goes, Step, Wrote, Scratch
    <3>16. CASE Spoil(j)
      <4>1. job'[j].staged = job[j].staged /\ fs'[New(j)] = fs[New(j)] /\ job'[j].phase = "judging" /\ job[j].phase = "spoiled"
        BY <3>16, SpoilDoes, <3>0 DEF Goes, Step, Wrote
      <4>2. fs'[Staged(j)] \in {Nothing, fs[Staged(j)]}
        BY <3>16, SpoilDoes, <3>0 DEF Wrote
      <4> QED BY <4>1, <4>2, <3>0, ContentFacts DEF Scratch
    <3>17. CASE Judge(j)
      BY <3>17, JudgeDoes, <3>0 DEF Ends, Turns, Step, Wrote, Scratch
    <3>18. CASE EndNote(j)
      BY <3>18, EndNoteDoes, <3>0 DEF Goes, Step, Wrote, Scratch
    <3>19. CASE Report(j)
      BY <3>19, ReportDoes, <3>0 DEF Leaves, Wrote, Scratch
    <3>20. CASE Kill(j)
      BY <3>20, KillDoes, <3>0 DEF Leaves, Wrote, Scratch, Alive
    <3>21. CASE Reap(j)
      BY <3>21, ReapDoes, <3>0 DEF Leaves, Wrote, Scratch
    <3> QED BY <3>1, <3>2, <3>3, <3>4, <3>5, <3>6, <3>7, <3>8, <3>9, <3>10, <3>11, <3>12, <3>13, <3>14, <3>15, <3>16, <3>17, <3>18, <3>19, <3>20, <3>21, <1>1 DEF Acts, Worker
  <2> QED BY <2>1, <2>2 DEF OwnFiles
<1>2. ASSUME job' = job, \A k \in Jobs : /\ fs'[New(k)] = fs[New(k)] \/ (fs'[New(k)] = Nothing /\ job[k].phase = "ended")
                                        /\ fs'[Staged(k)] \in {fs[Staged(k)], Nothing}
      PROVE  OwnFiles'
  BY <1>2, ContentFacts DEF OwnFiles, Scratch
<1>3. ASSUME NEW j \in Jobs, SweepScratch(j) \/ Examine(j) \/ Recover(j), job' = job PROVE OwnFiles'
  <2>1. CASE SweepScratch(j)
    BY <2>1, <1>2, <1>3, NameFacts DEF SweepScratch, TypeOK
  <2>2. CASE Examine(j)
    BY <2>2, <1>2, <1>3, ExamineDoes
  <2>3. CASE Recover(j)
    <3>1. \A k \in Jobs : fs'[New(k)] = fs[New(k)] /\ fs'[Staged(k)] = fs[Staged(k)]
      BY <2>3, FilesOfRecovery, NameFacts
    <3> QED BY <3>1, <1>2, <1>3
  <2> QED BY <1>3, <2>1, <2>2, <2>3
<1>4. ASSUME NEW p \in Paths, Arrive(p), job' = job PROVE OwnFiles'
  BY <1>4, <1>2, NameFacts DEF Arrive, TypeOK
<1>5. ASSUME SweepWorking, job' = job PROVE OwnFiles'
  BY <1>5, <1>2, NameFacts DEF SweepWorking, TypeOK
<1>6. ASSUME DaemonCrash \/ UNCHANGED vars, job' = job PROVE OwnFiles'
  BY <1>6, <1>2 DEF DaemonCrash, vars
<1> QED BY <1>1, <1>3, <1>4, <1>5, <1>6, WhoActs

-----------------------------------------------------------------------------
(* The names that keep a file *)

KeptNames == LibNames \cup {Trash(j) : j \in Jobs}

\* What a step of a worker may do to the names that keep a file.
Changes(j, n) ==
  \/ /\ job[j].phase = "moving" /\ n = To(j) /\ fs[n] = Nothing
     /\ CanLink(fs[From(j)]) /\ fs[From(j)] # Nothing /\ fs'[n] = fs[From(j)]
  \/ job[j].phase = "dropping" /\ n = From(j) /\ fs'[n] = Nothing /\ fs'[To(j)] = fs[To(j)]
  \/ job[j].phase = "undoing" /\ n = To(j) /\ fs'[n] = Nothing /\ fs'[From(j)] = fs[From(j)]
  \/ /\ job[j].phase = "renaming" /\ n \in {To(j), From(j)}
     /\ fs[From(j)] # Nothing /\ fs'[To(j)] = fs[From(j)] /\ fs'[From(j)] = Nothing
     /\ unguarded' = (unguarded \/ (links = "own" /\ job[j].move # "trash"))
  \/ job[j].phase = "backing" /\ n = Lib(job[j].dest) /\ fs'[n] = Nothing

LEMMA KeptFacts ==
  /\ \A n \in KeptNames : n \in Names
  /\ \A p \in Paths : Lib(p) \in KeptNames
  /\ \A j \in Jobs : Trash(j) \in KeptNames /\ New(j) \notin KeptNames /\ Staged(j) \notin KeptNames
BY NameFacts DEF KeptNames

LEMMA KeptChanges ==
  ASSUME TypeOK, Courses, NEW j \in Jobs, Acts(j), NEW n \in KeptNames, fs'[n] # fs[n]
  PROVE  Changes(j, n)
<1>0. /\ n \in Names /\ n # New(j) /\ n # Staged(j) /\ From(j) \in Names /\ To(j) \in Names
      /\ (job[j].phase \in {"moving", "renaming", "dropping", "undoing"} => From(j) # To(j))
  BY KeptFacts, PlaceFacts DEF Courses, Course
<1>1. CASE Start(j)
  BY <1>1, StartDoes, <1>0 DEF Wrote, Changes
<1>2. CASE Check(j)
  BY <1>2, CheckDoes, <1>0 DEF Wrote, Changes
<1>3. CASE Stage(j)
  BY <1>3, StageDoes, <1>0 DEF Wrote, Changes, TypeOK
<1>4. CASE Copied(j)
  BY <1>4, CopiedDoes, <1>0 DEF Wrote, Changes
<1>5. CASE BeginNote(j)
  BY <1>5, BeginNoteDoes, <1>0 DEF Wrote, Changes
<1>6. CASE Link(j)
  BY <1>6, LinkDoes, <1>0 DEF Wrote, Changes
<1>7. CASE DropOld(j)
  BY <1>7, DropOldDoes, <1>0 DEF Wrote, Changes
<1>8. CASE Undo(j)
  BY <1>8, UndoDoes, <1>0 DEF Wrote, Changes
<1>9. CASE Reserve(j)
  BY <1>9, ReserveDoes, <1>0 DEF Wrote, Changes
<1>10. CASE LookFirst(j)
  BY <1>10, LookFirstDoes, <1>0 DEF Wrote, Changes
<1>11. CASE Rename(j)
  BY <1>11, RenameDoes, <1>0 DEF Wrote, Changes, TypeOK
<1>12. CASE GiveUp(j)
  BY <1>12, GiveUpDoes, <1>0 DEF Wrote, Changes
<1>13. CASE Discard(j)
  BY <1>13, DiscardDoes, <1>0 DEF Wrote, Changes
<1>14. CASE Unscratch(j)
  BY <1>14, UnscratchDoes, <1>0 DEF Wrote, Changes
<1>15. CASE BackOut(j)
  BY <1>15, BackOutDoes, <1>0 DEF Wrote, Changes
<1>16. CASE Spoil(j)
  BY <1>16, SpoilDoes, <1>0 DEF Wrote, Changes
<1>17. CASE Judge(j)
  BY <1>17, JudgeDoes, <1>0 DEF Wrote, Changes
<1>18. CASE EndNote(j)
  BY <1>18, EndNoteDoes, <1>0 DEF Wrote, Changes
<1>19. CASE Report(j)
  BY <1>19, ReportDoes, <1>0 DEF Wrote, Changes
<1>20. CASE Kill(j)
  BY <1>20, KillDoes, <1>0 DEF Wrote, Changes
<1>21. CASE Reap(j)
  BY <1>21, ReapDoes, <1>0 DEF Wrote, Changes
<1> QED BY <1>1, <1>2, <1>3, <1>4, <1>5, <1>6, <1>7, <1>8, <1>9, <1>10, <1>11, <1>12, <1>13, <1>14, <1>15, <1>16, <1>17, <1>18, <1>19, <1>20, <1>21 DEF Acts, Worker

\* What the recovery may do to them.
LEMMA RecoveryKeeps ==
  ASSUME TypeOK, Recovering, NEW j \in Jobs, Recover(j), NEW n \in KeptNames
  PROVE  /\ fs'[n] \in {Nothing} \cup {fs[m] : m \in KeptNames}
         /\ \/ fs'[n] = fs[n]
            \/ rec.phase = "linking" /\ n = Lib(rec.path) /\ fs[n] = Nothing /\ CanLink(rec.inode)
               /\ fs'[n] = rec.inode
            \/ rec.phase = "renaming" /\ n \in {Lib(rec.path), Trash(j)} /\ unguarded'
            \/ /\ rec.phase = "verifying" /\ n = Trash(j) /\ fs'[n] = Nothing
               /\ fs[Lib(rec.path)] = rec.inode /\ fs'[Lib(rec.path)] = rec.inode
<1>0. /\ n \in Names /\ Trash(j) \in KeptNames /\ Trash(j) \in Names
      /\ rec.phase \in {"linking", "renaming", "verifying"} =>
           Lib(rec.path) \in KeptNames /\ Lib(rec.path) \in Names /\ Lib(rec.path) # Trash(j)
  BY KeptFacts, NameFacts DEF Recovering
<1>1. CASE Look(j)
  BY <1>1, LookDoes
<1>2. CASE LinkBack(j)
  <2>1. fs' = fs \/ (/\ fs[Trash(j)] = rec.inode /\ fs[Lib(rec.path)] = Nothing /\ CanLink(rec.inode)
                     /\ fs' = [fs EXCEPT ![Lib(rec.path)] = rec.inode])
    BY <1>2, LinkBackDoes
  <2> QED BY <1>0, <1>2, <2>1, LinkBackDoes DEF TypeOK
<1>3. CASE RenameBack(j)
  <2>1. fs' = fs \/ (/\ fs' = [fs EXCEPT ![Lib(rec.path)] = fs[Trash(j)], ![Trash(j)] = Nothing]
                     /\ unguarded')
    BY <1>3, RenameBackDoes
  <2> QED BY <1>0, <1>3, <2>1, RenameBackDoes DEF TypeOK
<1>4. CASE Verify(j)
  <2>1. fs' = fs \/ (fs[Lib(rec.path)] = rec.inode /\ fs' = [fs EXCEPT ![Trash(j)] = Nothing])
    BY <1>4, VerifyDoes
  <2> QED BY <1>0, <1>4, <2>1, VerifyDoes DEF TypeOK
<1> QED BY <1>1, <1>2, <1>3, <1>4 DEF Recover

LEMMA SourceIsWhole ==
  ASSUME TypeOK, OwnFiles, LibraryFilesAreWhole, Courses,
         NEW j \in Jobs, job[j].phase \in {"moving", "renaming"}, NEW k \in Jobs
  PROVE  fs[From(j)] # Partial(k)
<1>1. CASE job[j].move = "install"
  <2>1. From(j) \in {New(j), Staged(j)}
    BY <1>1, Ends2
  <2>2. fs[New(j)] # Partial(k) /\ fs[Staged(j)] # Partial(k)
    <3>1. Scratch(j)
      BY DEF OwnFiles
    <3> QED BY <3>1, ContentFacts DEF Scratch
  <2> QED BY <2>1, <2>2
<1>2. CASE job[j].move \in {"trash", "restore"}
  <2>1. From(j) \in KeptNames
    BY <1>2, Ends2, PlaceFacts, KeptFacts
  <2> QED BY <2>1 DEF LibraryFilesAreWhole, KeptNames
<1> QED BY <1>1, <1>2, Ends2 DEF Courses, Course

LEMMA WholeFilesHold ==
  ASSUME TypeOK, OwnFiles, Courses, LibraryFilesAreWhole, Recovering, [Next]_vars
  PROVE  LibraryFilesAreWhole'
<1>0. ASSUME \A n \in KeptNames : fs'[n] \in {Nothing} \cup {Guest(p) : p \in Paths} \cup {fs[m] : m \in KeptNames}
      PROVE  LibraryFilesAreWhole'
  BY <1>0, ContentFacts DEF LibraryFilesAreWhole, KeptNames
<1>1. ASSUME NEW j \in Jobs, Acts(j) PROVE LibraryFilesAreWhole'
  <2>1. SUFFICES ASSUME NEW n \in KeptNames, NEW k \in Jobs PROVE fs'[n] # Partial(k)
    BY DEF LibraryFilesAreWhole, KeptNames
  <2>2. CASE fs'[n] = fs[n]
    BY <2>2 DEF LibraryFilesAreWhole, KeptNames
  <2>3. CASE fs'[n] = Nothing
    BY <2>3, ContentFacts
  <2>4. CASE fs'[n] = fs[From(j)] /\ job[j].phase \in {"moving", "renaming"}
    BY <2>4, SourceIsWhole
  <2> QED BY <1>1, <2>2, <2>3, <2>4, KeptChanges DEF Changes
<1>2. ASSUME NEW j \in Jobs, Recover(j) PROVE LibraryFilesAreWhole'
  BY <1>2, <1>0, RecoveryKeeps
<1>3. ASSUME NEW j \in Jobs, SweepScratch(j) \/ Examine(j) PROVE LibraryFilesAreWhole'
  BY <1>3, <1>0, KeptFacts, ExamineDoes DEF SweepScratch, TypeOK
<1>4. ASSUME NEW p \in Paths, Arrive(p) PROVE LibraryFilesAreWhole'
  BY <1>4, <1>0, KeptFacts DEF Arrive, TypeOK
<1>5. CASE SweepWorking
  BY <1>5, <1>0, KeptFacts DEF SweepWorking, TypeOK
<1>6. CASE DaemonCrash \/ UNCHANGED vars
  BY <1>6, <1>0 DEF DaemonCrash, vars
<1> QED BY <1>1, <1>2, <1>3, <1>4, <1>5, <1>6, WhoActs

LEMMA WorkersLeave ==
  ASSUME NEW j \in Jobs, Acts(j)
  PROVE  /\ rec' = rec /\ (unguarded => unguarded') /\ links' = links
         /\ row' = row \/ Report(j)
         /\ job[j].phase # "ended"
<1>1. CASE Start(j)
  BY <1>1 DEF Start, Alive
<1>2. CASE Check(j)
  BY <1>2 DEF Check, Alive
<1>3. CASE Stage(j)
  BY <1>3 DEF Stage, Alive
<1>4. CASE Copied(j)
  BY <1>4 DEF Copied, Alive
<1>5. CASE BeginNote(j)
  BY <1>5 DEF BeginNote, Alive
<1>6. CASE Link(j)
  BY <1>6 DEF Link, Alive
<1>7. CASE DropOld(j)
  BY <1>7 DEF DropOld, Alive
<1>8. CASE Undo(j)
  BY <1>8 DEF Undo, Alive
<1>9. CASE Reserve(j)
  BY <1>9 DEF Reserve, Alive
<1>10. CASE LookFirst(j)
  BY <1>10 DEF LookFirst, Alive
<1>11. CASE Rename(j)
  <2>1. job[j].phase = "renaming" /\ links' = links /\ row' = row /\ rec' = rec
    BY <1>11 DEF Rename
  <2>2. unguarded => unguarded'
    BY <1>11, Zenon DEF Rename
  <2> QED BY <2>1, <2>2
<1>12. CASE GiveUp(j)
  BY <1>12 DEF GiveUp, Alive
<1>13. CASE Discard(j)
  BY <1>13 DEF Discard, Alive
<1>14. CASE Unscratch(j)
  BY <1>14 DEF Unscratch, Alive
<1>15. CASE BackOut(j)
  BY <1>15 DEF BackOut, Alive
<1>16. CASE Spoil(j)
  BY <1>16 DEF Spoil, Alive
<1>17. CASE Judge(j)
  BY <1>17 DEF Judge, Alive
<1>18. CASE EndNote(j)
  BY <1>18 DEF EndNote, Alive
<1>19. CASE Report(j)
  BY <1>19 DEF Report, Alive
<1>20. CASE Kill(j)
  BY <1>20 DEF Kill, Alive
<1>21. CASE Reap(j)
  BY <1>21 DEF Reap, Alive
<1> QED BY <1>1, <1>2, <1>3, <1>4, <1>5, <1>6, <1>7, <1>8, <1>9, <1>10, <1>11, <1>12, <1>13, <1>14, <1>15, <1>16, <1>17, <1>18, <1>19, <1>20, <1>21 DEF Acts, Worker

LEMMA OthersLeave ==
  ASSUME NEW j \in Jobs, SweepScratch(j) \/ Examine(j) \/ Recover(j)
  PROVE  row' = row /\ reserved' = reserved /\ (unguarded => unguarded')
BY DEF SweepScratch, Examine, Recover, Look, LinkBack, RenameBack, Verify

LEMMA GuardsAreLost ==
  ASSUME [Next]_vars, unguarded
  PROVE  unguarded'
<1>1. \A j \in Jobs : Acts(j) => unguarded'
  BY WorkersLeave
<1>2. \A j \in Jobs : SweepScratch(j) \/ Examine(j) \/ Recover(j) => unguarded'
  BY OthersLeave
<1>3. (\E p \in Paths : Arrive(p)) \/ SweepWorking \/ DaemonCrash \/ UNCHANGED vars => unguarded'
  BY DEF Arrive, SweepWorking, DaemonCrash, vars
<1> QED BY <1>1, <1>2, <1>3, WhoActs

LEMMA ReservesHold ==
  ASSUME TypeOK, Reserving, Courses, [Next]_vars
  PROVE  Reserving'
<1>1. ASSUME NEW j \in Jobs, Acts(j) PROVE Reserving'
  <2>0. /\ Goal(j) \in Paths /\ reserved \in [Paths -> Jobs \cup {"none"}] /\ "none" \notin Jobs
        /\ job[j].phase = "looking" => reserved[Goal(j)] = j
    BY PlaceFacts, ReplacementAssumption DEF TypeOK, Reserving, Courses, Course
  <2>1. ASSUME NEW k \in Jobs, k # j, job'[k].phase \in {"looking", "renaming"}, job'[k].move # "trash"
        PROVE  reserved'[Goal(k)'] = k
    <3>1. job'[k] = job[k] /\ Goal(k)' = Goal(k) /\ Goal(k) \in Paths
      BY <1>1, <2>1, OthersStay, PlaceFacts DEF Goal
    <3>2. reserved[Goal(k)] = k /\ Alive(k)
      BY <2>1, <3>1 DEF Reserving, Alive
    <3>3. \/ reserved' = reserved \/ reserved' = Freed(j)
          \/ /\ reserved[Goal(j)] \in {"none"} \cup {i \in Jobs : ~ Alive(i)}
             /\ reserved' = [reserved EXCEPT ![Goal(j)] = j]
      <4>1. CASE Reserve(j)
        BY <4>1 DEF Reserve
      <4>2. CASE LookFirst(j) \/ Rename(j)
        BY <4>2 DEF LookFirst, Rename
      <4>3. CASE Start(j) \/ Kill(j) \/ Reap(j) \/ (Worker(j) /\ ~ Reserve(j) /\ ~ LookFirst(j) /\ ~ Rename(j))
        BY <4>3 DEF Worker, Start, Check, Stage, Copied, BeginNote, Link, DropOld, Undo, GiveUp, Discard, Unscratch, BackOut, Spoil, Judge, EndNote, Report, Kill, Reap
      <4> QED BY <1>1, <4>1, <4>2, <4>3 DEF Acts
    <3> QED BY <2>0, <2>1, <3>1, <3>2, <3>3 DEF Freed
  <2>2. job'[j].phase \in {"looking", "renaming"} /\ job'[j].move # "trash" => reserved'[Goal(j)'] = j
    <3>1. CASE Start(j)
      BY <3>1, StartDoes, <2>0
    <3>2. CASE Check(j)
      BY <3>2, CheckDoes, <2>0 DEF Goes, Ends, Step
    <3>3. CASE Stage(j)
      BY <3>3, StageDoes, <2>0 DEF Step, Turns
    <3>4. CASE Copied(j)
      BY <3>4, CopiedDoes, <2>0 DEF Goes, Step
    <3>5. CASE BeginNote(j)
      BY <3>5, BeginNoteDoes, <2>0 DEF Goes, Turns, Step
    <3>6. CASE Link(j)
      BY <3>6, LinkDoes, <2>0 DEF Goes, Fails, Ends, Step
    <3>7. CASE DropOld(j)
      BY <3>7, DropOldDoes, <2>0 DEF Goes, Succeeds, Ends, Turns, Step
    <3>8. CASE Undo(j)
      BY <3>8, UndoDoes, <2>0 DEF Fails, Goes, Ends, Step
    <3>9. CASE Reserve(j)
      BY <3>9, ReserveDoes, <2>0 DEF Goes, Fails, Ends, Step, Goal
    <3>10. CASE LookFirst(j)
      BY <3>10, LookFirstDoes, <2>0 DEF Goes, Fails, Ends, Step, Goal
    <3>11. CASE Rename(j)
      BY <3>11, RenameDoes, <2>0 DEF Succeeds, Fails, Goes, Ends, Turns, Step
    <3>12. CASE GiveUp(j)
      BY <3>12, GiveUpDoes, <2>0 DEF Goes, Step
    <3>13. CASE Discard(j)
      BY <3>13, DiscardDoes, <2>0 DEF Ends, Step
    <3>14. CASE Unscratch(j)
      BY <3>14, UnscratchDoes, <2>0 DEF Goes, Ends, Step
    <3>15. CASE BackOut(j)
      BY <3>15, BackOutDoes, <2>0 DEF Goes, Step
    <3>16. CASE Spoil(j)
      BY <3>16, SpoilDoes, <2>0 DEF Goes, Step
    <3>17. CASE Judge(j)
      BY <3>17, JudgeDoes, <2>0 DEF Ends, Turns, Step
    <3>18. CASE EndNote(j)
      BY <3>18, EndNoteDoes, <2>0 DEF Goes, Step
    <3>19. CASE Report(j)
      BY <3>19, ReportDoes, <2>0 DEF Leaves
    <3>20. CASE Kill(j)
      BY <3>20, KillDoes, <2>0 DEF Leaves
    <3>21. CASE Reap(j)
      BY <3>21, ReapDoes, <2>0 DEF Leaves
    <3> QED BY <3>1, <3>2, <3>3, <3>4, <3>5, <3>6, <3>7, <3>8, <3>9, <3>10, <3>11, <3>12, <3>13, <3>14, <3>15, <3>16, <3>17, <3>18, <3>19, <3>20, <3>21, <1>1 DEF Acts, Worker
  <2> QED BY <2>1, <2>2 DEF Reserving
<1>2. ASSUME NEW j \in Jobs, SweepScratch(j) \/ Examine(j) \/ Recover(j), job' = job PROVE Reserving'
  BY <1>2, OthersLeave DEF Reserving, Goal
<1>3. ASSUME NEW p \in Paths, Arrive(p) PROVE Reserving'
  BY <1>3 DEF Arrive, Reserving, Goal
<1>4. CASE SweepWorking
  BY <1>4 DEF SweepWorking, Reserving, Open
<1>5. CASE DaemonCrash \/ UNCHANGED vars
  BY <1>5 DEF DaemonCrash, vars, Reserving, Goal
<1> QED BY <1>1, <1>2, <1>3, <1>4, <1>5, WhoActs

LEMMA OnlyLookingRenames ==
  ASSUME TypeOK, NEW j \in Jobs, Acts(j), job'[j].phase = "renaming", job'[j].move # "trash"
  PROVE  LookFirst(j)
<1>1. CASE Start(j)
  BY <1>1, StartDoes
<1>2. CASE Check(j)
  BY <1>2, CheckDoes DEF Goes, Ends, Step
<1>3. CASE Stage(j)
  BY <1>3, StageDoes DEF Step, Turns
<1>4. CASE Copied(j)
  BY <1>4, CopiedDoes DEF Goes, Step
<1>5. CASE BeginNote(j)
  BY <1>5, BeginNoteDoes DEF Goes, Turns, Step
<1>6. CASE Link(j)
  BY <1>6, LinkDoes DEF Goes, Fails, Ends, Step
<1>7. CASE DropOld(j)
  BY <1>7, DropOldDoes DEF Goes, Succeeds, Ends, Turns, Step
<1>8. CASE Undo(j)
  BY <1>8, UndoDoes DEF Fails, Goes, Ends, Step
<1>9. CASE Reserve(j)
  BY <1>9, ReserveDoes DEF Goes, Fails, Ends, Step
<1>10. CASE LookFirst(j)
  BY <1>10
<1>11. CASE Rename(j)
  BY <1>11, RenameDoes DEF Succeeds, Fails, Goes, Ends, Turns, Step
<1>12. CASE GiveUp(j)
  BY <1>12, GiveUpDoes DEF Goes, Step
<1>13. CASE Discard(j)
  BY <1>13, DiscardDoes DEF Ends, Step
<1>14. CASE Unscratch(j)
  BY <1>14, UnscratchDoes DEF Goes, Ends, Step
<1>15. CASE BackOut(j)
  BY <1>15, BackOutDoes DEF Goes, Step
<1>16. CASE Spoil(j)
  BY <1>16, SpoilDoes DEF Goes, Step
<1>17. CASE Judge(j)
  BY <1>17, JudgeDoes DEF Ends, Turns, Step
<1>18. CASE EndNote(j)
  BY <1>18, EndNoteDoes DEF Goes, Step
<1>19. CASE Report(j)
  BY <1>19, ReportDoes DEF Leaves
<1>20. CASE Kill(j)
  BY <1>20, KillDoes DEF Leaves
<1>21. CASE Reap(j)
  BY <1>21, ReapDoes DEF Leaves
<1> QED BY <1>1, <1>2, <1>3, <1>4, <1>5, <1>6, <1>7, <1>8, <1>9, <1>10, <1>11, <1>12, <1>13, <1>14, <1>15, <1>16, <1>17, <1>18, <1>19, <1>20, <1>21 DEF Acts, Worker

LEMMA ClearHolds ==
  ASSUME TypeOK, Reserving, Courses, Recovering, Clear, [Next]_vars
  PROVE  Clear'
<1>0. SUFFICES ASSUME links' = "none", ~ unguarded', NEW k \in Jobs, job'[k].phase = "renaming", job'[k].move # "trash"
               PROVE  fs'[Lib(Goal(k)')] \in {Nothing, Guest(Goal(k)')}
  BY DEF Clear
<1>a. ~ unguarded
  BY <1>0, GuardsAreLost
<1>b. Goal(k) \in Paths /\ Lib(Goal(k)) \in Names /\ Lib(Goal(k)) \in KeptNames
  BY PlaceFacts, NameFacts, KeptFacts
<1>1. ASSUME NEW j \in Jobs, Acts(j) PROVE fs'[Lib(Goal(k)')] \in {Nothing, Guest(Goal(k)')}
  <2>1. CASE k # j
    <3>1. job'[k] = job[k] /\ Goal(k)' = Goal(k) /\ links = "none"
      BY <1>0, <1>1, <2>1, OthersStay DEF Goal
    <3>2. fs[Lib(Goal(k))] \in {Nothing, Guest(Goal(k))}
      BY <1>0, <1>a, <3>1 DEF Clear
    <3>3. ASSUME fs'[Lib(Goal(k))] # fs[Lib(Goal(k))] PROVE fs'[Lib(Goal(k))] = Nothing
      <4>1. Changes(j, Lib(Goal(k)))
        BY <1>1, <1>b, <3>3, KeptChanges
      <4>2. ~ CanLink(fs[From(j)]) \/ fs[From(j)] = Nothing
        BY <3>1 DEF CanLink
      <4>3. ~ (job[j].phase = "renaming" /\ Lib(Goal(k)) = To(j))
        <5>1. SUFFICES ASSUME job[j].phase = "renaming", Lib(Goal(k)) = To(j) PROVE FALSE
          OBVIOUS
        <5>2. job[j].move # "trash" /\ Goal(j) = Goal(k)
          BY <5>1, Ends2, NameFacts DEF To
        <5> QED BY <1>0, <2>1, <3>1, <5>1, <5>2 DEF Reserving
      <4> QED BY <4>1, <4>2, <4>3 DEF Changes
    <3> QED BY <3>1, <3>2, <3>3
  <2>2. CASE k = j
    <3>1. LookFirst(j)
      BY <1>0, <1>1, <2>2, OnlyLookingRenames
    <3>2. fs' = fs /\ fs[To(j)] = Nothing /\ Goes(j, "renaming")
      BY <1>0, <2>2, <3>1, LookFirstDoes DEF Fails, Goes, Ends, Step
    <3>3. Goal(j)' = Goal(j) /\ To(j) = Lib(Goal(j))
      BY <1>0, <2>2, <3>2 DEF Goes, Step, Goal, To
    <3> QED BY <2>2, <3>2, <3>3
  <2> QED BY <2>1, <2>2
<1>2. ASSUME NEW j \in Jobs, Recover(j), job' = job, links' = links PROVE fs'[Lib(Goal(k)')] \in {Nothing, Guest(Goal(k)')}
  <2>1. Goal(k)' = Goal(k) /\ fs[Lib(Goal(k))] \in {Nothing, Guest(Goal(k))} /\ Lib(Goal(k)) # Trash(j)
    BY <1>0, <1>a, <1>2, NameFacts DEF Clear, Goal
  <2>2. CanLink(rec.inode) => rec.inode = Nothing
    BY <1>0, <1>2 DEF CanLink
  <2> QED BY <1>0, <1>2, <1>b, <2>1, <2>2, RecoveryKeeps
<1>3. ASSUME job' = job, links' = links, fs'[Lib(Goal(k))] \in {fs[Lib(Goal(k))], Nothing, Guest(Goal(k))}
      PROVE  fs'[Lib(Goal(k)')] \in {Nothing, Guest(Goal(k)')}
  BY <1>0, <1>a, <1>3 DEF Clear, Goal
<1>4. ASSUME NEW j \in Jobs, SweepScratch(j) \/ Examine(j), job' = job PROVE fs'[Lib(Goal(k)')] \in {Nothing, Guest(Goal(k)')}
  BY <1>4, <1>3, <1>b DEF SweepScratch, Examine, TypeOK
<1>5. ASSUME NEW p \in Paths, Arrive(p) PROVE fs'[Lib(Goal(k)')] \in {Nothing, Guest(Goal(k)')}
  BY <1>5, <1>3, <1>b, NameFacts DEF Arrive, TypeOK
<1>6. CASE SweepWorking
  BY <1>6, <1>3, <1>b DEF SweepWorking, TypeOK
<1>7. CASE DaemonCrash \/ UNCHANGED vars
  BY <1>7, <1>3 DEF DaemonCrash, vars
<1> QED BY <1>1, <1>2, <1>4, <1>5, <1>6, <1>7, WhoActs

\* No step but a rename puts a file where another one is.
NoOverwriting ==
  \A p \in Paths :
    fs[Lib(p)] # Nothing /\ fs'[Lib(p)] # fs[Lib(p)]
    => \/ fs'[Lib(p)] = Nothing
       \/ unguarded'
       \/ links # "all" /\ fs[Lib(p)] = Guest(p)

LEMMA NothingOverwrites ==
  ASSUME TypeOK, Reserving, Courses, Recovering, Clear, [Next]_vars
  PROVE  NoOverwriting
<1>0. SUFFICES ASSUME NEW p \in Paths, fs[Lib(p)] # Nothing, fs'[Lib(p)] # fs[Lib(p)],
                      fs'[Lib(p)] # Nothing, ~ unguarded'
               PROVE  links # "all" /\ fs[Lib(p)] = Guest(p)
  BY DEF NoOverwriting
<1>a. ~ unguarded /\ Lib(p) \in Names /\ Lib(p) \in KeptNames
  BY <1>0, GuardsAreLost, NameFacts, KeptFacts
<1>1. ASSUME NEW j \in Jobs, Acts(j) PROVE links # "all" /\ fs[Lib(p)] = Guest(p)
  <2>1. Changes(j, Lib(p))
    BY <1>0, <1>1, <1>a, KeptChanges
  <2>2. /\ job[j].phase = "renaming" /\ Lib(p) = To(j)
        /\ unguarded' = (unguarded \/ (links = "own" /\ job[j].move # "trash"))
    BY <1>0, <2>1 DEF Changes
  <2>3. job[j].move # "trash" /\ Goal(j) = p
    BY <2>2, Ends2, NameFacts DEF To
  <2>4. links = "none"
    BY <1>0, <2>2, <2>3 DEF TypeOK, Courses, Course
  <2> QED BY <1>0, <1>a, <2>2, <2>3, <2>4 DEF Clear
<1>2. ASSUME NEW j \in Jobs, Recover(j) PROVE FALSE
  BY <1>0, <1>2, <1>a, RecoveryKeeps, NameFacts
<1>3. ASSUME NEW j \in Jobs, SweepScratch(j) \/ Examine(j) PROVE FALSE
  BY <1>0, <1>3, <1>a DEF SweepScratch, Examine, TypeOK
<1>4. ASSUME NEW q \in Paths, Arrive(q) PROVE FALSE
  BY <1>0, <1>4, <1>a, NameFacts DEF Arrive, TypeOK
<1>5. CASE SweepWorking
  BY <1>0, <1>5, <1>a DEF SweepWorking, TypeOK
<1>6. CASE DaemonCrash \/ UNCHANGED vars
  BY <1>0, <1>6 DEF DaemonCrash, vars
<1> QED BY <1>1, <1>2, <1>3, <1>4, <1>5, <1>6, WhoActs

LEMMA RecoveringHolds ==
  ASSUME TypeOK, Recovering, [Next]_vars
  PROVE  Recovering'
<1>1. ASSUME NEW j \in Jobs, Acts(j) PROVE Recovering'
  <2>1. rec' = rec /\ job[j].phase # "ended" /\ \A k \in Jobs : k # j => job'[k] = job[k]
    BY <1>1, WorkersLeave, OthersStay
  <2> QED BY <2>1 DEF Recovering
<1>2. ASSUME NEW j \in Jobs, SweepScratch(j) PROVE Recovering'
  BY <1>2 DEF SweepScratch, Recovering
<1>3. ASSUME NEW j \in Jobs, Examine(j) PROVE Recovering'
  BY <1>3 DEF Examine, IdleRec, Recovering
<1>4. ASSUME NEW j \in Jobs, Recover(j), job' = job PROVE Recovering'
  <2>1. CASE Look(j)
    <3>1. CASE rec' = IdleRec
      BY <3>1 DEF Recovering, IdleRec
    <3>2. CASE rec' = [rec EXCEPT !.phase = "linking", !.path = row[FileOf[j]].path, !.inode = row[FileOf[j]].inode]
      <4>1. row[FileOf[j]].path \in Paths /\ rec \in Recovery
        BY PlaceFacts DEF TypeOK
      <4>2. rec'.job = rec.job /\ rec'.path = row[FileOf[j]].path
        BY <3>2, <4>1 DEF Recovery
      <4>3. rec.phase = "looking"
        BY <2>1 DEF Look
      <4> QED BY <1>4, <4>1, <4>2, <4>3 DEF Recovering
    <3> QED BY <2>1, <3>1, <3>2 DEF Look, Settle, Refuse
  <2>2. CASE LinkBack(j)
    BY <1>4, <2>2, LinkBackDoes DEF Recovering, Follows
  <2>3. CASE RenameBack(j)
    BY <1>4, <2>3, RenameBackDoes DEF Recovering, Follows
  <2>4. CASE Verify(j)
    BY <2>4, VerifyDoes DEF Recovering
  <2> QED BY <1>4, <2>1, <2>2, <2>3, <2>4 DEF Recover
<1>5. ASSUME NEW p \in Paths, Arrive(p) PROVE Recovering'
  BY <1>5 DEF Arrive, Recovering
<1>6. CASE SweepWorking \/ UNCHANGED vars
  BY <1>6 DEF SweepWorking, Recovering, vars
<1>7. CASE DaemonCrash
  BY <1>7 DEF DaemonCrash, IdleRec, Recovering
<1> QED BY <1>1, <1>2, <1>3, <1>4, <1>5, <1>6, <1>7, WhoActs

LEMMA VerifyingHolds ==
  ASSUME TypeOK, Recovering, Verifying, [Next]_vars
  PROVE  Verifying'
<1>0. SUFFICES ASSUME rec'.phase = "verifying", ~ unguarded'
               PROVE  fs'[Trash(rec'.job)] \in {Nothing, rec'.inode}
  BY DEF Verifying
<1>a. ~ unguarded
  BY <1>0, GuardsAreLost
<1>b. ASSUME rec' = rec, fs'[Trash(rec.job)] = fs[Trash(rec.job)]
      PROVE  fs'[Trash(rec'.job)] \in {Nothing, rec'.inode}
  BY <1>0, <1>a, <1>b DEF Verifying
<1>c. rec' = rec => rec.job \in Jobs /\ job[rec.job].phase = "ended" /\ Trash(rec.job) \in Names
  BY <1>0, NameFacts DEF Recovering
<1>1. ASSUME NEW j \in Jobs, Acts(j) PROVE fs'[Trash(rec'.job)] \in {Nothing, rec'.inode}
  <2>1. rec' = rec /\ job[j].phase # "ended"
    BY <1>1, WorkersLeave
  <2>2. fs'[Trash(rec.job)] = fs[Trash(rec.job)]
    BY <1>1, <1>c, <2>1, FilesOfOthers
  <2> QED BY <1>b, <2>1, <2>2
<1>2. ASSUME NEW j \in Jobs, SweepScratch(j) PROVE fs'[Trash(rec'.job)] \in {Nothing, rec'.inode}
  BY <1>2, <1>b, <1>c, NameFacts DEF SweepScratch, TypeOK
<1>3. ASSUME NEW j \in Jobs, Examine(j) PROVE FALSE
  BY <1>0, <1>3, ExamineDoes
<1>4. ASSUME NEW j \in Jobs, Recover(j) PROVE fs'[Trash(rec'.job)] \in {Nothing, rec'.inode}
  <2>1. CASE Look(j)
    BY <1>0, <2>1, LookDoes
  <2>2. CASE LinkBack(j)
    <3>1. /\ fs[Trash(j)] = rec.inode /\ fs' = [fs EXCEPT ![Lib(rec.path)] = rec.inode]
          /\ rec'.job = j /\ rec'.inode = rec.inode
      BY <1>0, <2>2, LinkBackDoes DEF Follows
    <3> QED BY <3>1, NameFacts DEF TypeOK
  <2>3. CASE RenameBack(j)
    BY <1>0, <2>3, RenameBackDoes
  <2>4. CASE Verify(j)
    BY <1>0, <2>4, VerifyDoes
  <2> QED BY <1>4, <2>1, <2>2, <2>3, <2>4 DEF Recover
<1>5. ASSUME NEW p \in Paths, Arrive(p) PROVE fs'[Trash(rec'.job)] \in {Nothing, rec'.inode}
  BY <1>5, <1>b, <1>c, NameFacts DEF Arrive, TypeOK
<1>6. CASE SweepWorking
  BY <1>6, <1>b, <1>c, NameFacts DEF SweepWorking, TypeOK
<1>7. CASE UNCHANGED vars
  BY <1>7, <1>b DEF vars
<1>8. CASE DaemonCrash
  BY <1>0, <1>8 DEF DaemonCrash, IdleRec
<1> QED BY <1>1, <1>2, <1>3, <1>4, <1>5, <1>6, <1>7, <1>8, WhoActs

LEMMA BeforesStay ==
  ASSUME TypeOK, Courses, NEW j \in Jobs, Acts(j), Before(j)'
  PROVE  Before(j) /\ fs'[Trash(j)] = fs[Trash(j)]
<1>0. /\ New(j) \in Names /\ Staged(j) \in Names /\ Trash(j) \in Names
      /\ New(j) # Trash(j) /\ Staged(j) # Trash(j)
  BY NameFacts
<1>1. CASE Start(j)
  BY <1>1, StartDoes, <1>0 DEF Wrote, Before
<1>2. CASE Check(j)
  BY <1>2, CheckDoes, <1>0 DEF Goes, Ends, Step, Wrote, Before
<1>3. CASE Stage(j)
  BY <1>3, StageDoes, <1>0 DEF Step, Turns, Wrote, Before, TypeOK
<1>4. CASE Copied(j)
  BY <1>4, CopiedDoes, <1>0 DEF Goes, Step, Wrote, Before
<1>5. CASE BeginNote(j)
  BY <1>5, BeginNoteDoes, <1>0 DEF Goes, Turns, Step, Wrote, Before
<1>6. CASE Link(j)
  BY <1>6, LinkDoes, <1>0 DEF Goes, Fails, Ends, Step, Wrote, Before
<1>7. CASE DropOld(j)
  BY <1>7, DropOldDoes DEF Goes, Succeeds, Ends, Turns, Step, Before
<1>8. CASE Undo(j)
  BY <1>8, UndoDoes DEF Fails, Goes, Ends, Step, Before
<1>9. CASE Reserve(j)
  BY <1>9, ReserveDoes, <1>0 DEF Goes, Fails, Ends, Step, Wrote, Before
<1>10. CASE LookFirst(j)
  BY <1>10, LookFirstDoes, <1>0 DEF Goes, Fails, Ends, Step, Wrote, Before, Courses, Course
<1>11. CASE Rename(j)
  <2>1. ~ (job'[j].phase = "moving" /\ job'[j].move = "trash") /\ job'[j].phase \notin {"idle", "checking", "staging", "copying", "noting", "renaming"}
    BY <1>11, RenameDoes DEF Succeeds, Fails, Goes, Ends, Turns, Step
  <2> QED BY <2>1 DEF Before
<1>12. CASE GiveUp(j)
  BY <1>12, GiveUpDoes, <1>0 DEF Goes, Step, Wrote, Before
<1>13. CASE Discard(j)
  BY <1>13, DiscardDoes, <1>0 DEF Ends, Step, Wrote, Before
<1>14. CASE Unscratch(j)
  BY <1>14, UnscratchDoes, <1>0 DEF Goes, Ends, Step, Wrote, Before
<1>15. CASE BackOut(j)
  BY <1>15, BackOutDoes, <1>0 DEF Goes, Step, Wrote, Before
<1>16. CASE Spoil(j)
  BY <1>16, SpoilDoes, <1>0 DEF Goes, Step, Wrote, Before
<1>17. CASE Judge(j)
  BY <1>17, JudgeDoes, <1>0 DEF Ends, Turns, Step, Wrote, Before
<1>18. CASE EndNote(j)
  BY <1>18, EndNoteDoes, <1>0 DEF Goes, Step, Wrote, Before
<1>19. CASE Report(j)
  BY <1>19, ReportDoes, <1>0 DEF Leaves, Wrote, Before
<1>20. CASE Kill(j)
  BY <1>20, KillDoes, <1>0 DEF Leaves, Wrote, Before
<1>21. CASE Reap(j)
  BY <1>21, ReapDoes, <1>0 DEF Leaves, Wrote, Before
<1> QED BY <1>1, <1>2, <1>3, <1>4, <1>5, <1>6, <1>7, <1>8, <1>9, <1>10, <1>11, <1>12, <1>13, <1>14, <1>15, <1>16, <1>17, <1>18, <1>19, <1>20, <1>21 DEF Acts, Worker

LEMMA TrashStaysFree ==
  ASSUME TypeOK, Courses, Recovering, TrashIsFree, [Next]_vars
  PROVE  TrashIsFree'
<1>0. SUFFICES ASSUME NEW k \in Jobs, Before(k)' PROVE fs'[Trash(k)] = Nothing
  BY DEF TrashIsFree
<1>a. Trash(k) \in Names /\ Trash(k) \in KeptNames
  BY NameFacts, KeptFacts
<1>b. job' = job /\ fs'[Trash(k)] \in {Nothing, fs[Trash(k)]} => fs'[Trash(k)] = Nothing
  BY <1>0 DEF TrashIsFree, Before
<1>1. ASSUME NEW j \in Jobs, Acts(j) PROVE fs'[Trash(k)] = Nothing
  <2>1. CASE k = j
    BY <1>0, <1>1, <2>1, BeforesStay DEF TrashIsFree
  <2>2. CASE k # j
    <3>1. job'[k] = job[k] /\ fs'[Trash(k)] = fs[Trash(k)]
      BY <1>1, <2>2, OthersStay, FilesOfOthers
    <3> QED BY <1>0, <3>1 DEF TrashIsFree, Before
  <2> QED BY <2>1, <2>2
<1>2. ASSUME NEW j \in Jobs, SweepScratch(j) \/ Examine(j), job' = job PROVE fs'[Trash(k)] = Nothing
  BY <1>2, <1>a, <1>b, NameFacts DEF SweepScratch, Examine, TypeOK
<1>3. ASSUME NEW j \in Jobs, Recover(j), job' = job PROVE fs'[Trash(k)] = Nothing
  <2>1. k # j
    <3>1. rec.job = j /\ rec.phase # "idle"
      BY <1>3 DEF Recover, Look, LinkBack, RenameBack, Verify
    <3> QED BY <1>0, <1>3, <3>1 DEF Recovering, Before
  <2>2. Trash(k) # Trash(j) /\ Trash(k) \notin LibNames
    BY <2>1, NameFacts
  <2> QED BY <1>3, <1>a, <1>b, <2>2, FilesOfRecovery
<1>4. ASSUME NEW p \in Paths, Arrive(p), job' = job PROVE fs'[Trash(k)] = Nothing
  BY <1>4, <1>a, <1>b, NameFacts DEF Arrive, TypeOK
<1>5. ASSUME SweepWorking, job' = job PROVE fs'[Trash(k)] = Nothing
  BY <1>5, <1>a, <1>b, NameFacts DEF SweepWorking, TypeOK
<1>6. ASSUME DaemonCrash \/ UNCHANGED vars, job' = job PROVE fs'[Trash(k)] = Nothing
  BY <1>6, <1>b DEF DaemonCrash, vars
<1> QED BY <1>1, <1>2, <1>3, <1>4, <1>5, <1>6, WhoActs

LEMMA RowsStayRuns ==
  ASSUME TypeOK, Made, OneOpen, RowsAreRuns, [Next]_vars
  PROVE  RowsAreRuns'
<1>1. ASSUME NEW j \in Jobs, Acts(j) PROVE RowsAreRuns'
  <2>1. job[j].phase # "ended" /\ \A k \in Jobs : k # j => job'[k] = job[k]
    BY <1>1, WorkersLeave, OthersStay
  <2>2. CASE row' = row
    BY <2>1, <2>2 DEF RowsAreRuns, ProductsOf
  <2>3. CASE Report(j)
    <3>1. SUFFICES ASSUME NEW k \in Jobs, row'[FileOf[k]].inode \in ProductsOf(k)
                   PROVE  job'[k].phase = "ended"
      BY DEF RowsAreRuns, ProductsOf
    <3>2. CASE k = j
      BY <2>3, <3>2, ReportDoes DEF Leaves
    <3>3. CASE k # j /\ row'[FileOf[k]] = row[FileOf[k]]
      BY <2>1, <3>1, <3>3 DEF RowsAreRuns
    <3>4. CASE k # j /\ row'[FileOf[k]] # row[FileOf[k]]
      <4>1. FileOf[k] = FileOf[j] /\ \E p \in Paths : row'[FileOf[k]].inode = fs[Lib(p)]
        <5> DEFINE p == IF job[j].out \in {"replaced", "linked"} THEN job[j].dest ELSE job[j].orig
        <5>1. p \in Paths
          BY PlaceFacts
        <5>2. \/ row' = row
              \/ row' = [row EXCEPT ![FileOf[j]] = [path |-> p, inode |-> fs[Lib(p)]]]
          BY <2>3 DEF Report
        <5> HIDE DEF p
        <5>3. FileOf[k] \in Files /\ FileOf[j] \in Files
          BY ReplacementAssumption
        <5> QED BY <3>4, <5>1, <5>2, <5>3 DEF TypeOK
      <4>2. job[k].phase # "idle"
        BY <3>1, <4>1, NameFacts DEF Made
      <4>3. Open(j)
        BY <2>3 DEF Report, Open
      <4>4. ~ Open(k)
        BY <3>4, <4>1, <4>3 DEF OneOpen
      <4> QED BY <2>1, <3>4, <4>2, <4>4 DEF Open
    <3> QED BY <3>2, <3>3, <3>4
  <2> QED BY <1>1, <2>2, <2>3, WorkersLeave
<1>2. ASSUME job' = job, row' = row PROVE RowsAreRuns'
  BY <1>2 DEF RowsAreRuns, ProductsOf
<1>3. ASSUME NEW j \in Jobs, SweepScratch(j) \/ Examine(j) \/ Recover(j), job' = job PROVE RowsAreRuns'
  BY <1>2, <1>3, OthersLeave
<1>4. ASSUME NEW p \in Paths, Arrive(p) PROVE RowsAreRuns'
  BY <1>4, <1>2 DEF Arrive
<1>5. CASE SweepWorking \/ DaemonCrash \/ UNCHANGED vars
  BY <1>5, <1>2 DEF SweepWorking, DaemonCrash, vars
<1> QED BY <1>1, <1>3, <1>4, <1>5, WhoActs

LEMMA HalfIsThere ==
  ASSUME TypeOK, Courses, NEW k \in Jobs, Half(k), HalfMade(k)
  PROVE  fs[Lib(Goal(k))] # Nothing /\ links # "none" /\ Open(k)
<1>1. job[k].phase \in {"dropping", "undoing", "backing", "unscratching"} /\ Course(k)
  BY DEF HalfMade, Courses
<1>2. CASE job[k].phase \in {"dropping", "undoing"}
  <2>1. job[k].move \in {"install", "restore", "trash"}
    BY <1>1, <1>2, Ends2 DEF Course
  <2>2. To(k) = Lib(Goal(k)) \/ From(k) = Lib(Goal(k))
    BY <2>1, Ends2
  <2> QED BY <1>1, <1>2, <2>2 DEF Half, Course, Open
<1>3. CASE job[k].phase \in {"backing", "unscratching"}
  <2>1. job[k].staged = "link" /\ Goal(k) = job[k].dest
    BY <1>1, <1>3, Ends2 DEF HalfMade, Course
  <2> QED BY <1>1, <1>3, <2>1, ContentFacts DEF Half, Course, Open
<1> QED BY <1>1, <1>2, <1>3

LEMMA HalfStays ==
  ASSUME TypeOK, Courses, NEW k \in Jobs, Half(k), job'[k] = job[k],
         HalfMade(k) => \A n \in {Lib(Goal(k)), Trash(k), New(k), Staged(k)} : fs'[n] = fs[n]
  PROVE  Half(k)'
<1>1. To(k)' = To(k) /\ From(k)' = From(k)
  BY DEF To, From, Goal
<1>2. CASE ~ HalfMade(k)
  BY <1>2 DEF Half, HalfMade
<1>3. CASE HalfMade(k) /\ job[k].phase \in {"dropping", "undoing"}
  <2>1. job[k].move \in {"install", "restore", "trash"}
    BY <1>3, Ends2 DEF Courses, Course
  <2>2. {To(k), From(k)} \subseteq {Lib(Goal(k)), Trash(k), New(k), Staged(k)}
    BY <2>1, Ends2
  <2>3. fs'[To(k)] = fs[To(k)] /\ fs'[From(k)] = fs[From(k)]
    BY <1>3, <2>2
  <2> QED BY <1>1, <1>3, <2>3 DEF Half
<1>4. CASE HalfMade(k) /\ job[k].phase \in {"backing", "unscratching"}
  <2>1. Goal(k) = job[k].dest
    BY <1>4, Ends2 DEF Courses, Course
  <2> QED BY <1>4, <2>1 DEF Half
<1> QED BY <1>2, <1>3, <1>4 DEF HalfMade

\* A half-made move keeps its path to itself.
LEMMA PathsAreKept ==
  ASSUME TypeOK, Courses, HalfMoves, AloneAtItsPath, ~ unguarded, ~ unguarded',
         NEW j \in Jobs, Acts(j), NEW k \in Jobs, k # j, HalfMade(k)
  PROVE  fs'[Lib(Goal(k))] = fs[Lib(Goal(k))]
<1> DEFINE n == Lib(Goal(k))
<1>1. n \in KeptNames /\ Half(k)
  BY PlaceFacts, KeptFacts DEF HalfMoves
<1>2. fs[n] # Nothing /\ links # "none"
  BY <1>1, HalfIsThere
<1>3. HalfMade(j) \/ (job[j].phase = "renaming" /\ job[j].move = "trash") => Goal(j) # Goal(k)
  BY DEF AloneAtItsPath
<1>4. SUFFICES ASSUME Changes(j, n) PROVE FALSE
  BY <1>1, KeptChanges
<1>5. /\ n = From(j) => (job[j].move = "trash" /\ Goal(j) = Goal(k)) \/ job[j].move = "none"
      /\ n = To(j) => job[j].move # "trash" /\ Goal(j) = Goal(k)
  BY Ends2, NameFacts DEF To
<1>6. CASE job[j].phase = "moving"
  BY <1>2, <1>4, <1>6 DEF Changes
<1>7. CASE job[j].phase = "dropping"
  BY <1>3, <1>4, <1>5, <1>7 DEF Changes, HalfMade, Courses, Course
<1>8. CASE job[j].phase = "undoing"
  BY <1>3, <1>4, <1>5, <1>8 DEF Changes, HalfMade
<1>9. CASE job[j].phase = "renaming"
  <2>1. links = "own" /\ job[j].move # "none"
    BY <1>2, <1>9 DEF TypeOK, Courses, Course
  <2> QED BY <1>3, <1>4, <1>5, <1>9, <2>1 DEF Changes
<1>10. CASE job[j].phase = "backing"
  <2>1. job[j].dest = Goal(k) /\ Goal(j) = job[j].dest
    BY <1>4, <1>10, Ends2, NameFacts DEF Changes, Courses, Course
  <2> QED BY <1>3, <1>10, <2>1 DEF HalfMade
<1> QED BY <1>4, <1>6, <1>7, <1>8, <1>9, <1>10 DEF Changes

LEMMA OnlyTheseMakeHalves ==
  ASSUME TypeOK, NEW j \in Jobs, Acts(j),
         job'[j].phase \in {"dropping", "undoing", "unscratching", "backing"}
  PROVE  Link(j) \/ DropOld(j) \/ Rename(j) \/ Unscratch(j)
<1>1. CASE Start(j)
  BY <1>1, StartDoes
<1>2. CASE Check(j)
  BY <1>2, CheckDoes DEF Goes, Ends, Step
<1>3. CASE Stage(j)
  BY <1>3, StageDoes DEF Step, Turns
<1>4. CASE Copied(j)
  BY <1>4, CopiedDoes DEF Goes, Step
<1>5. CASE BeginNote(j)
  BY <1>5, BeginNoteDoes DEF Goes, Turns, Step
<1>6. CASE Link(j)
  BY <1>6
<1>7. CASE DropOld(j)
  BY <1>7
<1>8. CASE Undo(j)
  BY <1>8, UndoDoes DEF Fails, Goes, Ends, Step
<1>9. CASE Reserve(j)
  BY <1>9, ReserveDoes DEF Goes, Fails, Ends, Step
<1>10. CASE LookFirst(j)
  BY <1>10, LookFirstDoes DEF Goes, Fails, Ends, Step
<1>11. CASE Rename(j)
  BY <1>11
<1>12. CASE GiveUp(j)
  BY <1>12, GiveUpDoes DEF Goes, Step
<1>13. CASE Discard(j)
  BY <1>13, DiscardDoes DEF Ends, Step
<1>14. CASE Unscratch(j)
  BY <1>14
<1>15. CASE BackOut(j)
  BY <1>15, BackOutDoes DEF Goes, Step
<1>16. CASE Spoil(j)
  BY <1>16, SpoilDoes DEF Goes, Step
<1>17. CASE Judge(j)
  BY <1>17, JudgeDoes DEF Ends, Turns, Step
<1>18. CASE EndNote(j)
  BY <1>18, EndNoteDoes DEF Goes, Step
<1>19. CASE Report(j)
  BY <1>19, ReportDoes DEF Leaves
<1>20. CASE Kill(j)
  BY <1>20, KillDoes DEF Leaves
<1>21. CASE Reap(j)
  BY <1>21, ReapDoes DEF Leaves
<1> QED BY <1>1, <1>2, <1>3, <1>4, <1>5, <1>6, <1>7, <1>8, <1>9, <1>10, <1>11, <1>12, <1>13, <1>14, <1>15, <1>16, <1>17, <1>18, <1>19, <1>20, <1>21 DEF Acts, Worker

LEMMA OwnHalf ==
  ASSUME TypeOK, OwnFiles, Courses, HalfMoves, ~ unguarded, ~ unguarded', NEW j \in Jobs, Acts(j)
  PROVE  Half(j)'
<1>0. /\ To(j) \in Names /\ From(j) \in Names /\ Half(j) /\ Course(j)
      /\ job[j].move # "none" => From(j) # To(j)
  BY PlaceFacts DEF HalfMoves, Courses
<1>1. CASE job'[j].phase \notin {"dropping", "undoing", "unscratching", "backing"}
  BY <1>1 DEF Half
<1>2. CASE Link(j)
  <2>1. CASE Wrote(To(j), fs[From(j)]) /\ fs[From(j)] # Nothing /\ Goes(j, "dropping") /\ job[j].phase = "moving"
    <3>1. To(j)' = To(j) /\ From(j)' = From(j) /\ job'[j].phase = "dropping"
      BY <2>1 DEF Goes, Step, To, From, Goal
    <3>2. fs'[To(j)] = fs[From(j)] /\ fs'[From(j)] = fs[From(j)]
      BY <1>0, <2>1 DEF Wrote, Course
    <3> QED BY <2>1, <3>1, <3>2 DEF Half
  <2>2. CASE Fails(j)
    BY <1>1, <2>2 DEF Fails, Goes, Ends, Step
  <2> QED BY <1>2, <2>1, <2>2, LinkDoes
<1>3. CASE DropOld(j)
  <2>1. job[j].phase = "dropping" /\ fs[To(j)] = fs[From(j)] /\ fs[To(j)] # Nothing
    BY <1>0, <1>3, DropOldDoes DEF Half
  <2>2. CASE fs' = fs /\ Goes(j, "undoing")
    <3>1. To(j)' = To(j) /\ From(j)' = From(j) /\ job'[j].phase = "undoing"
      BY <2>2 DEF Goes, Step, To, From, Goal
    <3> QED BY <2>1, <2>2, <3>1 DEF Half
  <2>3. CASE Wrote(From(j), Nothing) /\ Succeeds(j) /\ job[j].move = "install" /\ job[j].staged = "link"
    <3>1. To(j) = Lib(job[j].dest) /\ From(j) = Staged(j)
      BY <2>3 DEF To, From, Goal
    <3>2. fs[Staged(j)] \in {Nothing, Result(j)}
      BY <2>3 DEF OwnFiles, Scratch
    <3>3. fs'[To(j)] = Result(j)
      BY <1>0, <2>1, <2>3, <3>1, <3>2 DEF Wrote
    <3>4. job'[j].dest = job[j].dest /\ job'[j].phase = "unscratching"
      BY <2>3 DEF Succeeds, Goes, Step
    <3> QED BY <3>1, <3>3, <3>4 DEF Half
  <2>4. CASE Succeeds(j) /\ ~ (job[j].move = "install" /\ job[j].staged = "link")
    <3>1. job[j].move \in {"trash", "restore", "install"}
      BY <1>0, <2>1, Ends2 DEF Course
    <3>2. job'[j].phase \notin {"dropping", "undoing", "backing"} /\ (job'[j].phase = "unscratching" => job'[j].staged # "link")
      BY <2>4, <3>1 DEF Succeeds, Goes, Ends, Turns, Step
    <3> QED BY <3>2 DEF Half
  <2>5. \/ Wrote(From(j), Nothing) /\ Succeeds(j)
        \/ Succeeds(j) /\ job[j].move = "restore"
        \/ fs' = fs /\ Goes(j, "undoing")
    BY <1>3, DropOldDoes
  <2> QED BY <2>2, <2>3, <2>4, <2>5
<1>4. CASE Rename(j)
  <2>1. CASE Fails(j)
    BY <1>1, <2>1 DEF Fails, Goes, Ends, Step
  <2>2. CASE Succeeds(j) /\ ~ (links = "own" /\ job[j].move # "trash") /\ job[j].phase = "renaming"
    <3>1. job'[j].phase \notin {"dropping", "undoing", "backing"}
      BY <2>2 DEF Succeeds, Goes, Ends, Turns, Step
    <3>2. job'[j].phase = "unscratching" => job'[j].staged = job[j].staged /\ job[j].move # "trash"
      BY <2>2 DEF Succeeds, Goes, Ends, Turns, Step
    <3>3. job[j].staged = "link" => links = "own"
      BY <1>0, <2>2 DEF TypeOK, Course
    <3> QED BY <2>2, <3>1, <3>2, <3>3 DEF Half
  <2> QED BY <1>4, <2>1, <2>2, RenameDoes
<1>5. CASE Unscratch(j)
  <2>1. CASE fs' = fs /\ job[j].staged = "link" /\ Goes(j, "backing") /\ job[j].phase = "unscratching"
    BY <1>0, <2>1 DEF Half, Goes, Step
  <2>2. CASE Ends(j, "closing", "replaced")
    BY <1>1, <2>2 DEF Ends, Step
  <2> QED BY <1>5, <2>1, <2>2, UnscratchDoes
<1> QED BY <1>1, <1>2, <1>3, <1>4, <1>5, OnlyTheseMakeHalves

LEMMA HalfMovesHold ==
  ASSUME TypeOK, OwnFiles, Courses, Recovering, HalfMoves, AloneAtItsPath, [Next]_vars
  PROVE  HalfMoves'
<1>0. SUFFICES ASSUME ~ unguarded', NEW k \in Jobs PROVE Half(k)'
  BY DEF HalfMoves
<1>a. ~ unguarded /\ Half(k)
  BY <1>0, GuardsAreLost DEF HalfMoves
<1>b. /\ Lib(Goal(k)) \in Names /\ Trash(k) \in Names /\ New(k) \in Names /\ Staged(k) \in Names
      /\ Lib(Goal(k)) \in KeptNames /\ Trash(k) \in KeptNames
  BY PlaceFacts, NameFacts, KeptFacts
<1>c. HalfMade(k) => fs[Lib(Goal(k))] # Nothing /\ Open(k)
  BY <1>a, HalfIsThere
<1>1. ASSUME NEW j \in Jobs, Acts(j) PROVE Half(k)'
  <2>1. CASE k = j
    BY <1>0, <1>a, <1>1, <2>1, OwnHalf
  <2>2. CASE k # j
    <3>1. job'[k] = job[k]
      BY <1>1, <2>2, OthersStay
    <3>2. HalfMade(k) => fs'[Lib(Goal(k))] = fs[Lib(Goal(k))]
      BY <1>0, <1>a, <1>1, <2>2, PathsAreKept
    <3>3. fs'[New(k)] = fs[New(k)] /\ fs'[Staged(k)] = fs[Staged(k)] /\ fs'[Trash(k)] = fs[Trash(k)]
      BY <1>1, <2>2, FilesOfOthers
    <3> QED BY <1>a, <3>1, <3>2, <3>3, HalfStays
  <2> QED BY <2>1, <2>2
<1>2. ASSUME NEW j \in Jobs, Recover(j), job' = job PROVE Half(k)'
  <2>1. SUFFICES ASSUME HalfMade(k)
                 PROVE  \A n \in {Lib(Goal(k)), Trash(k), New(k), Staged(k)} : fs'[n] = fs[n]
    BY <1>2, <1>a, HalfStays
  <2>2. k # j
    <3>1. rec.job = j /\ rec.phase # "idle"
      BY <1>2 DEF Recover, Look, LinkBack, RenameBack, Verify
    <3> QED BY <2>1, <3>1 DEF Recovering, HalfMade
  <2>3. New(k) \notin LibNames /\ Staged(k) \notin LibNames /\ New(k) # Trash(j) /\ Staged(k) # Trash(j)
        /\ Trash(k) \notin LibNames /\ Trash(k) # Trash(j) /\ Lib(Goal(k)) # Trash(j)
    BY <2>2, NameFacts
  <2>4. fs'[Lib(Goal(k))] = fs[Lib(Goal(k))]
    BY <1>0, <1>2, <1>b, <1>c, <2>1, <2>3, RecoveryKeeps
  <2> QED BY <1>2, <1>b, <2>3, <2>4, FilesOfRecovery
<1>3. ASSUME NEW j \in Jobs, SweepScratch(j), job' = job PROVE Half(k)'
  <2>1. HalfMade(k) => k # j
    BY <1>3 DEF SweepScratch, HalfMade
  <2>2. fs' = [fs EXCEPT ![New(j)] = Nothing]
    BY <1>3 DEF SweepScratch
  <2>3. HalfMade(k) => \A n \in {Lib(Goal(k)), Trash(k), New(k), Staged(k)} : fs'[n] = fs[n]
    BY <1>b, <2>1, <2>2, NameFacts DEF TypeOK
  <2> QED BY <1>a, <1>3, <2>3, HalfStays
<1>4. ASSUME NEW p \in Paths, Arrive(p), job' = job PROVE Half(k)'
  <2>1. fs[Lib(p)] = Nothing /\ fs' = [fs EXCEPT ![Lib(p)] = Guest(p)]
    BY <1>4 DEF Arrive
  <2>2. HalfMade(k) => \A n \in {Lib(Goal(k)), Trash(k), New(k), Staged(k)} : fs'[n] = fs[n]
    BY <1>b, <1>c, <2>1, NameFacts DEF TypeOK
  <2> QED BY <1>a, <1>4, <2>2, HalfStays
<1>5. ASSUME SweepWorking, job' = job PROVE Half(k)'
  BY <1>5, <1>a, <1>c, HalfStays DEF SweepWorking
<1>6. ASSUME fs' = fs, job' = job PROVE Half(k)'
  BY <1>6, <1>a, HalfStays
<1>7. \A j \in Jobs : Examine(j) => fs' = fs
  BY DEF Examine
<1>8. DaemonCrash \/ UNCHANGED vars => fs' = fs
  BY DEF DaemonCrash, vars
<1> QED BY <1>1, <1>2, <1>3, <1>4, <1>5, <1>6, <1>7, <1>8, WhoActs

\* What must not be lost: an original, and what a run has left that ended or installed it.
Precious(c) ==
  \/ \E f \in Files : c = Original(f)
  \/ \E k \in Jobs : c \in ProductsOf(k) /\ job[k].phase \in {"ended", "unscratching"}

LEMMA PreciousStays ==
  ASSUME TypeOK, OwnFiles, Courses, Recovering, Verifying, TrashIsFree, Clear, HalfMoves, [Next]_vars,
         ~ unguarded', NEW c, Precious(c), \E n \in KeptNames : fs[n] = c
  PROVE  \E n \in KeptNames : fs'[n] = c
<1>0. PICK n \in KeptNames : fs[n] = c
  OBVIOUS
<1>a. ~ unguarded /\ n \in Names
  BY GuardsAreLost, KeptFacts
<1>b. /\ c # Nothing /\ \A p \in Paths : c # Guest(p)
      /\ \A j \in Jobs : job[j].phase \notin {"ended", "unscratching"}
                        => c \notin {Result(j), Copy(j), Partial(j)}
  BY ContentFacts DEF Precious, ProductsOf
<1>1. ASSUME NEW j \in Jobs, Acts(j) PROVE \E m \in KeptNames : fs'[m] = c
  <2>0. job[j].phase # "ended" /\ Half(j) /\ Course(j) /\ Scratch(j)
    BY <1>1, <1>a, WorkersLeave DEF HalfMoves, Courses, OwnFiles
  <2>1. CASE fs'[n] = fs[n]
    BY <1>0, <2>1
  <2>2. CASE fs'[n] # fs[n]
    <3>1. Changes(j, n)
      BY <1>1, <2>2, KeptChanges
    <3>2. job[j].move # "install" => {To(j), From(j)} \subseteq KeptNames
      BY Ends2, KeptFacts, PlaceFacts
    <3>3. CASE job[j].phase = "moving"
      BY <1>0, <1>b, <3>1, <3>3 DEF Changes
    <3>4. CASE job[j].phase = "dropping"
      <4>1. fs'[To(j)] = c
        BY <1>0, <2>0, <3>1, <3>4 DEF Changes, Half
      <4>2. To(j) \in KeptNames
        BY Ends2, KeptFacts, PlaceFacts
      <4> QED BY <4>1, <4>2
    <3>5. CASE job[j].phase = "undoing"
      <4>1. fs'[From(j)] = c /\ fs[From(j)] = c
        BY <1>0, <2>0, <3>1, <3>5 DEF Changes, Half
      <4>2. job[j].move # "install"
        <5>1. SUFFICES ASSUME job[j].move = "install" PROVE FALSE
          OBVIOUS
        <5>2. From(j) \in {New(j), Staged(j)}
          BY <5>1, Ends2
        <5>3. c \in {Nothing, Result(j), Copy(j), Partial(j)}
          BY <2>0, <4>1, <5>2 DEF Scratch
        <5> QED BY <1>b, <2>0, <3>5, <5>3
      <4> QED BY <3>2, <4>1, <4>2
    <3>6. CASE job[j].phase = "renaming"
      <4>1. ~ (links = "own" /\ job[j].move # "trash") /\ fs'[To(j)] = fs[From(j)] /\ n \in {To(j), From(j)}
        BY <3>1, <3>6 DEF Changes
      <4>2. To(j) \in KeptNames
        BY Ends2, KeptFacts, PlaceFacts
      <4>3. CASE n = From(j)
        BY <1>0, <4>1, <4>2, <4>3
      <4>4. CASE n = To(j) /\ job[j].move = "trash"
        <5>1. fs[Trash(j)] = Nothing
          BY <3>6, <4>4 DEF TrashIsFree, Before
        <5> QED BY <1>0, <1>b, <4>4, <5>1, Ends2
      <4>5. CASE n = To(j) /\ job[j].move # "trash"
        <5>1. links = "none" /\ To(j) = Lib(Goal(j)) /\ Goal(j) \in Paths
          BY <2>0, <3>6, <4>1, <4>5, PlaceFacts DEF TypeOK, Course, To
        <5>2. fs[n] \in {Nothing, Guest(Goal(j))}
          BY <1>a, <3>6, <4>5, <5>1 DEF Clear
        <5> QED BY <1>0, <1>b, <5>1, <5>2
      <4> QED BY <4>1, <4>3, <4>4, <4>5
    <3>7. CASE job[j].phase = "backing"
      <4>1. n = Lib(job[j].dest) /\ fs[n] = Result(j)
        BY <2>0, <3>1, <3>7 DEF Changes, Half, Course
      <4> QED BY <1>0, <1>b, <2>0, <3>7, <4>1
    <3> QED BY <3>1, <3>3, <3>4, <3>5, <3>6, <3>7 DEF Changes
  <2> QED BY <2>1, <2>2
<1>2. ASSUME NEW j \in Jobs, Recover(j) PROVE \E m \in KeptNames : fs'[m] = c
  <2>1. CASE fs'[n] = fs[n]
    BY <1>0, <2>1
  <2>2. CASE fs'[n] # fs[n]
    <3>1. /\ rec.phase = "verifying" /\ n = Trash(j)
          /\ fs[Lib(rec.path)] = rec.inode /\ fs'[Lib(rec.path)] = rec.inode
      BY <1>0, <1>2, <1>b, <2>2, RecoveryKeeps
    <3>2. rec.job = j
      BY <1>2 DEF Recover, Look, LinkBack, RenameBack, Verify
    <3>3. c = rec.inode
      BY <1>0, <1>a, <1>b, <3>1, <3>2 DEF Verifying
    <3>4. Lib(rec.path) \in KeptNames
      BY <3>1, KeptFacts DEF Recovering
    <3> QED BY <3>1, <3>3, <3>4
  <2> QED BY <2>1, <2>2
<1>3. ASSUME fs'[n] = fs[n] PROVE \E m \in KeptNames : fs'[m] = c
  BY <1>0, <1>3
<1>4. ASSUME NEW j \in Jobs, SweepScratch(j) \/ Examine(j) PROVE \E m \in KeptNames : fs'[m] = c
  BY <1>3, <1>4, <1>a, KeptFacts DEF SweepScratch, Examine, TypeOK
<1>5. ASSUME NEW p \in Paths, Arrive(p) PROVE \E m \in KeptNames : fs'[m] = c
  BY <1>0, <1>3, <1>5, <1>a, <1>b DEF Arrive, TypeOK
<1>6. CASE SweepWorking
  BY <1>3, <1>6, <1>a, KeptFacts DEF SweepWorking, TypeOK
<1>7. CASE DaemonCrash \/ UNCHANGED vars
  BY <1>3, <1>7 DEF DaemonCrash, vars
<1> QED BY <1>1, <1>2, <1>4, <1>5, <1>6, <1>7, WhoActs

LEMMA OriginalsStay ==
  ASSUME TypeOK, OwnFiles, Courses, Recovering, Verifying, TrashIsFree, Clear, HalfMoves, RowsAreRuns,
         OriginalsAreKept, [Next]_vars
  PROVE  OriginalsAreKept'
<1>0. SUFFICES ASSUME ~ unguarded', NEW f \in Files
               PROVE  /\ \E n \in KeptNames : fs'[n] = Original(f)
                      /\ row'[f].inode \in Products(f) => \E n \in KeptNames : fs'[n] = row'[f].inode
  BY DEF OriginalsAreKept, Kept, KeptNames, Products
<1>a. /\ \E n \in KeptNames : fs[n] = Original(f)
      /\ row[f].inode \in Products(f) => \E n \in KeptNames : fs[n] = row[f].inode
  <2>1. ~ unguarded
    BY <1>0, GuardsAreLost
  <2>2. Kept(Original(f)) /\ (row[f].inode \in Products(f) => Kept(row[f].inode))
    BY <1>0, <2>1 DEF OriginalsAreKept
  <2> QED BY <2>2 DEF Kept, KeptNames
<1>1. \E n \in KeptNames : fs'[n] = Original(f)
  BY <1>0, <1>a, PreciousStays DEF Precious
<1>2. ASSUME row'[f] = row[f], row[f].inode \in Products(f)
      PROVE  \E n \in KeptNames : fs'[n] = row'[f].inode
  <2>1. PICK k \in Jobs : FileOf[k] = f /\ row[f].inode \in ProductsOf(k)
    BY <1>2 DEF Products, ProductsOf
  <2>2. Precious(row[f].inode)
    BY <2>1 DEF RowsAreRuns, Precious
  <2> QED BY <1>0, <1>a, <1>2, <2>2, PreciousStays
<1>3. ASSUME NEW j \in Jobs, Report(j), row'[f] # row[f]
      PROVE  \E n \in KeptNames : fs'[n] = row'[f].inode
  <2> DEFINE p == IF job[j].out \in {"replaced", "linked"} THEN job[j].dest ELSE job[j].orig
  <2>1. p \in Paths
    BY PlaceFacts
  <2>2. \/ row' = row
        \/ row' = [row EXCEPT ![FileOf[j]] = [path |-> p, inode |-> fs[Lib(p)]]]
    BY <1>3 DEF Report
  <2> HIDE DEF p
  <2>3. row'[f].inode = fs[Lib(p)]
    BY <1>3, <2>2 DEF TypeOK
  <2>4. fs'[Lib(p)] = fs[Lib(p)]
    BY <1>3, <2>1, ReportDoes, NameFacts DEF Wrote
  <2> QED BY <2>1, <2>3, <2>4, KeptFacts
<1>4. row' = row \/ \E j \in Jobs : Report(j)
  BY WhoActs, WorkersLeave, OthersLeave DEF Arrive, SweepWorking, DaemonCrash, vars
<1> QED BY <1>1, <1>2, <1>3, <1>4

-----------------------------------------------------------------------------
(* Where the product of a worker is *)

LEMMA PlacesStay ==
  ASSUME TypeOK, NEW j \in Jobs, Acts(j), Alive(j)'
  PROVE  \/ Start(j)
         \/ Alive(j) /\ job'[j].orig = job[j].orig /\ job'[j].dest = job[j].dest
<1>1. CASE Start(j)
  BY <1>1
<1>2. CASE Check(j)
  BY <1>2, CheckDoes DEF Goes, Ends, Step, Alive
<1>3. CASE Stage(j)
  BY <1>3, StageDoes DEF Step, Turns, Alive
<1>4. CASE Copied(j)
  BY <1>4, CopiedDoes DEF Goes, Step, Alive
<1>5. CASE BeginNote(j)
  BY <1>5, BeginNoteDoes DEF Goes, Turns, Step, Alive
<1>6. CASE Link(j)
  BY <1>6, LinkDoes DEF Goes, Fails, Ends, Step, Alive
<1>7. CASE DropOld(j)
  BY <1>7, DropOldDoes DEF Goes, Succeeds, Ends, Turns, Step, Alive
<1>8. CASE Undo(j)
  BY <1>8, UndoDoes DEF Fails, Goes, Ends, Step, Alive
<1>9. CASE Reserve(j)
  BY <1>9, ReserveDoes DEF Goes, Fails, Ends, Step, Alive
<1>10. CASE LookFirst(j)
  BY <1>10, LookFirstDoes DEF Goes, Fails, Ends, Step, Alive
<1>11. CASE Rename(j)
  BY <1>11, RenameDoes DEF Succeeds, Fails, Goes, Ends, Turns, Step, Alive
<1>12. CASE GiveUp(j)
  BY <1>12, GiveUpDoes DEF Goes, Step, Alive
<1>13. CASE Discard(j)
  BY <1>13, DiscardDoes DEF Ends, Step, Alive
<1>14. CASE Unscratch(j)
  BY <1>14, UnscratchDoes DEF Goes, Ends, Step, Alive
<1>15. CASE BackOut(j)
  BY <1>15, BackOutDoes DEF Goes, Step, Alive
<1>16. CASE Spoil(j)
  BY <1>16, SpoilDoes DEF Goes, Step, Alive
<1>17. CASE Judge(j)
  BY <1>17, JudgeDoes DEF Ends, Turns, Step, Alive
<1>18. CASE EndNote(j)
  BY <1>18, EndNoteDoes DEF Goes, Step, Alive
<1>19. CASE Report(j)
  BY <1>19, ReportDoes DEF Leaves, Alive
<1>20. CASE Kill(j)
  BY <1>20, KillDoes DEF Leaves, Alive
<1>21. CASE Reap(j)
  BY <1>21, ReapDoes DEF Leaves, Alive
<1> QED BY <1>1, <1>2, <1>3, <1>4, <1>5, <1>6, <1>7, <1>8, <1>9, <1>10, <1>11, <1>12, <1>13, <1>14, <1>15, <1>16, <1>17, <1>18, <1>19, <1>20, <1>21 DEF Acts, Worker

LEMMA OwnStagedEnd ==
  ASSUME TypeOK, OwnFiles, Courses, Made, NEW j \in Jobs, StagedEnd(j), Acts(j)
  PROVE  StagedEnd(j)'
<1>0. /\ Scratch(j) /\ Course(j) /\ New(j) # Staged(j) /\ Staged(j) \in Names /\ To(j) # Staged(j)
      /\ job[j].phase = "idle" => fs[Staged(j)] = Nothing
  <2>1. Scratch(j) /\ Course(j) /\ New(j) # Staged(j) /\ Staged(j) \in Names /\ To(j) # Staged(j)
    BY NameFacts, Ends2 DEF OwnFiles, Courses
  <2>2. job[j].phase = "idle" => fs[Staged(j)] \notin {Result(j), Copy(j), Partial(j)}
    BY <2>1 DEF Scratch, Made, ProductsOf
  <2> QED BY <2>1, <2>2 DEF Scratch
<1>a. ASSUME job'[j].phase # "unscratching", Alive(j) \/ ~ Alive(j)', ~ Alive(j)' \/ job'[j].staged = job[j].staged,
             fs'[Staged(j)] \in {fs[Staged(j)], Nothing}
      PROVE  StagedEnd(j)'
  BY <1>a, ContentFacts DEF StagedEnd, Alive
<1>1. CASE Start(j)
  BY <1>0, <1>1, StartDoes, ContentFacts DEF StagedEnd, Wrote
<1>2. CASE Check(j)
  BY <1>2, <1>a, CheckDoes DEF Goes, Ends, Step, Alive
<1>3. CASE Stage(j)
  <2>1. CASE Step(j, "copying", job[j].move, "copy", job[j].out) /\ fs' = [fs EXCEPT ![Staged(j)] = Partial(j)]
    BY <1>0, <2>1, ContentFacts DEF TypeOK, StagedEnd, Step
  <2>2. CASE Step(j, "noting", job[j].move, "link", job[j].out)
    BY <2>2 DEF StagedEnd, Step
  <2>3. CASE Turns(j, "trash") /\ fs' = fs
    BY <1>3, <2>3, <1>a, StageDoes DEF Turns, Step, Alive
  <2> QED BY <1>3, <2>1, <2>2, <2>3, StageDoes
<1>4. CASE Copied(j)
  <2>1. CASE Wrote(Staged(j), Copy(j)) /\ Goes(j, "noting")
    BY <1>0, <1>4, <2>1, CopiedDoes, ContentFacts DEF Wrote, Goes, Step, StagedEnd, Course
  <2>2. CASE fs' = fs /\ Goes(j, "discarding")
    BY <1>4, <1>a, <2>2, CopiedDoes DEF Goes, Step, Alive
  <2> QED BY <1>4, <2>1, <2>2, CopiedDoes
<1>5. CASE BeginNote(j)
  BY <1>5, <1>a, BeginNoteDoes DEF Goes, Turns, Step, Alive
<1>6. CASE Link(j)
  BY <1>0, <1>6, <1>a, LinkDoes DEF Wrote, Goes, Fails, Ends, Step, Alive
<1>7. CASE DropOld(j)
  <2>1. job[j].phase = "dropping" /\ job[j].move \in {"install", "restore", "trash"}
    BY <1>0, <1>7, DropOldDoes, Ends2 DEF Course
  <2>2. CASE Wrote(From(j), Nothing) /\ Succeeds(j) /\ job[j].move = "install" /\ job[j].staged # "none"
    <3>1. fs'[Staged(j)] = Nothing
      BY <1>0, <2>2 DEF Wrote, From
    <3>2. job'[j].staged = job[j].staged
      BY <2>2 DEF Succeeds, Goes, Step
    <3> QED BY <2>2, <3>1, <3>2, ContentFacts DEF StagedEnd
  <2>3. CASE Succeeds(j) /\ ~ (job[j].move = "install" /\ job[j].staged # "none")
    <3>1. job'[j].phase # "unscratching" /\ job'[j].staged = job[j].staged
      BY <2>1, <2>3 DEF Succeeds, Ends, Turns, Step
    <3>2. fs'[Staged(j)] \in {fs[Staged(j)], Nothing}
      BY <1>0, <1>7, DropOldDoes DEF Wrote
    <3> QED BY <1>a, <2>1, <3>1, <3>2 DEF Alive
  <2>4. CASE fs' = fs /\ Goes(j, "undoing")
    BY <1>a, <2>1, <2>4 DEF Goes, Step, Alive
  <2> QED BY <1>7, <2>2, <2>3, <2>4, DropOldDoes
<1>8. CASE Undo(j)
  BY <1>0, <1>8, <1>a, UndoDoes DEF Wrote, Fails, Goes, Ends, Step, Alive
<1>9. CASE Reserve(j)
  BY <1>9, <1>a, ReserveDoes DEF Goes, Fails, Ends, Step, Alive
<1>10. CASE LookFirst(j)
  BY <1>10, <1>a, LookFirstDoes DEF Goes, Fails, Ends, Step, Alive
<1>11. CASE Rename(j)
  <2>1. job[j].phase = "renaming" /\ job[j].move \in {"install", "restore", "trash"}
    BY <1>0, <1>11, RenameDoes, Ends2 DEF Course
  <2>2. CASE Succeeds(j) /\ fs' = [fs EXCEPT ![To(j)] = fs[From(j)], ![From(j)] = Nothing]
    <3>1. CASE job[j].move = "install" /\ job[j].staged # "none"
      <4>1. fs'[Staged(j)] = Nothing
        BY <1>0, <2>2, <3>1 DEF From, TypeOK
      <4>2. job'[j].staged = job[j].staged
        BY <2>2, <3>1 DEF Succeeds, Goes, Step
      <4> QED BY <3>1, <4>1, <4>2, ContentFacts DEF StagedEnd
    <3>2. CASE ~ (job[j].move = "install" /\ job[j].staged # "none")
      <4>1. job'[j].phase # "unscratching" /\ job'[j].staged = job[j].staged
        BY <2>1, <2>2, <3>2 DEF Succeeds, Ends, Turns, Step
      <4>2. fs'[Staged(j)] \in {fs[Staged(j)], Nothing}
        BY <1>0, <2>2 DEF TypeOK
      <4> QED BY <1>a, <2>1, <4>1, <4>2 DEF Alive
    <3> QED BY <3>1, <3>2
  <2>3. CASE fs' = fs /\ Fails(j)
    BY <1>a, <2>1, <2>3 DEF Fails, Goes, Ends, Step, Alive
  <2> QED BY <1>11, <2>2, <2>3, RenameDoes
<1>12. CASE GiveUp(j)
  BY <1>12, <1>a, GiveUpDoes DEF Goes, Step, Alive
<1>13. CASE Discard(j)
  BY <1>13, <1>a, DiscardDoes DEF Wrote, Ends, Step, Alive
<1>14. CASE Unscratch(j)
  BY <1>0, <1>14, <1>a, UnscratchDoes DEF Wrote, Goes, Ends, Step, Alive
<1>15. CASE BackOut(j)
  <2>1. Lib(job[j].dest) # Staged(j)
    BY NameFacts
  <2> QED BY <1>0, <1>15, <1>a, <2>1, BackOutDoes DEF Wrote, Goes, Step, Alive
<1>16. CASE Spoil(j)
  BY <1>16, <1>a, SpoilDoes DEF Wrote, Goes, Step, Alive
<1>17. CASE Judge(j)
  BY <1>17, <1>a, JudgeDoes DEF Ends, Turns, Step, Alive
<1>18. CASE EndNote(j)
  BY <1>18, <1>a, EndNoteDoes DEF Goes, Step, Alive
<1>19. CASE Report(j)
  BY <1>19, ReportDoes DEF Leaves, StagedEnd, Alive
<1>20. CASE Kill(j)
  BY <1>20, KillDoes DEF Leaves, StagedEnd, Alive
<1>21. CASE Reap(j)
  BY <1>21, ReapDoes DEF Leaves, StagedEnd, Alive
<1> QED BY <1>1, <1>2, <1>3, <1>4, <1>5, <1>6, <1>7, <1>8, <1>9, <1>10, <1>11, <1>12, <1>13, <1>14, <1>15, <1>16, <1>17, <1>18, <1>19, <1>20, <1>21 DEF Acts, Worker

LEMMA StagedEndsHold ==
  ASSUME TypeOK, OwnFiles, Courses, Made, StagedEnds, [Next]_vars
  PROVE  StagedEnds'
<1>0. SUFFICES ASSUME NEW k \in Jobs PROVE StagedEnd(k)'
  BY DEF StagedEnds
<1>a. StagedEnd(k) /\ Staged(k) \in Names
  BY NameFacts DEF StagedEnds
<1>b. ASSUME job'[k] = job[k], fs'[Staged(k)] \in {fs[Staged(k)], Nothing} PROVE StagedEnd(k)'
  BY <1>a, <1>b, ContentFacts DEF StagedEnd, Alive
<1>1. ASSUME NEW j \in Jobs, Acts(j) PROVE StagedEnd(k)'
  <2>1. CASE k = j
    BY <1>1, <1>a, <2>1, OwnStagedEnd
  <2>2. CASE k # j
    BY <1>1, <1>b, <2>2, OthersStay, FilesOfOthers
  <2> QED BY <2>1, <2>2
<1>2. ASSUME NEW j \in Jobs, SweepScratch(j) \/ Examine(j) \/ Recover(j), job' = job PROVE StagedEnd(k)'
  <2>1. Staged(k) \notin LibNames /\ Staged(k) # Trash(j) /\ Staged(k) # New(j)
    BY NameFacts
  <2>2. fs'[Staged(k)] = fs[Staged(k)]
    BY <1>2, <1>a, <2>1, FilesOfRecovery DEF SweepScratch, Examine, TypeOK
  <2> QED BY <1>2, <1>b, <2>2
<1>3. ASSUME NEW p \in Paths, Arrive(p), job' = job PROVE StagedEnd(k)'
  BY <1>3, <1>a, <1>b, NameFacts DEF Arrive, TypeOK
<1>4. ASSUME SweepWorking, job' = job PROVE StagedEnd(k)'
  BY <1>4, <1>a, <1>b, NameFacts DEF SweepWorking, TypeOK
<1>5. ASSUME DaemonCrash \/ UNCHANGED vars, job' = job PROVE StagedEnd(k)'
  BY <1>5, <1>b DEF DaemonCrash, vars
<1> QED BY <1>1, <1>2, <1>3, <1>4, <1>5, WhoActs

\* What a row, and what the recovery, may come to know.
Records(f) ==
  \/ row'[f] = row[f]
  \/ \E i \in Jobs : /\ Report(i)
                     /\ row'[f].path \in Paths /\ row'[f].inode = fs[Lib(row'[f].path)]

RecRecords ==
  \/ rec'.inode = Nothing
  \/ rec'.inode = rec.inode /\ rec'.path = rec.path
  \/ \E f \in Files : rec'.inode = row[f].inode /\ rec'.path = row[f].path

LEMMA RowsRecord ==
  ASSUME TypeOK, [Next]_vars, NEW f \in Files
  PROVE  Records(f)
<1>1. ASSUME NEW j \in Jobs, Report(j) PROVE Records(f)
  <2> DEFINE p == IF job[j].out \in {"replaced", "linked"} THEN job[j].dest ELSE job[j].orig
  <2>1. p \in Paths
    BY PlaceFacts
  <2>2. \/ row' = row
        \/ row' = [row EXCEPT ![FileOf[j]] = [path |-> p, inode |-> fs[Lib(p)]]]
    BY <1>1 DEF Report
  <2> HIDE DEF p
  <2>3. \/ row'[f] = row[f]
        \/ row'[f] = [path |-> p, inode |-> fs[Lib(p)]]
    BY <2>2 DEF TypeOK
  <2> QED BY <1>1, <2>1, <2>3 DEF Records
<1>2. row' = row \/ \E j \in Jobs : Report(j)
  BY WhoActs, WorkersLeave, OthersLeave DEF Arrive, SweepWorking, DaemonCrash, vars
<1> QED BY <1>1, <1>2 DEF Records

LEMMA RecoveryRecords ==
  ASSUME TypeOK, [Next]_vars
  PROVE  RecRecords
<1>0. rec \in Recovery /\ IdleRec.inode = Nothing
  BY DEF TypeOK, IdleRec
<1>1. ASSUME NEW j \in Jobs, Recover(j) PROVE RecRecords
  <2>1. CASE Look(j)
    <3>1. CASE rec' = IdleRec
      BY <1>0, <3>1 DEF RecRecords
    <3>2. CASE rec' = [rec EXCEPT !.phase = "linking", !.path = row[FileOf[j]].path, !.inode = row[FileOf[j]].inode]
      <4>1. rec'.path = row[FileOf[j]].path /\ rec'.inode = row[FileOf[j]].inode
        BY <1>0, <3>2 DEF Recovery
      <4> QED BY <4>1, ReplacementAssumption DEF RecRecords
    <3> QED BY <2>1, <3>1, <3>2 DEF Look, Settle, Refuse
  <2>2. ASSUME NEW x \in Phases \cup {"verifying"}, GoOn(x) PROVE RecRecords
    BY <1>0, <2>2 DEF GoOn, Recovery, RecRecords
  <2>3. Refuse \/ Settle(j) => RecRecords
    BY <1>0 DEF Refuse, Settle, RecRecords
  <2>4. LinkBack(j) \/ RenameBack(j) \/ Verify(j) => RecRecords
    BY <2>2, <2>3 DEF LinkBack, RenameBack, Verify, Phases
  <2> QED BY <1>1, <2>1, <2>4 DEF Recover
<1>2. ASSUME NEW j \in Jobs, Examine(j) PROVE RecRecords
  BY <1>2 DEF Examine, IdleRec, RecRecords
<1>3. DaemonCrash => RecRecords
  BY <1>0 DEF DaemonCrash, RecRecords
<1>4. rec' = rec => RecRecords
  BY DEF RecRecords
<1>5. \A j \in Jobs : (Acts(j) => rec' = rec) /\ (SweepScratch(j) => rec' = rec)
  BY WorkersLeave DEF SweepScratch
<1>6. (\E p \in Paths : Arrive(p)) \/ SweepWorking \/ UNCHANGED vars => rec' = rec
  BY DEF Arrive, SweepWorking, vars
<1> QED BY <1>1, <1>2, <1>3, <1>4, <1>5, <1>6, WhoActs

LEMMA KnownHold ==
  ASSUME TypeOK, Made, KnownAreMade, [Next]_vars
  PROVE  KnownAreMade'
<1>1. SUFFICES ASSUME NEW j \in Jobs, job'[j].phase = "idle" PROVE Unknown(j)'
  BY DEF KnownAreMade
<1>2. job[j].phase = "idle"
  <2>1. ASSUME NEW i \in Jobs, Acts(i) PROVE job[j].phase = "idle"
    BY <1>1, <2>1, StaysBegun, OthersStay
  <2> QED BY <1>1, <2>1, WhoActs
<1>3. Unknown(j) /\ \A n \in Names : fs[n] \notin ProductsOf(j)
  BY <1>2 DEF KnownAreMade, Made
<1>4. ASSUME NEW f \in Files PROVE row'[f].inode \notin ProductsOf(j)
  BY <1>3, RowsRecord, NameFacts DEF Records, Unknown
<1>5. rec'.inode \notin ProductsOf(j)
  <2>1. Nothing \notin ProductsOf(j)
    BY ContentFacts DEF ProductsOf
  <2> QED BY <1>3, <2>1, RecoveryRecords DEF RecRecords, Unknown
<1> QED BY <1>4, <1>5 DEF Unknown, ProductsOf

\* A product comes to a name that keeps files by a move of a worker, or by the recovery.
LEMMA Arrivals ==
  ASSUME TypeOK, OwnFiles, Courses, NEW i \in Jobs, Acts(i), NEW n \in KeptNames,
         NEW j \in Jobs, fs'[n] \in ProductsOf(j), fs'[n] # fs[n]
  PROVE  /\ Alive(i) /\ n = To(i) /\ fs'[n] = fs[From(i)]
         /\ \/ job[i].move = "trash" /\ n = Trash(i) /\ From(i) = Lib(job[i].orig)
            \/ job[i].move = "restore" /\ n = Lib(job[i].orig) /\ From(i) = Trash(i)
            \/ job[i].move = "install" /\ n = Lib(job[i].dest) /\ i = j
<1>1. Changes(i, n) /\ fs'[n] # Nothing
  BY KeptChanges, ContentFacts DEF ProductsOf
<1>2. /\ job[i].phase \in {"moving", "renaming"} /\ n = To(i) /\ fs'[n] = fs[From(i)]
  BY <1>1 DEF Changes
<1>3. Alive(i) /\ job[i].move \in {"trash", "restore", "install"}
  BY <1>2, Ends2 DEF Alive, Courses, Course
<1>4. ASSUME job[i].move = "install" PROVE i = j
  <2>1. fs[From(i)] \in {Nothing, Result(i), Copy(i), Partial(i)}
    BY <1>4, Ends2 DEF OwnFiles, Scratch
  <2> QED BY <1>2, <2>1, ContentFacts DEF ProductsOf
<1> QED BY <1>2, <1>3, <1>4, Ends2

LEMMA OthersRest ==
  ASSUME TypeOK, OwnFiles, Courses, ProductsRest, ~ unguarded, NEW i \in Jobs, Acts(i),
         TrashIsFree, [Next]_vars,
         NEW j \in Jobs, Alive(j), job'[j].dest = job[j].dest
  PROVE  Rests(j)'
<1>0. Rests(j)
  BY DEF ProductsRest
<1>1. ASSUME NEW p \in Paths, fs'[Lib(p)] \in ProductsOf(j) PROVE p = job[j].dest
  <2>1. CASE fs'[Lib(p)] = fs[Lib(p)]
    BY <1>0, <1>1, <2>1 DEF Rests
  <2>2. CASE fs'[Lib(p)] # fs[Lib(p)]
    <3>1. /\ Alive(i) /\ fs[From(i)] \in ProductsOf(j)
          /\ \/ job[i].move = "restore" /\ p = job[i].orig /\ From(i) = Trash(i)
             \/ job[i].move = "install" /\ p = job[i].dest /\ i = j
      BY <1>1, <2>2, Arrivals, KeptFacts, NameFacts
    <3> QED BY <1>0, <3>1 DEF Rests
  <2> QED BY <2>1, <2>2
<1>2. ASSUME NEW k \in Jobs, Alive(k)', fs'[Trash(k)] \in ProductsOf(j) PROVE job'[k].orig = job[j].dest
  <2>1. CASE k = i /\ Start(i)
    <3>1. fs'[Trash(k)] = fs[Trash(k)] /\ fs[Trash(k)] = Nothing
      BY <2>1, StartDoes, NameFacts DEF Wrote, TrashIsFree, Before
    <3> QED BY <1>2, <3>1, ContentFacts DEF ProductsOf
  <2>2. CASE ~ (k = i /\ Start(i))
    <3>1. Alive(k) /\ job'[k].orig = job[k].orig
      BY <1>2, <2>2, PlacesStay, OthersStay DEF Alive
    <3>2. CASE fs'[Trash(k)] = fs[Trash(k)]
      BY <1>0, <1>2, <3>1, <3>2 DEF Rests
    <3>3. CASE fs'[Trash(k)] # fs[Trash(k)]
      <4>1. k = i /\ fs[Lib(job[i].orig)] \in ProductsOf(j)
        BY <1>2, <3>3, Arrivals, KeptFacts, NameFacts
      <4> QED BY <1>0, <3>1, <4>1, PlaceFacts DEF Rests
    <3> QED BY <3>2, <3>3
  <2> QED BY <2>1, <2>2
<1>3. ASSUME NEW f \in Files, row'[f].inode \in ProductsOf(j) PROVE row'[f].path = job[j].dest
  BY <1>0, <1>3, RowsRecord DEF Records, Rests
<1>4. rec'.inode \in ProductsOf(j) => rec'.path = job[j].dest
  BY <1>0, WorkersLeave DEF Rests
<1> QED BY <1>1, <1>2, <1>3, <1>4 DEF Rests, ProductsOf

LEMMA ProductsStay ==
  ASSUME TypeOK, OwnFiles, Courses, Recovering, Made, KnownAreMade, TrashIsFree, ProductsRest, [Next]_vars
  PROVE  ProductsRest'
<1>0. SUFFICES ASSUME ~ unguarded', NEW j \in Jobs, Alive(j)' PROVE Rests(j)'
  BY DEF ProductsRest
<1>a. ~ unguarded
  BY <1>0, GuardsAreLost
<1>1. ASSUME NEW i \in Jobs, Acts(i) PROVE Rests(j)'
  <2>1. CASE i = j /\ Start(j)
    <3>1. \A n \in KeptNames : fs'[n] = fs[n]
      BY <2>1, StartDoes, KeptFacts DEF Wrote
    <3>2. \A n \in KeptNames : fs[n] \notin ProductsOf(j)
      BY <2>1, StartDoes, KeptFacts DEF Made
    <3>3. row' = row /\ rec' = rec /\ Unknown(j)
      BY <2>1, StartDoes DEF Start, KnownAreMade
    <3> QED BY <3>1, <3>2, <3>3, KeptFacts DEF Rests, Unknown, ProductsOf
  <2>2. CASE ~ (i = j /\ Start(j))
    <3>1. Alive(j) /\ job'[j].dest = job[j].dest
      BY <1>0, <1>1, <2>2, PlacesStay, OthersStay DEF Alive
    <3> QED BY <1>1, <1>a, <3>1, OthersRest
  <2> QED BY <2>1, <2>2
<1>b. Nothing \notin ProductsOf(j) /\ \A p : Guest(p) \notin ProductsOf(j)
  BY ContentFacts DEF ProductsOf
<1>2. ASSUME job' = job, row' = row,
             \A n \in KeptNames : \/ fs'[n] = fs[n] \/ fs'[n] = Nothing
                                  \/ \E p \in Paths : fs'[n] = Guest(p)
                                  \/ rec.phase = "linking" /\ n = Lib(rec.path) /\ fs'[n] = rec.inode
      PROVE  Rests(j)'
  <2>1. Rests(j)
    BY <1>0, <1>a, <1>2 DEF ProductsRest, Alive
  <2>2. ASSUME NEW p \in Paths, fs'[Lib(p)] \in ProductsOf(j) PROVE p = job[j].dest
    BY <1>2, <1>b, <2>1, <2>2, KeptFacts, NameFacts DEF Rests
  <2>3. ASSUME NEW k \in Jobs, Alive(k)', fs'[Trash(k)] \in ProductsOf(j) PROVE job[k].orig = job[j].dest
    BY <1>2, <1>b, <2>1, <2>3, KeptFacts, NameFacts DEF Rests, Alive
  <2>4. rec'.inode \in ProductsOf(j) => rec'.path = job[j].dest
    BY <1>b, <2>1, RecoveryRecords DEF RecRecords, Rests
  <2> QED BY <1>2, <2>1, <2>2, <2>3, <2>4 DEF Rests, ProductsOf
<1>3. ASSUME NEW i \in Jobs, Recover(i), job' = job PROVE Rests(j)'
  <2>1. ASSUME NEW n \in KeptNames
        PROVE  \/ fs'[n] = fs[n] \/ fs'[n] = Nothing
               \/ rec.phase = "linking" /\ n = Lib(rec.path) /\ fs'[n] = rec.inode
    BY <1>0, <1>3, RecoveryKeeps
  <2> QED BY <1>2, <1>3, <2>1, OthersLeave
<1>4. ASSUME NEW i \in Jobs, SweepScratch(i) \/ Examine(i), job' = job PROVE Rests(j)'
  <2>1. \A n \in KeptNames : fs'[n] = fs[n]
    BY <1>4, KeptFacts DEF SweepScratch, Examine, TypeOK
  <2> QED BY <1>2, <1>4, <2>1, OthersLeave
<1>5. ASSUME NEW p \in Paths, Arrive(p), job' = job PROVE Rests(j)'
  <2>1. \A n \in KeptNames : fs'[n] = fs[n] \/ fs'[n] = Guest(p)
    BY <1>5, KeptFacts DEF Arrive, TypeOK
  <2>2. row' = row
    BY <1>5 DEF Arrive
  <2> QED BY <1>2, <1>5, <2>1, <2>2
<1>6. ASSUME SweepWorking, job' = job PROVE Rests(j)'
  <2>1. \A n \in KeptNames : fs'[n] = fs[n]
    BY <1>6, KeptFacts DEF SweepWorking, TypeOK
  <2> QED BY <1>2, <1>6, <2>1 DEF SweepWorking
<1>7. ASSUME DaemonCrash \/ UNCHANGED vars, job' = job PROVE Rests(j)'
  BY <1>2, <1>7 DEF DaemonCrash, vars
<1> QED BY <1>1, <1>3, <1>4, <1>5, <1>6, <1>7, WhoActs

LEMMA CopiesAreKept ==
  ASSUME TypeOK, OwnFiles, Courses, Recovering, Verifying, TrashIsFree, Clear, HalfMoves, StagedEnds,
         CopiesStay, [Next]_vars
  PROVE  CopiesStay'
<1>0. SUFFICES ASSUME ~ unguarded', NEW j \in Jobs, job'[j].phase = "unscratching", job'[j].staged = "copy"
               PROVE  \E n \in KeptNames : fs'[n] = Copy(j)
  BY DEF CopiesStay, Kept, KeptNames, Copy
<1>a. ~ unguarded
  BY <1>0, GuardsAreLost
<1>1. CASE job[j].phase = "unscratching" /\ job[j].staged = "copy"
  <2>1. Precious(Copy(j))
    BY <1>1 DEF Precious, ProductsOf
  <2>2. \E n \in KeptNames : fs[n] = Copy(j)
    BY <1>1, <1>a DEF CopiesStay, Kept, KeptNames
  <2> QED BY <1>0, <2>1, <2>2, PreciousStays
<1>2. CASE ~ (job[j].phase = "unscratching" /\ job[j].staged = "copy")
  <2>1. Acts(j)
    BY <1>0, <1>2, WhoActs, OthersStay
  <2>2. DropOld(j) \/ Rename(j) \/ Unscratch(j) \/ Link(j)
    BY <1>0, <2>1, OnlyTheseMakeHalves
  <2>3. /\ job[j].phase \in {"dropping", "renaming"} /\ Succeeds(j) /\ fs[From(j)] # Nothing
        /\ fs'[To(j)] = fs[From(j)]
    <3>1. From(j) \in Names /\ To(j) \in Names /\ (job[j].move # "none" => From(j) # To(j)) /\ Course(j) /\ Half(j)
      BY <1>a, PlaceFacts DEF Courses, HalfMoves
    <3>2. CASE DropOld(j)
      <4>1. job[j].phase = "dropping" /\ Succeeds(j) /\ (Wrote(From(j), Nothing) \/ fs' = fs)
        BY <1>0, <3>2, DropOldDoes DEF Goes, Step
      <4> QED BY <3>1, <4>1 DEF Wrote, Half, Course
    <3>3. CASE Rename(j)
      <4>1. /\ job[j].phase = "renaming" /\ Succeeds(j) /\ fs[From(j)] # Nothing
            /\ fs' = [fs EXCEPT ![To(j)] = fs[From(j)], ![From(j)] = Nothing]
        BY <1>0, <3>3, RenameDoes DEF Fails, Goes, Ends, Step
      <4> QED BY <3>1, <4>1 DEF TypeOK, Course
    <3>4. CASE Unscratch(j)
      BY <1>0, <3>4, UnscratchDoes DEF Goes, Ends, Step
    <3>5. CASE Link(j)
      BY <1>0, <3>5, LinkDoes DEF Fails, Goes, Ends, Step
    <3> QED BY <2>2, <3>2, <3>3, <3>4, <3>5
  <2>4. job[j].move \notin {"trash", "restore"} /\ job[j].staged = "copy"
    BY <1>0, <2>3 DEF Succeeds, Goes, Ends, Turns, Step
  <2>5. job[j].move = "install"
    BY <2>3, <2>4, Ends2 DEF Courses, Course
  <2>6. From(j) = Staged(j) /\ To(j) \in KeptNames
    BY <2>4, <2>5, Ends2, KeptFacts, PlaceFacts DEF From
  <2>7. fs[Staged(j)] = Copy(j)
    <3>1. fs[Staged(j)] \in {Copy(j), Result(j), Partial(j)} /\ fs[Staged(j)] # Partial(j)
      BY <2>3, <2>6 DEF OwnFiles, Scratch
    <3>2. fs[Staged(j)] # Result(j)
      BY <2>3, <2>4 DEF StagedEnds, StagedEnd, Alive
    <3> QED BY <3>1, <3>2
  <2> QED BY <2>3, <2>6, <2>7
<1> QED BY <1>1, <1>2

LEMMA WhoReplaces ==
  ASSUME TypeOK, NEW j \in Jobs, Acts(j), job'[j].out = "replaced", job[j].out # "replaced"
  PROVE  DropOld(j) \/ Rename(j) \/ Unscratch(j) \/ Judge(j)
<1>1. CASE Start(j)
  BY <1>1, StartDoes
<1>2. CASE Check(j)
  BY <1>2, CheckDoes DEF Goes, Ends, Step
<1>3. CASE Stage(j)
  BY <1>3, StageDoes DEF Step, Turns
<1>4. CASE Copied(j)
  BY <1>4, CopiedDoes DEF Goes, Step
<1>5. CASE BeginNote(j)
  BY <1>5, BeginNoteDoes DEF Goes, Turns, Step
<1>6. CASE Link(j)
  BY <1>6, LinkDoes DEF Goes, Fails, Ends, Step
<1>7. CASE DropOld(j)
  BY <1>7
<1>8. CASE Undo(j)
  BY <1>8, UndoDoes DEF Fails, Goes, Ends, Step
<1>9. CASE Reserve(j)
  BY <1>9, ReserveDoes DEF Goes, Fails, Ends, Step
<1>10. CASE LookFirst(j)
  BY <1>10, LookFirstDoes DEF Goes, Fails, Ends, Step
<1>11. CASE Rename(j)
  BY <1>11
<1>12. CASE GiveUp(j)
  BY <1>12, GiveUpDoes DEF Goes, Step
<1>13. CASE Discard(j)
  BY <1>13, DiscardDoes DEF Ends, Step
<1>14. CASE Unscratch(j)
  BY <1>14
<1>15. CASE BackOut(j)
  BY <1>15, BackOutDoes DEF Goes, Step
<1>16. CASE Spoil(j)
  BY <1>16, SpoilDoes DEF Goes, Step
<1>17. CASE Judge(j)
  BY <1>17
<1>18. CASE EndNote(j)
  BY <1>18, EndNoteDoes DEF Goes, Step
<1>19. CASE Report(j)
  BY <1>19, ReportDoes DEF Leaves
<1>20. CASE Kill(j)
  BY <1>20, KillDoes DEF Leaves
<1>21. CASE Reap(j)
  BY <1>21, ReapDoes DEF Leaves
<1> QED BY <1>1, <1>2, <1>3, <1>4, <1>5, <1>6, <1>7, <1>8, <1>9, <1>10, <1>11, <1>12, <1>13, <1>14, <1>15, <1>16, <1>17, <1>18, <1>19, <1>20, <1>21 DEF Acts, Worker

\* What a run that says "replaced" has done.
Installed(j, c) ==
  /\ \E n \in KeptNames : fs'[n] = c
  /\ \A n \in LibNames \cup {New(j), Staged(j)} : fs'[n] = c => n = Lib(job[j].dest)

LEMMA ReplacedInstalls ==
  ASSUME TypeOK, OwnFiles, Courses, HalfMoves, StagedEnds, ProductsRest, CopiesStay, [Next]_vars,
         ~ unguarded, NEW j \in Jobs, job'[j].out = "replaced", job[j].out # "replaced"
  PROVE  \E c \in ProductsOf(j) : Installed(j, c)
<1>1. Acts(j)
  BY WhoActs, OthersStay
<1>2. DropOld(j) \/ Rename(j) \/ Unscratch(j) \/ Judge(j)
  BY <1>1, WhoReplaces
<1>3. /\ Scratch(j) /\ Course(j) /\ Half(j) /\ StagedEnd(j)
      /\ New(j) \in Names /\ Staged(j) \in Names /\ Lib(job[j].dest) \in KeptNames
      /\ New(j) # Staged(j) /\ New(j) # Lib(job[j].dest) /\ Staged(j) # Lib(job[j].dest)
      /\ New(j) \notin LibNames /\ Staged(j) \notin LibNames
      /\ Result(j) # Nothing /\ Copy(j) # Nothing /\ Copy(j) # Result(j)
  BY PlaceFacts, NameFacts, KeptFacts, ContentFacts DEF OwnFiles, Courses, HalfMoves, StagedEnds
<1>4. Alive(j)
  <2>1. job[j].phase \in {"dropping", "renaming", "unscratching", "judging"}
    BY <1>2, DropOldDoes, RenameDoes, UnscratchDoes, JudgeDoes
  <2> QED BY <2>1 DEF Alive
<1>5. \A n \in LibNames : fs[n] \in ProductsOf(j) => n = Lib(job[j].dest)
  BY <1>4, NameFacts DEF ProductsRest, Rests
<1>6. ASSUME NEW c \in ProductsOf(j), \A n \in LibNames : n # Lib(job[j].dest) => fs'[n] = fs[n],
             fs'[New(j)] # c, fs'[Staged(j)] # c, \E n \in KeptNames : fs'[n] = c
      PROVE  Installed(j, c)
  BY <1>5, <1>6 DEF Installed
<1>7. ASSUME job[j].phase \in {"dropping", "renaming"}, Succeeds(j), fs[From(j)] # Nothing,
             job[j].move \notin {"trash", "restore"} =>
               /\ fs'[To(j)] = fs[From(j)] /\ fs'[From(j)] = Nothing
               /\ \A n \in Names : n \notin {To(j), From(j)} => fs'[n] = fs[n]
      PROVE  Installed(j, Result(j))
  <2>1. job[j].move \notin {"trash", "restore"} /\ job[j].staged = "none"
    BY <1>7 DEF Succeeds, Goes, Ends, Turns, Step
  <2>2. job[j].move = "install"
    BY <1>3, <1>7, <2>1, Ends2 DEF Course
  <2>3. To(j) = Lib(job[j].dest) /\ From(j) = New(j)
    BY <2>1, <2>2, Ends2
  <2>4. fs'[Lib(job[j].dest)] = Result(j) /\ fs'[New(j)] = Nothing
    BY <1>3, <1>7, <2>1, <2>3 DEF Scratch
  <2>5. fs'[Staged(j)] = Nothing
    BY <1>3, <1>4, <1>7, <2>1, <2>3 DEF StagedEnd
  <2>6. \A n \in LibNames : n # Lib(job[j].dest) => fs'[n] = fs[n]
    BY <1>3, <1>7, <2>1, <2>3, NameFacts
  <2> QED BY <1>3, <1>6, <2>4, <2>5, <2>6 DEF ProductsOf
<1>8. CASE DropOld(j)
  <2>1. job[j].phase = "dropping" /\ fs[To(j)] = fs[From(j)] /\ fs[From(j)] # Nothing
    BY <1>3, <1>8, DropOldDoes DEF Half
  <2>2. /\ Succeeds(j) /\ (job[j].move = "restore" \/ Wrote(From(j), Nothing))
    BY <1>8, DropOldDoes DEF Goes, Step
  <2>3. To(j) \in Names /\ From(j) \in Names /\ From(j) # To(j)
    BY <1>3, <2>1, PlaceFacts DEF Course
  <2>4. job[j].move \notin {"trash", "restore"} =>
           /\ fs'[To(j)] = fs[From(j)] /\ fs'[From(j)] = Nothing
           /\ \A n \in Names : n \notin {To(j), From(j)} => fs'[n] = fs[n]
    BY <2>1, <2>2, <2>3 DEF Wrote
  <2> QED BY <1>7, <2>1, <2>2, <2>4 DEF ProductsOf
<1>9. CASE Rename(j)
  <2>1. /\ job[j].phase = "renaming" /\ fs[From(j)] # Nothing /\ Succeeds(j)
        /\ fs' = [fs EXCEPT ![To(j)] = fs[From(j)], ![From(j)] = Nothing]
    BY <1>9, RenameDoes DEF Fails, Goes, Ends, Step
  <2>2. To(j) \in Names /\ From(j) \in Names /\ From(j) # To(j)
    BY <1>3, <2>1, PlaceFacts DEF Course
  <2>3. /\ fs'[To(j)] = fs[From(j)] /\ fs'[From(j)] = Nothing
        /\ \A n \in Names : n \notin {To(j), From(j)} => fs'[n] = fs[n]
    BY <2>1, <2>2 DEF TypeOK
  <2> QED BY <1>7, <2>1, <2>3 DEF ProductsOf
<1>10. CASE Unscratch(j)
  <2>1. /\ job[j].phase = "unscratching"
        /\ Wrote(New(j), Nothing) \/ (fs' = fs /\ job[j].staged # "link")
    BY <1>10, UnscratchDoes DEF Goes, Step
  <2>2. /\ \A n \in Names : n # New(j) => fs'[n] = fs[n]
        /\ fs[Staged(j)] = Nothing /\ fs'[Staged(j)] = Nothing /\ job[j].staged # "none"
    BY <1>3, <2>1 DEF Wrote, StagedEnd
  <2>3. \A n \in LibNames : fs'[n] = fs[n]
    BY <1>3, <2>2, NameFacts
  <2>4. CASE job[j].staged = "link"
    <3>1. fs[Lib(job[j].dest)] = Result(j) /\ fs'[New(j)] = Nothing
      BY <1>3, <2>1, <2>4 DEF Half, Wrote
    <3>2. fs'[Lib(job[j].dest)] = Result(j)
      BY <1>3, <2>2, <3>1, KeptFacts
    <3> QED BY <1>3, <1>6, <2>2, <2>3, <3>1, <3>2 DEF ProductsOf
  <2>5. CASE job[j].staged = "copy"
    <3>1. PICK n \in KeptNames : fs[n] = Copy(j)
      BY <2>1, <2>5 DEF CopiesStay, Kept, KeptNames
    <3>2. fs'[n] = Copy(j)
      BY <2>2, <3>1, KeptFacts
    <3>3. fs'[New(j)] # Copy(j)
      BY <1>3, <2>1 DEF Wrote, Scratch
    <3> QED BY <1>3, <1>6, <2>2, <2>3, <3>2, <3>3 DEF ProductsOf
  <2>6. job[j].staged \in {"none", "link", "copy"}
    BY DEF TypeOK, Job
  <2> QED BY <2>2, <2>4, <2>5, <2>6
<1>11. CASE Judge(j)
  <2> DEFINE here == Lib(job[j].dest)
  <2>1. fs' = fs /\ Landed(j) /\ ~ Linked(here)
    BY <1>11, JudgeDoes DEF Ends, Turns, Step
  <2>2. \A n \in Names : fs[n] = fs[here] => n = here
    BY <2>1 DEF Linked, NamesOf
  <2>3. fs[New(j)] # fs[here] /\ fs[Staged(j)] # fs[here]
    BY <1>3, <2>2
  <2>4. fs[here] \in ProductsOf(j)
    BY <2>1, <2>3 DEF Landed, ProductsOf
  <2> QED BY <1>3, <2>1, <2>3, <2>4, <1>6
<1> QED BY <1>2, <1>8, <1>9, <1>10, <1>11 DEF ProductsOf

-----------------------------------------------------------------------------
(* The beginning *)

LEMMA FilesAtFirst ==
  ASSUME Init
  PROVE  /\ \A f \in Files : fs[Lib(f)] = Original(f)
         /\ \A n \in Names : fs[n] = Nothing \/ \E f \in Files : n = Lib(f) /\ fs[n] = Original(f)
         /\ \A j \in Jobs : fs[New(j)] = Nothing /\ fs[Staged(j)] = Nothing /\ fs[Trash(j)] = Nothing
<1>0. fs = [n \in Names |-> IF n \in {Lib(f) : f \in Files} THEN Original(n[2]) ELSE Nothing]
  BY DEF Init
<1>1. \A f \in Files : Lib(f) \in Names /\ Lib(f)[2] = f
  BY ReplacementAssumption, NameFacts DEF Lib
<1>2. \A f \in Files : fs[Lib(f)] = Original(f)
  BY <1>0, <1>1
<1>3. \A n \in Names : n \notin {Lib(f) : f \in Files} => fs[n] = Nothing
  BY <1>0
<1> QED BY <1>2, <1>3, NameFacts

LEMMA TypesAtFirst == Init => TypeOK
<1> SUFFICES ASSUME Init PROVE TypeOK
  OBVIOUS
<1>1. fs \in [Names -> Contents \cup {Nothing}]
  <2>1. \A n \in Names : fs[n] \in Contents \cup {Nothing}
    BY FilesAtFirst, ContentFacts
  <2>2. fs = [n \in Names |-> IF n \in {Lib(f) : f \in Files} THEN Original(n[2]) ELSE Nothing]
    BY DEF Init
  <2>3. fs = [n \in Names |-> fs[n]]
    BY <2>2
  <2> QED BY <2>1, <2>3
<1>2. job \in [Jobs -> Job]
  <2>1. \A j \in Jobs : IdleJob(FileOf[j]) \in Job
    BY ReplacementAssumption DEF IdleJob, Job, Phases, Outs
  <2> QED BY <2>1 DEF Init
<1>3. row \in [Files -> [path : Paths, inode : Contents]]
  BY ReplacementAssumption, ContentFacts DEF Init
<1>4. rec \in Recovery
  BY DEF Init, IdleRec, Recovery
<1>5. faults \in 0..MaxFaults /\ links \in {"all", "own", "none"} /\ reserved \in [Paths -> Jobs \cup {"none"}]
  BY ReplacementAssumption DEF Init
<1> QED BY <1>1, <1>2, <1>3, <1>4, <1>5 DEF Init, TypeOK

-----------------------------------------------------------------------------
(* What holds always, and what does while half-made moves keep their paths *)

\* Enough for what is in the library to be whole, and for nothing to be put over it.
WholeInv ==
  TypeOK /\ OwnFiles /\ Courses /\ Recovering /\ LibraryFilesAreWhole /\ Reserving /\ Clear

\* Enough, with that, for no file to lose its last name.
KeptInv ==
  Made /\ OneOpen /\ Verifying /\ TrashIsFree /\ HalfMoves /\ RowsAreRuns /\ OriginalsAreKept

LEMMA AtFirst == Init => WholeInv /\ KeptInv
<1> SUFFICES ASSUME Init PROVE WholeInv /\ KeptInv
  OBVIOUS
<1>0. /\ \A j \in Jobs : /\ job[j].phase = "idle" /\ job[j].move = "none"
                         /\ job[j].staged = "none" /\ job[j].out = "none"
      /\ rec.phase = "idle"
  BY DEF Init, IdleJob, IdleRec
<1>1. OwnFiles /\ Courses /\ Recovering /\ Reserving /\ Clear
  <2>1. OwnFiles
    BY <1>0, FilesAtFirst, ContentFacts DEF OwnFiles, Scratch
  <2>2. Courses /\ Recovering /\ Reserving /\ Clear
    BY <1>0 DEF Courses, Course, Recovering, Reserving, Clear
  <2> QED BY <2>1, <2>2
<1>2. LibraryFilesAreWhole
  BY FilesAtFirst, ContentFacts, NameFacts DEF LibraryFilesAreWhole
<1>3. Made /\ OneOpen /\ Verifying /\ TrashIsFree /\ HalfMoves
  <2>1. Made
    BY FilesAtFirst, ContentFacts DEF Made, ProductsOf
  <2>2. OneOpen /\ Verifying
    BY <1>0 DEF OneOpen, Open, Verifying
  <2>3. TrashIsFree
    BY FilesAtFirst DEF TrashIsFree
  <2>4. HalfMoves
    BY <1>0 DEF HalfMoves, Half
  <2> QED BY <2>1, <2>2, <2>3, <2>4
<1>4. \A f \in Files : row[f].inode = Original(f)
  BY DEF Init
<1>5. RowsAreRuns
  BY <1>4, ReplacementAssumption, ContentFacts DEF RowsAreRuns, ProductsOf
<1>6. OriginalsAreKept
  <2>1. \A f \in Files : Kept(Original(f))
    BY FilesAtFirst, NameFacts, ReplacementAssumption DEF Kept
  <2>2. \A f \in Files : row[f].inode \notin Products(f)
    BY <1>4, ContentFacts DEF Products
  <2> QED BY <2>1, <2>2 DEF OriginalsAreKept
<1> QED BY <1>1, <1>2, <1>3, <1>5, <1>6, TypesAtFirst DEF WholeInv, KeptInv

LEMMA WholeHolds == Spec => []WholeInv
<1>1. Init => WholeInv
  BY AtFirst
<1>2. WholeInv /\ [Next]_vars => WholeInv'
  BY Types, OwnFilesHold, CoursesHold, RecoveringHolds, WholeFilesHold, ReservesHold, ClearHolds DEF WholeInv
<1> QED BY <1>1, <1>2, PTL DEF Spec

\* The variables have the values the code gives them: no name holds anything but a file of
\* the model, no job is in a phase its worker does not pass through.
THEOREM ReplacementTypes == Spec => []TypeOK
<1>1. WholeInv => TypeOK
  BY DEF WholeInv
<1> QED BY <1>1, WholeHolds, PTL

\* A file that is still being copied never has a name in the library or in trash, whatever
\* fails and whoever is killed (engine/executor/replace-original.ts, stageReplacement).
THEOREM LibraryIsWhole == Spec => []LibraryFilesAreWhole
<1>1. WholeInv => LibraryFilesAreWhole
  BY DEF WholeInv
<1> QED BY <1>1, WholeHolds, PTL

\* No step of a worker, of the recovery or of a sweep puts a file where another one is, but
\* for a rename that no reservation guards, or one that meets a file from outside that came
\* after the look (replace-original.ts, moveExclusively, createExclusively).
THEOREM NothingIsReplaced == Spec => NothingIsOverwritten
<1>1. WholeInv /\ [Next]_vars =>
        [\A p \in Paths :
           fs[Lib(p)] # Nothing /\ fs'[Lib(p)] # fs[Lib(p)]
           => \/ fs'[Lib(p)] = Nothing
              \/ unguarded'
              \/ links # "all" /\ fs[Lib(p)] = Guest(p)]_vars
  BY NothingOverwrites DEF WholeInv, NoOverwriting
<1> QED BY <1>1, WholeHolds, PTL DEF Spec, NothingIsOverwritten

LEMMA KeptHolds == Spec /\ []AloneAtItsPath => [](WholeInv /\ KeptInv)
<1>1. Init => WholeInv /\ KeptInv
  BY AtFirst
<1>2. WholeInv /\ KeptInv /\ AloneAtItsPath /\ [Next]_vars => KeptInv'
  BY MadeHolds, OneOpens, VerifyingHolds, TrashStaysFree, HalfMovesHold, RowsStayRuns, OriginalsStay
     DEF WholeInv, KeptInv
<1> QED BY <1>1, <1>2, WholeHolds, PTL DEF Spec

\* While no half-made move shares its path with another, no original, and no product that
\* its row has recorded, ever loses its last name in the library and in trash, whatever call
\* fails and whoever is killed; and the library has whole files only (replace-original.ts,
\* swap-recovery.ts).  Without the condition it is not so: a name is removed without a look
\* at what it has come to hold (README, section 4).
THEOREM FilesStayKept == Spec /\ []AloneAtItsPath => []FilesAreKept
<1>1. WholeInv /\ KeptInv => FilesAreKept
  BY DEF WholeInv, KeptInv, FilesAreKept
<1> QED BY <1>1, KeptHolds, PTL

\* Enough, with those, for a result that is said to be installed to be where the run says.
LandInv == KnownAreMade /\ StagedEnds /\ ProductsRest /\ CopiesStay

LEMMA LandsAtFirst == Init => LandInv
<1> SUFFICES ASSUME Init PROVE LandInv
  OBVIOUS
<1>1. \A j \in Jobs : job[j].phase = "idle"
  BY DEF Init, IdleJob
<1>2. rec.inode = Nothing /\ \A f \in Files : row[f].inode = Original(f)
  BY DEF Init, IdleRec
<1>3. KnownAreMade
  BY <1>2, ContentFacts DEF KnownAreMade, Unknown, ProductsOf
<1>4. StagedEnds /\ ProductsRest /\ CopiesStay
  BY <1>1 DEF StagedEnds, StagedEnd, ProductsRest, CopiesStay, Alive
<1> QED BY <1>3, <1>4 DEF LandInv

LEMMA LandHolds == Spec /\ []AloneAtItsPath => []LandInv
<1>1. Init => LandInv
  BY LandsAtFirst
<1>2. WholeInv /\ KeptInv /\ LandInv /\ [Next]_vars => LandInv'
  BY KnownHold, StagedEndsHold, ProductsStay, CopiesAreKept DEF WholeInv, KeptInv, LandInv
<1> QED BY <1>1, <1>2, KeptHolds, PTL DEF Spec

\* While no half-made move shares its path with another, a run says "replaced" only when its
\* result has left every working name, is at no path but the one it reports, and has a name
\* there or in trash (replace-original.ts, swapLanded and the end of replaceOriginal).  The
\* step itself may be the rename that no reservation guards.
THEOREM ReplacedIsThere == Spec /\ []AloneAtItsPath => ReplacedIsInstalled
<1> DEFINE Step1 ==
      \A j \in Jobs : job'[j].out = "replaced" /\ job[j].out # "replaced" /\ ~ unguarded
        => \E c \in {Result(j), Copy(j)} :
             /\ Kept(c)'
             /\ \A n \in LibNames \cup {New(j), Staged(j)} : fs'[n] = c => n = Lib(job[j].dest)
<1>1. WholeInv /\ KeptInv /\ LandInv /\ [Next]_vars => [Step1]_vars
  <2>1. SUFFICES ASSUME WholeInv, KeptInv, LandInv, [Next]_vars, NEW j \in Jobs,
                        job'[j].out = "replaced", job[j].out # "replaced", ~ unguarded
                 PROVE  \E c \in {Result(j), Copy(j)} :
                          /\ Kept(c)'
                          /\ \A n \in LibNames \cup {New(j), Staged(j)} : fs'[n] = c => n = Lib(job[j].dest)
    OBVIOUS
  <2>2. PICK c \in ProductsOf(j) : Installed(j, c)
    BY <2>1, ReplacedInstalls DEF WholeInv, KeptInv, LandInv
  <2> QED BY <2>2 DEF Installed, Kept, KeptNames, ProductsOf
<1>2. []([Step1]_vars) <=> ReplacedIsInstalled
  BY DEF ReplacedIsInstalled
<1> QED BY <1>1, <1>2, KeptHolds, LandHolds, PTL DEF Spec
=============================================================================
