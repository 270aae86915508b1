------------------------------ MODULE Scanner ------------------------------
(***************************************************************************)
(* Scanning one library: the walk, the identity of what it finds, the rows *)
(* it opens, queues and marks missing, and the operator's forgetting of    *)
(* missing rows; beside one worker that replaces files, and a user who     *)
(* moves, deletes and writes them.                                         *)
(*   server/src/scanner/scan-library.ts, reconcile.ts, forget-missing.ts   *)
(*   server/src/db/media-file-repo.ts   upsertScanned, updateAfterRun,     *)
(*                                      markMissing, claimNext             *)
(*   core/src/identity.ts                                                  *)
(*                                                                         *)
(* A file is an inode and a content; the content stands for its partial    *)
(* hash, its facts and its times.  Every await of the scan is a step       *)
(* boundary, except that a stat and the synchronous code after it are one  *)
(* step.  One root; review holds and hard links are left out.              *)
(***************************************************************************)
EXTENDS Naturals, FiniteSets

CONSTANTS
  Paths,
  Stem,        \* [Paths -> a name without its extension, with its directory]
  Rows,        \* bound: row ids
  Inodes, Contents,
  MaxUser,     \* bound: changes a user makes, unmounting included
  MaxRuns      \* bound: runs of the worker

NoInode == 0
NoFile  == [inode |-> NoInode, content |-> 0]
NoRow   == [path |-> "none"]

ASSUME ScannerAssumption ==
  /\ Stem \in [Paths -> STRING]
  /\ 0 \notin Inodes /\ 0 \notin Contents /\ "none" \notin Paths

VARIABLES
  disk,      \* what is at each path
  mounted,   \* the root is there
  rowOf,     \* the rows of media_file
  scan,      \* the running scan
  seen,      \* rows the walk found
  pending,   \* rows to probe, and then to persist
  checks,    \* reconcile's candidates: rows and the paths it read
  run,       \* the worker: the row it holds, the path it was given, what it left on disk
  forget,    \* forget-missing: the row whose verdict is awaited
  users, runs,
  quiet,     \* history: nothing but the scan changed anything since it began
  reused,    \* history: a name or an inode that a row had was given to another file, or a
             \* row was written with what is not, or no longer, at the path
  ghosts     \* history: recordings that met a second row of their file

vars == <<disk, mounted, rowOf, scan, seen, pending, checks, run, forget,
          users, runs, quiet, reused, ghosts>>

Files      == [inode : Inodes \cup {NoInode}, content : Contents \cup {0}]
RowStates  == {"unknown", "queued", "running", "good", "held"}
\* "probed" is the content of the stored probe; "signature" the one a run found good.
RowRecord  ==
  [path : Paths, inode : Inodes \cup {NoInode}, content : Contents, state : RowStates,
   missing : BOOLEAN, probed : Contents \cup {0}, signature : Contents \cup {0}]
ScanSteps  == {"idle", "walk", "hash", "restat", "upsert", "probe", "reconcile"}
ScanRecord == [at : ScanSteps, todo : SUBSET Paths, path : Paths \cup {"none"},
               stat : Files, hash : Contents \cup {0}, tries : 0..3]

OnDisk(p)   == mounted /\ disk[p] # NoFile
Known       == {r \in Rows : rowOf[r] # NoRow}
\* Ids are never used twice: a new row takes one that nothing remembers.
FreeRows    == Rows \ (Known \cup seen \cup {run.row, forget.row}
                         \cup {item.row : item \in pending} \cup {c[1] : c \in checks})

\* Names that are all alike: one stands for them.
Least(S) == {n \in S : \A m \in S : n <= m}

TypeOK ==
  /\ disk \in [Paths -> Files]
  /\ {mounted, quiet, reused} \subseteq BOOLEAN
  /\ \A r \in Known : rowOf[r] \in RowRecord
  /\ scan \in ScanRecord
  /\ seen \subseteq Rows
  /\ pending \subseteq [row : Rows, path : Paths, probe : BOOLEAN, got : Contents \cup {0}]
  /\ checks \subseteq Rows \X Paths
  /\ run.row \in Rows \cup {0} /\ {run.path, run.left} \subseteq Paths \cup {"none"}
  /\ forget.row \in Rows \cup {0} /\ forget.verdict \in {"none", "gone", "back", "unconfirmed"}
  /\ users \in 0..MaxUser /\ runs \in 0..MaxRuns /\ ghosts \in Nat

IdleScan == [at |-> "idle", todo |-> {}, path |-> "none", stat |-> NoFile, hash |-> 0, tries |-> 0]
NoRun    == [row |-> 0, path |-> "none", left |-> "none"]
NoForget == [row |-> 0, verdict |-> "none"]

\* The library as found: one path holds a file, and no row is known.
Init ==
  /\ disk \in {[p \in Paths |-> IF p = at THEN f ELSE NoFile] :
                at \in Paths, f \in [inode : Least(Inodes), content : Least(Contents)]}
  /\ mounted = TRUE /\ rowOf = [r \in Rows |-> NoRow]
  /\ scan = IdleScan /\ seen = {} /\ pending = {} /\ checks = {}
  /\ run = NoRun /\ forget = NoForget
  /\ users = 0 /\ runs = 0 /\ quiet = FALSE /\ reused = FALSE /\ ghosts = 0

-----------------------------------------------------------------------------
(* Identity: core/src/identity.ts and upsertScanned.                       *)

ByInode(i)   == {r \in Known : i # NoInode /\ rowOf[r].inode = i}
ByContent(c) == {r \in Known : rowOf[r].content = c}

\* matchIdentity: by inode first, then by content.
Match(f) == IF ByInode(f.inode) # {} THEN ByInode(f.inode) ELSE ByContent(f.content)

\* The row an upsert writes: on a disagreement the bytes decide over the inode.
Existing(f) ==
  IF ByInode(f.inode) # {} /\ ByContent(f.content) # {}
  THEN ByContent(f.content)
  ELSE ByInode(f.inode) \cup ByContent(f.content)

\* Rows that lose their inode to a row that holds the file.
WithoutInode(rows, i, keep) ==
  [r \in Rows |-> IF r \in Known \ {keep} /\ rows[r].inode = i
                  THEN [rows[r] EXCEPT !.inode = NoInode] ELSE rows[r]]

NewRow(p, f) ==
  [path |-> p, inode |-> f.inode, content |-> f.content, state |-> "unknown",
   missing |-> FALSE, probed |-> 0, signature |-> 0]

\* A file a run in progress may be putting in place: same directory and stem.
InFlightOutput(p) ==
  \E r \in Known : rowOf[r].state = "running" /\ Stem[rowOf[r].path] = Stem[p]

-----------------------------------------------------------------------------
(* The walk.                                                               *)

Elsewhere(step) == [scan EXCEPT !.at = step, !.path = "none", !.stat = NoFile, !.hash = 0, !.tries = 0]

ScanStarts ==
  /\ scan.at = "idle"
  /\ scan' = [IdleScan EXCEPT !.at = "walk", !.todo = Paths]
  /\ seen' = {} /\ pending' = {} /\ checks' = {} /\ quiet' = TRUE
  /\ UNCHANGED <<disk, mounted, rowOf, run, forget, users, runs, ghosts, reused>>

\* The listing yields a path with its stat, or nothing is there when it gets to it.
WalkTo(p) ==
  /\ scan.at = "walk" /\ p \in scan.todo
  /\ scan' = IF OnDisk(p)
             THEN [scan EXCEPT !.at = "hash", !.todo = @ \ {p}, !.path = p,
                               !.stat = disk[p], !.tries = 1]
             ELSE [scan EXCEPT !.todo = @ \ {p}]
  /\ UNCHANGED <<disk, mounted, rowOf, seen, pending, checks, run, forget, users, runs, quiet, ghosts, reused>>

\* Mutant: what was hashed is taken to be what was listed.
HashOnce ==
  /\ scan.at = "hash"
  /\ scan' = IF OnDisk(scan.path)
             THEN [scan EXCEPT !.at = "upsert", !.hash = disk[scan.path].content]
             ELSE Elsewhere("walk")
  /\ UNCHANGED <<disk, mounted, rowOf, seen, pending, checks, run, forget, users, runs, quiet, ghosts, reused>>

\* The last attempt is taken unverified; a file that is gone is skipped.
Hash ==
  /\ scan.at = "hash"
  /\ scan' = IF ~ OnDisk(scan.path) THEN Elsewhere("walk")
             ELSE [scan EXCEPT !.hash = disk[scan.path].content,
                               !.at = IF scan.tries >= 3 THEN "upsert" ELSE "restat"]
  /\ UNCHANGED <<disk, mounted, rowOf, seen, pending, checks, run, forget, users, runs, quiet, ghosts, reused>>

\* Mutant: the mark of a file that is back stays.
RefreshedMarked(row, p, f) == [row EXCEPT !.inode = f.inode, !.content = f.content, !.path = p]

Refreshed(row, p, f) ==
  [row EXCEPT !.inode = f.inode, !.content = f.content, !.path = p, !.missing = FALSE]

\* upsertScanned on the row the identity names, or a new one.
Upsert(p, f) ==
  IF Existing(f) = {}
  THEN \E r \in Least(FreeRows) :
         /\ rowOf' = [rowOf EXCEPT ![r] = NewRow(p, f)]
         /\ seen' = seen \cup {r}
         /\ pending' = pending \cup {[row |-> r, path |-> p, probe |-> TRUE, got |-> 0]}
  ELSE \E r \in Existing(f) :
         LET before == rowOf[r]
             doProbe == before.probed = 0 \/ before.content # f.content
         IN  /\ rowOf' = WithoutInode([rowOf EXCEPT ![r] = Refreshed(before, p, f)], f.inode, r)
             /\ seen' = seen \cup {r}
             /\ pending' = pending \cup {[row |-> r, path |-> p, probe |-> doProbe, got |-> 0]}

\* Mutant: a file that no row knows is always a new one.
EntryAlwaysNew(f) ==
  /\ Upsert(scan.path, f) /\ reused' = (reused \/ f # disk[scan.path])
  /\ scan' = Elsewhere("walk")

\* A new file that a run may be producing is left to the run.
Entry(f) ==
  /\ \/ /\ Match(f) = {} /\ InFlightOutput(scan.path)
        /\ UNCHANGED <<rowOf, seen, pending, reused>>
     \/ /\ ~ (Match(f) = {} /\ InFlightOutput(scan.path)) /\ Upsert(scan.path, f)
        /\ reused' = (reused \/ f # disk[scan.path])
  /\ scan' = Elsewhere("walk")

\* The file listed and the file hashed are the same one: the identity is current.
Restat ==
  /\ scan.at = "restat"
  /\ LET now == disk[scan.path]
     IN  \/ /\ OnDisk(scan.path) /\ now = scan.stat
            /\ Entry([inode |-> now.inode, content |-> scan.hash])
         \/ /\ OnDisk(scan.path) /\ now # scan.stat
            /\ scan' = [scan EXCEPT !.at = "hash", !.stat = now, !.tries = @ + 1]
            /\ UNCHANGED <<rowOf, seen, pending, reused>>
         \/ /\ ~ OnDisk(scan.path)
            /\ scan' = Elsewhere("walk") /\ UNCHANGED <<rowOf, seen, pending, reused>>
  /\ UNCHANGED <<disk, mounted, checks, run, forget, users, runs, quiet, ghosts>>

UnverifiedEntry ==
  /\ scan.at = "upsert"
  /\ Entry([inode |-> scan.stat.inode, content |-> scan.hash])
  /\ UNCHANGED <<disk, mounted, checks, run, forget, users, runs, quiet, ghosts>>

-----------------------------------------------------------------------------
(* Probing and persisting, in windows of any size.                         *)

Probe(item) ==
  /\ scan.at \in {"walk", "probe"} /\ item \in pending /\ item.probe
  /\ pending' = (pending \ {item}) \cup
                  {[item EXCEPT !.probe = FALSE,
                                !.got = IF OnDisk(item.path) THEN disk[item.path].content ELSE 0]}
  /\ UNCHANGED <<disk, mounted, rowOf, scan, seen, checks, run, forget, users, runs, quiet, ghosts, reused>>

\* Mutant: every row whose content is not known to be good is queued.
RequeuedAlways(row) == row.probed # 0 /\ row.signature # row.probed

\* NEVER_REQUEUE_STATES, a known probe, and not known to be good.
Requeued(row) ==
  /\ row.state # "running"
  /\ row.probed # 0
  /\ ~ (row.state = "good" /\ row.signature = row.probed)

Persist(item) ==
  /\ scan.at \in {"walk", "probe"} /\ item \in pending /\ ~ item.probe
  /\ pending' = pending \ {item}
  /\ LET r == item.row
         probed == IF item.got = 0 THEN rowOf[r] ELSE [rowOf[r] EXCEPT !.probed = item.got]
     IN  rowOf' = IF r \notin Known THEN rowOf
                  ELSE [rowOf EXCEPT ![r] = IF Requeued(probed)
                                            THEN [probed EXCEPT !.state = "queued"] ELSE probed]
  /\ UNCHANGED <<disk, mounted, scan, seen, checks, run, forget, users, runs, quiet, ghosts, reused>>

WalkEnds ==
  /\ scan.at = "walk" /\ scan.todo = {}
  /\ scan' = Elsewhere("probe")
  /\ UNCHANGED <<disk, mounted, rowOf, seen, pending, checks, run, forget, users, runs, quiet, ghosts, reused>>

-----------------------------------------------------------------------------
(* Reconciling, and forgetting.                                            *)

RootHasEntries == mounted /\ \E p \in Paths : disk[p] # NoFile

\* An unavailable root, or an empty one, disqualifies the rows under it.
ReconcileStarts ==
  /\ scan.at = "probe" /\ pending = {}
  /\ scan' = [scan EXCEPT !.at = "reconcile"]
  /\ checks' = IF RootHasEntries
               THEN {<<r, rowOf[r].path>> : r \in {r \in Known \ seen :
                       ~ rowOf[r].missing /\ rowOf[r].state # "running"}}
               ELSE {}
  /\ UNCHANGED <<disk, mounted, rowOf, seen, pending, run, forget, users, runs, quiet, ghosts, reused>>

\* Mutant: the row is marked whatever became of it since the listing.
MarkMissingUnchecked(r, p) ==
  IF r \in Known THEN [rowOf EXCEPT ![r].missing = TRUE] ELSE rowOf

\* markMissing re-reads the row: a claim or a move since then overrules the check.
MarkMissing(r, p) ==
  IF r \in Known /\ rowOf[r].state # "running" /\ rowOf[r].path = p
  THEN [rowOf EXCEPT ![r].missing = TRUE] ELSE rowOf

\* lstat of the path the listing had; an answer other than ENOENT is no evidence.
Check(c) ==
  /\ scan.at = "reconcile" /\ c \in checks /\ scan.path = "none"
  /\ \/ /\ ~ OnDisk(c[2])
        /\ scan' = [scan EXCEPT !.path = c[2]] /\ UNCHANGED <<checks, quiet>>
     \/ /\ checks' = checks \ {c} /\ quiet' = (quiet /\ OnDisk(c[2])) /\ UNCHANGED scan
  /\ UNCHANGED <<disk, mounted, rowOf, seen, pending, run, forget, users, runs, ghosts, reused>>

Mark(c) ==
  /\ scan.at = "reconcile" /\ c \in checks /\ scan.path = c[2]
  /\ rowOf' = MarkMissing(c[1], c[2])
  /\ checks' = checks \ {c} /\ scan' = [scan EXCEPT !.path = "none"]
  /\ UNCHANGED <<disk, mounted, seen, pending, run, forget, users, runs, quiet, ghosts, reused>>

ScanEnds ==
  /\ scan.at = "reconcile" /\ checks = {} /\ scan' = IdleScan
  /\ UNCHANGED <<disk, mounted, rowOf, seen, pending, checks, run, forget, users, runs, quiet, ghosts, reused>>

\* The bytes decide whether what is at the path is the file.
Verify(r) ==
  /\ forget.row = 0 /\ r \in Known /\ rowOf[r].missing
  /\ \E verdict \in {"unconfirmed",
                     IF OnDisk(rowOf[r].path) /\ disk[rowOf[r].path].content = rowOf[r].content
                     THEN "back" ELSE "gone"} :
       forget' = [row |-> r, verdict |-> verdict]
  /\ UNCHANGED <<disk, mounted, rowOf, scan, seen, pending, checks, run, users, runs, quiet, ghosts, reused>>

\* The row goes, or its mark, on the verdict that was awaited.
Forget ==
  /\ forget.row # 0 /\ forget' = NoForget
  /\ rowOf' = IF forget.row \notin Known THEN rowOf
              ELSE CASE forget.verdict = "unconfirmed" -> rowOf
                     [] forget.verdict = "back" -> [rowOf EXCEPT ![forget.row].missing = FALSE]
                     [] forget.verdict = "gone" -> [rowOf EXCEPT ![forget.row] = NoRow]
  /\ quiet' = FALSE
  /\ UNCHANGED <<disk, mounted, scan, seen, pending, checks, run, users, runs, ghosts, reused>>

-----------------------------------------------------------------------------
(* The worker.                                                             *)

Claim(r) ==
  /\ run = NoRun /\ runs < MaxRuns
  /\ r \in Known /\ rowOf[r].state = "queued" /\ ~ rowOf[r].missing
  /\ rowOf' = [rowOf EXCEPT ![r].state = "running"]
  /\ run' = [row |-> r, path |-> rowOf[r].path, left |-> "none"] /\ runs' = runs + 1 /\ quiet' = FALSE
  /\ UNCHANGED <<disk, mounted, scan, seen, pending, checks, forget, users, ghosts, reused>>

\* A new file: its inode is no other file's, the original that a run has moved to the
\* trash included, and its bytes are in no file and no row.
HeldInode == IF run.row \in Known THEN rowOf[run.row].inode ELSE NoInode
RowInodes == {rowOf[r].inode : r \in Known}
RowBytes  == {rowOf[r].content : r \in Known}
OnDiskNow == {disk[p] : p \in Paths}
FreeInodes == Inodes \ ({f.inode : f \in OnDiskNow} \cup {HeldInode})
FreeBytes  == Contents \ ({f.content : f \in OnDiskNow} \cup RowBytes)
NewFiles  ==
  [inode : (FreeInodes \cap RowInodes) \cup Least(FreeInodes \ RowInodes), content : Least(FreeBytes)]

Named(p) == \E r \in Known : rowOf[r].path = p

\* Replace Original File: a new file under the same stem, and the original is gone.
Replace(p, f) ==
  /\ run # NoRun /\ run.left = "none" /\ OnDisk(run.path)
  /\ Stem[p] = Stem[run.path]
  /\ p = run.path \/ disk[p] = NoFile
  /\ f \in NewFiles
  /\ disk' = [disk EXCEPT ![run.path] = NoFile, ![p] = f]
  /\ run' = [run EXCEPT !.left = p] /\ quiet' = FALSE
  /\ reused' = (reused \/ f.inode \in RowInodes \/ (p # run.path /\ Named(p)))
  /\ UNCHANGED <<mounted, rowOf, scan, seen, pending, checks, forget, users, runs, ghosts>>

\* updateAfterRun takes the inode from any other row; a row that already has the
\* content is a conflict, and the run a failed attempt.
Record ==
  /\ run # NoRun /\ run' = NoRun /\ quiet' = FALSE
  /\ \/ /\ run.row \in Known /\ run.left # "none" /\ disk[run.left] # NoFile
        /\ LET f == disk[run.left]
               others == ByContent(f.content) \ {run.row}
               settled == [rowOf EXCEPT ![run.row].path = run.left, ![run.row].inode = f.inode,
                                        ![run.row].content = f.content, ![run.row].probed = f.content,
                                        ![run.row].signature = f.content, ![run.row].state = "good"]
           IN  IF others = {}
               THEN rowOf' = WithoutInode(settled, f.inode, run.row) /\ UNCHANGED ghosts
               ELSE rowOf' = [rowOf EXCEPT ![run.row].state = "held"] /\ ghosts' = ghosts + 1
     \/ /\ run.row \in Known /\ ~ (run.left # "none" /\ disk[run.left] # NoFile)
        /\ \/ rowOf' = [rowOf EXCEPT ![run.row].state = "held"]
           \/ /\ run.left = "none"
              /\ rowOf' = [rowOf EXCEPT ![run.row].state = "good",
                                        ![run.row].signature = rowOf[run.row].probed]
        /\ UNCHANGED ghosts
     \/ /\ run.row \notin Known /\ UNCHANGED <<rowOf, ghosts>>
  /\ UNCHANGED <<disk, mounted, scan, seen, pending, checks, forget, users, runs, reused>>

-----------------------------------------------------------------------------
(* The user, and the mount.                                                *)

UserActs ==
  /\ users < MaxUser /\ users' = users + 1 /\ quiet' = FALSE
  /\ UNCHANGED <<rowOf, scan, seen, pending, checks, run, forget, runs, ghosts>>

\* No user touches a file a run is replacing.
Untouched(p) == p \notin {q \in Paths : run.path \in Paths /\ Stem[run.path] = Stem[q]}

Move(p, q) ==
  /\ UserActs /\ OnDisk(p) /\ disk[q] = NoFile /\ Untouched(p) /\ Untouched(q)
  /\ disk' = [disk EXCEPT ![p] = NoFile, ![q] = disk[p]] /\ UNCHANGED mounted
  /\ reused' = (reused \/ Named(q))

Unlink(p) ==
  /\ UserActs /\ OnDisk(p) /\ Untouched(p)
  /\ disk' = [disk EXCEPT ![p] = NoFile] /\ UNCHANGED <<mounted, reused>>

Write(p, f) ==
  /\ UserActs /\ mounted /\ Untouched(p) /\ disk[p] = NoFile
  /\ f \in NewFiles
  /\ disk' = [disk EXCEPT ![p] = f] /\ UNCHANGED mounted
  /\ reused' = (reused \/ Named(p) \/ f.inode \in RowInodes)

Mount == UserActs /\ mounted' = ~ mounted /\ UNCHANGED <<disk, reused>>

Next ==
  \/ ScanStarts \/ Hash \/ Restat \/ UnverifiedEntry \/ WalkEnds \/ ReconcileStarts \/ ScanEnds
  \/ \E p \in Paths : WalkTo(p)
  \/ \E item \in pending : Probe(item) \/ Persist(item)
  \/ \E c \in checks : Check(c) \/ Mark(c)
  \/ \E r \in Rows : Verify(r) \/ Claim(r)
  \/ Forget \/ Record \/ Mount
  \/ \E p \in Paths : \E f \in Files : Replace(p, f) \/ Write(p, f)
  \/ \E p, q \in Paths : Move(p, q)
  \/ \E p \in Paths : Unlink(p)

Spec == Init /\ [][Next]_vars

-----------------------------------------------------------------------------

\* A run that replaces its file never finds a second row opened for it by a scan,
\* however the walk and the replacing interleave, while no name and no inode of a
\* row is given to another file and what a row is written with is at its path: a third
\* hash is taken unverified, and a file can be back when it is looked at again
\* (scan-library.ts isInFlightOutput, observeFile).
NoGhostRow == ~ reused => ghosts = 0

\* The same without the condition: scan-library.ts calls the guard airtight.
AirtightGuard == ghosts = 0

\* A scan during which nothing else happened and no run was in progress ends with the
\* library as it is: each file on disk has one row, at its path, and a row whose path
\* holds nothing is marked, unless the root looked empty; the marks of files that are
\* back are gone (scan-library.ts scanLibrary, reconcile.ts reconcileMissing).
RowsAt(p) == {r \in Known : rowOf[r].path = p /\ rowOf[r].content = disk[p].content /\ ~ rowOf[r].missing}

QuietScanIsExact ==
  scan.at = "reconcile" /\ checks = {} /\ quiet /\ run = NoRun =>
    /\ \A p \in Paths : OnDisk(p) => Cardinality(RowsAt(p)) = 1
    /\ RootHasEntries => \A r \in Known : rowOf[r].missing \/ OnDisk(rowOf[r].path)

\* The row of a run in progress is the run's: a scan neither queues it again nor marks
\* it missing (scan-library.ts NEVER_REQUEUE_STATES, media-file-repo.ts markMissing).
RunKeepsItsRow ==
  run.row \in Known => rowOf[run.row].state = "running" /\ ~ rowOf[run.row].missing

\* A run's row is not forgotten under it: a row whose file is back has its mark
\* cleared instead (forget-missing.ts).
RunningRowIsNotForgotten == run.row # 0 => run.row \in Known

=============================================================================
