--------------------------- MODULE DataDirectory ---------------------------
(***************************************************************************)
(* Who owns a data directory: daemons that start, stop and are killed, and *)
(* the commands that become a daemon's client or open the database.        *)
(*   server/src/daemon/lockfile.ts, os-file-lock.ts                        *)
(*   server/src/daemon/daemon.ts    startDaemon, unwind, stop              *)
(*   server/src/cli.ts              resolveDaemon, openDb, run, requeue    *)
(*                                                                         *)
(* daemon.json and the takeover marker are created empty, then written;    *)
(* every call on the file system is a step.  The kernel lock is given to   *)
(* one process and dropped when it dies; a mount may be unable to lock,    *)
(* and then a pid answers for it.  One media file stands for the queue.    *)
(***************************************************************************)
EXTENDS Naturals, FiniteSets

CONSTANTS
  Daemons,      \* starts of a daemon, in any order
  Commands,     \* invocations of the command line
  MaxAttempts   \* MAX_ATTEMPTS

VARIABLES
  locks,       \* the mount can hold kernel locks
  containers,  \* every daemon is pid 1 where it runs
  kernel,      \* who holds the lock on daemon.lock
  record,      \* daemon.json
  marker,      \* daemon.takeover.json
  daemon,      \* where each daemon is, and its attempts
  command,     \* what each command does
  row,         \* the ledger state of the media file
  workers      \* daemons and commands that work on it

dirVars == <<locks, containers, kernel, record, marker, daemon, command, row, workers>>

Nobody == 0   \* no daemon has this name
NoFile == [by |-> Nobody, written |-> FALSE]
FilesOf == {NoFile} \cup [by : Daemons, written : BOOLEAN]

Starting == {"listen", "claim", "write", "readback", "incumbent", "mark", "markwrite",
             "recheck", "unlink", "unmark", "markread", "unstale"}
Stopping == {"closing", "removing", "releasing"}
Owning   == {"owner"} \cup Stopping
Ended    == {"off", "dead"}
DaemonSteps == Starting \cup Owning \cup {"refused"} \cup Ended

DirTypeOK ==
  /\ {locks, containers} \subseteq BOOLEAN
  /\ kernel \in Daemons \cup {Nobody}
  /\ record \in FilesOf /\ marker \in FilesOf
  /\ daemon \in [Daemons -> [at : DaemonSteps, tries : 0..MaxAttempts]]
  /\ command \in [Commands -> {"none", "client", "run", "requeue", "running", "done"}]
  /\ row \in {"queued", "running", "good"}
  /\ workers \subseteq Daemons \cup Commands

DirInit ==
  /\ locks \in BOOLEAN /\ containers \in BOOLEAN
  /\ kernel = Nobody /\ record = NoFile /\ marker = NoFile
  /\ daemon = [d \in Daemons |-> [at |-> "off", tries |-> 0]]
  /\ command = [c \in Commands |-> "none"]
  /\ row = "queued" /\ workers = {}

At(d)      == daemon[d].at
To(d, s)   == daemon' = [daemon EXCEPT ![d].at = s]
Running(d) == At(d) \notin Ended
Pid(d)     == IF containers THEN 1 ELSE d
Files3     == <<record, marker>>
Rest       == <<locks, containers, command, row, workers>>

-----------------------------------------------------------------------------
(* What a file says, and whether its daemon is alive.                      *)

\* processIsAlive: some process has that pid.
PidAlive(p) == \E e \in Daemons : Running(e) /\ Pid(e) = p

\* A file that is absent or not written yet names nobody.
Reads(file) == file.written

\* Mutant: a daemon that holds the kernel lock still asks for the pid.
AliveByPid(d, e) == PidAlive(Pid(e))

\* Whoever holds the lock knows that every record is a corpse, whatever pid it names.
AliveTo(d, e) == kernel # d /\ PidAlive(Pid(e))

\* isDaemonLive: the lock answers where there is one.
Live(e) == IF locks THEN kernel # Nobody ELSE PidAlive(Pid(e))

-----------------------------------------------------------------------------
(* startDaemon: the server listens first, then the directory is acquired.  *)

Start(d) ==
  /\ At(d) = "off" /\ To(d, "listen")
  /\ UNCHANGED <<Rest, Files3, kernel>>

\* Mutant: a lock that is busy is taken for a mount that cannot lock.
AcquireDegraded(d) ==
  /\ At(d) = "listen" /\ To(d, "claim")
  /\ kernel' = IF locks /\ kernel = Nobody THEN d ELSE kernel
  /\ UNCHANGED <<Rest, Files3>>

Acquire(d) ==
  /\ At(d) = "listen"
  /\ \/ locks /\ kernel = Nobody /\ kernel' = d /\ To(d, "claim")
     \/ locks /\ kernel # Nobody /\ UNCHANGED kernel /\ To(d, "refused")
     \/ ~ locks /\ UNCHANGED kernel /\ To(d, "claim")
  /\ UNCHANGED <<Rest, Files3>>

\* open(path, 'wx')
Claim(d) ==
  /\ At(d) = "claim"
  /\ \/ record = NoFile /\ record' = [by |-> d, written |-> FALSE] /\ To(d, "write")
     \/ record # NoFile /\ UNCHANGED record /\ To(d, "incumbent")
  /\ UNCHANGED <<Rest, marker, kernel>>

\* A file unlinked meanwhile is written to where nobody reads.
Write(d) ==
  /\ At(d) = "write" /\ To(d, "readback")
  /\ record' = IF record = [by |-> d, written |-> FALSE] THEN [record EXCEPT !.written = TRUE]
               ELSE record
  /\ UNCHANGED <<Rest, marker, kernel>>

ReadBack(d) ==
  /\ At(d) = "readback"
  /\ To(d, IF Reads(record) /\ Pid(record.by) = Pid(d) THEN "owner" ELSE "refused")
  /\ UNCHANGED <<Rest, Files3, kernel>>

Incumbent(d) ==
  /\ At(d) = "incumbent"
  /\ To(d, IF Reads(record) /\ AliveTo(d, record.by) THEN "refused" ELSE "mark")
  /\ UNCHANGED <<Rest, Files3, kernel>>

Mark(d) ==
  /\ At(d) = "mark"
  /\ \/ marker = NoFile /\ marker' = [by |-> d, written |-> FALSE] /\ To(d, "markwrite")
     \/ marker # NoFile /\ UNCHANGED marker /\ To(d, "markread")
  /\ UNCHANGED <<Rest, record, kernel>>

MarkWrite(d) ==
  /\ At(d) = "markwrite" /\ To(d, "recheck")
  /\ marker' = IF marker = [by |-> d, written |-> FALSE] THEN [marker EXCEPT !.written = TRUE]
               ELSE marker
  /\ UNCHANGED <<Rest, record, kernel>>

MarkRead(d) ==
  /\ At(d) = "markread"
  /\ To(d, IF Reads(marker) /\ AliveTo(d, marker.by) THEN "refused" ELSE "unstale")
  /\ UNCHANGED <<Rest, Files3, kernel>>

\* One attempt more, or the directory "kept changing underneath".
Again(d) ==
  daemon' = [daemon EXCEPT ![d] = IF @.tries + 1 < MaxAttempts
                                  THEN [at |-> "claim", tries |-> @.tries + 1]
                                  ELSE [@ EXCEPT !.at = "refused"]]

\* removeIfPresent of a marker judged dead, whatever is there by now.
Unstale(d) ==
  /\ At(d) = "unstale" /\ marker' = NoFile /\ Again(d)
  /\ UNCHANGED <<Rest, record, kernel>>

\* The record is read again inside the marker; a live one is left alone.
Recheck(d) ==
  /\ At(d) = "recheck"
  /\ \/ Reads(record) /\ AliveTo(d, record.by) /\ marker' = NoFile /\ To(d, "refused")
     \/ ~ (Reads(record) /\ AliveTo(d, record.by)) /\ UNCHANGED marker /\ To(d, "unlink")
  /\ UNCHANGED <<Rest, record, kernel>>

Unlink(d) ==
  /\ At(d) = "unlink" /\ record' = NoFile /\ To(d, "unmark")
  /\ UNCHANGED <<Rest, marker, kernel>>

Unmark(d) ==
  /\ At(d) = "unmark" /\ marker' = NoFile /\ Again(d)
  /\ UNCHANGED <<Rest, record, kernel>>

\* unwind: a start that failed keeps nothing.
Unwind(d) ==
  /\ At(d) = "refused" /\ To(d, "dead")
  /\ kernel' = IF kernel = d THEN Nobody ELSE kernel
  /\ UNCHANGED <<Rest, Files3>>

-----------------------------------------------------------------------------
(* stop: no claim, the server closed, the record removed, the lock dropped. *)

Stop(d) ==
  /\ At(d) = "owner" /\ d \notin workers /\ To(d, "closing")
  /\ UNCHANGED <<Rest, Files3, kernel>>

\* Mutant: the kernel lock goes first, and the record is removed after it.
ReleaseLockFirst(d) ==
  /\ At(d) = "closing"
  /\ kernel' = IF kernel = d THEN Nobody ELSE kernel
  /\ To(d, IF Reads(record) /\ Pid(record.by) # Pid(d) THEN "releasing" ELSE "removing")
  /\ UNCHANGED <<Rest, Files3>>

\* Only while the record is still this daemon's.
Release(d) ==
  /\ At(d) = "closing"
  /\ To(d, IF Reads(record) /\ Pid(record.by) # Pid(d) THEN "releasing" ELSE "removing")
  /\ UNCHANGED <<Rest, Files3, kernel>>

Remove(d) ==
  /\ At(d) = "removing" /\ record' = NoFile /\ To(d, "releasing")
  /\ UNCHANGED <<Rest, marker, kernel>>

ReleaseOsLock(d) ==
  /\ At(d) = "releasing" /\ To(d, "dead")
  /\ kernel' = IF kernel = d THEN Nobody ELSE kernel
  /\ UNCHANGED <<Rest, Files3>>

\* SIGKILL, or power loss: the files stay, the lock does not, the workers go with it.
Kill(d) ==
  /\ Running(d) /\ To(d, "dead")
  /\ kernel' = IF kernel = d THEN Nobody ELSE kernel
  /\ workers' = workers \ {d}
  /\ UNCHANGED <<locks, containers, command, row, Files3>>

-----------------------------------------------------------------------------
(* The queue, and the commands.                                            *)

Dir == <<locks, containers, kernel, record, marker, daemon>>

DaemonClaims(d) ==
  /\ At(d) = "owner" /\ row = "queued" /\ row' = "running" /\ workers' = workers \cup {d}
  /\ UNCHANGED <<Dir, command>>

DaemonSettles(d) ==
  /\ d \in workers /\ workers' = workers \ {d} /\ row' = "good"
  /\ UNCHANGED <<Dir, command>>

\* The reaper of the daemon that owns the directory.
Reap(d) ==
  /\ At(d) = "owner" /\ row = "running" /\ workers = {} /\ row' = "queued"
  /\ UNCHANGED <<Dir, command, workers>>

\* resolveDaemon: a live daemon makes the command its client.
Resolve(c, what) ==
  /\ command[c] = "none" /\ what \in {"run", "requeue"}
  /\ command' = [command EXCEPT ![c] = IF Reads(record) /\ Live(record.by)
                                       THEN IF what = "run" THEN "done" ELSE "client"
                                       ELSE what]
  /\ UNCHANGED <<Dir, row, workers>>

\* POST /files/:id/requeue is refused while the file is claimed, or not answered.
ClientRequeue(c) ==
  /\ command[c] = "client" /\ command' = [command EXCEPT ![c] = "done"]
  /\ row' = IF (\E d \in Daemons : At(d) = "owner") /\ row # "running" THEN "queued" ELSE row
  /\ UNCHANGED <<Dir, workers>>

\* The command's own repository requeues whatever holds the row.
DirectRequeue(c) ==
  /\ command[c] = "requeue" /\ command' = [command EXCEPT ![c] = "done"]
  /\ row' = "queued"
  /\ UNCHANGED <<Dir, workers>>

\* runQueue in this process: a claim, a run, and nothing left.
RunClaims(c) ==
  /\ command[c] = "run"
  /\ \/ /\ row = "queued" /\ row' = "running" /\ workers' = workers \cup {c}
        /\ command' = [command EXCEPT ![c] = "running"]
     \/ /\ row # "queued" /\ command' = [command EXCEPT ![c] = "done"]
        /\ UNCHANGED <<row, workers>>
  /\ UNCHANGED Dir

RunSettles(c) ==
  /\ command[c] = "running" /\ command' = [command EXCEPT ![c] = "run"]
  /\ workers' = workers \ {c} /\ row' = "good"
  /\ UNCHANGED Dir

DaemonStep(d) ==
  \/ Start(d) \/ Acquire(d) \/ Claim(d) \/ Write(d) \/ ReadBack(d) \/ Incumbent(d) \/ Mark(d)
  \/ MarkWrite(d) \/ MarkRead(d) \/ Unstale(d) \/ Recheck(d) \/ Unlink(d) \/ Unmark(d)
  \/ Unwind(d) \/ Stop(d) \/ Release(d) \/ Remove(d) \/ ReleaseOsLock(d) \/ Kill(d)
  \/ DaemonClaims(d) \/ DaemonSettles(d) \/ Reap(d)

CommandStep(c) ==
  \/ \E what \in {"run", "requeue"} : Resolve(c, what)
  \/ ClientRequeue(c) \/ DirectRequeue(c) \/ RunClaims(c) \/ RunSettles(c)

DirNext ==
  \/ \E d \in Daemons : DaemonStep(d)
  \/ \E c \in Commands : CommandStep(c)

DirSpec == DirInit /\ [][DirNext]_dirVars

-----------------------------------------------------------------------------

Owners == {d \in Daemons : At(d) \in Owning}

\* On a mount that can lock, one daemon at a time owns a data directory, killed ones
\* and ones that are all pid 1 included (lockfile.ts acquireDaemonLock).
OneDaemon == locks => Cardinality(Owners) <= 1

\* The same on every mount: "a straggler that removed our file and created its own is
\* detected here rather than being left to run beside us" (lockfile.ts).
OneDaemonOnAnyMount == ~ containers => Cardinality({d \in Daemons : At(d) = "owner"}) <= 1

\* A daemon that owns the directory is advertised there, so that a command becomes its
\* client and never a second writer (lockfile.ts readDaemonRecord, cli.ts openDb).
OwnerIsAdvertised ==
  locks => \A d \in Daemons : At(d) = "owner" => record = [by |-> d, written |-> TRUE]

\* No corpse keeps a daemon out: a start is refused only while another process holds the
\* kernel lock, whatever files and pids a dead daemon left (lockfile.ts).
RefusedByTheLivingOnly ==
  [][locks => \A d \in Daemons : At(d) # "refused" /\ At(d)' = "refused" => kernel \notin {d, Nobody}]_dirVars

\* Two processes never work on one file (media-file-repo.ts requeueUnlessClaimed).
OneProcessPerFile == locks => Cardinality(workers) <= 1

=============================================================================
