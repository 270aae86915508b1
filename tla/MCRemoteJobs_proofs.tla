------------------------- MODULE MCRemoteJobs_proofs -------------------------
(***************************************************************************)
(* Who may write a library file, that no report and no agent is lost       *)
(* between node and server, that attempts are charged once, and that the   *)
(* protocol implements FileOwnership.                                      *)
(*                                                                         *)
(* All four rest on one invariant of each job, JobInv: what the frames on  *)
(* the wire, the journal, the agent, the handle and the row of a job may   *)
(* say together.  The facts about the two queues are kept as facts about   *)
(* the set of the frames in them wherever their order does not matter.     *)
(***************************************************************************)
EXTENDS MCRemoteJobs, RemoteJobs_proofs, FiniteSetTheorems

-----------------------------------------------------------------------------
(* Queues of frames *)

FramesIn(q) == {q[i] : i \in DOMAIN q}

Carries(q, t) == \E m \in FramesIn(q) : m.type = t

\* A queue with one job frame at most.
JobOnce(q) ==
  \A i, k \in DOMAIN q : q[i].type = "job" /\ q[k].type = "job" => i = k

\* Commit request id asks for kind, and no step was sent after it.
AskIsLast(q, id, kind) ==
  \A i \in DOMAIN q : q[i].type = "ask" /\ q[i].id = id =>
    /\ q[i].body = kind
    /\ \A k \in DOMAIN q : i < k => q[k].type # "step"

LEMMA NoFrames == \A t, id, kind : /\ FramesIn(<<>>) = {} /\ ~ Carries(<<>>, t)
                                   /\ JobOnce(<<>>) /\ AskIsLast(<<>>, id, kind)
BY DEF FramesIn, Carries, JobOnce, AskIsLast

LEMMA FramesAppended ==
  ASSUME NEW S, NEW q \in Seq(S), NEW m \in S
  PROVE  /\ FramesIn(Append(q, m)) = FramesIn(q) \cup {m}
         /\ m.type # "job" /\ JobOnce(q) => JobOnce(Append(q, m))
         /\ ~ Carries(q, "job") => JobOnce(Append(q, m))
         /\ \A id, kind : AskIsLast(q, id, kind) /\ m.type \notin {"ask", "step"}
                          => AskIsLast(Append(q, m), id, kind)
         /\ \A id, kind : AskIsLast(q, id, kind) /\ m.type = "ask" /\ m.body = kind
                          => AskIsLast(Append(q, m), id, kind)
<1> DEFINE a == Append(q, m)
<1>1. /\ DOMAIN q = 1 .. Len(q) /\ DOMAIN a = 1 .. (Len(q) + 1) /\ Len(q) \in Nat
      /\ \A i \in DOMAIN q : a[i] = q[i]
      /\ a[Len(q) + 1] = m
  OBVIOUS
<1> HIDE DEF a
<1>2. \A i \in DOMAIN a : i = Len(q) + 1 \/ i \in DOMAIN q
  BY <1>1
<1>3. FramesIn(a) = FramesIn(q) \cup {m}
  BY <1>1, <1>2 DEF FramesIn
<1>4. m.type # "job" /\ JobOnce(q) => JobOnce(a)
  BY <1>1, <1>2 DEF JobOnce
<1>5. ~ Carries(q, "job") => JobOnce(a)
  BY <1>1, <1>2 DEF JobOnce, Carries, FramesIn
<1>6. ASSUME NEW id, NEW kind, AskIsLast(q, id, kind),
             m.type \notin {"ask", "step"} \/ (m.type = "ask" /\ m.body = kind)
      PROVE  AskIsLast(a, id, kind)
  <2> SUFFICES ASSUME NEW i \in DOMAIN a, a[i].type = "ask" /\ a[i].id = id
               PROVE  /\ a[i].body = kind
                      /\ \A k \in DOMAIN a : i < k => a[k].type # "step"
    BY DEF AskIsLast
  <2>1. CASE i \in DOMAIN q
    BY <1>1, <1>2, <1>6, <2>1 DEF AskIsLast
  <2>2. CASE i = Len(q) + 1
    BY <1>1, <1>6, <2>2
  <2> QED BY <1>2, <2>1, <2>2
<1> QED BY <1>3, <1>4, <1>5, <1>6 DEF a

LEMMA FramesTaken ==
  ASSUME NEW S, NEW q \in Seq(S), q # <<>>
  PROVE  /\ Tail(q) \in Seq(S)
         /\ Head(q) \in FramesIn(q)
         /\ FramesIn(Tail(q)) \subseteq FramesIn(q)
         /\ JobOnce(q) => JobOnce(Tail(q))
         /\ JobOnce(q) /\ Head(q).type = "job" => ~ Carries(Tail(q), "job")
         /\ \A id, kind : AskIsLast(q, id, kind) => AskIsLast(Tail(q), id, kind)
         /\ \A id, kind : AskIsLast(q, id, kind) /\ Head(q).type = "ask" /\ Head(q).id = id
                          => Head(q).body = kind /\ ~ Carries(Tail(q), "step")
<1> DEFINE t == Tail(q)
<1>1. /\ DOMAIN q = 1 .. Len(q) /\ DOMAIN t = 1 .. (Len(q) - 1)
      /\ Len(q) \in Nat \ {0}
      /\ \A i \in DOMAIN t : t[i] = q[i + 1]
      /\ Head(q) = q[1] /\ t \in Seq(S)
  OBVIOUS
<1> HIDE DEF t
<1>2. \A i \in DOMAIN t : i + 1 \in DOMAIN q /\ 1 < i + 1
  BY <1>1
<1>3. 1 \in DOMAIN q
  BY <1>1
<1>4. Head(q) \in FramesIn(q) /\ FramesIn(t) \subseteq FramesIn(q)
  BY <1>1, <1>2, <1>3 DEF FramesIn
<1>5. JobOnce(q) => JobOnce(t)
  BY <1>1, <1>2 DEF JobOnce
<1>6. JobOnce(q) /\ Head(q).type = "job" => ~ Carries(t, "job")
  BY <1>1, <1>2, <1>3 DEF JobOnce, Carries, FramesIn
<1>7. ASSUME NEW id, NEW kind, AskIsLast(q, id, kind)
      PROVE  AskIsLast(t, id, kind)
  <2> SUFFICES ASSUME NEW i \in DOMAIN t, t[i].type = "ask" /\ t[i].id = id
               PROVE  /\ t[i].body = kind
                      /\ \A k \in DOMAIN t : i < k => t[k].type # "step"
    BY DEF AskIsLast
  <2>1. /\ q[i + 1].body = kind
        /\ \A k \in DOMAIN q : i + 1 < k => q[k].type # "step"
    BY <1>1, <1>2, <1>7 DEF AskIsLast
  <2>2. \A k \in DOMAIN t : i < k => i + 1 < k + 1
    BY <1>1
  <2> QED BY <1>1, <1>2, <2>1, <2>2
<1>8. ASSUME NEW id, NEW kind, AskIsLast(q, id, kind), Head(q).type = "ask", Head(q).id = id
      PROVE  Head(q).body = kind /\ ~ Carries(t, "step")
  BY <1>1, <1>2, <1>3, <1>8 DEF AskIsLast, Carries, FramesIn
<1> QED BY <1>1, <1>4, <1>5, <1>6, <1>7, <1>8 DEF t

-----------------------------------------------------------------------------
(* The invariant of one job *)

\* Nothing of a job leaves the daemon before its lease is written.
NothingUnleased(j) ==
  /\ row[j].phase = "unused" => row[j] = UnusedRow
  /\ handle[j].phase = "preparing" => row[j].lease.state = "none"
  /\ row[j].lease.state = "none" =>
       /\ ~ Running(j) /\ journal[j].state = "none" /\ up[j] = <<>>
       /\ ~ Carries(down[j], "job") /\ ~ Carries(down[j], "commit-result")

\* A job is sent once, before anything else happens to it.
SentOnce(j) ==
  /\ Carries(down[j], "job") =>
       /\ ~ Running(j) /\ journal[j].state = "none" /\ up[j] = <<>>
       /\ row[j].lease.state # "committing"
       /\ ~ Carries(down[j], "commit-result")
  /\ JobOnce(down[j])

\* A report follows the end of its run.
ReportIsLast(j) ==
  /\ Carries(up[j], "final") \/ handle[j].phase \in {"settling", "hung"}
     => ~ Running(j) /\ journal[j].state # "running" /\ ~ Carries(down[j], "job")
  /\ journal[j].state \in {"held", "lost"} => ~ Running(j)

\* The run writes, or the grant it waits for is on its way.
GrantOut(j) == agent[j].phase = "asking" /\ Reply(agent[j].commits, TRUE) \in FramesIn(down[j])
MayWrite(j) == Writing(j) \/ GrantOut(j)

\* Requests and answers are numbered, and no step overtakes a request: a step
\* the hub reads while a run may write would end its committing lease.
AsksInOrder(j) ==
  /\ agent[j].phase \in {"asking", "writing"} => agent[j].kind \in Kinds
  /\ MayWrite(j) => ~ Carries(up[j], "step")
  /\ Running(j) =>
       /\ \A m \in FramesIn(up[j]) : m.type = "ask" => m.id <= agent[j].commits
       /\ \A m \in FramesIn(down[j]) : m.type = "commit-result" => m.id <= agent[j].commits
  /\ agent[j].phase = "asking" => AskIsLast(up[j], agent[j].commits, agent[j].kind)

\* A run that may replace holds its claim under a lease that does not run out.
CommitLasts(j) ==
  MayWrite(j) /\ agent[j].kind = "replace" /\ j \notin floored
    => Open(j) /\ row[j].lease.state = "committing"

\* Only an ended job is given up, and only its report is acknowledged.
GivenUp(j) ==
  agent[j].abandoned \/ Carries(down[j], "abandon") \/ Carries(down[j], "ack-report")
    => row[j].phase = "ended"

\* A daemon that is up has a handle for each open job, which knows of its cancel.
HandlesMatch(j) ==
  /\ handle[j].phase # "none" /\ row[j].cancel => handle[j].cancelled
  /\ handle[j].phase # "none" => row[j].lease.state # "expired"
  /\ daemon = "up" /\ Open(j) => handle[j].phase # "none"

\* JournalCoversAgent, of one job.
Journalled(j) == Running(j) /\ ~ agent[j].abandoned => journal[j].state = "running"

\* What a hello said of a job is still so while it is under way, and what the
\* welcome answers is what became of the job.
HelloIsTrue(n, j) ==
  /\ greet[n].stage # "none" /\ greet[n].jobs[j] # "none" => row[j].node = n
  /\ greet[n].stage # "none" /\ row[j].node = n /\ greet[n].jobs[j] = "lost"
     => journal[j].state \in {"none", "lost"}
  /\ greet[n].stage = "hello" /\ row[j].node = n =>
       /\ down[j] = <<>>
       /\ greet[n].jobs[j] \in {"none", "running", "held", "lost"}
       /\ greet[n].jobs[j] # "running" => ~ Running(j) \/ agent[j].abandoned
       /\ greet[n].jobs[j] = "running" => /\ handle[j].phase \notin {"settling", "hung"}
                                          /\ row[j].lease.state # "none"
  /\ greet[n].stage = "welcome" /\ greet[n].jobs[j] = "abandon" => row[j].phase = "ended"

\* A node that is still being greeted neither reads frames nor is read.
GreetedFirst ==
  \A n \in Nodes : /\ greet[n].stage # "none" => link[n] # "up"
                   /\ greet[n].stage = "hello" => conn[n] = "open"

JobInv(j) ==
  /\ NothingUnleased(j) /\ SentOnce(j) /\ ReportIsLast(j)
  /\ AsksInOrder(j) /\ CommitLasts(j)
  /\ GivenUp(j) /\ HandlesMatch(j) /\ Journalled(j)

HelloInv(j) == \A n \in Nodes : HelloIsTrue(n, j)

WireInv ==
  /\ GreetedFirst
  /\ \A j \in Jobs : JobInv(j) /\ HelloInv(j)

IInv == TypeOK /\ ClaimInv /\ WireInv

-----------------------------------------------------------------------------
(* Steps that leave a job alone *)

LEMMA JobUntouched ==
  ASSUME NEW j \in Jobs, JobInv(j),
         row'[j] = row[j], handle'[j] = handle[j], up'[j] = up[j], down'[j] = down[j],
         journal'[j] = journal[j], agent'[j] = agent[j], floored \subseteq floored',
         daemon' = daemon \/ daemon' # "up"
  PROVE  JobInv(j)'
<1>1. NothingUnleased(j)' /\ SentOnce(j)' /\ ReportIsLast(j)'
  BY DEF JobInv, NothingUnleased, SentOnce, ReportIsLast, Running
<1>2. AsksInOrder(j)' /\ CommitLasts(j)'
  BY DEF JobInv, AsksInOrder, CommitLasts, MayWrite, GrantOut, Writing, Running, Open
<1>3. GivenUp(j)' /\ HandlesMatch(j)' /\ Journalled(j)'
  BY DEF JobInv, GivenUp, HandlesMatch, Journalled, Running, Open
<1> QED BY <1>1, <1>2, <1>3 DEF JobInv

\* What a step that greets nobody may do to a job of which a hello speaks.
LEMMA HelloStays ==
  ASSUME NEW j \in Jobs, NEW n \in Nodes, HelloIsTrue(n, j), greet'[n] \in {greet[n], NoGreeting},
         row'[j].node = row[j].node,
         row[j].phase = "ended" => row'[j].phase = "ended",
         row'[j].lease.state = "none" => row[j].lease.state = "none",
         /\ greet'[n].stage # "none" /\ row[j].node = n
         /\ journal[j].state \in {"none", "lost"}
         => journal'[j].state \in {"none", "lost"},
         greet'[n].stage = "hello" /\ row[j].node = n =>
           /\ down'[j] = <<>>
           /\ ~ Running(j) => ~ Running(j)'
           /\ agent[j].abandoned => ~ Running(j)' \/ agent'[j].abandoned
           /\ handle'[j].phase \in {"settling", "hung"} => handle[j].phase \in {"settling", "hung"}
  PROVE  HelloIsTrue(n, j)'
BY DEF HelloIsTrue, NoGreeting

LEMMA HelloUntouched ==
  ASSUME NEW j \in Jobs, HelloInv(j), UNCHANGED greet,
         row'[j].node = row[j].node,
         row[j].phase = "ended" => row'[j].phase = "ended",
         row'[j].lease.state = "none" => row[j].lease.state = "none",
         \A n \in Nodes : /\ greet[n].stage # "none" /\ row[j].node = n
                         /\ journal[j].state \in {"none", "lost"}
                         => journal'[j].state \in {"none", "lost"},
         \A n \in Nodes : greet[n].stage = "hello" /\ row[j].node = n =>
           /\ down'[j] = <<>>
           /\ ~ Running(j) => ~ Running(j)'
           /\ agent[j].abandoned => ~ Running(j)' \/ agent'[j].abandoned
           /\ handle'[j].phase \in {"settling", "hung"} => handle[j].phase \in {"settling", "hung"}
  PROVE  HelloInv(j)'
<1> SUFFICES ASSUME NEW n \in Nodes
             PROVE  HelloIsTrue(n, j)'
  BY DEF HelloInv
<1> QED BY HelloStays DEF HelloInv

-----------------------------------------------------------------------------
(* Steps of the hub that leave the agent and the journal of a job alone *)

\* The frames that answer nothing, and the two of them that end a job.
Endings == {Notice("abandon"), Notice("ack-report")}

\* What the hub may do to a job between its lease and its end.
HubMoves(j) ==
  /\ journal'[j] = journal[j] /\ agent'[j] = agent[j] /\ floored \subseteq floored'
  /\ up'[j] \in {up[j], <<>>} \/ (up[j] # <<>> /\ up'[j] = Tail(up[j]))
  /\ JobOnce(down[j]) => JobOnce(down'[j])
  /\ \A m \in FramesIn(down'[j]) :
       \/ m \in FramesIn(down[j]) \cup {Notice("cancel")}
       \/ m \in Endings /\ row'[j].phase = "ended"
  /\ row[j].phase = "unused" => row'[j] = row[j]
  /\ row'[j].phase \in {row[j].phase, "ended"}
  /\ row'[j].lease.state = "none" => row[j].lease.state = "none"
  /\ row'[j].lease.state = "committing" => row[j].lease.state = "committing" \/ up[j] # <<>>
  /\ MayWrite(j) /\ Open(j) /\ row[j].lease.state = "committing" /\ j \notin floored'
     => Open(j)' /\ row'[j].lease.state = "committing"
  /\ handle'[j].phase = "preparing" => row'[j].lease.state = "none"
  /\ handle'[j].phase \in {"settling", "hung"}
     => handle[j].phase \in {"settling", "hung"} \/ Carries(up[j], "final")

LEMMA HubMovesKeep ==
  ASSUME TypeOK, NEW j \in Jobs, JobInv(j), HubMoves(j), HandlesMatch(j)'
  PROVE  JobInv(j)'
<1>1. /\ up[j] \in Seq(UpFrame)
      /\ up[j] = <<>> => up'[j] = <<>>
      /\ FramesIn(up'[j]) \subseteq FramesIn(up[j])
      /\ \A id, kind : AskIsLast(up[j], id, kind) => AskIsLast(up'[j], id, kind)
  <2>1. up[j] \in Seq(UpFrame)
    BY DEF TypeOK
  <2>2. CASE up'[j] = up[j]
    BY <2>1, <2>2
  <2>3. CASE up'[j] = <<>>
    BY <2>1, <2>3, NoFrames
  <2>4. CASE up[j] # <<>> /\ up'[j] = Tail(up[j])
    BY <2>1, <2>4, FramesTaken
  <2> QED BY <2>2, <2>3, <2>4 DEF HubMoves
<1>2. /\ \A t : Carries(up'[j], t) => Carries(up[j], t)
      /\ \A t \in {"job", "commit-result"} : Carries(down'[j], t) => Carries(down[j], t)
      /\ \A m \in FramesIn(down'[j]) : m.type = "commit-result" => m \in FramesIn(down[j])
  BY <1>1 DEF Carries, HubMoves, Endings, Notice
<1>3. GrantOut(j)' => GrantOut(j)
  BY <1>2 DEF GrantOut, Reply, HubMoves
<1>4. MayWrite(j)' => MayWrite(j)
  BY <1>3 DEF MayWrite, Writing, HubMoves
<1>5. Running(j)' <=> Running(j)
  BY DEF Running, HubMoves
<1>6. NothingUnleased(j)'
  <2>1. row'[j].phase = "unused" => row'[j] = UnusedRow
    BY DEF HubMoves, JobInv, NothingUnleased
  <2>2. row'[j].lease.state = "none" =>
          /\ ~ Running(j)' /\ journal'[j].state = "none" /\ up'[j] = <<>>
          /\ ~ Carries(down'[j], "job") /\ ~ Carries(down'[j], "commit-result")
    BY <1>1, <1>2, <1>5 DEF HubMoves, JobInv, NothingUnleased
  <2> QED BY <2>1, <2>2 DEF HubMoves, NothingUnleased
<1>7. SentOnce(j)'
  BY <1>1, <1>2, <1>5 DEF HubMoves, JobInv, SentOnce
<1>8. ReportIsLast(j)'
  BY <1>2, <1>5 DEF HubMoves, JobInv, ReportIsLast
<1>9. AsksInOrder(j)'
  BY <1>1, <1>2, <1>4, <1>5 DEF HubMoves, JobInv, AsksInOrder
<1>10. CommitLasts(j)'
  BY <1>4 DEF HubMoves, JobInv, CommitLasts
<1>11. GivenUp(j)'
  <2>1. Carries(down'[j], "abandon") \/ Carries(down'[j], "ack-report")
        => \/ Carries(down[j], "abandon") \/ Carries(down[j], "ack-report")
           \/ row'[j].phase = "ended"
    BY DEF HubMoves, Carries, Endings, Notice
  <2> QED BY <2>1 DEF HubMoves, JobInv, GivenUp
<1>12. Journalled(j)'
  BY <1>5 DEF HubMoves, JobInv, Journalled
<1> QED BY <1>6, <1>7, <1>8, <1>9, <1>10, <1>11, <1>12 DEF JobInv

-----------------------------------------------------------------------------
(* Steps of the hub about one job *)

\* The other jobs, the sockets and the daemon's phase stay as they are.
OnlyJob(j) ==
  /\ \A k \in Jobs \ {j} :
       /\ row'[k] = row[k] /\ handle'[k] = handle[k] /\ up'[k] = up[k] /\ down'[k] = down[k]
       /\ journal'[k] = journal[k] /\ agent'[k] = agent[k]
  /\ UNCHANGED <<greet, conn, link, daemon>> /\ floored \subseteq floored'

\* r is q with frames of xs, if any, appended to the queue of job j, if its node is online.
SentTo(q, r, j, xs) ==
  /\ \A k \in Jobs \ {j} : r[k] = q[k]
  /\ ~ Online(j) => r[j] = q[j]
  /\ JobOnce(q[j]) => JobOnce(r[j])
  /\ FramesIn(r[j]) \subseteq FramesIn(q[j]) \cup xs

LEMMA FrameSent ==
  ASSUME NEW q \in [Jobs -> Seq(DownFrame)], NEW j \in Jobs, NEW m \in DownFrame, m.type # "job"
  PROVE  /\ HubSends(q, j, m) \in [Jobs -> Seq(DownFrame)]
         /\ SentTo(q, HubSends(q, j, m), j, {m})
<1> DEFINE r == HubSends(q, j, m)
<1>1. r \in [Jobs -> Seq(DownFrame)]
  BY HubSendsType
<1>2. /\ \A k \in Jobs \ {j} : r[k] = q[k]
      /\ ~ Online(j) => r[j] = q[j]
      /\ r[j] \in {q[j], Append(q[j], m)}
  BY DEF HubSends
<1>3. /\ FramesIn(Append(q[j], m)) = FramesIn(q[j]) \cup {m}
      /\ JobOnce(q[j]) => JobOnce(Append(q[j], m))
  BY FramesAppended
<1> QED BY <1>1, <1>2, <1>3 DEF SentTo

LEMMA NoticesSent ==
  ASSUME TypeOK, NEW j \in Jobs
  PROVE  /\ \A t \in {"cancel", "abandon", "ack-report"} :
              SentTo(down, HubSends(down, j, Notice(t)), j, {Notice(t)})
         /\ SentTo(down, HubSends(HubSends(down, j, Notice("abandon")), j, Notice("ack-report")),
                   j, Endings)
         /\ \A xs : SentTo(down, down, j, xs)
<1>1. down \in [Jobs -> Seq(DownFrame)]
  BY DEF TypeOK
<1>2. ASSUME NEW t \in {"cancel", "abandon", "ack-report"}
      PROVE  Notice(t) \in DownFrame /\ Notice(t).type # "job"
  BY FrameTypes DEF Notice
<1>3. ASSUME NEW t \in {"cancel", "abandon", "ack-report"}
      PROVE  SentTo(down, HubSends(down, j, Notice(t)), j, {Notice(t)})
  BY <1>1, <1>2, <1>3, FrameSent
<1>4. SentTo(down, HubSends(HubSends(down, j, Notice("abandon")), j, Notice("ack-report")),
             j, Endings)
  <2> DEFINE r == HubSends(down, j, Notice("abandon"))
             s == HubSends(r, j, Notice("ack-report"))
  <2>1. r \in [Jobs -> Seq(DownFrame)] /\ SentTo(down, r, j, {Notice("abandon")})
    BY <1>1, <1>2, FrameSent
  <2> HIDE DEF r
  <2>2. SentTo(r, s, j, {Notice("ack-report")})
    BY <1>2, <2>1, FrameSent
  <2> HIDE DEF s
  <2>3. SentTo(down, s, j, Endings)
    BY <2>1, <2>2 DEF SentTo, Endings
  <2> QED BY <2>3 DEF s, r
<1> QED BY <1>3, <1>4 DEF SentTo

LEMMA OneJobStep ==
  ASSUME IInv, NEW j \in Jobs, OnlyJob(j), JobInv(j)', HelloInv(j)'
  PROVE  WireInv'
<1>1. GreetedFirst'
  BY DEF IInv, WireInv, GreetedFirst, OnlyJob
<1>2. ASSUME NEW k \in Jobs \ {j}
      PROVE  JobInv(k)' /\ HelloInv(k)'
  <2>1. JobInv(k) /\ HelloInv(k)
    BY DEF IInv, WireInv
  <2>2. JobInv(k)'
    BY <2>1, JobUntouched DEF OnlyJob
  <2>3. HelloInv(k)'
    <3>1. \A n \in Nodes : greet[n].stage = "hello" /\ row[k].node = n => down[k] = <<>>
      BY <2>1 DEF HelloInv, HelloIsTrue
    <3> QED BY <2>1, <3>1, HelloUntouched DEF OnlyJob, Running
  <2> QED BY <2>2, <2>3
<1> QED BY <1>1, <1>2 DEF WireInv

\* A hello of a node that is not online speaks of no frames.
LEMMA GreetedOffline ==
  ASSUME IInv, NEW j \in Jobs, NEW n \in Nodes, row[j].node = n
  PROVE  /\ greet[n].stage = "hello" => ~ Online(j) /\ down[j] = <<>>
         /\ greet[n].stage # "none" => link[n] # "up"
BY DEF IInv, WireInv, GreetedFirst, HelloInv, HelloIsTrue, Online

LEMMA HubJobStep ==
  ASSUME IInv, NEW j \in Jobs, OnlyJob(j), HubMoves(j), HandlesMatch(j)',
         row'[j].node = row[j].node, row[j].phase = "ended" => row'[j].phase = "ended",
         ~ Online(j) => /\ down'[j] = down[j]
                        /\ handle'[j].phase \in {"settling", "hung"}
                             => handle[j].phase \in {"settling", "hung"}
  PROVE  WireInv'
<1>1. JobInv(j) /\ HelloInv(j)
  BY DEF IInv, WireInv
<1>2. JobInv(j)'
  BY <1>1, HubMovesKeep DEF IInv
<1>3. HelloInv(j)'
  <2>1. \A n \in Nodes : greet[n].stage = "hello" /\ row[j].node = n
          => down[j] = <<>> /\ ~ Online(j)
    BY GreetedOffline
  <2>2. /\ journal'[j] = journal[j] /\ agent'[j] = agent[j]
        /\ row'[j].lease.state = "none" => row[j].lease.state = "none"
    BY DEF HubMoves
  <2>3. UNCHANGED greet
    BY DEF OnlyJob
  <2> QED BY <1>1, <2>1, <2>2, <2>3, HelloUntouched DEF Running
<1> QED BY <1>2, <1>3, OneJobStep

-----------------------------------------------------------------------------
(* The hub ends a job *)

\* What the step that ends job j does beside the ledger; l is the lease it leaves.
EndsJob(j, l) ==
  /\ Open(j)
  /\ row' = [row EXCEPT ![j].phase = "ended", ![j].lease = l]
  /\ handle' = [handle EXCEPT ![j] = NoHandle]
  /\ SentTo(down, down', j, Endings)
  /\ UNCHANGED <<daemon, conn, greet, nodeVars>>
  /\ up' = up \/ (up[j] # <<>> /\ up' = [up EXCEPT ![j] = Tail(@)])
  /\ floored \subseteq floored'
  /\ l.state = "none" => row[j].lease.state = "none"
  /\ l.state = "committing" => row[j].lease.state = "committing"

LEMMA EndingKeeps ==
  ASSUME IInv, NEW j \in Jobs, NEW l, EndsJob(j, l),
         MayWrite(j) /\ row[j].lease.state = "committing" => j \in floored'
  PROVE  WireInv'
<1>1. /\ row \in [Jobs -> Row] /\ row[j] \in Row /\ handle \in [Jobs -> Handle]
      /\ up \in [Jobs -> Seq(UpFrame)]
  BY DEF IInv, TypeOK
<1>2. /\ \A k \in Jobs \ {j} : row'[k] = row[k]
      /\ row'[j].phase = "ended" /\ row'[j].lease = l
      /\ row'[j].node = row[j].node /\ row'[j].cancel = row[j].cancel
  BY <1>1 DEF EndsJob, Row
<1>3. /\ \A k \in Jobs \ {j} : handle'[k] = handle[k]
      /\ handle'[j].phase = "none"
  BY <1>1 DEF EndsJob, NoHandle
<1>4. /\ \A k \in Jobs \ {j} : up'[k] = up[k]
      /\ up'[j] = up[j] \/ (up[j] # <<>> /\ up'[j] = Tail(up[j]))
  BY <1>1 DEF EndsJob
<1>5. OnlyJob(j)
  BY <1>2, <1>3, <1>4 DEF OnlyJob, EndsJob, SentTo, nodeVars
<1>6. row[j].phase # "unused" /\ row[j].phase # "ended"
  BY DEF EndsJob, Open
<1>7. \A m \in FramesIn(down'[j]) : m \in FramesIn(down[j]) \cup Endings
  BY DEF EndsJob, SentTo
<1>8. HubMoves(j)
  BY <1>2, <1>3, <1>4, <1>6, <1>7 DEF HubMoves, EndsJob, SentTo, nodeVars
<1>9. HandlesMatch(j)'
  BY <1>2, <1>3 DEF HandlesMatch, Open
<1>10. ~ Online(j) => down'[j] = down[j]
  BY DEF EndsJob, SentTo
<1> QED BY <1>2, <1>3, <1>5, <1>8, <1>9, <1>10, HubJobStep

\* A job with a handle is open, and nobody writes for one that is preparing or
\* whose report is in hand.
LEMMA HandleFacts ==
  ASSUME IInv, NEW j \in Jobs
  PROVE  /\ handle[j].phase # "none" => Open(j)
         /\ handle[j].phase = "preparing" => row[j].lease.state = "none" /\ ~ MayWrite(j)
         /\ handle[j].phase \in {"settling", "hung"} => ~ MayWrite(j)
         /\ Carries(up[j], "final") => ~ MayWrite(j)
BY DEF IInv, ClaimInv, HandleOpen, WireInv, JobInv, NothingUnleased, ReportIsLast,
       MayWrite, GrantOut, Writing, Running

LEMMA PrepareFailsInv ==
  ASSUME IInv, NEW j \in Jobs, PrepareFails(j)
  PROVE  WireInv'
<1>1. SentTo(down, down', j, Endings)
  BY NoticesSent DEF IInv, PrepareFails, SentTo, Endings
<1>2. EndsJob(j, NoLease)
  BY <1>1, HandleFacts DEF PrepareFails, Settle, EndsJob, histVars, NoLease
<1> QED BY <1>2, HandleFacts, EndingKeeps DEF PrepareFails

LEMMA ReleaseInv ==
  ASSUME IInv, NEW j \in Jobs, Leased(j), Release(j), floored \subseteq floored',
         UNCHANGED <<daemon, conn, greet, up, nodeVars>>,
         row[j].lease.state = "committing" => j \in floored'
  PROVE  WireInv'
<1>1. SentTo(down, down', j, Endings)
  BY NoticesSent DEF IInv, Release
<1>2. Expired(j).state = "expired"
  BY LeasedType DEF IInv, Expired, Lease
<1>3. EndsJob(j, Expired(j))
  BY <1>1, <1>2 DEF Release, Settle, EndsJob, Leased
<1> QED BY <1>3, EndingKeeps

LEMMA SweepInv ==
  ASSUME IInv, NEW j \in Jobs, Sweep(j)
  PROVE  WireInv'
BY ReleaseInv DEF Sweep, histVars, LeaseIsExpired

LEMMA FloorInv ==
  ASSUME IInv, NEW j \in Jobs, Floor(j)
  PROVE  WireInv'
BY ReleaseInv DEF Floor

LEMMA ReportSettledInv ==
  ASSUME IInv, NEW j \in Jobs, StatAnswered(j) \/ StatFailed(j) \/ HubFailed(j)
  PROVE  WireInv'
<1>1. SentTo(down, down', j, Endings)
  BY NoticesSent DEF IInv, StatAnswered, StatFailed, HubFailed, SentTo, Endings
<1>2. handle[j].phase # "none" /\ ~ MayWrite(j)
  <2>1. CASE StatAnswered(j) \/ StatFailed(j)
    BY <2>1, HandleFacts DEF StatAnswered, StatFailed
  <2>2. CASE HubFailed(j)
    <3>1. Carries(up[j], "final")
      BY <2>2, FramesTaken DEF HubFailed, HubReads, Carries, IInv, TypeOK
    <3> QED BY <2>2, <3>1, HandleFacts DEF HubFailed
  <2> QED BY <2>1, <2>2
<1>3. up' = up \/ (up[j] # <<>> /\ up' = [up EXCEPT ![j] = Tail(@)])
  BY DEF StatAnswered, StatFailed, HubFailed, HubReads
<1>4. EndsJob(j, row[j].lease)
  BY <1>1, <1>2, <1>3, HandleFacts
     DEF EndsJob, StatAnswered, StatFailed, HubFailed, HubReads, Settle, histVars
<1> QED BY <1>2, <1>4, EndingKeeps

-----------------------------------------------------------------------------
(* A job is claimed and sent *)

LEMMA ClaimInvWire ==
  ASSUME IInv, NEW f \in Files, NEW n \in Nodes, NEW j \in Jobs, Claim(f, n, j)
  PROVE  WireInv'
<1>1. row \in [Jobs -> Row] /\ handle \in [Jobs -> Handle] /\ greet \in [Nodes -> Greeting]
  BY DEF IInv, TypeOK
<1>2. JobInv(j) /\ HelloInv(j) /\ GreetedFirst
  BY DEF IInv, WireInv
<1>3. row[j] = UnusedRow
  BY <1>2 DEF Claim, JobInv, NothingUnleased
<1>4. /\ row'[j].phase = "open" /\ row'[j].node = n /\ row'[j].lease = NoLease
      /\ row'[j].cancel = FALSE /\ handle'[j].phase = "preparing"
      /\ row' = [row EXCEPT ![j] = row'[j]] /\ handle' = [handle EXCEPT ![j] = handle'[j]]
  BY <1>1 DEF Claim, UnusedRow, NoHandle
<1>5. OnlyJob(j)
  BY <1>1, <1>4 DEF Claim, OnlyJob, wireVars, nodeVars, histVars
<1>6. /\ ~ Running(j) /\ journal[j].state = "none" /\ up[j] = <<>>
      /\ ~ Carries(down[j], "job") /\ ~ Carries(down[j], "commit-result")
      /\ ~ Carries(down[j], "abandon") /\ ~ Carries(down[j], "ack-report")
      /\ agent[j].abandoned = FALSE
  <2>1. agent[j].abandoned \in BOOLEAN
    BY DEF IInv, TypeOK, Agent
  <2> QED BY <1>2, <1>3, <2>1 DEF JobInv, NothingUnleased, GivenUp, UnusedRow, NoLease
<1>7. UNCHANGED <<up, down, journal, agent, greet, conn, floored, daemon>>
  BY DEF Claim, wireVars, nodeVars, histVars
<1>8. JobInv(j)'
  <2>1. NothingUnleased(j)' /\ ReportIsLast(j)' /\ SentOnce(j)'
    <3>1. NothingUnleased(j)'
      BY <1>4, <1>6, <1>7 DEF NothingUnleased, Running, NoLease
    <3>2. ReportIsLast(j)'
      BY <1>4, <1>6, <1>7, NoFrames DEF ReportIsLast, Running
    <3>3. JobOnce(down[j])
      BY <1>2 DEF JobInv, SentOnce
    <3> QED BY <1>6, <1>7, <3>1, <3>2, <3>3 DEF SentOnce
  <2>2. AsksInOrder(j)' /\ CommitLasts(j)' /\ Journalled(j)'
    BY <1>6, <1>7
       DEF AsksInOrder, CommitLasts, MayWrite, GrantOut, Writing, Running, Journalled
  <2>3. GivenUp(j)' /\ HandlesMatch(j)'
    BY <1>4, <1>6, <1>7 DEF GivenUp, HandlesMatch, NoLease
  <2> QED BY <2>1, <2>2, <2>3 DEF JobInv
<1>9. HelloInv(j)'
  <2> SUFFICES ASSUME NEW m \in Nodes
               PROVE  HelloIsTrue(m, j)'
    BY DEF HelloInv
  <2>1. greet[m].stage # "none" => greet[m].jobs[j] = "none"
    BY <1>2, <1>3, ConstantsAssumption DEF HelloInv, HelloIsTrue, UnusedRow
  <2>2. m = n => greet[m].stage # "hello"
    BY <1>2 DEF Claim, GreetedFirst
  <2> QED BY <1>4, <1>7, <2>1, <2>2 DEF HelloIsTrue
<1> QED BY <1>5, <1>8, <1>9, OneJobStep

LEMMA PreparedInv ==
  ASSUME IInv, NEW j \in Jobs, Prepared(j)
  PROVE  WireInv'
<1>1. CASE handle[j].cancelled \/ ~ Online(j)
  <2>1. SentTo(down, down', j, Endings)
    BY <1>1, NoticesSent DEF IInv, Prepared, SentTo, Endings
  <2>2. PICK l \in {NoLease, LeaseOnClaim}, o \in {"cancelled", "unsent"} : Settle(j, o, l)
    BY <1>1 DEF Prepared
  <2>3. EndsJob(j, l)
    BY <2>1, <2>2, HandleFacts DEF Prepared, Settle, EndsJob, histVars, NoLease, LeaseOnClaim
  <2> QED BY <2>3, HandleFacts, EndingKeeps DEF Prepared
<1>2. CASE ~ handle[j].cancelled /\ Online(j)
  <2>1. /\ row \in [Jobs -> Row] /\ handle \in [Jobs -> Handle]
        /\ down \in [Jobs -> Seq(DownFrame)]
    BY DEF IInv, TypeOK
  <2>2. /\ handle[j].phase = "preparing" /\ Open(j) /\ row[j].lease.state = "none"
    BY HandleFacts DEF Prepared
  <2>3. /\ row' = [row EXCEPT ![j].lease = LeaseOnClaim]
        /\ handle' = [handle EXCEPT ![j].phase = "running"]
        /\ down' = HubSends(down, j, Notice("job"))
        /\ UNCHANGED <<daemon, conn, greet, up, link, journal, agent, floored>>
    BY <1>2 DEF Prepared, nodeVars, histVars
  <2>4. /\ \A k \in Jobs \ {j} : row'[k] = row[k] /\ handle'[k] = handle[k] /\ down'[k] = down[k]
        /\ row'[j].phase = "open" /\ row'[j].lease.state = "connected"
        /\ row'[j].node = row[j].node /\ row'[j].cancel = row[j].cancel
        /\ handle'[j].phase = "running" /\ handle'[j].cancelled = handle[j].cancelled
    BY <2>1, <2>2, <2>3 DEF Open, Row, Handle, LeaseOnClaim, HubSends
  <2>5. OnlyJob(j)
    BY <2>3, <2>4 DEF OnlyJob
  <2>6. JobInv(j) /\ HelloInv(j)
    BY DEF IInv, WireInv
  <2>7. /\ ~ Running(j) /\ journal[j].state = "none" /\ up[j] = <<>>
        /\ ~ Carries(down[j], "job") /\ ~ Carries(down[j], "commit-result")
        /\ ~ Carries(down[j], "abandon") /\ ~ Carries(down[j], "ack-report")
        /\ ~ agent[j].abandoned
    BY <2>2, <2>6 DEF JobInv, NothingUnleased, GivenUp, Open
  <2>8. /\ JobOnce(down'[j])
        /\ \A t : Carries(down'[j], t) => Carries(down[j], t) \/ t = "job"
    <3>1. Notice("job") \in DownFrame /\ Notice("job").type = "job"
      BY FrameTypes DEF Notice
    <3>2. /\ FramesIn(Append(down[j], Notice("job"))) = FramesIn(down[j]) \cup {Notice("job")}
          /\ JobOnce(Append(down[j], Notice("job")))
      BY <2>1, <2>7, <3>1, FramesAppended
    <3>3. down'[j] \in {down[j], Append(down[j], Notice("job"))}
      BY <2>1, <2>3 DEF HubSends
    <3> QED BY <2>6, <3>1, <3>2, <3>3 DEF Carries, JobInv, SentOnce
  <2>9. JobInv(j)'
    <3>1. NothingUnleased(j)' /\ SentOnce(j)' /\ ReportIsLast(j)'
      BY <2>3, <2>4, <2>7, <2>8, NoFrames
         DEF NothingUnleased, SentOnce, ReportIsLast, Running
    <3>2. AsksInOrder(j)' /\ CommitLasts(j)' /\ Journalled(j)'
      BY <2>3, <2>7
         DEF AsksInOrder, CommitLasts, MayWrite, GrantOut, Writing, Running, Journalled
    <3>3. GivenUp(j)' /\ HandlesMatch(j)'
      BY <2>2, <2>3, <2>4, <2>6, <2>7, <2>8 DEF GivenUp, HandlesMatch, JobInv
    <3> QED BY <3>1, <3>2, <3>3 DEF JobInv
  <2>10. HelloInv(j)'
    <3>1. \A n \in Nodes : greet[n].stage = "hello" => row[j].node # n
      BY <1>2, GreetedOffline
    <3> QED BY <2>2, <2>3, <2>4, <2>6, <3>1, HelloUntouched DEF Open
  <2> QED BY <2>5, <2>9, <2>10, OneJobStep
<1> QED BY <1>1, <1>2

-----------------------------------------------------------------------------
(* Other steps of the hub about one job *)

\* A step that writes no more than lease and cancel of a row (r is what it leaves),
\* the handle (h) and the hub's side of the queues.
Rewrites(j, r, h) ==
  /\ row' = [row EXCEPT ![j] = r] /\ handle' = [handle EXCEPT ![j] = h]
  /\ \/ SentTo(down, down', j, {Notice("cancel")})
     \/ row[j].phase = "ended" /\ SentTo(down, down', j, Endings)
  /\ up' = up \/ (up[j] # <<>> /\ up' = [up EXCEPT ![j] = Tail(@)])
  /\ UNCHANGED <<daemon, conn, greet, nodeVars, floored>>
  /\ r.phase = row[j].phase /\ r.node = row[j].node
  /\ row[j].phase = "unused" => r = row[j]
  /\ r.lease.state = "none" => row[j].lease.state = "none"
  /\ r.lease.state = "committing" => row[j].lease.state = "committing" \/ up[j] # <<>>
  /\ MayWrite(j) /\ row[j].lease.state = "committing" => r.lease.state = "committing"
  /\ h.phase = "preparing" => r.lease.state = "none"
  /\ h.phase \in {"settling", "hung"} =>
       handle[j].phase \in {"settling", "hung"} \/ (Carries(up[j], "final") /\ Online(j))
  /\ h.phase # "none" /\ r.cancel => h.cancelled
  /\ h.phase # "none" => r.lease.state # "expired"
  /\ daemon = "up" /\ Open(j) => h.phase # "none"

LEMMA RewriteKeeps ==
  ASSUME IInv, NEW j \in Jobs, NEW r \in Row, NEW h \in Handle, Rewrites(j, r, h)
  PROVE  WireInv'
<1>1. /\ row \in [Jobs -> Row] /\ handle \in [Jobs -> Handle] /\ up \in [Jobs -> Seq(UpFrame)]
  BY DEF IInv, TypeOK
<1>2. /\ \A k \in Jobs \ {j} : row'[k] = row[k] /\ handle'[k] = handle[k] /\ up'[k] = up[k]
      /\ row'[j] = r /\ handle'[j] = h
      /\ up'[j] = up[j] \/ (up[j] # <<>> /\ up'[j] = Tail(up[j]))
  BY <1>1 DEF Rewrites
<1>3. /\ \A k \in Jobs \ {j} : down'[k] = down[k]
      /\ ~ Online(j) => down'[j] = down[j]
      /\ JobOnce(down[j]) => JobOnce(down'[j])
      /\ \A m \in FramesIn(down'[j]) :
           m \in FramesIn(down[j]) \cup {Notice("cancel")} \/ (m \in Endings /\ row[j].phase = "ended")
  BY DEF Rewrites, SentTo
<1>4. OnlyJob(j)
  BY <1>2, <1>3 DEF Rewrites, OnlyJob, nodeVars
<1>5. HubMoves(j)
  BY <1>2, <1>3 DEF Rewrites, HubMoves, nodeVars, Open
<1>6. HandlesMatch(j)'
  BY <1>2 DEF Rewrites, HandlesMatch, Open
<1> QED BY <1>2, <1>3, <1>4, <1>5, <1>6, HubJobStep DEF Rewrites

LEMMA LapseInv ==
  ASSUME IInv, NEW j \in Jobs, Lapse(j)
  PROVE  WireInv'
<1> DEFINE R == [row[j] EXCEPT !.lease.lapsed = TRUE]
<1>1. row[j] \in Row /\ handle[j] \in Handle /\ row[j].lease \in Lease
  BY LeasedType DEF IInv, TypeOK, Lapse
<1>2. /\ R \in Row /\ R.lease.state = row[j].lease.state /\ R.lease.state = "grace"
      /\ R.phase = row[j].phase /\ R.node = row[j].node /\ R.cancel = row[j].cancel
  <2>1. [row[j].lease EXCEPT !.lapsed = TRUE] \in Lease
    BY <1>1 DEF Lease
  <2> QED BY <1>1, <2>1 DEF Row, Lease, Lapse
<1>3. row' = [row EXCEPT ![j] = R] /\ handle' = [handle EXCEPT ![j] = handle[j]]
  BY DEF IInv, TypeOK, Lapse, hubVars
<1> HIDE DEF R
<1>4. SentTo(down, down', j, {Notice("cancel")})
  BY NoticesSent DEF IInv, Lapse, wireVars
<1>5. HandlesMatch(j) /\ NothingUnleased(j)
  BY DEF IInv, WireInv, JobInv
<1>6. row[j].phase = "open"
  BY DEF Lapse, Leased, Open
<1>7. Rewrites(j, R, handle[j])
  BY <1>2, <1>3, <1>4, <1>5, <1>6
     DEF Rewrites, Lapse, hubVars, wireVars, histVars, HandlesMatch, NothingUnleased
<1> QED BY <1>1, <1>2, <1>7, RewriteKeeps

\* A frame that is read without an answer.
LEMMA HubReadsFacts ==
  ASSUME IInv, NEW j \in Jobs, NEW t, HubReads(j, t)
  PROVE  /\ daemon = "up" /\ Online(j) /\ up[j] # <<>> /\ Head(up[j]).type = t
         /\ up[j] \in Seq(UpFrame) /\ Head(up[j]) \in FramesIn(up[j])
         /\ Carries(up[j], t)
         /\ up' = [up EXCEPT ![j] = Tail(@)]
BY FramesTaken DEF IInv, TypeOK, HubReads, Carries

LEMMA HubStepInv ==
  ASSUME IInv, NEW j \in Jobs, HubStep(j)
  PROVE  WireInv'
<1> DEFINE R == IF handle[j].phase \in {"preparing", "running"} /\ Leased(j)
                THEN [row[j] EXCEPT !.lease = LeaseAfterStep(row[j].lease)] ELSE row[j]
<1>1. row[j] \in Row /\ handle[j] \in Handle
  BY DEF IInv, TypeOK
<1>2. /\ R \in Row /\ R.phase = row[j].phase /\ R.node = row[j].node /\ R.cancel = row[j].cancel
      /\ R.lease.state = row[j].lease.state
         \/ (row[j].lease.state = "committing" /\ R.lease.state = "connected")
      /\ row[j].phase = "unused" => R = row[j]
  <2>1. CASE handle[j].phase \in {"preparing", "running"} /\ Leased(j)
    <3>1. row[j].lease \in Lease /\ LeaseAfterStep(row[j].lease) \in Lease
      BY <2>1, LeasedType, LeaseTypes DEF IInv
    <3>2. R = [row[j] EXCEPT !.lease = LeaseAfterStep(row[j].lease)]
      BY <2>1
    <3>3. \/ LeaseAfterStep(row[j].lease) = row[j].lease
          \/ row[j].lease.state = "committing" /\ LeaseAfterStep(row[j].lease).state = "connected"
      BY DEF LeaseAfterStep, LeaseOnClaim
    <3> HIDE DEF R
    <3> QED BY <1>1, <2>1, <3>1, <3>2, <3>3 DEF Row, Leased, Open
  <2>2. CASE ~ (handle[j].phase \in {"preparing", "running"} /\ Leased(j))
    BY <1>1, <2>2
  <2> QED BY <2>1, <2>2
<1>3. row' = [row EXCEPT ![j] = R] /\ handle' = [handle EXCEPT ![j] = handle[j]]
  BY DEF IInv, TypeOK, HubStep, hubVars
<1> HIDE DEF R
<1>4. SentTo(down, down', j, {Notice("cancel")})
  BY NoticesSent DEF IInv, HubStep
<1>5. HandlesMatch(j) /\ NothingUnleased(j) /\ AsksInOrder(j)
  BY DEF IInv, WireInv, JobInv
<1>6. ~ MayWrite(j) /\ up[j] # <<>> /\ up' = [up EXCEPT ![j] = Tail(@)] /\ daemon = "up"
  BY <1>5, HubReadsFacts DEF HubStep, AsksInOrder
<1>7. Rewrites(j, R, handle[j])
  BY <1>2, <1>3, <1>4, <1>5, <1>6
     DEF Rewrites, HubStep, hubVars, wireVars, histVars, HandlesMatch, NothingUnleased
<1> QED BY <1>1, <1>2, <1>7, RewriteKeeps

LEMMA HubIgnoresInv ==
  ASSUME IInv, NEW j \in Jobs, HubIgnores(j) \/ HubLate(j)
  PROVE  WireInv'
<1>1. row[j] \in Row /\ handle[j] \in Handle
  BY DEF IInv, TypeOK
<1>2. UNCHANGED <<row, handle, daemon, conn, greet, nodeVars, floored>>
  BY DEF HubIgnores, HubLate, dbVars, hubVars, histVars
<1>3. row' = [row EXCEPT ![j] = row[j]] /\ handle' = [handle EXCEPT ![j] = handle[j]]
  BY <1>2 DEF IInv, TypeOK
<1>4. HandlesMatch(j) /\ NothingUnleased(j)
  BY DEF IInv, WireInv, JobInv
<1>5. daemon = "up" /\ Online(j) /\ up[j] # <<>> /\ up' = [up EXCEPT ![j] = Tail(@)]
  BY HubReadsFacts DEF HubIgnores, HubLate
<1>6. row[j].phase = "unused" => up[j] = <<>>
  BY <1>4 DEF NothingUnleased, UnusedRow, NoLease
<1>7. \/ SentTo(down, down', j, {Notice("cancel")})
      \/ row[j].phase = "ended" /\ SentTo(down, down', j, Endings)
  <2>1. CASE down' = down
    BY <2>1, NoticesSent DEF IInv
  <2>2. CASE down' # down
    <3>1. ~ Open(j) /\ down' = HubSends(down, j, Notice("ack-report"))
      BY <2>2 DEF HubIgnores, HubLate
    <3>2. SentTo(down, down', j, Endings)
      BY <3>1, NoticesSent DEF IInv, SentTo, Endings
    <3> QED BY <1>1, <1>5, <1>6, <3>1, <3>2 DEF Open, Row
  <2> QED BY <2>1, <2>2
<1>8. Rewrites(j, row[j], handle[j])
  BY <1>2, <1>3, <1>4, <1>5, <1>7 DEF Rewrites, HandlesMatch, NothingUnleased
<1> QED BY <1>1, <1>8, RewriteKeeps

LEMMA ReportTakenInv ==
  ASSUME IInv, NEW j \in Jobs, HubDone(j) \/ StatHangs(j)
  PROVE  WireInv'
<1>1. row[j] \in Row /\ handle[j] \in Handle /\ handle \in [Jobs -> Handle]
  BY DEF IInv, TypeOK
<1>2. PICK H \in Handle : /\ handle' = [handle EXCEPT ![j] = H]
                          /\ H.phase \in {"settling", "hung"} /\ H.cancelled = handle[j].cancelled
  <2>1. CASE HubDone(j)
    <3> DEFINE f == Head(up[j]).body
               H == [handle[j] EXCEPT !.phase = "settling", !.report = f]
    <3>1. f \in Finals
      BY <2>1 DEF HubDone, Finals
    <3>2. handle' = [handle EXCEPT ![j].phase = "settling", ![j].report = f]
      BY <2>1 DEF HubDone
    <3> HIDE DEF f
    <3>3. handle' = [handle EXCEPT ![j] = H]
      BY <1>1, <3>2
    <3>4. H \in Handle /\ H.phase = "settling" /\ H.cancelled = handle[j].cancelled
      BY <1>1, <3>1 DEF Handle
    <3> QED BY <3>3, <3>4
  <2>2. CASE StatHangs(j)
    <3> DEFINE H == [handle[j] EXCEPT !.phase = "hung"]
    <3>1. handle' = [handle EXCEPT ![j] = H]
      BY <1>1, <2>2 DEF StatHangs
    <3>2. H \in Handle /\ H.phase = "hung" /\ H.cancelled = handle[j].cancelled
      BY <1>1 DEF Handle
    <3> QED BY <3>1, <3>2
  <2> QED BY <2>1, <2>2
<1>3. UNCHANGED <<row, down, daemon, conn, greet, nodeVars, floored>> /\ handle[j].phase # "none"
  BY DEF HubDone, StatHangs, dbVars, wireVars, histVars
<1>4. row' = [row EXCEPT ![j] = row[j]]
  BY <1>3 DEF IInv, TypeOK
<1>5. HandlesMatch(j) /\ NothingUnleased(j)
  BY DEF IInv, WireInv, JobInv
<1>6. handle[j].phase \in {"settling", "hung"} \/ (Carries(up[j], "final") /\ Online(j))
  BY HubReadsFacts DEF HubDone, StatHangs
<1>7. up' = up \/ (up[j] # <<>> /\ up' = [up EXCEPT ![j] = Tail(@)])
  BY HubReadsFacts DEF HubDone, StatHangs, wireVars
<1>8. SentTo(down, down', j, {Notice("cancel")})
  BY <1>3, NoticesSent DEF IInv
<1>9. Rewrites(j, row[j], H)
  BY <1>2, <1>3, <1>4, <1>5, <1>6, <1>7, <1>8 DEF Rewrites, HandlesMatch, NothingUnleased
<1> QED BY <1>1, <1>9, RewriteKeeps

LEMMA OperatorCancelInv ==
  ASSUME IInv, NEW j \in Jobs, OperatorCancel(j)
  PROVE  WireInv'
<1> DEFINE off == ~ Online(j)
           R == [row[j] EXCEPT !.cancel = TRUE]
           H == [handle[j] EXCEPT !.cancelled = TRUE, !.pending = off]
<1>1. row \in [Jobs -> Row] /\ row[j] \in Row /\ handle \in [Jobs -> Handle] /\ handle[j] \in Handle
  BY DEF IInv, TypeOK
<1>2. handle[j].phase # "none" /\ Open(j)
  BY HandleFacts DEF OperatorCancel
<1>3. row' = [row EXCEPT ![j] = R] /\ handle' = [handle EXCEPT ![j] = H]
  <2>1. row' = [row EXCEPT ![j] = R]
    BY <1>1 DEF OperatorCancel
  <2>2. handle' = [handle EXCEPT ![j].cancelled = TRUE, ![j].pending = off]
    BY DEF OperatorCancel
  <2> HIDE DEF off
  <2>3. handle' = [handle EXCEPT ![j] = H]
    BY <1>1, <2>2
  <2> QED BY <2>1, <2>3
<1>4. off \in BOOLEAN
  BY DEF Online
<1> HIDE DEF off
<1>5. /\ R \in Row /\ R.phase = row[j].phase /\ R.node = row[j].node /\ R.lease = row[j].lease
      /\ H \in Handle /\ H.phase = handle[j].phase /\ H.cancelled
  BY <1>1, <1>4 DEF Row, Handle
<1> HIDE DEF R, H
<1>6. HandlesMatch(j) /\ NothingUnleased(j)
  BY DEF IInv, WireInv, JobInv
<1>7. SentTo(down, down', j, {Notice("cancel")})
  BY NoticesSent DEF IInv, OperatorCancel
<1>8. UNCHANGED <<daemon, conn, greet, up, nodeVars, floored>>
  BY DEF OperatorCancel, histVars
<1>9. Rewrites(j, R, H)
  BY <1>2, <1>3, <1>5, <1>6, <1>7, <1>8 DEF Rewrites, HandlesMatch, NothingUnleased, Open
<1> QED BY <1>5, <1>9, RewriteKeeps

-----------------------------------------------------------------------------
(* A commit is asked for *)

LEMMA HubAskInv ==
  ASSUME IInv, NEW j \in Jobs, HubAsk(j)
  PROVE  WireInv'
<1> DEFINE ask == Head(up[j])
           reply == Reply(ask.id, Granted(j))
<1>1. /\ row \in [Jobs -> Row] /\ row[j] \in Row
      /\ up \in [Jobs -> Seq(UpFrame)] /\ down \in [Jobs -> Seq(DownFrame)]
  BY DEF IInv, TypeOK
<1>2. JobInv(j) /\ HelloInv(j)
  BY DEF IInv, WireInv
<1>3. /\ daemon = "up" /\ Online(j) /\ up[j] # <<>> /\ ask.type = "ask" /\ ask \in FramesIn(up[j])
      /\ ask \in UpFrame /\ up' = [up EXCEPT ![j] = Tail(@)]
      /\ handle[j].phase \notin {"settling", "hung"}
      /\ UNCHANGED <<handle, daemon, conn, greet, link, journal, agent, floored>>
  BY HubReadsFacts DEF HubAsk, hubVars, nodeVars, histVars
<1>4. reply \in DownFrame /\ reply.type = "commit-result" /\ reply.id = ask.id
      /\ reply.granted = Granted(j)
  <2>1. Granted(j) \in BOOLEAN
    BY <1>1 DEF Granted, Row
  <2>2. ask.id \in 0 .. MaxCommits
    BY <1>3 DEF UpFrame
  <2> QED BY <2>1, <2>2, FrameTypes DEF Reply
<1>5. /\ \A k \in Jobs \ {j} : down'[k] = down[k] /\ up'[k] = up[k]
      /\ up'[j] = Tail(up[j])
      /\ FramesIn(down'[j]) \subseteq FramesIn(down[j]) \cup {reply}
      /\ JobOnce(down[j]) => JobOnce(down'[j])
  <2>1. down' = HubSends(down, j, reply)
    BY DEF HubAsk
  <2> HIDE DEF reply
  <2>2. SentTo(down, HubSends(down, j, reply), j, {reply})
    BY <1>1, <1>4, FrameSent
  <2> QED BY <1>1, <1>3, <2>1, <2>2 DEF SentTo
<1>6. /\ \A k \in Jobs \ {j} : row'[k] = row[k]
      /\ row'[j].phase = row[j].phase /\ row'[j].node = row[j].node /\ row'[j].cancel = row[j].cancel
      /\ row[j].phase = "unused" => row'[j] = row[j]
      /\ row'[j].lease.state = row[j].lease.state
         \/ (Granted(j) /\ row[j].lease.state = "connected" /\ row'[j].lease.state = "committing")
      /\ Granted(j) /\ ask.body = "replace" => row'[j].lease.state = "committing"
      /\ Granted(j) => Open(j)
  <2>1. CASE ~ Granted(j)
    BY <1>1, <2>1 DEF HubAsk
  <2>2. CASE Granted(j)
    <3> DEFINE l == LeaseOnGrant(row[j].lease, ask.body)
    <3>1. row' = [row EXCEPT ![j].lease = l]
      BY <1>1, <2>2 DEF HubAsk
    <3>2. /\ Open(j) /\ row[j].lease.state \in {"connected", "committing"}
      BY <2>2 DEF Granted, Leased, CommitAllowed
    <3>3. /\ l.state = "committing" \/ l = row[j].lease
          /\ ask.body = "replace" => l.state = "committing"
      BY DEF LeaseOnGrant
    <3> HIDE DEF l
    <3>4. /\ \A k \in Jobs \ {j} : row'[k] = row[k]
          /\ row'[j].phase = row[j].phase /\ row'[j].node = row[j].node
          /\ row'[j].cancel = row[j].cancel /\ row'[j].lease = l
      BY <1>1, <3>1 DEF Row
    <3> HIDE DEF ask
    <3> QED BY <2>2, <3>2, <3>3, <3>4 DEF Open
  <2> QED BY <2>1, <2>2
<1> HIDE DEF ask, reply
<1>7. /\ ~ Carries(down[j], "job")
      /\ \A t : Carries(down'[j], t) => Carries(down[j], t) \/ t = "commit-result"
  BY <1>2, <1>3, <1>4, <1>5 DEF Carries, JobInv, SentOnce
<1>8. /\ FramesIn(up'[j]) \subseteq FramesIn(up[j])
      /\ \A id, kind : AskIsLast(up[j], id, kind) => AskIsLast(up'[j], id, kind)
      /\ \A id, kind : AskIsLast(up[j], id, kind) /\ ask.id = id
                       => ask.body = kind /\ ~ Carries(up'[j], "step")
  <2>1. up[j] \in Seq(UpFrame) /\ up[j] # <<>>
    BY <1>1, <1>3
  <2>2. /\ FramesIn(Tail(up[j])) \subseteq FramesIn(up[j])
        /\ \A id, kind : AskIsLast(up[j], id, kind) => AskIsLast(Tail(up[j]), id, kind)
        /\ \A id, kind : /\ AskIsLast(up[j], id, kind)
                         /\ Head(up[j]).type = "ask" /\ Head(up[j]).id = id
                         => Head(up[j]).body = kind /\ ~ Carries(Tail(up[j]), "step")
    BY <2>1, FramesTaken
  <2>3. ask = Head(up[j])
    BY DEF ask
  <2> QED BY <1>3, <1>5, <2>2, <2>3
<1>9. \A t : Carries(up'[j], t) => Carries(up[j], t)
  BY <1>8 DEF Carries
<1>10. GrantOut(j)' => \/ GrantOut(j)
                       \/ /\ Granted(j) /\ agent[j].phase = "asking"
                          /\ ask.body = agent[j].kind /\ ~ Carries(up'[j], "step")
  <2> SUFFICES ASSUME GrantOut(j)', ~ GrantOut(j)
               PROVE  /\ Granted(j) /\ agent[j].phase = "asking"
                      /\ ask.body = agent[j].kind /\ ~ Carries(up'[j], "step")
    OBVIOUS
  <2>1. agent[j].phase = "asking" /\ Reply(agent[j].commits, TRUE) = reply
    BY <1>3, <1>5 DEF GrantOut
  <2>2. Granted(j) /\ ask.id = agent[j].commits
    BY <1>4, <2>1 DEF Reply
  <2>3. AskIsLast(up[j], agent[j].commits, agent[j].kind)
    BY <1>2, <2>1 DEF JobInv, AsksInOrder
  <2> QED BY <1>8, <2>1, <2>2, <2>3
<1>11. OnlyJob(j)
  BY <1>3, <1>5, <1>6 DEF OnlyJob
<1>12. JobInv(j)'
  <2>1. NothingUnleased(j)'
    BY <1>2, <1>3, <1>6 DEF JobInv, NothingUnleased
  <2>2. SentOnce(j)'
    BY <1>2, <1>5, <1>7 DEF JobInv, SentOnce
  <2>3. ReportIsLast(j)'
    BY <1>2, <1>3, <1>7, <1>9 DEF JobInv, ReportIsLast, Running
  <2>4. AsksInOrder(j)'
    <3>1. MayWrite(j)' => ~ Carries(up'[j], "step")
      BY <1>2, <1>3, <1>9, <1>10 DEF MayWrite, Writing, JobInv, AsksInOrder
    <3>2. Running(j) => \A m \in FramesIn(down'[j]) : m.type = "commit-result" => m.id <= agent[j].commits
      BY <1>2, <1>3, <1>4, <1>5 DEF JobInv, AsksInOrder
    <3> QED BY <1>2, <1>3, <1>8, <3>1, <3>2 DEF JobInv, AsksInOrder, Running
  <2>5. CommitLasts(j)'
    BY <1>2, <1>3, <1>6, <1>10 DEF JobInv, CommitLasts, MayWrite, Writing, Open
  <2>6. GivenUp(j)' /\ HandlesMatch(j)' /\ Journalled(j)'
    BY <1>2, <1>3, <1>6, <1>7 DEF JobInv, GivenUp, HandlesMatch, Journalled, Running, Open
  <2> QED BY <2>1, <2>2, <2>3, <2>4, <2>5, <2>6 DEF JobInv
<1>13. HelloInv(j)'
  <2>1. \A n \in Nodes : greet[n].stage = "hello" => row[j].node # n
    BY <1>3, GreetedOffline
  <2> QED BY <1>2, <1>3, <1>6, <2>1, HelloUntouched
<1> QED BY <1>11, <1>12, <1>13, OneJobStep

-----------------------------------------------------------------------------
(* The daemon starts *)

LEMMA StallUnsentInv ==
  ASSUME IInv, NEW j \in Jobs, StallUnsent(j)
  PROVE  WireInv'
<1>1. row \in [Jobs -> Row] /\ row[j] \in Row
  BY DEF IInv, TypeOK
<1>2. Open(j) /\ row[j].lease.state = "none" /\ handle[j].phase = "none" /\ ~ MayWrite(j)
  BY DEF StallUnsent, Unsent, IInv, ClaimInv, HandleOpen, WireInv, JobInv, NothingUnleased,
         MayWrite, GrantOut, Writing, Running
<1>3. UNCHANGED <<daemon, conn, handle, greet, up, down, link, journal, agent, floored>>
  BY DEF StallUnsent, hubVars, wireVars, nodeVars, histVars
<1>4. /\ \A k \in Jobs \ {j} : row'[k] = row[k]
      /\ row'[j].phase = "ended" /\ row'[j].lease = row[j].lease
      /\ row'[j].node = row[j].node /\ row'[j].cancel = row[j].cancel
  BY <1>1 DEF StallUnsent, Row
<1>5. OnlyJob(j)
  BY <1>3, <1>4 DEF OnlyJob
<1>6. HubMoves(j)
  BY <1>2, <1>3, <1>4 DEF HubMoves, Open
<1>7. HandlesMatch(j)'
  BY <1>2, <1>3, <1>4 DEF HandlesMatch, Open
<1> QED BY <1>3, <1>4, <1>5, <1>6, <1>7, HubJobStep

LEMMA AdoptInv ==
  ASSUME IInv, NEW j \in Jobs, Adopt(j)
  PROVE  WireInv'
<1> DEFINE l == LeaseOnDaemonStart(row[j].lease)
<1>1. row \in [Jobs -> Row] /\ row[j] \in Row /\ handle[j] \in Handle
  BY DEF IInv, TypeOK
<1>2. Leased(j) /\ Open(j) /\ handle[j].phase = "none" /\ daemon = "starting"
  BY DEF Adopt, Leased
<1>3. /\ l \in Lease /\ l.state # "none"
      /\ l.state = "committing" <=> row[j].lease.state = "committing"
  <2>1. row[j].lease \in Lease
    BY <1>2, LeasedType DEF IInv
  <2>2. l \in Lease
    BY <2>1, LeaseTypes
  <2>3. l = row[j].lease \/ (row[j].lease.state # "committing" /\ l.state = "grace")
    BY DEF LeaseOnDaemonStart
  <2>4. l.state # "none"
    <3> HIDE DEF l
    <3> QED BY <2>2 DEF Lease, LeaseStates
  <2>5. l.state = "committing" <=> row[j].lease.state = "committing"
    <3> HIDE DEF l
    <3> QED BY <2>3
  <2> QED BY <2>2, <2>4, <2>5
<1>4. UNCHANGED <<daemon, conn, greet, up, down, nodeVars, floored>>
  BY DEF Adopt, wireVars, histVars
<1>5. CASE l.state = "expired"
  <2>1. SentTo(down, down', j, Endings)
    BY <1>4, NoticesSent DEF IInv
  <2>2. EndsJob(j, l)
    BY <1>2, <1>3, <1>4, <1>5, <2>1 DEF Adopt, Settle, EndsJob
  <2> QED BY <1>3, <1>5, <2>2, EndingKeeps
<1>6. CASE l.state # "expired"
  <2> DEFINE R == [row[j] EXCEPT !.lease = l]
             H == [NoHandle EXCEPT !.phase = "running", !.cancelled = row[j].cancel,
                                   !.pending = row[j].cancel]
  <2>1. row' = [row EXCEPT ![j] = R] /\ handle' = [handle EXCEPT ![j] = H]
    <3>1. row' = [row EXCEPT ![j].lease = l]
      BY <1>6 DEF Adopt
    <3>2. handle' = [handle EXCEPT ![j] = H]
      BY <1>6 DEF Adopt
    <3> HIDE DEF l, H
    <3> QED BY <1>1, <3>1, <3>2
  <2> HIDE DEF l
  <2>2. /\ R \in Row /\ R.phase = row[j].phase /\ R.node = row[j].node /\ R.lease = l
        /\ R.cancel = row[j].cancel
    BY <1>1, <1>3 DEF Row
  <2>3. H \in Handle /\ H.phase = "running" /\ H.cancelled = row[j].cancel
    BY <1>1 DEF Handle, NoHandle, Row
  <2>4. SentTo(down, down', j, {Notice("cancel")})
    BY <1>4, NoticesSent DEF IInv
  <2> HIDE DEF R, H
  <2>5. Rewrites(j, R, H)
    BY <1>2, <1>3, <1>4, <1>6, <2>1, <2>2, <2>3, <2>4 DEF Rewrites, Open
  <2> QED BY <2>2, <2>3, <2>5, RewriteKeeps
<1> QED BY <1>5, <1>6

\* Steps that leave every job as it is, but for the daemon's phase and the ledger.
LEMMA QuietInv ==
  ASSUME IInv,
         UNCHANGED <<row, handle, conn, greet, up, down, link, journal, agent, floored>>,
         daemon' = daemon \/ daemon' # "up" \/ DaemonReady
  PROVE  WireInv'
<1>1. GreetedFirst'
  BY DEF IInv, WireInv, GreetedFirst
<1>2. ASSUME NEW j \in Jobs
      PROVE  JobInv(j)' /\ HelloInv(j)'
  <2>1. JobInv(j) /\ HelloInv(j)
    BY DEF IInv, WireInv
  <2>2. HelloInv(j)'
    BY <2>1 DEF HelloInv, HelloIsTrue, Running
  <2>3. JobInv(j)'
    <3>1. CASE daemon' = daemon \/ daemon' # "up"
      BY <2>1, <3>1, JobUntouched
    <3>2. CASE DaemonReady
      <4>1. NothingUnleased(j)' /\ SentOnce(j)' /\ ReportIsLast(j)'
        BY <2>1 DEF JobInv, NothingUnleased, SentOnce, ReportIsLast, Running
      <4>2. AsksInOrder(j)' /\ CommitLasts(j)'
        BY <2>1 DEF JobInv, AsksInOrder, CommitLasts, MayWrite, GrantOut, Writing, Running, Open
      <4>3. GivenUp(j)' /\ HandlesMatch(j)' /\ Journalled(j)'
        BY <2>1, <3>2 DEF JobInv, GivenUp, HandlesMatch, Journalled, Running, Open, DaemonReady
      <4> QED BY <4>1, <4>2, <4>3 DEF JobInv
    <3> QED BY <3>1, <3>2
  <2> QED BY <2>2, <2>3
<1> QED BY <1>1, <1>2 DEF WireInv

LEMMA QuietStepsInv ==
  ASSUME IInv, \/ DaemonStart \/ DaemonReady
               \/ \E f \in Files : Requeue(f) \/ ReapOrphan(f)
               \/ UNCHANGED vars
  PROVE  WireInv'
BY QuietInv DEF DaemonStart, DaemonReady, Requeue, ReapOrphan, vars, dbVars, hubVars, wireVars,
                nodeVars, histVars

-----------------------------------------------------------------------------
(* The agent of a job *)

\* The node reads a frame for job j, and changes no more than its agent and journal.
NodeHears(j, type) ==
  /\ NodeReads(j, type)
  /\ \A k \in Jobs \ {j} : journal'[k] = journal[k] /\ agent'[k] = agent[k]
  /\ UNCHANGED <<row, daemon, conn, handle, greet, up, link, floored>>

LEMMA HearsFacts ==
  ASSUME IInv, NEW j \in Jobs, NEW type, NodeHears(j, type)
  PROVE  /\ OnlyJob(j)
         /\ down[j] # <<>> /\ Head(down[j]) \in FramesIn(down[j]) /\ Head(down[j]).type = type
         /\ Head(down[j]) \in DownFrame
         /\ FramesIn(down'[j]) \subseteq FramesIn(down[j])
         /\ JobOnce(down[j]) => JobOnce(down'[j])
         /\ JobOnce(down[j]) /\ type = "job" => ~ Carries(down'[j], "job")
         /\ \A t : Carries(down'[j], t) => Carries(down[j], t)
         /\ Carries(down[j], type)
         /\ row[j].phase # "unused"
         /\ \A n \in Nodes : row[j].node = n => greet[n].stage = "none"
<1>1. down \in [Jobs -> Seq(DownFrame)] /\ row[j] \in Row
  BY DEF IInv, TypeOK
<1>2. /\ down[j] # <<>> /\ Head(down[j]).type = type
      /\ \A k \in Jobs \ {j} : down'[k] = down[k]
      /\ down'[j] = Tail(down[j])
      /\ row[j].node \in Nodes /\ link[row[j].node] = "up"
  BY <1>1 DEF NodeHears, NodeReads
<1>3. /\ Head(down[j]) \in FramesIn(down[j])
      /\ FramesIn(down'[j]) \subseteq FramesIn(down[j])
      /\ JobOnce(down[j]) => JobOnce(down'[j])
      /\ JobOnce(down[j]) /\ type = "job" => ~ Carries(down'[j], "job")
  BY <1>1, <1>2, FramesTaken
<1>4. Head(down[j]) \in DownFrame
  BY <1>1, <1>2
<1>5. OnlyJob(j)
  BY <1>2 DEF NodeHears, OnlyJob
<1>6. Carries(down[j], type) /\ \A t : Carries(down'[j], t) => Carries(down[j], t)
  BY <1>2, <1>3 DEF Carries
<1>7. row[j].phase # "unused"
  BY <1>2, ConstantsAssumption DEF IInv, WireInv, JobInv, NothingUnleased, UnusedRow
<1>8. \A n \in Nodes : row[j].node = n => greet[n].stage = "none"
  BY <1>2, GreetedOffline
<1> QED BY <1>2, <1>3, <1>4, <1>5, <1>6, <1>7, <1>8

\* An agent that does no more than stop asking, and a journal entry that is kept or forgotten.
Calms(j) ==
  /\ agent'[j].phase = agent[j].phase
     \/ (agent[j].phase = "asking" /\ agent'[j].phase = "refused")
  /\ agent'[j].kind = agent[j].kind /\ agent'[j].commits = agent[j].commits
  /\ agent[j].abandoned => agent'[j].abandoned
  /\ agent'[j].abandoned => agent[j].abandoned \/ row[j].phase = "ended"
  /\ journal'[j] = journal[j]
     \/ (journal'[j] = NoEntry /\ (Running(j)' => agent'[j].abandoned))
  /\ row'[j] = row[j] /\ handle'[j] = handle[j] /\ floored' = floored
  /\ daemon' = daemon

LEMMA CalmKeeps ==
  ASSUME NEW j \in Jobs, JobInv(j), Calms(j),
         up'[j] \in {up[j], <<>>},
         FramesIn(down'[j]) \subseteq FramesIn(down[j]), JobOnce(down'[j])
  PROVE  JobInv(j)'
<1>1. /\ Running(j)' <=> Running(j)
      /\ Writing(j)' <=> Writing(j)
      /\ agent'[j].phase = "asking" => agent[j].phase = "asking"
  BY DEF Calms, Running, Writing
<1>2. /\ \A t : Carries(down'[j], t) => Carries(down[j], t)
      /\ \A t : Carries(up'[j], t) => Carries(up[j], t)
      /\ FramesIn(up'[j]) \subseteq FramesIn(up[j])
      /\ up[j] = <<>> => up'[j] = <<>>
      /\ \A id, kind : AskIsLast(up[j], id, kind) => AskIsLast(up'[j], id, kind)
  BY NoFrames DEF Carries
<1>3. MayWrite(j)' => MayWrite(j)
  BY <1>1 DEF MayWrite, GrantOut, Calms
<1>4. NothingUnleased(j)'
  BY <1>1, <1>2 DEF Calms, JobInv, NothingUnleased, NoEntry
<1>5. SentOnce(j)'
  BY <1>1, <1>2 DEF Calms, JobInv, SentOnce, NoEntry
<1>6. ReportIsLast(j)'
  BY <1>1, <1>2 DEF Calms, JobInv, ReportIsLast, NoEntry
<1>7. AsksInOrder(j)'
  BY <1>1, <1>2, <1>3 DEF Calms, JobInv, AsksInOrder
<1>8. CommitLasts(j)'
  BY <1>3 DEF Calms, JobInv, CommitLasts, Open
<1>9. GivenUp(j)' /\ HandlesMatch(j)' /\ Journalled(j)'
  BY <1>1, <1>2 DEF Calms, JobInv, GivenUp, HandlesMatch, Journalled, Open
<1> QED BY <1>4, <1>5, <1>6, <1>7, <1>8, <1>9 DEF JobInv

\* A step of one job's agent that hears nothing and keeps what a hello said.
LEMMA HelloKept ==
  ASSUME IInv, NEW j \in Jobs, OnlyJob(j), row'[j] = row[j], handle'[j] = handle[j],
         \/ \A n \in Nodes : row[j].node = n => greet[n].stage = "none"
         \/ /\ down'[j] = down[j]
            /\ ~ Running(j) => ~ Running(j)'
            /\ agent[j].abandoned => ~ Running(j)' \/ agent'[j].abandoned
            /\ journal[j].state \in {"none", "lost"} => journal'[j].state \in {"none", "lost"}
  PROVE  HelloInv(j)'
<1>1. HelloInv(j) /\ UNCHANGED greet
  BY DEF IInv, WireInv, OnlyJob
<1>2. \A n \in Nodes : greet[n].stage = "hello" /\ row[j].node = n => down[j] = <<>>
  BY GreetedOffline
<1> QED BY <1>1, <1>2, HelloUntouched

LEMMA CalmStepInv ==
  ASSUME IInv, NEW j \in Jobs, ReceiveCancel(j) \/ ReceiveAbandon(j) \/ ReceiveAck(j)
  PROVE  WireInv'
<1>1. agent \in [Jobs -> Agent] /\ agent[j] \in Agent /\ journal \in [Jobs -> Entry]
  BY DEF IInv, TypeOK
<1>2. PICK type \in {"cancel", "abandon", "ack-report"} :
        /\ NodeHears(j, type)
        /\ agent'[j] \in {agent[j], Stopped(agent[j])}
           \/ (type = "abandon" /\ agent'[j] = Abandoned(agent[j]))
        /\ journal'[j] = journal[j]
           \/ (journal[j].state = "held" /\ journal'[j] = NoEntry)
  <2>1. CASE ReceiveCancel(j)
    BY <1>1, <2>1 DEF ReceiveCancel, NodeHears, dbVars, hubVars, histVars
  <2>2. CASE ReceiveAbandon(j)
    BY <1>1, <2>2 DEF ReceiveAbandon, NodeHears, dbVars, hubVars, histVars
  <2>3. CASE ReceiveAck(j)
    BY <1>1, <2>3 DEF ReceiveAck, NodeHears, dbVars, hubVars, histVars
  <2> QED BY <2>1, <2>2, <2>3
<1>3. JobInv(j)
  BY DEF IInv, WireInv
<1>4. type = "abandon" => row[j].phase = "ended"
  BY <1>2, <1>3, HearsFacts DEF JobInv, GivenUp
<1>5. Calms(j)
  <2>1. /\ agent'[j].phase = agent[j].phase
           \/ (agent[j].phase = "asking" /\ agent'[j].phase = "refused")
        /\ agent'[j].kind = agent[j].kind /\ agent'[j].commits = agent[j].commits
        /\ agent[j].abandoned => agent'[j].abandoned
        /\ agent'[j].abandoned => agent[j].abandoned \/ row[j].phase = "ended"
    BY <1>1, <1>2, <1>4 DEF Stopped, Abandoned, Agent
  <2>2. journal[j].state = "held" => ~ Running(j)
    BY <1>3 DEF JobInv, ReportIsLast
  <2> QED BY <1>2, <2>1, <2>2 DEF Calms, NodeHears, Running
<1>6. /\ OnlyJob(j) /\ FramesIn(down'[j]) \subseteq FramesIn(down[j]) /\ JobOnce(down'[j])
      /\ \A n \in Nodes : row[j].node = n => greet[n].stage = "none"
  BY <1>2, <1>3, HearsFacts DEF JobInv, SentOnce
<1>7. up'[j] = up[j] /\ row'[j] = row[j] /\ handle'[j] = handle[j]
  BY <1>2 DEF NodeHears
<1>8. JobInv(j)'
  BY <1>3, <1>5, <1>6, <1>7, CalmKeeps
<1>9. HelloInv(j)'
  BY <1>6, <1>7, HelloKept
<1> QED BY <1>6, <1>8, <1>9, OneJobStep

LEMMA ReceiveJobInv ==
  ASSUME IInv, NEW j \in Jobs, ReceiveJob(j)
  PROVE  WireInv'
<1>1. agent \in [Jobs -> Agent] /\ journal \in [Jobs -> Entry]
  BY DEF IInv, TypeOK
<1>2. JobInv(j)
  BY DEF IInv, WireInv
<1>3. /\ NodeHears(j, "job")
      /\ \/ journal'[j] = journal[j] /\ agent'[j] = agent[j]
         \/ /\ journal'[j].state = "running" /\ agent'[j] = [NoAgent EXCEPT !.phase = "fetching"]
  BY <1>1 DEF ReceiveJob, NodeHears, dbVars, hubVars, Entry
<1>4. /\ OnlyJob(j) /\ FramesIn(down'[j]) \subseteq FramesIn(down[j]) /\ JobOnce(down'[j])
      /\ ~ Carries(down'[j], "job") /\ Carries(down[j], "job")
      /\ \A t : Carries(down'[j], t) => Carries(down[j], t)
      /\ \A n \in Nodes : row[j].node = n => greet[n].stage = "none"
  BY <1>2, <1>3, HearsFacts DEF JobInv, SentOnce
<1>5. /\ ~ Running(j) /\ up[j] = <<>> /\ row[j].lease.state \notin {"none", "committing"}
      /\ ~ Carries(down[j], "commit-result")
      /\ ~ Carries(up[j], "final") /\ handle[j].phase \notin {"settling", "hung"}
  BY <1>2, <1>4 DEF JobInv, SentOnce, NothingUnleased, ReportIsLast
<1>6. /\ row'[j] = row[j] /\ handle'[j] = handle[j] /\ up'[j] = up[j] /\ daemon' = daemon
      /\ floored' = floored
  BY <1>3 DEF NodeHears
<1>7. /\ agent'[j].phase \in {"none", "fetching"} 
      /\ agent'[j].abandoned => agent[j].abandoned
      /\ Running(j)' => journal'[j].state = "running"
      /\ journal'[j].state \in {"held", "lost"} => agent'[j].phase = "none"
  BY <1>3, <1>5 DEF Running, NoAgent
<1>8. JobInv(j)'
  <2>1. NothingUnleased(j)'
    BY <1>2, <1>4, <1>5, <1>6 DEF JobInv, NothingUnleased
  <2>2. SentOnce(j)'
    BY <1>4 DEF SentOnce
  <2>3. ReportIsLast(j)'
    BY <1>5, <1>6, <1>7 DEF ReportIsLast, Running
  <2>4. AsksInOrder(j)'
    <3>1. /\ \A m \in FramesIn(up'[j]) : m.type # "ask"
          /\ \A m \in FramesIn(down'[j]) : m.type # "commit-result"
      BY <1>4, <1>5, <1>6, NoFrames DEF Carries
    <3> QED BY <1>7, <3>1 DEF AsksInOrder, MayWrite, GrantOut, Writing, Running
  <2>5. CommitLasts(j)'
    BY <1>7 DEF CommitLasts, MayWrite, GrantOut, Writing
  <2>6. GivenUp(j)' /\ HandlesMatch(j)' /\ Journalled(j)'
    BY <1>2, <1>4, <1>6, <1>7 DEF JobInv, GivenUp, HandlesMatch, Journalled, Open
  <2> QED BY <2>1, <2>2, <2>3, <2>4, <2>5, <2>6 DEF JobInv
<1>9. HelloInv(j)'
  BY <1>4, <1>6, HelloKept
<1> QED BY <1>4, <1>8, <1>9, OneJobStep

LEMMA ReceiveReplyInv ==
  ASSUME IInv, NEW j \in Jobs, ReceiveReply(j)
  PROVE  WireInv'
<1> DEFINE reply == Head(down[j])
<1>1. agent \in [Jobs -> Agent] /\ agent[j] \in Agent
  BY DEF IInv, TypeOK
<1>2. JobInv(j)
  BY DEF IInv, WireInv
<1>3. /\ NodeHears(j, "commit-result") /\ journal'[j] = journal[j]
      /\ \/ agent'[j] = agent[j]
         \/ /\ agent[j].phase = "asking" /\ reply.id = agent[j].commits
            /\ agent' = [agent EXCEPT ![j].phase = IF reply.granted THEN "writing" ELSE "refused"]
  BY <1>1 DEF ReceiveReply, NodeHears, dbVars, hubVars, histVars
<1>4. /\ OnlyJob(j) /\ FramesIn(down'[j]) \subseteq FramesIn(down[j]) /\ JobOnce(down'[j])
      /\ \A t : Carries(down'[j], t) => Carries(down[j], t)
      /\ \A n \in Nodes : row[j].node = n => greet[n].stage = "none"
      /\ reply \in FramesIn(down[j]) /\ reply.type = "commit-result" /\ reply \in DownFrame
  BY <1>2, <1>3, HearsFacts DEF JobInv, SentOnce
<1>5. /\ row'[j] = row[j] /\ handle'[j] = handle[j] /\ up'[j] = up[j] /\ daemon' = daemon
      /\ floored' = floored
  BY <1>3 DEF NodeHears
<1> HIDE DEF reply
<1>6. /\ agent'[j].kind = agent[j].kind /\ agent'[j].commits = agent[j].commits
      /\ agent'[j].abandoned = agent[j].abandoned
      /\ \/ agent'[j].phase = agent[j].phase
         \/ agent[j].phase = "asking" /\ agent'[j].phase = "refused"
         \/ GrantOut(j) /\ agent'[j].phase = "writing"
  <2>1. CASE agent'[j] = agent[j]
    BY <2>1
  <2>2. CASE agent'[j] # agent[j]
    <3>1. agent[j].phase = "asking" /\ reply.id = agent[j].commits
      BY <1>3, <2>2
    <3>2. /\ agent'[j].kind = agent[j].kind /\ agent'[j].commits = agent[j].commits
          /\ agent'[j].abandoned = agent[j].abandoned
          /\ agent'[j].phase = IF reply.granted THEN "writing" ELSE "refused"
      BY <1>1, <1>3, <2>2 DEF Agent
    <3>3. reply.granted => reply = Reply(agent[j].commits, TRUE)
      BY <1>4, <3>1 DEF DownFrame, Reply
    <3>4. reply.granted => GrantOut(j)
      BY <1>4, <3>1, <3>3 DEF GrantOut
    <3> QED BY <3>1, <3>2, <3>4
  <2> QED BY <2>1, <2>2
<1>7. /\ Running(j)' <=> Running(j)
      /\ MayWrite(j)' => MayWrite(j)
      /\ agent'[j].phase = "asking" => agent[j].phase = "asking"
      /\ agent'[j].phase \in {"asking", "writing"} => agent[j].phase \in {"asking", "writing"}
  BY <1>4, <1>6 DEF MayWrite, GrantOut, Writing, Running
<1>8. JobInv(j)'
  <2>1. NothingUnleased(j)' /\ ReportIsLast(j)'
    BY <1>2, <1>3, <1>4, <1>5, <1>7 DEF JobInv, NothingUnleased, ReportIsLast
  <2>2. SentOnce(j)'
    BY <1>2, <1>3, <1>4, <1>5, <1>7 DEF JobInv, SentOnce
  <2>3. AsksInOrder(j)'
    BY <1>2, <1>4, <1>5, <1>6, <1>7 DEF JobInv, AsksInOrder
  <2>4. CommitLasts(j)'
    BY <1>2, <1>5, <1>6, <1>7 DEF JobInv, CommitLasts, Open
  <2>5. GivenUp(j)' /\ HandlesMatch(j)' /\ Journalled(j)'
    BY <1>2, <1>3, <1>4, <1>5, <1>6, <1>7 DEF JobInv, GivenUp, HandlesMatch, Journalled, Open
  <2> QED BY <2>1, <2>2, <2>3, <2>4, <2>5 DEF JobInv
<1>9. HelloInv(j)'
  BY <1>4, <1>5, HelloKept
<1> QED BY <1>4, <1>8, <1>9, OneJobStep

\* What the node sends about job j: frame m, or nothing.
LEMMA NodeSent ==
  ASSUME TypeOK, NEW j \in Jobs, NEW m \in UpFrame, up' = NodeSends(up, j, m) \/ up' = up
  PROVE  /\ \A k \in Jobs \ {j} : up'[k] = up[k]
         /\ FramesIn(up'[j]) \subseteq FramesIn(up[j]) \cup {m}
         /\ \A t : Carries(up'[j], t) => Carries(up[j], t) \/ t = m.type
         /\ \A id, kind : AskIsLast(up[j], id, kind) /\ m.type \notin {"ask", "step"}
                          => AskIsLast(up'[j], id, kind)
         /\ \A id, kind : AskIsLast(up[j], id, kind) /\ m.type = "ask" /\ m.body = kind
                          => AskIsLast(up'[j], id, kind)
<1>1. up \in [Jobs -> Seq(UpFrame)] /\ up[j] \in Seq(UpFrame)
  BY DEF TypeOK
<1>2. /\ \A k \in Jobs \ {j} : up'[k] = up[k]
      /\ up'[j] \in {up[j], Append(up[j], m)}
  BY <1>1 DEF NodeSends
<1>3. CASE up'[j] = up[j]
  BY <1>2, <1>3
<1>4. CASE up'[j] = Append(up[j], m)
  <2>1. /\ FramesIn(up'[j]) = FramesIn(up[j]) \cup {m}
        /\ \A id, kind : AskIsLast(up[j], id, kind) /\ m.type \notin {"ask", "step"}
                         => AskIsLast(up'[j], id, kind)
        /\ \A id, kind : AskIsLast(up[j], id, kind) /\ m.type = "ask" /\ m.body = kind
                         => AskIsLast(up'[j], id, kind)
    <3>1. FramesIn(Append(up[j], m)) = FramesIn(up[j]) \cup {m}
      BY <1>1, FramesAppended
    <3>2. \A id, kind : AskIsLast(up[j], id, kind) /\ m.type \notin {"ask", "step"}
                        => AskIsLast(Append(up[j], m), id, kind)
      BY <1>1, FramesAppended
    <3>3. \A id, kind : AskIsLast(up[j], id, kind) /\ m.type = "ask" /\ m.body = kind
                        => AskIsLast(Append(up[j], m), id, kind)
      BY <1>1, FramesAppended
    <3> QED BY <1>4, <3>1, <3>2, <3>3
  <2>2. \A t : Carries(up'[j], t) => Carries(up[j], t) \/ t = m.type
    BY <2>1 DEF Carries
  <2> QED BY <1>2, <2>1, <2>2
<1> QED BY <1>2, <1>3, <1>4

\* A run ends, with a report that is kept and sent unless the server gave it up.
EndsRun(j) ==
  /\ agent' = [agent EXCEPT ![j] = NoAgent]
  /\ \/ /\ journal[j].state = "none" /\ UNCHANGED <<journal, up>>
     \/ \E f \in Finals :
          /\ journal[j].state # "none"
          /\ journal' = [journal EXCEPT ![j] = [state |-> "held", final |-> f]]
          /\ up' = NodeSends(up, j, FinalFrame(f))
  /\ UNCHANGED <<row, handle, daemon, conn, greet, down, link, floored>>

LEMMA RunEndsInv ==
  ASSUME IInv, NEW j \in Jobs, Running(j), EndsRun(j)
  PROVE  WireInv'
<1>1. agent \in [Jobs -> Agent] /\ journal \in [Jobs -> Entry] /\ up \in [Jobs -> Seq(UpFrame)]
  BY DEF IInv, TypeOK
<1>2. JobInv(j)
  BY DEF IInv, WireInv
<1>3. /\ agent'[j] = NoAgent /\ \A k \in Jobs \ {j} : agent'[k] = agent[k]
      /\ UNCHANGED <<row, handle, daemon, conn, greet, down, link, floored>>
  BY <1>1 DEF EndsRun
<1>4. /\ \A k \in Jobs \ {j} : journal'[k] = journal[k] /\ up'[k] = up[k]
      /\ \A t : Carries(up'[j], t) => Carries(up[j], t) \/ t = "final"
      /\ \/ journal[j].state = "none" /\ journal'[j] = journal[j] /\ up'[j] = up[j]
         \/ journal[j].state # "none" /\ journal'[j].state = "held"
  <2>1. CASE UNCHANGED <<journal, up>> /\ journal[j].state = "none"
    BY <2>1
  <2>2. CASE journal[j].state # "none"
    <3>1. PICK f \in Finals : /\ journal' = [journal EXCEPT ![j] = [state |-> "held", final |-> f]]
                              /\ up' = NodeSends(up, j, FinalFrame(f))
      BY <2>2 DEF EndsRun
    <3>2. FinalFrame(f) \in UpFrame /\ FinalFrame(f).type = "final"
      BY FrameTypes DEF FinalFrame
    <3>3. /\ \A k \in Jobs \ {j} : up'[k] = up[k]
          /\ \A t : Carries(up'[j], t) => Carries(up[j], t) \/ t = "final"
      BY <3>1, <3>2, NodeSent DEF IInv
    <3> QED BY <1>1, <2>2, <3>1, <3>3
  <2> QED BY <2>1, <2>2 DEF EndsRun
<1>5. /\ row[j].lease.state # "none" /\ ~ Carries(down[j], "job")
      /\ journal[j].state \notin {"held", "lost"}
  BY <1>2 DEF JobInv, NothingUnleased, SentOnce, ReportIsLast
<1>6. OnlyJob(j)
  BY <1>3, <1>4 DEF OnlyJob
<1>7. /\ ~ Running(j)' /\ ~ MayWrite(j)' /\ ~ agent'[j].abandoned /\ agent'[j].phase = "none"
  BY <1>3 DEF Running, MayWrite, Writing, GrantOut, NoAgent
<1>8. JobInv(j)'
  <2>1. NothingUnleased(j)' /\ SentOnce(j)'
    BY <1>2, <1>3, <1>5 DEF JobInv, NothingUnleased, SentOnce
  <2>2. ReportIsLast(j)'
    <3>1. journal'[j].state # "running"
      BY <1>4
    <3> QED BY <1>3, <1>5, <1>7, <3>1 DEF ReportIsLast
  <2>3. AsksInOrder(j)' /\ CommitLasts(j)' /\ Journalled(j)'
    BY <1>7 DEF AsksInOrder, CommitLasts, Journalled
  <2>4. GivenUp(j)' /\ HandlesMatch(j)'
    BY <1>2, <1>3, <1>7 DEF JobInv, GivenUp, HandlesMatch, Open
  <2> QED BY <2>1, <2>2, <2>3, <2>4 DEF JobInv
<1>9. HelloInv(j)'
  BY <1>3, <1>4, <1>5, <1>6, <1>7, HelloKept
<1> QED BY <1>6, <1>8, <1>9, OneJobStep

LEMMA HoldEndsRun ==
  ASSUME NEW j \in Jobs, NEW f \in Finals, Hold(j, f),
         UNCHANGED <<dbVars, hubVars, greet, down, link, histVars>>
  PROVE  EndsRun(j)
BY DEF Hold, EndsRun, dbVars, hubVars, histVars

LEMMA FinishInv ==
  ASSUME IInv, NEW j \in Jobs, Finish(j) \/ Dies(j)
  PROVE  WireInv'
<1>1. Running(j)
  BY DEF Finish, Dies, Running
<1>2. PICK f \in Finals : Hold(j, f)
  BY ConstantsAssumption DEF Finish, Dies, Finals
<1>3. EndsRun(j)
  BY <1>2, HoldEndsRun DEF Finish, Dies
<1> QED BY <1>1, <1>3, RunEndsInv

LEMMA FetchedInv ==
  ASSUME IInv, NEW j \in Jobs, Fetched(j)
  PROVE  WireInv'
<1>1. CASE Hold(j, "error")
  <2>1. "error" \in Finals
    BY DEF Finals
  <2>2. EndsRun(j)
    BY <1>1, <2>1, HoldEndsRun DEF Fetched
  <2>3. Running(j)
    BY DEF Fetched, Running
  <2> QED BY <2>2, <2>3, RunEndsInv
<1>2. CASE ~ Hold(j, "error")
  <2>1. agent \in [Jobs -> Agent] /\ agent[j] \in Agent
    BY DEF IInv, TypeOK
  <2>2. /\ agent[j].phase = "fetching"
        /\ agent' = [agent EXCEPT ![j].phase = "working"]
        /\ UNCHANGED <<row, handle, daemon, conn, greet, up, down, link, journal, floored>>
    BY <1>2 DEF Fetched, dbVars, hubVars, histVars
  <2>3. /\ \A k \in Jobs \ {j} : agent'[k] = agent[k]
        /\ agent'[j].phase = "working" /\ agent'[j].commits = agent[j].commits
        /\ agent'[j].abandoned = agent[j].abandoned
    BY <2>1, <2>2 DEF Agent
  <2>4. /\ Running(j) /\ Running(j)' /\ ~ MayWrite(j)'
    BY <2>2, <2>3 DEF Running, MayWrite, GrantOut, Writing
  <2>5. JobInv(j)
    BY DEF IInv, WireInv
  <2>6. OnlyJob(j)
    BY <2>2, <2>3 DEF OnlyJob
  <2>7. JobInv(j)'
    <3>1. NothingUnleased(j)' /\ SentOnce(j)' /\ ReportIsLast(j)'
      BY <2>2, <2>4, <2>5 DEF JobInv, NothingUnleased, SentOnce, ReportIsLast
    <3>2. AsksInOrder(j)' /\ CommitLasts(j)'
      BY <2>2, <2>3, <2>4, <2>5 DEF JobInv, AsksInOrder, CommitLasts
    <3>3. GivenUp(j)' /\ HandlesMatch(j)' /\ Journalled(j)'
      BY <2>2, <2>3, <2>4, <2>5 DEF JobInv, GivenUp, HandlesMatch, Journalled, Open
    <3> QED BY <3>1, <3>2, <3>3 DEF JobInv
  <2>8. HelloInv(j)'
    BY <2>2, <2>3, <2>4, <2>6, HelloKept
  <2> QED BY <2>6, <2>7, <2>8, OneJobStep
<1> QED BY <1>1, <1>2

LEMMA AskInv ==
  ASSUME IInv, NEW j \in Jobs, NEW k \in Kinds, Ask(j, k)
  PROVE  WireInv'
<1> DEFINE id == agent[j].commits + 1
           m == AskFrame(id, k)
<1>1. agent \in [Jobs -> Agent] /\ agent[j] \in Agent /\ JobInv(j)
  BY DEF IInv, TypeOK, WireInv
<1>2. /\ agent[j].phase = "working" /\ agent[j].commits < MaxCommits
      /\ UNCHANGED <<row, handle, daemon, conn, greet, down, link, journal, floored>>
  BY DEF Ask, dbVars, hubVars, histVars
<1>3. id \in 0 .. MaxCommits /\ agent[j].commits \in Nat
  BY <1>1, <1>2, ConstantsAssumption DEF Agent
<1>4. m \in UpFrame /\ m.type = "ask" /\ m.body = k /\ m.id = id
  BY <1>3, FrameTypes, ConstantsAssumption DEF AskFrame
<1>5. /\ \A i \in Jobs \ {j} : agent'[i] = agent[i]
      /\ agent'[j].kind = k /\ agent'[j].commits = id
      /\ agent'[j].abandoned = agent[j].abandoned
      /\ agent'[j].phase \in {"asking", "refused"}
  <2> DEFINE p == IF agent[j].abandoned THEN "refused" ELSE "asking"
             A == [agent[j] EXCEPT !.phase = p, !.kind = k, !.commits = id]
  <2>1. agent' = [agent EXCEPT ![j].phase = p, ![j].kind = k, ![j].commits = id]
    BY DEF Ask
  <2>2. p \in {"asking", "refused"}
    OBVIOUS
  <2> HIDE DEF p, id
  <2>3. agent' = [agent EXCEPT ![j] = A]
    BY <1>1, <2>1
  <2>4. A.kind = k /\ A.commits = id /\ A.abandoned = agent[j].abandoned /\ A.phase = p
    BY <1>1 DEF Agent
  <2> HIDE DEF A
  <2> QED BY <1>1, <2>2, <2>3, <2>4
<1>6. up' = NodeSends(up, j, m) \/ up' = up
  BY DEF Ask
<1> HIDE DEF m
<1>7. /\ \A i \in Jobs \ {j} : up'[i] = up[i]
      /\ FramesIn(up'[j]) \subseteq FramesIn(up[j]) \cup {m}
      /\ \A t : Carries(up'[j], t) => Carries(up[j], t) \/ t = "ask"
      /\ AskIsLast(up[j], id, k) => AskIsLast(up'[j], id, k)
  BY <1>4, <1>6, NodeSent DEF IInv
<1>8. Running(j) /\ Running(j)'
  BY <1>2, <1>5 DEF Running
<1>9. /\ \A n \in FramesIn(up[j]) : n.type = "ask" => n.id # id
      /\ \A n \in FramesIn(up'[j]) : n.type = "ask" => n.id <= id
      /\ \A n \in FramesIn(down[j]) : n.type = "commit-result" => n.id < id
  <2>1. /\ \A n \in FramesIn(up[j]) : n.type = "ask" => n.id <= agent[j].commits /\ n.id \in Nat
        /\ \A n \in FramesIn(down[j]) : n.type = "commit-result"
             => n.id <= agent[j].commits /\ n.id \in Nat
    <3>1. \A n \in FramesIn(up[j]) : n \in UpFrame
      BY DEF IInv, TypeOK, FramesIn
    <3>2. \A n \in FramesIn(down[j]) : n \in DownFrame
      BY DEF IInv, TypeOK, FramesIn
    <3> QED BY <1>1, <1>8, <3>1, <3>2 DEF JobInv, AsksInOrder, UpFrame, DownFrame
  <2>2. \A n \in FramesIn(up'[j]) : n \in FramesIn(up[j]) \/ n = m
    BY <1>7
  <2> QED BY <1>3, <1>4, <2>1, <2>2
<1>10. AskIsLast(up'[j], id, k)
  BY <1>7, <1>9 DEF AskIsLast, FramesIn
<1>11. ~ MayWrite(j)'
  <2>1. \A n \in FramesIn(down[j]) : n # Reply(id, TRUE)
    BY <1>3, <1>9 DEF Reply
  <2> QED BY <1>2, <1>5, <2>1 DEF MayWrite, GrantOut, Writing
<1>12. OnlyJob(j)
  BY <1>2, <1>5, <1>7 DEF OnlyJob
<1>13. JobInv(j)'
  <2>1. /\ row[j].lease.state # "none" /\ ~ Carries(down[j], "job") /\ ~ Carries(up[j], "final")
        /\ handle[j].phase \notin {"settling", "hung"} /\ journal[j].state \notin {"held", "lost"}
    BY <1>1, <1>8 DEF JobInv, NothingUnleased, SentOnce, ReportIsLast
  <2>2. NothingUnleased(j)' /\ SentOnce(j)' /\ ReportIsLast(j)'
    BY <1>1, <1>2, <1>7, <2>1 DEF JobInv, NothingUnleased, SentOnce, ReportIsLast
  <2>3. AsksInOrder(j)'
    <3>1. \A n \in FramesIn(down'[j]) : n.type = "commit-result" => n.id <= id
      <4>1. \A n \in FramesIn(down[j]) : n \in DownFrame
        BY DEF IInv, TypeOK, FramesIn
      <4> QED BY <1>2, <1>3, <1>9, <4>1 DEF DownFrame
    <3> HIDE DEF id
    <3> QED BY <1>5, <1>9, <1>10, <1>11, <3>1 DEF AsksInOrder
  <2>4. CommitLasts(j)'
    BY <1>11 DEF CommitLasts
  <2>5. GivenUp(j)' /\ HandlesMatch(j)' /\ Journalled(j)'
    BY <1>1, <1>2, <1>5, <1>8 DEF JobInv, GivenUp, HandlesMatch, Journalled, Open
  <2> QED BY <2>2, <2>3, <2>4, <2>5 DEF JobInv
<1>14. HelloInv(j)'
  BY <1>2, <1>5, <1>8, <1>12, HelloKept
<1> QED BY <1>12, <1>13, <1>14, OneJobStep

LEMMA WroteInv ==
  ASSUME IInv, NEW j \in Jobs, Wrote(j)
  PROVE  WireInv'
<1>1. agent \in [Jobs -> Agent] /\ agent[j] \in Agent /\ JobInv(j)
  BY DEF IInv, TypeOK, WireInv
<1>2. /\ agent[j].phase = "writing"
      /\ agent' = [agent EXCEPT ![j].phase = "working"]
      /\ UNCHANGED <<row, handle, daemon, conn, greet, down, link, journal, floored>>
  BY DEF Wrote, dbVars, hubVars, histVars
<1>3. /\ \A k \in Jobs \ {j} : agent'[k] = agent[k]
      /\ agent'[j].phase = "working" /\ agent'[j].commits = agent[j].commits
      /\ agent'[j].abandoned = agent[j].abandoned
  BY <1>1, <1>2 DEF Agent
<1>4. StepFrame \in UpFrame /\ StepFrame.type = "step"
  BY FrameTypes DEF StepFrame
<1>5. /\ \A k \in Jobs \ {j} : up'[k] = up[k]
      /\ FramesIn(up'[j]) \subseteq FramesIn(up[j]) \cup {StepFrame}
      /\ \A t : Carries(up'[j], t) => Carries(up[j], t) \/ t = "step"
  <2>1. up' = NodeSends(up, j, StepFrame)
    BY DEF Wrote
  <2> QED BY <1>4, <2>1, NodeSent DEF IInv
<1>6. Running(j) /\ Running(j)' /\ ~ MayWrite(j)'
  BY <1>2, <1>3 DEF Running, MayWrite, GrantOut, Writing
<1>7. OnlyJob(j)
  BY <1>2, <1>3, <1>5 DEF OnlyJob
<1>8. JobInv(j)'
  <2>1. /\ row[j].lease.state # "none" /\ ~ Carries(down[j], "job") /\ ~ Carries(up[j], "final")
        /\ handle[j].phase \notin {"settling", "hung"} /\ journal[j].state \notin {"held", "lost"}
    BY <1>1, <1>6 DEF JobInv, NothingUnleased, SentOnce, ReportIsLast
  <2>2. NothingUnleased(j)' /\ SentOnce(j)' /\ ReportIsLast(j)'
    BY <1>1, <1>2, <1>5, <2>1 DEF JobInv, NothingUnleased, SentOnce, ReportIsLast
  <2>3. AsksInOrder(j)'
    <3>1. \A n \in FramesIn(up'[j]) : n.type = "ask" => n.id <= agent[j].commits
      BY <1>1, <1>4, <1>5, <1>6 DEF JobInv, AsksInOrder
    <3> QED BY <1>1, <1>2, <1>3, <1>6, <3>1 DEF JobInv, AsksInOrder
  <2>4. CommitLasts(j)'
    BY <1>6 DEF CommitLasts
  <2>5. GivenUp(j)' /\ HandlesMatch(j)' /\ Journalled(j)'
    BY <1>1, <1>2, <1>3, <1>6 DEF JobInv, GivenUp, HandlesMatch, Journalled, Open
  <2> QED BY <2>2, <2>3, <2>4, <2>5 DEF JobInv
<1>9. HelloInv(j)'
  BY <1>2, <1>3, <1>6, <1>7, HelloKept
<1> QED BY <1>7, <1>8, <1>9, OneJobStep

-----------------------------------------------------------------------------
(* Sockets, crashes and welcomes: steps about all jobs of a node *)

\* The daemon goes away: its sockets, its handles and what it had not read.
LEMMA DaemonGoneInv ==
  ASSUME IInv, DaemonGone,
         \A j \in Jobs : \/ row'[j] = row[j]
                         \/ /\ row'[j].phase = row[j].phase /\ row'[j].node = row[j].node
                            /\ row[j].phase # "unused" /\ row[j].lease.state # "committing"
                            /\ row'[j].lease.state = "expired"
  PROVE  WireInv'
<1>1. /\ daemon' = "down" /\ UNCHANGED <<down, link, journal, agent, floored>>
      /\ \A j \in Jobs : handle'[j].phase = "none" /\ up'[j] = <<>>
      /\ \A n \in Nodes : /\ greet'[n] \in {greet[n], NoGreeting}
                          /\ greet'[n].stage # "hello"
  BY DEF DaemonGone, NoHandle, NoGreeting, nodeVars
<1>2. GreetedFirst'
  BY <1>1 DEF IInv, WireInv, GreetedFirst, NoGreeting
<1>3. ASSUME NEW j \in Jobs
      PROVE  JobInv(j)' /\ HelloInv(j)'
  <2>1. JobInv(j) /\ HelloInv(j) /\ row[j] \in Row
    BY DEF IInv, WireInv, TypeOK
  <2>2. HubMoves(j)
    BY <1>1, <1>3 DEF HubMoves, Open
  <2>3. HandlesMatch(j)'
    BY <1>1 DEF HandlesMatch
  <2>4. JobInv(j)'
    BY <2>1, <2>2, <2>3, HubMovesKeep DEF IInv
  <2>5. ASSUME NEW n \in Nodes
        PROVE  HelloIsTrue(n, j)'
    BY <1>1, <1>3, <2>1, <2>5, HelloStays DEF HelloInv
  <2> QED BY <2>4, <2>5 DEF HelloInv
<1> QED BY <1>2, <1>3 DEF WireInv

LEMMA DaemonStopsInv ==
  ASSUME IInv, \/ DaemonCrash
               \/ \E f \in Files : CrashInClaim(f)
               \/ \E j \in Jobs : CrashInRelease(j)
  PROVE  WireInv'
<1>1. CASE DaemonCrash \/ \E f \in Files : CrashInClaim(f)
  BY <1>1, DaemonGoneInv DEF DaemonCrash, CrashInClaim, dbVars
<1>2. ASSUME NEW j \in Jobs, CrashInRelease(j)
      PROVE  WireInv'
  <2>1. row \in [Jobs -> Row] /\ row[j] \in Row
    BY DEF IInv, TypeOK
  <2>2. /\ row[j].phase = "open" /\ row[j].lease.state = "grace"
        /\ row' = [row EXCEPT ![j].lease = Expired(j)]
    BY <1>2 DEF CrashInRelease, Leased, Open, LeaseIsExpired
  <2>3. Expired(j).state = "expired"
    BY <1>2, LeasedType DEF CrashInRelease, IInv, Expired, Lease
  <2>4. /\ \A k \in Jobs \ {j} : row'[k] = row[k]
        /\ row'[j].phase = row[j].phase /\ row'[j].node = row[j].node
        /\ row'[j].lease.state = "expired"
    BY <2>1, <2>2, <2>3 DEF Row
  <2> QED BY <1>2, <2>2, <2>4, DaemonGoneInv DEF CrashInRelease
<1> QED BY <1>1, <1>2

LEMMA HubCloseInv ==
  ASSUME IInv, NEW n \in Nodes, HubClose(n)
  PROVE  WireInv'
<1>1. /\ conn' = [conn EXCEPT ![n] = "none"]
      /\ greet' = [greet EXCEPT ![n] = IF @.stage = "hello" THEN NoGreeting ELSE @]
      /\ UNCHANGED <<daemon, handle, down, link, journal, agent, floored>>
      /\ conn \in [Nodes -> {"none", "open", "welcomed"}] /\ greet \in [Nodes -> Greeting]
  BY DEF HubClose, nodeVars, IInv, TypeOK
<1>2. \A m \in Nodes : /\ greet'[m] \in {greet[m], NoGreeting}
                       /\ m # n => conn'[m] = conn[m]
                       /\ greet'[n].stage # "hello"
  BY <1>1 DEF NoGreeting
<1>3. GreetedFirst'
  BY <1>1, <1>2 DEF IInv, WireInv, GreetedFirst, NoGreeting
<1>4. ASSUME NEW j \in Jobs
      PROVE  JobInv(j)' /\ HelloInv(j)'
  <2>1. JobInv(j) /\ HelloInv(j) /\ row[j] \in Row
    BY DEF IInv, WireInv, TypeOK
  <2>2. /\ row'[j].phase = row[j].phase /\ row'[j].node = row[j].node
        /\ row'[j].cancel = row[j].cancel
        /\ row[j].phase = "unused" => row'[j] = row[j]
        /\ \/ row'[j].lease.state = row[j].lease.state
           \/ row[j].lease.state = "connected" /\ row'[j].lease.state = "grace"
    <3>1. CASE row[j].node = n /\ Leased(j)
      <4> DEFINE l == LeaseOnDisconnect(row[j].lease)
      <4>1. row'[j] = [row[j] EXCEPT !.lease = l]
        BY <3>1 DEF HubClose
      <4>2. l = row[j].lease \/ (row[j].lease.state = "connected" /\ l.state = "grace")
        BY DEF LeaseOnDisconnect
      <4> HIDE DEF l
      <4> QED BY <2>1, <3>1, <4>1, <4>2 DEF Row, Leased, Open
    <3>2. CASE ~ (row[j].node = n /\ Leased(j))
      BY <3>2 DEF HubClose
    <3> QED BY <3>1, <3>2
  <2>3. up'[j] \in {up[j], <<>>}
    BY DEF HubClose
  <2>4. HubMoves(j)
    BY <1>1, <2>1, <2>2, <2>3 DEF HubMoves, Open, JobInv, NothingUnleased
  <2>5. HandlesMatch(j)'
    BY <1>1, <2>1, <2>2 DEF HandlesMatch, JobInv, Open
  <2>6. JobInv(j)'
    BY <2>1, <2>4, <2>5, HubMovesKeep DEF IInv
  <2>7. ASSUME NEW m \in Nodes
        PROVE  HelloIsTrue(m, j)'
    <3>1. HelloIsTrue(m, j)
      BY <2>1 DEF HelloInv
    <3>2. greet[m].stage = "hello" /\ row[j].node = m => down[j] = <<>>
      BY <3>1 DEF HelloIsTrue
    <3>3. greet'[m].stage = "hello" => greet[m].stage = "hello"
      BY <1>2 DEF NoGreeting
    <3> QED BY <1>1, <1>2, <2>2, <3>1, <3>2, <3>3, HelloStays DEF Running
  <2> QED BY <2>6, <2>7 DEF HelloInv
<1> QED BY <1>3, <1>4 DEF WireInv

LEMMA NodeDropInv ==
  ASSUME IInv, NEW n \in Nodes, NodeDrop(n)
  PROVE  WireInv'
<1>1. /\ link' = [link EXCEPT ![n] = "down"]
      /\ greet' = [greet EXCEPT ![n] = IF @.stage = "welcome" THEN NoGreeting ELSE @]
      /\ UNCHANGED <<row, daemon, conn, handle, up, journal, agent, floored>>
      /\ link \in [Nodes -> {"down", "hello", "up"}] /\ greet \in [Nodes -> Greeting]
  BY DEF NodeDrop, dbVars, hubVars, IInv, TypeOK
<1>2. \A m \in Nodes : /\ greet'[m] \in {greet[m], NoGreeting}
                       /\ link'[m] \in {link[m], "down"}
  BY <1>1
<1>3. GreetedFirst'
  BY <1>1, <1>2 DEF IInv, WireInv, GreetedFirst, NoGreeting
<1>4. ASSUME NEW j \in Jobs
      PROVE  JobInv(j)' /\ HelloInv(j)'
  <2>1. JobInv(j) /\ HelloInv(j)
    BY DEF IInv, WireInv
  <2>2. down'[j] \in {down[j], <<>>}
    BY DEF NodeDrop
  <2>3. FramesIn(down'[j]) \subseteq FramesIn(down[j]) /\ JobOnce(down'[j])
    BY <2>1, <2>2, NoFrames DEF JobInv, SentOnce
  <2>4. JobInv(j)'
    BY <1>1, <2>1, <2>3, CalmKeeps DEF Calms
  <2>5. ASSUME NEW m \in Nodes
        PROVE  HelloIsTrue(m, j)'
    <3>1. HelloIsTrue(m, j)
      BY <2>1 DEF HelloInv
    <3>2. greet'[m].stage = "hello" /\ row[j].node = m => down'[j] = <<>>
      BY <1>2, <2>2, <3>1 DEF HelloIsTrue, NoGreeting
    <3> QED BY <1>1, <1>2, <3>1, <3>2, HelloStays DEF Running
  <2> QED BY <2>4, <2>5 DEF HelloInv
<1> QED BY <1>3, <1>4 DEF WireInv

LEMMA NodeCrashInv ==
  ASSUME IInv, NEW n \in Nodes, NodeCrash(n)
  PROVE  WireInv'
<1>1. /\ link' = [link EXCEPT ![n] = "down"]
      /\ greet' = [greet EXCEPT ![n] = IF @.stage = "welcome" THEN NoGreeting ELSE @]
      /\ UNCHANGED <<row, daemon, conn, handle, up, floored>>
      /\ link \in [Nodes -> {"down", "hello", "up"}] /\ greet \in [Nodes -> Greeting]
  BY DEF NodeCrash, dbVars, hubVars, IInv, TypeOK
<1>2. \A m \in Nodes : /\ greet'[m] \in {greet[m], NoGreeting}
                       /\ link'[m] \in {link[m], "down"}
  BY <1>1
<1>3. GreetedFirst'
  BY <1>1, <1>2 DEF IInv, WireInv, GreetedFirst, NoGreeting
<1>4. ASSUME NEW j \in Jobs
      PROVE  JobInv(j)' /\ HelloInv(j)'
  <2>1. JobInv(j) /\ HelloInv(j) /\ journal[j] \in Entry
    BY DEF IInv, WireInv, TypeOK
  <2>2. CASE row[j].node # n
    <3>1. /\ row'[j] = row[j] /\ handle'[j] = handle[j] /\ up'[j] = up[j] /\ down'[j] = down[j]
          /\ journal'[j] = journal[j] /\ agent'[j] = agent[j]
      BY <1>1, <2>2 DEF NodeCrash
    <3>2. JobInv(j)'
      BY <1>1, <2>1, <3>1, JobUntouched
    <3>3. ASSUME NEW m \in Nodes
          PROVE  HelloIsTrue(m, j)'
      <4>1. HelloIsTrue(m, j)
        BY <2>1 DEF HelloInv
      <4>2. greet'[m].stage = "hello" /\ row[j].node = m => down'[j] = <<>>
        BY <1>2, <3>1, <4>1 DEF HelloIsTrue, NoGreeting
      <4> QED BY <1>2, <3>1, <4>1, <4>2, HelloStays DEF Running
    <3> QED BY <3>2, <3>3 DEF HelloInv
  <2>3. CASE row[j].node = n
    <3>1. /\ agent'[j] = NoAgent /\ down'[j] = <<>>
          /\ journal'[j] = IF journal[j].state = "running"
                           THEN [journal[j] EXCEPT !.state = "lost"] ELSE journal[j]
      BY <2>3 DEF NodeCrash
    <3>2. /\ ~ Running(j)' /\ ~ MayWrite(j)' /\ ~ agent'[j].abandoned
          /\ agent'[j].phase = "none"
      BY <3>1 DEF Running, MayWrite, Writing, GrantOut, NoAgent
    <3>3. /\ journal'[j].state # "running"
          /\ journal'[j].state = "none" <=> journal[j].state = "none"
          /\ journal[j].state \in {"none", "lost"} => journal'[j].state \in {"none", "lost"}
      BY <2>1, <3>1 DEF Entry
    <3>4. JobInv(j)'
      <4>1. NothingUnleased(j)' /\ SentOnce(j)'
        BY <1>1, <2>1, <3>1, <3>2, <3>3, NoFrames DEF JobInv, NothingUnleased, SentOnce
      <4>2. ReportIsLast(j)' /\ AsksInOrder(j)' /\ CommitLasts(j)' /\ Journalled(j)'
        BY <3>1, <3>2, <3>3, NoFrames DEF ReportIsLast, AsksInOrder, CommitLasts, Journalled
      <4>3. GivenUp(j)' /\ HandlesMatch(j)'
        BY <1>1, <2>1, <3>1, <3>2, NoFrames DEF JobInv, GivenUp, HandlesMatch, Open
      <4> QED BY <4>1, <4>2, <4>3 DEF JobInv
    <3>5. ASSUME NEW m \in Nodes
          PROVE  HelloIsTrue(m, j)'
      <4>1. HelloIsTrue(m, j)
        BY <2>1 DEF HelloInv
      <4> QED BY <1>1, <1>2, <3>1, <3>2, <3>3, <4>1, HelloStays
    <3> QED BY <3>4, <3>5 DEF HelloInv
  <2> QED BY <2>2, <2>3
<1> QED BY <1>3, <1>4 DEF WireInv

LEMMA ConnectInv ==
  ASSUME IInv, NEW n \in Nodes, Connect(n)
  PROVE  WireInv'
<1>1. /\ link' = [link EXCEPT ![n] = "hello"] /\ conn' = [conn EXCEPT ![n] = "open"]
      /\ UNCHANGED <<row, daemon, handle, journal, agent, floored>>
      /\ link \in [Nodes -> {"down", "hello", "up"}] /\ greet \in [Nodes -> Greeting]
      /\ conn \in [Nodes -> {"none", "open", "welcomed"}]
  BY DEF Connect, dbVars, histVars, IInv, TypeOK
<1>2. /\ greet'[n].stage = "hello"
      /\ \A j \in Jobs : greet'[n].jobs[j] = IF row[j].node = n THEN journal[j].state ELSE "none"
      /\ \A m \in Nodes \ {n} : greet'[m] = greet[m] /\ link'[m] = link[m] /\ conn'[m] = conn[m]
  BY <1>1 DEF Connect
<1>3. GreetedFirst'
  BY <1>1, <1>2 DEF IInv, WireInv, GreetedFirst
<1>4. ASSUME NEW j \in Jobs
      PROVE  JobInv(j)' /\ HelloInv(j)'
  <2>1. JobInv(j) /\ HelloInv(j) /\ journal[j].state \in {"none", "running", "held", "lost"}
    BY DEF IInv, WireInv, TypeOK, Entry
  <2>2. /\ up'[j] \in {up[j], <<>>} /\ down'[j] \in {down[j], <<>>}
        /\ row[j].node = n => down'[j] = <<>>
        /\ row[j].node # n => down'[j] = down[j]
    BY DEF Connect
  <2>3. FramesIn(down'[j]) \subseteq FramesIn(down[j]) /\ JobOnce(down'[j])
    BY <2>1, <2>2, NoFrames DEF JobInv, SentOnce
  <2>4. JobInv(j)'
    BY <1>1, <2>1, <2>2, <2>3, CalmKeeps DEF Calms
  <2>5. HelloIsTrue(n, j)'
    <3>1. row[j].node = n =>
            /\ journal[j].state # "running" => ~ Running(j) \/ agent[j].abandoned
            /\ journal[j].state = "running" => /\ handle[j].phase \notin {"settling", "hung"}
                                               /\ row[j].lease.state # "none"
      BY <2>1 DEF JobInv, Journalled, ReportIsLast, NothingUnleased
    <3> QED BY <1>1, <1>2, <2>1, <2>2, <3>1 DEF HelloIsTrue, Running
  <2>6. ASSUME NEW m \in Nodes \ {n}
        PROVE  HelloIsTrue(m, j)'
    <3>1. HelloIsTrue(m, j)
      BY <2>1 DEF HelloInv
    <3>2. greet'[m].stage = "hello" /\ row[j].node = m => down'[j] = <<>>
      BY <1>2, <2>2, <3>1 DEF HelloIsTrue
    <3> QED BY <1>1, <1>2, <3>1, <3>2, HelloStays DEF Running
  <2> QED BY <2>4, <2>5, <2>6 DEF HelloInv
<1> QED BY <1>3, <1>4 DEF WireInv

\* What a node sends again once it is welcomed.
LEMMA PendingSent ==
  ASSUME TypeOK, NEW j \in Jobs, JobInv(j), up'[j] = up[j] \o PendingFrames(j)
  PROVE  \/ up'[j] = up[j]
         \/ /\ agent[j].phase = "asking"
            /\ up'[j] = Append(up[j], AskFrame(agent[j].commits, agent[j].kind))
         \/ /\ journal[j].state = "held"
            /\ up'[j] = Append(up[j], FinalFrame(journal[j].final))
<1> DEFINE a == AskFrame(agent[j].commits, agent[j].kind)
           b == FinalFrame(journal[j].final)
<1>1. up[j] \in Seq(UpFrame)
  BY DEF TypeOK
<1>2. ~ (agent[j].phase = "asking" /\ journal[j].state = "held")
  BY DEF JobInv, ReportIsLast, Running
<1>3. \A x : <<x>> \o <<>> = <<x>> /\ <<>> \o <<x>> = <<x>>
  OBVIOUS
<1>4. <<>> \o <<>> = <<>>
  OBVIOUS
<1>5. up[j] \o <<>> = up[j] /\ \A x \in UpFrame : up[j] \o <<x>> = Append(up[j], x)
  BY <1>1
<1>6. a \in UpFrame
  BY DEF TypeOK, Agent, AskFrame, UpFrame
<1>7. b \in UpFrame
  BY ConstantsAssumption DEF TypeOK, Entry, FinalFrame, UpFrame
<1> HIDE DEF a, b
<1> QED BY <1>2, <1>3, <1>4, <1>5, <1>6, <1>7 DEF PendingFrames, a, b

LEMMA UpFramesAppended ==
  ASSUME NEW q \in Seq(UpFrame), NEW m \in UpFrame, NEW p, p = Append(q, m)
  PROVE  /\ FramesIn(p) = FramesIn(q) \cup {m}
         /\ \A id, kind : AskIsLast(q, id, kind) /\ m.type \notin {"ask", "step"}
                          => AskIsLast(p, id, kind)
         /\ \A id, kind : AskIsLast(q, id, kind) /\ m.type = "ask" /\ m.body = kind
                          => AskIsLast(p, id, kind)
BY FramesAppended

LEMMA ResentKeeps ==
  ASSUME TypeOK, NEW j \in Jobs, JobInv(j), journal[j].state # "none",
         up'[j] = up[j] \o PendingFrames(j),
         row'[j] = row[j], handle'[j] = handle[j], down'[j] = down[j],
         journal'[j] = journal[j], agent'[j] = agent[j], UNCHANGED <<daemon, floored>>
  PROVE  JobInv(j)'
<1>1. CASE up'[j] = up[j]
  BY <1>1, JobUntouched
<1>2. CASE up'[j] # up[j]
  <2>1. PICK m \in UpFrame :
          /\ up'[j] = Append(up[j], m)
          /\ \/ /\ agent[j].phase = "asking"
                /\ m.type = "ask" /\ m.id = agent[j].commits /\ m.body = agent[j].kind
             \/ journal[j].state = "held" /\ m.type = "final"
    <3>1. AskFrame(agent[j].commits, agent[j].kind) \in UpFrame
      BY DEF TypeOK, Agent, AskFrame, UpFrame
    <3>2. FinalFrame(journal[j].final) \in UpFrame
      BY ConstantsAssumption DEF TypeOK, Entry, FinalFrame, UpFrame
    <3> QED BY <1>2, <3>1, <3>2, PendingSent DEF AskFrame, FinalFrame
  <2>2. up[j] \in Seq(UpFrame) /\ agent[j].commits \in Nat
    BY ConstantsAssumption DEF TypeOK, Agent
  <2>3. /\ FramesIn(up'[j]) = FramesIn(up[j]) \cup {m}
        /\ \A id, kind : AskIsLast(up[j], id, kind) /\ m.type \notin {"ask", "step"}
                         => AskIsLast(up'[j], id, kind)
        /\ \A id, kind : AskIsLast(up[j], id, kind) /\ m.type = "ask" /\ m.body = kind
                         => AskIsLast(up'[j], id, kind)
    BY <2>1, <2>2, UpFramesAppended
  <2>4. \A t : Carries(up'[j], t) => Carries(up[j], t) \/ t = m.type
    BY <2>3 DEF Carries
  <2>5. /\ row[j].lease.state # "none" /\ ~ Carries(down[j], "job")
        /\ journal[j].state = "held" => ~ Running(j)
    BY DEF JobInv, NothingUnleased, SentOnce, ReportIsLast
  <2>6. (MayWrite(j)' <=> MayWrite(j)) /\ (Running(j)' <=> Running(j))
    BY DEF MayWrite, GrantOut, Writing, Running
  <2>7. NothingUnleased(j)' /\ SentOnce(j)'
    BY <2>5, <2>6 DEF JobInv, NothingUnleased, SentOnce
  <2>8. ReportIsLast(j)'
    <3>1. m.type = "final" => ~ Running(j) /\ journal[j].state # "running"
      BY <2>1, <2>5
    <3>2. Carries(up'[j], "final") => Carries(up[j], "final") \/ m.type = "final"
      BY <2>4
    <3> QED BY <2>5, <2>6, <3>1, <3>2 DEF JobInv, ReportIsLast
  <2>9. AsksInOrder(j)'
    <3>1. MayWrite(j)' => ~ Carries(up'[j], "step")
      BY <2>1, <2>4, <2>6 DEF JobInv, AsksInOrder
    <3>2. Running(j) => \A n \in FramesIn(up'[j]) : n.type = "ask" => n.id <= agent[j].commits
      BY <2>1, <2>2, <2>3 DEF JobInv, AsksInOrder
    <3>3. agent[j].phase = "asking" => AskIsLast(up'[j], agent[j].commits, agent[j].kind)
      BY <2>1, <2>3, <2>5 DEF JobInv, AsksInOrder, Running
    <3> QED BY <2>6, <3>1, <3>2, <3>3 DEF JobInv, AsksInOrder
  <2>10. CommitLasts(j)'
    BY <2>6 DEF JobInv, CommitLasts, Open
  <2>11. GivenUp(j)' /\ HandlesMatch(j)' /\ Journalled(j)'
    BY <2>6 DEF JobInv, GivenUp, HandlesMatch, Journalled, Open
  <2> QED BY <2>7, <2>8, <2>9, <2>10, <2>11 DEF JobInv
<1> QED BY <1>1, <1>2

LEMMA WelcomedInv ==
  ASSUME IInv, NEW n \in Nodes, Welcomed(n)
  PROVE  WireInv'
<1>1. /\ greet[n].stage = "welcome"
      /\ link' = [link EXCEPT ![n] = "up"] /\ greet' = [greet EXCEPT ![n] = NoGreeting]
      /\ UNCHANGED <<row, daemon, conn, handle, down, floored>>
      /\ link \in [Nodes -> {"down", "hello", "up"}] /\ greet \in [Nodes -> Greeting]
  BY DEF Welcomed, dbVars, hubVars, histVars, IInv, TypeOK
<1>2. GreetedFirst'
  BY <1>1 DEF IInv, WireInv, GreetedFirst, NoGreeting
<1>3. ASSUME NEW j \in Jobs
      PROVE  JobInv(j)' /\ HelloInv(j)'
  <2> DEFINE told == greet[n].jobs[j]
  <2>1. JobInv(j) /\ HelloInv(j)
    BY DEF IInv, WireInv
  <2>2. \/ /\ up'[j] = up[j] /\ journal'[j] = journal[j] /\ agent'[j] = agent[j]
        \/ /\ told \in {"continue", "apply"} /\ journal[j].state # "none"
           /\ up'[j] = up[j] \o PendingFrames(j)
           /\ journal'[j] = journal[j] /\ agent'[j] = agent[j]
        \/ /\ told \in {"abandon", "lost"} /\ journal[j].state # "none"
           /\ up'[j] = up[j] /\ journal'[j] = NoEntry /\ agent'[j] = Abandoned(agent[j])
    <3> DEFINE known == {i \in Jobs : journal[i].state # "none"}
               sending == {i \in known : greet[n].jobs[i] \in {"continue", "apply"}
                                         /\ conn[n] = "welcomed"}
               forgotten == {i \in known : greet[n].jobs[i] \in {"abandon", "lost"}}
    <3>1. /\ up'[j] = IF j \in sending THEN up[j] \o PendingFrames(j) ELSE up[j]
          /\ journal'[j] = IF j \in forgotten THEN NoEntry ELSE journal[j]
          /\ agent'[j] = IF j \in forgotten THEN Abandoned(agent[j]) ELSE agent[j]
      BY DEF Welcomed
    <3>2. /\ j \in sending => told \in {"continue", "apply"} /\ journal[j].state # "none"
          /\ j \in forgotten => told \in {"abandon", "lost"} /\ journal[j].state # "none"
          /\ ~ (j \in sending /\ j \in forgotten)
      OBVIOUS
    <3> HIDE DEF sending, forgotten
    <3> QED BY <3>1, <3>2
  <2>3. CASE up'[j] = up[j] /\ journal'[j] = journal[j] /\ agent'[j] = agent[j]
    <3>1. JobInv(j)'
      BY <1>1, <2>1, <2>3, JobUntouched
    <3>2. ASSUME NEW m \in Nodes
          PROVE  HelloIsTrue(m, j)'
      <4>1. HelloIsTrue(m, j) /\ greet'[m] \in {greet[m], NoGreeting}
        BY <1>1, <2>1 DEF HelloInv
      <4>2. greet'[m].stage = "hello" /\ row[j].node = m => down'[j] = <<>>
        BY <1>1, <4>1 DEF HelloIsTrue, NoGreeting
      <4> QED BY <1>1, <2>3, <4>1, <4>2, HelloStays DEF Running
    <3> QED BY <3>1, <3>2 DEF HelloInv
  <2>4. ASSUME told # "none", JobInv(j)'
        PROVE  HelloInv(j)'
    <3> SUFFICES ASSUME NEW m \in Nodes
                 PROVE  HelloIsTrue(m, j)'
      BY DEF HelloInv
    <3>1. HelloIsTrue(m, j) /\ row[j].node = n
      BY <1>1, <2>1, <2>4 DEF HelloInv, HelloIsTrue
    <3>2. greet'[m] \in {greet[m], NoGreeting} /\ (m = n => greet'[m].stage = "none")
      BY <1>1 DEF NoGreeting
    <3> QED BY <1>1, <3>1, <3>2, HelloStays
  <2>5. CASE told \in {"continue", "apply"} /\ journal[j].state # "none"
             /\ up'[j] = up[j] \o PendingFrames(j)
             /\ journal'[j] = journal[j] /\ agent'[j] = agent[j]
    <3>1. JobInv(j)'
      BY <1>1, <2>1, <2>5, ResentKeeps DEF IInv
    <3> QED BY <2>4, <2>5, <3>1
  <2>6. CASE told \in {"abandon", "lost"} /\ journal[j].state # "none"
             /\ up'[j] = up[j] /\ journal'[j] = NoEntry /\ agent'[j] = Abandoned(agent[j])
    <3>1. agent[j] \in Agent
      BY DEF IInv, TypeOK
    <3>2. told = "abandon" => row[j].phase = "ended"
      BY <1>1, <2>1 DEF HelloInv, HelloIsTrue
    <3>3. told = "lost" => agent[j].phase = "none"
      <4>1. told = "lost" => row[j].node = n
        BY <1>1, <2>1 DEF HelloInv, HelloIsTrue
      <4>2. told = "lost" => journal[j].state = "lost"
        BY <1>1, <2>1, <2>6, <4>1 DEF HelloInv, HelloIsTrue
      <4> QED BY <2>1, <4>2 DEF JobInv, ReportIsLast, Running
    <3>4. /\ agent'[j].phase = agent[j].phase
             \/ (agent[j].phase = "asking" /\ agent'[j].phase = "refused")
          /\ agent'[j].kind = agent[j].kind /\ agent'[j].commits = agent[j].commits
          /\ agent[j].abandoned => agent'[j].abandoned
          /\ agent'[j].abandoned => agent[j].abandoned \/ row[j].phase = "ended"
          /\ Running(j)' => agent'[j].abandoned
      BY <2>6, <3>1, <3>2, <3>3 DEF Abandoned, Stopped, Agent, Running
    <3>5. Calms(j)
      BY <1>1, <2>6, <3>4 DEF Calms
    <3>6. JobInv(j)'
      BY <1>1, <2>1, <2>6, <3>5, CalmKeeps DEF JobInv, SentOnce
    <3> QED BY <2>4, <2>6, <3>6
  <2> QED BY <2>2, <2>3, <2>5, <2>6
<1> QED BY <1>2, <1>3 DEF WireInv

-----------------------------------------------------------------------------
(* A hello is answered *)

\* What the hub makes of one job of the node that says hello.
LEMMA HelloOutcome ==
  ASSUME IInv, NEW n \in Nodes, HubHello(n), NEW j \in Jobs, row[j].node = n
  PROVE  LET s == greet[n].jobs[j] IN
         /\ row'[j] = RowAfterHello(j, s)
         /\ handle'[j] \in {handle[j], [handle[j] EXCEPT !.pending = FALSE], NoHandle}
         /\ handle'[j] = NoHandle /\ handle[j] # NoHandle => ReleasedBy(j, s)
         /\ ReleasedBy(j, s) => handle'[j] = NoHandle
         /\ down'[j] \in {down[j], Append(down[j], Notice("cancel"))}
            \/ (ReleasedBy(j, s) /\ down'[j] = Append(down[j], Notice("ack-report")))
<1> DEFINE snap     == greet[n].jobs
           mine     == JobsOn(n)
           released == {k \in mine : ReleasedBy(k, snap[k])}
           flushed  == {k \in mine : /\ Continues(k, snap[k]) \/ Delivers(k, snap[k])
                                     /\ handle[k].phase # "none" /\ handle[k].pending}
           heard    == link[n] # "down"
<1>1. j \in mine
  BY DEF JobsOn
<1>2. /\ row'[j] = IF j \in mine THEN RowAfterHello(j, snap[j]) ELSE row[j]
      /\ handle'[j] = CASE j \in released -> NoHandle
                        [] j \in flushed  -> [handle[j] EXCEPT !.pending = FALSE]
                        [] OTHER          -> handle[j]
      /\ down'[j] = CASE heard /\ j \in released -> Append(down[j], Notice("ack-report"))
                      [] heard /\ j \in flushed  -> Append(down[j], Notice("cancel"))
                      [] OTHER                   -> down[j]
  BY DEF HubHello
<1>3. j \in released <=> ReleasedBy(j, snap[j])
  BY <1>1
<1>4. j \in flushed => Continues(j, snap[j]) \/ Delivers(j, snap[j])
  OBVIOUS
<1>5. Continues(j, snap[j]) \/ Delivers(j, snap[j]) => ~ ReleasedBy(j, snap[j])
  BY DEF ReleasedBy, Delivers, Continues
<1>6. j \in flushed => [handle[j] EXCEPT !.pending = FALSE] # NoHandle
  <2>1. j \in flushed => handle[j].phase # "none" /\ handle[j] \in Handle
    BY DEF IInv, TypeOK
  <2> HIDE DEF flushed
  <2> QED BY <2>1 DEF NoHandle, Handle
<1> HIDE DEF released, flushed, heard
<1> QED BY <1>1, <1>2, <1>3, <1>4, <1>5, <1>6

LEMMA HelloRow ==
  ASSUME NEW j \in Jobs, NEW s
  PROVE  /\ ReleasedBy(j, s) =>
              RowAfterHello(j, s) = [row[j] EXCEPT !.phase = "ended", !.lease = Expired(j)]
         /\ ~ ReleasedBy(j, s) /\ Continues(j, s) =>
              RowAfterHello(j, s) = [row[j] EXCEPT !.lease = LeaseOnReconnect(row[j].lease)]
<1> DEFINE A == [row[j] EXCEPT !.phase = "ended", !.lease = Expired(j)]
           B == [row[j] EXCEPT !.lease = LeaseOnReconnect(row[j].lease)]
           C == [row[j] EXCEPT !.lease = LeaseOnClaim]
           P == ReleasedBy(j, s)
           Q == Continues(j, s)
           R == Delivers(j, s) /\ row[j].lease.state = "grace"
<1>1. RowAfterHello(j, s) = (CASE P -> A [] Q -> B [] R -> C [] OTHER -> row[j])
  BY DEF RowAfterHello
<1>2. (P => ~ Q /\ ~ R) /\ ~ (Q /\ R)
  BY DEF ReleasedBy, Continues, Delivers
<1> HIDE DEF A, B, C, P, Q, R
<1>3. P => RowAfterHello(j, s) = A
  BY <1>1, <1>2
<1>4. ~ P /\ Q => RowAfterHello(j, s) = B
  BY <1>1, <1>2
<1> QED BY <1>3, <1>4 DEF A, B, P, Q

LEMMA HelloMoves ==
  ASSUME IInv, NEW n \in Nodes, HubHello(n), NEW j \in Jobs, row[j].node = n
  PROVE  /\ JobInv(j)'
         /\ row'[j].node = row[j].node
         /\ row[j].phase = "ended" => row'[j].phase = "ended"
         /\ greet[n].jobs[j] = "running" /\ ~ Continues(j, "running") => row'[j].phase = "ended"
<1> DEFINE s == greet[n].jobs[j]
<1>1. JobInv(j) /\ HelloIsTrue(n, j) /\ row[j] \in Row /\ handle[j] \in Handle
      /\ down[j] \in Seq(DownFrame)
  BY DEF IInv, WireInv, HelloInv, TypeOK
<1>2. /\ greet[n].stage = "hello" /\ daemon = "up" /\ conn[n] = "open"
      /\ UNCHANGED <<daemon, up, link, journal, agent, floored>>
  BY DEF HubHello, nodeVars, histVars
<1>3. /\ down[j] = <<>>
      /\ s # "running" => ~ Running(j) \/ agent[j].abandoned
      /\ s = "running" => handle[j].phase \notin {"settling", "hung"} /\ row[j].lease.state # "none"
  BY <1>1, <1>2 DEF HelloIsTrue
<1>4. /\ row'[j] = RowAfterHello(j, s)
      /\ handle'[j] \in {handle[j], [handle[j] EXCEPT !.pending = FALSE], NoHandle}
      /\ handle'[j] = NoHandle /\ handle[j] # NoHandle => ReleasedBy(j, s)
      /\ ReleasedBy(j, s) => handle'[j] = NoHandle
      /\ down'[j] \in {down[j], Append(down[j], Notice("cancel"))}
         \/ (ReleasedBy(j, s) /\ down'[j] = Append(down[j], Notice("ack-report")))
  BY HelloOutcome
<1> HIDE DEF s
<1>5. /\ handle'[j].phase \in {handle[j].phase, "none"}
      /\ handle'[j].phase = "none" /\ handle[j].phase # "none" => ReleasedBy(j, s)
      /\ ReleasedBy(j, s) => handle'[j].phase = "none"
      /\ handle'[j].phase # "none" => handle'[j].cancelled = handle[j].cancelled
  <2>1. CASE handle'[j] = handle[j]
    BY <1>4, <2>1 DEF NoHandle
  <2>2. CASE handle'[j] = [handle[j] EXCEPT !.pending = FALSE]
    BY <1>1, <1>4, <2>2 DEF NoHandle, Handle
  <2>3. CASE handle'[j] = NoHandle
    BY <1>4, <2>3 DEF NoHandle
  <2> QED BY <1>4, <2>1, <2>2, <2>3
<1>6. Live(j) => /\ row[j].phase = "open" /\ row[j].lease \in Lease
                 /\ row[j].lease.state \notin {"none", "expired"}
  BY LeasedType DEF IInv, Live, Leased, Open
<1>7. CASE ReleasedBy(j, s)
  <2>1. Live(j) /\ s \in {"lost", "none", "running"} /\ (s = "running" => ~ Continues(j, s))
    BY <1>7 DEF ReleasedBy
  <2>2. /\ row'[j].phase = "ended" /\ row'[j].lease.state = "expired"
        /\ row'[j].node = row[j].node
    <3>1. row'[j] = [row[j] EXCEPT !.phase = "ended", !.lease = Expired(j)]
      BY <1>4, <1>7, HelloRow
    <3>2. Expired(j).state = "expired"
      BY <1>6, <2>1 DEF Expired, Lease
    <3> QED BY <1>1, <3>1, <3>2 DEF Row
  <2>3. MayWrite(j) => row[j].lease.state # "committing"
    <3>1. CASE s = "running"
      BY <1>6, <2>1, <3>1 DEF Continues, LeaseOnReconnect, LeaseIsExpired
    <3>2. CASE s # "running"
      <4>1. ~ Running(j)
        BY <1>1, <1>3, <1>6, <2>1, <3>2 DEF JobInv, GivenUp
      <4> QED BY <4>1 DEF MayWrite, Running, Writing, GrantOut
    <3> QED BY <3>1, <3>2
  <2>4. JobOnce(down'[j]) /\ \A m \in FramesIn(down'[j]) : m \in Endings \cup {Notice("cancel")}
    <3>1. /\ Notice("ack-report") \in DownFrame /\ Notice("ack-report").type # "job"
          /\ Notice("cancel") \in DownFrame /\ Notice("cancel").type # "job"
      BY FrameTypes DEF Notice
    <3>2. down[j] \in Seq(DownFrame) /\ JobOnce(down[j]) /\ FramesIn(down[j]) = {}
      BY <1>1, <1>3, NoFrames
    <3>3. \A m \in {Notice("ack-report"), Notice("cancel")} :
            JobOnce(Append(down[j], m)) /\ FramesIn(Append(down[j], m)) = {m}
      BY <3>1, <3>2, FramesAppended
    <3> QED BY <1>4, <3>2, <3>3 DEF Endings
  <2>5. HubMoves(j)
    BY <1>2, <1>5, <1>6, <1>7, <2>1, <2>2, <2>3, <2>4 DEF HubMoves
  <2>6. HandlesMatch(j)'
    BY <1>5, <1>7, <2>2 DEF HandlesMatch, Open
  <2> QED BY <1>1, <2>2, <2>5, <2>6, HubMovesKeep DEF IInv
<1>8. CASE ~ ReleasedBy(j, s)
  <2>1. /\ row'[j].phase = row[j].phase /\ row'[j].node = row[j].node
        /\ row'[j].cancel = row[j].cancel
        /\ row'[j] = row[j]
           \/ /\ Live(j) /\ row'[j].lease.state = row[j].lease.state
           \/ /\ Live(j) /\ row[j].lease.state = "grace" /\ row'[j].lease.state = "connected"
    <3>1. CASE Continues(j, s)
      <4> DEFINE l == LeaseOnReconnect(row[j].lease)
      <4>1. row'[j] = [row[j] EXCEPT !.lease = l]
        BY <1>4, <1>8, <3>1, HelloRow
      <4>2. l.state # "expired" /\ Live(j)
        BY <3>1 DEF Continues
      <4>3. l = row[j].lease \/ (row[j].lease.state = "grace" /\ l.state = "connected")
            \/ l.state = "expired"
        BY <1>6, <4>2 DEF LeaseOnReconnect, LeaseOnClaim, Lease
      <4> HIDE DEF l
      <4> QED BY <1>1, <4>1, <4>2, <4>3 DEF Row
    <3>2. CASE ~ Continues(j, s) /\ Delivers(j, s) /\ row[j].lease.state = "grace"
      <4>1. row'[j] = [row[j] EXCEPT !.lease = LeaseOnClaim] /\ Live(j)
        BY <1>4, <1>8, <3>2 DEF RowAfterHello, Delivers
      <4> QED BY <1>1, <3>2, <4>1 DEF Row, LeaseOnClaim
    <3>3. CASE ~ Continues(j, s) /\ ~ (Delivers(j, s) /\ row[j].lease.state = "grace")
      BY <1>4, <1>8, <3>3 DEF RowAfterHello
    <3> QED BY <3>1, <3>2, <3>3
  <2>2. JobOnce(down'[j]) /\ \A m \in FramesIn(down'[j]) : m = Notice("cancel")
    <3>1. Notice("cancel") \in DownFrame /\ Notice("cancel").type # "job"
      BY FrameTypes DEF Notice
    <3>2. down[j] \in Seq(DownFrame) /\ JobOnce(down[j]) /\ FramesIn(down[j]) = {}
      BY <1>1, <1>3, NoFrames
    <3>3. JobOnce(Append(down[j], Notice("cancel")))
          /\ FramesIn(Append(down[j], Notice("cancel"))) = {Notice("cancel")}
      BY <3>1, <3>2, FramesAppended
    <3> QED BY <1>4, <1>8, <3>2, <3>3
  <2>3. handle[j].phase = "preparing" => row[j].lease.state = "none"
    BY <1>1 DEF JobInv, NothingUnleased
  <2>4. HubMoves(j)
    BY <1>2, <1>5, <1>6, <2>1, <2>2, <2>3 DEF HubMoves, Open
  <2>5. HandlesMatch(j)'
    BY <1>1, <1>2, <1>5, <1>6, <1>8, <2>1 DEF JobInv, HandlesMatch, Open
  <2>6. s = "running" /\ ~ Continues(j, "running") => row[j].phase = "ended"
    <3> SUFFICES ASSUME s = "running", ~ Continues(j, "running"), row[j].phase # "ended"
                 PROVE  FALSE
      OBVIOUS
    <3>1. row[j].lease.state # "none" /\ handle[j].phase # "settling"
      BY <1>3
    <3>2. ~ Live(j)
      BY <1>8, <3>1 DEF ReleasedBy, Settling
    <3>3. row[j].phase = "open"
      BY <1>1, <3>1 DEF JobInv, NothingUnleased, UnusedRow, NoLease, Row
    <3>4. row[j].lease.state = "expired" /\ handle[j].phase # "none"
      BY <1>1, <1>2, <3>1, <3>2, <3>3 DEF Live, Leased, Open, JobInv, HandlesMatch
    <3> QED BY <1>1, <3>4 DEF JobInv, HandlesMatch
  <2> QED BY <1>1, <2>1, <2>4, <2>5, <2>6, HubMovesKeep DEF IInv, s
<1> QED BY <1>7, <1>8

LEMMA HubHelloInv ==
  ASSUME IInv, NEW n \in Nodes, HubHello(n)
  PROVE  WireInv'
<1>1. /\ greet[n].stage = "hello" /\ conn' = [conn EXCEPT ![n] = "welcomed"]
      /\ UNCHANGED <<daemon, up, link, journal, agent, floored>>
      /\ conn \in [Nodes -> {"none", "open", "welcomed"}] /\ greet \in [Nodes -> Greeting]
  BY DEF HubHello, nodeVars, histVars, IInv, TypeOK
<1>2. /\ \A m \in Nodes \ {n} : greet'[m] = greet[m] /\ conn'[m] = conn[m]
      /\ greet'[n].stage \in {"welcome", "none"}
      /\ greet'[n].stage = "welcome" =>
           \A j \in Jobs : greet'[n].jobs[j] = IF row[j].node = n
                                               THEN Directive(j, greet[n].jobs[j]) ELSE "none"
  BY <1>1 DEF HubHello, NoGreeting, JobsOn
<1>3. GreetedFirst'
  BY <1>1, <1>2 DEF IInv, WireInv, GreetedFirst
<1>4. ASSUME NEW j \in Jobs
      PROVE  JobInv(j)' /\ HelloInv(j)'
  <2>1. JobInv(j) /\ HelloInv(j)
    BY DEF IInv, WireInv
  <2>2. CASE row[j].node # n
    <3>1. /\ row'[j] = row[j] /\ handle'[j] = handle[j] /\ down'[j] = down[j]
      <4>1. j \notin JobsOn(n)
        BY <2>2 DEF JobsOn
      <4> QED BY <4>1 DEF HubHello
    <3>2. JobInv(j)'
      BY <1>1, <2>1, <3>1, JobUntouched
    <3>3. ASSUME NEW m \in Nodes \ {n}
          PROVE  HelloIsTrue(m, j)'
      <4>1. HelloIsTrue(m, j)
        BY <2>1 DEF HelloInv
      <4>2. greet'[m].stage = "hello" /\ row[j].node = m => down'[j] = <<>>
        BY <1>2, <3>1, <4>1 DEF HelloIsTrue
      <4> QED BY <1>1, <1>2, <3>1, <4>1, <4>2, HelloStays DEF Running
    <3>4. HelloIsTrue(n, j)'
      BY <1>1, <1>2, <2>2, <3>1 DEF HelloIsTrue
    <3> QED BY <3>2, <3>3, <3>4 DEF HelloInv
  <2>3. CASE row[j].node = n
    <3>1. /\ JobInv(j)' /\ row'[j].node = row[j].node
          /\ row[j].phase = "ended" => row'[j].phase = "ended"
          /\ greet[n].jobs[j] = "running" /\ ~ Continues(j, "running") => row'[j].phase = "ended"
      BY <2>3, HelloMoves
    <3>2. ASSUME NEW m \in Nodes \ {n}
          PROVE  HelloIsTrue(m, j)'
      BY <1>1, <1>2, <2>1, <2>3, <3>1 DEF HelloInv, HelloIsTrue
    <3>3. HelloIsTrue(n, j)'
      <4>1. HelloIsTrue(n, j)
        BY <2>1 DEF HelloInv
      <4>2. greet'[n].stage = "welcome" /\ greet'[n].jobs[j] = "lost" => greet[n].jobs[j] = "lost"
        BY <1>2, <2>3 DEF Directive
      <4>3. greet'[n].stage = "welcome" /\ greet'[n].jobs[j] = "abandon"
            => greet[n].jobs[j] = "running" /\ ~ Continues(j, "running")
        BY <1>1, <1>2, <2>3, <4>1 DEF Directive, HelloIsTrue
      <4> QED BY <1>1, <1>2, <2>3, <3>1, <4>1, <4>2, <4>3 DEF HelloIsTrue
    <3> QED BY <3>1, <3>2, <3>3 DEF HelloInv
  <2> QED BY <2>2, <2>3
<1> QED BY <1>3, <1>4 DEF WireInv

-----------------------------------------------------------------------------
(* The invariant of the protocol *)

LEMMA InitWire == Init => WireInv
<1> SUFFICES ASSUME Init
             PROVE  WireInv
  OBVIOUS
<1>1. GreetedFirst
  BY DEF Init, GreetedFirst, NoGreeting
<1>2. ASSUME NEW j \in Jobs
      PROVE  JobInv(j) /\ HelloInv(j)
  <2>1. /\ row[j] = UnusedRow /\ handle[j] = NoHandle /\ up[j] = <<>> /\ down[j] = <<>>
        /\ journal[j] = NoEntry /\ agent[j] = NoAgent
        /\ \A n \in Nodes : greet[n] = NoGreeting
    BY DEF Init
  <2>2. NothingUnleased(j) /\ SentOnce(j) /\ ReportIsLast(j)
    BY <2>1, NoFrames DEF NothingUnleased, SentOnce, ReportIsLast, Running,
                          UnusedRow, NoLease, NoHandle, NoEntry, NoAgent
  <2>3. AsksInOrder(j) /\ CommitLasts(j)
    BY <2>1, NoFrames DEF AsksInOrder, CommitLasts, MayWrite, GrantOut, Writing, Running, NoAgent
  <2>4. GivenUp(j) /\ HandlesMatch(j) /\ Journalled(j)
    BY <2>1, NoFrames DEF GivenUp, HandlesMatch, Journalled, Running, Open,
                          UnusedRow, NoHandle, NoAgent
  <2>5. HelloInv(j)
    BY <2>1 DEF HelloInv, HelloIsTrue, NoGreeting
  <2> QED BY <2>2, <2>3, <2>4, <2>5 DEF JobInv
<1> QED BY <1>1, <1>2 DEF WireInv

LEMMA ServerStepKeepsWire ==
  ASSUME IInv, NEW j \in Jobs, ServerJobStep(j)
  PROVE  WireInv'
<1>1. CASE Prepared(j)      BY <1>1, PreparedInv
<1>2. CASE PrepareFails(j)  BY <1>2, PrepareFailsInv
<1>3. CASE Lapse(j)         BY <1>3, LapseInv
<1>4. CASE Sweep(j)         BY <1>4, SweepInv
<1>5. CASE Floor(j)         BY <1>5, FloorInv
<1>6. CASE HubStep(j)       BY <1>6, HubStepInv
<1>7. CASE HubAsk(j)        BY <1>7, HubAskInv
<1>8. CASE HubIgnores(j) \/ HubLate(j)
  BY <1>8, HubIgnoresInv
<1>9. CASE HubDone(j)       BY <1>9, ReportTakenInv
<1>10. CASE StatAnswered(j) \/ StatFailed(j) \/ HubFailed(j)
  BY <1>10, ReportSettledInv
<1>11. CASE StallUnsent(j)  BY <1>11, StallUnsentInv
<1>12. CASE Adopt(j)        BY <1>12, AdoptInv
<1> QED BY <1>1, <1>2, <1>3, <1>4, <1>5, <1>6, <1>7, <1>8, <1>9, <1>10, <1>11, <1>12
        DEF ServerJobStep

LEMMA NodeStepKeepsWire ==
  ASSUME IInv, NEW j \in Jobs, NodeJobStep(j)
  PROVE  WireInv'
<1>1. CASE ReceiveJob(j)    BY <1>1, ReceiveJobInv
<1>2. CASE ReceiveCancel(j) \/ ReceiveAbandon(j) \/ ReceiveAck(j)
  BY <1>2, CalmStepInv
<1>3. CASE ReceiveReply(j)  BY <1>3, ReceiveReplyInv
<1>4. CASE Fetched(j)       BY <1>4, FetchedInv
<1>5. CASE Wrote(j)         BY <1>5, WroteInv
<1>6. CASE Finish(j) \/ Dies(j)
  BY <1>6, FinishInv
<1>7. CASE \E k \in Kinds : Ask(j, k)
  BY <1>7, AskInv
<1> QED BY <1>1, <1>2, <1>3, <1>4, <1>5, <1>6, <1>7 DEF NodeJobStep

LEMMA EnvironmentKeepsWire ==
  ASSUME IInv, Environment
  PROVE  WireInv'
<1>1. CASE \E j \in Jobs : OperatorCancel(j)
  BY <1>1, OperatorCancelInv
<1>2. CASE \E j \in Jobs : StatHangs(j)
  BY <1>2, ReportTakenInv
<1>3. CASE DaemonCrash \/ (\E f \in Files : CrashInClaim(f)) \/ (\E j \in Jobs : CrashInRelease(j))
  BY <1>3, DaemonStopsInv
<1>4. CASE \E f \in Files : Requeue(f)
  BY <1>4, QuietStepsInv
<1>5. CASE \E n \in Nodes : HubClose(n) \/ NodeDrop(n) \/ NodeCrash(n)
  BY <1>5, HubCloseInv, NodeDropInv, NodeCrashInv
<1> QED BY <1>1, <1>2, <1>3, <1>4, <1>5 DEF Environment

LEMMA StepKeepsWire ==
  ASSUME IInv, [Next]_vars
  PROVE  WireInv'
<1>1. CASE \E f \in Files, n \in Nodes, j \in Jobs : Claim(f, n, j)
  BY <1>1, ClaimInvWire
<1>2. CASE \E j \in Jobs : ServerJobStep(j) \/ NodeJobStep(j)
  BY <1>2, ServerStepKeepsWire, NodeStepKeepsWire
<1>3. CASE \E n \in Nodes : Connect(n) \/ HubHello(n) \/ Welcomed(n)
  BY <1>3, ConnectInv, HubHelloInv, WelcomedInv
<1>4. CASE (\E f \in Files : ReapOrphan(f)) \/ DaemonStart \/ DaemonReady \/ UNCHANGED vars
  BY <1>4, QuietStepsInv
<1>5. CASE Environment
  BY <1>5, EnvironmentKeepsWire
<1> QED BY <1>1, <1>2, <1>3, <1>4, <1>5 DEF Next

\* What the wire, the journals and the leases say of each job agrees in every
\* reachable state, whatever is lost, repeated, reordered or restarted.
THEOREM WireHolds == Spec => []IInv
<1>1. TypeOK /\ ClaimInv /\ WireInv /\ [Next]_vars => WireInv'
  BY StepKeepsWire DEF IInv
<1> QED BY TypeCorrect, ClaimsHold, InitWire, <1>1, PTL DEF Spec, IInv

-----------------------------------------------------------------------------
(* Writers *)

\* An agent the server has not given up on is in its node's journal, whatever
\* crashes, hellos, acknowledgements and lost frames came before: node-host.ts
\* writes it there before it runs anything and holds the report there.
THEOREM JournalCovers == Spec => []JournalCoversAgent
<1>1. IInv => JournalCoversAgent
  BY DEF IInv, WireInv, JobInv, Journalled, JournalCoversAgent
<1> QED BY WireHolds, <1>1, PTL

LEMMA WritersHold ==
  ASSUME IInv, NEW j \in Jobs, Writing(j), agent[j].kind = "replace", j \notin floored
  PROVE  Holds(j) /\ row[j].lease.state = "committing"
<1>1. Open(j) /\ row[j].lease.state = "committing"
  BY DEF IInv, WireInv, JobInv, CommitLasts, MayWrite
<1> QED BY <1>1, ClaimsGiveOwnership DEF IInv, OneOpenJobPerFile

\* A run that replaces a file holds the claim on it under a committing lease,
\* and where every write is a replacement no two runs write one file, whatever
\* sockets, hubs and daemons did since the grant - but for the 24 hour floor.
THEOREM WritersAlone ==
  ASSUME Kinds \subseteq {"replace"}
  PROVE  Spec => []WritersAreClaimed
<1>1. ASSUME IInv
      PROVE  WritersAreClaimed
  <2>1. \A j \in Jobs : Writing(j) => agent[j].kind = "replace"
    BY <1>1 DEF IInv, WireInv, JobInv, AsksInOrder, Writing
  <2>2. WriterHoldsClaim
    BY <1>1, WritersHold DEF WriterHoldsClaim
  <2>3. \A j \in Jobs : Writing(j) /\ j \notin floored => Latest(row[j].file) = j
    BY <2>1, <2>2 DEF WriterHoldsClaim, Holds
  <2>4. SingleWriter
    BY <2>3 DEF SingleWriter
  <2> QED BY <2>2, <2>4 DEF WritersAreClaimed
<1> QED BY WireHolds, <1>1, PTL

-----------------------------------------------------------------------------
(* Attempts *)

LEMMA AttemptsCounted ==
  ASSUME NEW r \in LedgerRecord
  PROVE  /\ ApplyStall(r).attempts \in {r.attempts, r.attempts + 1}
         /\ ApplyRequeue(r).attempts <= r.attempts
         /\ ApplyReleaseUnpenalised(r).attempts = r.attempts
         /\ \A o \in RunReports : \/ ApplyRunOutcome(r, o).attempts <= r.attempts
                                  \/ ApplyRunOutcome(r, o).attempts = r.attempts + 1
<1>1. r.attempts \in Nat
  BY DEF LedgerRecord
<1>2. RecordFailedAttempt(r).attempts \in {r.attempts, r.attempts + 1}
  BY <1>1 DEF RecordFailedAttempt, LedgerRecord
<1>3. ApplyRequeue(r).attempts <= r.attempts /\ ApplyReleaseUnpenalised(r).attempts = r.attempts
  BY <1>1 DEF ApplyRequeue, ApplyReleaseUnpenalised, LedgerRecord
<1>4. RecordReviewHold(r).attempts = r.attempts
  BY DEF RecordReviewHold, LedgerRecord
<1>5. \A b \in BOOLEAN : RecordSuccess(r, b).attempts <= r.attempts
  BY <1>1 DEF RecordSuccess
<1>6. ASSUME NEW o \in RunReports
      PROVE  ApplyRunOutcome(r, o) \in {RecordReviewHold(r), RecordFailedAttempt(r),
                                        RecordSuccess(r, TRUE), RecordSuccess(r, FALSE)}
  BY DEF ApplyRunOutcome, RunReports
<1>7. ASSUME NEW o \in RunReports
      PROVE  \/ ApplyRunOutcome(r, o).attempts <= r.attempts
             \/ ApplyRunOutcome(r, o).attempts = r.attempts + 1
  <2>1. CASE ApplyRunOutcome(r, o) = RecordReviewHold(r)
    BY <1>1, <1>4, <2>1
  <2>2. CASE ApplyRunOutcome(r, o) = RecordFailedAttempt(r)
    BY <1>1, <1>2, <2>2
  <2>3. CASE \E b \in BOOLEAN : ApplyRunOutcome(r, o) = RecordSuccess(r, b)
    BY <1>5, <2>3
  <2> QED BY <1>6, <2>1, <2>2, <2>3
<1> QED BY <1>2, <1>3, <1>7 DEF ApplyStall

LEMMA SettledAttempts ==
  ASSUME TypeOK, NEW j \in Jobs, NEW o \in Outcomes, row[j].file \in Files
  PROVE  /\ \/ Settled(j, o).attempts <= file[row[j].file].attempts
            \/ Settled(j, o).attempts = file[row[j].file].attempts + 1
         /\ o = "cancelled" => Settled(j, o).attempts <= file[row[j].file].attempts
<1> DEFINE r == file[row[j].file]
           kept == r.review \/ handle[j].report = "review"
           R == [r EXCEPT !.review = kept]
<1>1. r \in LedgerRecord /\ r.attempts \in Nat
  BY DEF TypeOK, LedgerRecord
<1>2. kept \in BOOLEAN
  BY <1>1 DEF LedgerRecord
<1>3. R \in LedgerRecord /\ R.attempts = r.attempts
  <2> HIDE DEF kept
  <2> QED BY <1>1, <1>2 DEF LedgerRecord
<1>4. ApplyStall(r).attempts \in {r.attempts, r.attempts + 1}
      /\ ApplyStall(R).attempts \in {r.attempts, r.attempts + 1}
  <2> HIDE DEF R, r
  <2> QED BY <1>1, <1>3, AttemptsCounted
<1>5. CASE o \in RunReports
  <2>1. Settled(j, o) = ApplyRunOutcome(r, o)
    BY <1>5 DEF Settled, RunReports
  <2> QED BY <1>1, <1>5, <2>1, AttemptsCounted DEF RunReports
<1>6. CASE o = "cancelled"
  BY <1>1, <1>6, AttemptsCounted DEF Settled, RunReports
<1>7. CASE o = "unsent"
  BY <1>1, <1>7, AttemptsCounted DEF Settled, RunReports
<1>8. CASE o \in {"superseded", "unrecordable", "error"}
  <2>1. Settled(j, o) \in {r, ApplyStall(r), ApplyStall(R)}
    BY <1>8 DEF Settled, RunReports
  <2> HIDE DEF R, r
  <2> QED BY <1>1, <1>4, <1>8, <2>1 DEF r
<1> QED BY <1>5, <1>6, <1>7, <1>8 DEF Outcomes

\* What a step may charge file f: nothing, or one attempt, for the open job it
\* ends - never a cancelled one that was sent and whose report is not in hand -
\* or for a claim without a job.
Charged(f) ==
  \/ file'[f].attempts <= file[f].attempts
  \/ /\ file'[f].attempts = file[f].attempts + 1
     /\ file[f].state = "running"
     /\ \/ \A j \in JobsOf(f) : ~ Open(j)
        \/ \E j \in JobsOf(f) :
             /\ Open(j) /\ row'[j].phase = "ended"
             /\ Leased(j) /\ row[j].cancel => handle[j].phase \in {"settling", "hung"}

\* A job whose report is not in hand, which a cancel was asked for after it was sent.
CancelStands(j) ==
  Leased(j) /\ row[j].cancel /\ handle[j].phase \notin {"settling", "hung"}

LEMMA SettleCharges ==
  ASSUME IInv, NEW j \in Jobs, NEW o \in Outcomes, NEW l, Open(j), Settle(j, o, l),
         CancelStands(j) => o = "cancelled", NEW f \in Files
  PROVE  Charged(f)
<1>1. file[f] \in LedgerRecord /\ file[f].attempts \in Nat /\ row[j] \in Row
  BY DEF IInv, TypeOK, LedgerRecord
<1>2. CASE f # row[j].file
  BY <1>1, <1>2 DEF Settle, IInv, TypeOK, Charged
<1>3. CASE f = row[j].file
  <2>1. file'[f] = Settled(j, o) /\ row'[j].phase = "ended"
    BY <1>1, <1>3 DEF Settle, IInv, TypeOK, Row
  <2>2. j \in JobsOf(f) /\ file[f].state = "running"
    BY <1>3 DEF JobsOf, Open, IInv, ClaimInv, OpenJobLeads
  <2>3. TypeOK
    BY DEF IInv
  <2>4. /\ file'[f].attempts <= file[f].attempts \/ file'[f].attempts = file[f].attempts + 1
        /\ o = "cancelled" => file'[f].attempts <= file[f].attempts
    BY <1>3, <2>1, <2>3, SettledAttempts
  <2> QED BY <2>1, <2>2, <2>4 DEF Charged, CancelStands
<1> QED BY <1>2, <1>3

LEMMA FileKeptCharges ==
  ASSUME IInv, NEW f \in Files, UNCHANGED file \/ file'[f].attempts = file[f].attempts
  PROVE  Charged(f)
<1>1. file[f].attempts \in Nat
  BY DEF IInv, TypeOK, LedgerRecord
<1> QED BY <1>1 DEF Charged

\* While the daemon is up, the handle of an open job knows of its cancel.
LEMMA CancelKnown ==
  ASSUME IInv, NEW j \in Jobs, Open(j), daemon = "up" \/ handle[j].phase # "none", row[j].cancel
  PROVE  \A o : FailureOf(j, o) = "cancelled"
BY DEF IInv, WireInv, JobInv, HandlesMatch, FailureOf

LEMMA FailureOutcome ==
  \A j \in Jobs, o \in Outcomes : FailureOf(j, o) \in Outcomes
BY DEF FailureOf, Outcomes

LEMMA ServerStepCharges ==
  ASSUME IInv, NEW j \in Jobs, ServerJobStep(j), NEW f \in Files
  PROVE  Charged(f)
<1>1. handle[j].phase # "none" => Open(j)
  BY HandleFacts
<1>2. handle[j].phase = "preparing" => ~ Leased(j)
  BY HandleFacts DEF Leased
<1>3. CASE Prepared(j)
  <2>1. CASE UNCHANGED file
    BY <2>1, FileKeptCharges
  <2>2. CASE \E o \in {"cancelled", "unsent"}, l \in {NoLease, LeaseOnClaim} : Settle(j, o, l)
    BY <1>1, <1>2, <1>3, <2>2, SettleCharges DEF Outcomes, CancelStands, Prepared
  <2> QED BY <1>3, <2>1, <2>2 DEF Prepared
<1>4. CASE PrepareFails(j)
  <2>1. PICK o \in {"unsent", "error"} : Settle(j, FailureOf(j, o), NoLease)
    BY <1>4 DEF PrepareFails
  <2>2. FailureOf(j, o) \in Outcomes
    BY <2>1, FailureOutcome DEF Outcomes
  <2> QED BY <1>1, <1>2, <1>4, <2>1, <2>2, SettleCharges DEF CancelStands, PrepareFails
<1>5. CASE Sweep(j) \/ Floor(j)
  <2>1. Open(j) /\ daemon = "up" /\ Settle(j, FailureOf(j, "error"), Expired(j))
    BY <1>5 DEF Sweep, Floor, Release, Leased
  <2>2. FailureOf(j, "error") \in Outcomes
    BY FailureOutcome DEF Outcomes
  <2>3. CancelStands(j) => FailureOf(j, "error") = "cancelled"
    BY <2>1, CancelKnown DEF CancelStands
  <2> QED BY <2>1, <2>2, <2>3, SettleCharges
<1>6. CASE HubFailed(j)
  <2>1. PICK o \in {"error", "superseded"} : Settle(j, FailureOf(j, o), row[j].lease)
    BY <1>6 DEF HubFailed
  <2>2. Open(j) /\ handle[j].phase # "none"
    BY <1>1, <1>6 DEF HubFailed
  <2>3. FailureOf(j, o) \in Outcomes
    BY <2>1, FailureOutcome DEF Outcomes
  <2>4. CancelStands(j) => FailureOf(j, o) = "cancelled"
    BY <2>2, CancelKnown DEF CancelStands
  <2> QED BY <2>1, <2>2, <2>3, <2>4, SettleCharges
<1>7. CASE StatAnswered(j)
  <2>1. PICK o \in {handle[j].report, "unrecordable"} : Settle(j, o, row[j].lease)
    BY <1>7 DEF StatAnswered
  <2>2. handle[j].phase \in {"settling", "hung"} /\ o \in Outcomes
    BY <1>7, <2>1 DEF StatAnswered, IInv, TypeOK, Outcomes
  <2> QED BY <1>1, <2>1, <2>2, SettleCharges DEF CancelStands
<1>8. CASE StatFailed(j)
  <2>1. /\ handle[j].phase \in {"settling", "hung"}
        /\ Settle(j, FailureOf(j, "error"), row[j].lease)
        /\ FailureOf(j, "error") \in Outcomes
    BY <1>8, FailureOutcome DEF StatFailed, Outcomes
  <2> QED BY <1>1, <2>1, SettleCharges DEF CancelStands
<1>9. CASE StallUnsent(j)
  <2>1. Open(j) /\ ~ Leased(j) /\ row[j] \in Row /\ row \in [Jobs -> Row]
    BY <1>9 DEF StallUnsent, Unsent, Leased, IInv, TypeOK
  <2>2. CASE f = row[j].file
    <3>1. row'[j].phase = "ended" /\ j \in JobsOf(f)
      BY <1>9, <2>1, <2>2 DEF StallUnsent, JobsOf, Open, Row
    <3>2. file[f].state = "running"
      BY <2>1, <2>2 DEF IInv, ClaimInv, OpenJobLeads
    <3>3. file'[f] \in {file[f], ApplyStall(file[f])} /\ file[f] \in LedgerRecord
      BY <1>9, <2>2 DEF StallUnsent, IInv, TypeOK
    <3>4. file'[f].attempts \in {file[f].attempts, file[f].attempts + 1} /\ file[f].attempts \in Nat
      BY <3>3, AttemptsCounted DEF LedgerRecord
    <3> QED BY <2>1, <3>1, <3>2, <3>4 DEF Charged
  <2>3. CASE f # row[j].file
    BY <1>9, <2>3, FileKeptCharges DEF StallUnsent, IInv, TypeOK
  <2> QED BY <2>2, <2>3
<1>10. CASE Adopt(j)
  <2>1. CASE UNCHANGED file
    BY <2>1, FileKeptCharges
  <2>2. CASE Settle(j, IF row[j].cancel THEN "cancelled" ELSE "error",
                    LeaseOnDaemonStart(row[j].lease))
    BY <1>10, <2>2, SettleCharges DEF Adopt, Outcomes, CancelStands, Leased
  <2> QED BY <1>10, <2>1, <2>2 DEF Adopt
<1>11. CASE Lapse(j) \/ HubStep(j) \/ HubAsk(j) \/ HubIgnores(j) \/ HubDone(j) \/ HubLate(j)
  BY <1>11, FileKeptCharges
     DEF Lapse, HubStep, HubAsk, HubIgnores, HubDone, HubLate, dbVars
<1> QED BY <1>3, <1>4, <1>5, <1>6, <1>7, <1>8, <1>9, <1>10, <1>11 DEF ServerJobStep

LEMMA HelloCharges ==
  ASSUME IInv, NEW n \in Nodes, HubHello(n), NEW f \in Files
  PROVE  Charged(f)
<1> DEFINE released == {j \in JobsOn(n) : ReleasedBy(j, greet[n].jobs[j])}
           e == CHOOSE j \in released : row[j].file = f
<1>1. file'[f] = IF \E j \in released : row[j].file = f
                 THEN Settled(e, FailureOf(e, "error")) ELSE file[f]
  BY DEF HubHello
<1>2. CASE ~ \E j \in released : row[j].file = f
  BY <1>1, <1>2, FileKeptCharges
<1>3. CASE \E j \in released : row[j].file = f
  <2>1. e \in released /\ row[e].file = f
    BY <1>3
  <2>2. e \in Jobs /\ Leased(e) /\ Open(e) /\ daemon = "up" /\ row'[e].phase = "ended"
    <3>1. e \in Jobs /\ e \in JobsOn(n) /\ ReleasedBy(e, greet[n].jobs[e]) /\ daemon = "up"
      BY <2>1 DEF JobsOn, HubHello
    <3>2. row'[e] = RowAfterHello(e, greet[n].jobs[e])
      BY <3>1 DEF HubHello
    <3>3. row'[e] = [row[e] EXCEPT !.phase = "ended", !.lease = Expired(e)]
      BY <3>1, <3>2, HelloRow
    <3>4. row[e] \in Row
      BY <3>1 DEF IInv, TypeOK
    <3>5. row'[e].phase = "ended"
      BY <3>3, <3>4 DEF Row
    <3> QED BY <3>1, <3>5 DEF ReleasedBy, Live, Leased
  <2> HIDE DEF e
  <2>3. file'[f] = Settled(e, FailureOf(e, "error"))
    BY <1>1, <1>3
  <2>4. FailureOf(e, "error") \in Outcomes
    BY <2>2, FailureOutcome DEF Outcomes
  <2>5. /\ file'[f].attempts <= file[f].attempts \/ file'[f].attempts = file[f].attempts + 1
        /\ FailureOf(e, "error") = "cancelled" => file'[f].attempts <= file[f].attempts
    BY <2>1, <2>2, <2>3, <2>4, SettledAttempts DEF IInv
  <2>6. row[e].cancel => FailureOf(e, "error") = "cancelled"
    BY <2>2, CancelKnown
  <2>7. file[f].state = "running" /\ e \in JobsOf(f)
    BY <2>1, <2>2 DEF JobsOf, Open, IInv, ClaimInv, OpenJobLeads
  <2> QED BY <2>2, <2>5, <2>6, <2>7 DEF Charged
<1> QED BY <1>2, <1>3

LEMMA FileStepCharges ==
  ASSUME IInv, NEW g \in Files, NEW f \in Files,
         \/ \E n \in Nodes, j \in Jobs : Claim(g, n, j)
         \/ CrashInClaim(g) \/ Requeue(g) \/ ReapOrphan(g)
  PROVE  Charged(f)
<1>1. file[f] \in LedgerRecord /\ file[f].attempts \in Nat /\ file \in [Files -> LedgerRecord]
  BY DEF IInv, TypeOK, LedgerRecord
<1>2. CASE \/ \E n \in Nodes, j \in Jobs : Claim(g, n, j)
           \/ CrashInClaim(g)
  <2>1. file' = [file EXCEPT ![g].state = "running"]
    BY <1>2 DEF Claim, CrashInClaim
  <2>2. file'[f].attempts = file[f].attempts
    BY <1>1, <2>1 DEF LedgerRecord
  <2> QED BY <2>2, FileKeptCharges
<1>3. CASE Requeue(g)
  BY <1>1, <1>3, AttemptsCounted DEF Requeue, Charged
<1>4. CASE ReapOrphan(g)
  <2>1. CASE f # g
    BY <1>1, <1>4, <2>1 DEF ReapOrphan, Charged
  <2>2. CASE f = g
    <3>1. file'[f] = ApplyStall(file[f])
      BY <1>1, <1>4, <2>2 DEF ReapOrphan
    <3>2. file'[f].attempts \in {file[f].attempts, file[f].attempts + 1}
      BY <1>1, <3>1, AttemptsCounted
    <3> QED BY <1>1, <1>4, <2>2, <3>2 DEF ReapOrphan, Charged
  <2> QED BY <2>1, <2>2
<1> QED BY <1>2, <1>3, <1>4

LEMMA StepCharges ==
  ASSUME IInv, [Next]_vars, NEW f \in Files
  PROVE  Charged(f)
<1>1. CASE \E g \in Files, n \in Nodes, j \in Jobs : Claim(g, n, j)
  BY <1>1, FileStepCharges
<1>2. CASE \E j \in Jobs : ServerJobStep(j)
  BY <1>2, ServerStepCharges
<1>3. ASSUME NEW j \in Jobs, NodeJobStep(j)
      PROVE  Charged(f)
  <2>1. UNCHANGED file
    BY <1>3 DEF NodeJobStep, ReceiveJob, ReceiveCancel, ReceiveAbandon, ReceiveReply,
                ReceiveAck, Fetched, Wrote, Finish, Dies, Ask, dbVars
  <2> QED BY <2>1, FileKeptCharges
<1>4. CASE \E n \in Nodes : HubHello(n)
  BY <1>4, HelloCharges
<1>5. CASE \E n \in Nodes : Connect(n) \/ Welcomed(n)
  BY <1>5, FileKeptCharges DEF Connect, Welcomed, dbVars
<1>6. CASE DaemonStart \/ DaemonReady \/ UNCHANGED vars
  BY <1>6, FileKeptCharges DEF DaemonStart, DaemonReady, vars, dbVars
<1>7. CASE \E g \in Files : ReapOrphan(g)
  BY <1>7, FileStepCharges
<1>8. CASE Environment
  <2>1. CASE \E g \in Files : Requeue(g) \/ CrashInClaim(g)
    BY <2>1, FileStepCharges
  <2>2. CASE \E j \in Jobs : OperatorCancel(j) \/ StatHangs(j) \/ CrashInRelease(j)
    BY <2>2, FileKeptCharges DEF OperatorCancel, StatHangs, CrashInRelease, dbVars
  <2>3. CASE DaemonCrash \/ \E n \in Nodes : HubClose(n) \/ NodeDrop(n) \/ NodeCrash(n)
    BY <2>3, FileKeptCharges DEF DaemonCrash, HubClose, NodeDrop, NodeCrash, dbVars
  <2> QED BY <1>8, <2>1, <2>2, <2>3 DEF Environment
<1> QED BY <1>1, <1>2, <1>3, <1>4, <1>5, <1>6, <1>7, <1>8 DEF Next

\* What a node's journal forgets: reports that an acknowledgement, a welcome or
\* an earlier crash answered for.
LEMMA ReportKept ==
  ASSUME IInv, [Next]_vars, NEW j \in Jobs,
         journal[j].state = "held", journal'[j].state = "none"
  PROVE  row[j].phase = "ended"
<1>1. /\ JobInv(j) /\ \A n \in Nodes : HelloIsTrue(n, j)
      /\ journal \in [Jobs -> Entry]
      /\ down[j] \in Seq(DownFrame)
  BY DEF IInv, WireInv, HelloInv, TypeOK
<1>2. CASE ReceiveAck(j)
  <2>1. down[j] # <<>> /\ Head(down[j]).type = "ack-report"
    BY <1>2 DEF ReceiveAck, NodeReads
  <2>2. Carries(down[j], "ack-report")
    BY <1>1, <2>1, FramesTaken DEF Carries
  <2> QED BY <1>1, <2>2 DEF JobInv, GivenUp
<1>3. ASSUME NEW n \in Nodes, Welcomed(n)
      PROVE  row[j].phase = "ended"
  <2>1. greet[n].stage = "welcome" /\ greet[n].jobs[j] \in {"abandon", "lost"}
    BY <1>3 DEF Welcomed
  <2>2. greet[n].jobs[j] = "abandon"
    BY <1>1, <2>1 DEF HelloIsTrue
  <2> QED BY <1>1, <2>1, <2>2 DEF HelloIsTrue
<1>4. ASSUME NEW k \in Jobs, NodeJobStep(k)
      PROVE  row[j].phase = "ended"
  <2>1. CASE ReceiveAck(k)
    BY <1>1, <1>2, <2>1 DEF ReceiveAck
  <2>2. CASE ReceiveJob(k)
    BY <1>1, <2>2 DEF ReceiveJob, Entry
  <2>3. CASE \E x \in Finals : Hold(k, x)
    BY <1>1, <2>3 DEF Hold, Entry
  <2>4. CASE UNCHANGED journal
    BY <2>4
  <2> QED BY <1>4, <2>1, <2>2, <2>3, <2>4, ConstantsAssumption
          DEF NodeJobStep, ReceiveCancel, ReceiveAbandon, ReceiveReply, Fetched, Wrote,
              Finish, Dies, Ask, Finals
<1>5. ASSUME NEW n \in Nodes, NodeCrash(n)
      PROVE  FALSE
  BY <1>1, <1>5 DEF NodeCrash, Entry
<1>6. CASE UNCHANGED journal
  BY <1>6
<1>7. ASSUME NEW k \in Jobs, ServerJobStep(k)
      PROVE  UNCHANGED journal
  BY <1>7 DEF ServerJobStep, Prepared, PrepareFails, Lapse, Sweep, Floor, HubStep, HubAsk,
              HubIgnores, HubDone, HubFailed, HubLate, StatAnswered, StatFailed, StallUnsent,
              Adopt, nodeVars
<1>8. \/ \E n \in Nodes : Welcomed(n) \/ NodeCrash(n)
      \/ \E k \in Jobs : NodeJobStep(k) \/ ServerJobStep(k)
      \/ UNCHANGED journal
  BY DEF Next, Environment, Claim, Connect, HubHello, ReapOrphan, DaemonStart, DaemonReady,
         OperatorCancel, StatHangs, CrashInRelease, Requeue, CrashInClaim, HubClose, NodeDrop,
         DaemonCrash, DaemonGone, vars, nodeVars
<1> QED BY <1>3, <1>4, <1>5, <1>6, <1>7, <1>8

LEMMA ChargedOnce ==
  ASSUME IInv, IInv', NEW f \in Files, Charged(f), file'[f].attempts > file[f].attempts,
         NEW j \in JobsOf(f), Open(j)
  PROVE  /\ {k \in JobsOf(f) : Open(k) /\ row'[k].phase = "ended"} = {j}
         /\ ~ CancelStands(j)
<1>1. file[f].attempts \in Nat /\ file'[f].attempts \in Nat
  BY DEF IInv, TypeOK, LedgerRecord
<1>2. ~ (file'[f].attempts <= file[f].attempts)
  BY <1>1
<1>3. PICK k \in JobsOf(f) : /\ Open(k) /\ row'[k].phase = "ended"
                             /\ Leased(k) /\ row[k].cancel => handle[k].phase \in {"settling", "hung"}
  BY <1>2 DEF Charged
<1>4. \A i \in JobsOf(f) : Open(i) => i = j
  BY OpenJobsApart DEF JobsOf, IInv, ClaimInv
<1> QED BY <1>3, <1>4 DEF CancelStands

\* A file is charged one attempt for the job that ends, or for a claim without a
\* job, and nothing for a late or repeated report; a job cancelled after it was
\* sent is charged nothing whatever becomes of it; and a node gives up a report
\* only when the server has recorded the end of its job.
THEOREM AttemptsEarned == Spec => AttemptsAreEarned
<1>1. IInv /\ IInv' /\ [Next]_vars =>
        [\A f \in Files : file'[f].attempts > file[f].attempts =>
           LET ending == {j \in JobsOf(f) : Open(j) /\ row'[j].phase = "ended"} IN
           /\ file'[f].attempts = file[f].attempts + 1
           /\ file[f].state = "running"
           /\ Cardinality(ending) = 1 \/ \A j \in JobsOf(f) : ~ Open(j)]_vars
  <2> SUFFICES ASSUME IInv, IInv', [Next]_vars, NEW f \in Files,
                      file'[f].attempts > file[f].attempts
               PROVE  LET ending == {j \in JobsOf(f) : Open(j) /\ row'[j].phase = "ended"} IN
                      /\ file'[f].attempts = file[f].attempts + 1
                      /\ file[f].state = "running"
                      /\ Cardinality(ending) = 1 \/ \A j \in JobsOf(f) : ~ Open(j)
    OBVIOUS
  <2> DEFINE ending == {j \in JobsOf(f) : Open(j) /\ row'[j].phase = "ended"}
  <2>1. Charged(f)
    BY StepCharges
  <2>2. file'[f].attempts = file[f].attempts + 1 /\ file[f].state = "running"
    <3>1. file[f].attempts \in Nat /\ file'[f].attempts \in Nat
      BY DEF IInv, TypeOK, LedgerRecord
    <3>2. ~ (file'[f].attempts <= file[f].attempts)
      BY <3>1
    <3> QED BY <2>1, <3>2 DEF Charged
  <2>3. ASSUME NEW j \in JobsOf(f), Open(j)
        PROVE  Cardinality(ending) = 1
    <3>1. ending = {j}
      BY <2>1, <2>3, ChargedOnce
    <3> QED BY <3>1, FS_Singleton
  <2> QED BY <2>2, <2>3
<1>2. IInv /\ IInv' /\ [Next]_vars =>
        [\A j \in Jobs :
           Leased(j) /\ row[j].cancel /\ row'[j].phase = "ended"
             /\ handle[j].phase \notin {"settling", "hung"}
           => file'[row[j].file].attempts <= file[row[j].file].attempts]_vars
  <2> SUFFICES ASSUME IInv, IInv', [Next]_vars, NEW j \in Jobs, CancelStands(j)
               PROVE  file'[row[j].file].attempts <= file[row[j].file].attempts
    BY DEF CancelStands
  <2> DEFINE f == row[j].file
  <2>1. Open(j) /\ f \in Files /\ j \in JobsOf(f)
    BY DEF CancelStands, Leased, Open, JobsOf, IInv, ClaimInv, OpenJobLeads
  <2>2. file[f].attempts \in Nat /\ file'[f].attempts \in Nat
    BY <2>1 DEF IInv, TypeOK, LedgerRecord
  <2>3. Charged(f)
    BY <2>1, StepCharges
  <2> HIDE DEF f
  <2>4. ~ (file'[f].attempts > file[f].attempts)
    BY <2>1, <2>3, ChargedOnce
  <2>5. file'[f].attempts <= file[f].attempts \/ file'[f].attempts = file[f].attempts + 1
    BY <2>3 DEF Charged
  <2>6. file'[f].attempts <= file[f].attempts
    BY <2>2, <2>4, <2>5
  <2> QED BY <2>6 DEF f
<1>3. IInv /\ [Next]_vars =>
        [\A j \in Jobs : journal[j].state = "held" /\ journal'[j].state = "none"
           => row[j].phase = "ended"]_vars
  BY ReportKept
<1> QED BY WireHolds, <1>1, <1>2, <1>3, PTL
        DEF Spec, AttemptsAreEarned, AttemptOncePerJob, CancelCostsNoAttempt,
            ReportForgottenOnlyWhenEnded

-----------------------------------------------------------------------------
(* The promise of FileOwnership *)

\* Job j is permitted to write: "permitted" of the refinement mapping.
May(j) == Open(j) /\ Running(j) /\ row[j].lease.state = "committing"

\* A step that the lock of job j does not see.
Same(j) ==
  /\ row'[j].file = row[j].file /\ (Open(j)' <=> Open(j))
  /\ (May(j)' <=> May(j)) /\ (Writing(j)' <=> Writing(j))

OthersSame(J) == \A j \in Jobs \ J : Same(j)

LEMMA SeesNothing ==
  ASSUME OthersSame({}), UNCHANGED floored
  PROVE  UNCHANGED Ownership!vars
<1>1. \A j \in Jobs : Same(j)
  BY DEF OthersSame
<1>2. [j \in Jobs |-> row'[j].file] = [j \in Jobs |-> row[j].file]
  BY <1>1 DEF Same
<1>3. {j \in Jobs : Open(j)'} = {j \in Jobs : Open(j)}
  BY <1>1 DEF Same
<1>4. {j \in Jobs : May(j)'} = {j \in Jobs : May(j)}
  BY <1>1 DEF Same
<1>5. {j \in Jobs : Writing(j)'} = {j \in Jobs : Writing(j)}
  BY <1>1 DEF Same
<1> QED BY <1>2, <1>3, <1>4, <1>5 DEF Ownership!vars, May, Open, Writing, Running

LEMMA SeesFree ==
  ASSUME NEW J \in SUBSET Jobs, OthersSame(J), UNCHANGED floored,
         \A j \in J : /\ row'[j].file = row[j].file /\ Open(j) /\ ~ Open(j)'
                      /\ ~ May(j) /\ (Writing(j)' <=> Writing(j))
  PROVE  Ownership!Next
<1>1. /\ \A j \in Jobs : row'[j].file = row[j].file /\ (Writing(j)' <=> Writing(j))
      /\ \A j \in Jobs : Open(j)' <=> Open(j) /\ j \notin J
      /\ \A j \in Jobs : May(j)' <=> May(j)
  BY DEF OthersSame, Same, May
<1>2. [j \in Jobs |-> row'[j].file] = [j \in Jobs |-> row[j].file]
  BY <1>1
<1>3. {j \in Jobs : Open(j)'} = {j \in Jobs : Open(j)} \ J
  BY <1>1
<1>4. {j \in Jobs : May(j)'} = {j \in Jobs : May(j)}
  BY <1>1
<1>5. {j \in Jobs : Writing(j)'} = {j \in Jobs : Writing(j)}
  BY <1>1
<1>6. J \subseteq {j \in Jobs : Open(j)} \ {j \in Jobs : May(j)}
  OBVIOUS
<1>7. Ownership!Free(J)
  BY <1>2, <1>3, <1>4, <1>5, <1>6 DEF Ownership!Free, May, Open, Writing, Running
<1> QED BY <1>7 DEF Ownership!Next

LEMMA SeesStop ==
  ASSUME NEW J \in SUBSET Jobs, OthersSame(J), UNCHANGED floored,
         \A j \in J : /\ row'[j].file = row[j].file /\ (Open(j)' <=> Open(j))
                      /\ ~ May(j)' /\ ~ Writing(j)'
  PROVE  Ownership!Next
<1>1. /\ \A j \in Jobs : row'[j].file = row[j].file /\ (Open(j)' <=> Open(j))
      /\ \A j \in Jobs : Writing(j)' <=> Writing(j) /\ j \notin J
      /\ \A j \in Jobs : May(j)' <=> May(j) /\ j \notin J
  BY DEF OthersSame, Same
<1>2. [j \in Jobs |-> row'[j].file] = [j \in Jobs |-> row[j].file]
  BY <1>1
<1>3. {j \in Jobs : Open(j)'} = {j \in Jobs : Open(j)}
  BY <1>1
<1>4. {j \in Jobs : May(j)'} = {j \in Jobs : May(j)} \ J
  BY <1>1
<1>5. {j \in Jobs : Writing(j)'} = {j \in Jobs : Writing(j)} \ J
  BY <1>1
<1>6. Ownership!Stop(J)
  BY <1>2, <1>3, <1>4, <1>5 DEF Ownership!Stop, May, Open, Writing, Running
<1> QED BY <1>6 DEF Ownership!Next

\* The steps that move one lock.
LEMMA SeesAcquire ==
  ASSUME NEW j \in Jobs, OthersSame({j}),
         NEW f \in Files, row[j].file = "none", row'[j].file = f,
         \A k \in Jobs : Open(k) => row[k].file # f,
         row \in [Jobs -> Row],
         Open(j)', May(j)' <=> May(j), Writing(j)' <=> Writing(j), UNCHANGED floored
  PROVE  Ownership!Next
<1> USE DEF May, Open, Writing, Running
<1>0. \A k \in Jobs \ {j} : /\ row'[k].file = row[k].file /\ (Open(k)' <=> Open(k))
                            /\ (May(k)' <=> May(k)) /\ (Writing(k)' <=> Writing(k))
  BY DEF OthersSame, Same
<1>1. [k \in Jobs |-> row'[k].file] = [[k \in Jobs |-> row[k].file] EXCEPT ![j] = f]
  BY <1>0
<1>2. {k \in Jobs : Open(k)'} = {k \in Jobs : Open(k)} \cup {j}
  BY <1>0
<1>3. {k \in Jobs : May(k)'} = {k \in Jobs : May(k)}
  BY <1>0
<1>4. {k \in Jobs : Writing(k)'} = {k \in Jobs : Writing(k)}
  BY <1>0
<1>5. Ownership!Acquire(j, f)
  BY <1>1, <1>2, <1>3, <1>4 DEF Ownership!Acquire
<1> QED BY <1>5 DEF Ownership!Next

LEMMA SeesWaive ==
  ASSUME NEW j \in Jobs, OthersSame({j}),
         row'[j].file = row[j].file, Open(j), ~ Open(j)', Writing(j)' <=> Writing(j),
         floored' = floored \cup {j}
  PROVE  Ownership!Next
<1> USE DEF May, Open, Writing, Running
<1>0. \A k \in Jobs \ {j} : /\ row'[k].file = row[k].file /\ (Open(k)' <=> Open(k))
                            /\ (May(k)' <=> May(k)) /\ (Writing(k)' <=> Writing(k))
  BY DEF OthersSame, Same
<1>1. [k \in Jobs |-> row'[k].file] = [k \in Jobs |-> row[k].file]
  BY <1>0
<1>2. {k \in Jobs : Open(k)'} = {k \in Jobs : Open(k)} \ {j}
  BY <1>0
<1>3. {k \in Jobs : May(k)'} = {k \in Jobs : May(k)} \ {j}
  BY <1>0
<1>4. {k \in Jobs : Writing(k)'} = {k \in Jobs : Writing(k)}
  BY <1>0
<1>5. Ownership!Waive(j)
  BY <1>1, <1>2, <1>3, <1>4 DEF Ownership!Waive
<1> QED BY <1>5 DEF Ownership!Next

LEMMA SeesPermission ==
  ASSUME NEW j \in Jobs, OthersSame({j}),
         row'[j].file = row[j].file, Open(j)' <=> Open(j), Writing(j)' <=> Writing(j),
         UNCHANGED floored,
         (May(j)' /\ Open(j)) \/ (May(j) /\ ~ May(j)' /\ ~ Writing(j))
  PROVE  Ownership!Next
<1> USE DEF May, Open, Writing, Running
<1>0. \A k \in Jobs \ {j} : /\ row'[k].file = row[k].file /\ (Open(k)' <=> Open(k))
                            /\ (May(k)' <=> May(k)) /\ (Writing(k)' <=> Writing(k))
  BY DEF OthersSame, Same
<1>1. [k \in Jobs |-> row'[k].file] = [k \in Jobs |-> row[k].file]
  BY <1>0
<1>2. {k \in Jobs : Open(k)'} = {k \in Jobs : Open(k)}
  BY <1>0
<1>3. {k \in Jobs : Writing(k)'} = {k \in Jobs : Writing(k)}
  BY <1>0
<1>4. CASE May(j)' /\ Open(j)
  <2>1. {k \in Jobs : May(k)'} = {k \in Jobs : May(k)} \cup {j}
    BY <1>0, <1>4
  <2>2. Ownership!Permit(j)
    BY <1>1, <1>2, <1>3, <1>4, <2>1 DEF Ownership!Permit
  <2> QED BY <2>2 DEF Ownership!Next
<1>5. CASE May(j) /\ ~ May(j)' /\ ~ Writing(j)
  <2>1. {k \in Jobs : May(k)'} = {k \in Jobs : May(k)} \ {j}
    BY <1>0, <1>5
  <2>2. Ownership!Withdraw(j)
    BY <1>1, <1>2, <1>3, <1>5, <2>1 DEF Ownership!Withdraw
  <2> QED BY <2>2 DEF Ownership!Next
<1> QED BY <1>4, <1>5

LEMMA SeesWriting ==
  ASSUME NEW j \in Jobs, OthersSame({j}),
         row'[j].file = row[j].file, Open(j)' <=> Open(j), May(j)' <=> May(j),
         UNCHANGED floored,
         (Writing(j)' /\ (May(j) \/ j \in floored)) \/ (Writing(j) /\ ~ Writing(j)')
  PROVE  Ownership!Next
<1> USE DEF May, Open, Writing, Running
<1>0. \A k \in Jobs \ {j} : /\ row'[k].file = row[k].file /\ (Open(k)' <=> Open(k))
                            /\ (May(k)' <=> May(k)) /\ (Writing(k)' <=> Writing(k))
  BY DEF OthersSame, Same
<1>1. [k \in Jobs |-> row'[k].file] = [k \in Jobs |-> row[k].file]
  BY <1>0
<1>2. {k \in Jobs : Open(k)'} = {k \in Jobs : Open(k)}
  BY <1>0
<1>3. {k \in Jobs : May(k)'} = {k \in Jobs : May(k)}
  BY <1>0
<1>4. CASE Writing(j)' /\ (May(j) \/ j \in floored)
  <2>1. {k \in Jobs : Writing(k)'} = {k \in Jobs : Writing(k)} \cup {j}
    BY <1>0, <1>4
  <2>2. Ownership!Begin(j)
    BY <1>1, <1>2, <1>3, <1>4, <2>1 DEF Ownership!Begin
  <2> QED BY <2>2 DEF Ownership!Next
<1>5. CASE Writing(j) /\ ~ Writing(j)'
  <2>1. {k \in Jobs : Writing(k)'} = {k \in Jobs : Writing(k)} \ {j}
    BY <1>0, <1>5
  <2>2. Ownership!End(j)
    BY <1>1, <1>2, <1>3, <1>5, <2>1 DEF Ownership!End
  <2> QED BY <2>2 DEF Ownership!Next
<1> QED BY <1>4, <1>5

LockStep == [Ownership!Next]_Ownership!vars

LEMMA SettleFrees ==
  ASSUME IInv, NEW j \in Jobs, NEW o, NEW l, Open(j), Settle(j, o, l), UNCHANGED agent,
         UNCHANGED floored, row[j].lease.state = "committing" => ~ Running(j)
  PROVE  LockStep
<1>1. row \in [Jobs -> Row] /\ row[j] \in Row
  BY DEF IInv, TypeOK
<1>2. OthersSame({j})
  BY <1>1 DEF Settle, OthersSame, Same, May, Open, Running, Writing
<1>3. /\ row'[j].file = row[j].file /\ row'[j].phase = "ended"
      /\ ~ May(j) /\ (Writing(j)' <=> Writing(j))
  BY <1>1 DEF Settle, Row, May, Writing
<1> QED BY <1>2, <1>3, SeesFree DEF Open, LockStep

\* A step that rewrites the lease of one job, or its cancel.
LEMMA LeaseSteps ==
  ASSUME IInv, NEW j \in Jobs, NEW R, row' = [row EXCEPT ![j] = R],
         R.file = row[j].file, R.phase = row[j].phase,
         UNCHANGED agent, UNCHANGED floored,
         \/ Open(j) => (R.lease.state = "committing" <=> row[j].lease.state = "committing")
         \/ Open(j) /\ R.lease.state = "committing"
         \/ ~ Writing(j)
  PROVE  LockStep
<1>1. row \in [Jobs -> Row]
  BY DEF IInv, TypeOK
<1>2. OthersSame({j}) /\ row'[j] = R
  BY <1>1 DEF OthersSame, Same, May, Open, Running, Writing
<1>3. row'[j].file = row[j].file /\ (Open(j)' <=> Open(j)) /\ (Writing(j)' <=> Writing(j))
  BY <1>2 DEF Open, Writing
<1>4. CASE May(j)' <=> May(j)
  <2>1. OthersSame({})
    BY <1>2, <1>3, <1>4 DEF OthersSame, Same
  <2> QED BY <2>1, SeesNothing DEF LockStep
<1>5. CASE May(j)' /\ ~ May(j)
  BY <1>2, <1>3, <1>5, SeesPermission DEF May, LockStep
<1>6. CASE ~ May(j)' /\ May(j)
  <2>1. ~ Writing(j)
    BY <1>2, <1>6 DEF May, Open, Running
  <2> QED BY <1>2, <1>3, <1>6, <2>1, SeesPermission DEF May, LockStep
<1> QED BY <1>4, <1>5, <1>6

LEMMA ClaimAcquires ==
  ASSUME IInv, NEW f \in Files, NEW n \in Nodes, NEW j \in Jobs, Claim(f, n, j)
  PROVE  LockStep
<1>1. row \in [Jobs -> Row] /\ row[j] = UnusedRow
  BY DEF IInv, TypeOK, WireInv, JobInv, NothingUnleased, Claim
<1>2. OthersSame({j})
  BY <1>1 DEF Claim, OthersSame, Same, May, Open, Running, Writing, nodeVars
<1>3. \A k \in Jobs : Open(k) => row[k].file # f
  BY DEF Claim, IsEligible, IInv, ClaimInv, OpenJobLeads
<1>4. /\ row'[j].file = f /\ Open(j)' /\ ~ May(j)' /\ ~ May(j) /\ row[j].file = "none"
      /\ (Writing(j)' <=> Writing(j)) /\ UNCHANGED floored
  BY <1>1 DEF Claim, UnusedRow, NoLease, Open, May, Writing, nodeVars, histVars
<1> QED BY <1>1, <1>2, <1>3, <1>4, SeesAcquire DEF LockStep

LEMMA ServerStepLocks ==
  ASSUME IInv, NEW j \in Jobs, ServerJobStep(j)
  PROVE  LockStep
<1>1. row \in [Jobs -> Row] /\ row[j] \in Row /\ JobInv(j)
  BY DEF IInv, TypeOK, WireInv
<1>2. handle[j].phase # "none" => Open(j)
  BY HandleFacts
<1>3. handle[j].phase = "preparing" => row[j].lease.state = "none"
  BY HandleFacts
<1>4. CASE Prepared(j)
  <2>1. CASE \E o, l : Settle(j, o, l)
    BY <1>2, <1>3, <1>4, <2>1, SettleFrees DEF Prepared, nodeVars, histVars
  <2>2. CASE row' = [row EXCEPT ![j].lease = LeaseOnClaim]
    <3> DEFINE R == [row[j] EXCEPT !.lease = LeaseOnClaim]
    <3>1. R.file = row[j].file /\ R.phase = row[j].phase /\ R.lease.state = "connected"
      BY <1>1 DEF Row, LeaseOnClaim
    <3>2. row' = [row EXCEPT ![j] = R]
      BY <2>2
    <3>3. row[j].lease.state = "none" /\ UNCHANGED agent /\ UNCHANGED floored
      BY <1>3, <1>4 DEF Prepared, nodeVars, histVars
    <3> HIDE DEF R
    <3> QED BY <3>1, <3>2, <3>3, LeaseSteps
  <2> QED BY <1>4, <2>1, <2>2 DEF Prepared
<1>5. CASE PrepareFails(j)
  BY <1>2, <1>3, <1>5, SettleFrees DEF PrepareFails, nodeVars, histVars
<1>6. CASE Lapse(j)
  <2> DEFINE R == [row[j] EXCEPT !.lease.lapsed = TRUE]
  <2>1. row[j].lease \in Lease
    BY <1>6, LeasedType DEF Lapse, IInv
  <2>2. R.file = row[j].file /\ R.phase = row[j].phase /\ R.lease.state = row[j].lease.state
    BY <1>1, <2>1 DEF Row, Lease
  <2>3. row' = [row EXCEPT ![j] = R] /\ UNCHANGED agent /\ UNCHANGED floored
    BY <1>6 DEF Lapse, nodeVars, histVars
  <2> HIDE DEF R
  <2> QED BY <2>2, <2>3, LeaseSteps
<1>7. CASE Sweep(j)
  BY <1>7, SettleFrees DEF Sweep, Release, Leased, LeaseIsExpired, nodeVars, histVars
<1>8. CASE Floor(j)
  <2>1. Open(j) /\ UNCHANGED agent /\ floored' = floored \cup {j}
    BY <1>8 DEF Floor, Leased, nodeVars
  <2>2. OthersSame({j})
    BY <1>1, <1>8, <2>1 DEF Floor, Release, Settle, OthersSame, Same, May, Open, Running, Writing
  <2>3. /\ row'[j].file = row[j].file /\ row'[j].phase = "ended"
        /\ (Writing(j)' <=> Writing(j))
    BY <1>1, <1>8, <2>1 DEF Floor, Release, Settle, Row, Writing
  <2> QED BY <2>1, <2>2, <2>3, SeesWaive DEF Open, LockStep
<1>9. CASE HubStep(j)
  <2>1. CASE UNCHANGED row
    <3>1. OthersSame({}) /\ UNCHANGED floored
      BY <1>9, <2>1 DEF HubStep, nodeVars, histVars, OthersSame, Same, May, Open, Running, Writing
    <3> QED BY <3>1, SeesNothing DEF LockStep
  <2>2. CASE row' # row
    <3> DEFINE R == [row[j] EXCEPT !.lease = LeaseAfterStep(row[j].lease)]
    <3>1. R.file = row[j].file /\ R.phase = row[j].phase
      BY <1>1 DEF Row
    <3>2. row' = [row EXCEPT ![j] = R] /\ UNCHANGED agent /\ UNCHANGED floored
      BY <1>9, <2>2 DEF HubStep, nodeVars, histVars
    <3>3. ~ Writing(j)
      <4>1. Carries(up[j], "step")
        BY <1>9, HubReadsFacts DEF HubStep
      <4> QED BY <1>1, <4>1 DEF JobInv, AsksInOrder, MayWrite
    <3> HIDE DEF R
    <3> QED BY <3>1, <3>2, <3>3, LeaseSteps
  <2> QED BY <2>1, <2>2
<1>10. CASE HubAsk(j)
  <2>1. CASE UNCHANGED row
    <3>1. OthersSame({}) /\ UNCHANGED floored
      BY <1>10, <2>1 DEF HubAsk, nodeVars, histVars, OthersSame, Same, May, Open, Running, Writing
    <3> QED BY <3>1, SeesNothing DEF LockStep
  <2>2. CASE row' # row
    <3> DEFINE l == LeaseOnGrant(row[j].lease, Head(up[j]).body)
               R == [row[j] EXCEPT !.lease = l]
    <3>1. R.file = row[j].file /\ R.phase = row[j].phase /\ R.lease = l
      BY <1>1 DEF Row
    <3>2. row' = [row EXCEPT ![j] = R] /\ UNCHANGED agent /\ UNCHANGED floored /\ Open(j)
      BY <1>10, <2>2 DEF HubAsk, Granted, Leased, nodeVars, histVars
    <3>3. l = row[j].lease \/ l.state = "committing"
      BY DEF LeaseOnGrant
    <3> HIDE DEF R, l
    <3> QED BY <3>1, <3>2, <3>3, LeaseSteps
  <2> QED BY <2>1, <2>2
<1>11. CASE HubIgnores(j) \/ HubDone(j) \/ HubLate(j)
  <2>1. OthersSame({}) /\ UNCHANGED floored
    BY <1>11 DEF HubIgnores, HubDone, HubLate, dbVars, nodeVars, histVars,
                 OthersSame, Same, May, Open, Running, Writing
  <2> QED BY <2>1, SeesNothing DEF LockStep
<1>12. CASE HubFailed(j)
  <2>1. ~ Running(j)
    <3>1. Carries(up[j], "final")
      BY <1>12, HubReadsFacts DEF HubFailed
    <3> QED BY <1>1, <3>1 DEF JobInv, ReportIsLast
  <2> QED BY <1>2, <1>12, <2>1, SettleFrees DEF HubFailed, nodeVars, histVars
<1>13. CASE StatAnswered(j) \/ StatFailed(j)
  <2>1. ~ Running(j)
    BY <1>1, <1>13 DEF StatAnswered, StatFailed, JobInv, ReportIsLast
  <2> QED BY <1>2, <1>13, <2>1, SettleFrees DEF StatAnswered, StatFailed, nodeVars, histVars
<1>14. CASE StallUnsent(j)
  <2>1. /\ Open(j) /\ row[j].lease.state = "none" /\ UNCHANGED <<agent, floored>>
        /\ row' = [row EXCEPT ![j].phase = "ended"]
    BY <1>14 DEF StallUnsent, Unsent, nodeVars, histVars
  <2>2. OthersSame({j})
    BY <1>1, <2>1 DEF OthersSame, Same, May, Open, Running, Writing
  <2>3. /\ row'[j].file = row[j].file /\ row'[j].phase = "ended"
        /\ ~ May(j) /\ (Writing(j)' <=> Writing(j))
    BY <1>1, <2>1 DEF Row, May, Writing
  <2> QED BY <2>1, <2>2, <2>3, SeesFree DEF Open, LockStep
<1>15. CASE Adopt(j)
  <2> DEFINE l == LeaseOnDaemonStart(row[j].lease)
  <2>1. Open(j) /\ UNCHANGED <<agent, floored>>
    BY <1>15 DEF Adopt, Leased, nodeVars, histVars
  <2>2. row[j].lease.state = "committing" <=> l.state = "committing"
    BY DEF LeaseOnDaemonStart
  <2>3. CASE l.state = "expired"
    BY <1>15, <2>1, <2>2, <2>3, SettleFrees DEF Adopt
  <2>4. CASE l.state # "expired"
    <3> DEFINE R == [row[j] EXCEPT !.lease = l]
    <3>1. row' = [row EXCEPT ![j] = R]
      BY <1>15, <2>4 DEF Adopt
    <3> HIDE DEF l
    <3>2. R.file = row[j].file /\ R.phase = row[j].phase /\ R.lease = l
      BY <1>1 DEF Row
    <3> HIDE DEF R
    <3> QED BY <2>1, <2>2, <3>1, <3>2, LeaseSteps
  <2> QED BY <2>3, <2>4
<1> QED BY <1>4, <1>5, <1>6, <1>7, <1>8, <1>9, <1>10, <1>11, <1>12, <1>13, <1>14, <1>15
        DEF ServerJobStep

\* A step of one agent that does not begin to write, nor end.
LEMMA AgentSteps ==
  ASSUME NEW j \in Jobs, UNCHANGED <<row, floored>>, \A k \in Jobs \ {j} : agent'[k] = agent[k],
         (Writing(j)' <=> Writing(j)), row[j].lease.state = "committing" => (Running(j)' <=> Running(j))
  PROVE  LockStep
<1>1. OthersSame({})
  BY DEF OthersSame, Same, May, Open, Running, Writing
<1> QED BY <1>1, SeesNothing DEF LockStep

LEMMA RunStops ==
  ASSUME IInv, NEW j \in Jobs, UNCHANGED <<row, floored>>, agent' = [agent EXCEPT ![j] = NoAgent]
  PROVE  LockStep
<1>1. OthersSame({j}) /\ agent'[j] = NoAgent
  BY DEF IInv, TypeOK, OthersSame, Same, May, Open, Running, Writing
<1>2. ~ May(j)' /\ ~ Writing(j)' /\ (Open(j)' <=> Open(j)) /\ row'[j].file = row[j].file
  BY <1>1 DEF NoAgent, May, Running, Writing, Open
<1> QED BY <1>1, <1>2, SeesStop DEF LockStep

LEMMA NodeStepLocks ==
  ASSUME IInv, NEW j \in Jobs, NodeJobStep(j), Kinds \subseteq {"replace"}
  PROVE  LockStep
<1>1. agent \in [Jobs -> Agent] /\ agent[j] \in Agent /\ JobInv(j)
  BY DEF IInv, TypeOK, WireInv
<1>2. UNCHANGED <<row, floored>>
  BY DEF NodeJobStep, ReceiveJob, ReceiveCancel, ReceiveAbandon, ReceiveReply,
         ReceiveAck, Fetched, Wrote, Finish, Dies, Ask, dbVars, histVars
<1>3. CASE ReceiveJob(j)
  <2>1. row[j].lease.state # "committing"
    <3>1. down[j] \in Seq(DownFrame) /\ down[j] # <<>> /\ Head(down[j]).type = "job"
      BY <1>3 DEF ReceiveJob, NodeReads, IInv, TypeOK
    <3>2. Carries(down[j], "job")
      BY <3>1, FramesTaken DEF Carries
    <3> QED BY <1>1, <3>2 DEF JobInv, SentOnce
  <2>2. agent' = agent \/ (~ Running(j) /\ agent' = [agent EXCEPT ![j] = [NoAgent EXCEPT !.phase = "fetching"]])
    BY <1>3 DEF ReceiveJob
  <2>3. (\A k \in Jobs \ {j} : agent'[k] = agent[k]) /\ (Writing(j)' <=> Writing(j))
    BY <1>1, <2>2 DEF Writing, Running, NoAgent
  <2> QED BY <1>2, <2>1, <2>3, AgentSteps DEF May
<1>4. CASE ReceiveCancel(j) \/ ReceiveAbandon(j) \/ ReceiveAck(j)
  <2>1. agent' \in {agent, [agent EXCEPT ![j] = Stopped(agent[j])], [agent EXCEPT ![j] = Abandoned(agent[j])]}
    BY <1>4 DEF ReceiveCancel, ReceiveAbandon, ReceiveAck
  <2>2. /\ \A k \in Jobs \ {j} : agent'[k] = agent[k]
        /\ agent'[j] \in {agent[j], Stopped(agent[j]), Abandoned(agent[j])}
    BY <1>1, <2>1
  <2>3. /\ Stopped(agent[j]).phase = agent[j].phase
        /\ Abandoned(agent[j]).phase = agent[j].phase
           \/ (agent[j].phase = "asking" /\ Abandoned(agent[j]).phase = "refused")
    BY <1>1 DEF Stopped, Abandoned, Agent
  <2>4. (Writing(j)' <=> Writing(j)) /\ (Running(j)' <=> Running(j))
    BY <2>2, <2>3 DEF Writing, Running
  <2> QED BY <1>2, <2>2, <2>4, AgentSteps
<1>5. CASE ReceiveReply(j)
  <2> DEFINE reply == Head(down[j])
  <2>1. CASE agent' = agent
    BY <1>2, <2>1, AgentSteps DEF Writing, Running
  <2>2. CASE agent' # agent
    <3>1. /\ agent[j].phase = "asking" /\ reply.id = agent[j].commits
          /\ agent' = [agent EXCEPT ![j].phase = IF reply.granted THEN "writing" ELSE "refused"]
      BY <1>5, <2>2 DEF ReceiveReply
    <3>2. /\ \A k \in Jobs \ {j} : agent'[k] = agent[k]
          /\ agent'[j].phase = IF reply.granted THEN "writing" ELSE "refused"
      BY <1>1, <3>1 DEF Agent
    <3>3. CASE ~ reply.granted
      <4>1. (Writing(j)' <=> Writing(j)) /\ (Running(j)' <=> Running(j))
        BY <3>1, <3>2, <3>3 DEF Writing, Running
      <4> QED BY <1>2, <3>2, <4>1, AgentSteps
    <3>4. CASE reply.granted
      <4>1. GrantOut(j)
        <5>1. reply \in FramesIn(down[j]) /\ reply \in DownFrame /\ reply.type = "commit-result"
          BY <1>5, FramesTaken DEF ReceiveReply, NodeReads, IInv, TypeOK
        <5>2. reply = Reply(agent[j].commits, TRUE)
          <6> HIDE DEF reply
          <6>1. reply.granted = TRUE
            BY <3>4, <5>1 DEF DownFrame
          <6> QED BY <3>1, <5>1, <6>1 DEF DownFrame, Reply
        <5> QED BY <3>1, <5>1, <5>2 DEF GrantOut
      <4>2. agent[j].kind = "replace"
        BY <1>1, <3>1 DEF JobInv, AsksInOrder
      <4>3. May(j) \/ j \in floored
        BY <1>1, <3>1, <4>1, <4>2 DEF JobInv, CommitLasts, MayWrite, May, Running
      <4>4. OthersSame({j}) /\ Writing(j)'
        BY <1>2, <3>2, <3>4 DEF OthersSame, Same, May, Open, Running, Writing
      <4>5. (May(j)' <=> May(j)) /\ (Open(j)' <=> Open(j)) /\ row'[j].file = row[j].file
        BY <1>2, <3>1, <3>2 DEF May, Open, Running
      <4> QED BY <1>2, <4>3, <4>4, <4>5, SeesWriting DEF LockStep
    <3> QED BY <3>3, <3>4
  <2> QED BY <2>1, <2>2
<1>6. CASE \E f \in Finals : Hold(j, f)
  BY <1>2, <1>6, RunStops DEF Hold
<1>7. CASE Fetched(j) /\ ~ Hold(j, "error")
  <2>1. agent[j].phase = "fetching" /\ agent' = [agent EXCEPT ![j].phase = "working"]
    BY <1>7 DEF Fetched
  <2>2. /\ \A k \in Jobs \ {j} : agent'[k] = agent[k]
        /\ agent'[j].phase = "working"
    BY <1>1, <2>1 DEF Agent
  <2> QED BY <1>2, <2>1, <2>2, AgentSteps DEF Writing, Running
<1>8. ASSUME NEW k \in Kinds, Ask(j, k)
      PROVE  LockStep
  <2>1. /\ agent[j].phase = "working" /\ \A i \in Jobs \ {j} : agent'[i] = agent[i]
        /\ agent'[j].phase \in {"refused", "asking"}
    BY <1>1, <1>8 DEF Ask, Agent
  <2> QED BY <1>2, <2>1, AgentSteps DEF Writing, Running
<1>9. CASE Wrote(j)
  <2>1. agent[j].phase = "writing" /\ agent' = [agent EXCEPT ![j].phase = "working"]
    BY <1>9 DEF Wrote
  <2>2. /\ \A k \in Jobs \ {j} : agent'[k] = agent[k]
        /\ agent'[j].phase = "working"
    BY <1>1, <2>1 DEF Agent
  <2>3. OthersSame({j}) /\ Writing(j) /\ ~ Writing(j)'
    BY <1>2, <2>1, <2>2 DEF OthersSame, Same, May, Open, Running, Writing
  <2>4. (May(j)' <=> May(j)) /\ (Open(j)' <=> Open(j)) /\ row'[j].file = row[j].file
    BY <1>2, <2>1, <2>2 DEF May, Open, Running
  <2> QED BY <1>2, <2>3, <2>4, SeesWriting DEF LockStep
<1>10. Finish(j) \/ Dies(j) => \E f \in Finals : Hold(j, f)
  BY ConstantsAssumption DEF Finish, Dies, Finals
<1>11. Hold(j, "error") => \E f \in Finals : Hold(j, f)
  BY DEF Finals
<1> QED BY <1>3, <1>4, <1>5, <1>6, <1>7, <1>8, <1>9, <1>10, <1>11 DEF NodeJobStep

\* A hello frees the locks of the jobs it releases, none of which may write.
LEMMA HelloLocks ==
  ASSUME IInv, NEW n \in Nodes, HubHello(n)
  PROVE  LockStep
<1> DEFINE released == {j \in JobsOn(n) : ReleasedBy(j, greet[n].jobs[j])}
<1>1. released \in SUBSET Jobs /\ UNCHANGED <<agent, floored>>
  BY DEF JobsOn, HubHello, nodeVars, histVars
<1>2. ASSUME NEW j \in Jobs \ JobsOn(n)
      PROVE  row'[j] = row[j]
  BY DEF HubHello
<1>3. ASSUME NEW j \in JobsOn(n)
      PROVE  row'[j] = RowAfterHello(j, greet[n].jobs[j]) /\ j \in Jobs /\ row[j].node = n
  BY DEF HubHello, JobsOn
<1>4. ASSUME NEW j \in JobsOn(n), j \in released
      PROVE  /\ row'[j].file = row[j].file /\ Open(j) /\ row'[j].phase = "ended"
             /\ ~ (Running(j) /\ row[j].lease.state = "committing")
  <2> DEFINE s == greet[n].jobs[j]
  <2>1. /\ JobInv(j) /\ HelloIsTrue(n, j) /\ row[j] \in Row /\ greet[n].stage = "hello"
        /\ j \in Jobs /\ row[j].node = n
    BY <1>3 DEF IInv, WireInv, HelloInv, TypeOK, HubHello
  <2>2. row'[j] = [row[j] EXCEPT !.phase = "ended", !.lease = Expired(j)]
    BY <1>3, <1>4, HelloRow
  <2>3. row'[j].file = row[j].file /\ row'[j].phase = "ended"
    BY <2>1, <2>2 DEF Row
  <2>4. Live(j) /\ Open(j) /\ s \in {"lost", "none", "running"} /\ (s = "running" => ~ Continues(j, s))
    BY <1>4 DEF ReleasedBy, Live, Leased
  <2>5. CASE s = "running"
    <3>1. row[j].lease \in Lease
      BY <2>1, <2>4, LeasedType DEF Live, IInv
    <3>2. LeaseOnReconnect(row[j].lease).state = "expired" /\ row[j].lease.state # "expired"
      BY <2>4, <2>5 DEF Continues, Live
    <3>3. row[j].lease.state # "committing"
      BY <3>1, <3>2 DEF LeaseOnReconnect, LeaseIsExpired
    <3> QED BY <2>3, <2>4, <3>3
  <2>6. CASE s # "running"
    <3>1. ~ Running(j) \/ agent[j].abandoned
      BY <2>1, <2>6 DEF HelloIsTrue
    <3>2. ~ agent[j].abandoned
      BY <2>1, <2>4 DEF JobInv, GivenUp, Open
    <3> QED BY <2>3, <2>4, <3>1, <3>2
  <2> QED BY <2>5, <2>6
<1>5. ASSUME NEW j \in JobsOn(n), j \notin released
      PROVE  /\ row'[j].file = row[j].file /\ row'[j].phase = row[j].phase
             /\ row'[j].lease.state = "committing" <=> row[j].lease.state = "committing"
  <2> DEFINE s == greet[n].jobs[j]
             l == LeaseOnReconnect(row[j].lease)
  <2>1. row[j] \in Row /\ ~ ReleasedBy(j, s) /\ j \in Jobs
    BY <1>3, <1>5 DEF IInv, TypeOK
  <2>2. CASE Continues(j, s)
    <3>1. row'[j] = [row[j] EXCEPT !.lease = l]
      BY <1>3, <2>1, <2>2, HelloRow
    <3>2. row[j].lease \in Lease /\ l.state # "expired"
      BY <2>1, <2>2, LeasedType DEF Continues, Live, IInv
    <3>3. row[j].lease.state = "committing" <=> l.state = "committing"
      BY <3>2 DEF LeaseOnReconnect, LeaseIsExpired, LeaseOnClaim, Lease
    <3> HIDE DEF l
    <3> QED BY <2>1, <3>1, <3>3 DEF Row
  <2>3. CASE ~ Continues(j, s) /\ Delivers(j, s) /\ row[j].lease.state = "grace"
    <3>1. row'[j] = [row[j] EXCEPT !.lease = LeaseOnClaim]
      BY <1>3, <2>1, <2>3 DEF RowAfterHello
    <3> QED BY <2>1, <2>3, <3>1 DEF Row, LeaseOnClaim
  <2>4. CASE ~ Continues(j, s) /\ ~ (Delivers(j, s) /\ row[j].lease.state = "grace")
    BY <1>3, <2>1, <2>4 DEF RowAfterHello
  <2> QED BY <2>2, <2>3, <2>4
<1> HIDE DEF released
<1>6. OthersSame(released)
  <2> SUFFICES ASSUME NEW j \in Jobs \ released
               PROVE  Same(j)
    BY DEF OthersSame
  <2>1. CASE j \in JobsOn(n)
    BY <1>1, <1>5, <2>1 DEF Same, May, Open, Running, Writing
  <2>2. CASE j \notin JobsOn(n)
    BY <1>1, <1>2, <2>2 DEF Same, May, Open, Running, Writing
  <2> QED BY <2>1, <2>2
<1>7. ASSUME NEW j \in released
      PROVE  /\ row'[j].file = row[j].file /\ Open(j) /\ ~ Open(j)'
             /\ ~ May(j) /\ (Writing(j)' <=> Writing(j))
  <2>1. j \in JobsOn(n)
    BY DEF released
  <2> QED BY <1>1, <1>4, <2>1 DEF May, Open, Writing
<1> QED BY <1>1, <1>6, <1>7, SeesFree DEF LockStep

\* Steps that touch neither the agents nor, but for leases that are not
\* committing and stay so, the rows.
LEMMA QuietLocks ==
  ASSUME \A j \in Jobs : /\ row'[j].file = row[j].file /\ row'[j].phase = row[j].phase
                         /\ row'[j].lease.state = "committing" <=> row[j].lease.state = "committing"
                         /\ agent'[j].phase = agent[j].phase
                            \/ (agent[j].phase = "asking" /\ agent'[j].phase = "refused"),
         UNCHANGED floored
  PROVE  LockStep
<1>1. OthersSame({})
  BY DEF OthersSame, Same, May, Open, Running, Writing
<1> QED BY <1>1, SeesNothing DEF LockStep

LEMMA GreetingLocks ==
  ASSUME IInv, NEW n \in Nodes, Connect(n) \/ Welcomed(n)
  PROVE  LockStep
<1>1. UNCHANGED <<row, floored>>
  BY DEF Connect, Welcomed, dbVars, histVars
<1>2. ASSUME NEW j \in Jobs
      PROVE  agent'[j].phase = agent[j].phase
             \/ (agent[j].phase = "asking" /\ agent'[j].phase = "refused")
  <2>1. agent'[j] \in {agent[j], Abandoned(agent[j])}
    BY DEF Connect, Welcomed, IInv, TypeOK
  <2>2. agent[j] \in Agent
    BY DEF IInv, TypeOK
  <2>3. Abandoned(agent[j]).phase = agent[j].phase
        \/ (agent[j].phase = "asking" /\ Abandoned(agent[j]).phase = "refused")
    BY <2>2 DEF Stopped, Abandoned, Agent
  <2> QED BY <2>1, <2>3
<1> QED BY <1>1, <1>2, QuietLocks

LEMMA EnvironmentLocks ==
  ASSUME IInv, Environment
  PROVE  LockStep
<1>1. row \in [Jobs -> Row]
  BY DEF IInv, TypeOK
<1>2. ASSUME NEW j \in Jobs, OperatorCancel(j)
      PROVE  LockStep
  <2> DEFINE R == [row[j] EXCEPT !.cancel = TRUE]
  <2>1. row' = [row EXCEPT ![j] = R] /\ UNCHANGED <<agent, floored>>
    BY <1>2 DEF OperatorCancel, nodeVars, histVars
  <2>2. R.file = row[j].file /\ R.phase = row[j].phase /\ R.lease = row[j].lease
    BY <1>1 DEF Row
  <2> HIDE DEF R
  <2> QED BY <2>1, <2>2, LeaseSteps
<1>3. ASSUME NEW j \in Jobs, CrashInRelease(j)
      PROVE  LockStep
  <2> DEFINE R == [row[j] EXCEPT !.lease = Expired(j)]
  <2>1. row' = [row EXCEPT ![j] = R] /\ UNCHANGED <<agent, floored>>
    BY <1>3 DEF CrashInRelease, DaemonGone, nodeVars
  <2>2. Expired(j).state = "expired" /\ row[j].lease.state = "grace"
    BY <1>3, LeasedType DEF CrashInRelease, LeaseIsExpired, Expired, Lease, IInv
  <2>3. R.file = row[j].file /\ R.phase = row[j].phase /\ R.lease = Expired(j)
    BY <1>1 DEF Row
  <2> HIDE DEF R
  <2> QED BY <2>1, <2>2, <2>3, LeaseSteps
<1>4. ASSUME NEW n \in Nodes, HubClose(n)
      PROVE  LockStep
  <2>1. UNCHANGED <<agent, floored>>
    BY <1>4 DEF HubClose, nodeVars
  <2>2. ASSUME NEW j \in Jobs
        PROVE  /\ row'[j].file = row[j].file /\ row'[j].phase = row[j].phase
               /\ row'[j].lease.state = "committing" <=> row[j].lease.state = "committing"
    <3> DEFINE l == LeaseOnDisconnect(row[j].lease)
    <3>1. row[j] \in Row /\ row'[j] \in {row[j], [row[j] EXCEPT !.lease = l]}
      BY <1>1, <1>4 DEF HubClose
    <3>2. row[j].lease.state = "committing" <=> l.state = "committing"
      BY DEF LeaseOnDisconnect
    <3> HIDE DEF l
    <3> QED BY <3>1, <3>2 DEF Row
  <2> QED BY <2>1, <2>2, QuietLocks
<1>5. ASSUME NEW n \in Nodes, NodeCrash(n)
      PROVE  LockStep
  <2>1. UNCHANGED <<row, floored>> /\ JobsOn(n) \in SUBSET Jobs
    BY <1>5 DEF NodeCrash, dbVars, JobsOn
  <2>2. \A j \in Jobs : agent'[j] = IF j \in JobsOn(n) THEN NoAgent ELSE agent[j]
    BY <1>5 DEF NodeCrash, JobsOn
  <2>3. OthersSame(JobsOn(n))
    BY <2>1, <2>2 DEF OthersSame, Same, May, Open, Running, Writing
  <2>4. \A j \in JobsOn(n) : /\ row'[j].file = row[j].file /\ (Open(j)' <=> Open(j))
                             /\ ~ May(j)' /\ ~ Writing(j)'
    BY <2>1, <2>2 DEF NoAgent, May, Open, Running, Writing
  <2> QED BY <2>1, <2>3, <2>4, SeesStop DEF LockStep
<1>6. CASE \/ \E j \in Jobs : StatHangs(j)
           \/ \E f \in Files : Requeue(f) \/ CrashInClaim(f)
           \/ \E n \in Nodes : NodeDrop(n)
           \/ DaemonCrash
  <2>1. UNCHANGED <<row, agent, floored>>
    BY <1>6 DEF StatHangs, Requeue, CrashInClaim, NodeDrop, DaemonCrash, DaemonGone,
                dbVars, nodeVars, histVars
  <2> QED BY <2>1, QuietLocks
<1> QED BY <1>2, <1>3, <1>4, <1>5, <1>6 DEF Environment

\* Every step of the protocol is a step of the locks, or none.
LEMMA StepRefines ==
  ASSUME IInv, [Next]_vars, Kinds \subseteq {"replace"}
  PROVE  LockStep
<1>1. CASE \E f \in Files, n \in Nodes, j \in Jobs : Claim(f, n, j)
  BY <1>1, ClaimAcquires
<1>2. CASE \E j \in Jobs : ServerJobStep(j) \/ NodeJobStep(j)
  BY <1>2, ServerStepLocks, NodeStepLocks
<1>3. CASE \E n \in Nodes : Connect(n) \/ HubHello(n) \/ Welcomed(n)
  BY <1>3, GreetingLocks, HelloLocks
<1>4. CASE (\E f \in Files : ReapOrphan(f)) \/ DaemonStart \/ DaemonReady \/ UNCHANGED vars
  <2>1. UNCHANGED <<row, agent, floored>>
    BY <1>4 DEF ReapOrphan, DaemonStart, DaemonReady, vars, dbVars, nodeVars, histVars
  <2> QED BY <2>1, QuietLocks
<1>5. CASE Environment
  BY <1>5, EnvironmentLocks
<1> QED BY <1>1, <1>2, <1>3, <1>4, <1>5 DEF Next

\* Where every write is a replacement, the protocol implements FileOwnership:
\* a lock per file, a permission only its holder is given, and no lock freed
\* under a permission, through every failure - but for the 24 hour floor.
THEOREM Refinement ==
  ASSUME Kinds \subseteq {"replace"}
  PROVE  Spec => ImplementsOwnership
<1>1. Init => Ownership!Init
  BY DEF Init, Ownership!Init, UnusedRow, NoAgent, Open, Writing
<1>2. IInv /\ [Next]_vars => [Ownership!Next]_Ownership!vars
  BY StepRefines DEF LockStep
<1> QED BY WireHolds, <1>1, <1>2, PTL DEF Spec, ImplementsOwnership, Ownership!Spec

=============================================================================
