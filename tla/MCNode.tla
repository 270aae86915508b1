------------------------------- MODULE MCNode -------------------------------
(***************************************************************************)
(* What a node (or the daemon) does to run one job, one part at a time:    *)
(* the bundles it fetches, the process it forks, the flow that runs in it  *)
(* and what the flow does to the file.  A behaviour is one part at work;   *)
(* the others stay as they begin, in a state in which nothing is due.      *)
(***************************************************************************)
EXTENDS BundleCache, Sequences

CONSTANTS Casts, Wirings, MaxSteps, Library, Recipes, MaxPasses

\* A flow names its nodes by their place in it.
ASSUME FlowAssumption ==
  /\ MaxSteps \in Nat
  /\ \A kinds \in Casts : kinds \in Seq({"start", "verify", "replace", "fail", "hold", "onError",
                                          "recover", "handler", "community", "broken"})

VARIABLES
  part,
  proc, group, aborted, inbox, pipe, handle, wrote, daemonUp,
  flow, mode, at, steps, last, errorVars, handlerUsed, gate, library, installed,
  replaces, open, touched, ended,
  original, media, recipe, stage, command, output, pass

Agent == INSTANCE LocalAgent
Flow  == INSTANCE RunFlow
Plan  == INSTANCE MediaPlan

agentVars == <<proc, group, aborted, inbox, pipe, handle, wrote, daemonUp>>
flowVars  == <<flow, mode, at, steps, last, errorVars, handlerUsed, gate, library, installed,
               replaces, open, touched, ended>>
planVars  == <<original, media, recipe, stage, command, output, pass>>
nodeVars  == <<part, vars, agentVars, flowVars, planVars>>

NodeInit ==
  /\ part \in {"bundles", "agent", "flow", "plan"}
  /\ Init /\ Agent!AgentInit
  /\ IF part = "flow" THEN Flow!RunInit
     ELSE /\ flow = [kind |-> << >>, edges |-> {}] /\ mode = "real" /\ at = 0 /\ steps = 0
          /\ last = Flow!NoStep /\ errorVars = "none" /\ handlerUsed = FALSE /\ gate = "granted"
          /\ library = "old" /\ installed = FALSE /\ replaces = << >> /\ open = FALSE
          /\ touched = FALSE /\ ended = Flow!Report("rejected", "none", FALSE, "none")
  /\ IF part = "plan" THEN Plan!MediaInit
     ELSE /\ original = << >> /\ media = << >> /\ recipe = << >> /\ stage = "failed"
          /\ command = Plan!NoCommand /\ output = << >> /\ pass = MaxPasses

NodeNext ==
  \/ part = "bundles" /\ Next /\ UNCHANGED <<part, agentVars, flowVars, planVars>>
  \/ part = "agent" /\ Agent!AgentNext /\ UNCHANGED <<part, vars, flowVars, planVars>>
  \/ part = "flow" /\ Flow!RunNext /\ UNCHANGED <<part, vars, agentVars, planVars>>
  \/ part = "plan" /\ Plan!MediaNext /\ UNCHANGED <<part, vars, agentVars, flowVars>>

NodeSpec ==
  NodeInit /\ [][NodeNext]_nodeVars /\ Fairness /\ Agent!AgentFairness /\ Flow!RunFairness

\* Flows of three nodes: the edges of each leave through one of its outputs.
EdgesFrom(n, out, targets) == {{}} \cup {{<<n, out, to>>} : to \in targets}
MCWirings ==
  {e1 \cup e2 \cup e3 \cup e4 \cup e5 :
     e1 \in EdgesFrom(1, 1, {2, 3}), e2 \in EdgesFrom(2, 1, {3, 4}),
     e3 \in EdgesFrom(2, 2, {3}), e4 \in EdgesFrom(3, 1, {2}), e5 \in EdgesFrom(3, 2, {2})}
\* The first node a start, a stranger or one that does not load, the others anything.
AnyKind == {"start", "verify", "replace", "fail", "hold", "onError", "recover", "handler",
            "community", "broken"}
MCCasts == {<<a, b, c>> : a \in {"start", "community", "broken"}, b \in AnyKind, c \in AnyKind}

\* Files: a film, its poster, sound in spellings a probe finds, subtitles.
Stream(id, type, codec, lang, ch, dur) ==
  [id |-> id, type |-> type, codec |-> codec, lang |-> lang, ch |-> ch, dur |-> dur,
   default |-> FALSE, forced |-> FALSE, comment |-> FALSE, pic |-> FALSE, ok |-> TRUE]
Film(codec) == Stream(1, "video", codec, "und", 0, 4)
Poster(ok)  == [Stream(2, "video", "mjpeg", "und", 0, 0) EXCEPT !.pic = TRUE, !.ok = ok]
English     == [Stream(3, "audio", "dts", "english", 6, 4) EXCEPT !.default = TRUE]
Dub         == Stream(4, "audio", "aac", "jpn", 2, 6)
Commentary  == [Stream(5, "audio", "aac", "en", 2, 4) EXCEPT !.comment = TRUE]
Nameless(ok) == [Stream(6, "audio", "aac", "und", 2, 0) EXCEPT !.ok = ok]
Titles(codec) == <<Stream(7, "subtitle", codec, "en", 0, 4),
                   [Stream(8, "subtitle", codec, "jpn", 0, 2) EXCEPT !.forced = TRUE]>>
Files(c, films, sounds, titles) ==
  {[container |-> c, streams |-> f \o s \o t] : f \in films, s \in sounds, t \in titles}
MCLibrary ==
  Files("mkv", {<<Film("h264")>>, <<Film("hevc"), Poster(FALSE)>>, <<Film("h264"), Poster(TRUE)>>,
                <<Poster(TRUE), Film("h264")>>},
        {<< >>, <<Dub, English>>, <<Dub, Commentary>>, <<Nameless(TRUE), Dub>>,
         <<Nameless(FALSE), English>>}, {Titles("subrip")})
  \cup Files("mp4", {<<Film("h264")>>, <<Film("hevc"), Poster(TRUE)>>},
             {<<Dub, Commentary>>, <<Nameless(FALSE), Dub>>}, {<< >>, Titles("mov_text")})

Recipe(codec, audio, filter, subtitles, container) ==
  [codec |-> codec, overall |-> codec # "none", languages |-> audio[1], default |-> audio[2],
   stereo |-> audio[3], filter |-> filter, subtitles |-> subtitles,
   container |-> container[1], drop |-> container[2]]
MCRecipes ==
  {Recipe(codec, audio, rest[1], rest[2], container) :
     codec \in {"none", "hevc"},
     audio \in {<<{}, "none", "none">>, <<{"eng"}, "eng", "add">>, <<{}, "eng", "convert">>, <<{}, "eng", "add">>},
     rest \in {<<{}, "all">>, <<{"eng"}, "forced">>},
     container \in {<<"none", FALSE>>, <<"mkv", TRUE>>, <<"mp4", TRUE>>}}

-----------------------------------------------------------------------------

\* Every part keeps the types of its variables.
NodeTypeOK == TypeOK /\ Agent!AgentTypeOK /\ (part = "flow" => Flow!RunTypeOK)
              /\ (part = "plan" => Plan!MediaTypeOK)

\* A bundle has one owner at a time and stays while a job holds it, and an idle cache
\* fits (BundleCache).
BundlesAreKept == HeldBundleStays /\ [](OneWriterPerBundle /\ IdleCacheFits)

\* No report in the pipe of a worker is lost, and nothing of the group of a cancelled one
\* runs on (LocalAgent).
ReportIsKept == Agent!ReportIsKept /\ Agent!CancelledGroupIsGone

\* A run ends once, no job follows a cancel (LocalAgent), and a refused commit ends the run
\* (RunFlow).
RunEndsOnce == Agent!RunEndsOnce /\ Agent!NoJobAfterCancel /\ Flow!RefusalEndsTheRun

\* What a report says of the run it is about, and that a flow which was accepted runs
\* and a preview of it touches nothing (RunFlow).
ReportIsTrue ==
  Flow!ReplacedIsReported /\ Flow!SuccessIsEarned /\ Flow!DryRunTouchesNothing /\ Flow!AcceptedFlowsRun

\* The command ffmpeg is given does what the nodes of a flow asked of each stream, a file it
\* would leave as it is is the only one that is skipped, and a flow replaces a file once
\* (MediaPlan).
CommandIsTrue == [](part = "plan" => Plan!CommandIsObeyed /\ Plan!SkipIsTrue) /\ Plan!OncePerFile

\* Nothing a flow was not told to remove is lost from a library file (MediaPlan).
NothingIsLost == part = "plan" => Plan!NothingIsLost

\* A fetch, a stopped worker, a worker without a daemon and a run all end (BundleCache,
\* LocalAgent, RunFlow).
NothingHangs ==
  EveryFetchEnds /\ Agent!StoppedRunEnds /\ Agent!NoOrphanWorker /\ Flow!EveryRunEnds
=============================================================================
