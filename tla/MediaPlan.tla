------------------------------ MODULE MediaPlan ------------------------------
(***************************************************************************)
(* What a flow does to a media file: the command its nodes build           *)
(* (plugins-core), the no-op gate and the compiler (core/ffmpeg-noop.ts,   *)
(* core/ffmpeg-compile.ts), the Execute node and Verify Output             *)
(* (engine/executor), over as many passes as the ledger would make.        *)
(*                                                                         *)
(* A file is a container and a sequence of streams.  One flow has every    *)
(* node that changes a command, in one order: check and set the video      *)
(* encoder, audio, a filter of the community, subtitles, container; then   *)
(* Execute, Verify, size and Replace as the templates wire them            *)
(* (server/flow/templates.ts).  A recipe says which of them are there and  *)
(* how they are set.                                                       *)
(*                                                                         *)
(* ffmpeg is modelled by what the code and its tests say it does: it reads *)
(* its arguments by the last matching specifier, Matroska forgets that a   *)
(* stream is a picture, mp4 puts pictures last, a muxer refuses what it    *)
(* cannot hold, and a run may stop early and call that success.            *)
(*                                                                         *)
(* Abstracted: quality, bit rates, caps, filters, sizes in bytes (a size   *)
(* check may go either way), titles, and the spelling of arguments.        *)
(***************************************************************************)
EXTENDS Naturals, Sequences, FiniteSets, TLC
LOCAL INSTANCE FiniteSetsExt
LOCAL INSTANCE SequencesExt

CONSTANTS
  Library,     \* the files a library may hold
  Recipes,     \* the flows
  MaxPasses    \* bound: passes of the flow over one file

VARIABLES
  original,    \* the file as it was found
  media,       \* the library file now
  recipe,      \* the flow
  stage,       \* the node to run next, or how the pass ended
  command,     \* ffmpegCommand: its streams, its container, overall arguments
  output,      \* what Execute wrote, or the file itself when it wrote nothing
  pass         \* passes so far

mvars == <<original, media, recipe, stage, command, output, pass>>

Ends   == {"installed", "unchanged", "kept", "failed"}
Stages == {"encoder", "filter", "audio", "subtitle", "container", "execute", "running",
           "verify", "replace"} \cup Ends

-----------------------------------------------------------------------------
(* Streams.                                                                *)

\* A language as probes spell it, and as normalizeLanguageTag does.
Canonical == [l \in {"eng", "en", "english", "jpn", "und"} |->
                IF l \in {"en", "english"} THEN "eng" ELSE l]
Language(s) == Canonical[s.lang]

\* unmappableStreamReason: no codec, or dimensions no container can write.
Mappable(s) == s.ok

\* beginFfmpegCommand: a picture is an attachment to every node that follows.
Seed(s, i) ==
  [s EXCEPT !.type = IF s.pic THEN "attachment" ELSE @] @@
  [index |-> i, removed |-> FALSE, force |-> FALSE, enc |-> "none", ac |-> 0, tagged |-> FALSE]

BeginCommand(m) ==
  [container |-> m.container, overall |-> FALSE,
   streams |-> [i \in DOMAIN m.streams |-> Seed(m.streams[i], i)]]

Of(type, cs) == {i \in DOMAIN cs : cs[i].type = type /\ ~ cs[i].removed}

Edit(cs, I, E(_)) == [i \in DOMAIN cs |-> IF i \in I THEN E(cs[i]) ELSE cs[i]]

Drop(cs, I) == Edit(cs, I, LAMBDA s : [s EXCEPT !.removed = TRUE])

\* preferredTrack: 0 when there is none.
PreferredTrack(cs, I) ==
  LET plain  == {i \in I : ~ cs[i].comment}
      marked == {i \in I : cs[i].default}
      ranked == <<plain \cap marked, plain, marked, I>>
      usable == {k \in DOMAIN ranked : ranked[k] # {}} IN
    IF usable = {} THEN 0 ELSE Min(ranked[Min(usable)])

\* Mutant: Every track is labelled, whatever its label is.
ChooseDefaultAgain(cs, I, language) ==
  LET chosen == PreferredTrack(cs, {i \in I : Language(cs[i]) = language}) IN
    IF language = "none" \/ chosen = 0 THEN cs
    ELSE [i \in DOMAIN cs |->
            IF i \in I THEN [cs[i] EXCEPT !.default = (i = chosen), !.tagged = TRUE] ELSE cs[i]]

\* chooseDefault: one default track in the language, if it has any.
ChooseDefault(cs, I, language) ==
  LET chosen == PreferredTrack(cs, {i \in I : Language(cs[i]) = language}) IN
    IF language = "none" \/ chosen = 0 THEN cs
    ELSE [i \in DOMAIN cs |->
            IF i \in I /\ cs[i].default # (i = chosen)
              THEN [cs[i] EXCEPT !.default = (i = chosen), !.tagged = TRUE]
              ELSE cs[i]]

Kept(cs, I, languages) ==
  IF languages = {} THEN I ELSE {i \in I : Language(cs[i]) \in languages}

-----------------------------------------------------------------------------
(* The nodes.                                                              *)

VideoCodec(m) ==
  LET videos == {i \in DOMAIN m.streams : m.streams[i].type = "video"} IN
    IF videos = {} THEN "none" ELSE m.streams[Min(videos)].codec

\* Check Video Codec, which reads the first video stream, a picture or not;
\* then Set Video Encoder and, in one template, overall arguments for it.
SetVideoEncoder(c, m) ==
  IF recipe.codec \in {"none", VideoCodec(m)} THEN c
  ELSE [c EXCEPT
         !.streams = Edit(@, Of("video", @), LAMBDA s : [s EXCEPT !.enc = recipe.codec,
                                                                  !.force = TRUE]),
         !.overall = @ \/ recipe.overall]

\* Remove Stream By Property (community): audio in no listed language goes,
\* all of it if none is listed; an untagged track is never judged.
RemoveByProperty(cs) ==
  IF recipe.filter = {} THEN cs
  ELSE Drop(cs, {i \in Of("audio", cs) : Language(cs[i]) \notin recipe.filter \cup {"und"}})

StereoAac(s) == (IF s.enc = "none" THEN s.codec ELSE s.enc) = "aac" /\ s.ch = 2

ConvertStereo(s) == [s EXCEPT !.codec = "aac", !.ch = 2, !.force = TRUE, !.enc = "aac", !.ac = 2]

AddStereo(s) == [ConvertStereo(s) EXCEPT !.default = FALSE, !.tagged = TRUE]

EnsureStereo(cs, usable) ==
  LET matching == {i \in usable : Language(cs[i]) = recipe.default}
      source   == PreferredTrack(cs, IF matching = {} THEN usable ELSE matching)
      has      == \E i \in usable : /\ StereoAac(cs[i])
                                    /\ Language(cs[i]) = Language(cs[source])
                                    /\ cs[i].comment = cs[source].comment IN
    IF source = 0 \/ has THEN cs
    ELSE IF recipe.stereo = "convert" THEN [cs EXCEPT ![source] = ConvertStereo(@)]
    ELSE Append(cs, AddStereo(cs[source]))

\* Audio Tracks refuses to remove every usable track.
AudioTracksThrows(cs) ==
  LET active == {i \in Of("audio", cs) : Mappable(cs[i])} IN
    active # {} /\ Kept(cs, active, recipe.languages) = {}

AudioTracks(cs) ==
  LET active   == Of("audio", cs)
      retained == Kept(cs, active, recipe.languages)
      chosen   == ChooseDefault(Drop(cs, active \ retained), retained, recipe.default) IN
    IF recipe.stereo = "none" THEN chosen
    ELSE EnsureStereo(chosen, {i \in retained : Mappable(cs[i])})

SubtitleTracks(cs) ==
  LET retained == CASE recipe.subtitles = "none"   -> {}
                    [] recipe.subtitles = "forced" -> {i \in Of("subtitle", cs) : cs[i].forced}
                    [] OTHER                       -> Of("subtitle", cs) IN
    ChooseDefault(Drop(cs, Of("subtitle", cs) \ retained), retained, recipe.default)

-----------------------------------------------------------------------------
(* The compiler and the no-op gate.                                        *)

\* guardStreamRemoval: removals of audio the host does not honour.
Guarded(cs) ==
  LET writable == {i \in DOMAIN cs : Mappable(cs[i])}
      audio    == {i \in writable : cs[i].type = "audio"} IN
    IF (\A i \in writable : cs[i].removed) \/ \E i \in audio : ~ cs[i].removed
      THEN {} ELSE audio

Surviving(cs) == {i \in DOMAIN cs : ~ cs[i].removed \/ i \in Guarded(cs)}

\* mappableStreams: what will be written, in this order.
Written(cs) == {i \in Surviving(cs) : Mappable(cs[i])}

\* Mutant: Labels survive a copy, so they are no change.
NoChangeBesidesLabels(c, m) ==
  /\ m.streams # << >> /\ c.container = m.container /\ ~ c.overall
  /\ Surviving(c.streams) = DOMAIN c.streams /\ Written(c.streams) = DOMAIN c.streams
  /\ Len(c.streams) = Len(m.streams)
  /\ \A i \in DOMAIN c.streams :
       LET s == c.streams[i] IN s.index = i /\ ~ s.force /\ s.enc = "none"

\* describeCommandChanges finds nothing: the command is a copy of the file.
NoChange(c, m) ==
  /\ m.streams # << >> /\ c.container = m.container /\ ~ c.overall
  /\ Surviving(c.streams) = DOMAIN c.streams /\ Written(c.streams) = DOMAIN c.streams
  /\ Len(c.streams) = Len(m.streams)
  /\ \A i \in DOMAIN c.streams :
       LET s == c.streams[i] IN s.index = i /\ ~ s.force /\ s.enc = "none" /\ ~ s.tagged

\* What each container holds, as Set Container and the muxers have it.
Holds(container, type, codec) ==
  \/ type = "attachment" /\ container = "mkv"
  \/ type = "video" /\ codec \in {"h264", "hevc", "mjpeg"}
  \/ type = "audio" /\ codec \in {"aac", "dts"} \ (IF container = "mp4" THEN {"dts"} ELSE {})
  \/ type = "subtitle" /\ codec = (IF container = "mkv" THEN "subrip" ELSE "mov_text")

OutputCodec(s) == IF s.enc = "none" THEN s.codec ELSE s.enc

\* Streams Set Container finds unfit, the ones it may drop, and what is left.
Unfit(c) ==
  {i \in Written(c.streams) :
     LET s == c.streams[i] IN
       IF s.pic THEN recipe.container # "mp4"
                ELSE ~ Holds(recipe.container, s.type, OutputCodec(s))}
Droppable(c) ==
  {i \in Unfit(c) : recipe.drop /\ (c.streams[i].pic \/ c.streams[i].type \notin {"video", "audio"})}

SetContainerIdle(c, m) ==
  recipe.container = "none" \/ (recipe.container = c.container /\ NoChange(c, m))

SetContainer(c) ==
  [c EXCEPT !.container = recipe.container, !.streams = Drop(@, Droppable(c))]

\* Arguments of one written stream n, then a copy directive where it needs one.
NeedsEncode(s) == s.force \/ s.enc # "none"
Arg(opt, at, val) == [opt |-> opt, at |-> at, val |-> val]

\* Mutant: Copies are addressed by the position in the input.
CopyByInput(s, n) == Arg("c", s.index, "copy")

CopyOf(s, n) == Arg("c", n, "copy")

ArgsOf(s, n, encodes) ==
  <<Arg("map", 0, s.index)>>
  \o (IF s.enc # "none" THEN <<Arg("c", n, s.enc)>> ELSE << >>)
  \o (IF s.ac # 0 THEN <<Arg("ac", n, s.ac)>> ELSE << >>)
  \o (IF s.tagged THEN <<Arg("default", n, s.default)>> ELSE << >>)
  \o (IF encodes /\ ~ NeedsEncode(s) THEN <<CopyOf(s, n)>> ELSE << >>)

WrittenSeq(cs) == SelectSeq(cs, LAMBDA s : s \in {cs[i] : i \in Written(cs)})

\* compileFfmpegArgs.  The copy of everything stands only when nothing encodes.
Compile(cs) ==
  LET kept    == WrittenSeq(cs)
      encodes == \E n \in DOMAIN kept : NeedsEncode(kept[n]) IN
    FlattenSeq([n \in DOMAIN kept |-> ArgsOf(kept[n], n, encodes)])
    \o (IF encodes THEN << >> ELSE <<Arg("c", 0, "copy")>>)

-----------------------------------------------------------------------------
(* ffmpeg.                                                                 *)

\* The last argument for output stream n wins; 0 addresses every stream.
LastFor(argv, opt, n, none) ==
  LET fits == {k \in DOMAIN argv : argv[k].opt = opt /\ argv[k].at \in {0, n}} IN
    IF fits = {} THEN none ELSE argv[Max(fits)].val

\* Matroska drops the disposition of a picture, mp4 surfaces pictures last.
Mux(container, streams) ==
  IF container = "mkv" THEN [n \in DOMAIN streams |-> [streams[n] EXCEPT !.pic = FALSE]]
  ELSE SelectSeq(streams, LAMBDA s : ~ s.pic) \o SelectSeq(streams, LAMBDA s : s.pic)

Encoded(m, argv, container) ==
  LET maps == SelectSeq(argv, LAMBDA a : a.opt = "map")
      stream(n) ==
        LET src   == m.streams[maps[n].val]
            codec == LastFor(argv, "c", n, "muxer's choice") IN
          [src EXCEPT !.codec   = IF codec = "copy" THEN @ ELSE codec,
                      !.ch      = LastFor(argv, "ac", n, @),
                      !.default = LastFor(argv, "default", n, @)] IN
    [container |-> container, streams |-> Mux(container, [n \in DOMAIN maps |-> stream(n)])]

MuxerTakes(m) ==
  \A n \in DOMAIN m.streams :
    LET s == m.streams[n] IN s.ok /\ Holds(m.container, s.type, s.codec)

\* ffmpeg met a corrupt region and stopped: every track is short, or unreadable.
Shortened(m, to) ==
  [m EXCEPT !.streams = [n \in DOMAIN @ |-> [@[n] EXCEPT !.dur = IF @ > to THEN to ELSE @]]]

-----------------------------------------------------------------------------
(* Verify Output.                                                          *)

\* The longest track of a type that is no picture; 0 when nothing says.
LongestOf(m, type) ==
  Max({0} \cup {m.streams[n].dur : n \in {k \in DOMAIN m.streams :
                                    m.streams[k].type = type /\ ~ m.streams[k].pic}})

ContainerDuration(m) == Max({0} \cup {m.streams[n].dur : n \in DOMAIN m.streams})

\* compareDurations: the first clock both files have.
Clock(out, m) ==
  LET clocks == <<<<LongestOf(out, "video"), LongestOf(m, "video")>>,
                  <<LongestOf(out, "audio"), LongestOf(m, "audio")>>,
                  <<ContainerDuration(out), ContainerDuration(m)>>>>
      both   == {k \in DOMAIN clocks : clocks[k][1] > 0 /\ clocks[k][2] > 0} IN
    IF both = {} THEN <<0, 0>> ELSE clocks[Min(both)]

Tolerance == 1

HasAudio(m) == \E n \in DOMAIN m.streams : m.streams[n].type = "audio"

\* Mutant: A length nobody can read is no reason to refuse.
VerifiedUntimed(out, m, c) ==
  LET clock == Clock(out, m) IN
    /\ out.streams # << >>
    /\ Len(out.streams) >= Cardinality(Written(c.streams))
    /\ HasAudio(m) => HasAudio(out)
    /\ clock[1] <= clock[2] + Tolerance /\ clock[2] <= clock[1] + Tolerance

Verified(out, m, c) ==
  LET clock == Clock(out, m) IN
    /\ out.streams # << >>
    /\ Len(out.streams) >= Cardinality(Written(c.streams))
    /\ HasAudio(m) => HasAudio(out)
    /\ clock[1] > 0 /\ clock[2] > 0
    /\ clock[1] <= clock[2] + Tolerance /\ clock[2] <= clock[1] + Tolerance

-----------------------------------------------------------------------------
(* A pass.                                                                 *)

NoCommand == [container |-> "none", overall |-> FALSE, streams |-> << >>]

MediaInit ==
  /\ original \in Library /\ media = original /\ recipe \in Recipes
  /\ stage = "encoder" /\ command = BeginCommand(media) /\ output = media /\ pass = 1

\* One node of the flow: it edits the command, or throws and the pass fails.
Node(from, to, throws, c) ==
  /\ stage = from
  /\ \/ throws /\ stage' = "failed" /\ UNCHANGED command
     \/ ~ throws /\ stage' = to /\ command' = c
  /\ UNCHANGED <<original, media, recipe, output, pass>>

WithStreams(cs) == [command EXCEPT !.streams = cs]

CheckAndSetEncoder == Node("encoder", "audio", FALSE, SetVideoEncoder(command, media))
RunAudio    == Node("audio", "filter", AudioTracksThrows(command.streams),
                    WithStreams(AudioTracks(command.streams)))
RunFilter   == Node("filter", "subtitle", FALSE, WithStreams(RemoveByProperty(command.streams)))
RunSubtitle == Node("subtitle", "container", FALSE, WithStreams(SubtitleTracks(command.streams)))
RunContainer ==
  IF SetContainerIdle(command, media)
    THEN Node("container", "execute", FALSE, command)
    ELSE Node("container", "execute", Unfit(command) # Droppable(command), SetContainer(command))

\* The gate skips a copy; the compiler refuses a file of no streams.
Execute ==
  /\ stage = "execute"
  /\ stage' = CASE NoChange(command, media)      -> "unchanged"
                [] Written(command.streams) = {} -> "failed"
                [] OTHER                         -> "running"
  /\ UNCHANGED <<original, media, recipe, command, output, pass>>

Whole(m) == Encoded(m, Compile(command.streams), command.container)

FfmpegEnds ==
  /\ stage = "running"
  /\ LET whole == Whole(media) IN
       \/ ~ MuxerTakes(whole) /\ stage' = "failed" /\ UNCHANGED output
       \/ /\ MuxerTakes(whole) /\ stage' = "verify"
          /\ output' \in {whole, Shortened(whole, 0), Shortened(whole, 2)}
  /\ UNCHANGED <<original, media, recipe, command, pass>>

VerifyOutput ==
  /\ stage = "verify"
  /\ stage' = IF Verified(output, media, command) THEN "replace" ELSE "failed"
  /\ UNCHANGED <<original, media, recipe, command, output, pass>>

\* Check Size Change lets the file pass, or the original is kept.
SizeAndReplace ==
  /\ stage = "replace"
  /\ \/ stage' = "installed" /\ media' = output
     \/ stage' = "kept" /\ UNCHANGED media
  /\ UNCHANGED <<original, recipe, command, output, pass>>

\* The file comes up again: another pass, from a fresh probe.
NextPass ==
  /\ stage \in Ends /\ pass < MaxPasses
  /\ stage' = "encoder" /\ pass' = pass + 1
  /\ command' = BeginCommand(media) /\ output' = media
  /\ UNCHANGED <<original, media, recipe>>

MediaNext ==
  \/ CheckAndSetEncoder \/ RunAudio \/ RunFilter \/ RunSubtitle \/ RunContainer
  \/ Execute \/ FfmpegEnds \/ VerifyOutput \/ SizeAndReplace \/ NextPass

MediaSpec == MediaInit /\ [][MediaNext]_mvars

-----------------------------------------------------------------------------
(* What the pipeline promises.                                             *)

Streams == [id : Nat, type : {"video", "audio", "subtitle"}, codec : STRING, lang : DOMAIN Canonical,
            ch : Nat, dur : Nat, default : BOOLEAN, forced : BOOLEAN, comment : BOOLEAN,
            pic : BOOLEAN, ok : BOOLEAN]

MediaTypeOK ==
  /\ original \in Library /\ recipe \in Recipes /\ stage \in Stages /\ pass \in 1..MaxPasses
  /\ \A m \in {media, output} : m.container \in {"mkv", "mp4"}
  /\ stage \notin Ends =>
       \A i \in DOMAIN command.streams : command.streams[i].index \in DOMAIN media.streams

\* What the command means, stream by stream.
Meant(c, m) ==
  LET kept == WrittenSeq(c.streams) IN
    [container |-> c.container,
     streams |-> Mux(c.container,
       [n \in DOMAIN kept |-> [m.streams[kept[n].index] EXCEPT !.codec = OutputCodec(kept[n]),
                                 !.ch = kept[n].ch, !.default = kept[n].default]])]

\* Streams are addressed in the arguments by where they end up, whatever was
\* removed or added before them: ffmpeg does to each what its node asked, and
\* to the others nothing (ffmpeg-compile.ts compileFfmpegArgs).
CommandIsObeyed == stage = "running" => Whole(media) = Meant(command, media)

\* A file is recorded as converged only if the command would write it as it
\* is (ffmpeg-noop.ts describeCommandChanges).
SkipIsTrue ==
  stage = "unchanged" =>
    Whole(media) = [media EXCEPT !.streams = Mux(media.container, @)]

\* What a flow was told to keep.
Wanted(s) ==
  /\ s.ok
  /\ s.pic \/ s.type = "subtitle" => ~ recipe.drop
  /\ s.type = "audio" /\ ~ s.pic =>
       /\ recipe.languages # {} => Language(s) \in recipe.languages
       /\ recipe.filter # {} => Language(s) \in recipe.filter \cup {"und"}
  /\ s.type = "subtitle" /\ ~ s.pic =>
       recipe.subtitles = "all" \/ (recipe.subtitles = "forced" /\ s.forced)

PictureFirst(m) == m.streams[1].pic

\* Nothing a flow was not told to remove is missing from the library file: the
\* film is whole, its poster is not encoded, a kept language is kept however it is
\* spelled, and a file that had sound has sound (verify-output.ts, the guard of
\* ffmpeg-compile.ts, beginFfmpegCommand).
NothingIsLost ==
  /\ \A i \in DOMAIN original.streams :
       LET o == original.streams[i] IN Wanted(o) =>
         \E n \in DOMAIN media.streams :
           LET s == media.streams[n] IN
             /\ s.id = o.id /\ (o.type = "video" => s.dur + Tolerance >= o.dur)
             /\ o.pic => s.codec = o.codec \/ PictureFirst(original)
  /\ HasAudio(original) => HasAudio(media)

\* A flow is done with a file it has replaced: from the file it wrote it builds
\* a command that changes nothing, or fails (ffmpeg-noop.ts, templates.ts).  Not
\* so when a picture comes first: Check Video Codec takes it for the film.
OncePerFile ==
  [][stage' = "installed" => media = original \/ PictureFirst(original)]_mvars
=============================================================================
