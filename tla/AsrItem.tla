------------------------------ MODULE AsrItem -------------------------------
(***************************************************************************)
(* The work of one video in an ASR run: _process_audio_one retries         *)
(* _do_audio_work, which for each page downloads the audio, converts and   *)
(* cuts it, and sends the segments to the backend one by one, looking each *)
(* up in the resume cache first and dividing a segment the backend         *)
(* resists. The row, the cache and the temporary directory outlive the     *)
(* process.                                                                *)
(*                                                                         *)
(* Text, tokens and costs are left out: a transcribed segment is its       *)
(* range, what became of it, and the model. A text answer and its cache    *)
(* entry are one step (no await lies between them).                        *)
(***************************************************************************)
EXTENDS AudioSplit

CONSTANTS
  Duration,      \* of each page as its metadata declare it, 0 when unknown
  SpeechMaps,    \* the voice activity the detector may report, the same every time
  UseVad,        \* bili_processing_asr_use_vad
  SplitEnabled,  \* bili_processing_asr_high_risk_split_enabled
  EmptySkip,     \* bili_processing_asr_empty_segment_skip_seconds
  RateAttempts,  \* bili_processing_asr_rate_limit_max_attempts
  MaxAttempts,   \* bili_processing_max_retries + 1
  Models,        \* cache namespaces a run may be configured with
  MaxRuns,       \* bound on the runs of a behaviour
  MaxCrashes     \* bound on its crashes

ASSUME ItemAssumption ==
  /\ Duration \in Seq(Nat) /\ Duration # <<>>
  /\ UseVad \in BOOLEAN /\ SplitEnabled \in BOOLEAN
  /\ EmptySkip \in Nat /\ {RateAttempts, MaxAttempts} \subseteq Nat \ {0}
  /\ {MaxRuns, MaxCrashes} \subseteq Nat

Pages == DOMAIN Duration

VARIABLES
  row,      \* audio_transcription: its status and, on success, its pages' segments
  cache,    \* the resume cache: by page, the ranges with a text and their model
  temp,     \* by page, the audio in each file of mp3_<page>/segments
  pc,       \* where the item's work stands, "idle" when nobody works on it
  model,    \* the backend's namespace in this run
  attempt,  \* attempts of the retry driver
  plan,     \* the ranges ffmpeg is cutting the page into
  how,      \* "vad" or "fixed": whose ranges they are
  cutting,  \* the index of the next file
  todo,     \* segments left, the pieces of a divided one first
  out,      \* what became of the page's segments so far
  tries,    \* sends of the segment in hand that met the rate limit
  done,     \* the finished pages
  retry,    \* whether the failure being recorded is retryable
  speech,   \* what the detector reports for the audio
  bought,   \* history: the answers paid for since the cache was last cleared
  runs, crashes

disk == <<row, cache, temp>>
work == <<model, attempt, plan, how, cutting, todo, out, tries, done, retry>>
history == <<speech, bought, runs, crashes>>
vars == <<disk, pc, work, history>>

\* "resisted" stands for high_risk_skip and length_truncated_skip.
Kind == {"text", "empty", "resisted"}
Range0 == [lo : Nat, hi : Nat]
Segment == [range : Range0, kind : Kind, model : Models]
Entry == [range : Range0, model : Models]

page == Len(done) + 1
Seg == Head(todo)

\* No pages worked on, as at the start of an attempt.
Blank(m, n) ==
  /\ model' = m /\ attempt' = n
  /\ plan' = <<>> /\ how' = "vad" /\ cutting' = 1 /\ todo' = <<>> /\ out' = {}
  /\ tries' = 1 /\ done' = <<>> /\ retry' = FALSE

Init ==
  /\ row = [status |-> "none", pages |-> <<>>]
  /\ cache = [p \in Pages |-> {}] /\ temp = [p \in Pages |-> <<>>]
  /\ pc = "idle"
  /\ model \in Models /\ attempt = 0 /\ plan = <<>> /\ how = "vad" /\ cutting = 1
  /\ todo = <<>> /\ out = {} /\ tries = 1 /\ done = <<>> /\ retry = FALSE
  /\ speech \in SpeechMaps /\ bought = {} /\ runs = 0 /\ crashes = 0

\* Of an earlier run's files only a full.mp3 without segments beside it is scrubbed.
cleanup_orphan_temp_dirs == UNCHANGED temp

\* _filter_audio_ready: a transcribed video is worked on again only in full mode, which
\* finds no cache and no temporary file and so starts like the first run (AsrRun has it).
Start(m) ==
  /\ pc = "idle" /\ runs < MaxRuns /\ row.status # "success"
  /\ pc' = "download" /\ runs' = runs + 1 /\ Blank(m, 1)
  /\ cleanup_orphan_temp_dirs
  /\ UNCHANGED <<row, cache, speech, bought, crashes>>

------------------------------------------------------------------------------
(* An attempt that ends in an exception: `finally` removes the temporary     *)
(* directory, then the retry driver records the failure.                     *)

\* "audio" is an AudioError that is neither of configuration nor of an empty transcript;
\* "other" what is not wrapped in one, an OSError for one.
_is_retryable(error) == error = "audio"

Fail(error) ==
  /\ pc' = "failing" /\ retry' = _is_retryable(error) /\ temp' = [p \in Pages |-> <<>>]
  /\ UNCHANGED <<row, cache, model, attempt, plan, how, cutting, todo, out, tries, done>>
  /\ UNCHANGED history

\* Seeded fault: the attempt is not counted.
RecordFailure_Uncounted ==
  /\ pc = "failing"
  /\ row' = [status |-> "failed", pages |-> <<>>]
  /\ IF retry /\ attempt < MaxAttempts
     THEN pc' = "download" /\ Blank(model, attempt)
     ELSE pc' = "idle" /\ Blank(model, 0)
  /\ UNCHANGED <<cache, temp, history>>

\* _on_attempt_failed: the row says failed whether or not there is another attempt.
RecordFailure ==
  /\ pc = "failing"
  /\ row' = [status |-> "failed", pages |-> <<>>]
  /\ IF retry /\ attempt < MaxAttempts
     THEN pc' = "download" /\ Blank(model, attempt + 1)
     ELSE pc' = "idle" /\ Blank(model, 0)
  /\ UNCHANGED <<cache, temp, history>>

------------------------------------------------------------------------------
(* Download, conversion and cutting.                                         *)

\* An await that ends well, or in an exception.
Await(from, to) ==
  /\ pc = from
  /\ \/ pc' = to /\ UNCHANGED <<disk, work, history>>
     \/ \E error \in {"audio", "other"} : Fail(error)

get_audio_url == Await("download", "fetch")
download_to_file == Await("fetch", "mp3")
convert_m4s_to_mp3 == Await("mp3", "convert")

\* The ranges and audio of segments that no cut has made smaller yet.
Whole(ranges, audio) ==
  [i \in DOMAIN audio |-> [range |-> ranges[i], audio |-> audio[i], split |-> SplitPiece]]

\* The clip fits, or its length is unknown: one segment.
ConvertWhole ==
  /\ pc = "convert" /\ FitsWhole(Duration[page])
  /\ todo' = Whole(<<Span(0, Duration[page])>>, <<Span(0, Duration[page])>>)
  /\ pc' = "lookup"
  /\ UNCHANGED <<disk, model, attempt, plan, how, cutting, out, tries, done, retry, history>>

Cut(ranges, by) ==
  /\ plan' = ranges /\ how' = by /\ cutting' = 1 /\ pc' = "cut"
  /\ UNCHANGED <<disk, model, attempt, todo, out, tries, done, retry, history>>

ConvertVad ==
  /\ pc = "convert" /\ ~FitsWhole(Duration[page]) /\ UseVad
  /\ Cut(pick_split_points(Duration[page], speech, SegmentCap(Duration[page])), "vad")

\* The detector is disabled, or raised.
ConvertFixed ==
  /\ pc = "convert" /\ ~FitsWhole(Duration[page])
  /\ LET cap == SegmentCap(Duration[page])
     IN Cut(_fixed_segment_ranges(CeilDiv(Duration[page], cap), cap, Duration[page]), "fixed")

\* ffmpeg writes seg_<cutting>.mp3 over a file of that name.
CutNext ==
  /\ pc = "cut" /\ cutting <= Len(plan)
  /\ temp' = [temp EXCEPT ![page] =
       IF cutting \in DOMAIN @ THEN [@ EXCEPT ![cutting] = plan[cutting]]
                               ELSE Append(@, plan[cutting])]
  /\ cutting' = cutting + 1
  /\ UNCHANGED <<row, cache, pc, model, attempt, plan, how, todo, out, tries, done, retry, history>>

\* convert_at_points returns the files it wrote; convert_and_segment every file that
\* matches seg_*.mp3, and numbers them to give each its nominal range.
CutDone ==
  /\ pc = "cut" /\ cutting > Len(plan)
  /\ todo' = IF how = "vad"
             THEN Whole(plan, SubSeq(temp[page], 1, Len(plan)))
             ELSE Whole(_fixed_segment_ranges(Len(temp[page]), SegmentCap(Duration[page]),
                                              Duration[page]), temp[page])
  /\ pc' = "lookup"
  /\ UNCHANGED <<disk, model, attempt, plan, how, cutting, out, tries, done, retry, history>>

\* ffmpeg fails or runs into its timeout.
CutFails ==
  pc = "cut" /\ cutting <= Len(plan) /\ \E error \in {"audio", "other"} : Fail(error)

------------------------------------------------------------------------------
(* The segments.                                                             *)

Settle(kind) ==
  /\ out' = out \union {[range |-> Seg.range, kind |-> kind, model |-> model]}
  /\ todo' = Tail(todo) /\ pc' = "lookup" /\ tries' = 1
  /\ UNCHANGED <<row, temp, model, attempt, plan, how, cutting, done, retry>>
  /\ UNCHANGED <<speech, runs, crashes>>

\* Seeded fault: the entry's namespace is not compared.
find_AnyModel(p, r) == {e \in cache[p] : e.range = r}

find(p, r) == {e \in cache[p] : e.range = r /\ e.model = model}

CacheHit ==
  /\ pc = "lookup" /\ todo # <<>>
  /\ \E e \in find(page, Seg.range) :
       /\ out' = out \union {[range |-> e.range, kind |-> "text", model |-> e.model]}
       /\ todo' = Tail(todo)
  /\ UNCHANGED <<disk, pc, model, attempt, plan, how, cutting, tries, done, retry, history>>

CacheMiss ==
  /\ pc = "lookup" /\ todo # <<>> /\ find(page, Seg.range) = {}
  /\ pc' = "ask" /\ tries' = 1
  /\ UNCHANGED <<disk, model, attempt, plan, how, cutting, todo, out, done, retry, history>>

\* Seeded fault: an entry takes the place of the one that starts where it does.
upsert_ByStart(entries, e) == {old \in entries : old.range.lo # e.range.lo} \union {e}

upsert(entries, e) == {old \in entries : old # e} \union {e}

TextAnswer ==
  /\ pc = "ask"
  /\ cache' = [cache EXCEPT ![page] = upsert(@, [range |-> Seg.range, model |-> model])]
  /\ bought' = bought \union {<<page, Seg.range, model>>}
  /\ Settle("text")

\* Seeded fault: one send too many.
RateLimited_OneMore ==
  /\ pc = "ask"
  /\ \/ /\ tries <= RateAttempts
        /\ tries' = tries + 1
        /\ UNCHANGED <<disk, pc, model, attempt, plan, how, cutting, todo, out, done, retry, history>>
     \/ tries > RateAttempts /\ Fail("audio")

RateLimited ==
  /\ pc = "ask"
  /\ \/ /\ tries < RateAttempts
        /\ tries' = tries + 1
        /\ UNCHANGED <<disk, pc, model, attempt, plan, how, cutting, todo, out, done, retry, history>>
     \/ tries >= RateAttempts /\ Fail("audio")

\* Seeded fault: a segment without transcript is given up whatever its length.
EmptyAnswer_AnyLength == pc = "ask" /\ Settle("empty") /\ UNCHANGED <<cache, bought>>

\* No transcript: a short segment is given up, a long one fails the video for good.
EmptyAnswer ==
  /\ pc = "ask"
  /\ IF Length(Seg.range) <= EmptySkip
     THEN Settle("empty") /\ UNCHANGED <<cache, bought>>
     ELSE Fail("empty")

ErrorAnswer == pc = "ask" /\ \E error \in {"audio", "config", "other"} : Fail(error)

\* The part of a segment's file that a piece is cut from, as far as the file goes.
Excerpt(seg, piece) ==
  LET at(t) == Least(seg.audio.hi, seg.audio.lo + t - seg.range.lo)
  IN Span(at(piece.lo), at(piece.hi))

Pieces(seg) ==
  LET size == NextPiece(seg.range, seg.split)
      pieces == _split_segment_ranges(seg.range, size)
  IN [i \in DOMAIN pieces |->
       [range |-> pieces[i], audio |-> Excerpt(seg, pieces[i]),
        split |-> Greatest(MinPiece, size \div 2)]]

\* A long segment is cut and divided, a short one given up. With splitting disabled the
\* answer is an error like another (ErrorAnswer).
Resisted ==
  /\ pc = "ask" /\ SplitEnabled
  /\ IF Length(Seg.range) <= MinPiece
     THEN Settle("resisted") /\ UNCHANGED <<cache, bought>>
     ELSE \/ /\ todo' = Pieces(Seg) \o Tail(todo)
             /\ pc' = "lookup" /\ tries' = 1
             /\ UNCHANGED <<disk, model, attempt, plan, how, cutting, out, done, retry, history>>
          \/ \E error \in {"audio", "other"} : Fail(error)

\* The backend refuses the audio as of high risk.
HighRisk == Resisted

\* The item passes one token limit as the first and as the largest: an answer that hits it
\* leaves no larger one to try.
LengthTruncated == Resisted

------------------------------------------------------------------------------
(* The end of a page, and of the video.                                      *)

PageDone ==
  /\ pc = "lookup" /\ todo = <<>>
  /\ done' = Append(done, out) /\ out' = {}
  /\ pc' = IF page = Len(Duration) THEN "result" ELSE "download"
  /\ UNCHANGED <<disk, model, attempt, plan, how, cutting, todo, tries, retry, history>>

NonEmptyPage(segments) == \E s \in segments : s.kind = "text"

AllEmpty ==
  /\ pc = "result" /\ ~ \E p \in Pages : NonEmptyPage(done[p])
  /\ Fail("empty")

\* clear_bvid, then the temporary directory goes; the row is still to be written.
Clear ==
  /\ pc = "result" /\ \E p \in Pages : NonEmptyPage(done[p])
  /\ cache' = [p \in Pages |-> {}] /\ bought' = {} /\ temp' = [p \in Pages |-> <<>>]
  /\ pc' = "save"
  /\ UNCHANGED <<row, work, speech, runs, crashes>>

SaveSuccess ==
  /\ pc = "save"
  /\ row' = [status |-> "success", pages |-> done]
  /\ pc' = "idle" /\ Blank(model, 0)
  /\ UNCHANGED <<cache, temp, history>>

\* The database goes; the resume cache and the temporary directory are elsewhere and stay.
delete_uid ==
  /\ pc = "idle" /\ row.status # "none"
  /\ row' = [status |-> "none", pages |-> <<>>]
  /\ UNCHANGED <<cache, temp, pc, work, history>>

\* The process is killed: what is on disk stays as it is.
Crash ==
  /\ pc # "idle" /\ crashes < MaxCrashes
  /\ pc' = "idle" /\ crashes' = crashes + 1 /\ Blank(model, 0)
  /\ UNCHANGED <<disk, speech, bought, runs>>

------------------------------------------------------------------------------
Step ==
  \/ get_audio_url \/ download_to_file \/ convert_m4s_to_mp3
  \/ ConvertWhole \/ ConvertVad \/ ConvertFixed \/ CutNext \/ CutDone
  \/ CutFails
  \/ CacheHit \/ CacheMiss \/ TextAnswer \/ RateLimited \/ EmptyAnswer \/ ErrorAnswer
  \/ HighRisk \/ LengthTruncated
  \/ PageDone \/ AllEmpty \/ Clear \/ SaveSuccess \/ RecordFailure

Next ==
  \/ Step
  \/ \E m \in Models : Start(m)
  \/ Crash
  \/ delete_uid

Spec == Init /\ [][Next]_vars

\* Every call out of the process ends: ffmpeg and the HTTP clients have timeouts.
FairSpec == Spec /\ WF_vars(Step)

------------------------------------------------------------------------------
(* Properties.                                                               *)

TypeOK ==
  /\ row \in [status : {"none", "failed", "success"}, pages : Seq(SUBSET Segment)]
  /\ Len(row.pages) = (IF row.status = "success" THEN Len(Duration) ELSE 0)
  /\ cache \in [Pages -> SUBSET Entry] /\ temp \in [Pages -> Seq(Range0)]
  /\ pc \in {"idle", "download", "fetch", "mp3", "convert", "cut", "lookup", "ask", "result",
            "save", "failing"}
  /\ model \in Models /\ attempt \in 0..MaxAttempts /\ tries \in 1..RateAttempts
  /\ (attempt = 0) <=> (pc = "idle")
  /\ plan \in Seq(Range0) /\ how \in {"vad", "fixed"} /\ cutting \in 1..Len(plan) + 1
  /\ todo \in Seq([range : Range0, audio : Range0, split : Nat \ {0}])
  /\ out \subseteq Segment /\ done \in Seq(SUBSET Segment) /\ retry \in BOOLEAN
  /\ pc \in {"download", "fetch", "mp3", "convert", "cut", "lookup", "ask"} => page \in Pages
  /\ runs \in 0..MaxRuns /\ crashes \in 0..MaxCrashes

GivenUp == Greatest(MinPiece, EmptySkip)

\* A transcription stored as success leaves out no audio: each tick of a page lies in a
\* segment with a text, or in one given up that is no longer than the smallest piece or
\* the empty segment the settings let it skip (audio_transcribe_page). A page without a
\* declared duration has no ticks, and nothing is asked of it here.
TranscriptComplete ==
  row.status = "success" =>
    \A p \in Pages : \A t \in 0..Duration[p] - 1 :
      \E s \in row.pages[p] :
        /\ s.range.lo <= t /\ t < s.range.hi
        /\ s.kind = "text" \/ Length(s.range) <= GivenUp

\* A text is paid for once: a segment is sent only if no answer for its range and this
\* model was received since the cache was cleared, over retries, failures and crashes
\* (ASRCacheStore.upsert and find).
PaidOnce == pc = "ask" => <<page, Seg.range, model>> \notin bought

\* The texts of a stored transcription come from one model, although runs with
\* different models share the cache file (CachedSegment.matches_namespace).
OneModel ==
  row.status = "success" =>
    \A p, q \in Pages : \A s \in row.pages[p], r \in row.pages[q] : s.model = r.model

\* The formulas of AudioSplit are constant, so they are looked at before the first run.
AtStart == runs = 0

\* Segment plans: no hole, no segment over the limit, no speech cut where the window
\* holds a whole silence (pick_split_points).
PlansCover == AtStart => PlansAreSound

\* Speech regions: none lost, none too short, none too close (_pcm_to_speech_segments).
RegionsSound == AtStart => RegionsAreSound

\* Two texts: what is written stays, and of the next text no more is dropped than an
\* overlap may have (_splice_pair).
SplicesSound == AtStart => SplicesAreSound

\* Stitched texts: the overlap of hard cuts appears once (stitch_transcripts).
StitchSound == AtStart => StitchUndoesOverlap

\* Divided segments: at least two pieces that tile it and shrink, so that the recursion
\* of the fallback loses no audio and ends (_split_segment_ranges).
SplitsTile == AtStart => SplitsAreSound

\* The audio sent for a segment is the audio its range names (Mp3Segment).
AudioMatchesRange == pc = "ask" => Seg.audio = Seg.range

\* The work of a video ends, whatever the services answer.
ItemEnds == pc = "download" ~> pc = "idle"
=============================================================================
