----------------------------- MODULE AudioSplit -----------------------------
(***************************************************************************)
(* How a page's audio is divided for the ASR backend: the length a segment *)
(* may have (_converter.py), the cut points chosen from the voice activity *)
(* (_vad.py), the nominal ranges of a fixed-period cut, the smaller pieces *)
(* tried when the backend resists (_audio_work.py), and how the texts are  *)
(* put together again (_stitch.py).                                        *)
(*                                                                         *)
(* Times are whole ticks; the code's halves (a silence's midpoint, half a  *)
(* segment) are rounded down to a tick. A tick is a chunk of the detector  *)
(* where voices are concerned.                                             *)
(***************************************************************************)
EXTENDS Integers, SequencesExt

CONSTANTS
  MaxInputTokens,    \* bili_processing_asr_max_input_tokens
  TokensPerTick,     \* bili_processing_asr_tokens_per_second
  SegmentFloor,      \* the 60 s below which the token budget never cuts
  MaxSegment,        \* bili_processing_asr_max_segment_seconds, 0 for none
  VadMinSegment,     \* bili_processing_asr_vad_min_seg_sec
  VadOverlap,        \* bili_processing_asr_vad_overlap_sec
  MinSilence,        \* bili_processing_asr_vad_min_silence_sec, in chunks
  MinSpeech,         \* bili_processing_asr_vad_min_speech_sec, in chunks
  ProbeChars,        \* DEFAULT_PROBE_CHARS
  MinOverlapChars,   \* DEFAULT_MIN_OVERLAP_CHARS
  OneSecond,         \* the second a hard cut advances at least
  SplitPiece,        \* bili_processing_asr_high_risk_split_seconds
  MinPiece,          \* bili_processing_asr_high_risk_min_segment_seconds
  PlanBound,         \* the longest audio the properties of the algorithms look at
  TextBound          \* the longest text they look at

LongEnough(cap) == cap >= 2 /\ cap >= OneSecond

\* Every length is a positive setting; a hard cut must not advance past the cut, and half
\* of a segment, which the code does not round, is at least a tick.
ASSUME SplitAssumption ==
  /\ {SegmentFloor, VadMinSegment, MinSilence, MinSpeech, ProbeChars, MinOverlapChars,
      OneSecond, SplitPiece, MinPiece, PlanBound, TextBound} \subseteq Nat \ {0}
  /\ {MaxInputTokens, TokensPerTick, MaxSegment, VadOverlap} \subseteq Nat
  /\ LongEnough(SegmentFloor) /\ (MaxSegment > 0 => LongEnough(MaxSegment))

Least(a, b) == Min({a, b})
Greatest(a, b) == Max({a, b})
CeilDiv(a, b) == (a + b - 1) \div b

Span(lo, hi) == [lo |-> lo, hi |-> hi]
Length(r) == r.hi - r.lo

------------------------------------------------------------------------------
(* The longest segment allowed.                                              *)

\* 0 stands for None: the clip fits the token budget.
compute_segment_seconds(duration) ==
  IF \/ duration <= 0 \/ TokensPerTick <= 0 \/ MaxInputTokens <= 0
     \/ duration * TokensPerTick <= MaxInputTokens
  THEN 0
  ELSE Greatest(MaxInputTokens \div TokensPerTick, SegmentFloor)

SegmentCap(duration) ==
  LET candidates == {compute_segment_seconds(duration), MaxSegment} \ {0}
  IN IF candidates = {} THEN 0 ELSE Min(candidates)

FitsWhole(duration) ==
  SegmentCap(duration) = 0 \/ duration <= SegmentCap(duration)

------------------------------------------------------------------------------
(* The voice activity.                                                       *)

\* The runs of consecutive chunks of a set, each as <<first, past the last>>.
Runs(chunks) ==
  {<<r[1], r[2] + 1>> : r \in {r \in chunks \X chunks :
     /\ r[1] - 1 \notin chunks /\ r[2] + 1 \notin chunks
     /\ r[1] <= r[2] /\ r[1]..r[2] \subseteq chunks}}

\* The chunks of a set and the silences between them that are too short to count.
Bridged(chunks) ==
  chunks \union UNION {p[1]..p[2] : p \in {p \in chunks \X chunks : p[2] - p[1] - 1 < MinSilence}}

Lasting(runs) == {r \in runs : r[2] - r[1] >= MinSpeech}

\* Seeded fault: short speech is dropped before short silences are bridged.
_pcm_to_speech_segments_DropFirst(heard) ==
  Runs(Bridged(UNION {r[1]..r[2] - 1 : r \in Lasting(Runs(heard))}))

\* The speech regions, from the chunks in which a voice was heard.
_pcm_to_speech_segments(heard) == Lasting(Runs(Bridged(heard)))

------------------------------------------------------------------------------
(* Cutting in silence.                                                       *)

\* The silences between the speech regions, before the first and after the last.
Gaps(duration, speech) ==
  LET heard == {<<Greatest(0, s[1]), Least(duration, s[2])>> :
                  s \in {s \in speech : s[2] > s[1] /\ s[2] > 0 /\ s[1] < duration}}
      Cursor(from) == Max({0} \union {s[2] : s \in {s \in heard : s[1] < from}})
      starts == {s[1] : s \in heard} \union {duration}
  IN {Span(Cursor(from), from) : from \in {f \in starts : f > Cursor(f)}}

Midpoints(gaps) == {(g.lo + g.hi) \div 2 : g \in gaps}

MinSegment(cap) == IF VadMinSegment >= cap THEN cap \div 2 ELSE VadMinSegment

\* Seeded fault: a hard cut starts the next segment one overlap after the cut.
pick_split_points_Gap(duration, speech, cap) ==
  LET plan[from \in 0..duration] ==
        IF duration - from <= cap THEN <<Span(from, duration)>>
        ELSE <<Span(from, from + cap)>> \o plan[Least(duration, from + cap + VadOverlap)]
  IN IF duration <= 0 THEN <<>> ELSE plan[0]

\* Each segment ends in the last silence its window holds, or after cap ticks; a hard
\* cut starts the next segment a little earlier.
pick_split_points(duration, speech, cap) ==
  LET middles == Midpoints(Gaps(duration, speech))
      quiet(from) == middles \intersect (from + MinSegment(cap) .. from + cap)
      plan[from \in 0..duration] ==
        IF duration - from <= cap THEN <<Span(from, duration)>>
        ELSE IF quiet(from) # {}
             THEN <<Span(from, Max(quiet(from)))>> \o plan[Max(quiet(from))]
             ELSE <<Span(from, from + cap)>>
                    \o plan[Greatest(from + OneSecond, from + cap - VadOverlap)]
  IN IF duration <= 0 THEN <<>> ELSE plan[0]

\* The nominal range of each of n files of a fixed-period cut.
_fixed_segment_ranges(n, period, duration) ==
  [i \in 1..n |-> Span((i - 1) * period, Least(i * period, duration))]

------------------------------------------------------------------------------
(* Smaller pieces.                                                           *)

_split_segment_ranges(r, piece) ==
  [i \in 1..CeilDiv(Length(r), piece) |->
     Span(r.lo + (i - 1) * piece, Least(r.hi, r.lo + i * piece))]

\* Seeded fault: the configured piece is not bounded by half of the segment.
NextPiece_Whole(r, piece) == Greatest(piece, MinPiece)

NextPiece(r, piece) ==
  Least(Greatest(piece, MinPiece), Greatest(MinPiece, Length(r) \div 2))

------------------------------------------------------------------------------
(* The text of a page from the texts of its segments, a text a sequence of   *)
(* letters.                                                                  *)

Space == " "

\* difflib's find_longest_match: the first of the longest blocks that a and b share.
LongestMatch(a, b) ==
  LET blocks == {m \in [a : 0..Len(a), b : 0..Len(b), size : 0..Len(a)] :
                   /\ m.a + m.size <= Len(a) /\ m.b + m.size <= Len(b)
                   /\ \A k \in 1..m.size : a[m.a + k] = b[m.b + k]}
      longest == {m \in blocks : \A o \in blocks : o.size <= m.size}
  IN CHOOSE m \in longest : \A o \in longest : m.a < o.a \/ (m.a = o.a /\ m.b <= o.b)

Tail200(text) == SubSeq(text, Greatest(1, Len(text) - ProbeChars + 1), Len(text))
Head200(text) == SubSeq(text, 1, Least(ProbeChars, Len(text)))

\* Seeded fault: what the texts share is kept twice.
_splice_pair_Twice(left, right) ==
  LET match == LongestMatch(Tail200(left), Head200(right))
  IN IF left = <<>> \/ right = <<>> THEN left \o right
     ELSE IF match.size < MinOverlapChars THEN left \o <<Space>> \o right
     ELSE left \o SubSeq(right, match.b + 1, Len(right))

\* Seeded fault: any letter the texts share counts as their overlap.
_splice_pair_AnyOverlap(left, right) ==
  LET match == LongestMatch(Tail200(left), Head200(right))
  IN IF left = <<>> \/ right = <<>> THEN left \o right
     ELSE IF match.size = 0 THEN left \o <<Space>> \o right
     ELSE left \o SubSeq(right, match.b + match.size + 1, Len(right))

_splice_pair(left, right) ==
  LET match == LongestMatch(Tail200(left), Head200(right))
  IN IF left = <<>> \/ right = <<>> THEN left \o right
     ELSE IF match.size < MinOverlapChars THEN left \o <<Space>> \o right
     ELSE left \o SubSeq(right, match.b + match.size + 1, Len(right))

stitch_transcripts(texts) == FoldLeft(_splice_pair, <<>>, texts)

------------------------------------------------------------------------------
(* What the algorithms promise, over every input up to a length.             *)

Adjacent(plan) == {i \in 1..Len(plan) : i < Len(plan)}

\* No speech is cut at t.
InSilence(t, speech) == \A s \in speech : ~(s[1] < t /\ t < s[2])

\* From where the one region ends to where the other starts there is a silence, all of it
\* between the two points.
SilenceWithin(from, to, speech) ==
  \E s, r \in speech : from <= s[2] /\ s[2] < r[1] /\ r[1] <= to

Cuts(plan, duration, speech, cap) ==
  /\ plan # <<>> /\ plan[1].lo = 0 /\ plan[Len(plan)].hi = duration
  /\ \A i \in DOMAIN plan : 0 < Length(plan[i]) /\ Length(plan[i]) <= cap
  /\ \A i \in Adjacent(plan) :
       /\ plan[i].lo < plan[i + 1].lo
       /\ plan[i].hi - plan[i + 1].lo \in 0..VadOverlap
       /\ \/ InSilence(plan[i].hi, speech)
          \/ ~ SilenceWithin(plan[i].lo + MinSegment(cap), plan[i].lo + cap, speech)

\* A segment plan covers the audio from its start to its end without a hole, no segment
\* is longer than the backend's limit, each starts after the one before and repeats at
\* most the overlap; and speech is cut only where the window holds no whole silence.
\* Voices may be heard in any chunks (pick_split_points on detect_speech_segments).
PlansAreSound ==
  \A duration \in 1..PlanBound, cap \in {c \in 1..PlanBound : LongEnough(c)} :
    \A heard \in SUBSET (0..duration - 1) :
      LET speech == _pcm_to_speech_segments(heard)
      IN Cuts(pick_split_points(duration, speech, cap), duration, speech, cap)

\* A speech region starts and ends with a voice and is no shorter than MinSpeech, two
\* regions are at least MinSilence apart, and voices with no longer pause between them
\* that together last long enough are in a region (_pcm_to_speech_segments).
RegionsAreSound ==
  \A heard \in SUBSET (0..PlanBound - 1) :
    LET regions == _pcm_to_speech_segments(heard)
    IN /\ \A r \in regions : {r[1], r[2] - 1} \subseteq heard /\ r[2] - r[1] >= MinSpeech
       /\ \A r, q \in regions : r[1] < q[1] => q[1] - r[2] >= MinSilence
       /\ \A a, b \in heard :
            b - a - 1 < MinSilence /\ b - a + 1 >= MinSpeech
              => \E r \in regions : r[1] <= a /\ b < r[2]

\* A resisted segment longer than the smallest piece is divided into at least two pieces
\* that tile it, none of them longer than half of it or the smallest piece: the recursion
\* of the high-risk fallback neither skips audio nor goes on for ever.
DividesWell(r, piece) ==
  LET pieces == _split_segment_ranges(r, NextPiece(r, piece))
  IN /\ Len(pieces) >= 2 /\ pieces[1].lo = r.lo /\ pieces[Len(pieces)].hi = r.hi
     /\ \A i \in DOMAIN pieces :
          Length(pieces[i]) \in 1..Greatest(MinPiece, Length(r) \div 2)
     /\ \A i \in Adjacent(pieces) : pieces[i].hi = pieces[i + 1].lo

SplitsAreSound ==
  \A lo \in 0..2, n \in MinPiece + 1 .. PlanBound, piece \in 1..PlanBound :
    DividesWell(Span(lo, lo + n), piece)

Texts == UNION {[1..n -> {"a", "b"}] : n \in 1..TextBound}

\* What comes before a segment's text is never shortened by it, of the text itself only
\* letters within the probe are left out, and only for an overlap that is long enough
\* (_splice_pair).
SplicedWell(left, right) ==
  LET spliced == _splice_pair(left, right)
      dropped == Len(left) + Len(right) - Len(spliced)
      kept == SubSeq(right, Greatest(0, dropped) + 1, Len(right))
  IN /\ SubSeq(spliced, 1, Len(left)) = left
     /\ dropped = -1 \/ dropped \in MinOverlapChars..ProbeChars
     /\ SubSeq(spliced, Len(spliced) - Len(kept) + 1, Len(spliced)) = kept

SplicesAreSound == \A left, right \in Texts : SplicedWell(left, right)

\* Speech that never pauses is cut with an overlap; stitching the texts of the segments
\* gives the text of the whole, each word once. A tick's word occurs nowhere else.
StitchUndoesOverlap ==
  \A duration \in 1..PlanBound, cap \in VadOverlap + OneSecond .. PlanBound :
    LET plan == pick_split_points(duration, {<<0, duration>>}, cap)
        text(r) == [i \in 1..Length(r) |-> r.lo + i]
    IN stitch_transcripts([i \in DOMAIN plan |-> text(plan[i])])
         = [i \in 1..duration |-> i]
=============================================================================
