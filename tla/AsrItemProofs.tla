--------------------------- MODULE AsrItemProofs ----------------------------
(***************************************************************************)
(* Proofs about AsrItem: its types, that a stored transcription leaves out *)
(* no audio and comes from one model, that no text is paid for twice, and  *)
(* that the work of a run on a video ends, for any number of pages,        *)
(* models, attempts, runs and crashes.                                     *)
(***************************************************************************)
EXTENDS AsrItem, SplitProofs, FiniteSetTheorems

------------------------------------------------------------------------------
(* The inductive invariant, in four layers.                                  *)

\* Where the work stands: a segment in hand while it is asked for, all pages finished
\* before the row is saved, and the files of a cut numbered from 1 without a hole.
Shape ==
  /\ pc = "ask" => todo # <<>>
  /\ pc \in {"result", "save"} => Len(done) = Len(Duration)
  /\ pc = "cut" =>
       /\ Len(temp[page]) >= cutting - 1
       /\ ~FitsWhole(Duration[page])

\* What was bought is in the cache, and what is asked for is not.
Cached ==
  /\ \A b \in bought : b[1] \in Pages /\ [range |-> b[2], model |-> b[3]] \in cache[b[1]]
  /\ pc = "ask" => [range |-> Seg.range, model |-> model] \notin cache[page]

\* What an attempt collects comes from the model of its run.
Modelled ==
  /\ \A s \in out : s.model = model
  /\ \A i \in 1..Len(done) : \A s \in done[i] : s.model = model
  /\ OneModel

Holds(r, t) == r.lo <= t /\ t < r.hi

\* A tick lies in a segment that is left to transcribe.
Awaits(queue, t) == \E i \in 1..Len(queue) : Holds(queue[i].range, t)

\* A tick lies in a segment with a text, or in one small enough to be given up.
Settled(segments, t) ==
  \E s \in segments : Holds(s.range, t) /\ (s.kind = "text" \/ Length(s.range) <= GivenUp)

\* No tick of a page is lost: finished pages are settled, the page in work is settled but
\* for the segments left, and the ranges of a cut hold all of it.
Covered ==
  /\ \A i \in 1..Len(done) : \A t \in 0..Duration[i] - 1 : Settled(done[i], t)
  /\ pc \in {"lookup", "ask"} => \A t \in 0..Duration[page] - 1 :
       Settled(out, t) \/ Awaits(todo, t)
  /\ pc = "cut" /\ how = "vad" => \A t \in 0..Duration[page] - 1 :
       \E i \in 1..Len(plan) : Holds(plan[i], t)
  /\ pc = "cut" /\ how = "fixed" =>
       Len(plan) = CeilDiv(Duration[page], SegmentCap(Duration[page]))
  /\ TranscriptComplete

Item == [range : Range0, audio : Range0, split : Nat \ {0}]

------------------------------------------------------------------------------
(* The operators of the cut.                                                 *)

LEMMA ConstantsTyped ==
  /\ Duration \in Seq(Nat) /\ Len(Duration) \in Nat \ {0} /\ Pages = 1..Len(Duration)
  /\ \A p \in Pages : Duration[p] \in Nat
  /\ EmptySkip \in Nat /\ RateAttempts \in Nat \ {0} /\ MaxAttempts \in Nat \ {0}
  /\ MaxRuns \in Nat /\ MaxCrashes \in Nat
  /\ SplitPiece \in Nat \ {0} /\ MinPiece \in Nat \ {0}
<1>1. Duration \in Seq(Nat) /\ Duration # <<>>
  BY ItemAssumption
<1>2. Len(Duration) \in Nat \ {0} /\ Pages = 1..Len(Duration)
  BY <1>1 DEF Pages
<1>3. \A p \in Pages : Duration[p] \in Nat
  BY <1>1, <1>2, ElementOfSeq
<1>4. /\ EmptySkip \in Nat /\ RateAttempts \in Nat \ {0} /\ MaxAttempts \in Nat \ {0}
      /\ MaxRuns \in Nat /\ MaxCrashes \in Nat
  BY ItemAssumption
<1>5. SplitPiece \in Nat \ {0} /\ MinPiece \in Nat \ {0}
  BY SplitAssumption
<1> QED BY <1>1, <1>2, <1>3, <1>4, <1>5

\* A page that does not fit is longer than a limit that lets a hard cut advance.
LEMMA CapIs ==
  ASSUME NEW d \in Nat, ~FitsWhole(d)
  PROVE  SegmentCap(d) \in Nat \ {0} /\ LongEnough(SegmentCap(d)) /\ SegmentCap(d) < d
<1> DEFINE s == compute_segment_seconds(d)  candidates == {s, MaxSegment} \ {0}
<1>1. /\ SegmentFloor \in Nat \ {0} /\ LongEnough(SegmentFloor) /\ OneSecond \in Nat
      /\ MaxSegment \in Nat /\ (MaxSegment > 0 => LongEnough(MaxSegment))
      /\ MaxInputTokens \in Nat /\ TokensPerTick \in Nat
  BY SplitAssumption
<1>2. s \in Nat /\ (s # 0 => LongEnough(s))
  <2>1. CASE s = 0
    BY <2>1
  <2>2. CASE s # 0
    <3>1. TokensPerTick \in Nat \ {0} /\ s = Greatest(MaxInputTokens \div TokensPerTick, SegmentFloor)
      BY <1>1, <2>2 DEF compute_segment_seconds
    <3>2. MaxInputTokens \div TokensPerTick \in Int
      BY <1>1, <3>1
    <3>3. s \in Nat /\ s >= SegmentFloor
      BY <1>1, <3>1, <3>2, GreatestIs
    <3> QED BY <1>1, <3>3 DEF LongEnough
  <2> QED BY <2>1, <2>2
<1> HIDE DEF s
<1>3. SegmentCap(d) = IF candidates = {} THEN 0 ELSE Min(candidates)
  BY DEF SegmentCap, s
<1>4. candidates # {} /\ SegmentCap(d) = Min(candidates)
  BY <1>3 DEF FitsWhole
<1>5. \A c \in candidates : c \in Nat \ {0} /\ LongEnough(c)
  BY <1>1, <1>2
<1>6. Min(candidates) \in candidates
  <2>1. candidates \in SUBSET Nat
    BY <1>5
  <2>2. \E c \in candidates : \A o \in candidates : c <= o
    <3> HIDE DEF candidates
    <3> QED BY <1>4, <2>1, NatLeast
  <2> HIDE DEF candidates
  <2> QED BY <2>2 DEF Min
<1>7. SegmentCap(d) \in Nat \ {0} /\ LongEnough(SegmentCap(d))
  BY <1>4, <1>5, <1>6
<1>8. ~ d <= SegmentCap(d)
  BY DEF FitsWhole
<1> QED BY <1>7, <1>8

\* A plan made from the voice activity, whatever that is, covers the page.
LEMMA VadPlanCovers ==
  ASSUME NEW d \in Nat, ~FitsWhole(d), NEW s
  PROVE  LET ranges == pick_split_points(d, s, SegmentCap(d))
         IN /\ ranges \in Seq(Range0)
            /\ \A t \in 0..d - 1 : \E i \in 1..Len(ranges) : Holds(ranges[i], t)
<1> DEFINE cap == SegmentCap(d)  middles == Midpoints(Gaps(d, s))
<1>1. cap \in Nat \ {0} /\ LongEnough(cap) /\ d \in Nat \ {0}
  BY CapIs
<1>2. PICK p : p = pick_split_points(d, s, cap) /\ PlanFrom(p, 0, d, middles, cap)
  <2> HIDE DEF cap
  <2> QED BY <1>1, PickIs
<1> HIDE DEF cap, middles
<1>3. /\ p \in Seq(Range0) /\ Len(p) \in Nat \ {0} /\ p[1].lo = 0 /\ p[Len(p)].hi = d
      /\ \A i \in 1..Len(p) : p[i].lo \in Nat /\ p[i].hi \in Nat
      /\ \A i \in 1..Len(p) : i < Len(p) =>
           p[i].hi = CutAt(middles, cap, p[i].lo) /\ p[i + 1].lo = NextStart(middles, cap, p[i].lo)
  BY <1>2 DEF PlanFrom, Range0
<1>4. \A i \in 1..Len(p) : i < Len(p) => p[i + 1].lo <= p[i].hi
  BY <1>1, <1>3, CutIs
<1>5. ASSUME NEW t \in 0..d - 1 PROVE \E i \in 1..Len(p) : Holds(p[i], t)
  <2> DEFINE before == {i \in 1..Len(p) : p[i].lo <= t}
  <2>1. 1 \in before /\ before \in SUBSET Nat /\ \A i \in before : i <= Len(p)
    BY <1>3
  <2> HIDE DEF before
  <2>2. PICK i \in before : \A j \in before : j <= i
    BY <1>3, <2>1, NatGreatest
  <2>3. i \in 1..Len(p) /\ p[i].lo <= t /\ i + 1 \notin before
    BY <2>1, <2>2 DEF before
  <2>4. t < p[i].hi
    <3>1. CASE i = Len(p)
      BY <1>3, <3>1
    <3>2. CASE i # Len(p)
      <4>1. i < Len(p) /\ i + 1 \in 1..Len(p)
        BY <1>3, <2>3, <3>2
      <4>2. ~ p[i + 1].lo <= t
        BY <2>3, <4>1 DEF before
      <4>3. p[i + 1].lo <= p[i].hi /\ p[i + 1].lo \in Nat /\ p[i].hi \in Nat
        BY <1>3, <1>4, <2>3, <4>1
      <4> QED BY <4>2, <4>3
    <3> QED BY <3>1, <3>2
  <2> QED BY <2>3, <2>4 DEF Holds
<1> QED BY <1>2, <1>3, <1>5 DEF cap

\* The nominal ranges of a fixed cut cover the page when there are enough of them.
LEMMA FixedCovers ==
  ASSUME NEW d \in Nat, NEW period \in Nat \ {0}, NEW n \in Nat
  PROVE  LET ranges == _fixed_segment_ranges(n, period, d)
         IN /\ ranges \in Seq(Range0) /\ Len(ranges) = n
            /\ n * period >= d =>
                 \A t \in 0..d - 1 : \E i \in 1..Len(ranges) : Holds(ranges[i], t)
<1> DEFINE r == [i \in 1..n |-> Span((i - 1) * period, Least(i * period, d))]
<1>1. _fixed_segment_ranges(n, period, d) = r
  BY DEF _fixed_segment_ranges
<1>2. ASSUME NEW i \in 1..n
      PROVE  /\ (i - 1) * period \in Nat /\ i * period \in Nat
             /\ i * period = (i - 1) * period + period
             /\ Least(i * period, d) = IF i * period <= d THEN i * period ELSE d
             /\ r[i] = [lo |-> (i - 1) * period, hi |-> Least(i * period, d)]
  <2>1. (i - 1) * period \in Nat /\ i * period \in Nat /\ i * period = (i - 1) * period + period
    <3>1. \A x \in Nat : x * period \in Nat
      OBVIOUS
    <3>2. i - 1 \in Nat /\ i \in Nat
      OBVIOUS
    <3>3. i * period = (i - 1) * period + period
      OBVIOUS
    <3> QED BY <3>1, <3>2, <3>3
  <2>2. Least(i * period, d) = IF i * period <= d THEN i * period ELSE d
    BY <2>1, LeastIs
  <2> QED BY <2>1, <2>2 DEF Span
<1>3. r \in Seq(Range0) /\ Len(r) = n
  <2>1. \A i \in 1..n : Span((i - 1) * period, Least(i * period, d)) \in Range0
    BY <1>2 DEF Range0, Span
  <2>2. r \in [1..n -> Range0]
    BY <2>1
  <2> HIDE DEF r
  <2> QED BY <2>2, SeqFromFunction
<1> HIDE DEF r
<1>4. ASSUME n * period >= d, NEW t \in 0..d - 1 PROVE \E i \in 1..n : Holds(r[i], t)
  <2> DEFINE i == (t \div period) + 1
  <2>1. i \in Nat \ {0} /\ (i - 1) * period <= t /\ t < i * period
    OBVIOUS
  <2>2. i <= n
    <3> SUFFICES ASSUME ~ i <= n PROVE FALSE
      OBVIOUS
    <3>1. n <= i - 1 /\ n \in Int /\ i - 1 \in Int
      BY <2>1
    <3> HIDE DEF i
    <3>2. n * period <= (i - 1) * period
      BY <3>1, TimesMonotone
    <3>3. n * period \in Int /\ (i - 1) * period \in Int
      BY <2>1
    <3> QED BY <1>4, <2>1, <3>2, <3>3
  <2> HIDE DEF i
  <2>3. i \in 1..n
    BY <2>1, <2>2
  <2>4. r[i].lo = (i - 1) * period /\ r[i].hi = IF i * period <= d THEN i * period ELSE d
    <3>1. r[i] = [lo |-> (i - 1) * period, hi |-> Least(i * period, d)]
      BY <1>2, <2>3
    <3>2. r[i].lo = (i - 1) * period /\ r[i].hi = Least(i * period, d)
      BY <3>1
    <3> QED BY <1>2, <2>3, <3>2
  <2> QED BY <2>1, <2>3, <2>4 DEF Holds
<1> QED BY <1>1, <1>3, <1>4

------------------------------------------------------------------------------
(* The segments in hand.                                                     *)

LEMMA WholeIs ==
  ASSUME NEW ranges \in Seq(Range0), NEW audio \in Seq(Range0), Len(audio) <= Len(ranges)
  PROVE  /\ Whole(ranges, audio) \in Seq(Item) /\ Len(Whole(ranges, audio)) = Len(audio)
         /\ \A i \in 1..Len(audio) : Whole(ranges, audio)[i].range = ranges[i]
<1> DEFINE n == Len(audio)
           w == [i \in 1..n |-> [range |-> ranges[i], audio |-> audio[i], split |-> SplitPiece]]
<1>1. n \in Nat /\ DOMAIN audio = 1..n /\ Len(ranges) \in Nat
  BY LenProperties
<1>2. Whole(ranges, audio) = w
  BY <1>1 DEF Whole
<1>3. \A i \in 1..n : ranges[i] \in Range0 /\ audio[i] \in Range0
  <2>1. \A i \in 1..n : i \in 1..Len(ranges)
    BY <1>1
  <2> QED BY <2>1, ElementOfSeq
<1>4. w \in [1..n -> Item]
  BY <1>3, ConstantsTyped DEF Item
<1>5. \A i \in 1..n : w[i].range = ranges[i]
  OBVIOUS
<1> HIDE DEF w
<1> QED BY <1>1, <1>2, <1>4, <1>5, SeqFromFunction

LEMMA TiledHolds ==
  ASSUME NEW ranges, NEW lo \in Nat, NEW hi \in Nat, NEW most, Tiled(ranges, lo, hi, most),
         NEW t \in Int, lo <= t, t < hi
  PROVE  \E i \in 1..Len(ranges) : Holds(ranges[i], t)
<1> DEFINE before == {i \in 1..Len(ranges) : ranges[i].lo <= t}
<1>1. /\ Len(ranges) \in Nat \ {0} /\ ranges[1].lo = lo /\ ranges[Len(ranges)].hi = hi
      /\ \A i \in 1..Len(ranges) :
           /\ ranges[i].lo \in Nat /\ ranges[i].hi \in Nat
           /\ i < Len(ranges) => ranges[i].hi = ranges[i + 1].lo
  BY DEF Tiled
<1>2. 1 \in before /\ before \in SUBSET Nat /\ \A i \in before : i <= Len(ranges)
  BY <1>1
<1> HIDE DEF before
<1>3. PICK i \in before : \A j \in before : j <= i
  BY <1>1, <1>2, NatGreatest
<1>4. i \in 1..Len(ranges) /\ ranges[i].lo <= t /\ i + 1 \notin before
  BY <1>2, <1>3 DEF before
<1>5. t < ranges[i].hi
  <2>1. CASE i = Len(ranges)
    BY <1>1, <2>1
  <2>2. CASE i # Len(ranges)
    <3>1. i < Len(ranges) /\ i + 1 \in 1..Len(ranges)
      BY <1>1, <1>4, <2>2
    <3>2. ~ ranges[i + 1].lo <= t
      BY <1>4, <3>1 DEF before
    <3>3. ranges[i].hi = ranges[i + 1].lo /\ ranges[i].hi \in Nat
      BY <1>1, <1>4, <3>1
    <3> QED BY <3>2, <3>3
  <2> QED BY <2>1, <2>2
<1> QED BY <1>4, <1>5 DEF Holds

\* The pieces of a divided segment are segments again and hold all of it.
LEMMA PiecesHold ==
  ASSUME NEW seg \in Item, Length(seg.range) > MinPiece
  PROVE  /\ Pieces(seg) \in Seq(Item)
         /\ \A t \in Int : Holds(seg.range, t) => Awaits(Pieces(seg), t)
<1>1. PICK lo \in Nat, hi \in Nat : seg.range = Span(lo, hi) /\ lo = seg.range.lo /\ hi = seg.range.hi
  BY DEF Item, Range0, Span
<1>2. lo < hi /\ hi - lo > MinPiece /\ hi - lo \in Nat /\ lo + (hi - lo) = hi
  <2>1. Length(seg.range) = hi - lo
    BY <1>1 DEF Length
  <2> QED BY <2>1, ConstantsTyped
<1>3. seg.split \in Nat \ {0} /\ seg.audio.lo \in Nat /\ seg.audio.hi \in Nat
  BY DEF Item, Range0
<1>4. PICK size \in Nat \ {0} : size = NextPiece(seg.range, seg.split)
  BY <1>1, <1>2, <1>3, NextPieceIs
<1>5. PICK ps : ps = _split_segment_ranges(seg.range, size)
  OBVIOUS
<1>6. Tiled(ps, lo, hi, size)
  BY <1>1, <1>2, <1>5, PiecesTile
<1>7. ps \in Seq(Range0) /\ Len(ps) \in Nat /\ DOMAIN ps = 1..Len(ps)
  BY <1>6 DEF Tiled, Range0
<1> DEFINE half == Greatest(MinPiece, size \div 2)
           q == [i \in 1..Len(ps) |->
                   [range |-> ps[i], audio |-> Excerpt(seg, ps[i]), split |-> half]]
<1>8. Pieces(seg) = q
  BY <1>4, <1>5, <1>7 DEF Pieces
<1>9. half \in Nat \ {0}
  <2>1. size \div 2 \in Nat
    OBVIOUS
  <2> QED BY <2>1, ConstantsTyped, GreatestIs
<1>10. ASSUME NEW i \in 1..Len(ps) PROVE ps[i] \in Range0 /\ Excerpt(seg, ps[i]) \in Range0
  <2>1. ps[i].lo \in Nat /\ ps[i].hi \in Nat /\ lo <= ps[i].lo /\ ps[i].lo < ps[i].hi
    BY <1>6 DEF Tiled
  <2> DEFINE at(t) == Least(seg.audio.hi, seg.audio.lo + t - seg.range.lo)
  <2>2. ASSUME NEW t \in Nat, lo <= t PROVE at(t) \in Nat
    <3>1. seg.audio.lo + t - seg.range.lo \in Nat
      BY <1>1, <1>3, <2>2, SMTT(30)
    <3> QED BY <1>3, <3>1, LeastIs
  <2>3. Excerpt(seg, ps[i]) = [lo |-> at(ps[i].lo), hi |-> at(ps[i].hi)]
    BY DEF Excerpt, Span
  <2>4. at(ps[i].lo) \in Nat /\ at(ps[i].hi) \in Nat
    BY <2>1, <2>2
  <2> HIDE DEF at
  <2>5. ps[i] \in Range0
    BY <1>7, ElementOfSeq
  <2> QED BY <2>3, <2>4, <2>5 DEF Range0
<1> HIDE DEF half
<1>11. q \in [1..Len(ps) -> Item] /\ \A i \in 1..Len(ps) : q[i].range = ps[i]
  BY <1>9, <1>10 DEF Item
<1> HIDE DEF q
<1>12. q \in Seq(Item) /\ Len(q) = Len(ps)
  BY <1>7, <1>11, SeqFromFunction
<1>13. ASSUME NEW t \in Int, Holds(seg.range, t) PROVE Awaits(q, t)
  <2>1. PICK i \in 1..Len(ps) : Holds(ps[i], t)
    BY <1>1, <1>6, <1>13, TiledHolds DEF Holds
  <2> QED BY <1>11, <1>12, <2>1 DEF Awaits
<1> QED BY <1>8, <1>12, <1>13

\* What awaits its turn is the segment in hand or in the rest.
LEMMA HeadOrRest ==
  ASSUME NEW queue \in Seq(Item), queue # <<>>
  PROVE  /\ Head(queue) \in Item /\ Tail(queue) \in Seq(Item)
         /\ \A t \in Int : Awaits(queue, t) =>
              Holds(Head(queue).range, t) \/ Awaits(Tail(queue), t)
<1>1. /\ Head(queue) \in Item /\ Tail(queue) \in Seq(Item)
      /\ Len(Tail(queue)) = Len(queue) - 1 /\ Len(queue) \in Nat
      /\ \A i \in 1..Len(Tail(queue)) : Tail(queue)[i] = queue[i + 1]
      /\ Head(queue) = queue[1]
  BY HeadTailProperties, LenProperties
<1>2. ASSUME NEW t \in Int, Awaits(queue, t)
      PROVE  Holds(Head(queue).range, t) \/ Awaits(Tail(queue), t)
  <2>1. PICK i \in 1..Len(queue) : Holds(queue[i].range, t)
    BY <1>2 DEF Awaits
  <2>2. CASE i = 1
    BY <1>1, <2>1, <2>2
  <2>3. CASE i # 1
    <3>1. i - 1 \in 1..Len(Tail(queue)) /\ (i - 1) + 1 = i
      BY <1>1, <2>3
    <3>2. Tail(queue)[i - 1] = queue[i]
      BY <1>1, <3>1
    <3> QED BY <2>1, <3>1, <3>2 DEF Awaits
  <2> QED BY <2>2, <2>3
<1> QED BY <1>1, <1>2

LEMMA AwaitsEither ==
  ASSUME NEW a \in Seq(Item), NEW b \in Seq(Item)
  PROVE  /\ a \o b \in Seq(Item)
         /\ \A t \in Int : Awaits(a, t) \/ Awaits(b, t) => Awaits(a \o b, t)
<1>1. /\ a \o b \in Seq(Item) /\ Len(a \o b) = Len(a) + Len(b)
      /\ \A i \in 1..Len(a) + Len(b) : (a \o b)[i] = IF i <= Len(a) THEN a[i] ELSE b[i - Len(a)]
  BY ConcatProperties
<1>2. Len(a) \in Nat /\ Len(b) \in Nat
  BY LenProperties
<1> DEFINE c == a \o b
<1> HIDE DEF c
<1>3. Len(c) = Len(a) + Len(b) /\ \A i \in 1..Len(c) : c[i] = IF i <= Len(a) THEN a[i] ELSE b[i - Len(a)]
  BY <1>1 DEF c
<1>4. ASSUME NEW t \in Int, Awaits(a, t) PROVE Awaits(c, t)
  <2>1. PICK i \in 1..Len(a) : Holds(a[i].range, t)
    BY <1>4 DEF Awaits
  <2>2. i \in 1..Len(c) /\ c[i] = a[i]
    BY <1>2, <1>3
  <2> QED BY <2>1, <2>2 DEF Awaits
<1>5. ASSUME NEW t \in Int, Awaits(b, t) PROVE Awaits(c, t)
  <2>1. PICK i \in 1..Len(b) : Holds(b[i].range, t)
    BY <1>5 DEF Awaits
  <2>2. Len(a) + i \in 1..Len(c) /\ (Len(a) + i) - Len(a) = i /\ ~ Len(a) + i <= Len(a)
    BY <1>2, <1>3
  <2>3. c[Len(a) + i] = b[i]
    BY <1>3, <2>2
  <2> QED BY <2>1, <2>2, <2>3 DEF Awaits
<1> QED BY <1>1, <1>4, <1>5 DEF c

------------------------------------------------------------------------------
(* The first layer: types, and where the work stands.                        *)

Layer1 == TypeOK /\ Shape

LEMMA Layer1Init == Init => Layer1
<1> SUFFICES ASSUME Init PROVE Layer1
  OBVIOUS
<1>1. TypeOK
  <2>1. row \in [status : {"none", "failed", "success"}, pages : Seq(SUBSET Segment)]
        /\ row.status = "none" /\ Len(row.pages) = 0
    BY DEF Init
  <2>2. cache \in [Pages -> SUBSET Entry] /\ temp \in [Pages -> Seq(Range0)]
    BY DEF Init
  <2>3. plan = <<>> /\ todo = <<>> /\ done = <<>> /\ out = {} /\ Len(plan) = 0
    BY DEF Init
  <2>4. plan \in Seq(Range0) /\ done \in Seq(SUBSET Segment)
        /\ todo \in Seq([range : Range0, audio : Range0, split : Nat \ {0}])
    BY <2>3
  <2>5. retry \in BOOLEAN
    BY Zenon DEF Init
  <2> QED BY <2>1, <2>2, <2>3, <2>4, <2>5, ConstantsTyped DEF Init, TypeOK
<1>2. Shape
  BY DEF Init, Shape
<1> QED BY <1>1, <1>2 DEF Layer1

\* An attempt without pages: what Blank sets.
Blanked(m, n) ==
         /\ model' = m /\ attempt' = n /\ plan' = <<>> /\ how' = "vad" /\ cutting' = 1
         /\ todo' = <<>> /\ out' = {} /\ tries' = 1 /\ done' = <<>> /\ retry' = FALSE
         /\ Len(plan') = 0 /\ Len(done') = 0 /\ plan' \in Seq(Range0) /\ todo' \in Seq(Item)
         /\ done' \in Seq(SUBSET Segment) /\ retry' \in BOOLEAN

LEMMA BlankIs == \A m, n : Blank(m, n) => Blanked(m, n)
<1> SUFFICES ASSUME NEW m, NEW n, Blank(m, n) PROVE Blanked(m, n)
  OBVIOUS
<1>1. retry' = FALSE
  BY DEF Blank
<1>2. retry' \in BOOLEAN
  BY <1>1
<1>3. /\ model' = m /\ attempt' = n /\ plan' = <<>> /\ how' = "vad" /\ cutting' = 1
      /\ todo' = <<>> /\ out' = {} /\ tries' = 1 /\ done' = <<>>
  BY DEF Blank
<1> QED BY <1>1, <1>2, <1>3 DEF Blanked

\* Types do not change where nothing changes.
LEMMA TypeFrom ==
  ASSUME TypeOK
  PROVE  /\ row \in [status : {"none", "failed", "success"}, pages : Seq(SUBSET Segment)]
         /\ Len(row.pages) = (IF row.status = "success" THEN Len(Duration) ELSE 0)
         /\ cache \in [Pages -> SUBSET Entry] /\ temp \in [Pages -> Seq(Range0)]
         /\ model \in Models /\ attempt \in 0..MaxAttempts /\ tries \in 1..RateAttempts
         /\ plan \in Seq(Range0) /\ cutting \in 1..Len(plan) + 1
         /\ todo \in Seq(Item) /\ out \subseteq Segment /\ done \in Seq(SUBSET Segment)
         /\ Len(plan) \in Nat /\ Len(done) \in Nat /\ page \in Nat
         /\ runs \in 0..MaxRuns /\ crashes \in 0..MaxCrashes /\ retry \in BOOLEAN
         /\ (attempt = 0) <=> (pc = "idle")
<1>1. plan \in Seq(Range0) /\ done \in Seq(SUBSET Segment)
  BY DEF TypeOK
<1>2. Len(plan) \in Nat /\ Len(done) \in Nat
  BY <1>1
<1> QED BY <1>1, <1>2 DEF TypeOK, Item, page

LEMMA StartType == ASSUME Layer1, NEW m \in Models, Start(m) PROVE Layer1'
<1>1. /\ pc' = "download" /\ runs' = runs + 1 /\ runs < MaxRuns /\ Blanked(m, 1)
      /\ UNCHANGED <<row, cache, speech, bought, crashes>> /\ temp' = temp
  BY BlankIs DEF Start, cleanup_orphan_temp_dirs
<1>2. page' = 1 /\ 1 \in Pages
  BY <1>1, ConstantsTyped DEF Blanked, page
<1>3. runs' \in 0..MaxRuns /\ attempt' \in 0..MaxAttempts /\ tries' \in 1..RateAttempts
      /\ cutting' \in 1..Len(plan') + 1
  BY <1>1, ConstantsTyped DEF Blanked, Layer1, TypeOK
<1>4. TypeOK'
  BY <1>1, <1>2, <1>3 DEF Blanked, Layer1, TypeOK, Item
<1>5. Shape'
  BY <1>1 DEF Shape
<1> QED BY <1>4, <1>5 DEF Layer1

LEMMA FailType == ASSUME Layer1, pc # "idle", NEW error, Fail(error) PROVE Layer1'
<1>1. /\ pc' = "failing" /\ retry' = _is_retryable(error) /\ temp' = [p \in Pages |-> <<>>]
      /\ UNCHANGED <<row, cache, model, attempt, plan, how, cutting, todo, out, tries, done>>
      /\ UNCHANGED history
  BY DEF Fail
<1>2. temp' \in [Pages -> Seq(Range0)]
  BY <1>1
<1>3. retry' \in BOOLEAN
  BY <1>1, Zenon DEF _is_retryable
<1>4. TypeOK'
  BY <1>1, <1>2, <1>3 DEF Layer1, TypeOK, history
<1>5. Shape'
  BY <1>1 DEF Shape
<1> QED BY <1>4, <1>5 DEF Layer1

LEMMA RecordFailureType == ASSUME Layer1, RecordFailure PROVE Layer1'
<1>1. row' \in [status : {"none", "failed", "success"}, pages : Seq(SUBSET Segment)]
      /\ row'.status = "failed" /\ Len(row'.pages) = 0
  BY DEF RecordFailure
<1>2. UNCHANGED <<cache, temp, history>> /\ pc = "failing"
  BY DEF RecordFailure
<1>3. CASE retry /\ attempt < MaxAttempts
  <2>1. pc' = "download" /\ Blanked(model, attempt + 1)
    BY <1>3, BlankIs DEF RecordFailure
  <2>2. page' = 1 /\ 1 \in Pages
    BY <2>1, ConstantsTyped DEF Blanked, page
  <2>3. attempt' \in 0..MaxAttempts /\ attempt' # 0 /\ tries' \in 1..RateAttempts
        /\ cutting' \in 1..Len(plan') + 1
    BY <1>3, <2>1, ConstantsTyped DEF Blanked, Layer1, TypeOK
  <2>4. TypeOK'
    BY <1>1, <1>2, <2>1, <2>2, <2>3 DEF Blanked, Layer1, TypeOK, Item, history
  <2>5. Shape'
    BY <2>1 DEF Shape
  <2> QED BY <2>4, <2>5 DEF Layer1
<1>4. CASE ~(retry /\ attempt < MaxAttempts)
  <2>1. pc' = "idle" /\ Blanked(model, 0)
    BY <1>4, BlankIs DEF RecordFailure
  <2>2. attempt' \in 0..MaxAttempts /\ tries' \in 1..RateAttempts /\ cutting' \in 1..Len(plan') + 1
    BY <2>1, ConstantsTyped DEF Blanked
  <2>3. TypeOK'
    BY <1>1, <1>2, <2>1, <2>2 DEF Blanked, Layer1, TypeOK, Item, history
  <2>4. Shape'
    BY <2>1 DEF Shape
  <2> QED BY <2>3, <2>4 DEF Layer1
<1> QED BY <1>3, <1>4

\* A step that only moves on, from one call to the next.
LEMMA AwaitType ==
  ASSUME Layer1, NEW from, NEW to, Await(from, to), from # "idle",
         from \in {"download", "fetch", "mp3"}, to \in {"fetch", "mp3", "convert"}
  PROVE  Layer1'
<1>1. CASE pc' = to /\ UNCHANGED <<disk, work, history>>
  <2>1. TypeOK'
    BY <1>1 DEF Await, Layer1, TypeOK, disk, work, history, page
  <2>2. Shape'
    BY <1>1 DEF Shape
  <2> QED BY <2>1, <2>2 DEF Layer1
<1>2. CASE \E error \in {"audio", "other"} : Fail(error)
  BY <1>2, FailType DEF Await
<1> QED BY <1>1, <1>2 DEF Await

LEMMA ConvertWholeType == ASSUME Layer1, ConvertWhole PROVE Layer1'
<1>1. Duration[page] \in Nat
  BY ConstantsTyped DEF ConvertWhole, Layer1, TypeOK
<1> DEFINE one == <<Span(0, Duration[page])>>
<1>2. one \in Seq(Range0) /\ Len(one) <= Len(one)
  BY <1>1 DEF Span, Range0
<1> HIDE DEF one
<1>3. Whole(one, one) \in Seq(Item)
  BY <1>2, WholeIs
<1>4. TypeOK'
  BY <1>3 DEF ConvertWhole, Layer1, TypeOK, disk, history, Item, page, one
<1>5. Shape'
  BY DEF ConvertWhole, Shape
<1> QED BY <1>4, <1>5 DEF Layer1

\* A cut begins with no file of its own, whatever lies in the directory.
LEMMA CutType ==
  ASSUME Layer1, pc = "convert", ~FitsWhole(Duration[page]), NEW ranges \in Seq(Range0),
         NEW by \in {"vad", "fixed"}, Cut(ranges, by)
  PROVE  Layer1'
<1>1. Len(ranges) \in Nat
  BY LenProperties
<1>2. cutting' \in 1..Len(plan') + 1 /\ plan' = ranges
  BY <1>1 DEF Cut
<1>3. TypeOK'
  BY <1>2 DEF Cut, Layer1, TypeOK, disk, history, page
<1>4. page' = page /\ temp' = temp /\ cutting' = 1 /\ page \in Pages
  BY DEF Cut, Layer1, TypeOK, disk, page
<1>5. Len(temp[page]) \in Nat
  BY <1>4 DEF Layer1, TypeOK
<1>6. Shape'
  <2>1. pc' = "cut"
    BY DEF Cut
  <2>2. Len(temp'[page']) >= cutting' - 1 /\ ~FitsWhole(Duration[page'])
    BY <1>4, <1>5
  <2> QED BY <2>1, <2>2 DEF Shape
<1> QED BY <1>3, <1>6 DEF Layer1

LEMMA ConvertVadType == ASSUME Layer1, ConvertVad PROVE Layer1'
<1>1. pc = "convert" /\ ~FitsWhole(Duration[page]) /\ Duration[page] \in Nat
  BY ConstantsTyped DEF ConvertVad, Layer1, TypeOK
<1>2. pick_split_points(Duration[page], speech, SegmentCap(Duration[page])) \in Seq(Range0)
  BY <1>1, VadPlanCovers
<1> QED BY <1>1, <1>2, CutType DEF ConvertVad

LEMMA FixedPlanIs ==
  ASSUME NEW d \in Nat, ~FitsWhole(d)
  PROVE  LET cap == SegmentCap(d)
         IN /\ CeilDiv(d, cap) \in Nat /\ CeilDiv(d, cap) * cap >= d
            /\ _fixed_segment_ranges(CeilDiv(d, cap), cap, d) \in Seq(Range0)
            /\ Len(_fixed_segment_ranges(CeilDiv(d, cap), cap, d)) = CeilDiv(d, cap)
<1>1. PICK cap \in Nat \ {0} : cap = SegmentCap(d) /\ cap < d
  BY CapIs
<1>2. d \in Nat \ {0}
  BY <1>1
<1>3. CeilDiv(d, cap) \in Nat \ {0} /\ d <= CeilDiv(d, cap) * cap
  BY <1>1, <1>2, CeilDivIs
<1>4. CeilDiv(d, cap) * cap \in Int
  BY <1>3
<1>5. CeilDiv(d, cap) * cap >= d
  BY <1>3, <1>4
<1> QED BY <1>1, <1>3, <1>5, FixedCovers

LEMMA ConvertFixedType == ASSUME Layer1, ConvertFixed PROVE Layer1'
<1>1. pc = "convert" /\ ~FitsWhole(Duration[page]) /\ Duration[page] \in Nat
  BY ConstantsTyped DEF ConvertFixed, Layer1, TypeOK
<1> QED BY <1>1, FixedPlanIs, CutType DEF ConvertFixed

LEMMA CutNextType == ASSUME Layer1, CutNext PROVE Layer1'
<1> DEFINE files == temp[page]
           next == IF cutting \in DOMAIN files THEN [files EXCEPT ![cutting] = plan[cutting]]
                                               ELSE Append(files, plan[cutting])
<1>1. /\ pc = "cut" /\ cutting <= Len(plan) /\ cutting' = cutting + 1
      /\ temp' = [temp EXCEPT ![page] = next]
  BY DEF CutNext
<1>2. /\ page \in Pages /\ files \in Seq(Range0) /\ Len(files) \in Nat
      /\ Len(files) >= cutting - 1 /\ cutting \in 1..Len(plan) + 1 /\ Len(plan) \in Nat
      /\ plan \in Seq(Range0)
  <2>1. page \in Pages /\ files \in Seq(Range0) /\ cutting \in 1..Len(plan) + 1 /\ plan \in Seq(Range0)
    BY <1>1 DEF Layer1, TypeOK
  <2>2. Len(files) >= cutting - 1
    BY <1>1 DEF Layer1, Shape
  <2> HIDE DEF files
  <2> QED BY <2>1, <2>2, LenProperties
<1> HIDE DEF files
<1>3. plan[cutting] \in Range0 /\ cutting \in Nat
  BY <1>1, <1>2, ElementOfSeq
<1>4. next \in Seq(Range0) /\ Len(next) >= cutting
  <2>1. DOMAIN files = 1..Len(files)
    BY <1>2, LenProperties
  <2>2. CASE cutting \in DOMAIN files
    <3>1. [files EXCEPT ![cutting] = plan[cutting]] \in Seq(Range0)
          /\ Len([files EXCEPT ![cutting] = plan[cutting]]) = Len(files)
      BY <1>2, <1>3, <2>1, <2>2, ExceptSeq
    <3> QED BY <1>2, <2>1, <2>2, <3>1
  <2>3. CASE cutting \notin DOMAIN files
    <3>1. Append(files, plan[cutting]) \in Seq(Range0)
          /\ Len(Append(files, plan[cutting])) = Len(files) + 1
      BY <1>2, <1>3, AppendProperties
    <3> QED BY <1>2, <2>3, <3>1
  <2> QED BY <2>2, <2>3
<1> HIDE DEF next
<1>5. temp' \in [Pages -> Seq(Range0)] /\ temp'[page] = next
  BY <1>1, <1>2, <1>4 DEF Layer1, TypeOK
<1>6. cutting' \in 1..Len(plan) + 1
  BY <1>1, <1>2
<1>7. TypeOK'
  BY <1>5, <1>6 DEF CutNext, Layer1, TypeOK, history, page
<1>8. Shape'
  <2>1. page' = page /\ pc' = "cut"
    BY <1>1 DEF CutNext, page
  <2>2. Len(temp'[page']) >= cutting' - 1
    BY <1>1, <1>3, <1>4, <1>5, <2>1, LenProperties
  <2> QED BY <1>1, <2>1, <2>2 DEF Shape, Layer1
<1> QED BY <1>7, <1>8 DEF Layer1

\* The segments of a finished cut: a nominal range for each of the files.
LEMMA CutDoneIs ==
  ASSUME Layer1, CutDone
  PROVE  /\ todo' \in Seq(Item)
         /\ how = "vad" => /\ Len(todo') = Len(plan)
                           /\ \A i \in 1..Len(plan) : todo'[i].range = plan[i]
         /\ how = "fixed" =>
              LET d == Duration[page]
                  ranges == _fixed_segment_ranges(Len(temp[page]), SegmentCap(d), d)
              IN Len(todo') = Len(ranges) /\ \A i \in 1..Len(ranges) : todo'[i].range = ranges[i]
<1>1. pc = "cut" /\ cutting > Len(plan)
  BY DEF CutDone
<1>2. /\ page \in Pages /\ temp[page] \in Seq(Range0) /\ plan \in Seq(Range0)
      /\ cutting \in 1..Len(plan) + 1 /\ how \in {"vad", "fixed"}
      /\ Len(temp[page]) >= cutting - 1 /\ ~FitsWhole(Duration[page])
  BY <1>1 DEF Layer1, TypeOK, Shape
<1>3. PICK files \in Seq(Range0) : files = temp[page]
  BY <1>2
<1>4. Len(files) \in Nat /\ Len(plan) \in Nat /\ Len(files) >= Len(plan)
  <2>1. Len(files) \in Nat /\ Len(plan) \in Nat
    BY <1>2, LenProperties
  <2> QED BY <1>1, <1>2, <1>3, <2>1
<1>5. CASE how = "vad"
  <2>1. todo' = Whole(plan, SubSeq(files, 1, Len(plan)))
    BY <1>3, <1>5 DEF CutDone
  <2>2. SubSeq(files, 1, Len(plan)) \in Seq(Range0) /\ Len(SubSeq(files, 1, Len(plan))) = Len(plan)
    <3>1. \A i \in 1..Len(plan) : files[i] \in Range0
      <4>1. \A i \in 1..Len(plan) : i \in 1..Len(files)
        BY <1>4
      <4> QED BY <4>1, ElementOfSeq
    <3>2. /\ SubSeq(files, 1, Len(plan)) \in Seq(Range0)
          /\ Len(SubSeq(files, 1, Len(plan))) = IF 1 <= Len(plan) THEN Len(plan) - 1 + 1 ELSE 0
      BY <1>4, <3>1, SubSeqProperties
    <3> QED BY <1>4, <3>2
  <2>3. PICK audio \in Seq(Range0) : audio = SubSeq(files, 1, Len(plan)) /\ Len(audio) = Len(plan)
    BY <2>2
  <2>4. Len(audio) <= Len(plan)
    BY <1>4, <2>3
  <2>5. /\ todo' \in Seq(Item) /\ Len(todo') = Len(plan)
        /\ \A i \in 1..Len(plan) : todo'[i].range = plan[i]
    <3>1. todo' = Whole(plan, audio)
      BY <2>1, <2>3
    <3>2. plan \in Seq(Range0) /\ audio \in Seq(Range0)
      BY <1>2, <2>3
    <3>3. /\ Whole(plan, audio) \in Seq(Item) /\ Len(Whole(plan, audio)) = Len(audio)
          /\ \A i \in 1..Len(audio) : Whole(plan, audio)[i].range = plan[i]
      BY <2>4, <3>2, WholeIs, Zenon
    <3>4. Len(audio) = Len(plan)
      BY <2>3
    <3> QED BY <3>1, <3>3, <3>4, Zenon
  <2>6. how # "fixed"
    BY <1>5
  <2> QED BY <2>5, <2>6, Zenon
<1>6. CASE how = "fixed"
  <2>1. Duration[page] \in Nat
    BY <1>2, ConstantsTyped
  <2>2. PICK d \in Nat, cap \in Nat \ {0} : d = Duration[page] /\ cap = SegmentCap(d)
    BY <1>2, <2>1, CapIs
  <2>3. PICK ranges \in Seq(Range0) :
          ranges = _fixed_segment_ranges(Len(files), cap, d) /\ Len(ranges) = Len(files)
    <3>1. Len(files) \in Nat
      BY <1>4
    <3>2. /\ _fixed_segment_ranges(Len(files), cap, d) \in Seq(Range0)
          /\ Len(_fixed_segment_ranges(Len(files), cap, d)) = Len(files)
      BY <3>1, FixedCovers
    <3> QED BY <3>2, Zenon
  <2>4. todo' = Whole(ranges, files)
    BY <1>3, <1>6, <2>2, <2>3 DEF CutDone
  <2>5. Len(files) <= Len(ranges)
    BY <1>4, <2>3
  <2>6. /\ todo' \in Seq(Item) /\ Len(todo') = Len(files)
        /\ \A i \in 1..Len(files) : todo'[i].range = ranges[i]
    BY <2>4, <2>5, WholeIs
  <2> QED BY <1>3, <1>6, <2>2, <2>3, <2>6
<1> QED BY <1>2, <1>5, <1>6

LEMMA CutDoneType == ASSUME Layer1, CutDone PROVE Layer1'
<1>1. todo' \in Seq(Item)
  BY CutDoneIs
<1>2. TypeOK'
  BY <1>1 DEF CutDone, Layer1, TypeOK, disk, history, Item, page
<1>3. Shape'
  BY DEF CutDone, Shape
<1> QED BY <1>2, <1>3 DEF Layer1

LEMMA CutFailsType == ASSUME Layer1, CutFails PROVE Layer1'
BY FailType DEF CutFails

\* The segment in hand and those behind it.
LEMMA InHand ==
  ASSUME Layer1, todo # <<>>
  PROVE  Seg \in Item /\ Tail(todo) \in Seq(Item) /\ Seg.range \in Range0
<1>1. todo \in Seq(Item)
  BY TypeFrom DEF Layer1
<1>2. Seg \in Item /\ Tail(todo) \in Seq(Item)
  BY <1>1, HeadOrRest DEF Seg
<1> QED BY <1>2 DEF Item

LEMMA SettleType ==
  ASSUME Layer1, todo # <<>>, pc = "ask", NEW kind \in Kind, Settle(kind),
         cache' \in [Pages -> SUBSET Entry]
  PROVE  Layer1'
<1>1. out' \subseteq Segment
  <2>1. [range |-> Seg.range, kind |-> kind, model |-> model] \in Segment
    BY InHand DEF Layer1, TypeOK, Segment
  <2>2. out' = out \union {[range |-> Seg.range, kind |-> kind, model |-> model]}
    BY DEF Settle
  <2> QED BY <2>1, <2>2 DEF Layer1, TypeOK
<1>2. todo' \in Seq(Item)
  BY InHand DEF Settle
<1>3. tries' \in 1..RateAttempts
  BY ConstantsTyped DEF Settle
<1>4. TypeOK'
  BY <1>1, <1>2, <1>3 DEF Settle, Layer1, TypeOK, Item, page
<1>5. Shape'
  BY DEF Settle, Shape
<1> QED BY <1>4, <1>5 DEF Layer1

LEMMA CacheHitType == ASSUME Layer1, CacheHit PROVE Layer1'
<1>1. pc = "lookup" /\ todo # <<>> /\ page \in Pages
  BY DEF CacheHit, Layer1, TypeOK
<1>2. PICK e \in find(page, Seg.range) :
        /\ out' = out \union {[range |-> e.range, kind |-> "text", model |-> e.model]}
        /\ todo' = Tail(todo)
  BY DEF CacheHit
<1>3. e \in Entry
  BY <1>1 DEF find, Layer1, TypeOK
<1>4. out' \subseteq Segment
  <2>1. [range |-> e.range, kind |-> "text", model |-> e.model] \in Segment
    BY <1>3 DEF Entry, Segment, Kind
  <2> QED BY <1>2, <2>1 DEF Layer1, TypeOK
<1>5. todo' \in Seq(Item)
  BY <1>1, <1>2, InHand
<1>6. TypeOK'
  BY <1>4, <1>5 DEF CacheHit, Layer1, TypeOK, disk, history, Item, page
<1>7. Shape'
  BY <1>1 DEF CacheHit, Shape
<1> QED BY <1>6, <1>7 DEF Layer1

LEMMA CacheMissType == ASSUME Layer1, CacheMiss PROVE Layer1'
<1>1. tries' \in 1..RateAttempts
  BY ConstantsTyped DEF CacheMiss
<1>2. TypeOK'
  BY <1>1 DEF CacheMiss, Layer1, TypeOK, disk, history, page
<1>3. Shape'
  BY DEF CacheMiss, Shape
<1> QED BY <1>2, <1>3 DEF Layer1

LEMMA TextAnswerType == ASSUME Layer1, TextAnswer PROVE Layer1'
<1>1. pc = "ask" /\ todo # <<>> /\ page \in Pages
  BY DEF TextAnswer, Layer1, TypeOK, Shape
<1>2. [range |-> Seg.range, model |-> model] \in Entry
  BY <1>1, InHand DEF Layer1, TypeOK, Entry
<1>3. cache' \in [Pages -> SUBSET Entry]
  <2>1. upsert(cache[page], [range |-> Seg.range, model |-> model]) \in SUBSET Entry
    BY <1>1, <1>2 DEF upsert, Layer1, TypeOK
  <2>2. cache' = [cache EXCEPT ![page] = upsert(cache[page], [range |-> Seg.range, model |-> model])]
    BY DEF TextAnswer
  <2> QED BY <1>1, <2>1, <2>2 DEF Layer1, TypeOK
<1> QED BY <1>1, <1>3, SettleType DEF TextAnswer, Kind

LEMMA RateLimitedType == ASSUME Layer1, RateLimited PROVE Layer1'
<1>1. pc = "ask"
  BY DEF RateLimited
<1>2. CASE tries < RateAttempts /\ tries' = tries + 1
           /\ UNCHANGED <<disk, pc, model, attempt, plan, how, cutting, todo, out, done, retry, history>>
  <2>1. tries' \in 1..RateAttempts
    BY <1>2, ConstantsTyped DEF Layer1, TypeOK
  <2>2. TypeOK'
    BY <1>2, <2>1 DEF Layer1, TypeOK, disk, history, page
  <2>3. Shape'
    BY <1>1, <1>2 DEF Layer1, Shape
  <2> QED BY <2>2, <2>3 DEF Layer1
<1>3. CASE Fail("audio")
  BY <1>1, <1>3, FailType
<1> QED BY <1>2, <1>3 DEF RateLimited

LEMMA EmptyAnswerType == ASSUME Layer1, EmptyAnswer PROVE Layer1'
<1>1. pc = "ask" /\ todo # <<>>
  BY DEF EmptyAnswer, Layer1, Shape
<1>2. CASE Settle("empty") /\ UNCHANGED <<cache, bought>>
  <2>1. cache' \in [Pages -> SUBSET Entry]
    BY <1>2 DEF Layer1, TypeOK
  <2> QED BY <1>1, <1>2, <2>1, SettleType DEF Kind
<1>3. CASE Fail("empty")
  BY <1>1, <1>3, FailType
<1> QED BY <1>2, <1>3 DEF EmptyAnswer

LEMMA ErrorAnswerType == ASSUME Layer1, ErrorAnswer PROVE Layer1'
BY FailType DEF ErrorAnswer

LEMMA ResistedType == ASSUME Layer1, Resisted PROVE Layer1'
<1>1. pc = "ask" /\ todo # <<>>
  BY DEF Resisted, Layer1, Shape
<1>2. CASE Settle("resisted") /\ UNCHANGED <<cache, bought>>
  <2>1. cache' \in [Pages -> SUBSET Entry]
    BY <1>2 DEF Layer1, TypeOK
  <2> QED BY <1>1, <1>2, <2>1, SettleType DEF Kind
<1>3. CASE /\ ~(Length(Seg.range) <= MinPiece)
           /\ todo' = Pieces(Seg) \o Tail(todo) /\ pc' = "lookup" /\ tries' = 1
           /\ UNCHANGED <<disk, model, attempt, plan, how, cutting, out, done, retry, history>>
  <2>1. Length(Seg.range) > MinPiece
    <3>1. Length(Seg.range) \in Int
      BY <1>1, InHand DEF Range0, Length
    <3> QED BY <1>3, <3>1, ConstantsTyped
  <2>2. todo' \in Seq(Item)
    <3>1. Pieces(Seg) \in Seq(Item)
      BY <1>1, <2>1, InHand, PiecesHold
    <3> QED BY <1>1, <1>3, <3>1, InHand, AwaitsEither
  <2>3. tries' \in 1..RateAttempts
    BY <1>3, ConstantsTyped
  <2>4. TypeOK'
    BY <1>1, <1>3, <2>2, <2>3 DEF Layer1, TypeOK, disk, history, Item, page
  <2>5. Shape'
    BY <1>3 DEF Shape
  <2> QED BY <2>4, <2>5 DEF Layer1
<1>4. CASE \E error \in {"audio", "other"} : Fail(error)
  BY <1>1, <1>4, FailType
<1> QED BY <1>2, <1>3, <1>4 DEF Resisted

LEMMA PageDoneType == ASSUME Layer1, PageDone PROVE Layer1'
<1>1. /\ pc = "lookup" /\ done' = Append(done, out) /\ out' = {}
      /\ pc' = IF page = Len(Duration) THEN "result" ELSE "download"
      /\ UNCHANGED <<disk, model, attempt, plan, how, cutting, todo, tries, retry, history>>
  BY DEF PageDone
<1>2. /\ done \in Seq(SUBSET Segment) /\ out \in SUBSET Segment /\ page \in Pages
      /\ Len(done) \in Nat /\ page = Len(done) + 1
  BY <1>1, TypeFrom DEF Layer1, TypeOK, page
<1>3. done' \in Seq(SUBSET Segment) /\ Len(done') = page
  BY <1>1, <1>2, AppendProperties
<1>4. page' = page + 1
  BY <1>3 DEF page
<1>5. CASE page = Len(Duration)
  <2>1. pc' = "result"
    BY <1>1, <1>5
  <2>2. TypeOK'
    BY <1>1, <1>3, <2>1 DEF Layer1, TypeOK, disk, history
  <2>3. Shape'
    BY <1>3, <1>5, <2>1 DEF Shape
  <2> QED BY <2>2, <2>3 DEF Layer1
<1>6. CASE page # Len(Duration)
  <2>1. pc' = "download"
    BY <1>1, <1>6
  <2>2. page' \in Pages
    BY <1>2, <1>4, <1>6, ConstantsTyped
  <2>3. TypeOK'
    BY <1>1, <1>3, <2>1, <2>2 DEF Layer1, TypeOK, disk, history
  <2>4. Shape'
    BY <2>1 DEF Shape
  <2> QED BY <2>3, <2>4 DEF Layer1
<1> QED BY <1>5, <1>6

LEMMA AllEmptyType == ASSUME Layer1, AllEmpty PROVE Layer1'
BY FailType DEF AllEmpty

LEMMA ClearType == ASSUME Layer1, Clear PROVE Layer1'
<1>1. cache' \in [Pages -> SUBSET Entry] /\ temp' \in [Pages -> Seq(Range0)]
  BY DEF Clear
<1>2. TypeOK'
  BY <1>1 DEF Clear, Layer1, TypeOK, work, page
<1>3. Shape'
  BY DEF Clear, Layer1, Shape, work
<1> QED BY <1>2, <1>3 DEF Layer1

LEMMA SaveSuccessType == ASSUME Layer1, SaveSuccess PROVE Layer1'
<1>1. /\ pc = "save" /\ row' = [status |-> "success", pages |-> done] /\ pc' = "idle"
      /\ Blanked(model, 0) /\ UNCHANGED <<cache, temp, history>>
  BY BlankIs DEF SaveSuccess
<1>2. done \in Seq(SUBSET Segment) /\ Len(done) = Len(Duration)
  BY <1>1 DEF Layer1, TypeOK, Shape
<1>3. attempt' \in 0..MaxAttempts /\ tries' \in 1..RateAttempts /\ cutting' \in 1..Len(plan') + 1
  BY <1>1, ConstantsTyped DEF Blanked
<1>4. TypeOK'
  BY <1>1, <1>2, <1>3 DEF Blanked, Layer1, TypeOK, Item, history
<1>5. Shape'
  BY <1>1 DEF Shape
<1> QED BY <1>4, <1>5 DEF Layer1

LEMMA DeleteType == ASSUME Layer1, delete_uid PROVE Layer1'
<1>1. row' \in [status : {"none", "failed", "success"}, pages : Seq(SUBSET Segment)]
      /\ row'.status = "none" /\ Len(row'.pages) = 0
  BY DEF delete_uid
<1>2. TypeOK'
  BY <1>1 DEF delete_uid, Layer1, TypeOK, work, history, page
<1>3. Shape'
  BY DEF delete_uid, Layer1, Shape
<1> QED BY <1>2, <1>3 DEF Layer1

LEMMA CrashType == ASSUME Layer1, Crash PROVE Layer1'
<1>1. /\ pc' = "idle" /\ crashes < MaxCrashes /\ crashes' = crashes + 1 /\ Blanked(model, 0)
      /\ UNCHANGED <<disk, speech, bought, runs>>
  BY BlankIs DEF Crash
<1>2. attempt' \in 0..MaxAttempts /\ tries' \in 1..RateAttempts /\ cutting' \in 1..Len(plan') + 1
      /\ crashes' \in 0..MaxCrashes
  BY <1>1, ConstantsTyped DEF Blanked, Layer1, TypeOK
<1>3. TypeOK'
  BY <1>1, <1>2 DEF Blanked, Layer1, TypeOK, Item, disk
<1>4. Shape'
  BY <1>1 DEF Shape
<1> QED BY <1>3, <1>4 DEF Layer1

LEMMA StutterType == ASSUME Layer1, UNCHANGED vars PROVE Layer1'
<1>1. TypeOK'
  BY DEF Layer1, TypeOK, vars, disk, work, history, page
<1>2. Shape'
  BY DEF Layer1, Shape, vars, disk, work, history, page
<1> QED BY <1>1, <1>2 DEF Layer1

\* Every step keeps the first layer.
LEMMA Layer1Step == ASSUME Layer1, [Next]_vars PROVE Layer1'
<1>1. CASE \E m \in Models : Start(m)
  BY <1>1, StartType
<1>2. CASE get_audio_url \/ download_to_file \/ convert_m4s_to_mp3
  BY <1>2, AwaitType DEF get_audio_url, download_to_file, convert_m4s_to_mp3
<1>3. CASE ConvertWhole \/ ConvertVad \/ ConvertFixed \/ CutNext \/ CutDone \/ CutFails
  BY <1>3, ConvertWholeType, ConvertVadType, ConvertFixedType, CutNextType, CutDoneType,
     CutFailsType
<1>4. CASE CacheHit \/ CacheMiss \/ TextAnswer \/ RateLimited \/ EmptyAnswer \/ ErrorAnswer
  BY <1>4, CacheHitType, CacheMissType, TextAnswerType, RateLimitedType, EmptyAnswerType,
     ErrorAnswerType
<1>5. CASE HighRisk \/ LengthTruncated
  BY <1>5, ResistedType DEF HighRisk, LengthTruncated
<1>6. CASE PageDone \/ AllEmpty \/ Clear \/ SaveSuccess \/ RecordFailure
  BY <1>6, PageDoneType, AllEmptyType, ClearType, SaveSuccessType, RecordFailureType
<1>7. CASE Crash \/ delete_uid
  BY <1>7, CrashType, DeleteType
<1>8. CASE UNCHANGED vars
  BY <1>8, StutterType
<1> QED BY <1>1, <1>2, <1>3, <1>4, <1>5, <1>6, <1>7, <1>8 DEF Next, Step

LEMMA Layer1Always == Spec => []Layer1
<1>1. Layer1 /\ [Next]_vars => Layer1'
  BY Layer1Step
<1> QED BY Layer1Init, <1>1, PTL DEF Spec

\* The work of a video keeps its types, whatever the services answer, through failures,
\* crashes and later runs.
THEOREM TypeCorrect == Spec => []TypeOK
<1>1. Layer1 => TypeOK
  BY DEF Layer1
<1> QED BY Layer1Always, <1>1, PTL

------------------------------------------------------------------------------
(* The second layer: what was bought is in the cache.                        *)

LEMMA FailKeeps ==
  ASSUME NEW error, Fail(error)
  PROVE  /\ pc' = "failing"
         /\ UNCHANGED <<row, cache, model, attempt, plan, how, cutting, todo, out, tries, done>>
         /\ UNCHANGED <<speech, bought, runs, crashes>>
BY DEF Fail, history

LEMMA CachedKept ==
  ASSUME Cached, UNCHANGED <<cache, bought>>, pc' # "ask"
  PROVE  Cached'
BY DEF Cached

\* Most steps look at nothing in the cache and ask for nothing.
LEMMA CachedElsewhere ==
  ASSUME Cached,
         \/ \E m \in Models : Start(m)
         \/ get_audio_url \/ download_to_file \/ convert_m4s_to_mp3
         \/ ConvertWhole \/ ConvertVad \/ ConvertFixed \/ CutNext \/ CutDone \/ CutFails
         \/ CacheHit \/ EmptyAnswer \/ ErrorAnswer \/ Resisted
         \/ PageDone \/ AllEmpty \/ SaveSuccess \/ RecordFailure \/ Crash \/ delete_uid
  PROVE  Cached'
<1>1. CASE \E m \in Models : Start(m)
  BY <1>1, CachedKept DEF Start
<1>2. CASE get_audio_url \/ download_to_file \/ convert_m4s_to_mp3
  BY <1>2, CachedKept, FailKeeps
  DEF get_audio_url, download_to_file, convert_m4s_to_mp3, Await, disk, history
<1>3. CASE ConvertWhole \/ ConvertVad \/ ConvertFixed \/ CutNext \/ CutDone \/ CutFails
  BY <1>3, CachedKept, FailKeeps
  DEF ConvertWhole, ConvertVad, ConvertFixed, Cut, CutNext, CutDone, CutFails, disk, history
<1>4. CASE CacheHit
  BY <1>4, CachedKept DEF CacheHit, disk, history
<1>5. CASE EmptyAnswer \/ ErrorAnswer
  BY <1>5, CachedKept, FailKeeps DEF EmptyAnswer, ErrorAnswer, Settle
<1>6. CASE Resisted
  BY <1>6, CachedKept, FailKeeps DEF Resisted, Settle, disk, history
<1>7. CASE PageDone \/ AllEmpty \/ SaveSuccess \/ RecordFailure
  BY <1>7, CachedKept, FailKeeps
  DEF PageDone, AllEmpty, SaveSuccess, RecordFailure, disk, history
<1>8. CASE Crash \/ delete_uid
  <2>1. CASE Crash
    BY <2>1, CachedKept DEF Crash, disk
  <2>2. CASE delete_uid
    BY <2>2, CachedKept DEF delete_uid, history
  <2> QED BY <1>8, <2>1, <2>2
<1> QED BY <1>1, <1>2, <1>3, <1>4, <1>5, <1>6, <1>7, <1>8

LEMMA CacheMissCached == ASSUME Layer1, Cached, CacheMiss PROVE Cached'
<1>1. /\ find(page, Seg.range) = {} /\ page \in Pages /\ cache' = cache /\ bought' = bought
      /\ todo' = todo /\ done' = done /\ model' = model
  BY DEF CacheMiss, Layer1, TypeOK, disk, history
<1>2. Seg' = Seg /\ page' = page
  BY <1>1 DEF Seg, page
<1>3. [range |-> Seg.range, model |-> model] \notin cache[page]
  <2> SUFFICES ASSUME [range |-> Seg.range, model |-> model] \in cache[page] PROVE FALSE
    OBVIOUS
  <2>1. [range |-> Seg.range, model |-> model] \in find(page, Seg.range)
    BY DEF find
  <2> QED BY <1>1, <2>1
<1> QED BY <1>1, <1>2, <1>3 DEF Cached

LEMMA TextAnswerCached == ASSUME Layer1, Cached, TextAnswer PROVE Cached'
<1> DEFINE e == [range |-> Seg.range, model |-> model]
<1>1. /\ pc' = "lookup" /\ page \in Pages /\ bought' = bought \union {<<page, Seg.range, model>>}
      /\ cache' = [cache EXCEPT ![page] = upsert(@, e)]
  BY DEF TextAnswer, Settle, Layer1, TypeOK
<1>2. upsert(cache[page], e) = cache[page] \union {e}
  BY DEF upsert
<1>3. cache \in [Pages -> SUBSET Entry]
  BY DEF Layer1, TypeOK
<1>4. /\ \A p \in Pages : cache[p] \subseteq cache'[p]
      /\ e \in cache'[page]
  BY <1>1, <1>2, <1>3
<1>5. ASSUME NEW b \in bought'
      PROVE  b[1] \in Pages /\ [range |-> b[2], model |-> b[3]] \in cache'[b[1]]
  <2>1. CASE b \in bought
    BY <1>4, <2>1 DEF Cached
  <2>2. CASE b = <<page, Seg.range, model>>
    <3>1. b[1] = page /\ [range |-> b[2], model |-> b[3]] = e
      BY <2>2
    <3> QED BY <1>1, <1>4, <3>1
  <2> QED BY <1>1, <2>1, <2>2
<1> QED BY <1>1, <1>5 DEF Cached

LEMMA RateLimitedCached == ASSUME Layer1, Cached, RateLimited PROVE Cached'
<1>1. CASE UNCHANGED <<disk, pc, model, attempt, plan, how, cutting, todo, out, done, retry, history>>
  BY <1>1 DEF Cached, Seg, page, disk, history
<1>2. CASE Fail("audio")
  BY <1>2, CachedKept, FailKeeps
<1> QED BY <1>1, <1>2 DEF RateLimited

LEMMA ClearCached == ASSUME Cached, Clear PROVE Cached'
BY DEF Cached, Clear

LEMMA CachedStep == ASSUME Layer1, Cached, [Next]_vars PROVE Cached'
<1>1. CASE CacheMiss \/ TextAnswer \/ RateLimited \/ Clear
  BY <1>1, CacheMissCached, TextAnswerCached, RateLimitedCached, ClearCached
<1>2. CASE UNCHANGED vars
  BY <1>2 DEF Cached, vars, disk, work, history, Seg, page
<1> QED BY <1>1, <1>2, CachedElsewhere DEF Next, Step, HighRisk, LengthTruncated

\* No text is paid for twice: what is sent has no answer since the cache was cleared,
\* over pages, attempts, crashes, runs and models (ASRCacheStore.upsert and find).
THEOREM PaidOnceHolds == Spec => []PaidOnce
<1>1. Init => Cached
  BY DEF Init, Cached
<1>2. Layer1 /\ Cached /\ [Next]_vars => Cached'
  BY CachedStep
<1>3. Cached => PaidOnce
  <2> SUFFICES ASSUME Cached, pc = "ask", <<page, Seg.range, model>> \in bought PROVE FALSE
    BY DEF PaidOnce
  <2> DEFINE b == <<page, Seg.range, model>>
  <2>1. [range |-> b[2], model |-> b[3]] \in cache[b[1]]
    BY DEF Cached
  <2>2. b[1] = page /\ b[2] = Seg.range /\ b[3] = model
    OBVIOUS
  <2> HIDE DEF b
  <2> QED BY <2>1, <2>2 DEF Cached
<1> QED BY Layer1Always, <1>1, <1>2, <1>3, PTL DEF Spec

------------------------------------------------------------------------------
(* The third layer: one model.                                               *)

\* Most steps add nothing to what was collected, or drop all of it.
LEMMA ModelledKept ==
  ASSUME Modelled, UNCHANGED row \/ row'.status # "success",
         \/ UNCHANGED <<out, done, model>>
         \/ out' = {} /\ done' = <<>>
  PROVE  Modelled'
<1>1. OneModel'
  BY DEF Modelled, OneModel
<1>2. CASE UNCHANGED <<out, done, model>>
  BY <1>1, <1>2 DEF Modelled
<1>3. CASE out' = {} /\ done' = <<>>
  <2>1. Len(done') = 0 /\ 1..0 = {}
    BY <1>3
  <2> QED BY <1>1, <1>3, <2>1 DEF Modelled
<1> QED BY <1>2, <1>3

LEMMA ModelledElsewhere ==
  ASSUME Modelled,
         \/ \E m \in Models : Start(m)
         \/ get_audio_url \/ download_to_file \/ convert_m4s_to_mp3
         \/ ConvertWhole \/ ConvertVad \/ ConvertFixed \/ CutNext \/ CutDone \/ CutFails
         \/ CacheMiss \/ RateLimited \/ ErrorAnswer
         \/ AllEmpty \/ Clear \/ RecordFailure \/ Crash \/ delete_uid
  PROVE  Modelled'
<1>1. CASE \E m \in Models : Start(m)
  BY <1>1, ModelledKept DEF Start, Blank
<1>2. CASE get_audio_url \/ download_to_file \/ convert_m4s_to_mp3
  BY <1>2, ModelledKept, FailKeeps
  DEF get_audio_url, download_to_file, convert_m4s_to_mp3, Await, disk, work
<1>3. CASE ConvertWhole \/ ConvertVad \/ ConvertFixed \/ CutNext \/ CutDone \/ CutFails
  BY <1>3, ModelledKept, FailKeeps
  DEF ConvertWhole, ConvertVad, ConvertFixed, Cut, CutNext, CutDone, CutFails, disk
<1>4. CASE CacheMiss \/ RateLimited \/ ErrorAnswer
  BY <1>4, ModelledKept, FailKeeps DEF CacheMiss, RateLimited, ErrorAnswer, disk
<1>5. CASE AllEmpty \/ Clear
  BY <1>5, ModelledKept, FailKeeps DEF AllEmpty, Clear, work
<1>6. CASE RecordFailure
  BY <1>6, ModelledKept DEF RecordFailure, Blank
<1>7. CASE Crash \/ delete_uid
  BY <1>7, ModelledKept DEF Crash, delete_uid, Blank, disk, work
<1> QED BY <1>1, <1>2, <1>3, <1>4, <1>5, <1>6, <1>7

LEMMA SettleModelled ==
  ASSUME Modelled, NEW kind, Settle(kind)
  PROVE  Modelled'
<1>1. /\ out' = out \union {[range |-> Seg.range, kind |-> kind, model |-> model]}
      /\ row' = row /\ done' = done /\ model' = model
  BY DEF Settle
<1>2. \A s \in out' : s.model = model
  BY <1>1 DEF Modelled
<1> QED BY <1>1, <1>2 DEF Modelled, OneModel

LEMMA CacheHitModelled == ASSUME Modelled, CacheHit PROVE Modelled'
<1>1. /\ row' = row /\ done' = done /\ model' = model
  BY DEF CacheHit, disk
<1>2. PICK e \in find(page, Seg.range) :
        out' = out \union {[range |-> e.range, kind |-> "text", model |-> e.model]}
  BY DEF CacheHit
<1>3. e.model = model
  BY DEF find
<1>4. \A s \in out' : s.model = model
  BY <1>2, <1>3 DEF Modelled
<1> QED BY <1>1, <1>4 DEF Modelled, OneModel

LEMMA PageDoneModelled == ASSUME Layer1, Modelled, PageDone PROVE Modelled'
<1>1. done' = Append(done, out) /\ out' = {} /\ row' = row /\ model' = model
  BY DEF PageDone, disk
<1>2. done \in Seq(SUBSET Segment) /\ out \in SUBSET Segment /\ Len(done) \in Nat
  BY TypeFrom DEF Layer1
<1>3. /\ Len(done') = Len(done) + 1 /\ done'[Len(done) + 1] = out
      /\ \A i \in 1..Len(done) : done'[i] = done[i]
  BY <1>1, <1>2, AppendProperties
<1>4. ASSUME NEW i \in 1..Len(done') PROVE \A s \in done'[i] : s.model = model
  <2>1. CASE i = Len(done) + 1
    BY <1>3, <2>1 DEF Modelled
  <2>2. CASE i # Len(done) + 1
    <3>1. i \in 1..Len(done)
      BY <1>2, <1>3, <2>2
    <3> QED BY <1>3, <3>1 DEF Modelled
  <2> QED BY <2>1, <2>2
<1> QED BY <1>1, <1>4 DEF Modelled, OneModel

LEMMA SaveSuccessModelled == ASSUME Layer1, Modelled, SaveSuccess PROVE Modelled'
<1>1. /\ row' = [status |-> "success", pages |-> done] /\ pc = "save"
      /\ done' = <<>> /\ out' = {}
  BY DEF SaveSuccess, Blank
<1>2. Pages = 1..Len(done)
  BY <1>1, ConstantsTyped DEF Layer1, Shape
<1>3. OneModel'
  BY <1>1, <1>2 DEF Modelled, OneModel
<1>4. Len(done') = 0 /\ 1..0 = {}
  BY <1>1
<1> QED BY <1>1, <1>3, <1>4 DEF Modelled

LEMMA ModelledStep == ASSUME Layer1, Modelled, [Next]_vars PROVE Modelled'
<1>1. CASE CacheHit \/ PageDone \/ SaveSuccess
  BY <1>1, CacheHitModelled, PageDoneModelled, SaveSuccessModelled
<1>2. CASE TextAnswer \/ EmptyAnswer
  BY <1>2, SettleModelled, ModelledKept, FailKeeps DEF TextAnswer, EmptyAnswer
<1>3. CASE Resisted
  BY <1>3, SettleModelled, ModelledKept, FailKeeps DEF Resisted, disk
<1>4. CASE UNCHANGED vars
  BY <1>4, ModelledKept DEF vars, disk, work
<1> QED BY <1>1, <1>2, <1>3, <1>4, ModelledElsewhere DEF Next, Step, HighRisk, LengthTruncated

\* The texts of a stored transcription come from one model, whatever models other runs
\* put in the shared cache (CachedSegment.matches_namespace).
THEOREM OneModelHolds == Spec => []OneModel
<1>1. Init => Modelled
  <2> SUFFICES ASSUME Init PROVE Modelled
    OBVIOUS
  <2>1. out = {} /\ Len(done) = 0 /\ 1..0 = {} /\ row.status # "success"
    BY DEF Init
  <2> QED BY <2>1 DEF Modelled, OneModel
<1>2. Layer1 /\ Modelled /\ [Next]_vars => Modelled'
  BY ModelledStep
<1>3. Modelled => OneModel
  BY DEF Modelled
<1> QED BY Layer1Always, <1>1, <1>2, <1>3, PTL DEF Spec
------------------------------------------------------------------------------
(* The fourth layer: no audio is lost.                                       *)

\* Many steps touch no page in work, or drop it.
LEMMA CoveredDropped ==
  ASSUME Covered, UNCHANGED row \/ row'.status # "success",
         done' = done \/ done' = <<>>, pc' \notin {"lookup", "ask", "cut"}
  PROVE  Covered'
<1>1. TranscriptComplete'
  BY DEF Covered, TranscriptComplete
<1>2. \A i \in 1..Len(done') : \A t \in 0..Duration[i] - 1 : Settled(done'[i], t)
  <2>1. CASE done' = done
    BY <2>1 DEF Covered
  <2>2. CASE done' = <<>>
    <3>1. Len(done') = 0 /\ 1..0 = {}
      BY <2>2
    <3> QED BY <3>1
  <2> QED BY <2>1, <2>2
<1> QED BY <1>1, <1>2 DEF Covered

\* Or change neither the page in work nor what is known of it.
LEMMA CoveredSame ==
  ASSUME Covered, UNCHANGED <<row, plan, how, todo, out, done>>,
         pc' = pc \/ (pc = "lookup" /\ pc' = "ask")
  PROVE  Covered'
<1>1. TranscriptComplete'
  BY DEF Covered, TranscriptComplete
<1>2. page' = page
  BY DEF page
<1> QED BY <1>1, <1>2 DEF Covered

\* A page in work, settled but for the segments left.
LEMMA CoveredInWork ==
  ASSUME Covered, UNCHANGED <<row, done>>, pc' = "lookup",
         \A t \in 0..Duration[page] - 1 : Settled(out', t) \/ Awaits(todo', t)
  PROVE  Covered'
<1>1. TranscriptComplete'
  BY DEF Covered, TranscriptComplete
<1>2. page' = page
  BY DEF page
<1> QED BY <1>1, <1>2 DEF Covered

\* Taking a segment out of the queue loses nothing if it has a text or is small enough.
LEMMA SettledOrLeft ==
  ASSUME Layer1, Covered, pc \in {"lookup", "ask"}, todo # <<>>, NEW s,
         s.range = Seg.range, s.kind = "text" \/ Length(s.range) <= GivenUp,
         out' = out \union {s}, todo' = Tail(todo)
  PROVE  \A t \in 0..Duration[page] - 1 : Settled(out', t) \/ Awaits(todo', t)
<1> SUFFICES ASSUME NEW t \in 0..Duration[page] - 1
             PROVE  Settled(out', t) \/ Awaits(todo', t)
  OBVIOUS
<1>1. t \in Int
  BY ConstantsTyped DEF Layer1, TypeOK
<1>2. CASE Settled(out, t)
  BY <1>2 DEF Settled
<1>3. CASE Awaits(todo, t)
  <2>1. todo \in Seq(Item)
    BY TypeFrom DEF Layer1
  <2>2. Holds(Seg.range, t) \/ Awaits(Tail(todo), t)
    BY <1>1, <1>3, <2>1, HeadOrRest DEF Seg
  <2>3. CASE Holds(Seg.range, t)
    BY <2>3 DEF Settled
  <2> QED BY <2>2, <2>3
<1> QED BY <1>2, <1>3 DEF Covered

LEMMA SmallIsGivenUp ==
  ASSUME NEW r \in Range0, Length(r) <= MinPiece \/ Length(r) <= EmptySkip
  PROVE  Length(r) <= GivenUp
<1>1. Length(r) \in Int
  BY DEF Range0, Length
<1>2. GivenUp \in Int /\ MinPiece <= GivenUp /\ EmptySkip <= GivenUp
  BY ConstantsTyped, GreatestIs DEF GivenUp
<1> QED BY <1>1, <1>2, ConstantsTyped

LEMMA SettleCovered ==
  ASSUME Layer1, Covered, pc = "ask", NEW kind, Settle(kind),
         kind = "text" \/ Length(Seg.range) <= MinPiece \/ Length(Seg.range) <= EmptySkip
  PROVE  Covered'
<1>1. todo # <<>>
  BY DEF Layer1, Shape
<1> DEFINE s == [range |-> Seg.range, kind |-> kind, model |-> model]
<1>2. s.range = Seg.range /\ s.kind = kind
  OBVIOUS
<1>3. s.kind = "text" \/ Length(s.range) <= GivenUp
  BY <1>1, <1>2, InHand, SmallIsGivenUp
<1>4. out' = out \union {s} /\ todo' = Tail(todo) /\ row' = row /\ done' = done /\ pc' = "lookup"
  BY DEF Settle
<1> HIDE DEF s
<1>5. \A t \in 0..Duration[page] - 1 : Settled(out', t) \/ Awaits(todo', t)
  BY <1>1, <1>2, <1>3, <1>4, SettledOrLeft
<1> QED BY <1>4, <1>5, CoveredInWork

LEMMA CacheHitCovered == ASSUME Layer1, Covered, CacheHit PROVE Covered'
<1>1. /\ pc = "lookup" /\ pc' = "lookup" /\ todo # <<>> /\ row' = row /\ done' = done
  BY DEF CacheHit, disk
<1>2. PICK e \in find(page, Seg.range) :
        /\ out' = out \union {[range |-> e.range, kind |-> "text", model |-> e.model]}
        /\ todo' = Tail(todo)
  BY DEF CacheHit
<1>3. PICK s : s = [range |-> e.range, kind |-> "text", model |-> e.model]
  OBVIOUS
<1>4. s.range = Seg.range /\ s.kind = "text"
  BY <1>3 DEF find
<1>5. \A t \in 0..Duration[page] - 1 : Settled(out', t) \/ Awaits(todo', t)
  BY <1>1, <1>2, <1>3, <1>4, SettledOrLeft
<1> QED BY <1>1, <1>5, CoveredInWork

LEMMA ResistedCovered == ASSUME Layer1, Covered, Resisted PROVE Covered'
<1>1. pc = "ask" /\ todo # <<>>
  BY DEF Resisted, Layer1, Shape
<1>2. CASE Length(Seg.range) <= MinPiece /\ Settle("resisted")
  BY <1>1, <1>2, SettleCovered
<1>3. CASE /\ ~(Length(Seg.range) <= MinPiece)
           /\ todo' = Pieces(Seg) \o Tail(todo) /\ pc' = "lookup"
           /\ UNCHANGED <<disk, out, done>>
  <2>1. Length(Seg.range) > MinPiece
    <3>1. Length(Seg.range) \in Int
      BY <1>1, InHand DEF Range0, Length
    <3> QED BY <1>3, <3>1, ConstantsTyped
  <2>2. Pieces(Seg) \in Seq(Item) /\ \A t \in Int : Holds(Seg.range, t) => Awaits(Pieces(Seg), t)
    BY <1>1, <2>1, InHand, PiecesHold
  <2>3. todo \in Seq(Item) /\ Tail(todo) \in Seq(Item)
    BY <1>1, TypeFrom, InHand DEF Layer1
  <2>4. ASSUME NEW t \in 0..Duration[page] - 1 PROVE Settled(out', t) \/ Awaits(todo', t)
    <3>1. t \in Int
      OBVIOUS
    <3>2. CASE Settled(out, t)
      BY <1>3, <3>2
    <3>3. CASE Awaits(todo, t)
      <4>1. Holds(Seg.range, t) \/ Awaits(Tail(todo), t)
        BY <1>1, <2>3, <3>1, <3>3, HeadOrRest DEF Seg
      <4>2. Awaits(Pieces(Seg), t) \/ Awaits(Tail(todo), t)
        BY <2>2, <3>1, <4>1
      <4>3. Awaits(Pieces(Seg) \o Tail(todo), t)
        BY <2>2, <2>3, <3>1, <4>2, AwaitsEither
      <4> QED BY <1>3, <4>3
    <3> QED BY <1>1, <3>2, <3>3 DEF Covered
  <2> QED BY <1>3, <2>4, CoveredInWork DEF disk
<1>4. CASE \E error \in {"audio", "other"} : Fail(error)
  BY <1>4, FailKeeps, CoveredDropped
<1> QED BY <1>2, <1>3, <1>4 DEF Resisted

LEMMA ConvertWholeCovered == ASSUME Layer1, Covered, ConvertWhole PROVE Covered'
<1>1. PICK d \in Nat : d = Duration[page]
  BY ConstantsTyped DEF ConvertWhole, Layer1, TypeOK
<1> DEFINE one == <<Span(0, d)>>
<1>2. one \in Seq(Range0) /\ Len(one) = 1 /\ one[1] = [lo |-> 0, hi |-> d]
  BY DEF Span, Range0
<1>3. todo' = Whole(one, one) /\ pc' = "lookup" /\ UNCHANGED <<row, done>>
  BY <1>1 DEF ConvertWhole, disk
<1> HIDE DEF one
<1>4. Len(todo') = 1 /\ todo'[1].range = one[1]
  BY <1>2, <1>3, WholeIs
<1>5. \A t \in 0..d - 1 : Awaits(todo', t)
  BY <1>2, <1>4 DEF Awaits, Holds
<1> QED BY <1>1, <1>3, <1>5, CoveredInWork

LEMMA ConvertVadCovered == ASSUME Layer1, Covered, ConvertVad PROVE Covered'
<1>1. ~FitsWhole(Duration[page]) /\ Duration[page] \in Nat
  BY ConstantsTyped DEF ConvertVad, Layer1, TypeOK
<1>2. /\ plan' = pick_split_points(Duration[page], speech, SegmentCap(Duration[page]))
      /\ how' = "vad" /\ pc' = "cut" /\ row' = row /\ done' = done
  BY DEF ConvertVad, Cut, disk
<1>3. \A t \in 0..Duration[page] - 1 : \E i \in 1..Len(plan') : Holds(plan'[i], t)
  BY <1>1, <1>2, VadPlanCovers
<1>4. TranscriptComplete' /\ page' = page
  BY <1>2 DEF Covered, TranscriptComplete, page
<1> QED BY <1>2, <1>3, <1>4 DEF Covered

LEMMA ConvertFixedCovered == ASSUME Layer1, Covered, ConvertFixed PROVE Covered'
<1>1. ~FitsWhole(Duration[page]) /\ Duration[page] \in Nat
  BY ConstantsTyped DEF ConvertFixed, Layer1, TypeOK
<1>2. PICK cap : cap = SegmentCap(Duration[page])
  OBVIOUS
<1>3. /\ plan' = _fixed_segment_ranges(CeilDiv(Duration[page], cap), cap, Duration[page])
      /\ how' = "fixed" /\ pc' = "cut" /\ row' = row /\ done' = done
  BY <1>2 DEF ConvertFixed, Cut, disk
<1>4. Len(plan') = CeilDiv(Duration[page], cap)
  BY <1>1, <1>2, <1>3, FixedPlanIs
<1>5. TranscriptComplete' /\ page' = page
  BY <1>3 DEF Covered, TranscriptComplete, page
<1> QED BY <1>2, <1>3, <1>4, <1>5 DEF Covered

LEMMA CutDoneCovered == ASSUME Layer1, Covered, CutDone PROVE Covered'
<1>1. pc = "cut" /\ cutting > Len(plan) /\ pc' = "lookup" /\ UNCHANGED <<row, done>>
  BY DEF CutDone, disk
<1>2. /\ page \in Pages /\ ~FitsWhole(Duration[page]) /\ how \in {"vad", "fixed"}
      /\ temp[page] \in Seq(Range0) /\ cutting \in 1..Len(plan) + 1
      /\ Len(temp[page]) >= cutting - 1
  BY <1>1 DEF Layer1, TypeOK, Shape
<1>3. CASE how = "vad"
  <2>1. Len(todo') = Len(plan) /\ \A i \in 1..Len(plan) : todo'[i].range = plan[i]
    BY <1>3, CutDoneIs
  <2>2. \A t \in 0..Duration[page] - 1 : Awaits(todo', t)
    BY <1>1, <1>3, <2>1 DEF Covered, Awaits
  <2> QED BY <1>1, <2>2, CoveredInWork
<1>4. CASE how = "fixed"
  <2>1. PICK d \in Nat : d = Duration[page]
    BY <1>2, ConstantsTyped
  <2>2. PICK cap \in Nat \ {0} : cap = SegmentCap(d)
    BY <1>2, <2>1, CapIs
  <2>3. CeilDiv(d, cap) \in Nat /\ CeilDiv(d, cap) * cap >= d
    BY <1>2, <2>1, <2>2, FixedPlanIs
  <2>4. Len(plan) = CeilDiv(d, cap)
    BY <1>1, <1>4, <2>1, <2>2 DEF Covered
  <2>5. PICK n \in Nat : n = Len(temp[page])
    BY <1>2, LenProperties
  <2>6. CeilDiv(d, cap) <= n
    BY <1>1, <1>2, <2>3, <2>4, <2>5
  <2>7. n * cap >= d
    <3>1. PICK m \in Nat : m = CeilDiv(d, cap)
      BY <2>3
    <3>2. m * cap <= n * cap
      BY <2>6, <3>1, TimesMonotone
    <3>3. m * cap \in Int /\ n * cap \in Int
      OBVIOUS
    <3> QED BY <2>3, <3>1, <3>2, <3>3
  <2>8. PICK ranges : ranges = _fixed_segment_ranges(n, cap, d)
    OBVIOUS
  <2>9. \A t \in 0..d - 1 : \E i \in 1..Len(ranges) : Holds(ranges[i], t)
    BY <2>7, <2>8, FixedCovers
  <2>10. Len(todo') = Len(ranges) /\ \A i \in 1..Len(ranges) : todo'[i].range = ranges[i]
    BY <1>4, <2>1, <2>2, <2>5, <2>8, CutDoneIs
  <2>11. \A t \in 0..d - 1 : Awaits(todo', t)
    BY <2>9, <2>10 DEF Awaits
  <2> QED BY <1>1, <2>1, <2>11, CoveredInWork
<1> QED BY <1>2, <1>3, <1>4

\* A page is finished when no segment is left, so it is settled.
LEMMA PageDoneCovered == ASSUME Layer1, Covered, PageDone PROVE Covered'
<1>1. /\ pc = "lookup" /\ todo = <<>> /\ done' = Append(done, out) /\ row' = row
      /\ pc' \notin {"lookup", "ask", "cut"}
  BY DEF PageDone, disk
<1>2. done \in Seq(SUBSET Segment) /\ out \in SUBSET Segment /\ Len(done) \in Nat
      /\ page = Len(done) + 1
  BY TypeFrom DEF Layer1, page
<1>3. /\ Len(done') = page /\ done'[page] = out
      /\ \A i \in 1..Len(done) : done'[i] = done[i]
  BY <1>1, <1>2, AppendProperties
<1>4. \A t \in 0..Duration[page] - 1 : Settled(out, t)
  <2>1. Len(todo) = 0 /\ 1..0 = {}
    BY <1>1
  <2> QED BY <1>1, <2>1 DEF Covered, Awaits
<1>5. ASSUME NEW i \in 1..Len(done'), NEW t \in 0..Duration[i] - 1
      PROVE  Settled(done'[i], t)
  <2>1. CASE i = page
    BY <1>3, <1>4, <2>1
  <2>2. CASE i # page
    <3>1. i \in 1..Len(done)
      BY <1>2, <1>3, <2>2
    <3> QED BY <1>3, <3>1 DEF Covered
  <2> QED BY <2>1, <2>2
<1>6. TranscriptComplete'
  BY <1>1 DEF Covered, TranscriptComplete
<1> QED BY <1>1, <1>5, <1>6 DEF Covered

LEMMA SaveSuccessCovered == ASSUME Layer1, Covered, SaveSuccess PROVE Covered'
<1>1. /\ row' = [status |-> "success", pages |-> done] /\ pc = "save" /\ pc' = "idle"
      /\ done' = <<>>
  BY DEF SaveSuccess, Blank
<1>2. Pages = 1..Len(done)
  BY <1>1, ConstantsTyped DEF Layer1, Shape
<1>3. \A p \in Pages : \A t \in 0..Duration[p] - 1 : Settled(row'.pages[p], t)
  BY <1>1, <1>2 DEF Covered
<1>4. TranscriptComplete'
  BY <1>3 DEF TranscriptComplete, Settled, Holds
<1>5. Len(done') = 0 /\ 1..0 = {}
  BY <1>1
<1> QED BY <1>1, <1>4, <1>5 DEF Covered

LEMMA CoveredElsewhere ==
  ASSUME Covered,
         \/ \E m \in Models : Start(m)
         \/ get_audio_url \/ download_to_file \/ convert_m4s_to_mp3 \/ CutNext \/ CutFails
         \/ CacheMiss \/ RateLimited \/ ErrorAnswer
         \/ AllEmpty \/ Clear \/ RecordFailure \/ Crash \/ delete_uid
  PROVE  Covered'
<1>1. CASE \E m \in Models : Start(m)
  BY <1>1, CoveredDropped DEF Start, Blank
<1>2. CASE get_audio_url \/ download_to_file \/ convert_m4s_to_mp3
  BY <1>2, CoveredDropped, FailKeeps
  DEF get_audio_url, download_to_file, convert_m4s_to_mp3, Await, disk, work
<1>3. CASE CutNext
  BY <1>3, CoveredSame DEF CutNext
<1>4. CASE CutFails
  BY <1>4, CoveredDropped, FailKeeps DEF CutFails
<1>5. CASE CacheMiss
  BY <1>5, CoveredSame DEF CacheMiss, disk
<1>6. CASE RateLimited
  BY <1>6, CoveredSame, CoveredDropped, FailKeeps DEF RateLimited, disk
<1>7. CASE ErrorAnswer
  BY <1>7, CoveredDropped, FailKeeps DEF ErrorAnswer
<1>8. CASE AllEmpty \/ Clear
  BY <1>8, CoveredDropped, FailKeeps DEF AllEmpty, Clear, work
<1>9. CASE RecordFailure
  BY <1>9, CoveredDropped DEF RecordFailure, Blank
<1>10. CASE Crash
  BY <1>10, CoveredDropped DEF Crash, Blank, disk
<1>11. CASE delete_uid
  BY <1>11, CoveredDropped DEF delete_uid, work
<1> QED BY <1>1, <1>2, <1>3, <1>4, <1>5, <1>6, <1>7, <1>8, <1>9, <1>10, <1>11

LEMMA CoveredStep == ASSUME Layer1, Covered, [Next]_vars PROVE Covered'
<1>1. CASE ConvertWhole \/ ConvertVad \/ ConvertFixed \/ CutDone
  BY <1>1, ConvertWholeCovered, ConvertVadCovered, ConvertFixedCovered, CutDoneCovered
<1>2. CASE CacheHit \/ PageDone \/ SaveSuccess \/ Resisted
  BY <1>2, CacheHitCovered, PageDoneCovered, SaveSuccessCovered, ResistedCovered
<1>3. CASE TextAnswer
  BY <1>3, SettleCovered DEF TextAnswer
<1>4. CASE EmptyAnswer
  BY <1>4, SettleCovered, CoveredDropped, FailKeeps DEF EmptyAnswer
<1>5. CASE UNCHANGED vars
  BY <1>5, CoveredSame DEF vars, disk, work
<1> QED BY <1>1, <1>2, <1>3, <1>4, <1>5, CoveredElsewhere
        DEF Next, Step, HighRisk, LengthTruncated

\* A transcription stored as success leaves out no audio: a cut plan, a division of a
\* segment, a resumed run or a cut over an earlier run's files lose no tick
\* (audio_transcribe_page).
THEOREM TranscriptCompleteHolds == Spec => []TranscriptComplete
<1>1. Init => Covered
  <2> SUFFICES ASSUME Init PROVE Covered
    OBVIOUS
  <2>1. Len(done) = 0 /\ 1..0 = {} /\ row.status # "success" /\ pc = "idle"
    BY DEF Init
  <2> QED BY <2>1 DEF Covered, TranscriptComplete
<1>2. Layer1 /\ Covered /\ [Next]_vars => Covered'
  BY CoveredStep
<1>3. Covered => TranscriptComplete
  BY DEF Covered
<1> QED BY Layer1Always, <1>1, <1>2, <1>3, PTL DEF Spec

\* What the runs check of the pure algorithms before the first step, for all settings:
\* the plans of pick_split_points.
THEOREM PlansCoverHolds == Spec => []PlansCover
<1>1. PlansCover
  BY PlansAreSoundAlways DEF PlansCover
<1> QED BY <1>1, PTL

\* The regions of _pcm_to_speech_segments.
THEOREM RegionsSoundHolds == Spec => []RegionsSound
<1>1. RegionsSound
  BY RegionsAreSoundAlways DEF RegionsSound
<1> QED BY <1>1, PTL

\* The pieces of _split_segment_ranges.
THEOREM SplitsTileHolds == Spec => []SplitsTile
<1>1. SplitsTile
  BY SplitsAreSoundAlways DEF SplitsTile
<1> QED BY <1>1, PTL

\* The splices of _splice_pair.
THEOREM SplicesSoundHolds == Spec => []SplicesSound
<1>1. SplicesSound
  BY SplicesAreSoundAlways DEF SplicesSound
<1> QED BY <1>1, PTL

\* The stitching of stitch_transcripts, when the overlap has the letters that the splice
\* asks for and no more than it looks at.
THEOREM StitchSoundHolds == Spec => [](OverlapFits => StitchSound)
<1>1. OverlapFits => StitchSound
  BY StitchUndoesOverlapAlways DEF StitchSound
<1> QED BY <1>1, PTL

------------------------------------------------------------------------------
(* The work ends: the seams left in the segments.                            *)

Within(r, t) == r.lo < t /\ t < r.hi

\* Where the segments of a queue may still be cut, each counted from the queue's end.
Seams(queue) ==
  UNION {{Len(queue) - i} \X (queue[i].range.lo + 1 .. queue[i].range.hi - 1) : i \in 1..Len(queue)}

LEMMA SeamIs ==
  ASSUME NEW queue \in Seq(Item)
  PROVE  /\ IsFiniteSet(Seams(queue)) /\ Cardinality(Seams(queue)) \in Nat
         /\ \A x \in Seams(queue) : \E i \in 1..Len(queue), t \in Int :
              x = <<Len(queue) - i, t>> /\ Within(queue[i].range, t)
         /\ \A i \in 1..Len(queue), t \in Int :
              Within(queue[i].range, t) => <<Len(queue) - i, t>> \in Seams(queue)
<1> DEFINE part(i) == {Len(queue) - i} \X (queue[i].range.lo + 1 .. queue[i].range.hi - 1)
           parts == {part(i) : i \in 1..Len(queue)}
<1>1. Len(queue) \in Nat
  BY LenProperties
<1>2. \A i \in 1..Len(queue) : queue[i].range.lo \in Nat /\ queue[i].range.hi \in Nat
  <2> TAKE i \in 1..Len(queue)
  <2>1. queue[i] \in Item
    BY ElementOfSeq
  <2> QED BY <2>1 DEF Item, Range0
<1>3. Seams(queue) = UNION parts
  BY DEF Seams
<1>4. \A i \in 1..Len(queue) : IsFiniteSet(part(i))
  <2> TAKE i \in 1..Len(queue)
  <2>1. queue[i].range.lo + 1 \in Int /\ queue[i].range.hi - 1 \in Int
    BY <1>2
  <2>2. IsFiniteSet(queue[i].range.lo + 1 .. queue[i].range.hi - 1)
    BY <2>1, FS_Interval
  <2> QED BY <2>2, FS_Singleton, FS_Product
<1>5. \A i \in 1..Len(queue), t \in Int :
        t \in queue[i].range.lo + 1 .. queue[i].range.hi - 1 <=> Within(queue[i].range, t)
  BY <1>2 DEF Within
<1>6. ASSUME NEW x \in Seams(queue)
      PROVE  \E i \in 1..Len(queue), t \in Int :
               x = <<Len(queue) - i, t>> /\ Within(queue[i].range, t)
  <2>1. PICK i \in 1..Len(queue) : x \in part(i)
    BY <1>3, <1>6
  <2>2. PICK t \in queue[i].range.lo + 1 .. queue[i].range.hi - 1 : x = <<Len(queue) - i, t>>
    BY <2>1
  <2>3. t \in Int
    BY <1>2, <2>2
  <2> QED BY <1>5, <2>2, <2>3
<1>7. ASSUME NEW i \in 1..Len(queue), NEW t \in Int, Within(queue[i].range, t)
      PROVE  <<Len(queue) - i, t>> \in Seams(queue)
  <2>1. <<Len(queue) - i, t>> \in part(i)
    BY <1>5, <1>7
  <2> HIDE DEF part
  <2> QED BY <1>3, <2>1
<1>8. IsFiniteSet(parts)
  <2>1. IsFiniteSet(1..Len(queue))
    <3>1. 1 \in Int /\ Len(queue) \in Int
      BY <1>1
    <3> QED BY <3>1, FS_Interval
  <2> HIDE DEF part
  <2> DEFINE g == [i \in 1..Len(queue) |-> part(i)]
  <2>2. g \in Surjection(1..Len(queue), parts)
    BY DEF Surjection
  <2> QED BY <2>1, <2>2, FS_Surjection
<1>9. \A T \in parts : IsFiniteSet(T)
  BY <1>4
<1> HIDE DEF parts
<1>10. IsFiniteSet(Seams(queue))
  BY <1>3, <1>8, <1>9, FS_UNION
<1> QED BY <1>6, <1>7, <1>10, FS_CardinalityType

\* The rest of a queue has no seam of its own.
LEMMA SeamsOfRest ==
  ASSUME NEW queue \in Seq(Item), queue # <<>>
  PROVE  /\ Len(Tail(queue)) = Len(queue) - 1 /\ Len(queue) \in Nat /\ Tail(queue) \in Seq(Item)
         /\ Seams(Tail(queue)) \subseteq Seams(queue)
         /\ Cardinality(Seams(Tail(queue))) <= Cardinality(Seams(queue))
<1>1. /\ Tail(queue) \in Seq(Item)
      /\ Len(Tail(queue)) = Len(queue) - 1 /\ Len(queue) \in Nat
      /\ \A i \in 1..Len(Tail(queue)) : Tail(queue)[i] = queue[i + 1]
  BY HeadTailProperties, LenProperties
<1>2. ASSUME NEW x \in Seams(Tail(queue)) PROVE x \in Seams(queue)
  <2>1. PICK i \in 1..Len(Tail(queue)), t \in Int :
          x = <<Len(Tail(queue)) - i, t>> /\ Within(Tail(queue)[i].range, t)
    BY <1>1, SeamIs
  <2>2. i + 1 \in 1..Len(queue) /\ Len(queue) - (i + 1) = Len(Tail(queue)) - i
    BY <1>1
  <2>3. Within(queue[i + 1].range, t)
    BY <1>1, <2>1
  <2> QED BY <2>1, <2>2, <2>3, SeamIs
<1> QED BY <1>1, <1>2, SeamIs, FS_Subset

\* The ranges of a tiling lie one after the other.
LEMMA TiledApart ==
  ASSUME NEW ranges, NEW lo \in Nat, NEW hi \in Nat, NEW most, Tiled(ranges, lo, hi, most),
         NEW i \in 1..Len(ranges), NEW j \in 1..Len(ranges), i < j
  PROVE  ranges[i].hi <= ranges[j].lo
<1>1. /\ Len(ranges) \in Nat
      /\ \A n \in 1..Len(ranges) :
           /\ ranges[n].lo \in Nat /\ ranges[n].hi \in Nat /\ ranges[n].lo < ranges[n].hi
           /\ n < Len(ranges) => ranges[n].hi = ranges[n + 1].lo
  BY DEF Tiled
<1> DEFINE wrong == {n \in 1..Len(ranges) : i < n /\ ~ ranges[i].hi <= ranges[n].lo}
<1>2. CASE wrong = {}
  BY <1>2
<1>3. CASE wrong # {}
  <2>1. PICK n \in wrong : \A m \in wrong : n <= m
    <3>1. wrong \in SUBSET Nat
      BY <1>1
    <3> HIDE DEF wrong
    <3> QED BY <1>3, <3>1, NatLeast
  <2>2. n \in 1..Len(ranges) /\ i < n /\ ~ ranges[i].hi <= ranges[n].lo /\ n - 1 \notin wrong
    <3>1. n - 1 \in wrong => n <= n - 1
      BY <2>1
    <3> QED BY <1>1, <2>1, <3>1
  <2>3. n - 1 \in 1..Len(ranges) /\ n - 1 < Len(ranges) /\ (n - 1) + 1 = n
    BY <1>1, <2>2
  <2>4. ranges[n - 1].hi = ranges[n].lo /\ ranges[n - 1].lo < ranges[n - 1].hi
    BY <1>1, <2>3
  <2>5. n - 1 # i
    BY <1>1, <2>2, <2>4
  <2>6. ranges[i].hi <= ranges[n - 1].lo
    BY <1>1, <2>2, <2>3, <2>5
  <2> QED BY <1>1, <2>2, <2>3, <2>4, <2>6, SMTT(30)
<1> QED BY <1>2, <1>3

\* A divided segment: two or more pieces that tile it.
LEMMA PiecesAre ==
  ASSUME NEW seg \in Item, Length(seg.range) > MinPiece
  PROVE  /\ Pieces(seg) \in Seq(Item) /\ seg.range.lo \in Nat /\ seg.range.hi \in Nat
         /\ \E ps, size :
              /\ Tiled(ps, seg.range.lo, seg.range.hi, size)
              /\ Len(ps) >= 2 /\ Len(Pieces(seg)) = Len(ps)
              /\ \A i \in 1..Len(ps) : Pieces(seg)[i].range = ps[i]
<1>1. PICK lo \in Nat, hi \in Nat : seg.range = Span(lo, hi) /\ lo = seg.range.lo /\ hi = seg.range.hi
  BY DEF Item, Range0, Span
<1>2. lo < hi /\ hi - lo > MinPiece /\ hi - lo \in Nat \ {0}
  <2>1. Length(seg.range) = hi - lo
    BY <1>1 DEF Length
  <2> QED BY <2>1, ConstantsTyped
<1>3. seg.split \in Nat \ {0}
  BY DEF Item
<1>4. PICK size \in Nat \ {0} : size = NextPiece(seg.range, seg.split) /\ size < hi - lo
  <2>1. PICK n \in Nat : n > MinPiece /\ seg.range = Span(lo, lo + n) /\ n = hi - lo
    BY <1>1, <1>2
  <2>2. n > MinPiece
    BY <2>1
  <2>3. PICK size \in Nat \ {0} : size = NextPiece(Span(lo, lo + n), seg.split) /\ size < n
    BY <1>3, <2>2, NextPieceIs
  <2> QED BY <2>1, <2>3
<1>5. PICK ps : ps = _split_segment_ranges(Span(lo, hi), size)
  OBVIOUS
<1>6. Tiled(ps, lo, hi, size) /\ Len(ps) = CeilDiv(hi - lo, size)
  <2>1. lo < hi
    BY <1>2
  <2> QED BY <1>5, <2>1, PiecesTile
<1>7. Len(ps) >= 2
  <2>1. Len(ps) \in Nat \ {0}
    BY <1>6 DEF Tiled
  <2>2. hi - lo <= CeilDiv(hi - lo, size) * size
    BY <1>2, CeilDivIs
  <2>3. hi - lo <= Len(ps) * size
    BY <1>6, <2>2
  <2>4. 1 * size = size /\ ~(hi - lo <= size)
    BY <1>4
  <2> QED BY <2>1, <2>3, <2>4
<1>8. Pieces(seg) \in Seq(Item)
  BY PiecesHold
<1>9. /\ Pieces(seg) = [i \in DOMAIN ps |->
           [range |-> ps[i], audio |-> Excerpt(seg, ps[i]),
            split |-> Greatest(MinPiece, size \div 2)]]
      /\ DOMAIN ps = 1..Len(ps) /\ Len(ps) \in Nat
  BY <1>1, <1>4, <1>5, <1>6 DEF Pieces, Tiled
<1>10. Len(Pieces(seg)) = Len(ps)
  BY <1>8, <1>9, LenProperties
<1> QED BY <1>1, <1>6, <1>7, <1>8, <1>9, <1>10

\* Dividing a segment uses up a seam, the end of its first piece, and makes none.
LEMMA SeamsOfDivided ==
  ASSUME NEW queue \in Seq(Item), queue # <<>>, Length(Head(queue).range) > MinPiece
  PROVE  /\ Pieces(Head(queue)) \o Tail(queue) \in Seq(Item)
         /\ Cardinality(Seams(Pieces(Head(queue)) \o Tail(queue))) < Cardinality(Seams(queue))
<1> DEFINE seg == Head(queue)
           rest == Tail(queue)
           pieces == Pieces(seg)
           after == pieces \o rest
           n == Len(rest)
<1>1. seg \in Item /\ rest \in Seq(Item) /\ seg = queue[1] /\ n \in Nat /\ Len(queue) = n + 1
  <2>1. seg \in Item /\ rest \in Seq(Item) /\ seg = queue[1] /\ n = Len(queue) - 1
    BY HeadTailProperties
  <2>2. n \in Nat /\ Len(queue) \in Nat
    BY <2>1, LenProperties
  <2> QED BY <2>1, <2>2
<1>2. PICK ps, size :
        /\ Tiled(ps, seg.range.lo, seg.range.hi, size)
        /\ Len(ps) >= 2 /\ Len(pieces) = Len(ps)
        /\ \A i \in 1..Len(ps) : pieces[i].range = ps[i]
  BY <1>1, PiecesAre
<1> DEFINE lo == seg.range.lo
           hi == seg.range.hi
           k == Len(ps)
<1>3. /\ pieces \in Seq(Item) /\ lo \in Nat /\ hi \in Nat /\ k \in Nat /\ k >= 2
      /\ ps[1].lo = lo
      /\ \A i \in 1..k : /\ ps[i].lo \in Nat /\ ps[i].hi \in Nat
                         /\ lo <= ps[i].lo /\ ps[i].lo < ps[i].hi /\ ps[i].hi <= hi
  BY <1>1, <1>2, PiecesAre DEF Tiled
<1>4. /\ after \in Seq(Item) /\ Len(after) = k + n
      /\ \A i \in 1..k + n : after[i] = IF i <= k THEN pieces[i] ELSE rest[i - k]
  <2>1. pieces \in Seq(Item) /\ rest \in Seq(Item) /\ Len(pieces) = k
    BY <1>1, <1>2, <1>3
  <2> HIDE DEF pieces, rest, k
  <2> QED BY <2>1, ConcatProperties
<1>5. \A i, j \in 1..k : i < j => ps[i].hi <= ps[j].lo
  BY <1>2, <1>3, TiledApart
<1> HIDE DEF seg, rest, pieces, after, n, lo, hi, k
\* A seam afterwards: of the rest, or inside a piece.
<1>6. ASSUME NEW x \in Seams(after)
      PROVE  \/ x \in Seams(rest) /\ \E m \in Nat, t \in Int : x = <<m, t>> /\ m < n
             \/ \E i \in 1..k, t \in Int : /\ x = <<(n + k) - i, t>> /\ (n + k) - i >= n
                                           /\ ps[i].lo < t /\ t < ps[i].hi
  <2>1. PICK i \in 1..Len(after), t \in Int : x = <<Len(after) - i, t>> /\ Within(after[i].range, t)
    BY <1>4, <1>6, SeamIs
  <2>2. CASE i <= k
    <3>1. i \in 1..k /\ after[i].range = ps[i] /\ (n + k) - i >= n /\ Len(after) - i = (n + k) - i
      <4>1. n \in Nat /\ k \in Nat /\ Len(after) = k + n
        BY <1>1, <1>3, <1>4
      <4>2. i \in 1..k /\ i \in 1..k + n
        BY <2>1, <2>2, <4>1
      <4>3. after[i] = pieces[i] /\ pieces[i].range = ps[i]
        BY <1>2, <1>4, <2>2, <4>2 DEF k
      <4> QED BY <4>1, <4>2, <4>3
    <3> QED BY <2>1, <3>1 DEF Within
  <2>3. CASE ~ i <= k
    <3>1. i - k \in 1..n /\ after[i] = rest[i - k] /\ Len(after) - i = n - (i - k)
      BY <1>1, <1>3, <1>4, <2>1, <2>3, SMTT(30)
    <3>2. <<n - (i - k), t>> \in Seams(rest)
      BY <1>1, <2>1, <3>1, SeamIs DEF n
    <3>3. n - (i - k) \in Nat /\ n - (i - k) < n
      BY <1>1, <3>1
    <3> QED BY <2>1, <3>1, <3>2, <3>3
  <2> QED BY <2>2, <2>3
<1> DEFINE f == [x \in Seams(after) |-> IF x[1] < n THEN x ELSE <<n, x[2]>>]
<1>7. \A t \in Int : lo < t /\ t < hi => <<n, t>> \in Seams(queue)
  <2> SUFFICES ASSUME NEW t \in Int, lo < t, t < hi PROVE <<n, t>> \in Seams(queue)
    OBVIOUS
  <2>1. 1 \in 1..Len(queue) /\ Len(queue) - 1 = n /\ Within(queue[1].range, t)
    BY <1>1 DEF Within, lo, hi
  <2>2. <<Len(queue) - 1, t>> \in Seams(queue)
    BY <2>1, SeamIs
  <2> QED BY <2>1, <2>2
<1>8. \A x \in Seams(after) : f[x] \in Seams(queue)
  <2> SUFFICES ASSUME NEW x \in Seams(after) PROVE f[x] \in Seams(queue)
    OBVIOUS
  <2>1. CASE x \in Seams(rest) /\ \E m \in Nat, t \in Int : x = <<m, t>> /\ m < n
    <3>1. f[x] = x
      BY <2>1
    <3> QED BY <2>1, <3>1, SeamsOfRest DEF rest
  <2>2. CASE \E i \in 1..k, t \in Int : /\ x = <<(n + k) - i, t>> /\ (n + k) - i >= n
                                        /\ ps[i].lo < t /\ t < ps[i].hi
    <3>1. PICK i \in 1..k, t \in Int : /\ x = <<(n + k) - i, t>> /\ (n + k) - i >= n
                                       /\ ps[i].lo < t /\ t < ps[i].hi
      BY <2>2
    <3>2. f[x] = <<n, t>>
      BY <1>1, <1>3, <3>1
    <3>3. lo < t /\ t < hi
      BY <1>3, <3>1, SMTT(30)
    <3> QED BY <1>7, <3>2, <3>3
  <2> QED BY <1>6, <2>1, <2>2
<1>9. ASSUME NEW x \in Seams(after), NEW y \in Seams(after), f[x] = f[y] PROVE x = y
  <2>1. x[1] < n => f[x] = x
    OBVIOUS
  <2>2. y[1] < n => f[y] = y
    OBVIOUS
  <2>3. ~(x[1] < n) => f[x] = <<n, x[2]>> /\ f[x][1] = n /\ f[x][2] = x[2]
    OBVIOUS
  <2>4. ~(y[1] < n) => f[y] = <<n, y[2]>> /\ f[y][1] = n /\ f[y][2] = y[2]
    OBVIOUS
  <2>5. ~(n < n)
    BY <1>1
  <2> HIDE DEF f
  <2>6. x[1] < n <=> y[1] < n
    BY <1>9, <2>1, <2>2, <2>3, <2>4, <2>5
  <2>7. CASE ~(x[1] < n) /\ ~(y[1] < n)
    <3>1. PICK i \in 1..k, t \in Int : x = <<(n + k) - i, t>> /\ ps[i].lo < t /\ t < ps[i].hi
      BY <1>6, <2>7
    <3>2. PICK j \in 1..k, u \in Int : y = <<(n + k) - j, u>> /\ ps[j].lo < u /\ u < ps[j].hi
      BY <1>6, <2>7
    <3>3. t = u
      BY <1>9, <2>3, <2>4, <2>7, <3>1, <3>2
    <3>4. i = j
      <4>1. t < ps[i].hi /\ ps[i].lo < t /\ t < ps[j].hi /\ ps[j].lo < t
        BY <3>1, <3>2, <3>3
      <4>2. ps[i].hi \in Nat /\ ps[j].hi \in Nat /\ ps[i].lo \in Nat /\ ps[j].lo \in Nat
        BY <1>3
      <4>3. ~(i < j)
        <5>1. i < j => ps[i].hi <= ps[j].lo
          BY <1>5
        <5> QED BY <4>1, <4>2, <5>1
      <4>4. ~(j < i)
        <5>1. j < i => ps[j].hi <= ps[i].lo
          BY <1>5
        <5> QED BY <4>1, <4>2, <5>1
      <4> QED BY <1>3, <4>3, <4>4
    <3> QED BY <3>1, <3>2, <3>3, <3>4
  <2> QED BY <1>9, <2>1, <2>2, <2>6, <2>7
<1> DEFINE last == <<n, ps[1].hi>>
<1>10. last \in Seams(queue) /\ \A x \in Seams(after) : f[x] # last
  <2>1. 1 \in 1..k /\ 2 \in 1..k
    BY <1>3
  <2>2. ps[1].hi \in Int /\ lo < ps[1].hi /\ ps[1].hi < hi
    BY <1>3, <1>5, <2>1, SMTT(30)
  <2>3. ASSUME NEW x \in Seams(after), f[x] = last PROVE FALSE
    <3>1. CASE \E m \in Nat, t \in Int : x = <<m, t>> /\ m < n
      <4>1. f[x] = x /\ x[1] < n
        BY <3>1
      <4> QED BY <1>1, <2>3, <4>1
    <3>2. CASE \E i \in 1..k, t \in Int : /\ x = <<(n + k) - i, t>> /\ (n + k) - i >= n
                                          /\ ps[i].lo < t /\ t < ps[i].hi
      <4>1. PICK i \in 1..k, t \in Int : /\ x = <<(n + k) - i, t>> /\ (n + k) - i >= n
                                         /\ ps[i].lo < t /\ t < ps[i].hi
        BY <3>2
      <4>2. f[x] = <<n, t>>
        BY <1>1, <1>3, <4>1
      <4>3. t = ps[1].hi
        BY <2>3, <4>2
      <4> QED BY <1>3, <1>5, <2>1, <4>1, <4>3, SMTT(30)
    <3> QED BY <1>6, <3>1, <3>2
  <2> QED BY <1>7, <2>2, <2>3
<1>11. f \in Injection(Seams(after), Seams(queue)) /\ f \notin Surjection(Seams(after), Seams(queue))
  <2>1. f \in [Seams(after) -> Seams(queue)]
    BY <1>8
  <2> HIDE DEF f
  <2> QED BY <1>9, <1>10, <2>1 DEF Injection, IsInjective, Surjection
<1> HIDE DEF f
<1>12. /\ Cardinality(Seams(after)) <= Cardinality(Seams(queue))
       /\ Cardinality(Seams(after)) # Cardinality(Seams(queue))
  BY <1>11, SeamIs, FS_Injection
<1>13. Cardinality(Seams(after)) \in Nat /\ Cardinality(Seams(queue)) \in Nat
  BY <1>4, SeamIs
<1> QED BY <1>4, <1>12, <1>13 DEF after, pieces, seg, rest

------------------------------------------------------------------------------
(* The work ends: what is left of it falls at every step.                    *)

\* How far an attempt has come with a page; the seams and the sends tell apart the steps
\* of the segments.
Stage ==
  IF pc = "download" THEN 1 ELSE IF pc = "fetch" THEN 2 ELSE IF pc = "mp3" THEN 3
  ELSE IF pc = "convert" THEN 4 ELSE IF pc = "cut" THEN 5 ELSE IF pc \in {"lookup", "ask"} THEN 6
  ELSE IF pc = "result" THEN 7 ELSE IF pc = "save" THEN 8 ELSE 9

\* Attempts, then pages, then stages of the page, then files to cut, then the segments:
\* where they may still be divided, how many there are, and the sends of the one in hand.
Left ==
  <<MaxAttempts - attempt,
    IF pc = "failing" THEN 0 ELSE Len(Duration) - Len(done),
    9 - Stage,
    Len(plan) + 1 - cutting,
    Cardinality(Seams(todo)),
    Len(todo),
    IF pc = "ask" THEN RateAttempts - tries ELSE RateAttempts>>

\* The i-th part of it falls, and those before it stay.
Falls(i) == Left'[i] < Left[i] /\ \A j \in 1..i - 1 : Left'[j] = Left[j]

\* Every step of the work on a video leaves less of it: seven naturals, in the order of
\* the words of a dictionary, which cannot fall forever (_process_audio_one).
WorkRunsDown ==
  [][pc # "idle" /\ pc' # "idle" => Left' \in [1..7 -> Nat] /\ \E i \in 1..7 : Falls(i)]_<<pc, work>>

\* The parts by number, before and after a step.
LEMMA LeftIs ==
  /\ Left[1] = MaxAttempts - attempt
  /\ Left[2] = IF pc = "failing" THEN 0 ELSE Len(Duration) - Len(done)
  /\ Left[3] = 9 - Stage
  /\ Left[4] = Len(plan) + 1 - cutting
  /\ Left[5] = Cardinality(Seams(todo))
  /\ Left[6] = Len(todo)
  /\ Left[7] = IF pc = "ask" THEN RateAttempts - tries ELSE RateAttempts
  /\ Left'[1] = MaxAttempts - attempt'
  /\ Left'[2] = IF pc' = "failing" THEN 0 ELSE Len(Duration) - Len(done')
  /\ Left'[3] = 9 - Stage'
  /\ Left'[4] = Len(plan') + 1 - cutting'
  /\ Left'[5] = Cardinality(Seams(todo'))
  /\ Left'[6] = Len(todo')
  /\ Left'[7] = IF pc' = "ask" THEN RateAttempts - tries' ELSE RateAttempts
BY DEF Left

\* What the parts range over.
LEMMA LeftNumbers ==
  ASSUME Layer1, pc # "idle"
  PROVE  /\ attempt \in 1..MaxAttempts /\ MaxAttempts \in Nat /\ RateAttempts \in Nat \ {0}
         /\ Len(done) \in Nat /\ Len(Duration) \in Nat
         /\ pc # "failing" => Len(done) <= Len(Duration)
         /\ pc \in {"download", "fetch", "mp3", "convert", "cut", "lookup", "ask"} =>
              Len(done) + 1 <= Len(Duration)
         /\ Len(plan) \in Nat /\ cutting \in 1..Len(plan) + 1 /\ tries \in 1..RateAttempts
         /\ todo \in Seq(Item) /\ Len(todo) \in Nat /\ Cardinality(Seams(todo)) \in Nat
         /\ Stage \in 1..9
<1>1. /\ attempt \in 0..MaxAttempts /\ ((attempt = 0) <=> (pc = "idle"))
      /\ Len(done) \in Nat /\ Len(plan) \in Nat /\ cutting \in 1..Len(plan) + 1
      /\ tries \in 1..RateAttempts /\ todo \in Seq(Item)
  BY TypeFrom DEF Layer1
<1>2. /\ MaxAttempts \in Nat /\ RateAttempts \in Nat \ {0} /\ Len(Duration) \in Nat
      /\ Pages = 1..Len(Duration)
  BY ConstantsTyped
<1>3. attempt \in 1..MaxAttempts
  BY <1>1, <1>2
<1>4. pc \in {"download", "fetch", "mp3", "convert", "cut", "lookup", "ask"} =>
        Len(done) + 1 <= Len(Duration)
  <2>1. pc \in {"download", "fetch", "mp3", "convert", "cut", "lookup", "ask"} => page \in Pages
    BY DEF Layer1, TypeOK
  <2> QED BY <1>1, <1>2, <2>1 DEF page
<1>5. pc # "failing" => Len(done) <= Len(Duration)
  <2>1. pc \in {"result", "save"} => Len(done) = Len(Duration)
    BY DEF Layer1, Shape
  <2>2. pc \in {"idle", "download", "fetch", "mp3", "convert", "cut", "lookup", "ask", "result",
                "save", "failing"}
    BY DEF Layer1, TypeOK
  <2> QED BY <1>1, <1>2, <1>4, <2>1, <2>2
<1>6. Len(todo) \in Nat /\ Cardinality(Seams(todo)) \in Nat
  BY <1>1, SeamIs, LenProperties
<1>7. Stage \in 1..9
  BY DEF Stage
<1> QED BY <1>1, <1>2, <1>3, <1>4, <1>5, <1>6, <1>7

LEMMA SevenNaturals ==
  ASSUME NEW a \in Nat, NEW b \in Nat, NEW c \in Nat, NEW d \in Nat, NEW e \in Nat,
         NEW f \in Nat, NEW g \in Nat
  PROVE  <<a, b, c, d, e, f, g>> \in [1..7 -> Nat]
OBVIOUS

\* What is left is seven naturals.
LEMMA LeftTyped == ASSUME Layer1, pc # "idle" PROVE Left \in [1..7 -> Nat]
<1>1. /\ MaxAttempts - attempt \in Nat /\ 9 - Stage \in Nat /\ Len(plan) + 1 - cutting \in Nat
      /\ (IF pc = "failing" THEN 0 ELSE Len(Duration) - Len(done)) \in Nat
      /\ Cardinality(Seams(todo)) \in Nat /\ Len(todo) \in Nat
      /\ (IF pc = "ask" THEN RateAttempts - tries ELSE RateAttempts) \in Nat
  <2>1. (IF pc = "failing" THEN 0 ELSE Len(Duration) - Len(done)) \in Nat
    BY LeftNumbers
  <2>2. (IF pc = "ask" THEN RateAttempts - tries ELSE RateAttempts) \in Nat
    BY LeftNumbers
  <2>3. \A s \in 1..9 : 9 - s \in Nat
    OBVIOUS
  <2>4. MaxAttempts - attempt \in Nat
    BY LeftNumbers
  <2>5. Len(plan) + 1 - cutting \in Nat
    BY LeftNumbers
  <2> QED BY <2>1, <2>2, <2>3, <2>4, <2>5, LeftNumbers, Zenon
<1>2. PICK b \in Nat, g \in Nat :
        /\ b = (IF pc = "failing" THEN 0 ELSE Len(Duration) - Len(done))
        /\ g = (IF pc = "ask" THEN RateAttempts - tries ELSE RateAttempts)
  BY <1>1
<1>3. Left = <<MaxAttempts - attempt, b, 9 - Stage, Len(plan) + 1 - cutting,
               Cardinality(Seams(todo)), Len(todo), g>>
  BY <1>2, Zenon DEF Left
<1> QED BY <1>1, <1>3, SevenNaturals, Zenon

\* An attempt that ends in an exception goes no further.
LEMMA FailRunsDown ==
  ASSUME Layer1, pc \notin {"idle", "failing"}, NEW error, Fail(error)
  PROVE  \E i \in 1..7 : Falls(i)
<1>1. pc' = "failing" /\ attempt' = attempt
  BY FailKeeps
<1>2. Stage \in 1..8 /\ Stage' = 9
  BY <1>1 DEF Layer1, TypeOK, Stage
<1>3. Left'[1] = Left[1] /\ Left'[2] = 0 /\ Left'[3] < Left[3]
  BY <1>1, <1>2, LeftIs
<1>4. Left[2] \in Nat
  BY LeftNumbers, LeftIs
<1>5. CASE Left[2] = 0
  <2>1. \A j \in 1..3 - 1 : Left'[j] = Left[j]
    BY <1>3, <1>5
  <2> QED BY <1>3, <2>1 DEF Falls
<1>6. CASE Left[2] # 0
  <2>1. Left'[2] < Left[2] /\ \A j \in 1..2 - 1 : Left'[j] = Left[j]
    BY <1>3, <1>4, <1>6
  <2> QED BY <2>1 DEF Falls
<1> QED BY <1>5, <1>6

\* A step to a later stage of the page or of the video.
LEMMA OnRunsDown ==
  ASSUME Layer1, pc \notin {"idle", "failing"}, pc' # "failing", UNCHANGED <<attempt, done>>,
         Stage < Stage', Stage' \in 1..9
  PROVE  \E i \in 1..7 : Falls(i)
<1>1. Left'[1] = Left[1] /\ Left'[2] = Left[2]
  BY LeftIs
<1>2. Left'[3] < Left[3]
  <2>1. Stage \in 1..9
    BY LeftNumbers
  <2>2. \A s, t \in 1..9 : s < t => 9 - t < 9 - s
    OBVIOUS
  <2>3. 9 - Stage' < 9 - Stage
    BY <2>1, <2>2, Zenon
  <2> QED BY <2>3, LeftIs, Zenon
<1>3. \A j \in 1..3 - 1 : Left'[j] = Left[j]
  BY <1>1
<1> QED BY <1>2, <1>3 DEF Falls

\* A segment is done with, and has left nothing to divide.
LEMMA PopRunsDown ==
  ASSUME Layer1, pc \in {"lookup", "ask"}, pc' = "lookup", todo # <<>>, todo' = Tail(todo),
         UNCHANGED <<attempt, done, plan, cutting>>
  PROVE  \E i \in 1..7 : Falls(i)
<1>1. /\ Left'[1] = Left[1] /\ Left'[2] = Left[2] /\ Left'[4] = Left[4]
  BY LeftIs
<1>2. Left'[3] = Left[3]
  BY LeftIs DEF Stage
<1>3. /\ Cardinality(Seams(Tail(todo))) <= Cardinality(Seams(todo))
      /\ Len(Tail(todo)) = Len(todo) - 1 /\ Len(todo) \in Nat
      /\ Cardinality(Seams(Tail(todo))) \in Nat /\ Cardinality(Seams(todo)) \in Nat
  <2>1. todo \in Seq(Item)
    BY LeftNumbers
  <2>2. Tail(todo) \in Seq(Item)
    BY <2>1, SeamsOfRest
  <2> QED BY <2>1, <2>2, SeamsOfRest, SeamIs
<1>4. Left'[5] <= Left[5] /\ Left'[6] < Left[6] /\ Left'[5] \in Nat /\ Left[5] \in Nat
  BY <1>3, LeftIs
<1>5. CASE Left'[5] = Left[5]
  <2>1. \A j \in 1..6 - 1 : Left'[j] = Left[j]
    BY <1>1, <1>2, <1>5
  <2> QED BY <1>4, <2>1 DEF Falls
<1>6. CASE Left'[5] # Left[5]
  <2>1. Left'[5] < Left[5] /\ \A j \in 1..5 - 1 : Left'[j] = Left[j]
    BY <1>1, <1>2, <1>4, <1>6
  <2> QED BY <2>1 DEF Falls
<1> QED BY <1>5, <1>6

\* A segment is sent, or sent again.
LEMMA SendRunsDown ==
  ASSUME Layer1, pc' = "ask", UNCHANGED <<attempt, done, plan, cutting, todo>>,
         \/ pc = "lookup" /\ tries' = 1
         \/ pc = "ask" /\ tries < RateAttempts /\ tries' = tries + 1
  PROVE  \E i \in 1..7 : Falls(i)
<1>1. /\ Left'[1] = Left[1] /\ Left'[2] = Left[2] /\ Left'[4] = Left[4]
      /\ Left'[5] = Left[5] /\ Left'[6] = Left[6]
  BY LeftIs
<1>2. Left'[3] = Left[3]
  BY LeftIs DEF Stage
<1>3. Left'[7] < Left[7]
  <2>1. RateAttempts \in Nat \ {0} /\ tries \in 1..RateAttempts
    BY LeftNumbers
  <2> QED BY <2>1, LeftIs
<1>4. \A j \in 1..7 - 1 : Left'[j] = Left[j]
  BY <1>1, <1>2
<1> QED BY <1>3, <1>4 DEF Falls

\* A resisted segment is given up or divided.
LEMMA ResistedRunsDown == ASSUME Layer1, Resisted PROVE \E i \in 1..7 : Falls(i)
<1>1. pc = "ask" /\ todo # <<>>
  BY DEF Resisted, Layer1, Shape
<1>2. CASE Settle("resisted")
  BY <1>1, <1>2, PopRunsDown DEF Settle
<1>3. CASE /\ ~(Length(Seg.range) <= MinPiece)
           /\ todo' = Pieces(Seg) \o Tail(todo) /\ pc' = "lookup" /\ tries' = 1
           /\ UNCHANGED <<disk, model, attempt, plan, how, cutting, out, done, retry, history>>
  <2>1. Length(Head(todo).range) > MinPiece
    <3>1. Length(Seg.range) \in Int
      BY <1>1, InHand DEF Range0, Length
    <3> QED BY <1>3, <3>1, ConstantsTyped DEF Seg
  <2>2. todo \in Seq(Item) /\ Cardinality(Seams(todo)) \in Nat
    BY <1>1, LeftNumbers
  <2>3. Cardinality(Seams(todo')) < Cardinality(Seams(todo))
    BY <1>1, <1>3, <2>1, <2>2, SeamsOfDivided DEF Seg
  <2>4. /\ Left'[1] = Left[1] /\ Left'[2] = Left[2] /\ Left'[4] = Left[4]
    BY <1>1, <1>3, LeftIs
  <2>5. Left'[3] = Left[3]
    BY <1>1, <1>3, LeftIs DEF Stage
  <2>6. Left'[5] < Left[5]
    BY <2>3, LeftIs
  <2>7. \A j \in 1..5 - 1 : Left'[j] = Left[j]
    BY <2>4, <2>5
  <2> QED BY <2>6, <2>7 DEF Falls
<1>4. CASE \E error \in {"audio", "other"} : Fail(error)
  BY <1>1, <1>4, FailRunsDown
<1> QED BY <1>2, <1>3, <1>4 DEF Resisted

\* A finished page, and a further attempt.
LEMMA PageDoneRunsDown == ASSUME Layer1, PageDone PROVE \E i \in 1..7 : Falls(i)
<1>1. /\ pc = "lookup" /\ done' = Append(done, out) /\ attempt' = attempt
      /\ pc' # "failing"
  BY DEF PageDone
<1>2. Len(done') = Len(done) + 1 /\ Len(done) \in Nat /\ Len(Duration) \in Nat
  <2>1. done \in Seq(SUBSET Segment) /\ out \in SUBSET Segment
    BY TypeFrom DEF Layer1
  <2> QED BY <1>1, <2>1, AppendProperties, LenProperties, ConstantsTyped
<1>3. Left'[1] = Left[1]
  BY <1>1, LeftIs
<1>4. Left'[2] < Left[2]
  BY <1>1, <1>2, LeftIs
<1>5. \A j \in 1..2 - 1 : Left'[j] = Left[j]
  BY <1>3
<1> QED BY <1>4, <1>5 DEF Falls

LEMMA RecordFailureRunsDown ==
  ASSUME Layer1, RecordFailure, pc' # "idle" PROVE \E i \in 1..7 : Falls(i)
<1>1. pc = "failing" /\ retry /\ attempt < MaxAttempts /\ Blanked(model, attempt + 1)
  BY BlankIs DEF RecordFailure
<1>2. attempt' = attempt + 1 /\ attempt \in 1..MaxAttempts /\ MaxAttempts \in Nat
  BY <1>1, LeftNumbers DEF Blanked
<1>3. Left'[1] < Left[1]
  BY <1>2, LeftIs
<1>4. \A j \in 1..1 - 1 : Left'[j] = Left[j]
  OBVIOUS
<1> QED BY <1>3, <1>4 DEF Falls

\* The steps up to the segments.
LEMMA CutRunsDown ==
  ASSUME Layer1,
         \/ get_audio_url \/ download_to_file \/ convert_m4s_to_mp3
         \/ ConvertWhole \/ ConvertVad \/ ConvertFixed \/ CutNext \/ CutDone \/ CutFails
  PROVE  \E i \in 1..7 : Falls(i)
<1>1. CASE get_audio_url \/ download_to_file \/ convert_m4s_to_mp3
  <2>1. pc \in {"download", "fetch", "mp3"}
    BY <1>1 DEF get_audio_url, download_to_file, convert_m4s_to_mp3, Await
  <2>2. CASE \E error \in {"audio", "other"} : Fail(error)
    BY <2>1, <2>2, FailRunsDown
  <2>3. CASE ~ \E error \in {"audio", "other"} : Fail(error)
    <3>1. /\ UNCHANGED <<attempt, done>>
          /\ \/ pc = "download" /\ pc' = "fetch"
             \/ pc = "fetch" /\ pc' = "mp3"
             \/ pc = "mp3" /\ pc' = "convert"
      BY <1>1, <2>3 DEF get_audio_url, download_to_file, convert_m4s_to_mp3, Await, work
    <3>2. Stage < Stage' /\ Stage' \in 1..9 /\ pc' # "failing"
      BY <3>1 DEF Stage
    <3> QED BY <2>1, <3>1, <3>2, OnRunsDown
  <2> QED BY <2>2, <2>3
<1>2. CASE ConvertWhole \/ ConvertVad \/ ConvertFixed \/ CutDone
  <2>1. /\ UNCHANGED <<attempt, done>>
        /\ \/ pc = "convert" /\ pc' \in {"cut", "lookup"}
           \/ pc = "cut" /\ pc' = "lookup"
    BY <1>2 DEF ConvertWhole, ConvertVad, ConvertFixed, CutDone, Cut
  <2>2. Stage < Stage' /\ Stage' \in 1..9 /\ pc' # "failing"
    BY <2>1 DEF Stage
  <2> QED BY <2>1, <2>2, OnRunsDown
<1>3. CASE CutNext
  <2>1. pc = "cut" /\ pc' = "cut" /\ UNCHANGED <<attempt, done, plan>> /\ cutting' = cutting + 1
    BY <1>3 DEF CutNext
  <2>2. Left'[1] = Left[1] /\ Left'[2] = Left[2]
    BY <2>1, LeftIs
  <2>3. Left'[3] = Left[3]
    BY <2>1, LeftIs DEF Stage
  <2>4. Left'[4] < Left[4]
    <3>1. Len(plan) \in Nat /\ cutting \in 1..Len(plan) + 1
      BY <2>1, LeftNumbers
    <3> QED BY <2>1, <3>1, LeftIs
  <2>5. \A j \in 1..4 - 1 : Left'[j] = Left[j]
    BY <2>2, <2>3
  <2> QED BY <2>4, <2>5 DEF Falls
<1>4. CASE CutFails
  BY <1>4, FailRunsDown DEF CutFails
<1> QED BY <1>1, <1>2, <1>3, <1>4

\* The steps of the segments.
LEMMA SegmentsRunDown ==
  ASSUME Layer1,
         \/ CacheHit \/ CacheMiss \/ TextAnswer \/ RateLimited \/ EmptyAnswer \/ ErrorAnswer
         \/ HighRisk \/ LengthTruncated
  PROVE  \E i \in 1..7 : Falls(i)
<1>1. pc = "ask" => todo # <<>>
  BY DEF Layer1, Shape
<1>2. CASE CacheHit
  <2>1. /\ pc = "lookup" /\ todo # <<>> /\ pc' = pc /\ todo' = Tail(todo)
        /\ UNCHANGED <<attempt, done, plan, cutting>>
    BY <1>2 DEF CacheHit
  <2> QED BY <2>1, PopRunsDown
<1>3. CASE CacheMiss
  <2>1. /\ pc = "lookup" /\ pc' = "ask" /\ tries' = 1
        /\ UNCHANGED <<attempt, done, plan, cutting, todo>>
    BY <1>3 DEF CacheMiss
  <2> QED BY <2>1, SendRunsDown
<1>4. CASE TextAnswer
  <2>1. /\ pc = "ask" /\ pc' = "lookup" /\ todo' = Tail(todo)
        /\ UNCHANGED <<attempt, done, plan, cutting>>
    BY <1>4 DEF TextAnswer, Settle
  <2> QED BY <1>1, <2>1, PopRunsDown
<1>5. CASE RateLimited
  <2>1. pc = "ask"
    BY <1>5 DEF RateLimited
  <2>2. CASE Fail("audio")
    BY <2>1, <2>2, FailRunsDown
  <2>3. CASE ~Fail("audio")
    <3>1. /\ tries < RateAttempts /\ tries' = tries + 1 /\ pc' = "ask"
          /\ UNCHANGED <<attempt, done, plan, cutting, todo>>
      BY <1>5, <2>1, <2>3 DEF RateLimited
    <3> QED BY <2>1, <3>1, SendRunsDown
  <2> QED BY <2>2, <2>3
<1>6. CASE EmptyAnswer
  <2>1. pc = "ask"
    BY <1>6 DEF EmptyAnswer
  <2>2. CASE Fail("empty")
    BY <2>1, <2>2, FailRunsDown
  <2>3. CASE ~Fail("empty")
    <3>1. /\ pc' = "lookup" /\ todo' = Tail(todo) /\ UNCHANGED <<attempt, done, plan, cutting>>
      BY <1>6, <2>3 DEF EmptyAnswer, Settle
    <3> QED BY <1>1, <2>1, <3>1, PopRunsDown
  <2> QED BY <2>2, <2>3
<1>7. CASE ErrorAnswer
  BY <1>7, FailRunsDown DEF ErrorAnswer
<1>8. CASE HighRisk \/ LengthTruncated
  BY <1>8, ResistedRunsDown DEF HighRisk, LengthTruncated
<1> QED BY <1>2, <1>3, <1>4, <1>5, <1>6, <1>7, <1>8

\* The work on a video comes to an end: in any run, each of its steps leaves less to do,
\* whatever the services answer, however often a segment is divided and for any number of
\* pages, attempts and sends (_process_audio_one, _do_audio_work).
THEOREM WorkRunsDownHolds == Spec => WorkRunsDown
<1> DEFINE typed == pc # "idle" => Left \in [1..7 -> Nat]
<1>1. Layer1 => typed
  BY LeftTyped
<1>2. ASSUME Layer1, typed', [Next]_vars
      PROVE  [pc # "idle" /\ pc' # "idle" =>
                Left' \in [1..7 -> Nat] /\ \E i \in 1..7 : Falls(i)]_<<pc, work>>
  <2> SUFFICES ASSUME pc # "idle", pc' # "idle", ~UNCHANGED <<pc, work>>
               PROVE  \E i \in 1..7 : Falls(i)
    BY <1>2
  <2>1. CASE \/ get_audio_url \/ download_to_file \/ convert_m4s_to_mp3
             \/ ConvertWhole \/ ConvertVad \/ ConvertFixed \/ CutNext \/ CutDone \/ CutFails
    BY <1>2, <2>1, CutRunsDown
  <2>2. CASE \/ CacheHit \/ CacheMiss \/ TextAnswer \/ RateLimited \/ EmptyAnswer \/ ErrorAnswer
             \/ HighRisk \/ LengthTruncated
    BY <1>2, <2>2, SegmentsRunDown
  <2>3. CASE PageDone
    BY <1>2, <2>3, PageDoneRunsDown
  <2>4. CASE AllEmpty
    BY <1>2, <2>4, FailRunsDown DEF AllEmpty
  <2>5. CASE Clear
    <3>1. pc = "result" /\ pc' = "save" /\ UNCHANGED <<attempt, done>>
      BY <2>5 DEF Clear, work
    <3>2. Stage < Stage' /\ Stage' \in 1..9
      BY <3>1 DEF Stage
    <3> QED BY <1>2, <3>1, <3>2, OnRunsDown
  <2>6. CASE RecordFailure
    BY <1>2, <2>6, RecordFailureRunsDown
  <2>7. CASE SaveSuccess \/ (\E m \in Models : Start(m)) \/ Crash \/ delete_uid
    BY <2>7 DEF SaveSuccess, Start, Crash, delete_uid
  <2>8. CASE UNCHANGED vars
    BY <2>8 DEF vars
  <2> QED BY <1>2, <2>1, <2>2, <2>3, <2>4, <2>5, <2>6, <2>7, <2>8 DEF Next, Step
<1> HIDE DEF typed
<1>3. Spec => []typed
  BY Layer1Always, <1>1, PTL
<1> QED BY Layer1Always, <1>2, <1>3, PTL DEF Spec, WorkRunsDown
=============================================================================
