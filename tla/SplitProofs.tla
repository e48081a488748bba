---------------------------- MODULE SplitProofs -----------------------------
(***************************************************************************)
(* What the algorithms of AudioSplit promise, for audio of every length    *)
(* and every value of the settings: a segment plan covers the audio and    *)
(* cuts in silence where it can, the speech regions are the detector's, a  *)
(* divided segment is tiled by its pieces, a splice loses no more than an  *)
(* overlap, and stitching hard cuts gives back the words of the audio.     *)
(***************************************************************************)
EXTENDS AudioSplit, SequenceTheorems, SetInduction

------------------------------------------------------------------------------
(* The smaller and the larger of two numbers.                                *)

LEMMA LeastIs ==
  ASSUME NEW a \in Int, NEW b \in Int
  PROVE  Least(a, b) = IF a <= b THEN a ELSE b
<1>1. \E x \in {a, b} : \A y \in {a, b} : x <= y
  OBVIOUS
<1> QED BY <1>1 DEF Least, Min

LEMMA GreatestIs ==
  ASSUME NEW a \in Int, NEW b \in Int
  PROVE  Greatest(a, b) = IF a >= b THEN a ELSE b
<1>1. \E x \in {a, b} : \A y \in {a, b} : x >= y
  OBVIOUS
<1> QED BY <1>1 DEF Greatest, Max

\* A set of natural numbers below a bound has its Max.
LEMMA MaxIs ==
  ASSUME NEW T \in SUBSET Nat, T # {}, NEW b \in Nat, \A y \in T : y <= b
  PROVE  Max(T) \in T /\ \A y \in T : y <= Max(T)
<1>1. \E x \in T : \A y \in T : x >= y
  <2>1. \E x \in T : \A y \in T : y <= x
    BY NatGreatest
  <2> QED BY <2>1
<1> QED BY <1>1 DEF Max

------------------------------------------------------------------------------
(* Dividing a length.                                                        *)

\* As many pieces as it takes: one fewer does not reach the end.
LEMMA CeilDivIs ==
  ASSUME NEW n \in Nat \ {0}, NEW p \in Nat \ {0}
  PROVE  /\ CeilDiv(n, p) \in Nat \ {0}
         /\ (CeilDiv(n, p) - 1) * p < n /\ n <= CeilDiv(n, p) * p
<1> DEFINE a == n + p - 1
           q == a \div p
<1>1. a \in Nat /\ q \in Int /\ p * q <= a /\ a < p * (q + 1)
  OBVIOUS
<1> QED BY <1>1 DEF CeilDiv
LEMMA TimesMonotone ==
  ASSUME NEW a \in Int, NEW b \in Int, NEW p \in Nat, a <= b
  PROVE  a * p <= b * p
<1>1. (b - a) * p = b * p - a * p
  OBVIOUS
<1>2. \A x \in Nat : x * p \in Nat
  OBVIOUS
<1>3. b - a \in Nat /\ a * p \in Int /\ b * p \in Int
  OBVIOUS
<1> QED BY <1>1, <1>2, <1>3

LEMMA SeqFromFunction ==
  ASSUME NEW S, NEW k \in Nat, NEW f \in [1..k -> S]
  PROVE  f \in Seq(S) /\ Len(f) = k /\ DOMAIN f = 1..k
OBVIOUS

\* Ranges that cover lo to hi in order, each from where the one before ends, and none
\* longer than most.
Tiled(ranges, lo, hi, most) ==
  /\ ranges \in Seq([lo : Nat, hi : Nat]) /\ Len(ranges) \in Nat \ {0}
  /\ DOMAIN ranges = 1..Len(ranges)
  /\ ranges[1].lo = lo /\ ranges[Len(ranges)].hi = hi
  /\ \A i \in 1..Len(ranges) :
       /\ ranges[i].lo \in Nat /\ ranges[i].hi \in Nat
       /\ lo <= ranges[i].lo /\ ranges[i].lo < ranges[i].hi /\ ranges[i].hi <= hi
       /\ ranges[i].hi - ranges[i].lo <= most
       /\ i < Len(ranges) => ranges[i].hi = ranges[i + 1].lo

\* The pieces of a segment tile it.
LEMMA PiecesTile ==
  ASSUME NEW lo \in Nat, NEW hi \in Nat, lo < hi, NEW piece \in Nat \ {0}
  PROVE  /\ Tiled(_split_segment_ranges(Span(lo, hi), piece), lo, hi, piece)
         /\ Len(_split_segment_ranges(Span(lo, hi), piece)) = CeilDiv(hi - lo, piece)
<1> DEFINE k == CeilDiv(hi - lo, piece)
           from(i) == lo + (i - 1) * piece
           ps == [i \in 1..k |-> Span(from(i), Least(hi, from(i + 1)))]
<1>1. k \in Nat \ {0} /\ (k - 1) * piece < hi - lo /\ hi - lo <= k * piece
  BY CeilDivIs
<1>2. _split_segment_ranges(Span(lo, hi), piece) = ps
  <2>1. Length(Span(lo, hi)) = hi - lo /\ Span(lo, hi).lo = lo /\ Span(lo, hi).hi = hi
    BY DEF Length, Span
  <2>2. \A i \in 1..k : lo + i * piece = from(i + 1)
    BY <1>1
  <2> QED BY <2>1, <2>2 DEF _split_segment_ranges
<1>3. from(1) = lo /\ from(k) < hi /\ hi <= from(k + 1)
  BY <1>1
<1>4. \A i \in 1..k : from(i) \in Nat /\ from(i + 1) = from(i) + piece /\ from(i) < hi
  <2> TAKE i \in 1..k
  <2>1. 0 <= (i - 1) * piece /\ (i - 1) * piece <= (k - 1) * piece
    BY <1>1, TimesMonotone
  <2> QED BY <2>1, <1>1
<1>5. \A i \in 1..k : i < k => from(i + 1) < hi
  BY <1>1, <1>4
<1>6. \A i \in 1..k : ps[i].lo = from(i)
                      /\ ps[i].hi = IF i < k THEN from(i + 1) ELSE hi
  <2> TAKE i \in 1..k
  <2> HIDE DEF from
  <2>1. from(i + 1) \in Int /\ (i < k => from(i + 1) < hi) /\ (i = k => hi <= from(i + 1))
    BY <1>1, <1>3, <1>4, <1>5
  <2>2. Least(hi, from(i + 1)) = IF i < k THEN from(i + 1) ELSE hi
    BY <2>1, <1>1, LeastIs
  <2> QED BY <2>2 DEF Span
<1>7. ps \in Seq([lo : Nat, hi : Nat]) /\ Len(ps) = k /\ DOMAIN ps = 1..k
  <2>1. \A i \in 1..k : Span(from(i), Least(hi, from(i + 1))) \in [lo : Nat, hi : Nat]
    <3> TAKE i \in 1..k
    <3> HIDE DEF from
    <3>1. Least(hi, from(i + 1)) \in Nat
      BY <1>4, LeastIs
    <3> QED BY <3>1, <1>4 DEF Span
  <2>2. k \in Nat
    BY <1>1
  <2> HIDE DEF from, k
  <2>3. ps \in [1..k -> [lo : Nat, hi : Nat]]
    BY <2>1
  <2> HIDE DEF ps
  <2> QED BY <2>2, <2>3, SeqFromFunction
<1> HIDE DEF ps, k, from
<1>8. ps[1].lo = lo /\ ps[k].hi = hi
  BY <1>1, <1>3, <1>6
<1>9. \A i \in 1..k :  /\ ps[i].lo \in Nat /\ ps[i].hi \in Nat
                       /\ lo <= ps[i].lo /\ ps[i].lo < ps[i].hi /\ ps[i].hi <= hi
                       /\ ps[i].hi - ps[i].lo <= piece
                       /\ i < k => ps[i].hi = ps[i + 1].lo
  <2>1. \A i \in 1..k : lo <= from(i)
    BY <1>1, <1>4 DEF from
  <2>2. \A i \in 1..k : i < k => i + 1 \in 1..k
    BY <1>1
  <2>3. hi <= from(k) + piece
    BY <1>1, <1>3, <1>4
  <2> QED BY <1>1, <1>3, <1>4, <1>5, <1>6, <2>1, <2>2, <2>3
<1>10. Tiled(ps, lo, hi, piece)
  <2>1. Len(ps) = k /\ Len(ps) \in Nat \ {0}
    BY <1>1, <1>7
  <2> QED BY <1>7, <1>8, <1>9, <2>1 DEF Tiled
<1> QED BY <1>2, <1>7, <1>10 DEF k

\* The next piece of a segment that may still be divided is shorter than the segment.
LEMMA NextPieceIs ==
  ASSUME NEW n \in Nat, NEW lo \in Nat, n > MinPiece, NEW piece \in Nat \ {0}
  PROVE  LET next == NextPiece(Span(lo, lo + n), piece)
         IN next \in Nat \ {0} /\ next < n /\ next <= Greatest(MinPiece, n \div 2)
<1>1. MinPiece \in Nat \ {0}
  BY SplitAssumption
<1>2. Length(Span(lo, lo + n)) = n
  BY DEF Length, Span
<1>3. n \div 2 \in Nat /\ n \div 2 < n
  BY <1>1
<1> DEFINE half == n \div 2
<1> HIDE DEF half
<1>4. half \in Nat /\ half < n
  BY <1>3 DEF half
<1>5. PICK x \in Nat \ {0} : x = Greatest(piece, MinPiece)
  BY <1>1, GreatestIs
<1>6. PICK y \in Nat \ {0} : y = Greatest(MinPiece, half) /\ y < n
  BY <1>1, <1>4, GreatestIs
<1>7. Least(x, y) \in Nat \ {0} /\ Least(x, y) <= y
  BY LeastIs
<1> QED BY <1>2, <1>5, <1>6, <1>7 DEF NextPiece, half

\* A resisted segment longer than the smallest piece is divided well, whatever its length
\* and the size asked for (_split_segment_ranges).
THEOREM SplitsAreSoundAlways == SplitsAreSound
<1> SUFFICES ASSUME NEW lo \in 0..2, NEW n \in MinPiece + 1 .. PlanBound,
                    NEW piece \in 1..PlanBound
             PROVE  DividesWell(Span(lo, lo + n), piece)
  BY DEF SplitsAreSound
<1>1. MinPiece \in Nat \ {0} /\ PlanBound \in Nat \ {0}
  BY SplitAssumption
<1>2. n \in Nat \ {0} /\ n > MinPiece /\ lo \in Nat /\ piece \in Nat \ {0}
  BY <1>1
<1>3. PICK next \in Nat \ {0} : /\ next = NextPiece(Span(lo, lo + n), piece)
                                /\ next < n /\ next <= Greatest(MinPiece, n \div 2)
  BY <1>2, NextPieceIs
<1>4. PICK pieces : pieces = _split_segment_ranges(Span(lo, lo + n), next)
  OBVIOUS
<1>5. Tiled(pieces, lo, lo + n, next) /\ Len(pieces) = CeilDiv(n, next)
  <2>1. lo + n \in Nat /\ lo < lo + n /\ (lo + n) - lo = n
    BY <1>2
  <2> QED BY <1>2, <1>4, <2>1, PiecesTile
<1>6. Len(pieces) >= 2
  <2>1. Len(pieces) \in Nat \ {0}
    BY <1>5 DEF Tiled
  <2>2. n <= Len(pieces) * next
    BY <1>2, <1>5, CeilDivIs
  <2> QED BY <1>3, <2>1, <2>2
<1>7. \A i \in 1..Len(pieces) : Length(pieces[i]) \in 1..Greatest(MinPiece, n \div 2)
  <2> TAKE i \in 1..Len(pieces)
  <2>1. /\ pieces[i].lo \in Nat /\ pieces[i].hi \in Nat /\ pieces[i].lo < pieces[i].hi
        /\ pieces[i].hi - pieces[i].lo <= next
    BY <1>5 DEF Tiled
  <2>2. Greatest(MinPiece, n \div 2) \in Int
    BY <1>1, <1>2, GreatestIs
  <2> QED BY <1>3, <2>1, <2>2, SMTT(30) DEF Length
<1>8. Span(lo, lo + n).lo = lo /\ Span(lo, lo + n).hi = lo + n /\ Length(Span(lo, lo + n)) = n
  BY <1>2 DEF Span, Length
<1>9. /\ DOMAIN pieces = 1..Len(pieces) /\ pieces[1].lo = lo /\ pieces[Len(pieces)].hi = lo + n
      /\ \A i \in Adjacent(pieces) : pieces[i].hi = pieces[i + 1].lo
  BY <1>5 DEF Tiled, Adjacent
<1> QED BY <1>3, <1>4, <1>6, <1>7, <1>8, <1>9 DEF DividesWell

------------------------------------------------------------------------------
(* The plan of the cuts.                                                     *)

\* The silences a segment may end in, where it ends, and where the next one starts.
Quiet(middles, cap, from) == middles \intersect (from + MinSegment(cap) .. from + cap)

CutAt(middles, cap, from) ==
  IF Quiet(middles, cap, from) # {} THEN Max(Quiet(middles, cap, from)) ELSE from + cap

NextStart(middles, cap, from) ==
  IF Quiet(middles, cap, from) # {} THEN Max(Quiet(middles, cap, from))
  ELSE Greatest(from + OneSecond, from + cap - VadOverlap)

\* The recursive function of pick_split_points, defined from `first` on.
PlansFrom(f, first, duration, middles, cap) ==
  f = [from \in first..duration |->
        IF duration - from <= cap THEN <<Span(from, duration)>>
        ELSE <<Span(from, CutAt(middles, cap, from))>> \o f[NextStart(middles, cap, from)]]

LEMMA MinSegmentIs ==
  ASSUME NEW cap \in Nat, LongEnough(cap)
  PROVE  MinSegment(cap) \in 1..cap
<1>1. VadMinSegment \in Nat \ {0}
  BY SplitAssumption
<1>2. cap \div 2 \in 1..cap
  BY DEF LongEnough
<1> QED BY <1>1, <1>2 DEF MinSegment

\* A cut lies past the minimum and within the limit, and the next segment starts after
\* the start of this one and at most the overlap before its end.
LEMMA CutIs ==
  ASSUME NEW middles, NEW cap \in Nat, LongEnough(cap), NEW from \in Nat
  PROVE  LET cut == CutAt(middles, cap, from)
             next == NextStart(middles, cap, from)
         IN /\ cut \in Nat /\ from < cut /\ cut <= from + cap
            /\ next \in Nat /\ from < next /\ next <= cut /\ cut - next <= VadOverlap
<1> DEFINE q == Quiet(middles, cap, from)
<1>1. OneSecond \in Nat \ {0} /\ VadOverlap \in Nat /\ OneSecond <= cap
  BY SplitAssumption DEF LongEnough
<1>2. q \in SUBSET Nat /\ \A t \in q : from < t /\ t <= from + cap
  BY MinSegmentIs DEF Quiet
<1>3. CASE q # {}
  <2>1. from + cap \in Nat
    OBVIOUS
  <2>2. Max(q) \in q
    BY <1>2, <1>3, <2>1, MaxIs
  <2>3. CutAt(middles, cap, from) = Max(q) /\ NextStart(middles, cap, from) = Max(q)
    BY <1>3 DEF CutAt, NextStart
  <2>4. PICK m \in Nat : /\ CutAt(middles, cap, from) = m /\ NextStart(middles, cap, from) = m
                        /\ from < m /\ m <= from + cap
    BY <1>2, <2>2, <2>3
  <2>5. m - m <= VadOverlap /\ m <= m
    BY <1>1
  <2> HIDE DEF q
  <2> QED BY <2>4, <2>5
<1>4. CASE q = {}
  <2>1. /\ CutAt(middles, cap, from) = from + cap
        /\ NextStart(middles, cap, from) = Greatest(from + OneSecond, from + cap - VadOverlap)
    BY <1>4 DEF CutAt, NextStart
  <2>2. PICK g \in Int : /\ g = NextStart(middles, cap, from)
                        /\ g = IF from + OneSecond >= from + cap - VadOverlap
                               THEN from + OneSecond ELSE from + cap - VadOverlap
    <3>1. from + OneSecond \in Int /\ from + cap - VadOverlap \in Int
      BY <1>1
    <3> QED BY <2>1, <3>1, GreatestIs
  <2>3. /\ from + cap \in Nat /\ from < from + cap
        /\ g \in Nat /\ from < g /\ g <= from + cap /\ from + cap - g <= VadOverlap
    BY <1>1, <2>2
  <2> HIDE DEF q
  <2> QED BY <2>1, <2>2, <2>3
<1> QED BY <1>3, <1>4

LEMMA PlansExist ==
  ASSUME NEW duration \in Nat, NEW middles, NEW cap \in Nat, LongEnough(cap)
  PROVE  \E f : PlansFrom(f, 0, duration, middles, cap)
<1> DEFINE P == {k \in Nat : k <= duration =>
                   \E f : PlansFrom(f, duration - k, duration, middles, cap)}
           value(f, from) ==
             IF duration - from <= cap THEN <<Span(from, duration)>>
             ELSE <<Span(from, CutAt(middles, cap, from))>> \o f[NextStart(middles, cap, from)]
<1>1. 0 \in P
  <2> DEFINE f == [from \in duration..duration |-> <<Span(from, duration)>>]
  <2>1. f = [from \in duration..duration |-> value(f, from)]
    <3>1. \A from \in duration..duration : duration - from <= cap
      OBVIOUS
    <3> QED BY <3>1
  <2>2. duration - 0 = duration
    OBVIOUS
  <2> HIDE DEF f
  <2> QED BY <2>1, <2>2 DEF PlansFrom
<1>2. ASSUME NEW k \in Nat, k \in P PROVE k + 1 \in P
  <2> SUFFICES ASSUME k + 1 <= duration
               PROVE  \E f : PlansFrom(f, duration - (k + 1), duration, middles, cap)
    OBVIOUS
  <2> DEFINE b == duration - k  a == duration - (k + 1)
  <2>1. b \in Nat /\ a \in Nat /\ b = a + 1 /\ b <= duration
    OBVIOUS
  <2>2. PICK f : PlansFrom(f, b, duration, middles, cap)
    BY <1>2
  <2> DEFINE g == [from \in a..duration |-> IF from = a THEN value(f, a) ELSE f[from]]
  <2> HIDE DEF a, b
  <2>3. ASSUME NEW from \in a..duration PROVE g[from] = value(g, from)
    <3> DEFINE next == NextStart(middles, cap, from)
    <3>1. next \in Nat /\ from < next /\ (~ duration - from <= cap => next <= duration)
      BY <2>1, CutIs
    <3>2. ~ duration - from <= cap => g[next] = f[next]
      BY <2>1, <3>1
    <3>3. value(g, from) = value(f, from)
      BY <3>2
    <3>4. CASE from = a
      BY <3>3, <3>4
    <3>5. CASE from # a
      <4>1. from \in b..duration
        BY <2>1, <3>5
      <4>2. f[from] = value(f, from)
        BY <2>2, <4>1 DEF PlansFrom
      <4> QED BY <3>3, <3>5, <4>2
    <3> QED BY <3>4, <3>5
  <2>4. g = [from \in a..duration |-> g[from]]
    OBVIOUS
  <2> HIDE DEF g
  <2>5. g = [from \in a..duration |-> value(g, from)]
    BY <2>3, <2>4
  <2> QED BY <2>5 DEF PlansFrom, a
<1> HIDE DEF P
<1>3. duration \in P
  BY <1>1, <1>2, NatBySuccessor
<1>4. duration - duration = 0
  OBVIOUS
<1> QED BY <1>3, <1>4 DEF P

\* The part of a plan that starts at `from`: it goes on to the end, and each segment but
\* the last ends at its cut, where the next one starts.
PlanFrom(p, from, duration, middles, cap) ==
  /\ p \in Seq([lo : Nat, hi : Nat]) /\ Len(p) \in Nat \ {0} /\ DOMAIN p = 1..Len(p)
  /\ p[1].lo = from /\ p[Len(p)].hi = duration
  /\ \A i \in 1..Len(p) : /\ p[i].lo \in Nat /\ p[i].hi \in Nat
                          /\ p[i].lo < p[i].hi /\ p[i].hi - p[i].lo <= cap
  /\ \A i \in 1..Len(p) : i < Len(p) =>
       /\ duration - p[i].lo > cap
       /\ p[i].hi = CutAt(middles, cap, p[i].lo)
       /\ p[i + 1].lo = NextStart(middles, cap, p[i].lo)

LEMMA PlanOfOne ==
  ASSUME NEW duration \in Nat, NEW middles, NEW cap \in Nat,
         NEW from \in Nat, from < duration, duration - from <= cap
  PROVE  PlanFrom(<<Span(from, duration)>>, from, duration, middles, cap)
<1> DEFINE p == <<Span(from, duration)>>
<1>1. p[1].lo = from /\ p[1].hi = duration
  BY DEF Span
<1>2. p \in Seq([lo : Nat, hi : Nat]) /\ Len(p) = 1 /\ DOMAIN p = 1..Len(p)
  BY DEF Span
<1> HIDE DEF p
<1>3. \A i \in 1..Len(p) : i = 1
  BY <1>2
<1>4. PlanFrom(p, from, duration, middles, cap)
  BY <1>1, <1>2, <1>3 DEF PlanFrom
<1> QED BY <1>4 DEF p

\* An element put before a sequence.
LEMMA PrependIs ==
  ASSUME NEW S, NEW x \in S, NEW s \in Seq(S)
  PROVE  LET t == <<x>> \o s
         IN /\ t \in Seq(S) /\ Len(t) = Len(s) + 1 /\ Len(s) \in Nat /\ DOMAIN t = 1..Len(t)
            /\ t[1] = x
            /\ \A i \in 2..Len(t) : i - 1 \in 1..Len(s) /\ t[i] = s[i - 1]
<1> DEFINE o == <<x>>
<1>1. o \in Seq(S) /\ Len(o) = 1 /\ o[1] = x
  OBVIOUS
<1> HIDE DEF o
<1>2. /\ o \o s \in Seq(S) /\ Len(o \o s) = 1 + Len(s)
      /\ \A i \in 1..1 + Len(s) : (o \o s)[i] = IF i <= 1 THEN o[i] ELSE s[i - 1]
  <2>1. /\ o \o s \in Seq(S) /\ Len(o \o s) = Len(o) + Len(s)
        /\ \A i \in 1..Len(o) + Len(s) :
             (o \o s)[i] = IF i <= Len(o) THEN o[i] ELSE s[i - Len(o)]
    BY <1>1, ConcatProperties, Zenon
  <2> QED BY <1>1, <2>1
<1>3. Len(s) \in Nat /\ DOMAIN (o \o s) = 1..Len(o \o s)
  <2>1. Len(s) \in Nat
    BY LenProperties
  <2>2. DOMAIN (o \o s) = 1..Len(o \o s)
    BY <1>2, LenProperties
  <2> QED BY <2>1, <2>2
<1> DEFINE t == o \o s
<1> HIDE DEF t
<1>4. /\ t \in Seq(S) /\ Len(t) = Len(s) + 1 /\ Len(s) \in Nat /\ DOMAIN t = 1..Len(t)
      /\ t[1] = x
      /\ \A i \in 2..Len(t) : i - 1 \in 1..Len(s) /\ t[i] = s[i - 1]
  BY <1>1, <1>2, <1>3 DEF t
<1> QED BY <1>4 DEF t, o

LEMMA PlanOfMore ==
  ASSUME NEW duration \in Nat, NEW middles, NEW cap \in Nat,
         NEW from \in Nat, NEW cut \in Nat, NEW next \in Nat, duration - from > cap,
         from < cut, cut <= from + cap,
         cut = CutAt(middles, cap, from), next = NextStart(middles, cap, from),
         NEW rest, PlanFrom(rest, next, duration, middles, cap)
  PROVE  PlanFrom(<<Span(from, cut)>> \o rest, from, duration, middles, cap)
<1> DEFINE p == <<Span(from, cut)>> \o rest  n == Len(rest)
<1>1. /\ rest \in Seq([lo : Nat, hi : Nat]) /\ n \in Nat \ {0}
      /\ rest[1].lo = next /\ rest[n].hi = duration
      /\ \A i \in 1..n : /\ rest[i].lo \in Nat /\ rest[i].hi \in Nat
                        /\ rest[i].lo < rest[i].hi /\ rest[i].hi - rest[i].lo <= cap
      /\ \A i \in 1..n : i < n =>
           /\ duration - rest[i].lo > cap
           /\ rest[i].hi = CutAt(middles, cap, rest[i].lo)
           /\ rest[i + 1].lo = NextStart(middles, cap, rest[i].lo)
  BY DEF PlanFrom
<1>2. /\ p \in Seq([lo : Nat, hi : Nat]) /\ Len(p) = n + 1 /\ DOMAIN p = 1..Len(p)
      /\ p[1] = Span(from, cut)
      /\ \A i \in 2..Len(p) : i - 1 \in 1..n /\ p[i] = rest[i - 1]
  <2>1. Span(from, cut) \in [lo : Nat, hi : Nat]
    BY DEF Span
  <2> QED BY <1>1, <2>1, PrependIs
<1>3. p[1].lo = from /\ p[1].hi = cut
  BY <1>2 DEF Span
<1> HIDE DEF p, n
<1>4. p[Len(p)].hi = duration
  <2>1. Len(p) \in 2..Len(p) /\ Len(p) - 1 = n
    BY <1>1, <1>2
  <2> QED BY <1>1, <1>2, <2>1
<1>5. ASSUME NEW i \in 1..Len(p)
      PROVE  p[i].lo \in Nat /\ p[i].hi \in Nat /\ p[i].lo < p[i].hi /\ p[i].hi - p[i].lo <= cap
  <2>1. CASE i = 1
    BY <1>3, <2>1
  <2>2. CASE i # 1
    <3>1. i \in 2..Len(p)
      BY <1>1, <1>2, <2>2
    <3>2. i - 1 \in 1..n /\ p[i] = rest[i - 1]
      BY <1>2, <3>1
    <3> QED BY <1>1, <3>2
  <2> QED BY <2>1, <2>2
<1>6. ASSUME NEW i \in 1..Len(p), i < Len(p)
      PROVE  /\ duration - p[i].lo > cap
             /\ p[i].hi = CutAt(middles, cap, p[i].lo)
             /\ p[i + 1].lo = NextStart(middles, cap, p[i].lo)
  <2>1. CASE i = 1
    <3>1. 2 \in 2..Len(p) /\ 2 - 1 = 1 /\ 1 + 1 = 2
      BY <1>1, <1>2
    <3>2. p[2].lo = next
      BY <1>1, <1>2, <3>1
    <3> QED BY <1>3, <2>1, <3>1, <3>2
  <2>2. CASE i # 1
    <3>1. /\ i \in 2..Len(p) /\ i + 1 \in 2..Len(p) /\ i - 1 \in 1..n /\ i - 1 < n
          /\ (i + 1) - 1 = (i - 1) + 1
      <4>1. i \in Int /\ n \in Nat /\ 1 <= i /\ i < n + 1 /\ Len(p) = n + 1
        BY <1>1, <1>2, <1>6
      <4> QED BY <2>2, <4>1
    <3>2. p[i] = rest[i - 1]
      BY <1>2, <3>1, Zenon
    <3>3. p[i + 1] = rest[(i - 1) + 1]
      <4>1. p[i + 1] = rest[(i + 1) - 1]
        BY <1>2, <3>1, Zenon
      <4> QED BY <3>1, <4>1
    <3> QED BY <1>1, <3>1, <3>2, <3>3
  <2> QED BY <2>1, <2>2
<1>7. PlanFrom(p, from, duration, middles, cap)
  BY <1>1, <1>2, <1>3, <1>4, <1>5, <1>6 DEF PlanFrom
<1> QED BY <1>7 DEF p

\* What pick_split_points returns.
LEMMA PickIs ==
  ASSUME NEW duration \in Nat \ {0}, NEW speech, NEW cap \in Nat, LongEnough(cap)
  PROVE  PlanFrom(pick_split_points(duration, speech, cap), 0, duration,
                  Midpoints(Gaps(duration, speech)), cap)
<1> DEFINE middles == Midpoints(Gaps(duration, speech))
           F == CHOOSE f : PlansFrom(f, 0, duration, middles, cap)
<1>1. pick_split_points(duration, speech, cap) = F[0]
  <2>1. ~ duration <= 0
    OBVIOUS
  <2> QED BY <2>1, Zenon DEF pick_split_points, PlansFrom, CutAt, NextStart, Quiet
<1>2. PlansFrom(F, 0, duration, middles, cap)
  <2> HIDE DEF middles
  <2> QED BY PlansExist
<1> HIDE DEF F, middles
<1> DEFINE P == {k \in Nat : \A from \in Nat : from < duration /\ duration - from <= k
                               => PlanFrom(F[from], from, duration, middles, cap)}
<1>3. 0 \in P
  OBVIOUS
<1>4. ASSUME NEW k \in Nat, k \in P PROVE k + 1 \in P
  <2> SUFFICES ASSUME NEW from \in Nat, from < duration, duration - from <= k + 1
               PROVE  PlanFrom(F[from], from, duration, middles, cap)
    OBVIOUS
  <2>1. from \in 0..duration
    OBVIOUS
  <2>2. CASE duration - from <= cap
    <3>1. F[from] = <<Span(from, duration)>>
      BY <1>2, <2>1, <2>2 DEF PlansFrom
    <3> QED BY <2>2, <3>1, PlanOfOne
  <2>3. CASE ~ duration - from <= cap
    <3>1. PICK cut \in Nat, next \in Nat :
            /\ cut = CutAt(middles, cap, from) /\ next = NextStart(middles, cap, from)
            /\ from < cut /\ cut <= from + cap /\ from < next /\ next <= cut
      BY CutIs
    <3>2. F[from] = <<Span(from, cut)>> \o F[next]
      BY <1>2, <2>1, <2>3, <3>1 DEF PlansFrom
    <3>3. next < duration /\ duration - next <= k /\ duration - from > cap
      BY <2>3, <3>1
    <3>4. PlanFrom(F[next], next, duration, middles, cap)
      BY <1>4, <3>3
    <3> QED BY <3>1, <3>2, <3>3, <3>4, PlanOfMore
  <2> QED BY <2>2, <2>3
<1> HIDE DEF P
<1>5. duration \in P
  BY <1>3, <1>4, NatBySuccessor
<1>6. PlanFrom(F[0], 0, duration, middles, cap)
  BY <1>5 DEF P
<1> QED BY <1>1, <1>6 DEF middles

------------------------------------------------------------------------------
(* The speech regions.                                                       *)

\* A run is a longest stretch of consecutive chunks.
LEMMA RunIs ==
  ASSUME NEW chunks \in SUBSET Nat, NEW r \in Runs(chunks)
  PROVE  /\ r[1] \in Nat /\ r[2] \in Nat /\ r[1] < r[2] /\ r = <<r[1], r[2]>>
         /\ r[1] - 1 \notin chunks /\ r[2] \notin chunks /\ r[1]..(r[2] - 1) \subseteq chunks
<1>1. PICK x \in chunks, y \in chunks :
        /\ r = <<x, y + 1>> /\ x - 1 \notin chunks /\ y + 1 \notin chunks
        /\ x <= y /\ x..y \subseteq chunks
  BY DEF Runs
<1>2. (y + 1) - 1 = y /\ r[1] = x /\ r[2] = y + 1
  BY <1>1
<1> QED BY <1>1, <1>2

LEMMA RunsApart ==
  ASSUME NEW chunks \in SUBSET Nat, NEW r \in Runs(chunks), NEW q \in Runs(chunks),
         r[1] < q[1]
  PROVE  r[2] < q[1]
<1>1. r[1] \in Nat /\ r[2] \in Nat /\ q[1] \in Nat /\ q[2] \in Nat /\ q[1] < q[2]
  BY RunIs
<1>2. q[1] \in chunks
  <2>1. q[1] \in q[1]..(q[2] - 1)
    BY <1>1
  <2> QED BY <2>1, RunIs
<1>3. SUFFICES ASSUME q[1] <= r[2] PROVE FALSE
  BY <1>1
<1>4. CASE q[1] = r[2]
  BY <1>2, <1>4, RunIs
<1>5. CASE q[1] # r[2]
  <2>1. q[1] - 1 \in r[1]..(r[2] - 1)
    BY <1>1, <1>3, <1>5
  <2> QED BY <2>1, RunIs
<1> QED BY <1>4, <1>5

\* A stretch of chunks lies in a run.
LEMMA RunThrough ==
  ASSUME NEW n \in Nat, NEW chunks \in SUBSET (0..n - 1),
         NEW a \in Nat, NEW b \in Nat, a <= b, a..b \subseteq chunks
  PROVE  \E r \in Runs(chunks) : r[1] <= a /\ b < r[2]
<1> DEFINE L == {x \in Nat : x <= a /\ x..b \subseteq chunks}
           R == {y \in Nat : b <= y /\ a..y \subseteq chunks}
<1>1. PICK x \in L : \A z \in L : x <= z
  <2>1. a \in L
    OBVIOUS
  <2> HIDE DEF L
  <2> QED BY <2>1, NatLeast DEF L
<1>2. PICK y \in R : \A z \in R : z <= y
  <2>1. b \in R
    OBVIOUS
  <2>2. \A z \in R : z <= n
    <3> TAKE z \in R
    <3>1. z \in a..z
      OBVIOUS
    <3> QED BY <3>1
  <2> QED BY <2>1, <2>2, NatGreatest
<1>3. x..y \subseteq chunks /\ x \in chunks /\ y \in chunks /\ x <= y
  <2>1. \A i \in x..y : i \in x..b \/ i \in a..y
    BY <1>1, <1>2
  <2>2. x \in x..y /\ y \in x..y
    BY <1>1, <1>2
  <2> QED BY <1>1, <1>2, <2>1, <2>2
<1>4. x - 1 \notin chunks
  <2> SUFFICES ASSUME x - 1 \in chunks PROVE FALSE
    OBVIOUS
  <2>1. x - 1 \in Nat
    OBVIOUS
  <2>2. \A i \in (x - 1)..b : i = x - 1 \/ i \in x..b
    BY <1>1
  <2>3. x - 1 \in L
    BY <1>1, <2>1, <2>2
  <2> QED BY <1>1, <2>3
<1>5. y + 1 \notin chunks
  <2> SUFFICES ASSUME y + 1 \in chunks PROVE FALSE
    OBVIOUS
  <2>1. \A i \in a..(y + 1) : i = y + 1 \/ i \in a..y
    BY <1>2
  <2>2. y + 1 \in R
    BY <1>2, <2>1
  <2> QED BY <1>2, <2>2
<1>6. <<x, y + 1>> \in Runs(chunks)
  <2>1. <<x, y>> \in {r \in chunks \X chunks :
                       /\ r[1] - 1 \notin chunks /\ r[2] + 1 \notin chunks
                       /\ r[1] <= r[2] /\ r[1]..r[2] \subseteq chunks}
    BY <1>3, <1>4, <1>5
  <2>2. <<x, y>>[1] = x /\ <<x, y>>[2] = y
    OBVIOUS
  <2>3. <<(<<x, y>>)[1], (<<x, y>>)[2] + 1>> \in Runs(chunks)
    BY <2>1, Zenon DEF Runs
  <2> QED BY <2>2, <2>3
<1> QED BY <1>1, <1>2, <1>6

\* The chunks between two voices that are close are bridged, and nothing else is added.
LEMMA BridgedIs ==
  ASSUME NEW n \in Nat, NEW heard \in SUBSET (0..n - 1)
  PROVE  /\ Bridged(heard) \in SUBSET (0..n - 1) /\ heard \subseteq Bridged(heard)
         /\ \A p, q \in heard : q - p - 1 < MinSilence => p..q \subseteq Bridged(heard)
         /\ \A t \in Bridged(heard) \ heard :
              \E p, q \in heard : t \in p..q /\ p..q \subseteq Bridged(heard)
<1> DEFINE close == {p \in heard \X heard : p[2] - p[1] - 1 < MinSilence}
<1>1. Bridged(heard) = heard \union UNION {p[1]..p[2] : p \in close}
  BY DEF Bridged
<1>2. ASSUME NEW p \in heard, NEW q \in heard, q - p - 1 < MinSilence
      PROVE  p..q \subseteq Bridged(heard)
  <2>1. <<p, q>> \in close
    BY <1>2
  <2> HIDE DEF close
  <2>2. <<p, q>>[1]..<<p, q>>[2] \subseteq Bridged(heard)
    BY <1>1, <2>1
  <2> QED BY <2>2
<1>3. ASSUME NEW t \in Bridged(heard) \ heard
      PROVE  \E p, q \in heard : t \in p..q /\ p..q \subseteq Bridged(heard)
  <2>1. PICK p \in close : t \in p[1]..p[2]
    BY <1>1, <1>3
  <2>2. p[1] \in heard /\ p[2] \in heard /\ p[2] - p[1] - 1 < MinSilence
    BY <2>1
  <2> QED BY <1>2, <2>1, <2>2
<1>4. Bridged(heard) \in SUBSET (0..n - 1)
  <2> SUFFICES ASSUME NEW t \in Bridged(heard) PROVE t \in 0..n - 1
    OBVIOUS
  <2>1. CASE t \in heard
    BY <2>1
  <2>2. CASE t \notin heard
    BY <1>3, <2>2
  <2> QED BY <2>1, <2>2
<1> QED BY <1>1, <1>2, <1>3, <1>4

\* The speech regions: each from a voice to a voice and long enough, apart by a silence
\* that counts, and holding every close pair of voices that is long enough together.
LEMMA RegionsAre ==
  ASSUME NEW n \in Nat, NEW heard \in SUBSET (0..n - 1)
  PROVE  LET regions == _pcm_to_speech_segments(heard)
         IN /\ \A r \in regions :
                 /\ r[1] \in Nat /\ r[2] \in Nat /\ r[1] < r[2] /\ r[2] - r[1] >= MinSpeech
                 /\ r[1] \in heard /\ r[2] - 1 \in heard
            /\ \A r, q \in regions :
                 r[1] < q[1] => r[2] < q[1] /\ q[1] - r[2] >= MinSilence
            /\ \A a, b \in heard :
                 b - a - 1 < MinSilence /\ b - a + 1 >= MinSpeech
                   => \E r \in regions : r[1] <= a /\ b < r[2]
<1> DEFINE B == Bridged(heard)
           regions == Lasting(Runs(B))
<1>1. MinSpeech \in Nat \ {0} /\ MinSilence \in Nat \ {0}
  BY SplitAssumption
<1>0. /\ B \in SUBSET (0..n - 1) /\ heard \subseteq B
      /\ \A p, q \in heard : q - p - 1 < MinSilence => p..q \subseteq B
      /\ \A t \in B \ heard : \E p, q \in heard : t \in p..q /\ p..q \subseteq B
  BY BridgedIs, Zenon
<1> HIDE DEF B
<1>2. B \in SUBSET (0..n - 1) /\ B \in SUBSET Nat /\ heard \subseteq B
  BY <1>0
<1>3. ASSUME NEW r \in regions
      PROVE  /\ r \in Runs(B) /\ r[1] \in Nat /\ r[2] \in Nat /\ r[1] < r[2]
             /\ r[2] - r[1] >= MinSpeech
  <2>1. r \in Runs(B) /\ r[2] - r[1] >= MinSpeech
    BY DEF Lasting
  <2> QED BY <1>2, <2>1, RunIs
<1>4. ASSUME NEW r \in regions PROVE r[1] \in heard /\ r[2] - 1 \in heard
  <2>1. r[1] \in B /\ r[2] - 1 \in B /\ r[1] - 1 \notin B /\ r[2] \notin B
    <3>1. r[1] \in r[1]..(r[2] - 1) /\ r[2] - 1 \in r[1]..(r[2] - 1)
      BY <1>3
    <3> QED BY <1>2, <1>3, <3>1, RunIs
  <2>2. r[1] \in heard
    <3> SUFFICES ASSUME r[1] \notin heard PROVE FALSE
      OBVIOUS
    <3>1. PICK p \in heard, q \in heard : r[1] \in p..q /\ p..q \subseteq B
      BY <2>1, <1>0
    <3>2. p # r[1] /\ p \in Nat /\ q \in Nat
      BY <1>2
    <3>3. r[1] - 1 \in p..q
      BY <1>3, <3>1, <3>2
    <3> QED BY <2>1, <3>1, <3>3
  <2>3. r[2] - 1 \in heard
    <3> SUFFICES ASSUME r[2] - 1 \notin heard PROVE FALSE
      OBVIOUS
    <3>1. PICK p \in heard, q \in heard : r[2] - 1 \in p..q /\ p..q \subseteq B
      BY <2>1, <1>0
    <3>2. q # r[2] - 1 /\ p \in Nat /\ q \in Nat
      BY <1>2
    <3>3. r[2] \in p..q
      BY <1>3, <3>1, <3>2
    <3> QED BY <2>1, <3>1, <3>3
  <2> QED BY <2>2, <2>3
<1>5. ASSUME NEW r \in regions, NEW q \in regions, r[1] < q[1]
      PROVE  r[2] < q[1] /\ q[1] - r[2] >= MinSilence
  <2>1. r[2] < q[1] /\ r[2] \in Nat /\ q[1] \in Nat
    BY <1>2, <1>3, <1>5, RunsApart
  <2>2. SUFFICES ASSUME q[1] - r[2] < MinSilence PROVE FALSE
    BY <1>1, <2>1
  <2>3. q[1] - (r[2] - 1) - 1 < MinSilence
    BY <2>1, <2>2
  <2>4. (r[2] - 1)..q[1] \subseteq B
    BY <1>4, <2>3, <1>0
  <2>5. r[2] \in (r[2] - 1)..q[1]
    BY <2>1
  <2> QED BY <1>2, <1>3, <2>4, <2>5, RunIs
<1>6. ASSUME NEW a \in heard, NEW b \in heard,
             b - a - 1 < MinSilence, b - a + 1 >= MinSpeech
      PROVE  \E r \in regions : r[1] <= a /\ b < r[2]
  <2>1. a \in Nat /\ b \in Nat /\ a <= b
    BY <1>1, <1>6
  <2>2. a..b \subseteq B
    BY <1>6, <1>0
  <2>3. PICK r \in Runs(B) : r[1] <= a /\ b < r[2]
    BY <1>2, <2>1, <2>2, RunThrough
  <2>4. r[1] \in Nat /\ r[2] \in Nat
    BY <1>2, RunIs
  <2>5. r[2] - r[1] >= MinSpeech
    BY <1>1, <1>6, <2>1, <2>3, <2>4
  <2> QED BY <2>3, <2>5 DEF Lasting
<1> HIDE DEF regions
<1> QED BY <1>3, <1>4, <1>5, <1>6 DEF _pcm_to_speech_segments, regions, B

\* No speech region is invented, too short or too close to another, and no long enough
\* speech is lost, whatever the detector hears (_pcm_to_speech_segments).
THEOREM RegionsAreSoundAlways == RegionsAreSound
<1>1. PlanBound \in Nat
  BY SplitAssumption
<1> QED BY <1>1, RegionsAre DEF RegionsAreSound

------------------------------------------------------------------------------
(* The silences.                                                             *)

\* Regions of at least a chunk, clipped to the audio as Gaps clips them.
Clipped(duration, speech) ==
  {<<Greatest(0, s[1]), Least(duration, s[2])>> :
     s \in {s \in speech : s[2] > s[1] /\ s[2] > 0 /\ s[1] < duration}}

\* Where the speech that starts before a point ends.
EndsBefore(duration, speech, from) ==
  {0} \union {s[2] : s \in {s \in Clipped(duration, speech) : s[1] < from}}

Cursor(duration, speech, from) == Max(EndsBefore(duration, speech, from))

Starts(duration, speech) == {s[1] : s \in Clipped(duration, speech)} \union {duration}

LEMMA GapsAre ==
  ASSUME NEW duration, NEW speech
  PROVE  Gaps(duration, speech)
           = {Span(Cursor(duration, speech, from), from) :
                from \in {f \in Starts(duration, speech) : f > Cursor(duration, speech, f)}}
BY Zenon DEF Gaps, Cursor, EndsBefore, Clipped, Starts

AreRegions(speech) ==
  \A s \in speech : s[1] \in Nat /\ s[2] \in Nat /\ s[1] < s[2]

\* A region that starts within the audio is clipped at its end.
LEMMA ClippedIs ==
  ASSUME NEW duration \in Nat \ {0}, NEW speech, AreRegions(speech)
  PROVE  /\ \A s \in speech : s[1] < duration =>
              <<s[1], IF s[2] <= duration THEN s[2] ELSE duration>> \in Clipped(duration, speech)
         /\ \A h \in Clipped(duration, speech) : \E s \in speech :
              s[1] < duration /\ h[1] = s[1] /\ h[2] = IF s[2] <= duration THEN s[2] ELSE duration
<1> DEFINE clip(s) == <<Greatest(0, s[1]), Least(duration, s[2])>>
           inside == {s \in speech : s[2] > s[1] /\ s[2] > 0 /\ s[1] < duration}
<1>1. Clipped(duration, speech) = {clip(s) : s \in inside}
  BY DEF Clipped
<1>2. ASSUME NEW s \in speech
      PROVE  clip(s) = <<s[1], IF s[2] <= duration THEN s[2] ELSE duration>>
  <2>1. s[1] \in Nat /\ s[2] \in Nat
    BY DEF AreRegions
  <2>2. Greatest(0, s[1]) = s[1]
    BY <2>1, GreatestIs
  <2>3. Least(duration, s[2]) = IF s[2] <= duration THEN s[2] ELSE duration
    BY <2>1, LeastIs
  <2> QED BY <2>2, <2>3
<1>3. \A s \in speech : s[1] < duration => s \in inside
  BY DEF AreRegions
<1>4. \A h \in Clipped(duration, speech) : \E s \in inside : h = clip(s)
  BY <1>1
<1>5. \A s \in inside : s \in speech /\ s[1] < duration
  OBVIOUS
<1>6. \A s \in inside : clip(s) \in Clipped(duration, speech)
  BY <1>1
<1> HIDE DEF inside, clip
<1>7. \A s \in speech : s[1] < duration =>
          <<s[1], IF s[2] <= duration THEN s[2] ELSE duration>> \in Clipped(duration, speech)
  BY <1>2, <1>3, <1>6
<1>8. ASSUME NEW h \in Clipped(duration, speech)
      PROVE  \E s \in speech :
               s[1] < duration /\ h[1] = s[1] /\ h[2] = IF s[2] <= duration THEN s[2] ELSE duration
  <2>1. PICK s \in inside : h = clip(s)
    BY <1>4
  <2>2. s \in speech /\ s[1] < duration
    BY <1>5
  <2>3. h = <<s[1], IF s[2] <= duration THEN s[2] ELSE duration>>
    BY <1>2, <2>1, <2>2
  <2> QED BY <2>2, <2>3
<1> QED BY <1>7, <1>8

LEMMA CursorIs ==
  ASSUME NEW duration \in Nat \ {0}, NEW speech, AreRegions(speech), NEW from
  PROVE  LET c == Cursor(duration, speech, from)
         IN /\ c \in Nat /\ c <= duration
            /\ \A h \in Clipped(duration, speech) : h[1] < from => h[2] <= c
            /\ c = 0 \/ \E h \in Clipped(duration, speech) : h[1] < from /\ c = h[2]
<1> DEFINE E == EndsBefore(duration, speech, from)
<1>1. \A e \in E : e = 0 \/ \E h \in Clipped(duration, speech) : h[1] < from /\ e = h[2]
  BY DEF EndsBefore
<1>2. 0 \in E /\ \A h \in Clipped(duration, speech) : h[1] < from => h[2] \in E
  BY DEF EndsBefore
<1> HIDE DEF E
<1>3. \A h \in Clipped(duration, speech) : h[2] \in Nat /\ h[2] <= duration
  BY ClippedIs DEF AreRegions
<1>4. E \in SUBSET Nat /\ \A e \in E : e <= duration
  BY <1>1, <1>3
<1>5. Max(E) \in E /\ \A e \in E : e <= Max(E)
  BY <1>2, <1>4, MaxIs
<1>6. Cursor(duration, speech, from) = Max(E)
  BY DEF Cursor, E
<1> QED BY <1>1, <1>2, <1>4, <1>5, <1>6

\* The middle of a silence cuts no speech.
LEMMA MiddleIsSilent ==
  ASSUME NEW duration \in Nat \ {0}, NEW speech, AreRegions(speech),
         NEW m \in Midpoints(Gaps(duration, speech))
  PROVE  InSilence(m, speech)
<1>1. PICK f \in Starts(duration, speech) :
        f > Cursor(duration, speech, f) /\ m = (Cursor(duration, speech, f) + f) \div 2
  <2>1. PICK g \in Gaps(duration, speech) : m = (g.lo + g.hi) \div 2
    BY DEF Midpoints
  <2>2. PICK f \in Starts(duration, speech) :
          f > Cursor(duration, speech, f) /\ g = Span(Cursor(duration, speech, f), f)
    BY GapsAre
  <2> QED BY <2>1, <2>2 DEF Span
<1>2. PICK c \in Nat : c = Cursor(duration, speech, f) /\ c <= duration
  BY CursorIs
<1>3. f \in Nat /\ f <= duration
  <2>1. CASE f = duration
    BY <2>1
  <2>2. CASE f # duration
    <3>1. PICK h \in Clipped(duration, speech) : f = h[1]
      BY <2>2 DEF Starts
    <3>2. PICK s \in speech : s[1] < duration /\ h[1] = s[1]
      BY ClippedIs
    <3> QED BY <3>1, <3>2 DEF AreRegions
  <2> QED BY <2>1, <2>2
<1>4. m \in Nat /\ c <= m /\ m < f
  BY <1>1, <1>2, <1>3
<1>5. ASSUME NEW s \in speech, s[1] < m, m < s[2] PROVE FALSE
  <2>1. s[1] \in Nat /\ s[2] \in Nat /\ s[1] < duration /\ s[1] < f
    BY <1>3, <1>4, <1>5 DEF AreRegions
  <2>2. PICK e \in Nat : e = IF s[2] <= duration THEN s[2] ELSE duration
    BY <2>1
  <2>3. <<s[1], e>> \in Clipped(duration, speech)
    BY <2>1, <2>2, ClippedIs
  <2>4. <<s[1], e>>[1] = s[1] /\ <<s[1], e>>[2] = e
    OBVIOUS
  <2>5. e <= c
    BY <1>2, <2>1, <2>3, <2>4, CursorIs
  <2> QED BY <1>3, <1>4, <1>5, <2>1, <2>2, <2>5
<1> QED BY <1>5 DEF InSilence

\* A silence between two regions has its middle among the cut points.
LEMMA SilenceHasMiddle ==
  ASSUME NEW duration \in Nat \ {0}, NEW speech, AreRegions(speech),
         \A r, q \in speech : r[1] < q[1] => r[2] < q[1],
         NEW from \in Nat, NEW to \in Nat, to < duration, SilenceWithin(from, to, speech)
  PROVE  \E m \in Midpoints(Gaps(duration, speech)) : m \in Nat /\ from <= m /\ m <= to
<1>1. PICK s \in speech, r \in speech : from <= s[2] /\ s[2] < r[1] /\ r[1] <= to
  BY DEF SilenceWithin
<1>2. /\ s[1] \in Nat /\ s[2] \in Nat /\ s[1] < s[2]
      /\ r[1] \in Nat /\ r[2] \in Nat /\ r[1] < r[2]
  BY DEF AreRegions
<1>3. PICK a \in Nat, b \in Nat : a = s[2] /\ b = r[1]
  BY <1>2
<1>4. PICK c \in Nat : c = Cursor(duration, speech, b) /\ c <= duration
  BY CursorIs
<1>5. a <= c
  <2>1. <<s[1], a>> \in Clipped(duration, speech)
    <3>1. s[1] < duration /\ a <= duration
      BY <1>1, <1>2, <1>3
    <3> QED BY <1>3, <3>1, ClippedIs
  <2>2. <<s[1], a>>[1] < b /\ <<s[1], a>>[2] = a
    BY <1>1, <1>2, <1>3
  <2> QED BY <1>4, <2>1, <2>2, CursorIs
<1>6. c < b
  <2>1. CASE c = 0
    BY <1>1, <1>2, <1>3, <2>1
  <2>2. CASE c # 0
    <3>1. PICK h \in Clipped(duration, speech) : h[1] < b /\ c = h[2]
      BY <1>4, <2>2, CursorIs
    <3>2. PICK q \in speech :
            h[1] = q[1] /\ h[2] = IF q[2] <= duration THEN q[2] ELSE duration
      BY ClippedIs
    <3>3. q[2] \in Nat /\ q[2] < b
      BY <1>3, <3>1, <3>2 DEF AreRegions
    <3> QED BY <1>3, <3>1, <3>2, <3>3
  <2> QED BY <2>1, <2>2
<1>7. b \in Starts(duration, speech)
  <2>1. PICK e : <<r[1], e>> \in Clipped(duration, speech)
    <3>1. r[1] < duration
      BY <1>1, <1>2
    <3> QED BY <3>1, ClippedIs
  <2>2. <<r[1], e>>[1] = b
    BY <1>3
  <2> QED BY <2>1, <2>2 DEF Starts
<1>8. Span(c, b) \in Gaps(duration, speech)
  <2>1. b \in {f \in Starts(duration, speech) : f > Cursor(duration, speech, f)}
    BY <1>3, <1>4, <1>6, <1>7
  <2> QED BY <1>4, <2>1, GapsAre, Zenon
<1>9. (c + b) \div 2 \in Midpoints(Gaps(duration, speech))
  <2>1. Span(c, b).lo = c /\ Span(c, b).hi = b
    BY DEF Span
  <2>2. (Span(c, b).lo + Span(c, b).hi) \div 2 \in Midpoints(Gaps(duration, speech))
    BY <1>8, Zenon DEF Midpoints
  <2> QED BY <2>1, <2>2
<1>10. (c + b) \div 2 \in Nat /\ a <= (c + b) \div 2 /\ (c + b) \div 2 <= b
  BY <1>5, <1>6
<1>11. from <= (c + b) \div 2 /\ (c + b) \div 2 <= to
  BY <1>1, <1>2, <1>3, <1>10
<1> QED BY <1>9, <1>10, <1>11

\* What a plan promises, from what the regions promise.
LEMMA PlanIsSound ==
  ASSUME NEW duration \in Nat \ {0}, NEW cap \in Nat, LongEnough(cap), NEW speech,
         AreRegions(speech), \A r, q \in speech : r[1] < q[1] => r[2] < q[1]
  PROVE  Cuts(pick_split_points(duration, speech, cap), duration, speech, cap)
<1> DEFINE middles == Midpoints(Gaps(duration, speech))
<1>1. PICK p : /\ p = pick_split_points(duration, speech, cap)
               /\ PlanFrom(p, 0, duration, middles, cap)
  BY PickIs
<1>2. /\ Len(p) \in Nat \ {0} /\ DOMAIN p = 1..Len(p)
      /\ p[1].lo = 0 /\ p[Len(p)].hi = duration
      /\ \A i \in 1..Len(p) : /\ p[i].lo \in Nat /\ p[i].hi \in Nat
                              /\ p[i].lo < p[i].hi /\ p[i].hi - p[i].lo <= cap
      /\ \A i \in 1..Len(p) : i < Len(p) =>
           /\ duration - p[i].lo > cap
           /\ p[i].hi = CutAt(middles, cap, p[i].lo)
           /\ p[i + 1].lo = NextStart(middles, cap, p[i].lo)
  BY <1>1 DEF PlanFrom
<1>3. p # <<>>
  BY <1>2
<1>4. \A i \in DOMAIN p : 0 < Length(p[i]) /\ Length(p[i]) <= cap
  BY <1>2 DEF Length
<1>5. ASSUME NEW i \in Adjacent(p)
      PROVE  /\ p[i].lo < p[i + 1].lo /\ p[i].hi - p[i + 1].lo \in 0..VadOverlap
             /\ \/ InSilence(p[i].hi, speech)
                \/ ~ SilenceWithin(p[i].lo + MinSegment(cap), p[i].lo + cap, speech)
  <2>1. i \in 1..Len(p) /\ i < Len(p)
    BY DEF Adjacent
  <2>2. PICK from \in Nat, cut \in Nat, next \in Nat :
          /\ from = p[i].lo /\ cut = p[i].hi /\ next = p[i + 1].lo
          /\ cut = CutAt(middles, cap, from) /\ next = NextStart(middles, cap, from)
          /\ from < next /\ next <= cut /\ cut - next <= VadOverlap
          /\ duration - from > cap
    <3>1. p[i].lo \in Nat
      BY <1>2, <2>1
    <3> HIDE DEF middles
    <3>2. /\ CutAt(middles, cap, p[i].lo) \in Nat /\ NextStart(middles, cap, p[i].lo) \in Nat
          /\ p[i].lo < NextStart(middles, cap, p[i].lo)
          /\ NextStart(middles, cap, p[i].lo) <= CutAt(middles, cap, p[i].lo)
          /\ CutAt(middles, cap, p[i].lo) - NextStart(middles, cap, p[i].lo) <= VadOverlap
      BY <3>1, CutIs
    <3> QED BY <1>2, <2>1, <3>1, <3>2
  <2>3. from < next /\ cut - next \in 0..VadOverlap
    BY <2>2, SplitAssumption
  <2>4. CASE Quiet(middles, cap, from) # {}
    <3>1. MinSegment(cap) \in Nat
      BY MinSegmentIs
    <3>2. /\ Quiet(middles, cap, from) \in SUBSET Nat /\ from + cap \in Nat
          /\ \A t \in Quiet(middles, cap, from) : t <= from + cap
      BY <3>1 DEF Quiet
    <3>3. cut \in Quiet(middles, cap, from)
      BY <2>2, <2>4, <3>2, MaxIs DEF CutAt
    <3>4. cut \in middles
      BY <3>3 DEF Quiet
    <3>5. InSilence(cut, speech)
      BY <3>4, MiddleIsSilent
    <3> QED BY <2>2, <2>3, <3>5
  <2>5. CASE Quiet(middles, cap, from) = {}
    <3>1. SUFFICES ASSUME SilenceWithin(from + MinSegment(cap), from + cap, speech)
                   PROVE  FALSE
      BY <2>2, <2>3
    <3>2. from + MinSegment(cap) \in Nat /\ from + cap \in Nat /\ from + cap < duration
      BY <2>2, MinSegmentIs
    <3>3. PICK m \in middles : m \in Nat /\ from + MinSegment(cap) <= m /\ m <= from + cap
      BY <3>1, <3>2, SilenceHasMiddle
    <3>4. m \in Quiet(middles, cap, from)
      BY <3>2, <3>3 DEF Quiet
    <3> QED BY <2>5, <3>4
  <2> QED BY <2>4, <2>5
<1> QED BY <1>1, <1>2, <1>3, <1>4, <1>5 DEF Cuts

\* A plan made from what the detector hears covers the audio, keeps to the limit and the
\* overlap, and cuts speech only where no whole silence can be reached
\* (pick_split_points on detect_speech_segments).
THEOREM PlansAreSoundAlways == PlansAreSound
<1> SUFFICES ASSUME NEW duration \in 1..PlanBound, NEW cap \in 1..PlanBound, LongEnough(cap),
                    NEW heard \in SUBSET (0..duration - 1)
             PROVE  LET speech == _pcm_to_speech_segments(heard)
                    IN Cuts(pick_split_points(duration, speech, cap), duration, speech, cap)
  BY DEF PlansAreSound
<1>1. PlanBound \in Nat
  BY SplitAssumption
<1>2. duration \in Nat \ {0} /\ cap \in Nat
  BY <1>1
<1>3. PICK speech : speech = _pcm_to_speech_segments(heard)
  OBVIOUS
<1>4. AreRegions(speech) /\ \A r, q \in speech : r[1] < q[1] => r[2] < q[1]
  BY <1>2, <1>3, RegionsAre DEF AreRegions
<1> QED BY <1>2, <1>3, <1>4, PlanIsSound

------------------------------------------------------------------------------
(* Texts of neighbouring segments.                                           *)

\* What two texts share, as LongestMatch collects it.
Blocks(a, b) ==
  {m \in [a : 0..Len(a), b : 0..Len(b), size : 0..Len(a)] :
     /\ m.a + m.size <= Len(a) /\ m.b + m.size <= Len(b)
     /\ \A k \in 1..m.size : a[m.a + k] = b[m.b + k]}

First(m, o) == m.a < o.a \/ (m.a = o.a /\ m.b <= o.b)

\* Of blocks there is a first: the leftmost in a, of these the leftmost in b.
LEMMA FirstExists ==
  ASSUME NEW L \in SUBSET [a : Nat, b : Nat, size : Nat], L # {}
  PROVE  \E m \in L : \A o \in L : First(m, o)
<1> DEFINE A == {m.a : m \in L}
<1>1. PICK x \in A : \A y \in A : x <= y
  <2>1. A \in SUBSET Nat /\ A # {}
    OBVIOUS
  <2> HIDE DEF A
  <2> QED BY <2>1, NatLeast
<1> DEFINE B == {m.b : m \in {n \in L : n.a = x}}
<1>2. PICK z \in B : \A y \in B : z <= y
  <2>1. B \in SUBSET Nat /\ B # {}
    OBVIOUS
  <2> HIDE DEF B
  <2> QED BY <2>1, NatLeast
<1>3. PICK m \in L : m.a = x /\ m.b = z
  OBVIOUS
<1>4. ASSUME NEW o \in L PROVE First(m, o)
  <2>1. x <= o.a /\ x \in Nat /\ o.a \in Nat /\ (o.a = x => z <= o.b)
    BY <1>1, <1>2
  <2> QED BY <1>3, <2>1 DEF First
<1> QED BY <1>4

\* The longest match lies in both texts, and no other is longer.
LEMMA LongestMatchIs ==
  ASSUME NEW S, NEW a \in Seq(S), NEW b \in Seq(S)
  PROVE  /\ LongestMatch(a, b) \in Blocks(a, b)
         /\ \A o \in Blocks(a, b) : o.size <= LongestMatch(a, b).size
<1> DEFINE sizes == {m.size : m \in Blocks(a, b)}
           longest == {m \in Blocks(a, b) : \A o \in Blocks(a, b) : o.size <= m.size}
<1>1. Len(a) \in Nat /\ Len(b) \in Nat
  OBVIOUS
<1>2. Blocks(a, b) \in SUBSET [a : Nat, b : Nat, size : Nat]
  BY <1>1 DEF Blocks
<1>3. \A m \in Blocks(a, b) : m.size <= Len(a)
  BY <1>1 DEF Blocks
<1>4. [a |-> 0, b |-> 0, size |-> 0] \in Blocks(a, b)
  BY <1>1 DEF Blocks
<1>5. PICK x \in sizes : \A y \in sizes : y <= x
  <2>1. sizes \in SUBSET Nat /\ sizes # {} /\ \A y \in sizes : y <= Len(a)
    BY <1>2, <1>3, <1>4
  <2> HIDE DEF sizes
  <2> QED BY <1>1, <2>1, NatGreatest
<1>6. longest # {}
  <2>1. PICK m \in Blocks(a, b) : m.size = x
    OBVIOUS
  <2> QED BY <1>5, <2>1
<1>7. PICK m \in longest : \A o \in longest : First(m, o)
  <2>1. longest \in SUBSET [a : Nat, b : Nat, size : Nat]
    BY <1>2
  <2> HIDE DEF longest
  <2> QED BY <1>6, <2>1, FirstExists
<1>8. LongestMatch(a, b) = CHOOSE n \in longest : \A o \in longest : First(n, o)
  BY Zenon DEF LongestMatch, Blocks, First
<1>9. LongestMatch(a, b) \in longest
  <2> HIDE DEF longest
  <2> QED BY <1>7, <1>8, Zenon
<1> QED BY <1>9

LEMMA PrefixOfConcat ==
  ASSUME NEW S, NEW s \in Seq(S), NEW t \in Seq(S)
  PROVE  SubSeq(s \o t, 1, Len(s)) = s
OBVIOUS

LEMMA SuffixOfConcat ==
  ASSUME NEW S, NEW s \in Seq(S), NEW t \in Seq(S)
  PROVE  SubSeq(s \o t, Len(s \o t) - Len(t) + 1, Len(s \o t)) = t
OBVIOUS

LEMMA SpliceIsSound ==
  ASSUME NEW S, Space \in S, NEW left \in Seq(S), NEW right \in Seq(S),
         left # <<>>, right # <<>>
  PROVE  SplicedWell(left, right)
<1> DEFINE match == LongestMatch(Tail200(left), Head200(right))
           spliced == _splice_pair(left, right)
           dropped == Len(left) + Len(right) - Len(spliced)
           kept == SubSeq(right, Greatest(0, dropped) + 1, Len(right))
<1>1. ProbeChars \in Nat \ {0} /\ MinOverlapChars \in Nat \ {0}
  BY SplitAssumption
<1>2. Len(left) \in Nat /\ Len(right) \in Nat
  OBVIOUS
<1>3. /\ Tail200(left) \in Seq(S) /\ Head200(right) \in Seq(S)
      /\ Len(Head200(right)) <= ProbeChars /\ Len(Head200(right)) <= Len(right)
  <2>1. Greatest(1, Len(left) - ProbeChars + 1) \in 1..Len(left) + 1
    BY <1>1, <1>2, GreatestIs
  <2>2. Least(ProbeChars, Len(right)) \in 0..Len(right) /\ Least(ProbeChars, Len(right)) <= ProbeChars
    BY <1>1, <1>2, LeastIs
  <2> QED BY <1>1, <1>2, <2>1, <2>2 DEF Tail200, Head200
<1>4. match \in Blocks(Tail200(left), Head200(right))
  BY <1>3, LongestMatchIs
<1>5. /\ match.b \in Nat /\ match.size \in Nat
      /\ match.b + match.size <= ProbeChars /\ match.b + match.size <= Len(right)
  <2> HIDE DEF match
  <2>1. Len(Tail200(left)) \in Nat /\ Len(Head200(right)) \in Nat
    BY <1>3
  <2> QED BY <1>1, <1>2, <1>3, <1>4, <2>1 DEF Blocks
<1> HIDE DEF match
<1>6. CASE match.size < MinOverlapChars
  <2>1. spliced = (left \o <<Space>>) \o right
    BY <1>6, Zenon DEF _splice_pair, match
  <2>2. spliced = left \o (<<Space>> \o right)
    BY <2>1
  <2>3. dropped = -1
    BY <1>2, <2>1
  <2>4. kept = right
    BY <1>2, <2>3, GreatestIs
  <2>5. left \o <<Space>> \in Seq(S) /\ <<Space>> \o right \in Seq(S)
    OBVIOUS
  <2>6. SubSeq(spliced, 1, Len(left)) = left
    <3>1. SubSeq(left \o (<<Space>> \o right), 1, Len(left)) = left
      <4> DEFINE after == <<Space>> \o right
      <4>1. after \in Seq(S)
        BY <2>5
      <4> HIDE DEF after
      <4>2. SubSeq(left \o after, 1, Len(left)) = left
        BY <4>1, PrefixOfConcat
      <4> QED BY <4>2 DEF after
    <3> QED BY <2>2, <3>1, Zenon
  <2>7. SubSeq(spliced, Len(spliced) - Len(right) + 1, Len(spliced)) = right
    BY <2>1, <2>5, SuffixOfConcat
  <2> HIDE DEF spliced, kept
  <2> QED BY <2>3, <2>4, <2>6, <2>7 DEF SplicedWell, spliced, kept
<1>7. CASE match.size >= MinOverlapChars
  <2> DEFINE drop == match.b + match.size
             rest == SubSeq(right, drop + 1, Len(right))
  <2>1. ~(match.size < MinOverlapChars)
    BY <1>1, <1>5, <1>7
  <2>2. spliced = left \o rest
    BY <2>1, Zenon DEF _splice_pair, match
  <2>3. drop \in MinOverlapChars..ProbeChars /\ drop \in 0..Len(right)
    BY <1>1, <1>5, <1>7
  <2>4. rest \in Seq(S) /\ Len(rest) = Len(right) - drop
    <3> HIDE DEF drop
    <3> QED BY <1>2, <2>3
  <2>5. dropped = drop
    <3> HIDE DEF drop, rest, spliced
    <3>1. Len(spliced) = Len(left) + Len(rest)
      BY <2>2, <2>4
    <3> QED BY <1>2, <2>3, <2>4, <3>1
  <2>6. kept = rest
    <3> HIDE DEF drop
    <3>1. Greatest(0, drop) = drop
      BY <2>3, <1>1, GreatestIs
    <3> QED BY <2>5, <3>1
  <2> HIDE DEF drop, rest
  <2>7. SubSeq(spliced, 1, Len(left)) = left
    BY <2>2, <2>4, PrefixOfConcat
  <2>8. SubSeq(spliced, Len(spliced) - Len(rest) + 1, Len(spliced)) = rest
    BY <2>2, <2>4, SuffixOfConcat
  <2>9. dropped \in MinOverlapChars..ProbeChars
    BY <2>3, <2>5
  <2> HIDE DEF spliced, kept, dropped
  <2> QED BY <2>6, <2>7, <2>8, <2>9 DEF SplicedWell, spliced, kept, dropped
<1>8. match.size < MinOverlapChars \/ match.size >= MinOverlapChars
  BY <1>1, <1>5
<1> QED BY <1>6, <1>7, <1>8

\* A splice leaves the text so far as it is, and of the next text it leaves out a beginning
\* within the probe that is long enough to be an overlap, or nothing (_splice_pair).
THEOREM SplicesAreSoundAlways == SplicesAreSound
<1> SUFFICES ASSUME NEW left \in Texts, NEW right \in Texts PROVE SplicedWell(left, right)
  BY Zenon DEF SplicesAreSound, SplicedWell
<1> DEFINE S == {"a", "b", " "}
<1>1. ASSUME NEW t \in Texts PROVE t \in Seq(S) /\ t # <<>>
  <2>1. PICK n \in 1..TextBound : t \in [1..n -> {"a", "b"}]
    BY DEF Texts
  <2>2. n \in Nat \ {0}
    BY SplitAssumption
  <2>3. t \in [1..n -> S]
    BY <2>1
  <2> HIDE DEF S
  <2>4. t \in Seq(S) /\ Len(t) = n
    BY <2>2, <2>3, SeqFromFunction
  <2> QED BY <2>2, <2>4
<1>2. Space \in S
  BY DEF Space
<1> HIDE DEF S
<1> QED BY <1>1, <1>2, SpliceIsSound

------------------------------------------------------------------------------
(* Speech without a pause, cut with an overlap and stitched together.        *)

\* The words of the ticks past lo up to hi, each named by its tick.
Words(lo, hi) == [i \in 1..(hi - lo) |-> lo + i]

\* The overlap holds enough letters to be told from a chance match, and lies in the probe.
OverlapFits == VadOverlap \in MinOverlapChars..ProbeChars

LEMMA WordsAre ==
  ASSUME NEW lo \in Nat, NEW hi \in Nat, lo <= hi
  PROVE  /\ Words(lo, hi) \in Seq(Nat) /\ Len(Words(lo, hi)) = hi - lo
         /\ \A i \in 1..(hi - lo) : Words(lo, hi)[i] = lo + i
         /\ DOMAIN Words(lo, hi) = 1..(hi - lo)
<1>1. Words(lo, hi) \in [1..(hi - lo) -> Nat] /\ hi - lo \in Nat
  BY DEF Words
<1>2. \A i \in 1..(hi - lo) : Words(lo, hi)[i] = lo + i
  BY DEF Words
<1> HIDE DEF Words
<1>3. Words(lo, hi) \in Seq(Nat) /\ Len(Words(lo, hi)) = hi - lo /\ DOMAIN Words(lo, hi) = 1..(hi - lo)
  BY <1>1, SeqFromFunction
<1> QED BY <1>2, <1>3

\* A stretch of words taken from a text that starts at tick lo.
LEMMA WordsOfSub ==
  ASSUME NEW lo \in Nat, NEW hi \in Nat, lo <= hi,
         NEW m \in Nat \ {0}, NEW n \in Nat, m <= n + 1, n <= hi - lo
  PROVE  SubSeq(Words(lo, hi), m, n) = Words(lo + m - 1, lo + n)
<1>1. /\ Words(lo, hi) \in Seq(Nat) /\ Len(Words(lo, hi)) = hi - lo
      /\ \A i \in 1..(hi - lo) : Words(lo, hi)[i] = lo + i
  BY WordsAre
<1>2. SubSeq(Words(lo, hi), m, n) = [i \in 1..(n - m + 1) |-> Words(lo, hi)[m + i - 1]]
  <2> DEFINE w == Words(lo, hi)
  <2> HIDE DEF w
  <2>1. SubSeq(w, m, n) = [i \in 1..(1 + n - m) |-> w[i + m - 1]]
    OBVIOUS
  <2>2. 1 + n - m = n - m + 1 /\ \A i \in 1..(n - m + 1) : i + m - 1 = m + i - 1
    OBVIOUS
  <2> QED BY <2>1, <2>2 DEF w
<1>3. \A i \in 1..(n - m + 1) : Words(lo, hi)[m + i - 1] = (lo + m - 1) + i
  <2> HIDE DEF Words
  <2> QED BY <1>1
<1>4. (lo + n) - (lo + m - 1) = n - m + 1
  OBVIOUS
<1>5. Words(lo + m - 1, lo + n) = [i \in 1..(n - m + 1) |-> (lo + m - 1) + i]
  BY <1>4 DEF Words
<1> HIDE DEF Words
<1> QED BY <1>2, <1>3, <1>5

LEMMA WordsConcat ==
  ASSUME NEW lo \in Nat, NEW mid \in Nat, NEW hi \in Nat, lo <= mid, mid <= hi
  PROVE  Words(lo, mid) \o Words(mid, hi) = Words(lo, hi)
<1> DEFINE a == Words(lo, mid)  b == Words(mid, hi)  c == Words(lo, hi)
<1>1. /\ a \in Seq(Nat) /\ Len(a) = mid - lo /\ \A i \in 1..(mid - lo) : a[i] = lo + i
      /\ b \in Seq(Nat) /\ Len(b) = hi - mid /\ \A i \in 1..(hi - mid) : b[i] = mid + i
      /\ c \in Seq(Nat) /\ Len(c) = hi - lo /\ \A i \in 1..(hi - lo) : c[i] = lo + i
  <2>1. a \in Seq(Nat) /\ Len(a) = mid - lo /\ \A i \in 1..(mid - lo) : a[i] = lo + i
    BY WordsAre
  <2>2. b \in Seq(Nat) /\ Len(b) = hi - mid /\ \A i \in 1..(hi - mid) : b[i] = mid + i
    BY WordsAre
  <2>3. c \in Seq(Nat) /\ Len(c) = hi - lo /\ \A i \in 1..(hi - lo) : c[i] = lo + i
    <3>1. lo <= hi
      OBVIOUS
    <3> QED BY <3>1, WordsAre
  <2> HIDE DEF a, b, c
  <2> QED BY <2>1, <2>2, <2>3
<1> HIDE DEF a, b, c
<1>2. /\ a \o b \in Seq(Nat) /\ Len(a \o b) = Len(a) + Len(b)
      /\ \A i \in 1..Len(a) + Len(b) : (a \o b)[i] = IF i <= Len(a) THEN a[i] ELSE b[i - Len(a)]
  BY <1>1, ConcatProperties
<1>3. Len(a \o b) = Len(c)
  BY <1>1, <1>2
<1>4. \A i \in 1..Len(c) : (a \o b)[i] = c[i]
  <2> TAKE i \in 1..Len(c)
  <2>1. i \in 1..(hi - lo) /\ i \in 1..Len(a) + Len(b) /\ c[i] = lo + i
    BY <1>1
  <2>2. CASE i <= Len(a)
    BY <1>1, <1>2, <2>1, <2>2
  <2>3. CASE i > Len(a)
    <3>1. i - Len(a) \in 1..(hi - mid) /\ b[i - Len(a)] = mid + (i - Len(a))
      BY <1>1, <2>1, <2>3
    <3>2. (a \o b)[i] = b[i - Len(a)]
      <4>1. ~(i <= Len(a))
        BY <1>1, <2>1, <2>3
      <4> QED BY <1>2, <2>1, <4>1, Zenon
    <3>3. mid + (i - Len(a)) = lo + i
      BY <1>1, <2>1
    <3> QED BY <2>1, <3>1, <3>2, <3>3
  <2>4. i <= Len(a) \/ i > Len(a)
    <3>1. Len(a) \in Nat /\ i \in Nat
      BY <1>1, <2>1
    <3> QED BY <3>1
  <2> QED BY <2>2, <2>3, <2>4
<1>5. a \o b = c
  BY <1>1, <1>2, <1>3, <1>4, SeqEqual
<1> QED BY <1>5 DEF a, b, c

\* The next segment starts the overlap before the end of this one.
Overlaps(next, end) == end - next = VadOverlap

\* The words that end the one text and begin the other are exactly what they share, and
\* the splice drops them from the second.
LEMMA SpliceOverlap ==
  ASSUME OverlapFits, NEW n \in Nat, NEW e \in Nat, NEW hi \in Nat,
         Overlaps(n, e), e <= hi
  PROVE  _splice_pair(Words(0, e), Words(n, hi)) = Words(0, hi)
<1> DEFINE left == Words(0, e)  right == Words(n, hi)
           V == VadOverlap
           from == Greatest(1, e - ProbeChars + 1)
           upto == Least(ProbeChars, hi - n)
           A == Words(from - 1, e)
           B == Words(n, n + upto)
           match == LongestMatch(Tail200(left), Head200(right))
<1>1. /\ V \in Nat \ {0} /\ ProbeChars \in Nat \ {0} /\ MinOverlapChars \in Nat \ {0}
      /\ MinOverlapChars <= V /\ V <= ProbeChars /\ e - n = V
  BY SplitAssumption DEF OverlapFits, Overlaps
<1>2. /\ left \in Seq(Nat) /\ Len(left) = e /\ right \in Seq(Nat) /\ Len(right) = hi - n
      /\ left # <<>> /\ right # <<>> /\ e >= V /\ hi - n >= V
  <2>1. left \in Seq(Nat) /\ Len(left) = e - 0 /\ right \in Seq(Nat) /\ Len(right) = hi - n
    <3>1. 0 <= e /\ n <= hi /\ 0 \in Nat
      BY <1>1
    <3>2. left \in Seq(Nat) /\ Len(left) = e - 0
      BY <3>1, WordsAre
    <3>3. right \in Seq(Nat) /\ Len(right) = hi - n
      BY <3>1, WordsAre
    <3> QED BY <3>2, <3>3
  <2> HIDE DEF left, right
  <2>2. e >= V /\ hi - n >= V /\ Len(left) = e /\ e \in Nat \ {0} /\ hi - n \in Nat \ {0}
    BY <1>1, <2>1
  <2>3. Len(<<>>) = 0
    OBVIOUS
  <2> QED BY <2>1, <2>2, <2>3
<1>3. /\ from \in Nat \ {0} /\ from <= e - V + 1 /\ upto \in Nat /\ V <= upto /\ upto <= hi - n
  <2>1. e \in Nat /\ hi - n \in Nat /\ e >= V /\ hi - n >= V /\ e - ProbeChars + 1 \in Int
    BY <1>1, <1>2
  <2>2. from = IF 1 >= e - ProbeChars + 1 THEN 1 ELSE e - ProbeChars + 1
    BY <2>1, GreatestIs
  <2>3. upto = IF ProbeChars <= hi - n THEN ProbeChars ELSE hi - n
    BY <1>1, <2>1, LeastIs
  <2> HIDE DEF from, upto
  <2> QED BY <1>1, <2>1, <2>2, <2>3
<1> HIDE DEF from, upto
<1>4. Tail200(left) = A
  <2>1. SubSeq(left, from, e) = Words(0 + from - 1, 0 + e)
    <3>1. 0 <= e /\ from \in Nat \ {0} /\ from <= e + 1 /\ e <= e - 0 /\ 0 \in Nat
      BY <1>1, <1>2, <1>3
    <3> QED BY <3>1, WordsOfSub, ZenonT(60)
  <2>2. 0 + from - 1 = from - 1 /\ 0 + e = e
    BY <1>3
  <2>3. Tail200(left) = SubSeq(left, from, e)
    BY <1>2 DEF Tail200, from
  <2> HIDE DEF left
  <2> QED BY <2>1, <2>2, <2>3
<1>5. Head200(right) = B
  <2>1. SubSeq(right, 1, upto) = Words(n + 1 - 1, n + upto)
    <3>1. n <= hi /\ upto \in Nat /\ 1 <= upto + 1 /\ upto <= hi - n /\ 1 \in Nat \ {0}
      BY <1>1, <1>2, <1>3
    <3> QED BY <3>1, WordsOfSub, ZenonT(60)
  <2>2. n + 1 - 1 = n
    OBVIOUS
  <2>3. Head200(right) = SubSeq(right, 1, upto)
    BY <1>2 DEF Head200, upto
  <2> HIDE DEF right
  <2> QED BY <2>1, <2>2, <2>3
<1>6. /\ A \in Seq(Nat) /\ Len(A) = e - from + 1
      /\ \A i \in 1..(e - from + 1) : A[i] = (from - 1) + i
      /\ B \in Seq(Nat) /\ Len(B) = upto /\ \A i \in 1..upto : B[i] = n + i
  <2>1. e - (from - 1) = e - from + 1 /\ (n + upto) - n = upto
        /\ from - 1 \in Nat /\ from - 1 <= e /\ n + upto \in Nat /\ n <= n + upto
    BY <1>1, <1>2, <1>3
  <2>2. A \in Seq(Nat) /\ Len(A) = e - (from - 1)
        /\ \A i \in 1..(e - (from - 1)) : A[i] = (from - 1) + i
    BY <2>1, WordsAre
  <2>3. B \in Seq(Nat) /\ Len(B) = (n + upto) - n /\ \A i \in 1..((n + upto) - n) : B[i] = n + i
    BY <2>1, WordsAre
  <2> HIDE DEF A, B
  <2> QED BY <2>1, <2>2, <2>3
<1> HIDE DEF A, B
<1> DEFINE shared == [a |-> (e - from + 1) - V, b |-> 0, size |-> V]
<1>7. shared \in Blocks(A, B)
  <2>1. \A k \in 1..V : A[((e - from + 1) - V) + k] = B[0 + k]
    <3> TAKE k \in 1..V
    <3>1. ((e - from + 1) - V) + k \in 1..(e - from + 1) /\ k \in 1..upto /\ 0 + k = k
      BY <1>1, <1>2, <1>3
    <3>2. A[((e - from + 1) - V) + k] = (from - 1) + (((e - from + 1) - V) + k) /\ B[k] = n + k
      BY <1>6, <3>1
    <3> QED BY <1>1, <1>3, <3>1, <3>2
  <2>2. shared \in [a : 0..Len(A), b : 0..Len(B), size : 0..Len(A)]
    BY <1>1, <1>2, <1>3, <1>6
  <2>3. shared.a = (e - from + 1) - V /\ shared.b = 0 /\ shared.size = V
    OBVIOUS
  <2>4. /\ ((e - from + 1) - V) + V <= Len(A) /\ 0 + V <= Len(B)
    BY <1>1, <1>3, <1>6
  <2> HIDE DEF shared
  <2> QED BY <2>1, <2>2, <2>3, <2>4 DEF Blocks
<1>8. match \in Blocks(A, B) /\ V <= match.size
  <2>1. match = LongestMatch(A, B)
    BY <1>4, <1>5, Zenon
  <2> HIDE DEF match, shared
  <2>2. match \in Blocks(A, B) /\ shared.size <= match.size
    BY <1>6, <1>7, <2>1, LongestMatchIs
  <2> QED BY <2>2 DEF shared
<1> HIDE DEF match
<1>9. match.size = V /\ match.b = 0
  <2>1. /\ match.a \in Nat /\ match.b \in Nat /\ match.size \in Nat
        /\ match.a + match.size <= e - from + 1 /\ match.b + match.size <= upto
        /\ \A k \in 1..match.size : A[match.a + k] = B[match.b + k]
    BY <1>1, <1>2, <1>3, <1>6, <1>8 DEF Blocks
  <2>2. A[match.a + 1] = B[match.b + 1]
    BY <1>1, <1>8, <2>1
  <2>3. A[match.a + 1] = (from - 1) + (match.a + 1) /\ B[match.b + 1] = n + (match.b + 1)
    <3>1. match.a + 1 \in 1..(e - from + 1) /\ match.b + 1 \in 1..upto
      BY <1>1, <1>3, <1>8, <2>1
    <3> QED BY <1>6, <3>1
  <2>4. (from - 1) + (match.a + 1) = n + (match.b + 1)
    BY <2>2, <2>3
  <2> QED BY <1>1, <1>3, <1>8, <2>1, <2>4
<1>10. _splice_pair(left, right) = left \o SubSeq(right, V + 1, Len(right))
  <2>1. ~(match.size < MinOverlapChars) /\ match.b + match.size + 1 = V + 1
    BY <1>1, <1>9
  <2> HIDE DEF left, right
  <2>2. _splice_pair(left, right) = left \o SubSeq(right, match.b + match.size + 1, Len(right))
    BY <1>2, <2>1, Zenon DEF _splice_pair, match
  <2> QED BY <2>1, <2>2
<1>11. SubSeq(right, V + 1, Len(right)) = Words(e, hi)
  <2>1. SubSeq(right, V + 1, hi - n) = Words(n + (V + 1) - 1, n + (hi - n))
    <3>1. /\ n <= hi /\ V + 1 \in Nat \ {0} /\ hi - n \in Nat /\ V + 1 <= (hi - n) + 1
          /\ hi - n <= hi - n
      BY <1>1, <1>2
    <3> QED BY <3>1, WordsOfSub, ZenonT(60)
  <2>2. n + (V + 1) - 1 = e /\ n + (hi - n) = hi
    BY <1>1
  <2> HIDE DEF right
  <2> QED BY <1>2, <2>1, <2>2
<1>12. Words(0, e) \o Words(e, hi) = Words(0, hi)
  <2>1. 0 <= e /\ 0 \in Nat
    OBVIOUS
  <2> QED BY <2>1, WordsConcat
<1> QED BY <1>10, <1>11, <1>12

\* The fold of stitch_transcripts over the positions of a set.
Stitches(g, s, S) ==
  g = [t \in SUBSET S |->
        IF t = {} THEN <<>> ELSE _splice_pair(g[t \ {Max(t)}], s[Max(t)])]

LEMMA LastPosition ==
  ASSUME NEW k \in Nat, NEW t \in SUBSET (1..k), k \in t
  PROVE  Max(t) = k
<1> DEFINE m == Max(t)
<1>1. m \in t /\ \A y \in t : y <= m
  BY MaxIs
<1> HIDE DEF m
<1>2. m \in 1..k /\ k <= m
  BY <1>1
<1>3. m = k
  BY <1>2
<1> QED BY <1>3 DEF m

LEMMA StitchesExist ==
  ASSUME NEW s, NEW n \in Nat
  PROVE  \E g : Stitches(g, s, 1..n)
<1> DEFINE P == {k \in Nat : \E g : Stitches(g, s, 1..k)}
<1>1. 0 \in P
  <2> DEFINE g == [t \in SUBSET (1..0) |-> <<>>]
  <2>1. \A t \in SUBSET (1..0) : t = {}
    OBVIOUS
  <2>2. Stitches(g, s, 1..0)
    BY <2>1 DEF Stitches
  <2> QED BY <2>2
<1>2. ASSUME NEW k \in Nat, k \in P PROVE k + 1 \in P
  <2>1. PICK g : Stitches(g, s, 1..k)
    BY <1>2
  <2> DEFINE h == [t \in SUBSET (1..(k + 1)) |->
                     IF k + 1 \in t THEN _splice_pair(g[t \ {k + 1}], s[k + 1]) ELSE g[t]]
  <2>2. ASSUME NEW t \in SUBSET (1..(k + 1))
        PROVE  h[t] = IF t = {} THEN <<>> ELSE _splice_pair(h[t \ {Max(t)}], s[Max(t)])
    <3>1. CASE k + 1 \in t
      <4>1. Max(t) = k + 1
        BY <3>1, LastPosition
      <4>2. h[t \ {k + 1}] = g[t \ {k + 1}]
        OBVIOUS
      <4> QED BY <3>1, <4>1, <4>2
    <3>2. CASE k + 1 \notin t
      <4>1. t \in SUBSET (1..k) /\ h[t] = g[t] /\ h[t \ {Max(t)}] = g[t \ {Max(t)}]
        BY <3>2
      <4> QED BY <2>1, <4>1 DEF Stitches
    <3> QED BY <3>1, <3>2
  <2>3. Stitches(h, s, 1..(k + 1))
    <3> HIDE DEF h
    <3>1. h = [t \in SUBSET (1..(k + 1)) |-> h[t]]
      BY DEF h
    <3> QED BY <2>2, <3>1 DEF Stitches
  <2> QED BY <2>3
<1> HIDE DEF P
<1>3. Nat \subseteq P
  BY <1>1, <1>2, NatBySuccessor
<1> QED BY <1>3 DEF P

\* A hard cut every cap ticks, each segment starting the overlap before the cut.
HardCut(p, duration, cap) ==
  /\ Len(p) \in Nat \ {0} /\ DOMAIN p = 1..Len(p)
  /\ p[1].lo = 0 /\ p[Len(p)].hi = duration
  /\ \A i \in 1..Len(p) : p[i].lo \in Nat /\ p[i].hi \in Nat /\ p[i].lo < p[i].hi
  /\ \A i \in 1..Len(p) : i < Len(p) =>
       Overlaps(p[i + 1].lo, p[i].hi) /\ p[i].hi <= p[i + 1].hi

\* Speech from the start to the end leaves no silence to cut in.
LEMMA NoSilence ==
  ASSUME NEW duration \in Nat \ {0}
  PROVE  Midpoints(Gaps(duration, {<<0, duration>>})) = {}
<1> DEFINE speech == {<<0, duration>>}
<1>1. AreRegions(speech)
  BY DEF AreRegions
<1>2. <<0, duration>> \in Clipped(duration, speech)
  <2>1. <<0, duration>>[1] < duration /\ <<0, duration>>[2] <= duration /\ <<0, duration>>[1] = 0
        /\ <<0, duration>>[2] = duration
    OBVIOUS
  <2>2. \A s \in speech : s[1] < duration =>
          <<s[1], IF s[2] <= duration THEN s[2] ELSE duration>> \in Clipped(duration, speech)
    BY <1>1, ClippedIs
  <2> QED BY <2>1, <2>2
<1>3. \A h \in Clipped(duration, speech) : h[1] = 0
  <2>1. \A h \in Clipped(duration, speech) : \E s \in speech : s[1] < duration /\ h[1] = s[1]
    BY <1>1, ClippedIs
  <2> QED BY <2>1
<1> HIDE DEF speech
<1>4. ASSUME NEW f \in Starts(duration, speech) PROVE ~(f > Cursor(duration, speech, f))
  <2>1. PICK c \in Nat : /\ c = Cursor(duration, speech, f)
                         /\ \A h \in Clipped(duration, speech) : h[1] < f => h[2] <= c
    BY <1>1, CursorIs
  <2>2. CASE f = 0
    BY <2>1, <2>2
  <2>3. CASE f = duration
    <3>1. <<0, duration>>[1] < f /\ <<0, duration>>[2] = duration
      BY <2>3
    <3>2. duration <= c
      BY <1>2, <2>1, <3>1
    <3> QED BY <2>1, <2>3, <3>2
  <2> QED BY <1>3, <2>2, <2>3 DEF Starts
<1>5. Gaps(duration, speech) = {}
  BY <1>4, GapsAre
<1> QED BY <1>5 DEF Midpoints, speech

LEMMA HardCutIs ==
  ASSUME NEW duration \in Nat \ {0}, NEW cap \in Nat, LongEnough(cap),
         cap >= VadOverlap + OneSecond
  PROVE  HardCut(pick_split_points(duration, {<<0, duration>>}, cap), duration, cap)
<1>1. PICK p : /\ p = pick_split_points(duration, {<<0, duration>>}, cap)
               /\ PlanFrom(p, 0, duration, {}, cap)
  <2>1. PlanFrom(pick_split_points(duration, {<<0, duration>>}, cap), 0, duration,
                 Midpoints(Gaps(duration, {<<0, duration>>})), cap)
    BY PickIs
  <2> QED BY <2>1, NoSilence
<1>2. /\ Len(p) \in Nat \ {0} /\ DOMAIN p = 1..Len(p)
      /\ p[1].lo = 0 /\ p[Len(p)].hi = duration
      /\ \A i \in 1..Len(p) : p[i].lo \in Nat /\ p[i].hi \in Nat /\ p[i].lo < p[i].hi
      /\ \A i \in 1..Len(p) : i < Len(p) =>
           /\ duration - p[i].lo > cap
           /\ p[i].hi = CutAt({}, cap, p[i].lo)
           /\ p[i + 1].lo = NextStart({}, cap, p[i].lo)
  BY <1>1 DEF PlanFrom
<1>3. VadOverlap \in Nat /\ OneSecond \in Nat \ {0}
  BY SplitAssumption
<1>4. ASSUME NEW from \in Nat
      PROVE  CutAt({}, cap, from) = from + cap /\ NextStart({}, cap, from) = from + cap - VadOverlap
  <2>1. Quiet({}, cap, from) = {}
    BY DEF Quiet
  <2>2. Greatest(from + OneSecond, from + cap - VadOverlap) = from + cap - VadOverlap
    BY <1>3, GreatestIs
  <2> QED BY <2>1, <2>2 DEF CutAt, NextStart
<1>5. \A i \in 1..Len(p) : i < Len(p) =>
         duration - p[i].lo > cap /\ p[i].hi = p[i].lo + cap
         /\ p[i + 1].lo = p[i].lo + cap - VadOverlap
  BY <1>2, <1>4
<1>6. ASSUME NEW i \in 1..Len(p), i < Len(p)
      PROVE  p[i].hi - p[i + 1].lo = VadOverlap /\ p[i].hi <= p[i + 1].hi
  <2>1. /\ i + 1 \in 1..Len(p) /\ p[i].hi = p[i].lo + cap /\ p[i].lo \in Nat
        /\ p[i + 1].lo = p[i].lo + cap - VadOverlap /\ duration - p[i].lo > cap
    BY <1>2, <1>5, <1>6, SMTT(30)
  <2>2. CASE i + 1 = Len(p)
    BY <1>2, <1>3, <2>1, <2>2, SMTT(30)
  <2>3. CASE i + 1 < Len(p)
    <3>1. p[i + 1].hi = p[i + 1].lo + cap
      BY <1>5, <2>1, <2>3
    <3> QED BY <1>3, <2>1, <3>1, SMTT(30)
  <2>4. i + 1 = Len(p) \/ i + 1 < Len(p)
    <3>1. Len(p) \in Nat /\ i \in 1..Len(p)
      BY <1>2
    <3> QED BY <1>6, <3>1
  <2>5. p[i].hi - p[i + 1].lo = VadOverlap
    BY <1>3, <2>1
  <2> QED BY <2>2, <2>3, <2>4, <2>5
<1>7. HardCut(p, duration, cap)
  BY <1>2, <1>6 DEF HardCut, Overlaps
<1> QED BY <1>1, <1>7

\* Stitching the texts of hard-cut segments gives the text of the whole.
LEMMA StitchOfHardCut ==
  ASSUME OverlapFits, NEW duration \in Nat \ {0}, NEW cap, NEW p, HardCut(p, duration, cap)
  PROVE  stitch_transcripts([i \in DOMAIN p |-> Words(p[i].lo, p[i].hi)]) = Words(0, duration)
<1> DEFINE s == [i \in DOMAIN p |-> Words(p[i].lo, p[i].hi)]
           F == CHOOSE g : g = [t \in SUBSET (DOMAIN s) |->
                  IF t = {} THEN <<>> ELSE _splice_pair(g[t \ {Max(t)}], s[Max(t)])]
           n == Len(p)
<1>1. stitch_transcripts(s) = F[DOMAIN s]
  <2> HIDE DEF s
  <2> QED BY Zenon DEF stitch_transcripts, FoldLeft, MapThenFoldSet
<1>2. /\ n \in Nat \ {0} /\ DOMAIN s = 1..n /\ \A i \in 1..n : s[i] = Words(p[i].lo, p[i].hi)
      /\ p[1].lo = 0 /\ p[n].hi = duration
      /\ \A i \in 1..n : p[i].lo \in Nat /\ p[i].hi \in Nat /\ p[i].lo < p[i].hi
      /\ \A i \in 1..n : i < n => Overlaps(p[i + 1].lo, p[i].hi) /\ p[i].hi <= p[i + 1].hi
  BY DEF HardCut
<1>3. Stitches(F, s, 1..n)
  <2>1. \E g : Stitches(g, s, DOMAIN s)
    <3> HIDE DEF s
    <3> QED BY <1>2, StitchesExist
  <2>2. Stitches(F, s, DOMAIN s)
    <3> HIDE DEF s
    <3> QED BY <2>1 DEF Stitches
  <2> HIDE DEF F, s
  <2> QED BY <1>2, <2>2
<1> HIDE DEF F, s, n
<1> DEFINE P == {k \in Nat : k + 1 <= n => F[1..(k + 1)] = Words(0, p[k + 1].hi)}
<1>4. ASSUME NEW k \in Nat, k + 1 <= n
      PROVE  F[1..(k + 1)] = _splice_pair(F[1..k], s[k + 1])
  <2>1. 1..(k + 1) \in SUBSET (1..n) /\ k + 1 \in 1..(k + 1) /\ (1..(k + 1)) \ {k + 1} = 1..k
        /\ 1..(k + 1) # {}
    <3>1. n \in Nat
      BY <1>2
    <3>2. 1..(k + 1) \in SUBSET (1..n) /\ k + 1 \in 1..(k + 1)
      BY <1>4, <3>1
    <3>3. (1..(k + 1)) \ {k + 1} = 1..k
      OBVIOUS
    <3> QED BY <3>2, <3>3
  <2>2. Max(1..(k + 1)) = k + 1
    BY <2>1, LastPosition
  <2> QED BY <1>3, <2>1, <2>2 DEF Stitches
<1>5. 0 \in P
  <2>1. F[1..0] = <<>>
    <3>1. 1..0 = {} /\ {} \in SUBSET (1..n)
      OBVIOUS
    <3> QED BY <1>3, <3>1 DEF Stitches
  <2>2. 1 \in 1..n /\ 0 + 1 = 1 /\ s[1] = Words(0, p[1].hi) /\ p[1].hi \in Nat
    BY <1>2
  <2>3. F[1..1] = _splice_pair(<<>>, s[1])
    <3>1. 0 \in Nat /\ 0 + 1 <= n
      BY <1>2
    <3>2. F[1..(0 + 1)] = _splice_pair(F[1..0], s[0 + 1])
      BY <1>4, <3>1, Zenon
    <3> QED BY <2>1, <2>2, <3>2, Zenon
  <2>4. s[1] \in Seq(Nat)
    <3>1. 0 \in Nat /\ 0 <= p[1].hi
      BY <2>2
    <3>2. Words(0, p[1].hi) \in Seq(Nat)
      BY <2>2, <3>1, WordsAre
    <3> QED BY <2>2, <3>2, Zenon
  <2>5. _splice_pair(<<>>, s[1]) = <<>> \o s[1]
    BY Zenon DEF _splice_pair
  <2>6. <<>> \o s[1] = s[1]
    BY <2>4
  <2> QED BY <2>2, <2>3, <2>5, <2>6
<1>6. ASSUME NEW k \in Nat, k \in P PROVE k + 1 \in P
  <2> SUFFICES ASSUME (k + 1) + 1 <= n
               PROVE  F[1..((k + 1) + 1)] = Words(0, p[(k + 1) + 1].hi)
    OBVIOUS
  <2>1. F[1..(k + 1)] = Words(0, p[k + 1].hi)
    BY <1>2, <1>6
  <2>2. /\ k + 1 \in 1..n /\ k + 1 < n /\ (k + 1) + 1 \in 1..n
        /\ s[(k + 1) + 1] = Words(p[(k + 1) + 1].lo, p[(k + 1) + 1].hi)
    BY <1>2
  <2>3. /\ Overlaps(p[(k + 1) + 1].lo, p[k + 1].hi) /\ p[k + 1].hi <= p[(k + 1) + 1].hi
        /\ p[k + 1].hi \in Nat /\ p[(k + 1) + 1].lo \in Nat /\ p[(k + 1) + 1].hi \in Nat
    BY <1>2, <2>2
  <2>4. F[1..((k + 1) + 1)] = _splice_pair(F[1..(k + 1)], s[(k + 1) + 1])
    BY <1>4
  <2> QED BY <2>1, <2>2, <2>3, <2>4, SpliceOverlap
<1> HIDE DEF P
<1>7. Nat \subseteq P
  BY <1>5, <1>6, NatBySuccessor
<1>8. n - 1 \in Nat /\ (n - 1) + 1 = n
  BY <1>2
<1>9. F[1..n] = Words(0, p[n].hi)
  <2>1. n - 1 \in P
    BY <1>7, <1>8
  <2>2. (n - 1) + 1 <= n => F[1..((n - 1) + 1)] = Words(0, p[(n - 1) + 1].hi)
    BY <2>1 DEF P
  <2> QED BY <1>2, <1>8, <2>2
<1>10. stitch_transcripts(s) = Words(0, duration)
  BY <1>1, <1>2, <1>9
<1> QED BY <1>10 DEF s

\* Speech that never pauses comes out of the stitching with each word once, whatever the
\* length of the audio and the limit, when the overlap has the letters the splice asks
\* for and no more than it looks at (stitch_transcripts on pick_split_points). With a
\* shorter overlap the shared words stay twice.
THEOREM StitchUndoesOverlapAlways == OverlapFits => StitchUndoesOverlap
<1> SUFFICES ASSUME OverlapFits, NEW duration \in 1..PlanBound,
                    NEW cap \in VadOverlap + OneSecond .. PlanBound
             PROVE  LET plan == pick_split_points(duration, {<<0, duration>>}, cap)
                        text(r) == [i \in 1..Length(r) |-> r.lo + i]
                    IN stitch_transcripts([i \in DOMAIN plan |-> text(plan[i])])
                         = [i \in 1..duration |-> i]
  BY Zenon DEF StitchUndoesOverlap
<1>1. /\ VadOverlap \in Nat /\ OneSecond \in Nat \ {0} /\ PlanBound \in Nat
      /\ MinOverlapChars \in Nat \ {0} /\ VadOverlap >= MinOverlapChars
  BY SplitAssumption DEF OverlapFits
<1>2. duration \in Nat \ {0} /\ cap \in Nat /\ cap >= VadOverlap + OneSecond /\ LongEnough(cap)
  BY <1>1 DEF LongEnough
<1> DEFINE plan == pick_split_points(duration, {<<0, duration>>}, cap)
<1>3. HardCut(plan, duration, cap)
  BY <1>2, HardCutIs
<1> HIDE DEF plan
<1>4. stitch_transcripts([i \in DOMAIN plan |-> Words(plan[i].lo, plan[i].hi)]) = Words(0, duration)
  BY <1>2, <1>3, StitchOfHardCut
<1>5. Words(0, duration) = [i \in 1..duration |-> i]
  <2>1. duration - 0 = duration /\ \A i \in 1..duration : 0 + i = i
    BY <1>2
  <2> QED BY <2>1 DEF Words
<1>6. stitch_transcripts([i \in DOMAIN plan |-> [j \in 1..Length(plan[i]) |-> plan[i].lo + j]])
        = [i \in 1..duration |-> i]
  BY <1>4, <1>5, Zenon DEF Words, Length
<1> QED BY <1>6, Zenon DEF plan
=============================================================================
