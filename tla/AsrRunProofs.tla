---------------------------- MODULE AsrRunProofs ----------------------------
(***************************************************************************)
(* Proofs about AsrRun: types, the counts of a drained pool, what a stored *)
(* SUCCESS covers, which transcriptions a run may lose, the steps of the   *)
(* pool of producer, queue and workers as steps of WorkPool, and that the  *)
(* pool is never stuck and runs down. For any number of videos, workers,   *)
(* queue slots, attempts, runs, failing writes and crashes.                *)
(***************************************************************************)
EXTENDS AsrRun, FiniteSetTheorems, SequenceTheorems, SetInduction

------------------------------------------------------------------------------
(* Videos, and sequences of videos.                                          *)

LEMMA ConstantsTyped ==
  /\ N \in Nat \ {0} /\ MaxAttempts \in Nat \ {0} /\ QueueMax \in Int
  /\ MaxRuns \in Nat /\ MaxFaults \in Nat /\ MaxCrashes \in Nat
  /\ Videos \subseteq Nat /\ None \notin Videos
  /\ Capacity \in Nat \ {0}
BY RunAssumption DEF Videos, None, Capacity

LEMMA VideoSets ==
  ASSUME NEW S \in SUBSET Videos
  PROVE  IsFiniteSet(S) /\ Cardinality(S) \in 0..N
<1>1. IsFiniteSet(1..N) /\ Cardinality(1..N) = N
  BY FS_Interval, ConstantsTyped
<1>2. IsFiniteSet(S) /\ Cardinality(S) <= N
  BY <1>1, FS_Subset DEF Videos
<1> QED BY <1>2, FS_CardinalityType, ConstantsTyped

LEMMA WorkerSets ==
  ASSUME NEW S \in SUBSET Workers
  PROVE  IsFiniteSet(S) /\ Cardinality(S) \in Nat
BY RunAssumption, FS_Subset, FS_CardinalityType

\* A video is moved out of a set of videos, or into one.
LEMMA OneLess ==
  ASSUME NEW S \in SUBSET Videos, NEW v \in S
  PROVE  Cardinality(S \ {v}) = Cardinality(S) - 1 /\ Cardinality(S) >= 1
<1>1. Cardinality(S \ {v}) = Cardinality(S) - 1
  BY VideoSets, FS_RemoveElement
<1>2. Cardinality(S \ {v}) \in 0..N /\ Cardinality(S) \in 0..N
  BY VideoSets
<1> QED BY <1>1, <1>2, ConstantsTyped

LEMMA OneMore ==
  ASSUME NEW S \in SUBSET Videos, NEW v \in Videos, v \notin S
  PROVE  Cardinality(S \union {v}) = Cardinality(S) + 1
BY VideoSets, FS_AddElement

\* Only a part of what a run may look at is ready, and a plain run skips the rest.
LEMMA ReadyFits ==
  ASSUME TypeOK, NEW o \in Options
  PROVE  /\ Ready(o) \subseteq Videos
         /\ Skipped(o) \in 0..N /\ Cardinality(Ready(o)) + Skipped(o) <= N
<1> DEFINE done == {v \in Considered(o) : Success(v)}
<1>1. Considered(o) \subseteq Videos
  BY DEF Considered, TypeOK
<1>2. Ready(o) \subseteq Videos /\ done \subseteq Videos
  BY <1>1 DEF Ready
<1>3. Cardinality(Ready(o)) \in 0..N /\ Cardinality(done) \in 0..N
  BY <1>2, VideoSets
<1>4. CASE o.failedOnly \/ o.full
  BY <1>2, <1>3, <1>4, ConstantsTyped DEF Skipped
<1>5. CASE ~(o.failedOnly \/ o.full)
  <2>1. Ready(o) \intersect done = {}
    BY <1>5 DEF Ready
  <2>2. IsFiniteSet(Ready(o)) /\ IsFiniteSet(done)
    BY <1>2, VideoSets
  <2>3. Cardinality(Ready(o) \union done) = Cardinality(Ready(o)) + Cardinality(done)
    <3> HIDE DEF done
    <3>1. Cardinality(Ready(o) \intersect done) = 0
      BY <2>1, FS_EmptySet
    <3>2. Cardinality(Ready(o) \union done)
            = Cardinality(Ready(o)) + Cardinality(done) - Cardinality(Ready(o) \intersect done)
      BY <2>2, FS_Union
    <3> QED BY <1>3, <3>1, <3>2
  <2>4. Cardinality(Ready(o) \union done) \in 0..N
    BY <1>2, VideoSets
  <2>5. Skipped(o) = Cardinality(done)
    BY <1>5 DEF Skipped
  <2> HIDE DEF done
  <2> QED BY <1>2, <1>3, <2>3, <2>4, <2>5, ConstantsTyped
<1> QED BY <1>4, <1>5

\* The recursive function of Candidates, defined up to the n-th video.
UpTo(f, o, n) ==
  f = [v \in 0..n |->
         IF v = 0 THEN <<>>
         ELSE IF v \in Ready(o) /\ (o.limit >= 0 => Len(f[v - 1]) < o.limit)
              THEN Append(f[v - 1], v) ELSE f[v - 1]]

LEMMA UpToExists ==
  ASSUME NEW o, NEW n \in Nat
  PROVE  \E f : UpTo(f, o, n)
<1> DEFINE P == {k \in Nat : \E f : UpTo(f, o, k)}
<1>1. 0 \in P
  <2> DEFINE f == [v \in 0..0 |-> <<>>]
  <2>1. UpTo(f, o, 0)
    BY DEF UpTo
  <2> QED BY <2>1
<1>2. ASSUME NEW k \in Nat, k \in P PROVE k + 1 \in P
  <2>1. PICK f : UpTo(f, o, k)
    BY <1>2
  <2> DEFINE g == [v \in 0..(k + 1) |->
                     IF v # k + 1 THEN f[v]
                     ELSE IF v \in Ready(o) /\ (o.limit >= 0 => Len(f[k]) < o.limit)
                          THEN Append(f[k], v) ELSE f[k]]
  <2>2. ASSUME NEW v \in 0..(k + 1)
        PROVE  g[v] = IF v = 0 THEN <<>>
                      ELSE IF v \in Ready(o) /\ (o.limit >= 0 => Len(g[v - 1]) < o.limit)
                           THEN Append(g[v - 1], v) ELSE g[v - 1]
    <3>1. CASE v = k + 1
      <4>1. g[k] = f[k]
        OBVIOUS
      <4> QED BY <3>1, <4>1
    <3>2. CASE v # k + 1
      <4>1. v \in 0..k /\ g[v] = f[v] /\ (v # 0 => g[v - 1] = f[v - 1])
        BY <3>2
      <4>2. f[v] = IF v = 0 THEN <<>>
                   ELSE IF v \in Ready(o) /\ (o.limit >= 0 => Len(f[v - 1]) < o.limit)
                        THEN Append(f[v - 1], v) ELSE f[v - 1]
        BY <2>1, <4>1 DEF UpTo
      <4> HIDE DEF g
      <4> QED BY <4>1, <4>2
    <3> QED BY <3>1, <3>2
  <2>3. UpTo(g, o, k + 1)
    <3>1. g = [v \in 0..(k + 1) |-> g[v]]
      OBVIOUS
    <3> HIDE DEF g
    <3> QED BY <2>2, <3>1 DEF UpTo
  <2> QED BY <2>3
<1> HIDE DEF P
<1>3. Nat \subseteq P
  BY <1>1, <1>2, NatBySuccessor
<1> QED BY <1>3 DEF P

\* What is given to the workers: ready videos, none of them twice.
LEMMA CandidatesAre ==
  ASSUME NEW o, Ready(o) \subseteq Videos
  PROVE  LET c == Candidates(o)
         IN /\ c \in Seq(Videos)
            /\ \A i \in 1..Len(c) : c[i] \in Ready(o)
            /\ \A i, j \in 1..Len(c) : c[i] = c[j] => i = j
<1> DEFINE F == CHOOSE f : UpTo(f, o, N)
<1>1. Candidates(o) = F[N]
  BY Zenon DEF Candidates, UpTo
<1>2. N \in Nat
  BY ConstantsTyped
<1>3. UpTo(F, o, N)
  BY <1>2, UpToExists
<1> HIDE DEF F
<1> DEFINE Good(c, n) ==
             /\ c \in Seq(Videos)
             /\ \A i \in 1..Len(c) : c[i] \in Ready(o) /\ c[i] <= n
             /\ \A i, j \in 1..Len(c) : c[i] = c[j] => i = j
           P == {n \in Nat : n <= N => Good(F[n], n)}
<1>4. 0 \in P
  <2>1. F[0] = <<>>
    BY <1>2, <1>3 DEF UpTo
  <2>2. <<>> \in Seq(Videos) /\ Len(<<>>) = 0 /\ 1..0 = {}
    BY EmptySeq
  <2> QED BY <2>1, <2>2
<1>5. ASSUME NEW n \in Nat, n \in P PROVE n + 1 \in P
  <2> SUFFICES ASSUME n + 1 <= N PROVE Good(F[n + 1], n + 1)
    OBVIOUS
  <2>1. Good(F[n], n)
    BY <1>2, <1>5
  <2>2. F[n + 1] = F[n] \/ (n + 1 \in Ready(o) /\ F[n + 1] = Append(F[n], n + 1))
    <3>1. n + 1 \in 0..N /\ n + 1 # 0 /\ (n + 1) - 1 = n
      BY <1>2
    <3> QED BY <1>3, <3>1 DEF UpTo
  <2>3. CASE F[n + 1] = F[n]
    BY <2>1, <2>3, ElementOfSeq DEF Videos
  <2>4. CASE n + 1 \in Ready(o) /\ F[n + 1] = Append(F[n], n + 1)
    <3> DEFINE c == F[n]  d == Append(c, n + 1)
    <3>1. n + 1 \in Videos
      BY <2>4
    <3>2. /\ d \in Seq(Videos) /\ Len(d) = Len(c) + 1 /\ Len(c) \in Nat
          /\ \A i \in 1..Len(c) : d[i] = c[i]
          /\ d[Len(c) + 1] = n + 1
      BY <2>1, <3>1, AppendProperties, LenProperties
    <3>3. \A i \in 1..Len(c) : c[i] \in Ready(o) /\ c[i] \in Nat /\ c[i] <= n
      BY <2>1, ConstantsTyped
    <3>4. \A i, j \in 1..Len(c) : c[i] = c[j] => i = j
      BY <2>1
    <3> HIDE DEF c, d
    <3>5. \A i \in 1..Len(d) : i \in 1..Len(c) \/ i = Len(c) + 1
      BY <3>2
    <3>6. \A i \in 1..Len(d) : d[i] \in Ready(o) /\ d[i] <= n + 1
      BY <2>4, <3>2, <3>3, <3>5
    <3>7. \A i, j \in 1..Len(d) : d[i] = d[j] => i = j
      <4>1. \A i \in 1..Len(c) : d[i] # d[Len(c) + 1]
        BY <3>2, <3>3
      <4> QED BY <3>2, <3>4, <3>5, <4>1
    <3> QED BY <2>4, <3>2, <3>6, <3>7 DEF c, d
  <2> QED BY <2>2, <2>3, <2>4
<1>6. N \in P
  <2> HIDE DEF P
  <2> QED BY <1>2, <1>4, <1>5, NatBySuccessor
<1> QED BY <1>1, <1>2, <1>6

\* A sequence of different videos has as many entries as its length.
LEMMA EntriesOfCandidates ==
  ASSUME NEW c \in Seq(Videos), \A i, j \in 1..Len(c) : c[i] = c[j] => i = j
  PROVE  Entries(c) \subseteq Videos /\ Cardinality(Entries(c)) = Len(c)
<1>1. c \in [1..Len(c) -> Videos] /\ Len(c) \in Nat /\ DOMAIN c = 1..Len(c)
  BY LenProperties
<1>2. Entries(c) = {c[i] : i \in 1..Len(c)}
  BY <1>1, ConstantsTyped DEF Entries
<1>3. IsFiniteSet(1..Len(c)) /\ Cardinality(1..Len(c)) = Len(c)
  <2>1. Len(c) \in Int /\ (IF 1 > Len(c) THEN 0 ELSE Len(c) - 1 + 1) = Len(c)
    BY <1>1
  <2> QED BY <2>1, FS_Interval
<1>4. c \in Bijection(1..Len(c), Entries(c))
  BY <1>1, <1>2 DEF Bijection, Injection, Surjection, IsInjective
<1>5. Cardinality(1..Len(c)) = Cardinality(Entries(c))
  BY <1>3, <1>4, FS_Bijection DEF ExistsBijection
<1> QED BY <1>1, <1>2, <1>3, <1>5

------------------------------------------------------------------------------
(* The inductive invariant.                                                  *)

\* What the producer has put and will put: items, then one sentinel a live worker.
Line == queue \o toPut
Alive == {w \in Workers : worker[w].at # "gone"}
Busy == {w \in Workers : worker[w].at \in {"work", "save", "net", "dead"}}
Pending == Entries(Line) \union InFlight

\* As many sentinels follow the items as there are workers to end, and none ends before
\* the items do.
SentinelsLast ==
  /\ Cardinality(Alive) <= Len(Line)
  /\ Alive # Workers => Cardinality(Alive) = Len(Line)
  /\ \A i \in 1..Len(Line) : Line[i] = None <=> i > Len(Line) - Cardinality(Alive)

\* No item waits twice, and none waits that a worker has in hand.
OneOfEach ==
  /\ \A i, j \in 1..Len(Line) : Line[i] # None /\ Line[i] = Line[j] => i = j
  /\ \A w \in Busy : worker[w].item # None /\ worker[w].item \notin Entries(Line)
  /\ \A w, u \in Busy : worker[w].item = worker[u].item => w = u

\* When there are workers, and which row of the task they work under.
Lifecycle ==
  /\ Alive # {} => pc \in {"pool", "aborted", "closed"}
  /\ pc \in {"discover", "pool", "derive"} => ~audited.made
  /\ pc \in {"discover", "pool", "derive", "finish"} \/ Alive # {} => task = "RUNNING"
  /\ pc \in {"dry", "init", "discover"} => good = {} /\ bad = {}

\* Unless the run is a full one, what it works on has no transcription.
OnlyMissing == opts.failedOnly \/ ~opts.full => \A v \in Pending : ~Success(v)

\* The counts, the settled items and the pending ones add up to the candidates.
Accounts ==
  pc \in {"pool", "derive"} =>
    /\ rollup.completed = Cardinality(good) /\ rollup.failed = Cardinality(bad)
    /\ good \intersect bad = {} /\ (good \union bad) \intersect Pending = {}
    /\ rollup.total = rollup.completed + rollup.failed + rollup.skipped + Cardinality(Pending)
    /\ \A v \in good : Success(v)
    /\ faults = 0 => \A v \in bad : Failed(v)

Covered == audited.made => \A v \in audited.known : Success(v)

\* A status that claims coverage was checked against rows that nobody changes since.
Claims ==
  /\ task = "SUCCESS" => Covered
  /\ pc = "finish" /\ pipe.status = "SUCCESS" => Covered

------------------------------------------------------------------------------
(* The line of items and sentinels, and the workers.                         *)

LEMMA LineTyped ==
  ASSUME TypeOK
  PROVE  /\ Line \in Seq(Videos \union {None}) /\ Len(Line) = Len(queue) + Len(toPut)
         /\ Len(queue) \in Nat /\ Len(toPut) \in Nat
         /\ Entries(Line) = Entries(toPut) \union Entries(queue)
         /\ \A v : v \in Entries(Line) <=> v # None /\ \E i \in 1..Len(Line) : v = Line[i]
<1>1. queue \in Seq(Videos \union {None}) /\ toPut \in Seq(Videos \union {None})
  BY DEF TypeOK
<1>2. /\ Line \in Seq(Videos \union {None}) /\ Len(Line) = Len(queue) + Len(toPut)
      /\ \A i \in 1..Len(Line) :
           Line[i] = IF i <= Len(queue) THEN queue[i] ELSE toPut[i - Len(queue)]
      /\ Len(queue) \in Nat /\ Len(toPut) \in Nat
      /\ DOMAIN queue = 1..Len(queue) /\ DOMAIN toPut = 1..Len(toPut)
      /\ DOMAIN Line = 1..Len(Line)
  BY <1>1, ConcatProperties, LenProperties DEF Line
<1> HIDE DEF Line
<1>3. Entries(Line) \subseteq Entries(toPut) \union Entries(queue)
  <2> SUFFICES ASSUME NEW i \in 1..Len(Line)
               PROVE  \/ i \in DOMAIN queue /\ Line[i] = queue[i]
                      \/ i - Len(queue) \in DOMAIN toPut /\ Line[i] = toPut[i - Len(queue)]
    BY <1>2 DEF Entries
  <2> QED BY <1>2
<1>4. Entries(queue) \subseteq Entries(Line)
  <2> SUFFICES ASSUME NEW i \in 1..Len(queue)
               PROVE  i \in DOMAIN Line /\ Line[i] = queue[i]
    BY <1>2 DEF Entries
  <2> QED BY <1>2
<1>5. Entries(toPut) \subseteq Entries(Line)
  <2> SUFFICES ASSUME NEW i \in 1..Len(toPut)
               PROVE  Len(queue) + i \in DOMAIN Line /\ Line[Len(queue) + i] = toPut[i]
    BY <1>2 DEF Entries
  <2> QED BY <1>2
<1>6. \A v : v \in Entries(Line) <=> v # None /\ \E i \in 1..Len(Line) : v = Line[i]
  BY <1>2 DEF Entries
<1> QED BY <1>2, <1>3, <1>4, <1>5, <1>6

\* The producer moves the line's middle, a worker takes its head.
LEMMA PutKeepsLine ==
  ASSUME TypeOK, Put
  PROVE  /\ Line' = Line
         /\ queue' \in Seq(Videos \union {None}) /\ toPut' \in Seq(Videos \union {None})
         /\ Len(queue') = Len(queue) + 1
<1>1. /\ queue \in Seq(Videos \union {None}) /\ toPut \in Seq(Videos \union {None})
      /\ toPut # <<>> /\ queue' = Append(queue, Head(toPut)) /\ toPut' = Tail(toPut)
  BY DEF TypeOK, Put
<1>2. /\ Head(toPut) \in Videos \union {None} /\ Tail(toPut) \in Seq(Videos \union {None})
      /\ <<Head(toPut)>> \o Tail(toPut) = toPut
  BY <1>1, HeadTailProperties
<1>3. <<Head(toPut)>> \in Seq(Videos \union {None})
  BY <1>2
<1>4. Append(queue, Head(toPut)) = queue \o <<Head(toPut)>>
  BY <1>1, <1>2, AppendIsConcat
<1>5. (queue \o <<Head(toPut)>>) \o Tail(toPut) = queue \o (<<Head(toPut)>> \o Tail(toPut))
  BY <1>1, <1>2, <1>3, ConcatAssociative
<1>6. Line' = Line
  BY <1>1, <1>2, <1>4, <1>5 DEF Line
<1> QED BY <1>1, <1>2, <1>6, AppendProperties

LEMMA GetTakesHead ==
  ASSUME TypeOK, NEW w \in Workers, Get(w)
  PROVE  /\ Len(Line) >= 1 /\ Head(queue) = Line[1] /\ Line[1] \in Videos \union {None}
         /\ Len(Line') = Len(Line) - 1
         /\ \A i \in 1..Len(Line') : i + 1 \in 1..Len(Line) /\ Line'[i] = Line[i + 1]
         /\ queue' \in Seq(Videos \union {None}) /\ Len(queue') <= Len(queue)
         /\ Line' \in Seq(Videos \union {None})
         /\ \A v : v \in Entries(Line)' <=> v # None /\ \E i \in 1..Len(Line') : v = Line'[i]
<1>1. /\ queue \in Seq(Videos \union {None}) /\ toPut \in Seq(Videos \union {None})
      /\ queue # <<>> /\ queue' = Tail(queue) /\ toPut' = toPut
  BY DEF TypeOK, Get
<1>2. /\ queue' \in Seq(Videos \union {None}) /\ Len(queue') = Len(queue) - 1
      /\ \A i \in 1..Len(queue') : queue'[i] = queue[i + 1]
      /\ Head(queue) = queue[1] /\ Len(queue) \in Nat \ {0} /\ Len(toPut) \in Nat
  BY <1>1, HeadTailProperties, LenProperties, EmptySeq
<1>3. /\ Line \in Seq(Videos \union {None}) /\ Len(Line) = Len(queue) + Len(toPut)
      /\ \A i \in 1..Len(Line) :
           Line[i] = IF i <= Len(queue) THEN queue[i] ELSE toPut[i - Len(queue)]
  BY <1>1, ConcatProperties DEF Line
<1>4. /\ Line' \in Seq(Videos \union {None}) /\ Len(Line') = Len(queue') + Len(toPut)
      /\ \A i \in 1..Len(Line') :
           Line'[i] = IF i <= Len(queue') THEN queue'[i] ELSE toPut[i - Len(queue')]
  BY <1>1, <1>2, ConcatProperties DEF Line
<1>5. \A v : v \in Entries(Line)' <=> v # None /\ \E i \in 1..Len(Line') : v = Line'[i]
  <2>1. DOMAIN Line' = 1..Len(Line')
    BY <1>4, LenProperties
  <2> QED BY <2>1 DEF Entries
<1>6. Line[1] \in Videos \union {None}
  <2>1. 1 \in 1..Len(Line)
    BY <1>2, <1>3
  <2> QED BY <1>3, <2>1, ElementOfSeq
<1> HIDE DEF Line
<1>7. \A i \in 1..Len(Line') : i + 1 \in 1..Len(Line) /\ Line'[i] = Line[i + 1]
  <2> TAKE i \in 1..Len(Line')
  <2>1. i + 1 \in 1..Len(Line)
    BY <1>2, <1>3, <1>4
  <2>2. CASE i <= Len(queue')
    BY <1>2, <1>3, <1>4, <2>1, <2>2
  <2>3. CASE i > Len(queue')
    <3>1. Line'[i] = toPut[i - Len(queue')] /\ Line[i + 1] = toPut[(i + 1) - Len(queue)]
      BY <1>2, <1>3, <1>4, <2>1, <2>3
    <3>2. i - Len(queue') = (i + 1) - Len(queue)
      BY <1>2, <1>4
    <3> QED BY <2>1, <3>1, <3>2
  <2> QED BY <1>2, <1>4, <2>2, <2>3
<1>8. Len(Line) >= 1 /\ Head(queue) = Line[1] /\ Len(Line') = Len(Line) - 1
  BY <1>2, <1>3, <1>4
<1> QED BY <1>2, <1>4, <1>5, <1>6, <1>7, <1>8

Place == [at : {"get", "work", "save", "net", "dead", "gone"},
          item : Videos \union {None}, attempt : 0..MaxAttempts]

LEMMA WorkersTyped ==
  ASSUME TypeOK
  PROVE  worker \in [Workers -> Place]
BY DEF TypeOK, Place

LEMMA Places == AtGet \in Place /\ Gone \in Place
BY ConstantsTyped DEF AtGet, Gone, Place

\* What a worker with an item in hand may do to itself: go on with it, or be done with it.
GoesOn(w) ==
  /\ worker' \in [Workers -> Place]
  /\ Alive' = Alive /\ Busy' = Busy /\ \A u \in Workers : worker'[u].item = worker[u].item
  /\ UNCHANGED <<rollup, good, bad>>

IsDone(w) ==
  /\ worker' \in [Workers -> Place]
  /\ Alive' = Alive /\ Busy' = Busy \ {w}
  /\ \A u \in Workers \ {w} : worker'[u].item = worker[u].item

LEMMA SettleMoves ==
  ASSUME TypeOK, NEW w \in Busy, NEW ok \in BOOLEAN, Settle(w, ok)
  PROVE  IsDone(w)
<1>1. worker \in [Workers -> Place] /\ w \in Workers /\ worker[w].at # "gone"
  BY WorkersTyped DEF Busy
<1>2. worker' = [worker EXCEPT ![w] = AtGet]
  BY DEF Settle
<1>3. AtGet.at = "get"
  BY DEF AtGet
<1> QED BY <1>1, <1>2, <1>3, Places DEF IsDone, Alive, Busy

LEMMA BusyIs ==
  ASSUME TypeOK, NEW w \in Workers, worker[w].at \in {"work", "save", "net"}
  PROVE  w \in Busy /\ w \in Alive
BY DEF Busy, Alive

\* A step of a worker that has an item in hand.
LEMMA WorkStep ==
  ASSUME TypeOK, NEW w \in Workers,
         AttemptFails(w) \/ WorkDone(w) \/ SaveSuccess(w) \/ SafetyNet(w)
  PROVE  /\ w \in Busy /\ Live
         /\ UNCHANGED <<known, task, pipe, pc, opts, over, toPut, queue, audited, runs, crashes>>
         /\ \/ GoesOn(w) /\ row' = row
            \/ GoesOn(w) /\ RowBecomes(w, "failed")
            \/ Settle(w, TRUE) /\ RowBecomes(w, "success")
            \/ Settle(w, FALSE) /\ RowBecomes(w, "failed")
            \/ Settle(w, FALSE) /\ row' = row /\ WriteFails
         /\ faults' \in 0..MaxFaults /\ (faults' = 0 => faults = 0)
<1>1. worker \in [Workers -> Place] /\ faults \in 0..MaxFaults
  BY WorkersTyped DEF TypeOK
<1>2. w \in Busy /\ Live
  BY BusyIs DEF AttemptFails, WorkDone, SaveSuccess, SafetyNet
<1>3. UNCHANGED <<known, task, pipe, pc, opts, over, toPut, queue, audited, runs, crashes>>
  BY DEF AttemptFails, WorkDone, SaveSuccess, SafetyNet, Stays
<1>4. ASSUME NEW at \in {"work", "save", "net", "dead"}, worker' = [worker EXCEPT ![w].at = at],
             UNCHANGED <<rollup, good, bad>>
      PROVE  GoesOn(w)
  BY <1>1, <1>2, <1>4 DEF GoesOn, Alive, Busy, Place
<1>5. ASSUME worker[w].attempt < MaxAttempts, worker' = [worker EXCEPT ![w].attempt = @ + 1],
             UNCHANGED <<rollup, good, bad>>
      PROVE  GoesOn(w)
  <2>1. worker[w].attempt + 1 \in 0..MaxAttempts
    BY <1>1, <1>5, ConstantsTyped DEF Place
  <2> QED BY <1>1, <1>2, <1>5, <2>1 DEF GoesOn, Alive, Busy, Place
<1> DEFINE Result ==
             \/ GoesOn(w) /\ row' = row
             \/ GoesOn(w) /\ RowBecomes(w, "failed")
             \/ Settle(w, TRUE) /\ RowBecomes(w, "success")
             \/ Settle(w, FALSE) /\ RowBecomes(w, "failed")
             \/ Settle(w, FALSE) /\ row' = row /\ WriteFails
<1>6. ASSUME WriteOk \/ WriteFails \/ faults' = faults
      PROVE  faults' \in 0..MaxFaults /\ (faults' = 0 => faults = 0)
  BY <1>1, <1>6, ConstantsTyped DEF WriteOk, WriteFails
<1>7. ASSUME AttemptFails(w) PROVE Result /\ (WriteOk \/ WriteFails)
  BY <1>5, <1>7 DEF AttemptFails
<1>8. ASSUME WorkDone(w) PROVE Result /\ faults' = faults
  BY <1>4, <1>8 DEF WorkDone
<1>9. ASSUME SaveSuccess(w) PROVE Result /\ (WriteOk \/ WriteFails)
  BY <1>4, <1>9 DEF SaveSuccess
<1>10. ASSUME SafetyNet(w) PROVE Result /\ (WriteOk \/ WriteFails)
  BY <1>4, <1>10 DEF SafetyNet
<1> QED BY <1>2, <1>3, <1>6, <1>7, <1>8, <1>9, <1>10

------------------------------------------------------------------------------
(* Types.                                                                    *)

LEMMA CountsTyped ==
  ASSUME NEW a \in 0..N, NEW b \in 0..N, NEW c \in 0..N, NEW d \in 0..N
  PROVE  /\ Counts(a, b, c, d) \in CountsType
         /\ Counts(a, b, c, d).total = a /\ Counts(a, b, c, d).completed = b
         /\ Counts(a, b, c, d).failed = c /\ Counts(a, b, c, d).skipped = d
BY DEF Counts, CountsType

LEMMA Nobody ==
  ASSUME toPut = <<>>, queue = <<>>, worker = [w \in Workers |-> Gone]
  PROVE  /\ Line = <<>> /\ Len(Line) = 0 /\ Entries(Line) = {}
         /\ Alive = {} /\ Busy = {} /\ InFlight = {}
<1>1. <<>> \o <<>> = <<>> /\ Len(<<>>) = 0 /\ DOMAIN <<>> = {}
  OBVIOUS
<1>2. Line = <<>> /\ Len(Line) = 0 /\ Entries(Line) = {}
  BY <1>1 DEF Line, Entries
<1>3. \A w \in Workers : worker[w].at = "gone"
  BY DEF Gone
<1> QED BY <1>2, <1>3 DEF Alive, Busy, InFlight

\* When the process has no run, and when a run starts.
LEMMA ForgetTyped ==
  ASSUME Forget
  PROVE  /\ rollup' \in CountsType /\ over' \in BOOLEAN /\ good' = {} /\ bad' = {}
         /\ toPut' \in Seq(Videos \union {None}) /\ queue' \in Seq(Videos \union {None})
         /\ Len(queue') <= Capacity /\ worker' \in [Workers -> Place]
         /\ Line' = <<>> /\ Len(Line') = 0 /\ Entries(Line)' = {}
         /\ Alive' = {} /\ Busy' = {} /\ InFlight' = {}
<1>1. rollup' \in CountsType
  <2>1. 0 \in 0..N
    BY ConstantsTyped
  <2> QED BY <2>1, CountsTyped DEF Forget, Zero
<1>2. <<>> \in Seq(Videos \union {None}) /\ Len(<<>>) = 0
  BY EmptySeq
<1>3. worker' \in [Workers -> Place]
  BY Places DEF Forget
<1>4. /\ Line' = <<>> /\ Len(Line') = 0 /\ Entries(Line)' = {}
      /\ Alive' = {} /\ Busy' = {} /\ InFlight' = {}
  <2>1. toPut' = <<>> /\ queue' = <<>> /\ worker' = [w \in Workers |-> Gone]
    BY DEF Forget
  <2>2. <<>> \o <<>> = <<>> /\ DOMAIN <<>> = {}
    OBVIOUS
  <2>3. Line' = <<>> /\ Len(Line') = 0 /\ Entries(Line)' = {}
    BY <1>2, <2>1, <2>2 DEF Line, Entries
  <2>4. \A w \in Workers : worker'[w].at = "gone"
    BY <2>1 DEF Gone
  <2> QED BY <2>3, <2>4 DEF Alive, Busy, InFlight
<1>5. over' \in BOOLEAN /\ good' = {} /\ bad' = {} /\ toPut' = <<>> /\ queue' = <<>>
  BY DEF Forget
<1>6. Len(queue') <= Capacity
  BY <1>2, <1>5, ConstantsTyped
<1> QED BY <1>1, <1>2, <1>3, <1>4, <1>5, <1>6

LEMMA ForgettingType ==
  ASSUME TypeOK, (\E o \in Options : Start(o)) \/ DryRun \/ Finish \/ Exit \/ Crash
  PROVE  TypeOK' /\ Forget
<1>1. Forget /\ UNCHANGED <<known, row, pipe, audited>>
  BY DEF Start, DryRun, Finish, Exit, Crash, disk
<1>2. opts' \in Options /\ task' \in Statuses
  BY DEF Start, DryRun, Finish, Exit, Crash, To, TypeOK, disk, TaskStatus, Statuses
<1>3. pc' \in {"dry", "init", "idle"}
  BY DEF Start, DryRun, Finish, Exit, Crash, To
<1>4. runs' \in 0..MaxRuns /\ faults' \in 0..MaxFaults /\ crashes' \in 0..MaxCrashes
  <2>1. runs \in 0..MaxRuns /\ faults \in 0..MaxFaults /\ crashes \in 0..MaxCrashes
    BY DEF TypeOK
  <2> QED BY <2>1, ConstantsTyped DEF Start, DryRun, Finish, Exit, Crash, bounds
<1> QED BY <1>1, <1>2, <1>3, <1>4, ForgetTyped DEF TypeOK, Place

\* The steps of a run that leave its pool alone.
RunOnly ==
  \/ InitTask \/ DiscoverFails \/ PoolDone \/ DerivePipeline \/ Audit \/ RunFails
  \/ PoolRaises \/ CloseStore \/ FetchMore

LEMMA RunOnlyType ==
  ASSUME TypeOK, RunOnly
  PROVE  TypeOK' /\ UNCHANGED <<row, opts, pool>>
<1>1. UNCHANGED <<row, opts, over, pool, runs, crashes>>
  BY DEF RunOnly, InitTask, DiscoverFails, PoolDone, DerivePipeline, Audit, RunFails,
         PoolRaises, CloseStore, FetchMore, To, disk, bounds
<1>2. known' \subseteq Videos /\ task' \in Statuses
  BY DEF RunOnly, InitTask, DiscoverFails, PoolDone, DerivePipeline, Audit, RunFails,
         PoolRaises, CloseStore, FetchMore, disk, TypeOK, Statuses
<1>3. pipe' \in [status : Statuses, items : CountsType]
  <2>1. pipe \in [status : Statuses, items : CountsType] /\ rollup \in CountsType
    BY DEF TypeOK
  <2>2. CASE DiscoverFails
    <3>1. Counts(1, 0, 1, 0) \in CountsType
      <4>1. 0 \in 0..N /\ 1 \in 0..N
        BY ConstantsTyped
      <4> QED BY <4>1, CountsTyped
    <3> QED BY <2>2, <3>1 DEF DiscoverFails, Statuses
  <2>3. CASE DerivePipeline
    <3>1. PipelineStatus(rollup) \in Statuses
      BY DEF PipelineStatus, Statuses
    <3> QED BY <2>1, <2>3, <3>1 DEF DerivePipeline
  <2>4. CASE InitTask \/ Audit
    BY <2>1, <2>4 DEF InitTask, Audit, Statuses
  <2>5. CASE PoolDone \/ RunFails \/ PoolRaises \/ CloseStore \/ FetchMore
    BY <2>1, <2>5 DEF PoolDone, RunFails, PoolRaises, CloseStore, FetchMore, disk
  <2> QED BY <2>2, <2>3, <2>4, <2>5 DEF RunOnly
<1>4. pc' \in {"idle", "dry", "init", "discover", "pool", "derive", "finish", "aborted", "closed"}
  BY DEF RunOnly, InitTask, DiscoverFails, PoolDone, DerivePipeline, Audit, RunFails,
         PoolRaises, CloseStore, FetchMore, To, TypeOK
<1>5. audited' \in [made : BOOLEAN, known : SUBSET Videos]
  <2>1. audited \in [made : BOOLEAN, known : SUBSET Videos] /\ known \subseteq Videos
    BY DEF TypeOK
  <2>2. CASE InitTask
    BY <2>2 DEF InitTask, NoAudit
  <2>3. CASE Audit
    BY <2>1, <2>3 DEF Audit
  <2>4. CASE ~InitTask /\ ~Audit
    BY <2>1, <2>4 DEF RunOnly, DiscoverFails, PoolDone, DerivePipeline, RunFails,
       PoolRaises, CloseStore, FetchMore
  <2> QED BY <2>2, <2>3, <2>4
<1>6. faults' \in 0..MaxFaults
  <2>1. faults \in 0..MaxFaults
    BY DEF TypeOK
  <2> QED BY <2>1, ConstantsTyped DEF RunOnly, InitTask, DiscoverFails, PoolDone, DerivePipeline,
       Audit, RunFails, PoolRaises, CloseStore, FetchMore, bounds
<1> QED BY <1>1, <1>2, <1>3, <1>4, <1>5, <1>6 DEF TypeOK, pool

\* What discovery leaves behind: a full line and every worker at the queue, or no pool.
Opens ==
  /\ pc' = "pool" /\ toPut' = Candidates(opts) \o Sentinels /\ queue' = <<>>
  /\ worker' = [w \in Workers |-> AtGet] /\ good' = {} /\ bad' = {}
  /\ rollup'.total = Len(Candidates(opts)) + rollup'.skipped
  /\ rollup'.completed = 0 /\ rollup'.failed = 0 /\ rollup'.skipped \in Nat

OpensNothing ==
  /\ \/ pc' = "finish" /\ pipe'.status = "PARTIAL" /\ UNCHANGED <<rollup, good, bad>>
     \/ /\ pc' = "derive" /\ rollup'.total = rollup'.skipped /\ rollup'.skipped \in Nat
        /\ rollup'.completed = 0 /\ rollup'.failed = 0 /\ UNCHANGED <<good, bad>>
  /\ UNCHANGED <<toPut, queue, worker>>

LEMMA CandidatesFit ==
  ASSUME TypeOK
  PROVE  /\ Candidates(opts) \in Seq(Videos) /\ Len(Candidates(opts)) \in 0..N
         /\ Skipped(opts) \in 0..N /\ Len(Candidates(opts)) + Skipped(opts) \in 0..N
         /\ Entries(Candidates(opts)) \subseteq Ready(opts)
<1> DEFINE c == Candidates(opts)
<1>1. /\ Ready(opts) \subseteq Videos /\ Skipped(opts) \in 0..N
      /\ Cardinality(Ready(opts)) + Skipped(opts) <= N
  BY ReadyFits DEF TypeOK
<1>2. /\ c \in Seq(Videos) /\ \A i \in 1..Len(c) : c[i] \in Ready(opts)
      /\ \A i, j \in 1..Len(c) : c[i] = c[j] => i = j
  BY <1>1, CandidatesAre
<1> HIDE DEF c
<1>3. Entries(c) \subseteq Videos /\ Cardinality(Entries(c)) = Len(c) /\ Len(c) \in Nat
  BY <1>2, EntriesOfCandidates, LenProperties
<1>4. Entries(c) \subseteq Ready(opts)
  BY <1>2, LenProperties DEF Entries
<1>5. Cardinality(Entries(c)) <= Cardinality(Ready(opts)) /\ Cardinality(Ready(opts)) \in Nat
  BY <1>1, <1>4, VideoSets, FS_Subset
<1> QED BY <1>1, <1>2, <1>3, <1>4, <1>5, ConstantsTyped DEF c

LEMMA SentinelsAre ==
  /\ Sentinels \in Seq(Videos \union {None}) /\ Len(Sentinels) = Cardinality(Workers)
  /\ \A i \in 1..Cardinality(Workers) : Sentinels[i] = None
  /\ Cardinality(Workers) \in Nat
BY WorkerSets, IsASeq DEF Sentinels

LEMMA DiscoverType ==
  ASSUME TypeOK, Discover
  PROVE  TypeOK' /\ (Opens \/ OpensNothing)
<1> DEFINE items == Candidates(opts)
           counts == Counts(Len(items) + Skipped(opts), 0, 0, Skipped(opts))
<1>1. /\ items \in Seq(Videos) /\ Len(items) \in 0..N
      /\ Skipped(opts) \in 0..N /\ Len(items) + Skipped(opts) \in 0..N /\ 0 \in 0..N
  BY CandidatesFit, ConstantsTyped
<1>2. /\ counts \in CountsType /\ counts.total = Len(items) + Skipped(opts)
      /\ counts.completed = 0 /\ counts.failed = 0 /\ counts.skipped = Skipped(opts)
  BY <1>1, CountsTyped, SMTT(30)
<1>3. /\ UNCHANGED <<known, row, task, audited, bounds, opts>>
      /\ \/ /\ Exceeds(opts) /\ pipe' = [status |-> "PARTIAL",
                                         items |-> [counts EXCEPT !.skipped = counts.total]]
            /\ over' = TRUE /\ pc' = "finish" /\ UNCHANGED pool
         \/ /\ pipe' = [pipe EXCEPT !.items = counts] /\ rollup' = counts /\ UNCHANGED over
            /\ items = <<>> /\ pc' = "derive"
            /\ UNCHANGED <<toPut, queue, worker, good, bad>>
         \/ /\ pipe' = [pipe EXCEPT !.items = counts] /\ rollup' = counts /\ UNCHANGED over
            /\ items # <<>> /\ pc' = "pool"
            /\ toPut' = items \o Sentinels /\ queue' = <<>>
            /\ worker' = [w \in Workers |-> AtGet] /\ good' = {} /\ bad' = {}
  BY DEF Discover, To
<1> HIDE DEF items, counts
<1>4. pipe \in [status : Statuses, items : CountsType]
  BY DEF TypeOK
<1>5. CASE pc' = "finish"
  <2>1. pipe' \in [status : Statuses, items : CountsType] /\ pipe'.status = "PARTIAL"
    BY <1>1, <1>2, <1>3, <1>5 DEF Statuses, CountsType
  <2>2. UNCHANGED pool /\ over' = TRUE
    BY <1>3, <1>5
  <2> QED BY <1>3, <1>5, <2>1, <2>2 DEF TypeOK, OpensNothing, pool, bounds
<1>6. CASE pc' = "derive"
  <2>1. pipe' \in [status : Statuses, items : CountsType] /\ rollup' = counts
    BY <1>2, <1>3, <1>4, <1>6
  <2>2. UNCHANGED <<toPut, queue, worker, good, bad, over>>
    BY <1>3, <1>6
  <2>3. Len(items) = 0
    BY <1>3, <1>6
  <2> QED BY <1>1, <1>2, <1>3, <1>6, <2>1, <2>2, <2>3 DEF TypeOK, OpensNothing, bounds
<1>7. CASE pc' = "pool"
  <2>1. /\ pipe' \in [status : Statuses, items : CountsType] /\ rollup' = counts
        /\ toPut' = items \o Sentinels /\ queue' = <<>>
        /\ worker' = [w \in Workers |-> AtGet] /\ good' = {} /\ bad' = {}
        /\ UNCHANGED over
    BY <1>2, <1>3, <1>4, <1>7
  <2>2. items \o Sentinels \in Seq(Videos \union {None})
    <3>1. items \in Seq(Videos \union {None})
      BY <1>1, SeqMonotonic
    <3> QED BY <3>1, SentinelsAre, ConcatProperties
  <2>3. worker' \in [Workers -> Place]
    BY <2>1, Places
  <2>4. <<>> \in Seq(Videos \union {None}) /\ Len(<<>>) <= Capacity
    BY EmptySeq, ConstantsTyped
  <2>5. Opens
    BY <1>1, <1>2, <1>7, <2>1 DEF Opens, items
  <2> QED BY <1>2, <1>3, <1>7, <2>1, <2>2, <2>3, <2>4, <2>5 DEF TypeOK, Place, bounds
<1> QED BY <1>3, <1>5, <1>6, <1>7

LEMMA PendingAreVideos ==
  ASSUME TypeOK, OneOfEach
  PROVE  Pending \subseteq Videos
<1>1. InFlight \subseteq Videos
  <2>1. InFlight = {worker[u].item : u \in Busy}
    BY DEF InFlight, Busy
  <2>2. \A u \in Busy : worker[u].item \in Videos
    BY WorkersTyped DEF OneOfEach, Busy, Place
  <2> QED BY <2>1, <2>2
<1>2. Entries(Line) \subseteq Videos
  <2>1. Line \in Seq(Videos \union {None}) /\ \A i \in 1..Len(Line) : Line[i] \in Videos \union {None}
    BY LineTyped, ElementOfSeq
  <2> QED BY <2>1, LineTyped
<1> QED BY <1>1, <1>2 DEF Pending

\* Settling an item in an open pool moves one from the pending ones to the outcomes.
LEMMA SettleCounts ==
  ASSUME TypeOK, OneOfEach, Accounts, NEW w \in Busy, NEW ok \in BOOLEAN, Settle(w, ok), pc = "pool"
  PROVE  /\ worker[w].item \in Videos \cap Pending
         /\ Pending \subseteq Videos /\ Cardinality(Pending) >= 1
         /\ rollup' \in CountsType /\ rollup'.total = rollup.total
         /\ rollup'.skipped = rollup.skipped
         /\ rollup'.completed = IF ok THEN rollup.completed + 1 ELSE rollup.completed
         /\ rollup'.failed = IF ok THEN rollup.failed ELSE rollup.failed + 1
         /\ good' = IF ok THEN good \union {worker[w].item} ELSE good
         /\ bad' = IF ok THEN bad ELSE bad \union {worker[w].item}
<1>1. worker \in [Workers -> Place] /\ w \in Workers
  BY WorkersTyped DEF Busy
<1>2. worker[w].item \in Videos /\ worker[w].item \in InFlight
  BY <1>1 DEF OneOfEach, InFlight, Busy, Place
<1>5. /\ worker[w].item \in Pending /\ Pending \subseteq Videos
      /\ Cardinality(Pending) >= 1 /\ Cardinality(Pending) \in 0..N
  <2>1. worker[w].item \in Pending /\ Pending \subseteq Videos
    BY <1>2, PendingAreVideos DEF Pending
  <2> QED BY <2>1, OneLess, VideoSets
<1>6. /\ rollup \in CountsType
      /\ rollup.total \in 0..N /\ rollup.completed \in 0..N /\ rollup.failed \in 0..N
      /\ rollup.skipped \in 0..N
  BY DEF TypeOK, CountsType
<1>7. rollup.total = rollup.completed + rollup.failed + rollup.skipped + Cardinality(Pending)
  BY DEF Accounts
<1>8. rollup.completed + 1 \in 0..N /\ rollup.failed + 1 \in 0..N
  BY <1>5, <1>6, <1>7, ConstantsTyped
<1>9. CASE ok
  <2>1. rollup' = [rollup EXCEPT !.completed = @ + 1] /\ good' = good \union {worker[w].item} /\ bad' = bad
    BY <1>9 DEF Settle
  <2> QED BY <1>2, <1>5, <1>6, <1>8, <1>9, <2>1 DEF CountsType
<1>10. CASE ~ok
  <2>1. rollup' = [rollup EXCEPT !.failed = @ + 1] /\ bad' = bad \union {worker[w].item} /\ good' = good
    BY <1>10 DEF Settle
  <2> QED BY <1>2, <1>5, <1>6, <1>8, <1>10, <2>1 DEF CountsType
<1> QED BY <1>9, <1>10

WorkersStep(w) == AttemptFails(w) \/ WorkDone(w) \/ SaveSuccess(w) \/ SafetyNet(w)

LEMMA WorkType ==
  ASSUME TypeOK, OneOfEach, Accounts, NEW w \in Workers, WorkersStep(w)
  PROVE  TypeOK'
<1>1. /\ w \in Busy /\ worker \in [Workers -> Place]
      /\ UNCHANGED <<known, task, pipe, pc, opts, over, toPut, queue, audited, runs, crashes>>
      /\ \/ GoesOn(w) /\ row' = row
         \/ GoesOn(w) /\ RowBecomes(w, "failed")
         \/ Settle(w, TRUE) /\ RowBecomes(w, "success")
         \/ Settle(w, FALSE) /\ RowBecomes(w, "failed")
         \/ Settle(w, FALSE) /\ row' = row /\ WriteFails
      /\ faults' \in 0..MaxFaults
  BY WorkStep, WorkersTyped DEF WorkersStep
<1>2. worker[w].item \in Videos
  BY <1>1 DEF OneOfEach, Busy, Place
<1>3. row' \in [Videos -> {"none", "failed", "success"}]
  <2>1. row \in [Videos -> {"none", "failed", "success"}]
    BY DEF TypeOK
  <2> QED BY <1>1, <1>2, <2>1 DEF RowBecomes
<1>4. ASSUME NEW ok \in BOOLEAN, Settle(w, ok)
      PROVE  /\ worker' \in [Workers -> Place] /\ rollup' \in CountsType
             /\ good' \subseteq Videos /\ bad' \subseteq Videos
  <2>1. worker' \in [Workers -> Place]
    BY <1>1, <1>4, SettleMoves DEF IsDone
  <2>2. rollup \in CountsType /\ good \subseteq Videos /\ bad \subseteq Videos
    BY DEF TypeOK
  <2>3. CASE pc = "pool"
    BY <1>1, <1>2, <1>4, <2>1, <2>2, <2>3, SettleCounts
  <2>4. CASE pc # "pool"
    BY <1>4, <2>1, <2>2, <2>4 DEF Settle
  <2> QED BY <2>3, <2>4
<1>5. /\ worker' \in [Workers -> Place] /\ rollup' \in CountsType
      /\ good' \subseteq Videos /\ bad' \subseteq Videos
  <2>1. CASE GoesOn(w)
    BY <2>1 DEF GoesOn, TypeOK
  <2> QED BY <1>1, <1>4, <2>1
<1> QED BY <1>1, <1>3, <1>5 DEF TypeOK, Place

LEMMA PutType ==
  ASSUME TypeOK, Put
  PROVE  TypeOK'
<1>1. /\ queue' \in Seq(Videos \union {None}) /\ toPut' \in Seq(Videos \union {None})
      /\ Len(queue') <= Capacity
  <2>1. Len(queue) < Capacity /\ Len(queue) \in Nat
    BY LineTyped DEF Put
  <2> QED BY <2>1, PutKeepsLine, ConstantsTyped
<1> QED BY <1>1 DEF Put, TypeOK, disk, bounds

LEMMA GetType ==
  ASSUME TypeOK, NEW w \in Workers, Get(w)
  PROVE  TypeOK'
<1>1. /\ queue' \in Seq(Videos \union {None}) /\ Len(queue') <= Capacity
      /\ Head(queue) \in Videos \union {None}
  <2>1. Len(queue) \in Nat /\ Len(queue) <= Capacity
    BY LineTyped DEF TypeOK
  <2>2. Len(queue') \in Nat
    BY GetTakesHead, LenProperties
  <2> QED BY <2>1, <2>2, GetTakesHead, ConstantsTyped
<1>2. worker' \in [Workers -> Place]
  <2>1. worker \in [Workers -> Place]
    BY WorkersTyped
  <2>2. [at |-> "work", item |-> Head(queue), attempt |-> 1] \in Place
    BY <1>1, ConstantsTyped DEF Place
  <2> QED BY <2>1, <2>2, Places DEF Get
<1> QED BY <1>1, <1>2 DEF Get, TypeOK, Place, disk, bounds

LEMMA InitType == Init => TypeOK
<1> SUFFICES ASSUME Init PROVE TypeOK
  OBVIOUS
<1>1. <<>> \in Seq(Videos \union {None}) /\ Len(<<>>) = 0
  BY EmptySeq
<1>2. Zero \in CountsType
  <2>1. 0 \in 0..N
    BY ConstantsTyped
  <2> QED BY <2>1, CountsTyped DEF Zero
<1>3. worker \in [Workers -> Place]
  BY Places DEF Init
<1>4. pipe \in [status : Statuses, items : CountsType]
  BY <1>2 DEF Init, Statuses
<1>5. audited \in [made : BOOLEAN, known : SUBSET Videos]
  BY DEF Init, NoAudit
<1>6. toPut = <<>> /\ queue = <<>> /\ rollup = Zero /\ over = FALSE /\ good = {} /\ bad = {}
  BY DEF Init
<1>7. /\ known \subseteq Videos /\ row \in [Videos -> {"none", "failed", "success"}]
      /\ task \in Statuses /\ pc = "idle" /\ opts \in Options
  BY DEF Init, Statuses
<1>8. runs \in 0..MaxRuns /\ faults \in 0..MaxFaults /\ crashes \in 0..MaxCrashes
  BY ConstantsTyped DEF Init
<1>9. Len(queue) <= Capacity /\ over \in BOOLEAN
  <2>1. over \in BOOLEAN
    BY <1>6
  <2> QED BY <1>1, <1>6, <2>1, ConstantsTyped
<1> QED BY <1>1, <1>2, <1>3, <1>4, <1>5, <1>6, <1>7, <1>8, <1>9 DEF TypeOK, Place

LEMMA NextCases ==
  ASSUME Next
  PROVE  \/ (\E o \in Options : Start(o)) \/ DryRun \/ Finish \/ Exit \/ Crash
         \/ RunOnly \/ Discover \/ Put
         \/ \E w \in Workers : Get(w) \/ WorkersStep(w)
BY DEF Next, RunStep, RunOnly, WorkerStep, WorkersStep

LEMMA NextType == TypeOK /\ OneOfEach /\ Accounts /\ [Next]_vars => TypeOK'
<1> SUFFICES ASSUME TypeOK, OneOfEach, Accounts, [Next]_vars PROVE TypeOK'
  OBVIOUS
<1>1. CASE UNCHANGED vars
  BY <1>1 DEF vars, disk, pool, bounds, TypeOK
<1>2. CASE Next
  BY <1>2, NextCases, ForgettingType, RunOnlyType, DiscoverType, PutType, GetType, WorkType
<1> QED BY <1>1, <1>2

------------------------------------------------------------------------------
(* One line, and one of each.                                                *)

LineInv == SentinelsLast /\ OneOfEach

LEMMA InitLine == Init => LineInv
<1> SUFFICES ASSUME Init PROVE LineInv
  OBVIOUS
<1>1. Len(Line) = 0 /\ Entries(Line) = {} /\ Alive = {} /\ Busy = {}
  BY Nobody DEF Init
<1>2. Cardinality({}) = 0 /\ 1..0 = {}
  BY FS_EmptySet
<1> QED BY <1>1, <1>2 DEF LineInv, SentinelsLast, OneOfEach

LEMMA EmptyPool ==
  ASSUME TypeOK, LineInv, Alive = {}
  PROVE  Len(Line) = 0 /\ Busy = {} /\ InFlight = {} /\ Entries(Line) = {} /\ Pending = {}
<1>1. Busy = {} /\ InFlight = {}
  BY DEF Alive, Busy, InFlight
<1>2. Alive # Workers /\ Cardinality(Alive) = 0
  BY FS_EmptySet, RunAssumption
<1>3. Len(Line) = 0
  BY <1>2 DEF LineInv, SentinelsLast
<1>4. Entries(Line) = {}
  <2> HIDE DEF Line
  <2> QED BY <1>3, LineTyped
<1> QED BY <1>1, <1>3, <1>4 DEF Pending

LEMMA ForgetLine ==
  ASSUME Forget
  PROVE  LineInv'
<1>1. Len(Line') = 0 /\ Entries(Line)' = {} /\ Alive' = {} /\ Busy' = {}
  BY ForgetTyped
<1>2. Cardinality({}) = 0 /\ 1..0 = {}
  BY FS_EmptySet
<1> QED BY <1>1, <1>2 DEF LineInv, SentinelsLast, OneOfEach

LEMMA SameLine ==
  ASSUME LineInv, UNCHANGED <<Line, worker>>
  PROVE  LineInv' /\ Alive' = Alive /\ Busy' = Busy /\ InFlight' = InFlight
         /\ Entries(Line)' = Entries(Line) /\ Pending' = Pending
<1>1. Alive' = Alive /\ Busy' = Busy /\ InFlight' = InFlight /\ Entries(Line)' = Entries(Line)
  BY DEF Alive, Busy, InFlight, Entries
<1> QED BY <1>1 DEF LineInv, SentinelsLast, OneOfEach, Pending

LEMMA OpensLine ==
  ASSUME TypeOK, Opens
  PROVE  /\ LineInv' /\ Busy' = {} /\ InFlight' = {}
         /\ Entries(Line)' = Entries(Candidates(opts)) /\ Pending' = Entries(Candidates(opts))
         /\ Cardinality(Pending') = Len(Candidates(opts))
<1> DEFINE c == Candidates(opts)
<1>1. /\ Ready(opts) \subseteq Videos
      /\ c \in Seq(Videos) /\ \A i \in 1..Len(c) : c[i] \in Ready(opts)
      /\ \A i, j \in 1..Len(c) : c[i] = c[j] => i = j
  BY ReadyFits, CandidatesAre DEF TypeOK
<1>2. toPut' = c \o Sentinels /\ queue' = <<>> /\ worker' = [w \in Workers |-> AtGet]
  BY DEF Opens
<1> HIDE DEF c
<1>3. /\ c \o Sentinels \in Seq(Videos \union {None})
      /\ Len(c \o Sentinels) = Len(c) + Cardinality(Workers)
      /\ \A i \in 1..(Len(c) + Cardinality(Workers)) :
           (c \o Sentinels)[i] = IF i <= Len(c) THEN c[i] ELSE None
      /\ Len(c) \in Nat /\ Cardinality(Workers) \in Nat
  <2>1. c \in Seq(Videos \union {None})
    BY <1>1, SeqMonotonic
  <2>2. /\ c \o Sentinels \in Seq(Videos \union {None})
        /\ Len(c \o Sentinels) = Len(c) + Len(Sentinels)
        /\ \A i \in 1..(Len(c) + Len(Sentinels)) :
             (c \o Sentinels)[i] = IF i <= Len(c) THEN c[i] ELSE Sentinels[i - Len(c)]
    BY <2>1, SentinelsAre, ConcatProperties
  <2>3. Len(c) \in Nat
    BY <2>1, LenProperties
  <2>4. \A i \in 1..(Len(c) + Cardinality(Workers)) :
           i > Len(c) => i - Len(c) \in 1..Cardinality(Workers)
    BY <2>3, SentinelsAre
  <2> QED BY <2>2, <2>3, <2>4, SentinelsAre
<1>4. Line' = c \o Sentinels
  BY <1>2, <1>3, ConcatEmptySeq DEF Line
<1>5. /\ Len(Line') = Len(c) + Cardinality(Workers)
      /\ \A i \in 1..Len(Line') : Line'[i] = IF i <= Len(c) THEN c[i] ELSE None
      /\ \A i \in 1..Len(c) : c[i] \in Videos /\ c[i] # None
  BY <1>1, <1>3, <1>4, ConstantsTyped
<1>6. Alive' = Workers /\ Busy' = {} /\ InFlight' = {}
  <2>1. \A w \in Workers : worker'[w].at = "get"
    BY <1>2 DEF AtGet
  <2> QED BY <2>1 DEF Alive, Busy, InFlight
<1>7. Entries(Line)' = Entries(c)
  <2>1. DOMAIN Line' = 1..Len(Line') /\ DOMAIN c = 1..Len(c)
    BY <1>1, <1>3, <1>4, LenProperties
  <2>2. Entries(Line)' \subseteq Entries(c)
    BY <1>5, <2>1, <1>3 DEF Entries
  <2>3. \A i \in 1..Len(c) : i \in 1..Len(Line')
    BY <1>3, <1>5
  <2>4. Entries(c) \subseteq Entries(Line)'
    BY <1>5, <2>1, <2>3 DEF Entries
  <2> QED BY <2>2, <2>4
<1>8. SentinelsLast'
  BY <1>3, <1>5, <1>6 DEF SentinelsLast
<1>9. OneOfEach'
  BY <1>1, <1>3, <1>5, <1>6 DEF OneOfEach
<1>10. Pending' = Entries(c) /\ Cardinality(Entries(c)) = Len(c)
  <2>1. Cardinality(Entries(c)) = Len(c)
    BY <1>1, EntriesOfCandidates
  <2>2. Pending' = Entries(Line)' \union InFlight'
    BY DEF Pending
  <2> QED BY <1>6, <1>7, <2>1, <2>2
<1> QED BY <1>6, <1>7, <1>8, <1>9, <1>10 DEF LineInv, c

\* A worker takes the head of the line: an item in hand, or the end of the worker.
LEMMA GetLine ==
  ASSUME TypeOK, LineInv, NEW w \in Workers, Get(w)
  PROVE  LineInv' /\ Pending' = Pending
<1>1. /\ worker \in [Workers -> Place] /\ worker[w].at = "get"
      /\ worker' = [worker EXCEPT ![w] = IF Line[1] = None THEN Gone
                       ELSE [at |-> "work", item |-> Line[1], attempt |-> 1]]
      /\ Len(Line) \in Nat /\ Line[1] \in Videos \union {None}
      /\ Len(Line') = Len(Line) - 1 /\ Len(Line') \in Nat
      /\ \A i \in 1..Len(Line') : i + 1 \in 1..Len(Line) /\ Line'[i] = Line[i + 1]
      /\ 1 \in 1..Len(Line)
  <2>1. /\ Len(Line) >= 1 /\ Head(queue) = Line[1] /\ Line[1] \in Videos \union {None}
        /\ Len(Line') = Len(Line) - 1
        /\ \A i \in 1..Len(Line') : i + 1 \in 1..Len(Line) /\ Line'[i] = Line[i + 1]
    BY GetTakesHead
  <2>2. Len(Line) \in Nat
    BY LineTyped
  <2>3. /\ worker[w].at = "get"
        /\ worker' = [worker EXCEPT ![w] = IF Head(queue) = None THEN Gone
                         ELSE [at |-> "work", item |-> Head(queue), attempt |-> 1]]
    BY DEF Get
  <2> HIDE DEF Line
  <2>4. Len(Line') \in Nat /\ 1 \in 1..Len(Line)
    BY <2>1, <2>2
  <2> QED BY <2>1, <2>2, <2>3, <2>4, WorkersTyped
<1>2. /\ \A v : v \in Entries(Line) <=> v # None /\ \E i \in 1..Len(Line) : v = Line[i]
      /\ \A v : v \in Entries(Line)' <=> v # None /\ \E i \in 1..Len(Line') : v = Line'[i]
  BY GetTakesHead, LineTyped
<1>3. w \in Alive /\ w \notin Busy /\ Cardinality(Alive) \in Nat
  BY <1>1, WorkerSets DEF Alive, Busy
<1>4. \A i \in 1..Len(Line) : i = 1 \/ (i - 1 \in 1..Len(Line') /\ Line[i] = Line'[i - 1])
  BY <1>1
<1>5. \A i, j \in 1..Len(Line') : Line'[i] # None /\ Line'[i] = Line'[j] => i = j
  <2> TAKE i, j \in 1..Len(Line')
  <2>1. /\ i + 1 \in 1..Len(Line) /\ j + 1 \in 1..Len(Line)
        /\ Line'[i] = Line[i + 1] /\ Line'[j] = Line[j + 1]
    BY <1>1
  <2>2. Line[i + 1] # None /\ Line[i + 1] = Line[j + 1] => i + 1 = j + 1
    BY <2>1 DEF LineInv, OneOfEach
  <2> QED BY <2>1, <2>2
<1>6. InFlight = {worker[u].item : u \in Busy} /\ InFlight' = {worker'[u].item : u \in Busy'}
  BY DEF InFlight, Busy
<1>7. CASE Line[1] = None
  <2>1. Alive' = Alive \ {w} /\ Busy' = Busy /\ \A u \in Busy : worker'[u] = worker[u]
    BY <1>1, <1>3, <1>7 DEF Alive, Busy, Gone
  <2>2. Cardinality(Alive') = Cardinality(Alive) - 1
    BY <1>3, <2>1, WorkerSets, FS_RemoveElement DEF Alive
  <2>3. Entries(Line)' = Entries(Line)
    <3>1. Entries(Line)' \subseteq Entries(Line)
      BY <1>1, <1>2
    <3>2. Entries(Line) \subseteq Entries(Line)'
      BY <1>2, <1>4, <1>7
    <3> QED BY <3>1, <3>2
  <2>4. SentinelsLast'
    <3>1. Cardinality(Alive') <= Len(Line')
      BY <1>1, <1>3, <2>2 DEF LineInv, SentinelsLast
    <3>2. Cardinality(Alive) = Len(Line)
      BY <1>1, <1>3, <1>7 DEF LineInv, SentinelsLast
    <3>3. \A i \in 1..Len(Line) : Line[i] = None
      BY <1>3, <3>2 DEF LineInv, SentinelsLast
    <3>4. \A i \in 1..Len(Line') : Line'[i] = None <=> i > Len(Line') - Cardinality(Alive')
      BY <1>1, <1>3, <2>2, <3>2, <3>3
    <3> QED BY <1>1, <1>3, <2>2, <3>1, <3>2, <3>4 DEF SentinelsLast
  <2>5. OneOfEach'
    BY <1>5, <2>1, <2>3 DEF LineInv, OneOfEach
  <2>6. Pending' = Pending
    <3>1. InFlight' = InFlight
      BY <1>6, <2>1
    <3> QED BY <2>3, <3>1 DEF Pending
  <2> QED BY <2>4, <2>5, <2>6 DEF LineInv
<1>8. CASE Line[1] # None
  <2>1. /\ Alive' = Alive /\ Busy' = Busy \union {w} /\ \A u \in Busy : worker'[u] = worker[u]
        /\ worker'[w].item = Line[1]
    BY <1>1, <1>3, <1>8 DEF Alive, Busy
  <2>2. Line[1] \notin Entries(Line)'
    <3> SUFFICES ASSUME NEW i \in 1..Len(Line'), Line'[i] = Line[1] PROVE FALSE
      BY <1>2
    <3>1. i + 1 \in 1..Len(Line) /\ Line[i + 1] = Line[1]
      BY <1>1
    <3>2. i + 1 = 1
      BY <1>1, <1>8, <3>1 DEF LineInv, OneOfEach
    <3> QED BY <3>2
  <2>3. Entries(Line) = Entries(Line)' \union {Line[1]}
    <3>1. Entries(Line) \subseteq Entries(Line)' \union {Line[1]}
      BY <1>2, <1>4
    <3>2. Entries(Line)' \subseteq Entries(Line) /\ Line[1] \in Entries(Line)
      BY <1>1, <1>2, <1>8
    <3> QED BY <3>1, <3>2
  <2>4. SentinelsLast'
    <3>1. Cardinality(Alive) < Len(Line) /\ Alive = Workers
      BY <1>1, <1>3, <1>8 DEF LineInv, SentinelsLast
    <3>2. \A i \in 1..Len(Line') : Line'[i] = None <=> i > Len(Line') - Cardinality(Alive')
      BY <1>1, <1>3, <2>1 DEF LineInv, SentinelsLast
    <3> QED BY <1>1, <1>3, <2>1, <3>1, <3>2 DEF SentinelsLast
  <2>5. OneOfEach'
    <3>1. \A u \in Busy' : worker'[u].item # None /\ worker'[u].item \notin Entries(Line)'
      BY <1>8, <2>1, <2>2, <2>3 DEF LineInv, OneOfEach
    <3>2. \A u \in Busy : worker[u].item # Line[1]
      BY <2>3 DEF LineInv, OneOfEach
    <3>3. \A u, t \in Busy' : worker'[u].item = worker'[t].item => u = t
      BY <2>1, <3>2 DEF LineInv, OneOfEach
    <3> QED BY <1>5, <3>1, <3>3 DEF OneOfEach
  <2>6. Pending' = Pending
    <3>1. InFlight' = InFlight \union {Line[1]}
      BY <1>6, <2>1
    <3> QED BY <2>3, <3>1 DEF Pending
  <2> QED BY <2>4, <2>5, <2>6 DEF LineInv
<1> QED BY <1>7, <1>8

\* A worker that goes on keeps its item, one that is done with it gives it up.
LEMMA WorkLine ==
  ASSUME TypeOK, LineInv, NEW w \in Busy, UNCHANGED <<queue, toPut>>, GoesOn(w) \/ IsDone(w)
  PROVE  /\ LineInv'
         /\ GoesOn(w) => Pending' = Pending
         /\ IsDone(w) => Pending' = Pending \ {worker[w].item}
<1>1. Line' = Line /\ Entries(Line)' = Entries(Line)
  BY DEF Line, Entries
<1>2. InFlight = {worker[u].item : u \in Busy} /\ InFlight' = {worker'[u].item : u \in Busy'}
  BY DEF InFlight, Busy
<1>3. Busy \subseteq Workers
  BY DEF Busy
<1>4. Alive' = Alive /\ Busy' \subseteq Busy /\ \A u \in Busy' : worker'[u].item = worker[u].item
  BY <1>3 DEF GoesOn, IsDone
<1>5. LineInv'
  BY <1>1, <1>4 DEF LineInv, SentinelsLast, OneOfEach
<1>6. ASSUME GoesOn(w) PROVE Pending' = Pending
  <2>1. InFlight' = InFlight
    BY <1>2, <1>3, <1>6 DEF GoesOn
  <2> QED BY <1>1, <2>1 DEF Pending
<1>7. ASSUME IsDone(w) PROVE Pending' = Pending \ {worker[w].item}
  <2>1. InFlight' = InFlight \ {worker[w].item}
    BY <1>2, <1>3, <1>7 DEF IsDone, LineInv, OneOfEach
  <2>2. worker[w].item \notin Entries(Line)
    BY DEF LineInv, OneOfEach
  <2> QED BY <1>1, <2>1, <2>2 DEF Pending
<1> QED BY <1>5, <1>6, <1>7

LEMMA RunOnlyLine ==
  ASSUME TypeOK, LineInv, RunOnly \/ (Discover /\ OpensNothing) \/ UNCHANGED vars
  PROVE  /\ LineInv' /\ Pending' = Pending /\ UNCHANGED <<row, opts>>
         /\ Alive' = Alive /\ UNCHANGED <<good, bad>>
<1>1. UNCHANGED <<queue, toPut, worker, row, opts, good, bad>>
  BY RunOnlyType DEF OpensNothing, Discover, To, vars, pool, disk
<1>2. Line' = Line
  BY <1>1 DEF Line
<1> QED BY <1>1, <1>2, SameLine

LEMMA PutLine ==
  ASSUME TypeOK, LineInv, Put
  PROVE  LineInv' /\ Pending' = Pending /\ Alive' = Alive
<1>1. Line' = Line /\ worker' = worker
  BY PutKeepsLine DEF Put
<1> QED BY <1>1, SameLine

LEMMA NextLine ==
  ASSUME TypeOK, LineInv, [Next]_vars
  PROVE  LineInv'
<1>1. ASSUME NEW w \in Workers, WorkersStep(w)
      PROVE  LineInv'
  <2>1. /\ w \in Busy /\ UNCHANGED <<queue, toPut>>
        /\ GoesOn(w) \/ Settle(w, TRUE) \/ Settle(w, FALSE)
    BY <1>1, WorkStep DEF WorkersStep
  <2>2. GoesOn(w) \/ IsDone(w)
    BY <2>1, SettleMoves
  <2> QED BY <2>1, <2>2, WorkLine
<1>2. CASE Next
  BY <1>1, <1>2, NextCases, ForgettingType, ForgetLine, RunOnlyLine, DiscoverType, OpensLine,
     PutLine, GetLine
<1> QED BY <1>2, RunOnlyLine

------------------------------------------------------------------------------
(* Steps and the rest of the invariant.                                      *)

\* A worker's step: what it does to the pool and to the one row it has in hand.
LEMMA WorkEffect ==
  ASSUME TypeOK, LineInv, NEW w \in Workers, WorkersStep(w)
  PROVE  /\ w \in Busy /\ worker[w].item \in Videos /\ worker[w].item \in Pending /\ Live
         /\ UNCHANGED <<known, task, pipe, pc, opts, audited>> /\ Alive' = Alive
         /\ \A v \in Videos : v # worker[w].item => row'[v] = row[v]
         /\ \/ /\ GoesOn(w) /\ Pending' = Pending
               /\ row' = row \/ row'[worker[w].item] = "failed"
            \/ /\ Settle(w, TRUE) /\ Pending' = Pending \ {worker[w].item}
               /\ row'[worker[w].item] = "success"
            \/ /\ Settle(w, FALSE) /\ Pending' = Pending \ {worker[w].item}
               /\ \/ row'[worker[w].item] = "failed"
                  \/ row' = row /\ WriteFails
         /\ faults' = 0 => faults = 0
<1>1. /\ w \in Busy /\ Live
      /\ UNCHANGED <<known, task, pipe, pc, opts, toPut, queue, audited>>
      /\ \/ GoesOn(w) /\ row' = row
         \/ GoesOn(w) /\ RowBecomes(w, "failed")
         \/ Settle(w, TRUE) /\ RowBecomes(w, "success")
         \/ Settle(w, FALSE) /\ RowBecomes(w, "failed")
         \/ Settle(w, FALSE) /\ row' = row /\ WriteFails
      /\ faults' = 0 => faults = 0
  BY WorkStep DEF WorkersStep
<1>2. worker[w].item \in Videos /\ worker[w].item \in Pending
  <2>1. worker[w].item \in Videos
    BY <1>1, WorkersTyped DEF LineInv, OneOfEach, Busy, Place
  <2>2. worker[w].item \in InFlight
    BY <1>1 DEF InFlight, Busy
  <2> QED BY <2>1, <2>2 DEF Pending
<1>3. row \in [Videos -> {"none", "failed", "success"}]
  BY DEF TypeOK
<1>4. \A v \in Videos : v # worker[w].item => row'[v] = row[v]
  BY <1>1, <1>3 DEF RowBecomes
<1>5. ASSUME NEW status, RowBecomes(w, status) PROVE row'[worker[w].item] = status
  BY <1>2, <1>3, <1>5 DEF RowBecomes
<1>6. \A ok \in BOOLEAN : Settle(w, ok) => IsDone(w)
  BY <1>1, SettleMoves
<1>7. /\ GoesOn(w) => Pending' = Pending /\ Alive' = Alive
      /\ IsDone(w) => Pending' = Pending \ {worker[w].item} /\ Alive' = Alive
  BY <1>1, WorkLine DEF GoesOn, IsDone
<1> QED BY <1>1, <1>2, <1>4, <1>5, <1>6, <1>7

LEMMA NextLifecycle ==
  ASSUME TypeOK, LineInv, Lifecycle, [Next]_vars
  PROVE  Lifecycle'
<1>1. CASE UNCHANGED vars
  BY <1>1 DEF vars, disk, pool, bounds, Lifecycle, Alive
<1>2. CASE (\E o \in Options : Start(o)) \/ DryRun \/ Finish \/ Exit \/ Crash
  <2>1. Alive' = {} /\ good' = {} /\ bad' = {}
    BY <1>2, ForgettingType, ForgetTyped
  <2>2. pc' \in {"dry", "init", "idle"}
    BY <1>2 DEF Start, DryRun, Finish, Exit, Crash, To
  <2> QED BY <2>1, <2>2 DEF Lifecycle
<1>3. CASE RunOnly
  <2>1. Alive' = Alive /\ UNCHANGED <<good, bad>>
    BY <1>3, RunOnlyLine
  <2>2. PoolDone => Alive = {}
    BY DEF PoolDone, Alive
  <2>3. Alive' # {} => pc' \in {"pool", "aborted", "closed"}
    BY <1>3, <2>1, <2>2 DEF Lifecycle, RunOnly, InitTask, DiscoverFails, PoolDone, DerivePipeline,
       Audit, RunFails, PoolRaises, CloseStore, FetchMore, To
  <2>4. pc' \in {"discover", "pool", "derive"} => ~audited'.made
    BY <1>3 DEF Lifecycle, RunOnly, InitTask, DiscoverFails, PoolDone, DerivePipeline,
       Audit, RunFails, PoolRaises, CloseStore, FetchMore, To, NoAudit
  <2>5. pc' \in {"discover", "pool", "derive", "finish"} \/ Alive' # {} => task' = "RUNNING"
    BY <1>3, <2>1, <2>2 DEF Lifecycle, RunOnly, InitTask, DiscoverFails, PoolDone, DerivePipeline,
       Audit, RunFails, PoolRaises, CloseStore, FetchMore, To, disk
  <2>6. pc' \in {"dry", "init", "discover"} => good' = {} /\ bad' = {}
    BY <1>3, <2>1 DEF Lifecycle, RunOnly, InitTask, DiscoverFails, PoolDone, DerivePipeline,
       Audit, RunFails, PoolRaises, CloseStore, FetchMore, To
  <2> QED BY <2>3, <2>4, <2>5, <2>6 DEF Lifecycle
<1>4. CASE Discover
  <2>1. pc = "discover" /\ UNCHANGED <<task, audited>>
    BY <1>4 DEF Discover
  <2>2. Opens \/ OpensNothing
    BY <1>4, DiscoverType
  <2>3. pc' = "pool" \/ (pc' \in {"finish", "derive"} /\ Alive' = Alive)
    BY <1>4, <2>2, RunOnlyLine DEF Opens, OpensNothing
  <2> QED BY <2>1, <2>3 DEF Lifecycle
<1>5. CASE Put
  BY <1>5, PutLine DEF Put, Lifecycle, disk, Live
<1>6. ASSUME NEW w \in Workers, Get(w) PROVE Lifecycle'
  BY <1>6 DEF Get, Lifecycle, disk, Live, Alive
<1>7. ASSUME NEW w \in Workers, WorkersStep(w) PROVE Lifecycle'
  <2>1. Live /\ Alive' = Alive /\ UNCHANGED <<task, pc, audited>>
    BY <1>7, WorkEffect
  <2> QED BY <2>1 DEF Lifecycle, Live
<1> QED BY <1>1, <1>2, <1>3, <1>4, <1>5, <1>6, <1>7, NextCases

LEMMA NextOnlyMissing ==
  ASSUME TypeOK, LineInv, OnlyMissing, [Next]_vars
  PROVE  OnlyMissing'
<1>1. CASE RunOnly \/ (Discover /\ OpensNothing) \/ UNCHANGED vars
  BY <1>1, RunOnlyLine DEF OnlyMissing, Success
<1>2. CASE (\E o \in Options : Start(o)) \/ DryRun \/ Finish \/ Exit \/ Crash
  <2>1. Entries(Line)' = {} /\ InFlight' = {}
    BY <1>2, ForgettingType, ForgetTyped
  <2> QED BY <2>1 DEF OnlyMissing, Pending
<1>3. CASE Discover /\ Opens
  <2>1. UNCHANGED <<row, opts>> /\ Pending' = Entries(Candidates(opts))
    BY <1>3, OpensLine DEF Discover, To
  <2>2. Entries(Candidates(opts)) \subseteq Ready(opts)
    BY CandidatesFit
  <2>3. opts.failedOnly \/ ~opts.full => \A v \in Ready(opts) : ~Success(v)
    BY DEF Ready, Failed, Success
  <2>4. \A v : Success(v)' = Success(v)
    BY <2>1 DEF Success
  <2> QED BY <2>1, <2>2, <2>3, <2>4 DEF OnlyMissing
<1>4. CASE Put
  BY <1>4, PutLine DEF Put, OnlyMissing, Success, disk
<1>5. ASSUME NEW w \in Workers, Get(w) PROVE OnlyMissing'
  BY <1>5, GetLine DEF Get, OnlyMissing, Success, disk
<1>6. ASSUME NEW w \in Workers, WorkersStep(w) PROVE OnlyMissing'
  <2> DEFINE v == worker[w].item
  <2>1. /\ opts' = opts /\ Pending \subseteq Videos /\ Pending' \subseteq Pending
        /\ \A u \in Videos : u # v => row'[u] = row[u]
        /\ v \in Pending' => row' = row \/ row'[v] = "failed"
    <3>1. Pending \subseteq Videos
      BY PendingAreVideos DEF LineInv
    <3> QED BY <1>6, <3>1, WorkEffect
  <2> HIDE DEF v
  <2> QED BY <2>1 DEF OnlyMissing, Success
<1> QED BY <1>1, <1>2, <1>3, <1>4, <1>5, <1>6, NextCases, DiscoverType

LEMMA NextAccounts ==
  ASSUME TypeOK, LineInv, Lifecycle, Accounts, [Next]_vars
  PROVE  Accounts'
<1>1. CASE UNCHANGED vars
  BY <1>1, RunOnlyLine DEF vars, disk, pool, bounds, Accounts, Success, Failed
<1>2. CASE (\E o \in Options : Start(o)) \/ DryRun \/ Finish \/ Exit \/ Crash
  BY <1>2 DEF Start, DryRun, Finish, Exit, Crash, To, Accounts
<1>3. CASE RunOnly
  <2>1. Pending' = Pending /\ UNCHANGED <<row, rollup, good, bad>>
    BY <1>3, RunOnlyLine, RunOnlyType DEF pool
  <2>2. pc' \in {"pool", "derive"} => pc \in {"pool", "derive"} /\ faults' = faults
    BY <1>3 DEF RunOnly, InitTask, DiscoverFails, PoolDone, DerivePipeline,
       Audit, RunFails, PoolRaises, CloseStore, FetchMore, To, bounds
  <2> QED BY <2>1, <2>2 DEF Accounts, Success, Failed
<1>4. CASE Discover
  <2>1. good = {} /\ bad = {} /\ Alive = {} /\ row' = row
    BY <1>4 DEF Discover, Lifecycle
  <2>2. Cardinality({}) = 0
    BY FS_EmptySet
  <2>3. CASE Opens
    <3>1. /\ good' = {} /\ bad' = {} /\ Cardinality(Pending') = Len(Candidates(opts))
          /\ rollup'.total = Len(Candidates(opts)) + rollup'.skipped
          /\ rollup'.completed = 0 /\ rollup'.failed = 0 /\ rollup'.skipped \in Nat
          /\ Len(Candidates(opts)) \in Nat
      BY <2>3, OpensLine, CandidatesFit DEF Opens
    <3> QED BY <2>2, <3>1 DEF Accounts
  <2>4. CASE OpensNothing
    <3>1. Pending' = {} /\ good' = {} /\ bad' = {}
      BY <1>4, <2>1, <2>4, RunOnlyLine, EmptyPool
    <3>2. \/ pc' = "finish"
          \/ /\ rollup'.total = rollup'.skipped /\ rollup'.skipped \in Nat
             /\ rollup'.completed = 0 /\ rollup'.failed = 0
      BY <2>4 DEF OpensNothing
    <3> QED BY <2>2, <3>1, <3>2 DEF Accounts
  <2> QED BY <1>4, <2>3, <2>4, DiscoverType
<1>5. CASE Put
  BY <1>5, PutLine DEF Put, Accounts, Success, Failed, disk, bounds
<1>6. ASSUME NEW w \in Workers, Get(w) PROVE Accounts'
  BY <1>6, GetLine DEF Get, Accounts, Success, Failed, disk, bounds
<1>7. ASSUME NEW w \in Workers, WorkersStep(w), pc = "pool" PROVE Accounts'
  <2>0. PICK v \in Videos : v = worker[w].item
    BY <1>7, WorkEffect
  <2>1. /\ w \in Busy /\ v \in Videos /\ v \in Pending /\ pc' = pc
        /\ \A u \in Videos : u # v => row'[u] = row[u]
        /\ \/ /\ GoesOn(w) /\ Pending' = Pending
           \/ /\ Settle(w, TRUE) /\ Pending' = Pending \ {v} /\ row'[v] = "success"
           \/ /\ Settle(w, FALSE) /\ Pending' = Pending \ {v}
              /\ row'[v] = "failed" \/ (row' = row /\ WriteFails)
        /\ faults' = 0 => faults = 0
    BY <1>7, <2>0, WorkEffect
  <2>2. /\ Pending \subseteq Videos /\ good \subseteq Videos /\ bad \subseteq Videos
        /\ Cardinality(Pending) \in Nat /\ Cardinality(good) \in Nat /\ Cardinality(bad) \in Nat
    <3>1. Pending \subseteq Videos /\ good \subseteq Videos /\ bad \subseteq Videos
      BY PendingAreVideos DEF TypeOK, LineInv
    <3> QED BY <3>1, VideoSets
  <2>3. /\ rollup.completed = Cardinality(good) /\ rollup.failed = Cardinality(bad)
        /\ good \intersect bad = {} /\ (good \union bad) \intersect Pending = {}
        /\ rollup.total = rollup.completed + rollup.failed + rollup.skipped + Cardinality(Pending)
        /\ \A u \in good : Success(u)
        /\ faults = 0 => \A u \in bad : Failed(u)
    BY <1>7 DEF Accounts
  <2>4. rollup.skipped \in Nat
    BY DEF TypeOK, CountsType
  <2>5. Cardinality(Pending \ {v}) = Cardinality(Pending) - 1
    BY <2>1, <2>2, OneLess
  <2>6. v \notin good /\ v \notin bad
    BY <2>1, <2>3
  <2>7. /\ Cardinality(good \union {v}) = Cardinality(good) + 1
        /\ Cardinality(bad \union {v}) = Cardinality(bad) + 1
    BY <2>1, <2>2, <2>6, OneMore
  <2>8. (\A u \in good : Success(u)') /\ (faults' = 0 => \A u \in bad : Failed(u)')
    BY <2>1, <2>2, <2>3, <2>6 DEF Success, Failed
  <2>9. OneOfEach
    BY DEF LineInv
  <2>10. CASE GoesOn(w) /\ Pending' = Pending
    BY <2>3, <2>8, <2>10 DEF GoesOn, Accounts
  <2>11. CASE Settle(w, TRUE) /\ Pending' = Pending \ {v} /\ row'[v] = "success"
    <3>1. /\ rollup'.total = rollup.total /\ rollup'.skipped = rollup.skipped
          /\ rollup'.completed = rollup.completed + 1 /\ rollup'.failed = rollup.failed
          /\ good' = good \union {v} /\ bad' = bad
      BY <1>7, <2>1, <2>0, <2>9, <2>11, SettleCounts
    <3>2. Success(v)'
      BY <2>11 DEF Success
    <3>3. /\ rollup'.completed = Cardinality(good') /\ rollup'.failed = Cardinality(bad')
          /\ rollup'.total
               = rollup'.completed + rollup'.failed + rollup'.skipped + Cardinality(Pending')
      BY <2>2, <2>3, <2>4, <2>5, <2>7, <2>11, <3>1
    <3>4. good' \intersect bad' = {} /\ (good' \union bad') \intersect Pending' = {}
      BY <2>3, <2>6, <2>11, <3>1
    <3>5. (\A u \in good' : Success(u)') /\ (faults' = 0 => \A u \in bad' : Failed(u)')
      BY <2>8, <3>1, <3>2
    <3> QED BY <3>3, <3>4, <3>5 DEF Accounts
  <2>12. CASE /\ Settle(w, FALSE) /\ Pending' = Pending \ {v}
              /\ row'[v] = "failed" \/ (row' = row /\ WriteFails)
    <3>1. /\ rollup'.total = rollup.total /\ rollup'.skipped = rollup.skipped
          /\ rollup'.completed = rollup.completed /\ rollup'.failed = rollup.failed + 1
          /\ good' = good /\ bad' = bad \union {v}
      BY <1>7, <2>1, <2>0, <2>9, <2>12, SettleCounts
    <3>2. faults' = 0 => Failed(v)'
      <4>1. WriteFails => faults' # 0
        <5>1. faults \in Nat /\ StoreOpen
          BY <1>7, ConstantsTyped DEF TypeOK, StoreOpen
        <5> QED BY <5>1 DEF WriteFails
      <4> QED BY <2>12, <4>1 DEF Failed
    <3>3. /\ rollup'.completed = Cardinality(good') /\ rollup'.failed = Cardinality(bad')
          /\ rollup'.total
               = rollup'.completed + rollup'.failed + rollup'.skipped + Cardinality(Pending')
      BY <2>2, <2>3, <2>4, <2>5, <2>7, <2>12, <3>1, SMTT(30)
    <3>4. good' \intersect bad' = {} /\ (good' \union bad') \intersect Pending' = {}
      BY <2>3, <2>6, <2>12, <3>1
    <3>5. (\A u \in good' : Success(u)') /\ (faults' = 0 => \A u \in bad' : Failed(u)')
      BY <2>8, <3>1, <3>2
    <3> QED BY <3>3, <3>4, <3>5 DEF Accounts
  <2> QED BY <2>1, <2>10, <2>11, <2>12
<1>8. ASSUME NEW w \in Workers, WorkersStep(w), pc # "pool" PROVE Accounts'
  BY <1>8, WorkEffect DEF Accounts, Live
<1> QED BY <1>1, <1>2, <1>3, <1>4, <1>5, <1>6, <1>7, <1>8, NextCases

LEMMA NextClaims ==
  ASSUME TypeOK, LineInv, Lifecycle, Claims, [Next]_vars
  PROVE  Claims'
<1>1. ASSUME row' = row, audited' = audited
      PROVE  Covered' = Covered
  BY <1>1 DEF Covered, Success
<1>2. CASE UNCHANGED vars
  BY <1>1, <1>2 DEF vars, disk, Claims
<1>3. CASE Finish
  <2>1. /\ row' = row /\ audited' = audited /\ task' = TaskStatus(pipe.status)
        /\ pc = "finish" /\ pc' = "idle"
    BY <1>3 DEF Finish, To
  <2>2. task' = "SUCCESS" => pipe.status = "SUCCESS"
    BY <2>1 DEF TaskStatus
  <2> QED BY <1>1, <2>1, <2>2 DEF Claims
<1>4. CASE (\E o \in Options : Start(o)) \/ DryRun \/ Exit \/ Crash
  BY <1>1, <1>4 DEF Start, DryRun, Exit, Crash, To, disk, Claims
<1>5. CASE InitTask \/ DiscoverFails
  <2>1. row' = row /\ (pc' # "finish" \/ pipe'.status # "SUCCESS")
    BY <1>5 DEF InitTask, DiscoverFails, To
  <2>2. task' # "SUCCESS"
    BY <1>5 DEF InitTask, DiscoverFails, Lifecycle
  <2> QED BY <2>1, <2>2 DEF Claims
<1>6. CASE DerivePipeline
  BY <1>6 DEF DerivePipeline, Lifecycle, Claims, Covered
<1>7. CASE Audit
  <2>1. /\ task' = task /\ task = "RUNNING" /\ row' = row
        /\ audited' = [made |-> TRUE, known |-> known]
        /\ pipe' = [pipe EXCEPT !.status = IF @ = "PARTIAL" \/ ~Complete THEN "PARTIAL" ELSE "SUCCESS"]
    BY <1>7 DEF Audit, Lifecycle
  <2>2. pipe \in [status : Statuses, items : CountsType]
    BY DEF TypeOK
  <2>3. pipe'.status = "SUCCESS" => Complete
    BY <2>1, <2>2
  <2> QED BY <2>1, <2>3 DEF Claims, Covered, Complete, Success
<1>8. CASE PoolDone \/ RunFails \/ PoolRaises \/ CloseStore \/ FetchMore
  <2>1. UNCHANGED <<row, task, audited, pipe>> /\ (pc' = "finish" => pc = "finish")
    BY <1>8 DEF PoolDone, RunFails, PoolRaises, CloseStore, FetchMore, To, disk
  <2> QED BY <1>1, <2>1 DEF Claims
<1>9. CASE Discover
  <2>1. task' = "RUNNING"
    BY <1>9 DEF Discover, Lifecycle
  <2>2. pc' = "finish" => pipe'.status = "PARTIAL"
    BY <1>9, DiscoverType DEF Opens, OpensNothing
  <2> QED BY <2>1, <2>2 DEF Claims
<1>10. CASE Put
  BY <1>1, <1>10 DEF Put, Claims, disk
<1>11. ASSUME NEW w \in Workers, Get(w) PROVE Claims'
  BY <1>1, <1>11 DEF Get, Claims, disk
<1>12. ASSUME NEW w \in Workers, WorkersStep(w) PROVE Claims'
  <2>1. w \in Busy /\ Live /\ UNCHANGED <<task, pc>>
    BY <1>12, WorkEffect
  <2>2. task = "RUNNING"
    BY <2>1 DEF Lifecycle, Busy, Alive
  <2> QED BY <2>1, <2>2 DEF Claims, Live
<1> QED BY <1>2, <1>3, <1>4, <1>5, <1>6, <1>7, <1>8, <1>9, <1>10, <1>11, <1>12, NextCases
        DEF RunOnly

------------------------------------------------------------------------------
(* The theorems.                                                             *)

IInv == TypeOK /\ LineInv /\ Lifecycle /\ OnlyMissing /\ Accounts /\ Claims

LEMMA InitInv == Init => IInv
<1> SUFFICES ASSUME Init PROVE IInv
  OBVIOUS
<1>1. Alive = {} /\ Entries(Line) = {} /\ InFlight = {}
  BY Nobody DEF Init
<1>2. Lifecycle /\ OnlyMissing /\ Accounts /\ Claims
  BY <1>1 DEF Init, Lifecycle, OnlyMissing, Pending, Accounts, Claims
<1> QED BY <1>2, InitType, InitLine DEF IInv

LEMMA NextInv == IInv /\ [Next]_vars => IInv'
BY NextType, NextLine, NextLifecycle, NextOnlyMissing, NextAccounts, NextClaims DEF IInv, LineInv

\* The invariant of the run, its pool and its audit holds in every reachable state.
THEOREM Inductive == Spec => []IInv
BY InitInv, NextInv, PTL DEF Spec

\* Every variable keeps its type: the counters never pass the number of videos, the queue
\* never its bound (run_item_workers).
THEOREM TypeCorrect == Spec => []TypeOK
<1>1. IInv => TypeOK
  BY DEF IInv
<1> QED BY <1>1, Inductive, PTL

\* A drained pool has settled every candidate once and its counts say how (_run_audio).
THEOREM RunAccountsHolds == Spec => []RunAccounts
<1>1. IInv => RunAccounts
  <2> SUFFICES ASSUME IInv, pc = "derive"
               PROVE  /\ rollup.total = rollup.completed + rollup.failed + rollup.skipped
                      /\ rollup.completed = Cardinality(good) /\ rollup.failed = Cardinality(bad)
                      /\ \A v \in good : Success(v)
                      /\ faults = 0 => \A v \in bad : Failed(v)
    BY DEF RunAccounts
  <2>1. Alive = {}
    BY DEF IInv, Lifecycle
  <2>2. Cardinality(Pending) = 0
    BY <2>1, EmptyPool, FS_EmptySet DEF IInv
  <2>3. /\ rollup.completed = Cardinality(good) /\ rollup.failed = Cardinality(bad)
        /\ rollup.total = rollup.completed + rollup.failed + rollup.skipped + Cardinality(Pending)
        /\ \A v \in good : Success(v)
        /\ faults = 0 => \A v \in bad : Failed(v)
    BY DEF IInv, Accounts
  <2>4. rollup.completed \in Nat /\ rollup.failed \in Nat /\ rollup.skipped \in Nat
    BY DEF IInv, TypeOK, CountsType
  <2> QED BY <2>2, <2>3, <2>4
<1> QED BY <1>1, Inductive, PTL

\* A stored SUCCESS of an audited run covers every video the audit knew
\* (_audit_audio_coverage).
THEOREM SuccessMeansCoveredHolds == Spec => []SuccessMeansCovered
<1>1. IInv => SuccessMeansCovered
  BY DEF IInv, Claims, Covered, SuccessMeansCovered
<1> QED BY <1>1, Inductive, PTL

\* Rows are written by workers only.
LEMMA RowsChange ==
  ASSUME TypeOK, Next, row' # row
  PROVE  \E w \in Workers : WorkersStep(w)
<1>1. (\E o \in Options : Start(o)) \/ DryRun \/ Finish \/ Exit \/ Crash => row' = row
  BY DEF Start, DryRun, Finish, Exit, Crash, disk
<1>2. RunOnly => row' = row
  BY RunOnlyType
<1>3. Discover \/ Put \/ (\E w \in Workers : Get(w)) => row' = row
  BY DEF Discover, Put, Get, disk
<1> QED BY <1>1, <1>2, <1>3, NextCases

\* Only a full run takes a transcription away, and only that of a video it works on
\* (_filter_audio_ready, upsert_audio_transcription).
THEOREM TranscriptsKeptHolds == Spec => TranscriptsKept
<1> DEFINE Kept == \A v \in Videos : Success(v) /\ ~Success(v)' =>
                     /\ opts.full /\ ~opts.failedOnly
                     /\ \E w \in Workers : worker[w].item = v
<1>1. IInv /\ [Next]_vars => Kept
  <2> SUFFICES ASSUME IInv, [Next]_vars, NEW v \in Videos, Success(v), ~Success(v)'
               PROVE  /\ opts.full /\ ~opts.failedOnly
                      /\ \E w \in Workers : worker[w].item = v
    OBVIOUS
  <2>1. PICK w \in Workers : WorkersStep(w)
    <3>1. row' # row
      BY DEF Success
    <3>2. ~ UNCHANGED vars
      BY <3>1 DEF vars, disk
    <3> QED BY <3>1, <3>2, RowsChange DEF IInv
  <2>2. worker[w].item = v /\ v \in Pending
    BY <2>1, WorkEffect DEF IInv, Success
  <2> QED BY <2>2 DEF IInv, OnlyMissing
<1>2. IInv /\ [Next]_vars => [Kept]_vars
  BY <1>1
<1> HIDE DEF Kept
<1>3. Spec => [][Kept]_vars
  BY <1>2, Inductive, PTL DEF Spec
<1> QED BY <1>3 DEF Kept, TranscriptsKept

------------------------------------------------------------------------------
(* The pool is the pool of WorkPool, its fairness aside.                     *)

Unsettled == Entries(toPut) \union Entries(queue) \union InFlight

SameItems == Unsettled = Pending

LEMMA PoolViews == TypeOK => SameItems
BY LineTyped DEF SameItems, Unsettled, Pending

LEMMA PoolViewsNext == TypeOK' => SameItems'
BY PoolViews, PTL

LEMMA InitPool == Init => Pool!Init
BY DEF Init, Pool!Init

\* A pool whose items are seen as before stutters, and so does one that stays closed.
LEMMA PoolStutters ==
  ASSUME TypeOK, TypeOK',
         \/ pc # "pool" /\ pc' # "pool"
         \/ pc = "pool" /\ pc' = "pool" /\ Pending' = Pending /\ UNCHANGED <<good, bad>>
  PROVE  UNCHANGED Pool!vars
BY PoolViews, PoolViewsNext DEF Pool!vars, Unsettled, SameItems

LEMMA PoolStep == IInv /\ IInv' /\ [Next]_vars => [Pool!Next]_(Pool!vars)
<1> SUFFICES ASSUME IInv, IInv', [Next]_vars PROVE [Pool!Next]_(Pool!vars)
  OBVIOUS
<1>1. TypeOK /\ TypeOK' /\ LineInv
  BY DEF IInv
<1>2. CASE UNCHANGED vars
  <2>1. pc' = pc /\ Pending' = Pending /\ UNCHANGED <<good, bad>>
    BY <1>1, <1>2, RunOnlyLine DEF vars
  <2> QED BY <1>1, <2>1, PoolStutters
<1>3. CASE (\E o \in Options : Start(o)) \/ DryRun \/ Finish \/ Exit \/ Crash
  <2>1. pc' # "pool"
    BY <1>3 DEF Start, DryRun, Finish, Exit, Crash, To
  <2>2. CASE pc # "pool"
    BY <1>1, <2>1, <2>2, PoolStutters
  <2>3. CASE pc = "pool"
    <3>1. Pool!Abort
      BY <2>1, <2>3 DEF Pool!Abort, Pool!Closed
    <3> QED BY <3>1 DEF Pool!Next
  <2> QED BY <2>2, <2>3
<1>4. CASE PoolDone \/ PoolRaises
  <2>1. pc = "pool" /\ pc' # "pool"
    BY <1>4 DEF PoolDone, PoolRaises, To
  <2>2. Pool!Abort
    BY <2>1 DEF Pool!Abort, Pool!Closed
  <2> QED BY <2>2 DEF Pool!Next
<1>5. CASE RunOnly /\ ~PoolDone /\ ~PoolRaises
  <2>1. (pc # "pool" /\ pc' # "pool") \/ pc' = pc
    BY <1>5 DEF RunOnly, InitTask, DiscoverFails, DerivePipeline, Audit, RunFails,
       CloseStore, FetchMore, To
  <2>2. Pending' = Pending /\ UNCHANGED <<good, bad>>
    BY <1>1, <1>5, RunOnlyLine
  <2> QED BY <1>1, <2>1, <2>2, PoolStutters
<1>6. CASE Discover
  <2>1. pc = "discover"
    BY <1>6 DEF Discover
  <2>2. CASE OpensNothing
    <3>1. pc' # "pool"
      BY <2>2 DEF OpensNothing
    <3> QED BY <1>1, <2>1, <3>1, PoolStutters
  <2>3. CASE Opens
    <3>1. pc' = "pool" /\ good' = {} /\ bad' = {}
      BY <2>3 DEF Opens
    <3>2. Pending' \in SUBSET Videos
      <4>1. Pending' = Entries(Candidates(opts)) /\ Entries(Candidates(opts)) \subseteq Ready(opts)
        BY <1>1, <2>3, OpensLine, CandidatesFit
      <4> QED BY <1>1, <4>1, ReadyFits DEF TypeOK
    <3>3. Pool!Open(Pending')
      BY <1>1, <2>1, <3>1, PoolViewsNext DEF Pool!Open, Unsettled, SameItems
    <3> QED BY <3>2, <3>3 DEF Pool!Next
  <2> QED BY <1>1, <1>6, <2>2, <2>3, DiscoverType
<1>7. CASE Put \/ \E w \in Workers : Get(w)
  <2>1. pc' = pc /\ Pending' = Pending /\ UNCHANGED <<good, bad>>
    BY <1>1, <1>7, PutLine, GetLine DEF Put, Get
  <2> QED BY <1>1, <2>1, PoolStutters
<1>8. ASSUME NEW w \in Workers, WorkersStep(w)
      PROVE  [Pool!Next]_(Pool!vars)
  <2>1. PICK v \in Videos : v = worker[w].item
    BY <1>1, <1>8, WorkEffect
  <2>2. /\ w \in Busy /\ v \in Pending /\ pc' = pc
        /\ \/ GoesOn(w) /\ Pending' = Pending
           \/ \E ok \in BOOLEAN : Settle(w, ok) /\ Pending' = Pending \ {v}
    BY <1>1, <1>8, <2>1, WorkEffect
  <2>3. CASE pc # "pool"
    BY <1>1, <2>2, <2>3, PoolStutters
  <2>4. CASE GoesOn(w) /\ Pending' = Pending
    <3>1. UNCHANGED <<good, bad>>
      BY <2>4 DEF GoesOn
    <3> QED BY <1>1, <2>2, <2>3, <2>4, <3>1, PoolStutters
  <2>5. ASSUME pc = "pool", NEW ok \in BOOLEAN, Settle(w, ok), Pending' = Pending \ {v}
        PROVE  Pool!Settle(v)
    <3>1. \/ good' = good \union {v} /\ bad' = bad
          \/ bad' = bad \union {v} /\ good' = good
      BY <2>1, <2>5 DEF Settle
    <3>2. pc' = "pool"
      BY <2>2, <2>5
    <3> QED BY <1>1, <2>2, <2>5, <3>1, <3>2, PoolViews, PoolViewsNext DEF Pool!Settle, Unsettled, SameItems
  <2> QED BY <2>2, <2>3, <2>4, <2>5 DEF Pool!Next
<1> QED BY <1>2, <1>3, <1>4, <1>5, <1>6, <1>7, <1>8, NextCases

LEMMA DoneCloses == IInv /\ IInv' /\ PoolDone => Pool!Close
<1> SUFFICES ASSUME IInv, IInv', PoolDone PROVE Pool!Close
  OBVIOUS
<1>1. TypeOK /\ LineInv
  BY DEF IInv
<1>2. pc = "pool" /\ pc' = "derive" /\ Alive = {}
  BY DEF PoolDone, To, Alive
<1>3. Pending = {}
  BY <1>1, <1>2, EmptyPool
<1> QED BY <1>1, <1>2, <1>3, PoolViews DEF Pool!Close, Pool!Closed, Unsettled, SameItems

\* Every step of producer, queue and workers is a step of WorkPool or none: no item is
\* dropped, settled twice, or settled that was not opened, and the gather returns only when
\* nothing is left (run_item_workers).
THEOREM ImplementsPool ==
  Spec => Pool!Init /\ [][Pool!Next]_(Pool!vars) /\ [][PoolDone => Pool!Close]_vars
<1>1. IInv /\ IInv' /\ [Next]_vars => [PoolDone => Pool!Close]_vars
  BY DoneCloses
<1> QED BY <1>1, InitPool, PoolStep, Inductive, PTL DEF Spec

------------------------------------------------------------------------------
(* The pool neither sticks nor goes on for ever: that it ends under fairness *)
(* is the run's AsrRunEnds; what is proved is all of it but the fairness.    *)

\* While the pool is awaited, the producer, a worker or the gather itself can take a step:
\* with every worker at an empty queue there are no sentinels left, hence no workers
\* (run_item_workers).
THEOREM PoolGoesOnHolds == Spec => []PoolGoesOn
<1>1. IInv => PoolGoesOn
  <2> SUFFICES ASSUME IInv, pc = "pool",
                      ~(toPut # <<>> /\ Len(queue) < Capacity),
                      \A w \in Workers : /\ ~(worker[w].at = "get" /\ queue # <<>>)
                                         /\ worker[w].at \notin {"work", "save", "net", "dead"}
               PROVE  toPut = <<>> /\ \A w \in Workers : worker[w].at = "gone"
    BY DEF PoolGoesOn
  <2>1. TypeOK /\ LineInv
    BY DEF IInv
  <2>2. /\ Len(Line) = Len(queue) + Len(toPut) /\ Len(queue) \in Nat /\ Len(toPut) \in Nat
        /\ toPut \in Seq(Videos \union {None}) /\ queue \in Seq(Videos \union {None})
    BY <2>1, LineTyped DEF TypeOK
  <2>3. \A w \in Workers : worker[w].at = "get" \/ worker[w].at = "gone"
    BY <2>1, WorkersTyped DEF Place
  <2>4. CASE queue # <<>>
    <3>1. Alive = {}
      BY <2>3, <2>4 DEF Alive
    <3>2. Len(Line) = 0
      BY <2>1, <3>1, EmptyPool
    <3>3. Len(queue) # 0
      BY <2>2, <2>4, EmptySeq
    <3>4. Len(queue) + Len(toPut) = 0 /\ Len(queue) \in Nat /\ Len(toPut) \in Nat
      BY <2>2, <3>2
    <3> QED BY <3>3, <3>4
  <2>5. CASE queue = <<>>
    <3>1. Len(queue) = 0
      BY <2>5
    <3>2. toPut = <<>>
      BY <3>1, ConstantsTyped
    <3>3. Len(Line) = 0
      BY <2>2, <3>1, <3>2
    <3>4. Cardinality(Alive) <= 0
      BY <2>1, <3>3 DEF LineInv, SentinelsLast
    <3>5. Alive = {}
      BY <3>4, WorkerSets, FS_EmptySet DEF Alive
    <3> QED BY <3>2, <3>5 DEF Alive
  <2> QED BY <2>4, <2>5
<1> QED BY <1>1, Inductive, PTL

\* The steps a worker may still take with the item it has in hand.
Steps(p) ==
  IF p.at = "work" THEN MaxAttempts - p.attempt + 3
  ELSE IF p.at = "save" THEN 2 ELSE IF p.at = "net" THEN 1 ELSE 0

Span == 1..(MaxAttempts + 3)
Units == {u \in Workers \X Span : u[2] <= Steps(worker[u[1]])}

\* An item costs a put, a get and the steps of its worker.
StepsLeft == (MaxAttempts + 5) * Len(toPut) + (MaxAttempts + 4) * Len(queue) + Cardinality(Units)

PoolRunsDown == [][Live /\ Live' => StepsLeft' < StepsLeft]_pool

LEMMA StepsTyped ==
  ASSUME NEW p \in Place
  PROVE  Steps(p) \in 0..(MaxAttempts + 3)
BY ConstantsTyped DEF Steps, Place

LEMMA SpanSize == IsFiniteSet(Span) /\ Cardinality(Span) = MaxAttempts + 3
<1>1. MaxAttempts + 3 \in Int /\ ~(1 > MaxAttempts + 3) /\ (MaxAttempts + 3) - 1 + 1 = MaxAttempts + 3
  BY ConstantsTyped
<1> QED BY <1>1, FS_Interval DEF Span

LEMMA UnitsFinite ==
  /\ IsFiniteSet(Units) /\ Cardinality(Units) \in Nat
  /\ IsFiniteSet(Units') /\ Cardinality(Units') \in Nat
<1>1. IsFiniteSet(Workers \X Span)
  BY SpanSize, RunAssumption, FS_Product
<1>2. Units \subseteq Workers \X Span /\ Units' \subseteq Workers \X Span
  BY DEF Units
<1> QED BY <1>1, <1>2, FS_Subset, FS_CardinalityType

\* A worker that has fewer steps left, and nobody more, has the pool's units fall.
LEMMA UnitsFall ==
  ASSUME TypeOK, TypeOK', NEW w \in Workers,
         worker' = [worker EXCEPT ![w] = worker'[w]],
         Steps(worker'[w]) < Steps(worker[w])
  PROVE  Cardinality(Units') < Cardinality(Units)
<1>1. worker \in [Workers -> Place] /\ worker' \in [Workers -> Place]
  BY WorkersTyped DEF TypeOK, Place
<1>2. /\ Steps(worker[w]) \in 0..(MaxAttempts + 3) /\ Steps(worker'[w]) \in 0..(MaxAttempts + 3)
      /\ MaxAttempts \in Nat
  BY <1>1, StepsTyped, ConstantsTyped
<1>3. Units' \subseteq Units
  <2> SUFFICES ASSUME NEW v \in Workers, NEW n \in Span, n <= Steps(worker'[v])
               PROVE  n <= Steps(worker[v])
    BY DEF Units
  <2>1. CASE v = w
    BY <1>2, <2>1 DEF Span
  <2>2. CASE v # w
    BY <1>1, <2>2
  <2> QED BY <2>1, <2>2
<1>4. <<w, Steps(worker[w])>> \in Units /\ <<w, Steps(worker[w])>> \notin Units'
  <2>1. Steps(worker[w]) \in Span
    BY <1>2 DEF Span
  <2>2. Steps(worker[w]) <= Steps(worker[w]) /\ ~(Steps(worker[w]) <= Steps(worker'[w]))
    BY <1>2
  <2> QED BY <2>1, <2>2 DEF Units
<1>5. /\ Cardinality(Units') <= Cardinality(Units)
      /\ Cardinality(Units) = Cardinality(Units') => Units = Units'
  BY <1>3, UnitsFinite, FS_Subset
<1> QED BY <1>4, <1>5, UnitsFinite

\* A worker that takes an item has at most a whole span of steps.
LEMMA UnitsOfGet ==
  ASSUME TypeOK, NEW w \in Workers, NEW p, worker' = [worker EXCEPT ![w] = p]
  PROVE  Cardinality(Units') <= Cardinality(Units) + MaxAttempts + 3
<1>1. worker \in [Workers -> Place]
  BY WorkersTyped
<1>2. IsFiniteSet({w} \X Span) /\ Cardinality({w} \X Span) = MaxAttempts + 3
  <2>1. IsFiniteSet({w}) /\ Cardinality({w}) = 1
    BY FS_Singleton
  <2>2. IsFiniteSet({w} \X Span) /\ Cardinality({w} \X Span) = 1 * Cardinality(Span)
    BY <2>1, SpanSize, FS_Product
  <2> QED BY <2>2, SpanSize, ConstantsTyped
<1>3. Units' \subseteq Units \union ({w} \X Span)
  <2> SUFFICES ASSUME NEW v \in Workers, NEW n \in Span, n <= Steps(worker'[v]), v # w
               PROVE  n <= Steps(worker[v])
    BY DEF Units
  <2> QED BY <1>1
<1>4. /\ IsFiniteSet(Units \union ({w} \X Span))
      /\ Cardinality(Units \union ({w} \X Span))
           = Cardinality(Units) + Cardinality({w} \X Span) - Cardinality(Units \intersect ({w} \X Span))
  BY <1>2, UnitsFinite, FS_Union
<1>5. Cardinality(Units \intersect ({w} \X Span)) \in Nat
  <2>1. Units \intersect ({w} \X Span) \subseteq Units
    OBVIOUS
  <2> QED BY <2>1, UnitsFinite, FS_Subset, FS_CardinalityType
<1>6. Cardinality(Units') <= Cardinality(Units \union ({w} \X Span))
  BY <1>3, <1>4, FS_Subset
<1>7. Cardinality(Units \union ({w} \X Span)) \in Nat
  BY <1>4, FS_CardinalityType
<1> QED BY <1>2, <1>4, <1>5, <1>6, <1>7, UnitsFinite, ConstantsTyped

LEMMA WorkRunsDown ==
  ASSUME TypeOK, TypeOK', NEW w \in Workers, WorkersStep(w)
  PROVE  StepsLeft' < StepsLeft
<1>1. worker \in [Workers -> Place] /\ UNCHANGED <<toPut, queue>>
  BY WorkersTyped, WorkStep DEF WorkersStep
<1>2. worker[w] \in Place /\ MaxAttempts \in Nat \ {0}
  BY <1>1, ConstantsTyped
<1>3. /\ worker' = [worker EXCEPT ![w] = worker'[w]]
      /\ Steps(worker'[w]) < Steps(worker[w])
  <2>1. ASSUME NEW ok, Settle(w, ok), worker[w].at \in {"work", "save", "net"}
        PROVE  /\ worker' = [worker EXCEPT ![w] = worker'[w]]
               /\ Steps(worker'[w]) < Steps(worker[w])
    <3>1. worker'[w] = AtGet /\ worker' = [worker EXCEPT ![w] = worker'[w]]
      BY <1>1, <2>1 DEF Settle
    <3>2. Steps(AtGet) = 0
      BY DEF Steps, AtGet
    <3>3. Steps(worker[w]) > 0
      BY <1>2, <2>1 DEF Steps, Place
    <3> QED BY <3>1, <3>2, <3>3
  <2>2. CASE AttemptFails(w)
    <3>1. CASE worker[w].attempt < MaxAttempts /\ worker' = [worker EXCEPT ![w].attempt = @ + 1]
      <4>1. worker[w].at = "work" /\ worker'[w].at = "work"
            /\ worker'[w].attempt = worker[w].attempt + 1
            /\ worker' = [worker EXCEPT ![w] = worker'[w]]
        BY <1>1, <1>2, <2>2, <3>1 DEF AttemptFails, Place
      <4>2. worker[w].attempt \in Nat
        BY <1>2 DEF Place
      <4> QED BY <1>2, <4>1, <4>2 DEF Steps
    <3>2. CASE Settle(w, FALSE)
      BY <2>1, <2>2, <3>2 DEF AttemptFails
    <3> QED BY <2>2, <3>1, <3>2 DEF AttemptFails
  <2>3. CASE WorkDone(w)
    <3>1. /\ worker[w].at = "work" /\ worker'[w].at = "save"
          /\ worker' = [worker EXCEPT ![w] = worker'[w]]
      BY <1>1, <1>2, <2>3 DEF WorkDone, Place
    <3>2. Steps(worker'[w]) = 2 /\ Steps(worker[w]) = MaxAttempts - worker[w].attempt + 3
      BY <3>1 DEF Steps
    <3> QED BY <1>2, <3>1, <3>2 DEF Place
  <2>4. CASE SaveSuccess(w)
    <3>1. CASE worker' = [worker EXCEPT ![w].at = "net"]
      <4>1. /\ worker[w].at = "save" /\ worker'[w].at = "net"
            /\ worker' = [worker EXCEPT ![w] = worker'[w]]
        BY <1>1, <1>2, <2>4, <3>1 DEF SaveSuccess, Place
      <4> QED BY <4>1 DEF Steps
    <3>2. CASE Settle(w, TRUE)
      BY <2>1, <2>4, <3>2 DEF SaveSuccess
    <3> QED BY <2>4, <3>1, <3>2 DEF SaveSuccess
  <2>5. CASE SafetyNet(w)
    <3>1. CASE worker' = [worker EXCEPT ![w].at = "dead"]
      <4>1. /\ worker[w].at = "net" /\ worker'[w].at = "dead"
            /\ worker' = [worker EXCEPT ![w] = worker'[w]]
        BY <1>1, <1>2, <2>5, <3>1 DEF SafetyNet, Place
      <4> QED BY <4>1 DEF Steps
    <3>2. CASE Settle(w, FALSE)
      BY <2>1, <2>5, <3>2 DEF SafetyNet
    <3> QED BY <2>5, <3>1, <3>2 DEF SafetyNet
  <2> QED BY <2>2, <2>3, <2>4, <2>5 DEF WorkersStep
<1>4. Cardinality(Units') < Cardinality(Units)
  BY <1>3, UnitsFall
<1>5. (MaxAttempts + 5) * Len(toPut) + (MaxAttempts + 4) * Len(queue) \in Nat
  BY LineTyped, ConstantsTyped
<1> QED BY <1>1, <1>4, <1>5, UnitsFinite DEF StepsLeft

LEMMA PutRunsDown ==
  ASSUME TypeOK, Put
  PROVE  StepsLeft' < StepsLeft
<1>1. Len(queue') = Len(queue) + 1 /\ Line' = Line
  BY PutKeepsLine
<1>2. Len(toPut') = Len(toPut) - 1
  <2>1. toPut \in Seq(Videos \union {None}) /\ toPut # <<>> /\ toPut' = Tail(toPut)
    BY DEF TypeOK, Put
  <2> QED BY <2>1, HeadTailProperties
<1>3. Units' = Units
  BY DEF Put, Units
<1>4. \A a, m, q \in Int : (a + 5) * (m - 1) + (a + 4) * (q + 1) = (a + 5) * m + (a + 4) * q - 1
  OBVIOUS
<1>5. Len(queue) \in Nat /\ Len(toPut) \in Nat /\ MaxAttempts \in Nat
  BY LineTyped, ConstantsTyped
<1>6. (MaxAttempts + 5) * Len(toPut) + (MaxAttempts + 4) * Len(queue) \in Int
  BY <1>5
<1> QED BY <1>1, <1>2, <1>3, <1>4, <1>5, <1>6, UnitsFinite DEF StepsLeft

LEMMA GetRunsDown ==
  ASSUME TypeOK, NEW w \in Workers, Get(w)
  PROVE  StepsLeft' < StepsLeft
<1>1. Len(queue') = Len(queue) - 1 /\ toPut' = toPut
  <2>1. queue \in Seq(Videos \union {None}) /\ queue # <<>> /\ queue' = Tail(queue)
        /\ toPut' = toPut
    BY DEF TypeOK, Get
  <2> QED BY <2>1, HeadTailProperties
<1>2. Cardinality(Units') <= Cardinality(Units) + MaxAttempts + 3
  BY UnitsOfGet DEF Get
<1>3. \A a, m, q \in Int : (a + 5) * m + (a + 4) * (q - 1) = (a + 5) * m + (a + 4) * q - (a + 4)
  OBVIOUS
<1>4. Len(queue) \in Nat /\ Len(toPut) \in Nat /\ MaxAttempts \in Nat
  BY LineTyped, ConstantsTyped
<1>5. (MaxAttempts + 5) * Len(toPut) + (MaxAttempts + 4) * Len(queue) \in Int
  BY <1>4
<1> QED BY <1>1, <1>2, <1>3, <1>4, <1>5, UnitsFinite DEF StepsLeft

\* Every step of a live pool brings its end nearer: the producer puts each entry once, a
\* worker retries an item at most max_retries times, and nothing is put back in the queue
\* (run_item_workers, _process_audio_item).
THEOREM PoolRunsDownHolds == Spec => PoolRunsDown
<1> DEFINE Falls == Live /\ Live' => StepsLeft' < StepsLeft
<1>1. TypeOK /\ TypeOK' /\ [Next]_vars => [Falls]_pool
  <2> SUFFICES ASSUME TypeOK, TypeOK', [Next]_vars, Live, Live', ~UNCHANGED pool
               PROVE  StepsLeft' < StepsLeft
    OBVIOUS
  <2>1. ~UNCHANGED vars
    BY DEF vars
  <2>2. Next
    BY <2>1
  <2>3. CASE (\E o \in Options : Start(o)) \/ DryRun \/ Finish \/ Exit \/ Crash
    BY <2>3 DEF Start, DryRun, Finish, Exit, Crash, To, Live
  <2>4. CASE RunOnly
    BY <2>4, RunOnlyType
  <2>5. CASE Discover
    BY <2>5 DEF Discover, Live
  <2> QED BY <2>2, <2>3, <2>4, <2>5, PutRunsDown, GetRunsDown, WorkRunsDown, NextCases
<1> HIDE DEF Falls
<1>2. Spec => [][Falls]_pool
  <2>1. Spec => []TypeOK /\ [][Next]_vars
    BY TypeCorrect, PTL DEF Spec
  <2>2. []TypeOK /\ [][Next]_vars => [][Falls]_pool
    BY <1>1, PTL
  <2> QED BY <2>1, <2>2, PTL
<1> QED BY <1>2 DEF Falls, PoolRunsDown
=============================================================================
