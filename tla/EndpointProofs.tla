--------------------------- MODULE EndpointProofs ---------------------------
(***************************************************************************)
(* Proofs about EndpointFetch: types, what a merge of pages keeps, the     *)
(* cursor that never runs ahead of the pages, that SUCCESS means a         *)
(* complete listing, what a run may forget, the refinement of EndpointJob, *)
(* and that a run comes to an end. For any strategies, page sizes, number  *)
(* of items, deletions and retries.                                        *)
(***************************************************************************)
EXTENDS EndpointFetch, FiniteSetTheorems, SequenceTheorems, SetInduction

------------------------------------------------------------------------------
(* Folding pages: what _merge_incremental_pages returns.                     *)

\* One turn of the loop, the equation its fold satisfies, and the ids so far.
Kept(merged, p) ==
  IF p.ids # {} /\ p.ids \subseteq PagesIds(merged) THEN merged ELSE Append(merged, p)

Merges(g, s, S) ==
  g = [t \in SUBSET S |-> IF t = {} THEN <<>> ELSE Kept(g[t \ {Max(t)}], s[Max(t)])]

LEMMA MaxOfInterval ==
  ASSUME NEW k \in Nat, NEW t \in SUBSET (1..k), k \in t
  PROVE  Max(t) = k
<1>1. \E x \in t : \A y \in t : x >= y
  OBVIOUS
<1> DEFINE m == Max(t)
<1>2. m \in t /\ \A y \in t : m >= y
  BY <1>1, Zenon DEF Max
<1> HIDE DEF m
<1>3. m \in 1..k /\ m >= k
  BY <1>2
<1>4. m = k
  BY <1>3
<1> QED BY <1>4 DEF m

\* The fold is defined on every set of positions.
LEMMA MergesExists ==
  ASSUME NEW s, NEW n \in Nat
  PROVE  \E g : Merges(g, s, 1..n)
<1> DEFINE P == {k \in Nat : \E g : Merges(g, s, 1..k)}
<1>1. 0 \in P
  <2> DEFINE g == [t \in SUBSET (1..0) |-> <<>>]
  <2>1. \A t \in SUBSET (1..0) : t = {}
    OBVIOUS
  <2>2. Merges(g, s, 1..0)
    BY <2>1 DEF Merges
  <2> QED BY <2>2
<1>2. ASSUME NEW k \in Nat, k \in P PROVE k + 1 \in P
  <2>1. PICK g : Merges(g, s, 1..k)
    BY <1>2
  <2> DEFINE h == [t \in SUBSET (1..(k + 1)) |->
                     IF k + 1 \in t THEN Kept(g[t \ {k + 1}], s[k + 1]) ELSE g[t]]
  <2>2. ASSUME NEW t \in SUBSET (1..(k + 1))
        PROVE  h[t] = IF t = {} THEN <<>> ELSE Kept(h[t \ {Max(t)}], s[Max(t)])
    <3>1. CASE k + 1 \in t
      <4>1. Max(t) = k + 1
        BY <3>1, MaxOfInterval
      <4>2. h[t \ {k + 1}] = g[t \ {k + 1}]
        OBVIOUS
      <4> QED BY <3>1, <4>1, <4>2
    <3>2. CASE k + 1 \notin t
      <4>1. t \in SUBSET (1..k) /\ h[t] = g[t] /\ h[t \ {Max(t)}] = g[t \ {Max(t)}]
        BY <3>2
      <4> QED BY <2>1, <4>1 DEF Merges
    <3> QED BY <3>1, <3>2
  <2>3. Merges(h, s, 1..(k + 1))
    <3> HIDE DEF h
    <3>1. h = [t \in SUBSET (1..(k + 1)) |-> h[t]]
      BY DEF h
    <3> QED BY <2>2, <3>1 DEF Merges
  <2> QED BY <2>3
<1> HIDE DEF P
<1>3. Nat \subseteq P
  BY <1>1, <1>2, NatBySuccessor
<1> QED BY <1>3 DEF P

LEMMA NoPages == <<>> \in Seq(Page) /\ PagesIds(<<>>) = {}
<1>1. DOMAIN <<>> = {}
  OBVIOUS
<1> QED BY <1>1 DEF PagesIds

LEMMA IdsOfAppend ==
  ASSUME NEW pages \in Seq(Page), NEW p \in Page
  PROVE  Append(pages, p) \in Seq(Page) /\ PagesIds(Append(pages, p)) = PagesIds(pages) \union p.ids
BY AppendProperties DEF PagesIds

LEMMA IdsOfConcat ==
  ASSUME NEW a \in Seq(Page), NEW b \in Seq(Page)
  PROVE  a \o b \in Seq(Page) /\ PagesIds(a \o b) = PagesIds(a) \union PagesIds(b)
<1> DEFINE c == a \o b
<1>1. /\ c \in Seq(Page) /\ Len(c) = Len(a) + Len(b)
      /\ \A k \in 1..Len(a) : c[k] = a[k]
      /\ \A k \in 1..Len(b) : c[Len(a) + k] = b[k]
      /\ \A k \in (Len(a) + 1)..(Len(a) + Len(b)) : k - Len(a) \in 1..Len(b) /\ c[k] = b[k - Len(a)]
  BY ConcatProperties, LenProperties
<1>2. /\ Len(a) \in Nat /\ Len(b) \in Nat
      /\ DOMAIN a = 1..Len(a) /\ DOMAIN b = 1..Len(b) /\ DOMAIN c = 1..(Len(a) + Len(b))
  BY <1>1, LenProperties
<1> HIDE DEF c
<1>3. PagesIds(a) \subseteq PagesIds(c)
  BY <1>1, <1>2 DEF PagesIds
<1>4. PagesIds(b) \subseteq PagesIds(c)
  <2> SUFFICES ASSUME NEW k \in 1..Len(b) PROVE b[k].ids \subseteq PagesIds(c)
    BY <1>2 DEF PagesIds
  <2>1. Len(a) + k \in DOMAIN c /\ c[Len(a) + k] = b[k]
    BY <1>1, <1>2
  <2> QED BY <2>1 DEF PagesIds
<1>5. PagesIds(c) \subseteq PagesIds(a) \union PagesIds(b)
  <2> SUFFICES ASSUME NEW k \in 1..(Len(a) + Len(b))
               PROVE  c[k].ids \subseteq PagesIds(a) \union PagesIds(b)
    BY <1>2 DEF PagesIds
  <2>1. CASE k <= Len(a)
    BY <1>1, <1>2, <2>1 DEF PagesIds
  <2>2. CASE k > Len(a)
    <3>1. k - Len(a) \in DOMAIN b /\ c[k] = b[k - Len(a)]
      BY <1>1, <1>2, <2>2
    <3> QED BY <3>1 DEF PagesIds
  <2> QED BY <1>2, <2>1, <2>2
<1> QED BY <1>1, <1>3, <1>4, <1>5 DEF c

\* A turn keeps a sequence of pages and loses no id.
LEMMA KeptKeeps ==
  ASSUME NEW merged \in Seq(Page), NEW p \in Page
  PROVE  Kept(merged, p) \in Seq(Page) /\ PagesIds(Kept(merged, p)) = PagesIds(merged) \union p.ids
BY IdsOfAppend DEF Kept

\* Merging keeps every id of the fresh and of the stored pages and invents none.
LEMMA MergeKeepsIds ==
  ASSUME NEW fresh \in Seq(Page), NEW stored \in Seq(Page)
  PROVE  /\ MergeIncremental(fresh, stored) \in Seq(Page)
         /\ PagesIds(MergeIncremental(fresh, stored)) = PagesIds(fresh) \union PagesIds(stored)
<1> DEFINE s == fresh \o stored
           n == Len(s)
           F == CHOOSE g : g = [t \in SUBSET (DOMAIN s) |->
                                  IF t = {} THEN <<>> ELSE Kept(g[t \ {Max(t)}], s[Max(t)])]
<1>1. MergeIncremental(fresh, stored) = F[DOMAIN s]
  BY Zenon DEF MergeIncremental, FoldLeft, MapThenFoldSet, Kept
<1>2. s \in Seq(Page) /\ n \in Nat /\ DOMAIN s = 1..n /\ \A k \in 1..n : s[k] \in Page
  BY IdsOfConcat, LenProperties
<1>3. Merges(F, s, 1..n)
  <2>1. \E g : Merges(g, s, DOMAIN s)
    BY <1>2, MergesExists
  <2>2. Merges(F, s, DOMAIN s)
    BY <2>1 DEF Merges
  <2> HIDE DEF F, s
  <2> QED BY <1>2, <2>2
<1> HIDE DEF F, s, n
<1> DEFINE Ids(k) == UNION {s[j].ids : j \in 1..k}
           P == {k \in Nat : k <= n => F[1..k] \in Seq(Page) /\ PagesIds(F[1..k]) = Ids(k)}
<1>4. 0 \in P
  <2>1. 1..0 = {} /\ F[{}] = <<>>
    BY <1>2, <1>3 DEF Merges
  <2>2. F[1..0] \in Seq(Page) /\ PagesIds(F[1..0]) = {}
    BY <2>1, NoPages
  <2>3. Ids(0) = {}
    BY <2>1
  <2> QED BY <2>2, <2>3
<1>5. ASSUME NEW k \in Nat, k \in P PROVE k + 1 \in P
  <2> SUFFICES ASSUME k + 1 <= n
               PROVE  F[1..(k + 1)] \in Seq(Page) /\ PagesIds(F[1..(k + 1)]) = Ids(k + 1)
    OBVIOUS
  <2>1. 1..(k + 1) \in SUBSET (1..n) /\ k + 1 \in 1..(k + 1) /\ (1..(k + 1)) \ {k + 1} = 1..k
    BY <1>2
  <2>2. Max(1..(k + 1)) = k + 1
    BY <2>1, MaxOfInterval
  <2>3. F[1..(k + 1)] = Kept(F[1..k], s[k + 1])
    <3> HIDE DEF P, Ids
    <3> QED BY <1>3, <2>1, <2>2 DEF Merges
  <2>4. Ids(k + 1) = Ids(k) \union s[k + 1].ids
    OBVIOUS
  <2>5. F[1..k] \in Seq(Page) /\ PagesIds(F[1..k]) = Ids(k) /\ s[k + 1] \in Page
    BY <1>2, <1>5
  <2> HIDE DEF Ids
  <2> QED BY <2>3, <2>4, <2>5, KeptKeeps
<1>6. n \in P
  <2> HIDE DEF P
  <2> QED BY <1>2, <1>4, <1>5, NatBySuccessor
<1>7. Ids(n) = PagesIds(s)
  BY <1>2 DEF PagesIds
<1>8. PagesIds(s) = PagesIds(fresh) \union PagesIds(stored)
  BY IdsOfConcat DEF s
<1> QED BY <1>1, <1>2, <1>6, <1>7, <1>8

------------------------------------------------------------------------------
(* The remote listing and its requests.                                      *)

LEMMA EnvTyped ==
  ASSUME TypeOK
  PROVE  /\ pageSize \in Nat \ {0} /\ MaxItems \in Nat /\ MaxDeletes \in Nat /\ MaxRetries \in Nat
         /\ remote \subseteq Item /\ baseline \subseteq Item /\ Item \subseteq Nat
         /\ newest \in 0..MaxItems /\ deletes \in 0..MaxDeletes
BY EndpointAssumption DEF TypeOK, Item

LEMMA RunTyped ==
  ASSUME TypeOK
  PROVE  /\ run \in Run /\ run.mode \in Modes \union {"none"} /\ run.scan \in BOOLEAN
         /\ run.old \in Seq(Page) /\ run.pages \in Seq(Page) /\ run.seen \subseteq Nat
         /\ run.req \in Nat /\ run.known \subseteq Item /\ run.attempt \in 0..(MaxRetries + 1)
         /\ run.pc \in {"idle", "fetch", "safety", "exhaust", "store", "mark"}
BY DEF TypeOK, Run

LEMMA ItemSets ==
  ASSUME NEW S \in SUBSET Item
  PROVE  IsFiniteSet(S) /\ Cardinality(S) \in 0..MaxItems
<1>1. IsFiniteSet(1..MaxItems) /\ Cardinality(1..MaxItems) = MaxItems
  BY FS_Interval, EndpointAssumption
<1>2. IsFiniteSet(S) /\ Cardinality(S) <= MaxItems
  BY <1>1, FS_Subset DEF Item
<1> QED BY <1>2, FS_CardinalityType, EndpointAssumption

\* A larger listing has no smaller count.
LEMMA ItemSetsMonotone ==
  ASSUME NEW S \in SUBSET Item, NEW T \in SUBSET S
  PROVE  Cardinality(T) <= Cardinality(S)
BY ItemSets, FS_Subset

LEMMA OldestIs ==
  ASSUME NEW S \in SUBSET Nat, S # {}
  PROVE  Oldest(S) \in S /\ \A j \in S : Oldest(S) <= j
<1>1. \E i \in S : \A j \in S : i <= j
  BY NatLeast
<1> QED BY <1>1 DEF Oldest

LEMMA ReplyIsPage ==
  ASSUME TypeOK, NEW req \in Nat
  PROVE  ReplyIds(req) \subseteq remote /\ ReplyIds(req) \subseteq Item /\ Reply(req) \in Page
<1>1. ReplyIds(req) \subseteq remote /\ remote \subseteq Item
  BY DEF ReplyIds, TypeOK
<1>2. Cardinality(remote) \in 0..MaxItems
  BY <1>1, ItemSets
<1>3. IsLastPage(req) \in BOOLEAN
  BY DEF IsLastPage
<1>4. (IF strategy = "cursor" THEN 0 ELSE Cardinality(remote)) \in 0..MaxItems
  BY <1>2, EndpointAssumption
<1>5. Reply(req) \in Page
  BY <1>1, <1>3, <1>4, Zenon DEF Reply, Page, Item
<1> QED BY <1>1, <1>5

\* A reply that announces more by a token has ids, the oldest of which is the token.
LEMMA TokenGoesOn ==
  ASSUME TypeOK, NEW req \in Nat, strategy = "cursor", ~IsLastPage(req)
  PROVE  /\ NextRequest(req) \in ReplyIds(req) /\ NextRequest(req) < req
         /\ \A j \in ReplyIds(req) : NextRequest(req) <= j
<1> DEFINE older == {i \in remote : i < req}
<1>1. older # {}
  BY DEF IsLastPage
<1>2. older \subseteq Item /\ older \subseteq Nat /\ \A y \in older : y <= MaxItems
  BY EnvTyped DEF Item
<1>3. PICK m \in older : \A y \in older : y <= m
  BY <1>1, <1>2, NatGreatest, EndpointAssumption
<1>4. {j \in older : j >= m} = {m}
  BY <1>2, <1>3
<1>5. Cardinality({j \in older : j >= m}) = 1
  BY <1>4, FS_Singleton
<1>6. m \in ReplyIds(req)
  BY <1>5, EnvTyped DEF ReplyIds
<1>7. ReplyIds(req) \subseteq older
  BY DEF ReplyIds
<1>8. /\ Oldest(ReplyIds(req)) \in ReplyIds(req)
      /\ \A j \in ReplyIds(req) : Oldest(ReplyIds(req)) <= j
  BY <1>2, <1>6, <1>7, OldestIs
<1> QED BY <1>7, <1>8 DEF NextRequest

LEMMA NextRequestType ==
  ASSUME TypeOK, NEW req \in Nat, ~IsLastPage(req)
  PROVE  NextRequest(req) \in Nat
<1>1. CASE strategy = "cursor"
  BY <1>1, TokenGoesOn, ReplyIsPage DEF Item
<1>2. CASE strategy # "cursor"
  BY <1>2 DEF NextRequest
<1> QED BY <1>1, <1>2

LEMMA RankIs ==
  ASSUME TypeOK, NEW i \in remote
  PROVE  Rank(i) \in Nat /\ 1 <= Rank(i)
<1> DEFINE S == {j \in remote : j >= i}
<1>1. S \in SUBSET Item /\ i \in S /\ i \in Item
  BY EnvTyped
<1>2. {i} \subseteq S /\ Cardinality({i}) = 1
  BY <1>1, FS_Singleton
<1>3. Cardinality({i}) <= Cardinality(S)
  BY <1>1, <1>2, ItemSetsMonotone
<1>4. Cardinality(S) \in Nat
  BY <1>1, ItemSets
<1> QED BY <1>2, <1>3, <1>4 DEF Rank

------------------------------------------------------------------------------
(* Types.                                                                    *)

\* The arrival of a page, normal or with a looping token.
LEMMA ArrivalType ==
  ASSUME TypeOK, NEW page \in Page, NEW next \in Nat, PageArrived(page, next)
  PROVE  run' \in Run /\ payload' \in Seq(Page) /\ cursor' \in Nat
<1>1. /\ run \in Run /\ run.old \in Seq(Page) /\ run.pages \in Seq(Page) /\ run.seen \subseteq Nat
      /\ run.req \in Nat /\ run.known \subseteq Item /\ payload \in Seq(Page) /\ cursor \in Nat
  BY RunTyped DEF TypeOK
<1> DEFINE pages == Append(run.pages, page)
           seen  == run.seen \union {run.req}
           known == IF run.scan /\ ~BoundaryHit(page) THEN run.known \union page.ids ELSE run.known
           req   == IF page.last THEN run.req ELSE next
           pc    == CASE BoundaryHit(page) /\ ~page.last -> "safety"
                      [] ~BoundaryHit(page) /\ ~(page.last \/ next \in seen) -> "fetch"
                      [] OTHER -> "store"
<1>2. pages \in Seq(Page) /\ seen \subseteq Nat /\ known \subseteq Item /\ req \in Nat
  BY <1>1, IdsOfAppend DEF Page, Item
<1>3. pc \in {"safety", "fetch", "store"}
  OBVIOUS
<1>4. run' = [run EXCEPT !.pages = pages, !.seen = seen, !.known = known, !.attempt = 1,
                         !.req = req, !.pc = pc]
  BY DEF PageArrived
<1>5. CommitPage(pages, page, next)
  BY DEF PageArrived
<1> HIDE DEF pages, seen, known, req, pc
<1>6. run' \in Run
  <2>1. 1 \in 0..(MaxRetries + 1)
    BY EndpointAssumption
  <2> QED BY <1>1, <1>2, <1>3, <1>4, <2>1 DEF Run
<1>7. run.old \o pages \in Seq(Page)
  BY <1>1, <1>2, IdsOfConcat
<1>8. payload' \in Seq(Page) /\ cursor' \in Nat
  <2>1. CASE run.scan
    BY <1>1, <1>5, <2>1 DEF CommitPage
  <2>2. CASE ~run.scan
    <3>1. payload' = run.old \o pages /\ cursor' = IF page.last THEN NoCursor ELSE next
      BY <1>5, <2>2, Zenon DEF CommitPage
    <3> QED BY <1>7, <3>1 DEF NoCursor
  <2> QED BY <2>1, <2>2
<1> QED BY <1>6, <1>8

LEMMA FetchType ==
  ASSUME TypeOK, FetchPage \/ FetchPageGlitch
  PROVE  TypeOK'
<1>1. run.req \in Nat /\ run.seen \subseteq Nat
  BY DEF TypeOK, Run
<1>2. \E next \in Nat : PageArrived(Reply(run.req), next)
  <2>1. CASE FetchPage
    BY <1>1, <2>1, NextRequestType DEF FetchPage, NoCursor
  <2>2. CASE FetchPageGlitch
    BY <1>1, <2>2 DEF FetchPageGlitch
  <2> QED BY <2>1, <2>2
<1>3. run' \in Run /\ payload' \in Seq(Page) /\ cursor' \in Nat
  BY <1>1, <1>2, ReplyIsPage, ArrivalType
<1> QED BY <1>3 DEF FetchPage, FetchPageGlitch, TypeOK, env

LEMMA IdsAreItems ==
  ASSUME NEW pages \in Seq(Page)
  PROVE  PagesIds(pages) \subseteq Item
<1>1. \A k \in DOMAIN pages : pages[k] \in Page
  BY LenProperties
<1> QED BY <1>1 DEF PagesIds, Page, Item

LEMMA StartType ==
  ASSUME TypeOK, NEW mode \in Modes, Start(mode)
  PROVE  TypeOK'
<1>1. StoredIds \subseteq Item
  BY IdsAreItems DEF StoredIds, TypeOK
<1>2. run' \in Run
  <2> DEFINE scan == cursor = NoCursor /\ mode = "incremental" /\ payload # <<>> /\ HasIds
             req == IF cursor # NoCursor THEN cursor ELSE FirstRequest
             old == IF mode = "full" THEN <<>> ELSE payload
             known == IF scan THEN StoredIds ELSE {}
  <2>1. req \in Nat /\ old \in Seq(Page) /\ known \subseteq Item /\ 1 \in 0..(MaxRetries + 1)
    BY <1>1, NoPages, EndpointAssumption DEF TypeOK, FirstRequest
  <2>2. scan \in BOOLEAN
    OBVIOUS
  <2>3. run' = [pc |-> "fetch", mode |-> mode, scan |-> scan, req |-> req, old |-> old,
                pages |-> <<>>, seen |-> {}, known |-> known, attempt |-> 1]
    BY DEF Start
  <2> HIDE DEF scan, req, old, known
  <2> QED BY <2>1, <2>2, <2>3, NoPages DEF Run
<1>3. baseline' \subseteq Item /\ excused' \in BOOLEAN
  BY DEF Start, TypeOK, hist
<1> QED BY <1>2, <1>3 DEF Start, TypeOK, env, Status

\* Every other step of a run.
LEMMA RunStepType ==
  ASSUME TypeOK, \/ SafetyPage \/ FailPermanent \/ FailRetryable \/ FailLast \/ Exhaust
                 \/ FailUnrecorded \/ StoreResults \/ MarkSuccess \/ Crash
  PROVE  TypeOK'
<1>1. /\ run \in Run /\ run.old \in Seq(Page) /\ run.pages \in Seq(Page) /\ run.req \in Nat
      /\ run.attempt \in 0..(MaxRetries + 1)
  BY DEF TypeOK, Run
<1>2. Idle \in Run
  BY NoPages, EndpointAssumption DEF Idle, Run, NoCursor
<1>3. CASE SafetyPage
  <2>1. Append(run.pages, Reply(run.req)) \in Seq(Page)
    BY <1>1, ReplyIsPage, IdsOfAppend
  <2>2. run' \in Run
    BY <1>1, <1>3, <2>1 DEF SafetyPage, Run
  <2> QED BY <1>3, <2>2 DEF SafetyPage, TypeOK, env, db, hist
<1>4. CASE FailPermanent \/ Exhaust \/ FailUnrecorded \/ MarkSuccess \/ Crash
  BY <1>2, <1>4
     DEF FailPermanent, Exhaust, FailUnrecorded, MarkSuccess, Crash, TypeOK, env, db, hist, Status
<1>5. CASE FailRetryable \/ FailLast
  <2>1. run.attempt <= MaxRetries => run.attempt + 1 \in 0..(MaxRetries + 1)
    BY <1>1, EndpointAssumption
  <2>2. run' \in Run
    BY <1>1, <1>5, <2>1 DEF FailRetryable, FailLast, Run
  <2> QED BY <1>5, <2>2 DEF FailRetryable, FailLast, TypeOK, env, hist, Status
<1>6. CASE StoreResults
  <2>1. /\ MergeIncremental(run.pages, run.old) \in Seq(Page)
        /\ run.old \o run.pages \in Seq(Page)
    BY <1>1, MergeKeepsIds, IdsOfConcat
  <2>2. payload' \in Seq(Page)
    BY <1>1, <1>6, <2>1 DEF StoreResults
  <2>3. run' \in Run
    BY <1>1, <1>6 DEF StoreResults, Run
  <2> QED BY <1>6, <2>2, <2>3 DEF StoreResults, TypeOK, env, hist, NoCursor
<1> QED BY <1>3, <1>4, <1>5, <1>6

LEMMA ListingType ==
  ASSUME TypeOK, Upload \/ Delete
  PROVE  TypeOK'
<1>1. UNCHANGED <<strategy, pageSize, payload, cursor, status, run, baseline, excused>>
  BY DEF Upload, Delete, db, hist
<1>2. remote' \subseteq Item /\ newest' \in 0..MaxItems /\ deletes' \in 0..MaxDeletes
  BY EnvTyped DEF Upload, Delete, Item
<1> QED BY <1>1, <1>2 DEF TypeOK

LEMMA InitType == Init => TypeOK
<1> SUFFICES ASSUME Init PROVE TypeOK
  OBVIOUS
<1>1. run \in Run
  BY NoPages, EndpointAssumption DEF Init, Idle, Run, NoCursor
<1>2. remote \subseteq Item /\ newest \in 0..MaxItems
  BY EndpointAssumption DEF Init, Item
<1>3. deletes \in 0..MaxDeletes /\ payload \in Seq(Page) /\ status \in Status
  BY NoPages, EndpointAssumption DEF Init, Status
<1> QED BY <1>1, <1>2, <1>3 DEF Init, TypeOK, NoCursor

LEMMA NextType == TypeOK /\ [Next]_vars => TypeOK'
<1> SUFFICES ASSUME TypeOK, [Next]_vars PROVE TypeOK'
  OBVIOUS
<1>1. CASE UNCHANGED vars
  BY <1>1 DEF vars, env, db, hist, TypeOK
<1>2. CASE Next
  BY <1>2, StartType, FetchType, RunStepType, ListingType DEF Next, RunStep
<1> QED BY <1>1, <1>2

\* Pages, cursor and the coroutine's locals keep their types; in particular every request
\* is well formed and the merge returns pages (_run_endpoint_inner).
THEOREM TypeCorrect == Spec => []TypeOK
BY InitType, NextType, PTL DEF Spec

------------------------------------------------------------------------------
(* The inductive invariant.                                                  *)

\* What lies before a request: the ids of a listing that an answer to it follows.
PassedIn(S, req) ==
  IF strategy = "cursor" THEN {i \in S : i >= req}
  ELSE {i \in S : Rank(i) <= (req - 1) * pageSize}

PassedBy(req) == PassedIn(baseline, req)

\* While a run lasts its row is not final, and once the results are stored no cursor is.
RowOfRun ==
  /\ Running => status \in {"RUNNING", "FAILED_RETRYABLE"}
  /\ run.pc = "mark" => cursor = NoCursor
  /\ run.scan => run.mode = "incremental" /\ cursor = NoCursor
  /\ run.pc = "safety" => run.scan

\* What the store holds until a run that keeps old pages stores its results.
Buffers ==
  run.pc \in {"fetch", "safety", "exhaust", "store"} /\ run.mode # "full" =>
    payload = IF run.scan THEN run.old ELSE run.old \o run.pages

\* What a run without a scan has behind it is in its pages.
RunBehind ==
  deletes = 0 /\ ~excused /\ run.pc = "fetch" /\ ~run.scan =>
    PassedBy(run.req) \subseteq PagesIds(run.old) \union PagesIds(run.pages)

\* Until something is deleted, what was listed still is.
StillListed == deletes = 0 => baseline \subseteq remote

------------------------------------------------------------------------------
(* What a page's arrival does.                                               *)

\* A page is appended, committed unless the run scans, and the loop goes on only with a
\* request that was not made before.
LEMMA Arrives ==
  ASSUME TypeOK, NEW page \in Page, NEW next \in Nat, PageArrived(page, next)
  PROVE  /\ run'.mode = run.mode /\ run'.scan = run.scan /\ run'.old = run.old
         /\ run'.pages = Append(run.pages, page) /\ run'.seen = run.seen \union {run.req}
         /\ run'.known = IF run.scan /\ ~BoundaryHit(page) THEN run.known \union page.ids
                                                            ELSE run.known
         /\ run'.pc \in {"safety", "fetch", "store"}
         /\ run'.pc = "safety" => BoundaryHit(page) /\ ~page.last
         /\ run'.pc = "fetch" => /\ ~BoundaryHit(page) /\ ~page.last
                                 /\ next \notin run'.seen
         /\ run'.pc = "store" => page.last \/ next \in run'.seen
         /\ ~page.last => run'.req = next
         /\ run.scan => payload' = payload /\ cursor' = cursor
         /\ ~run.scan => /\ payload' = run.old \o run'.pages
                         /\ cursor' = IF page.last THEN NoCursor ELSE next
<1> DEFINE pages == Append(run.pages, page)
           seen  == run.seen \union {run.req}
           known == IF run.scan /\ ~BoundaryHit(page) THEN run.known \union page.ids ELSE run.known
           req   == IF page.last THEN run.req ELSE next
           pc    == CASE BoundaryHit(page) /\ ~page.last -> "safety"
                      [] ~BoundaryHit(page) /\ ~(page.last \/ next \in seen) -> "fetch"
                      [] OTHER -> "store"
<1>1. /\ pc \in {"safety", "fetch", "store"}
      /\ pc = "safety" => BoundaryHit(page) /\ ~page.last
      /\ pc = "fetch" => ~BoundaryHit(page) /\ ~page.last /\ next \notin seen
      /\ pc = "store" => page.last \/ next \in seen
      /\ ~page.last => req = next
  OBVIOUS
<1>2. run' = [run EXCEPT !.pages = pages, !.seen = seen, !.known = known, !.attempt = 1,
                         !.req = req, !.pc = pc]
  BY DEF PageArrived
<1>3. CommitPage(pages, page, next)
  BY DEF PageArrived
<1> HIDE DEF pages, seen, known, req, pc
<1>4. /\ run'.mode = run.mode /\ run'.scan = run.scan /\ run'.old = run.old
      /\ run'.pages = pages /\ run'.seen = seen /\ run'.known = known /\ run'.req = req
      /\ run'.pc = pc
  BY <1>2, RunTyped DEF Run
<1>5. /\ run.scan => payload' = payload /\ cursor' = cursor
      /\ ~run.scan => /\ payload' = run.old \o pages
                      /\ cursor' = IF page.last THEN NoCursor ELSE next
  BY <1>3 DEF CommitPage
<1> QED BY <1>1, <1>4, <1>5 DEF pages, seen, known

LEMMA FetchArrives ==
  ASSUME TypeOK, FetchPage \/ FetchPageGlitch
  PROVE  /\ run.pc = "fetch" /\ UNCHANGED <<env, status, baseline>>
         /\ Reply(run.req) \in Page
         /\ \E next \in Nat : PageArrived(Reply(run.req), next)
<1>1. run.req \in Nat /\ run.seen \subseteq Nat
  BY RunTyped
<1>2. CASE FetchPage
  BY <1>1, <1>2, NextRequestType, ReplyIsPage DEF FetchPage, NoCursor
<1>3. CASE FetchPageGlitch
  BY <1>1, <1>3, ReplyIsPage DEF FetchPageGlitch
<1> QED BY <1>2, <1>3

------------------------------------------------------------------------------
(* The row of a run.                                                         *)

RowInv == RowOfRun /\ SuccessClearsCursor

LEMMA InitRow == Init => RowInv
BY DEF Init, RowInv, RowOfRun, SuccessClearsCursor, Idle, Running

LEMMA NextRow == TypeOK /\ RowInv /\ [Next]_vars => RowInv'
<1> SUFFICES ASSUME TypeOK, RowInv, [Next]_vars PROVE RowInv'
  OBVIOUS
<1> USE DEF RowInv, RowOfRun, SuccessClearsCursor
<1>1. ASSUME NEW mode \in Modes, Start(mode) PROVE RowInv'
  BY <1>1 DEF Start, Running
<1>2. CASE FetchPage \/ FetchPageGlitch
  <2>1. PICK next \in Nat : PageArrived(Reply(run.req), next)
    BY <1>2, FetchArrives
  <2>2. Reply(run.req) \in Page /\ UNCHANGED status /\ run.pc = "fetch"
    BY <1>2, FetchArrives
  <2>3. BoundaryHit(Reply(run.req)) => run.scan
    BY DEF BoundaryHit
  <2>4. status' \in {"RUNNING", "FAILED_RETRYABLE"}
    BY <2>2 DEF Running
  <2>5. /\ run'.mode = run.mode /\ run'.scan = run.scan
        /\ run'.pc \in {"safety", "fetch", "store"} /\ (run'.pc = "safety" => run.scan)
        /\ run.scan => cursor' = cursor
    BY <2>1, <2>2, <2>3, Arrives
  <2> QED BY <2>4, <2>5
<1>3. CASE SafetyPage
  <2>1. run'.pc = "store" /\ run'.scan = run.scan /\ run'.mode = run.mode
    BY <1>3, RunTyped DEF SafetyPage, Run
  <2> QED BY <1>3, <2>1 DEF SafetyPage, db, Running
<1>4. CASE FailPermanent \/ Exhaust \/ FailUnrecorded \/ MarkSuccess \/ Crash
  BY <1>4 DEF FailPermanent, Exhaust, FailUnrecorded, MarkSuccess, Crash, Idle, Running, db
<1>5. CASE FailRetryable \/ FailLast
  <2>1. run'.pc \in {"fetch", "exhaust"} /\ run'.scan = run.scan /\ run'.mode = run.mode
    BY <1>5, RunTyped DEF FailRetryable, FailLast, Run
  <2> QED BY <1>5, <2>1 DEF FailRetryable, FailLast, Running
<1>6. CASE StoreResults
  <2>1. run'.pc = "mark" /\ run'.scan = run.scan /\ run'.mode = run.mode
    BY <1>6, RunTyped DEF StoreResults, Run
  <2> QED BY <1>6, <2>1 DEF StoreResults, Running
<1>7. CASE Upload \/ Delete \/ UNCHANGED vars
  <2>1. UNCHANGED <<cursor, status, run>>
    BY <1>7 DEF Upload, Delete, vars, db
  <2> QED BY <2>1 DEF Running
<1> QED BY <1>1, <1>2, <1>3, <1>4, <1>5, <1>6, <1>7 DEF Next, RunStep

\* SUCCESS leaves no cursor behind, after any retries, crashes and resumed runs.
THEOREM SuccessClearsCursorHolds == Spec => []SuccessClearsCursor
<1>1. RowInv => SuccessClearsCursor
  BY DEF RowInv
<1> QED BY <1>1, InitType, NextType, InitRow, NextRow, PTL DEF Spec

------------------------------------------------------------------------------
(* The pages a run keeps.                                                    *)

LEMMA InitBuffers == Init => Buffers
BY DEF Init, Buffers, Idle

LEMMA NextBuffers == TypeOK /\ RowInv /\ Buffers /\ [Next]_vars => Buffers'
<1> SUFFICES ASSUME TypeOK, RowInv, Buffers, [Next]_vars PROVE Buffers'
  OBVIOUS
<1>1. ASSUME NEW mode \in Modes, Start(mode) PROVE Buffers'
  <2>1. payload \in Seq(Page) /\ payload \o <<>> = payload
    BY ConcatEmptySeq DEF TypeOK
  <2>2. /\ run'.mode = mode /\ run'.pages = <<>> /\ payload' = payload
        /\ run'.old = IF mode = "full" THEN <<>> ELSE payload
    BY <1>1 DEF Start
  <2> QED BY <2>1, <2>2 DEF Buffers
<1>2. CASE FetchPage \/ FetchPageGlitch
  <2>1. PICK next \in Nat : PageArrived(Reply(run.req), next)
    BY <1>2, FetchArrives
  <2>2. Reply(run.req) \in Page /\ run.pc = "fetch"
    BY <1>2, FetchArrives
  <2> QED BY <2>1, <2>2, Arrives DEF Buffers
<1>3. CASE SafetyPage
  <2>1. run'.scan = run.scan /\ run'.mode = run.mode /\ run'.old = run.old
    BY <1>3, RunTyped DEF SafetyPage, Run
  <2>2. run.pc = "safety" /\ run.scan /\ payload' = payload
    BY <1>3 DEF SafetyPage, db, RowInv, RowOfRun
  <2> QED BY <2>1, <2>2 DEF Buffers
<1>4. CASE FailPermanent \/ Exhaust \/ FailUnrecorded \/ MarkSuccess \/ Crash
  BY <1>4 DEF FailPermanent, Exhaust, FailUnrecorded, MarkSuccess, Crash, Idle, Buffers
<1>5. CASE FailRetryable \/ FailLast
  <2>1. /\ run'.scan = run.scan /\ run'.mode = run.mode /\ run'.old = run.old
        /\ run'.pages = run.pages
    BY <1>5, RunTyped DEF FailRetryable, FailLast, Run
  <2> QED BY <1>5, <2>1 DEF FailRetryable, FailLast, Buffers
<1>6. CASE StoreResults
  <2>1. run'.pc = "mark"
    BY <1>6, RunTyped DEF StoreResults, Run
  <2> QED BY <2>1 DEF Buffers
<1>7. CASE Upload \/ Delete \/ UNCHANGED vars
  <2>1. UNCHANGED <<payload, run>>
    BY <1>7 DEF Upload, Delete, vars, db
  <2> QED BY <2>1 DEF Buffers
<1> QED BY <1>1, <1>2, <1>3, <1>4, <1>5, <1>6, <1>7 DEF Next, RunStep

\* Only a full run drops an id that was stored: a resumed run appends and a scan merges,
\* whatever pages the service answered.
THEOREM OnlyFullForgetsHolds == Spec => OnlyFullForgets
<1>1. TypeOK /\ RowInv /\ Buffers /\ [Next]_vars
        => [run.mode # "full" => StoredIds \subseteq StoredIds']_payload
  <2> SUFFICES ASSUME TypeOK, RowInv, Buffers, [Next]_vars, payload' # payload,
                      run.mode # "full"
               PROVE  PagesIds(payload) \subseteq PagesIds(payload')
    BY DEF StoredIds
  <2>1. run.old \in Seq(Page) /\ run.pages \in Seq(Page)
    BY RunTyped
  <2>2. CASE FetchPage \/ FetchPageGlitch
    <3>1. PICK next \in Nat : PageArrived(Reply(run.req), next)
      BY <2>2, FetchArrives
    <3>2. Reply(run.req) \in Page /\ run.pc = "fetch"
      BY <2>2, FetchArrives
    <3>3. ~run.scan /\ payload' = run.old \o Append(run.pages, Reply(run.req))
      BY <3>1, <3>2, Arrives
    <3>4. payload = run.old \o run.pages
      BY <3>2, <3>3 DEF Buffers
    <3>5. /\ Append(run.pages, Reply(run.req)) \in Seq(Page)
          /\ PagesIds(run.pages) \subseteq PagesIds(Append(run.pages, Reply(run.req)))
      BY <2>1, <3>2, IdsOfAppend
    <3> QED BY <2>1, <3>3, <3>4, <3>5, IdsOfConcat, ZenonT(60)
  <2>3. CASE StoreResults
    <3>1. run.pc = "store"
      BY <2>3 DEF StoreResults
    <3>2. CASE run.scan
      <4>1. payload' = MergeIncremental(run.pages, run.old) /\ payload = run.old
        BY <2>3, <3>1, <3>2 DEF StoreResults, Buffers
      <4> QED BY <2>1, <4>1, MergeKeepsIds
    <3>3. CASE ~run.scan
      <4>1. payload' = run.old \o run.pages /\ payload = run.old \o run.pages
        BY <2>3, <3>1, <3>3 DEF StoreResults, Buffers
      <4> QED BY <4>1
    <3> QED BY <3>2, <3>3
  <2>4. FetchPage \/ FetchPageGlitch \/ StoreResults
    BY DEF Next, RunStep, Start, SafetyPage, FailPermanent, FailRetryable, FailLast, Exhaust,
       FailUnrecorded, MarkSuccess, Crash, Upload, Delete, vars, db
  <2> QED BY <2>2, <2>3, <2>4
<1> QED BY <1>1, InitType, NextType, InitRow, NextRow, InitBuffers, NextBuffers, PTL
        DEF Spec, OnlyFullForgets

------------------------------------------------------------------------------
(* The cursor and the pages behind it.                                       *)

\* Nothing lies before the first request of a listing.
LEMMA NothingBeforeFirst ==
  ASSUME TypeOK, NEW S \in SUBSET remote
  PROVE  FirstRequest \in Nat /\ PassedIn(S, FirstRequest) = {}
<1>1. CASE strategy = "cursor"
  BY <1>1, EnvTyped DEF PassedIn, FirstRequest, Item
<1>2. CASE strategy # "cursor"
  <2>1. FirstRequest = 1 /\ (1 - 1) * pageSize = 0
    BY <1>2, EnvTyped DEF FirstRequest
  <2>2. \A i \in S : Rank(i) \in Nat /\ 1 <= Rank(i)
    BY RankIs
  <2> QED BY <1>2, <2>1, <2>2 DEF PassedIn
<1> QED BY <1>1, <1>2

\* A token listing's answer leaves out nothing between its request and the next.
LEMMA TokenCovers ==
  ASSUME TypeOK, strategy = "cursor", NEW req \in Nat, ~IsLastPage(req),
         NEW i \in remote, NextRequest(req) <= i, i < req
  PROVE  i \in ReplyIds(req)
<1> DEFINE next == NextRequest(req)
           older == {j \in remote : j < req}
<1>1. /\ next \in ReplyIds(req) /\ next < req /\ next \in remote
      /\ older \subseteq Item /\ Item \subseteq Nat
  BY TokenGoesOn, ReplyIsPage, EnvTyped
<1>2. Cardinality({j \in older : j >= next}) <= pageSize
  BY <1>1 DEF ReplyIds
<1>3. i \in older /\ i \in Nat /\ next \in Nat /\ i >= next
  BY <1>1
<1>4. /\ {j \in older : j >= i} \in SUBSET {j \in older : j >= next}
      /\ {j \in older : j >= next} \in SUBSET Item
  <2>1. \A j \in older : j \in Nat /\ (j >= i => j >= next)
    BY <1>1, <1>3
  <2> HIDE DEF older, next
  <2> QED BY <1>1, <2>1
<1>5. /\ Cardinality({j \in older : j >= i}) <= Cardinality({j \in older : j >= next})
      /\ Cardinality({j \in older : j >= i}) \in Nat
      /\ Cardinality({j \in older : j >= next}) \in Nat
  BY <1>4, ItemSets, ItemSetsMonotone
<1>6. Cardinality({j \in older : j >= i}) <= pageSize
  BY <1>2, <1>5, EnvTyped
<1> QED BY <1>3, <1>6 DEF ReplyIds

\* What lies before the next request lay before this one or is in its answer: numbered
\* pages are consecutive blocks of ranks, a token continues after its oldest id.
LEMMA AnswerCovers ==
  ASSUME TypeOK, baseline \subseteq remote, NEW req \in Nat, ~IsLastPage(req)
  PROVE  PassedBy(NextRequest(req)) \subseteq PassedBy(req) \union ReplyIds(req)
<1>1. CASE strategy = "cursor"
  <2>1. ASSUME NEW i \in baseline, i >= NextRequest(req), ~(i >= req) PROVE i \in ReplyIds(req)
    <3>1. i \in remote /\ i < req /\ NextRequest(req) <= i
      BY <2>1, NextRequestType, EnvTyped
    <3> QED BY <1>1, <3>1, TokenCovers
  <2> QED BY <1>1, <2>1 DEF PassedBy, PassedIn
<1>2. CASE strategy # "cursor"
  <2>1. NextRequest(req) = req + 1 /\ ((req + 1) - 1) * pageSize = req * pageSize
    BY <1>2, EnvTyped DEF NextRequest
  <2>2. (req - 1) * pageSize \in Int /\ req * pageSize \in Int
    BY EnvTyped
  <2>3. ASSUME NEW i \in baseline, Rank(i) <= req * pageSize, ~(Rank(i) <= (req - 1) * pageSize)
        PROVE  i \in ReplyIds(req)
    <3>1. i \in remote /\ Rank(i) \in Nat
      BY RankIs
    <3>2. (req - 1) * pageSize < Rank(i)
      BY <2>2, <2>3, <3>1
    <3> QED BY <1>2, <2>3, <3>1, <3>2 DEF ReplyIds
  <2> QED BY <1>2, <2>1, <2>3 DEF PassedBy, PassedIn
<1> QED BY <1>1, <1>2

BehindInv == StillListed /\ RunBehind /\ CursorBehindPages

LEMMA InitBehind == Init => BehindInv
BY DEF Init, BehindInv, StillListed, RunBehind, CursorBehindPages, Idle

LEMMA CursorPasses == Passed = PassedBy(cursor)
BY DEF Passed, PassedBy, PassedIn

LEMMA StartBehind ==
  ASSUME TypeOK, BehindInv, NEW mode \in Modes, Start(mode)
  PROVE  BehindInv'
<1>1. UNCHANGED <<strategy, pageSize, remote, deletes, payload, cursor>>
  BY DEF Start, env
<1>2. /\ run'.req = IF cursor # NoCursor THEN cursor ELSE FirstRequest
      /\ run'.old = IF mode = "full" THEN <<>> ELSE payload
      /\ run'.pages = <<>>
  BY DEF Start
<1>3. StillListed'
  BY <1>1 DEF Start, BehindInv, StillListed, hist
<1>4. CASE cursor = NoCursor \/ mode = "full"
  <2>1. cursor # NoCursor => excused'
    BY <1>4 DEF Start
  <2>2. PassedIn(remote, FirstRequest) = {}
    BY NothingBeforeFirst
  <2>3. PassedBy(FirstRequest)' = {} /\ FirstRequest' = FirstRequest
    BY <1>1, <1>4, <2>2 DEF Start, PassedBy, PassedIn, Rank, FirstRequest
  <2>4. RunBehind'
    BY <1>1, <1>2, <2>1, <2>3 DEF RunBehind, PassedBy, PassedIn
  <2>5. CursorBehindPages'
    BY <1>1, <2>1 DEF CursorBehindPages
  <2> QED BY <1>3, <2>4, <2>5 DEF BehindInv
<1>5. CASE cursor # NoCursor /\ mode # "full"
  <2>1. UNCHANGED <<baseline, excused>>
    BY <1>5 DEF Start, hist
  <2>2. CursorBehindPages'
    BY <1>1, <2>1 DEF BehindInv, CursorBehindPages, Passed, StoredIds, Rank
  <2>3. RunBehind'
    <3>1. deletes = 0 /\ ~excused => PassedBy(cursor) \subseteq PagesIds(payload)
      BY <1>5, CursorPasses DEF BehindInv, CursorBehindPages, StoredIds
    <3>2. PassedBy(cursor)' = PassedBy(cursor)
      BY <1>1, <2>1 DEF PassedBy, PassedIn, Rank
    <3> QED BY <1>1, <1>2, <1>5, <2>1, <3>1, <3>2 DEF RunBehind, PassedBy, PassedIn
  <2> QED BY <1>3, <2>2, <2>3 DEF BehindInv
<1> QED BY <1>4, <1>5

LEMMA FetchBehind ==
  ASSUME TypeOK, RowInv, BehindInv, FetchPage \/ FetchPageGlitch
  PROVE  BehindInv'
<1>1. /\ run.pc = "fetch" /\ UNCHANGED <<strategy, pageSize, remote, deletes, baseline>>
      /\ Reply(run.req) \in Page
      /\ run.req \in Nat /\ run.old \in Seq(Page) /\ run.pages \in Seq(Page)
  BY FetchArrives, RunTyped DEF env
<1>2. StillListed'
  BY <1>1 DEF BehindInv, StillListed
<1>3. CASE FetchPageGlitch
  BY <1>2, <1>3 DEF FetchPageGlitch, BehindInv, RunBehind, CursorBehindPages
<1>4. CASE FetchPage /\ run.scan
  <2>1. PICK next \in Nat : PageArrived(Reply(run.req), next)
    BY <1>4, FetchArrives
  <2>2. run'.scan /\ cursor' = NoCursor
    BY <1>1, <1>4, <2>1, Arrives DEF RowInv, RowOfRun
  <2> QED BY <1>2, <2>2 DEF BehindInv, RunBehind, CursorBehindPages
<1>5. CASE FetchPage /\ ~run.scan
  <2> DEFINE page == Reply(run.req)
             next == IF IsLastPage(run.req) THEN NoCursor ELSE NextRequest(run.req)
  <2>1. PageArrived(page, next) /\ next \in Nat /\ page.last = IsLastPage(run.req)
        /\ page.ids = ReplyIds(run.req)
    BY <1>1, <1>5, NextRequestType DEF FetchPage, Reply, NoCursor
  <2>2. /\ run'.old = run.old /\ run'.pages = Append(run.pages, page)
        /\ run'.pc = "fetch" => ~page.last /\ run'.req = next
        /\ payload' = run.old \o run'.pages
        /\ cursor' = IF page.last THEN NoCursor ELSE next
    BY <1>1, <1>5, <2>1, Arrives
  <2>3. /\ PagesIds(run'.pages) = PagesIds(run.pages) \union ReplyIds(run.req)
        /\ StoredIds' = PagesIds(run.old) \union PagesIds(run'.pages)
    <3>1. /\ Append(run.pages, page) \in Seq(Page)
          /\ PagesIds(Append(run.pages, page)) = PagesIds(run.pages) \union page.ids
      BY <1>1, IdsOfAppend
    <3>2. PagesIds(run.old \o Append(run.pages, page))
             = PagesIds(run.old) \union PagesIds(Append(run.pages, page))
      BY <1>1, <3>1, IdsOfConcat
    <3> HIDE DEF page, next
    <3> QED BY <2>1, <2>2, <3>1, <3>2 DEF StoredIds
  <2> HIDE DEF page, next
  <2>4. ASSUME deletes = 0, ~excused', ~page.last
        PROVE  PassedBy(next) \subseteq PagesIds(run.old) \union PagesIds(run'.pages)
    <3>1. baseline \subseteq remote
      BY <2>4 DEF BehindInv, StillListed
    <3>2. PassedBy(run.req) \subseteq PagesIds(run.old) \union PagesIds(run.pages)
      <4>1. CASE ~excused
        BY <1>1, <1>5, <2>4, <4>1 DEF BehindInv, RunBehind
      <4>2. CASE excused
        <5>1. run.req = FirstRequest
          BY <1>5, <2>4, <4>2 DEF FetchPage
        <5> QED BY <3>1, <5>1, NothingBeforeFirst DEF PassedBy
      <4> QED BY <4>1, <4>2
    <3>3. PassedBy(next) \subseteq PassedBy(run.req) \union ReplyIds(run.req)
      BY <1>1, <2>1, <2>4, <3>1, AnswerCovers DEF next
    <3> QED BY <2>3, <3>2, <3>3
  <2>5. \A req : PassedBy(req)' = PassedIn(baseline, req)
    BY <1>1 DEF PassedBy, PassedIn, Rank
  <2>6. RunBehind'
    BY <1>1, <2>2, <2>4, <2>5 DEF RunBehind, PassedBy
  <2>7. Passed' = PassedBy(cursor')
    BY <1>1 DEF Passed, PassedBy, PassedIn, Rank
  <2>8. CursorBehindPages'
    BY <1>1, <2>2, <2>3, <2>4, <2>7 DEF CursorBehindPages
  <2> QED BY <1>2, <2>6, <2>8 DEF BehindInv
<1> QED BY <1>3, <1>4, <1>5

\* An upload only pushes what is listed to higher ranks.
LEMMA PassedShrinks ==
  ASSUME TypeOK, UNCHANGED <<strategy, pageSize, baseline>>, remote \subseteq remote',
         remote' \subseteq Item
  PROVE  \A req \in Nat : PassedBy(req)' \subseteq PassedBy(req)
<1>1. \A i : Rank(i) \in Nat /\ Rank(i)' \in Nat /\ Rank(i) <= Rank(i)'
  <2> TAKE i
  <2>1. /\ {j \in remote : j >= i} \in SUBSET {j \in remote' : j >= i}
        /\ {j \in remote' : j >= i} \in SUBSET Item
    OBVIOUS
  <2> QED BY <2>1, ItemSets, ItemSetsMonotone DEF Rank
<1> TAKE req \in Nat
<1>2. (req - 1) * pageSize \in Int
  BY EnvTyped
<1> QED BY <1>1, <1>2 DEF PassedBy, PassedIn

\* After a deletion nothing is said.
LEMMA ListingBehind ==
  ASSUME TypeOK, BehindInv, Upload \/ Delete
  PROVE  BehindInv'
<1>1. UNCHANGED <<strategy, pageSize, payload, cursor, run, baseline, excused>>
  BY DEF Upload, Delete, db, hist
<1>2. CASE Delete
  <2>1. deletes' # 0
    BY <1>2, EnvTyped DEF Delete
  <2> QED BY <2>1 DEF BehindInv, StillListed, RunBehind, CursorBehindPages
<1>3. CASE Upload
  <2>1. remote \subseteq remote' /\ deletes' = deletes /\ remote' \subseteq Item
    BY <1>3, ListingType DEF Upload, TypeOK
  <2>2. StillListed'
    BY <1>1, <2>1 DEF BehindInv, StillListed
  <2>4. \A req \in Nat : PassedBy(req)' \subseteq PassedBy(req)
    BY <1>1, <2>1, PassedShrinks
  <2>5. run.req \in Nat /\ cursor \in Nat
    BY RunTyped DEF TypeOK
  <2>6. RunBehind'
    <3>1. PassedBy(run.req)' \subseteq PassedBy(run.req)
      BY <1>1, <2>4, <2>5
    <3> QED BY <1>1, <2>1, <3>1 DEF BehindInv, RunBehind
  <2>7. CursorBehindPages'
    <3>1. PassedBy(cursor)' \subseteq PassedBy(cursor)
      BY <1>1, <2>4, <2>5
    <3>2. Passed' = PassedBy(cursor)'
      BY DEF Passed, PassedBy, PassedIn
    <3> QED BY <1>1, <2>1, <3>1, <3>2, CursorPasses DEF BehindInv, CursorBehindPages, StoredIds
  <2> QED BY <2>2, <2>6, <2>7 DEF BehindInv
<1> QED BY <1>2, <1>3

LEMMA NextBehind == TypeOK /\ RowInv /\ BehindInv /\ [Next]_vars => BehindInv'
<1> SUFFICES ASSUME TypeOK, RowInv, BehindInv, [Next]_vars PROVE BehindInv'
  OBVIOUS
<1>1. CASE \E mode \in Modes : Start(mode)
  BY <1>1, StartBehind
<1>2. CASE FetchPage \/ FetchPageGlitch
  BY <1>2, FetchBehind
<1>3. CASE Upload \/ Delete
  BY <1>3, ListingBehind
<1>4. CASE UNCHANGED vars \/ SafetyPage \/ FailPermanent \/ Exhaust \/ FailUnrecorded
           \/ MarkSuccess \/ Crash \/ FailRetryable \/ FailLast \/ StoreResults
  <2>1. UNCHANGED <<strategy, pageSize, remote, deletes, baseline, excused>>
    BY <1>4 DEF vars, env, hist, SafetyPage, FailPermanent, Exhaust, FailUnrecorded, MarkSuccess,
       Crash, FailRetryable, FailLast, StoreResults
  <2>2. UNCHANGED <<payload, cursor>> \/ cursor' = NoCursor
    BY <1>4 DEF vars, db, SafetyPage, FailPermanent, Exhaust, FailUnrecorded, MarkSuccess,
       Crash, FailRetryable, FailLast, StoreResults
  <2>3. \/ run'.pc # "fetch"
        \/ /\ run'.pc = run.pc /\ run'.scan = run.scan /\ run'.req = run.req
           /\ run'.old = run.old /\ run'.pages = run.pages
    <3>1. CASE UNCHANGED vars
      BY <3>1 DEF vars
    <3>2. CASE SafetyPage \/ FailLast \/ StoreResults
      BY <3>2, RunTyped DEF SafetyPage, FailLast, StoreResults, Run
    <3>3. CASE FailPermanent \/ Exhaust \/ FailUnrecorded \/ MarkSuccess \/ Crash
      BY <3>3 DEF FailPermanent, Exhaust, FailUnrecorded, MarkSuccess, Crash, Idle
    <3>4. CASE FailRetryable
      BY <3>4, RunTyped DEF FailRetryable, Run
    <3> QED BY <1>4, <3>1, <3>2, <3>3, <3>4
  <2>4. StillListed'
    BY <2>1 DEF BehindInv, StillListed
  <2>5. \A req : PassedBy(req)' = PassedIn(baseline, req)
    BY <2>1 DEF PassedBy, PassedIn, Rank
  <2>6. RunBehind'
    BY <2>1, <2>3, <2>5 DEF BehindInv, RunBehind, PassedBy
  <2>7. CursorBehindPages'
    <3>1. cursor' = cursor => Passed' = Passed
      BY <2>1 DEF Passed, Rank
    <3> QED BY <2>1, <2>2, <3>1 DEF BehindInv, CursorBehindPages, StoredIds
  <2> QED BY <2>4, <2>6, <2>7 DEF BehindInv
<1> QED BY <1>1, <1>2, <1>3, <1>4 DEF Next, RunStep

\* A stored cursor never runs ahead of the stored pages, for any page size and listing,
\* whatever is uploaded, retried, crashed or resumed (save_raw_page_and_progress).
THEOREM CursorBehindPagesHolds == Spec => []CursorBehindPages
<1>1. BehindInv => CursorBehindPages
  BY DEF BehindInv
<1> QED BY <1>1, InitType, NextType, InitRow, NextRow, InitBehind, NextBehind, PTL DEF Spec

------------------------------------------------------------------------------
(* SUCCESS is complete: what a download that reaches its end has stored.     *)

Old == PagesIds(run.old)
Fetched == PagesIds(run.pages)

\* A set of ids has no hole in a listing, down to a request.
Dense(listed, S, req) == \A i \in S, j \in listed : req <= j /\ j < i => j \in S

\* Until something is deleted, everything seen is listed, and what is listed later is newer.
Listing ==
  /\ remote \subseteq 1..newest
  /\ deletes = 0 =>
       /\ StoredIds \subseteq remote /\ Old \subseteq remote /\ Fetched \subseteq remote
       /\ run.known \subseteq remote
       /\ \A b \in baseline, j \in remote : j < b => j \in baseline

\* Requests go on in one direction, so that only a looping token repeats one.
Requests ==
  run.pc = "fetch" =>
    /\ run.req # 0
    /\ \A s \in run.seen : IF strategy = "cursor" THEN run.req < s ELSE s < run.req

\* A scan knows what is stored and what it fetched; a full run keeps nothing.
Places ==
  /\ run.scan /\ run.pc \in {"fetch", "safety", "store"} =>
       run.known \subseteq Old \union Fetched /\ (deletes = 0 => Old \subseteq baseline)
  /\ run.mode = "full" => run.old = <<>>

Claim == deletes = 0 /\ ~excused

\* A scan holds what lies before its request, and of a token listing nothing else.
Scanned ==
  Claim /\ run.pc = "fetch" /\ run.scan =>
    /\ PassedBy(run.req) \subseteq Fetched
    /\ strategy = "cursor" =>
         Dense(remote, Fetched, run.req) /\ \A i \in Fetched : run.req <= i

\* A token listing is stored without a hole: down to the request of a run, down to a
\* stored cursor, and all the way when its last page says so.
NoHole ==
  Claim /\ strategy = "cursor" =>
    /\ run.pc = "fetch" /\ ~run.scan => Dense(remote, Old \union Fetched, run.req)
    /\ cursor # NoCursor => Dense(remote, StoredIds, cursor)
    /\ payload # <<>> /\ Last(payload).last => Dense(remote, StoredIds, 0)

\* The end of a run: all of it is there to be stored, then stored.
Ended ==
  Claim =>
    /\ run.pc \in {"safety", "store"} =>
         /\ baseline \subseteq Old \union Fetched
         /\ strategy = "cursor" => Dense(remote, Old \union Fetched, 0)
         /\ strategy = "cursor" /\ run.pc = "safety" => run.req \in Old \union Fetched
    /\ run.pc = "mark" \/ (status = "SUCCESS" /\ ~Running) => baseline \subseteq StoredIds

Found == Listing /\ Requests /\ Places

WholeInv == Scanned /\ NoHole /\ Ended

\* Ranks are consecutive: below a rank that is taken none is free.
LEMMA NextRank ==
  ASSUME TypeOK, NEW k \in Nat, NEW i \in remote, Rank(i) > k
  PROVE  \E m \in remote : Rank(m) = k + 1
<1>1. remote \subseteq Item /\ remote \subseteq Nat /\ MaxItems \in Nat /\ \A j \in remote : j <= MaxItems
  BY EnvTyped DEF Item
<1> DEFINE above == {j \in remote : Rank(j) > k}
<1>2. PICK m \in above : \A j \in above : j <= m
  <2>1. above # {} /\ above \in SUBSET Nat /\ \A j \in above : j <= MaxItems
    BY <1>1
  <2> HIDE DEF above
  <2> QED BY <1>1, <2>1, NatGreatest
<1> DEFINE S == {j \in remote : j >= m}
           T == {j \in remote : j > m}
<1>3. /\ m \in remote /\ Rank(m) > k /\ m \in Nat /\ m \in S /\ S \ {m} = T
      /\ S \in SUBSET Item /\ T \in SUBSET Item
  <2>1. m \in remote /\ Rank(m) > k /\ m \in Nat
    BY <1>1, <1>2
  <2>2. \A j \in remote : (j >= m <=> j > m \/ j = m) /\ ~(m > m)
    BY <1>1, <2>1
  <2>3. S \ {m} = T /\ m \in S
    BY <2>1, <2>2
  <2> QED BY <1>1, <2>1, <2>3
<1>4. Cardinality(T) = Cardinality(S) - 1
  <2>1. IsFiniteSet(S)
    BY <1>3, ItemSets
  <2>2. m \in S /\ S \ {m} = T
    BY <1>3
  <2> HIDE DEF S, T
  <2>3. Cardinality(S \ {m}) = IF m \in S THEN Cardinality(S) - 1 ELSE Cardinality(S)
    BY <2>1, FS_RemoveElement
  <2> QED BY <2>2, <2>3
<1>5. Cardinality(T) <= k
  <2>1. CASE T = {}
    BY <2>1, FS_EmptySet
  <2>2. CASE T # {}
    <3>1. T \in SUBSET Nat
      BY <1>1
    <3>2. PICK n \in T : \A j \in T : n <= j
      <4> HIDE DEF T
      <4> QED BY <2>2, <3>1, NatLeast
    <3>3. T = {j \in remote : j >= n}
      <4>1. n \in Nat /\ n > m /\ m \in Nat
        BY <1>1, <1>3, <3>2
      <4>2. \A j \in remote : j \in Nat /\ (j >= n => j > m) /\ (j > m => n <= j)
        BY <1>1, <3>2, <4>1
      <4> QED BY <4>1, <4>2
    <3>4. Rank(n) = Cardinality(T) /\ n \in remote /\ n > m
      BY <3>2, <3>3 DEF Rank
    <3>5. n \notin above
      BY <1>1, <1>2, <1>3, <3>4
    <3>6. ~(Rank(n) > k)
      BY <3>4, <3>5
    <3>7. Cardinality(T) \in Nat
      BY <1>3, ItemSets
    <3> QED BY <3>4, <3>6, <3>7
  <2> QED BY <2>1, <2>2
<1>6. Rank(m) = Cardinality(S) /\ Cardinality(S) \in Nat /\ Cardinality(T) \in Nat
  BY <1>3, ItemSets DEF Rank
<1> QED BY <1>3, <1>4, <1>5, <1>6

\* The last answer and what lies before its request are the whole listing.
LEMMA LastAnswerCovers ==
  ASSUME TypeOK, baseline \subseteq remote, NEW req \in Nat \ {0}, IsLastPage(req)
  PROVE  baseline \subseteq PassedBy(req) \union ReplyIds(req)
<1> SUFFICES ASSUME NEW i \in baseline, i \notin PassedBy(req) PROVE i \in ReplyIds(req)
  OBVIOUS
<1>1. CASE strategy = "cursor"
  BY <1>1, EnvTyped DEF PassedBy, PassedIn, IsLastPage
<1>2. CASE strategy # "cursor"
  <2>1. PICK before \in Nat : before = (req - 1) * pageSize
    BY EnvTyped
  <2>2. req * pageSize = before + pageSize /\ pageSize \in Nat \ {0}
    BY <2>1, EnvTyped
  <2>3. i \in remote /\ Rank(i) \in Nat /\ Rank(i) > before
    <3>1. i \in remote /\ Rank(i) \in Nat
      BY RankIs
    <3> QED BY <1>2, <2>1, <3>1 DEF PassedBy, PassedIn
  <2>4. CASE ReplyIds(req) = {}
    <3>1. PICK m \in remote : Rank(m) = before + 1
      BY <2>3, NextRank
    <3>2. m \in ReplyIds(req)
      BY <1>2, <2>1, <2>2, <3>1 DEF ReplyIds
    <3> QED BY <2>4, <3>2
  <2>5. CASE req * pageSize >= Cardinality(remote)
    <3>1. Rank(i) <= Cardinality(remote) /\ Cardinality(remote) \in Nat
      <4>1. {j \in remote : j >= i} \in SUBSET remote /\ remote \in SUBSET Item
        BY EnvTyped
      <4> QED BY <4>1, ItemSets, ItemSetsMonotone DEF Rank
    <3> QED BY <1>2, <2>1, <2>2, <2>3, <2>5, <3>1 DEF ReplyIds
  <2> QED BY <1>2, <2>4, <2>5 DEF IsLastPage
<1> QED BY <1>1, <1>2

\* An answer by a token closes the gap to the next token, the last one to the oldest item.
LEMMA DenseGrows ==
  ASSUME TypeOK, strategy = "cursor", NEW S \in SUBSET remote, NEW req \in Nat,
         Dense(remote, S, req)
  PROVE  /\ ~IsLastPage(req) => Dense(remote, S \union ReplyIds(req), NextRequest(req))
         /\ IsLastPage(req) => Dense(remote, S \union ReplyIds(req), 0)
<1>1. /\ remote \subseteq Nat /\ ReplyIds(req) \subseteq remote
      /\ \A i \in ReplyIds(req) : i < req
  BY EnvTyped, ReplyIsPage DEF ReplyIds
<1>2. ASSUME ~IsLastPage(req), NEW i \in S \union ReplyIds(req), NEW j \in remote,
             NextRequest(req) <= j, j < i
      PROVE  j \in S \union ReplyIds(req)
  <2>1. CASE j < req
    BY <1>2, <2>1, TokenCovers
  <2>2. CASE ~(j < req)
    <3>1. i \in S /\ req <= j
      BY <1>1, <1>2, <2>2
    <3> QED BY <1>2, <3>1 DEF Dense
  <2> QED BY <2>1, <2>2
<1>3. ASSUME IsLastPage(req), NEW i \in S \union ReplyIds(req), NEW j \in remote, j < i
      PROVE  j \in S \union ReplyIds(req)
  <2>1. CASE j < req
    BY <1>3, <2>1 DEF IsLastPage
  <2>2. CASE ~(j < req)
    <3>1. i \in S /\ req <= j
      BY <1>1, <1>3, <2>2
    <3> QED BY <1>3, <3>1 DEF Dense
  <2> QED BY <2>1, <2>2
<1> QED BY <1>2, <1>3 DEF Dense

\* Below the first token there is nothing to close.
LEMMA DenseAtFirst ==
  ASSUME TypeOK, strategy = "cursor", NEW S
  PROVE  Dense(remote, S, FirstRequest)
BY EnvTyped DEF Dense, FirstRequest, Item

LEMMA LastOfPages ==
  ASSUME NEW a \in Seq(Page), NEW b \in Seq(Page), NEW p \in Page
  PROVE  Last(a \o Append(b, p)) = p
<1>1. /\ Append(b, p) \in Seq(Page) /\ Len(Append(b, p)) = Len(b) + 1
      /\ Append(b, p)[Len(b) + 1] = p
  BY AppendProperties
<1>2. PICK c \in Seq(Page) : c = Append(b, p)
  BY <1>1
<1>3. /\ Len(a \o c) = Len(a) + Len(c)
      /\ \A k \in 1..Len(a) + Len(c) : (a \o c)[k] = IF k <= Len(a) THEN a[k] ELSE c[k - Len(a)]
  BY ConcatProperties
<1>4. Len(a) \in Nat /\ Len(b) \in Nat /\ Len(c) = Len(b) + 1 /\ c[Len(b) + 1] = p
  BY <1>1, <1>2, LenProperties
<1>5. /\ Len(a) + Len(c) \in 1..Len(a) + Len(c) /\ ~(Len(a) + Len(c) <= Len(a))
      /\ (Len(a) + Len(c)) - Len(a) = Len(b) + 1
  BY <1>4
<1>6. (a \o c)[Len(a) + Len(c)] = p
  BY <1>3, <1>4, <1>5
<1> QED BY <1>2, <1>3, <1>6 DEF Last

\* What a page's arrival does to the ids kept, fetched and stored.
LEMMA FetchPlaces ==
  ASSUME TypeOK, NEW next \in Nat, PageArrived(Reply(run.req), next)
  PROVE  /\ Old' = Old /\ Fetched' = Fetched \union ReplyIds(run.req)
         /\ StoredIds' = IF run.scan THEN StoredIds ELSE Old \union Fetched'
         /\ Reply(run.req).ids = ReplyIds(run.req)
<1>1. /\ Reply(run.req) \in Page /\ run.old \in Seq(Page) /\ run.pages \in Seq(Page)
      /\ run.req \in Nat
  BY RunTyped, ReplyIsPage
<1>2. PICK p \in Page : p = Reply(run.req) /\ p.ids = ReplyIds(run.req)
  BY <1>1 DEF Reply
<1>3. /\ run'.old = run.old /\ run'.pages = Append(run.pages, p)
      /\ run.scan => payload' = payload
      /\ ~run.scan => payload' = run.old \o run'.pages
  BY <1>2, Arrives
<1>4. /\ Append(run.pages, p) \in Seq(Page)
      /\ PagesIds(Append(run.pages, p)) = PagesIds(run.pages) \union p.ids
  BY <1>1, IdsOfAppend
<1>5. PagesIds(run.old \o Append(run.pages, p))
         = PagesIds(run.old) \union PagesIds(Append(run.pages, p))
  BY <1>1, <1>4, IdsOfConcat
<1>6. StoredIds' = PagesIds(payload') /\ Old' = PagesIds(run'.old) /\ Fetched' = PagesIds(run'.pages)
  BY DEF StoredIds, Old, Fetched
<1>7. CASE run.scan
  BY <1>2, <1>3, <1>4, <1>6, <1>7 DEF StoredIds, Old, Fetched
<1>8. CASE ~run.scan
  BY <1>2, <1>3, <1>4, <1>5, <1>6, <1>8 DEF Old, Fetched
<1> QED BY <1>7, <1>8

LEMMA StartPlaces ==
  ASSUME TypeOK, NEW mode \in Modes, Start(mode)
  PROVE  /\ UNCHANGED <<strategy, pageSize, remote, newest, deletes, payload, cursor>>
         /\ run'.mode = mode /\ run'.pc = "fetch" /\ run'.seen = {} /\ run'.pages = <<>>
         /\ run'.req = IF cursor # NoCursor THEN cursor ELSE FirstRequest
         /\ run'.scan = (cursor = NoCursor /\ mode = "incremental" /\ payload # <<>> /\ HasIds)
         /\ run'.old = IF mode = "full" THEN <<>> ELSE payload
         /\ run'.known = IF run'.scan THEN StoredIds ELSE {}
         /\ Fetched' = {} /\ StoredIds' = StoredIds
         /\ Old' = IF mode = "full" THEN {} ELSE StoredIds
<1>1. /\ UNCHANGED <<strategy, pageSize, remote, newest, deletes, payload, cursor>>
      /\ run'.mode = mode /\ run'.pc = "fetch" /\ run'.seen = {} /\ run'.pages = <<>>
      /\ run'.req = IF cursor # NoCursor THEN cursor ELSE FirstRequest
      /\ run'.scan = (cursor = NoCursor /\ mode = "incremental" /\ payload # <<>> /\ HasIds)
      /\ run'.old = IF mode = "full" THEN <<>> ELSE payload
      /\ run'.known = IF run'.scan THEN StoredIds ELSE {}
  BY Zenon DEF Start, env
<1>2. Fetched' = {} /\ StoredIds' = StoredIds /\ Old' = IF mode = "full" THEN {} ELSE StoredIds
  BY <1>1, NoPages DEF Fetched, StoredIds, Old
<1> QED BY <1>1, <1>2

\* What ends a run without storing its pages, or keeps it as it is but for its counter.
LEMMA QuietPlaces ==
  ASSUME TypeOK, RowInv,
         \/ FailPermanent \/ Exhaust \/ FailUnrecorded \/ MarkSuccess \/ Crash
         \/ FailRetryable \/ FailLast
  PROVE  /\ UNCHANGED <<strategy, pageSize, remote, newest, deletes, payload, cursor>>
         /\ UNCHANGED <<baseline, excused>> /\ StoredIds' = StoredIds
         /\ \/ /\ run' = Idle /\ Old' = {} /\ Fetched' = {}
               /\ status' = "SUCCESS" => run.pc = "mark"
            \/ /\ run'.pc \in {"fetch", "exhaust"} /\ run.pc = "fetch" /\ status' # "SUCCESS"
               /\ UNCHANGED <<Old, Fetched>>
               /\ run'.req = run.req /\ run'.scan = run.scan /\ run'.mode = run.mode
               /\ run'.seen = run.seen /\ run'.known = run.known /\ run'.old = run.old
<1>1. /\ UNCHANGED <<strategy, pageSize, remote, newest, deletes, payload, cursor>>
      /\ UNCHANGED <<baseline, excused>>
  BY DEF FailPermanent, Exhaust, FailUnrecorded, MarkSuccess, Crash, FailRetryable, FailLast,
     env, db, hist
<1>2. StoredIds' = StoredIds
  BY <1>1 DEF StoredIds
<1>3. CASE FailPermanent \/ Exhaust \/ FailUnrecorded \/ MarkSuccess \/ Crash
  <2>1. run' = Idle /\ (status' = "SUCCESS" => run.pc = "mark")
    BY <1>3 DEF FailPermanent, Exhaust, FailUnrecorded, MarkSuccess, Crash, db, Running, RowInv,
       RowOfRun
  <2>2. Old' = {} /\ Fetched' = {}
    BY <2>1, NoPages DEF Idle, Old, Fetched
  <2> QED BY <1>1, <1>2, <2>1, <2>2
<1>4. CASE FailRetryable \/ FailLast
  <2>1. /\ run'.pc \in {"fetch", "exhaust"} /\ run.pc = "fetch" /\ status' # "SUCCESS"
        /\ run'.req = run.req /\ run'.scan = run.scan /\ run'.mode = run.mode
        /\ run'.seen = run.seen /\ run'.known = run.known /\ run'.old = run.old
        /\ run'.pages = run.pages
    BY <1>4, RunTyped DEF FailRetryable, FailLast, Run
  <2> QED BY <1>1, <1>2, <2>1 DEF Old, Fetched
<1> QED BY <1>3, <1>4

LEMMA StorePlaces ==
  ASSUME TypeOK, Places, StoreResults
  PROVE  /\ UNCHANGED <<strategy, pageSize, remote, newest, deletes, baseline, excused>>
         /\ run.pc = "store" /\ run'.pc = "mark" /\ cursor' = NoCursor
         /\ run'.mode = run.mode /\ run'.scan = run.scan /\ run'.known = run.known
         /\ run'.old = run.old /\ run'.req = run.req /\ run'.seen = run.seen
         /\ UNCHANGED <<Old, Fetched>> /\ StoredIds' = Old \union Fetched
<1>1. run.old \in Seq(Page) /\ run.pages \in Seq(Page) /\ run.scan \in BOOLEAN
  BY RunTyped
<1>2. /\ UNCHANGED <<strategy, pageSize, remote, newest, deletes, baseline, excused>>
      /\ run.pc = "store" /\ run'.pc = "mark" /\ cursor' = NoCursor
      /\ run'.mode = run.mode /\ run'.scan = run.scan /\ run'.known = run.known
      /\ run'.old = run.old /\ run'.req = run.req /\ run'.seen = run.seen
      /\ run'.pages = run.pages
  BY RunTyped DEF StoreResults, Run, env, hist
<1>3. PagesIds(payload') = Old \union Fetched
  <2>1. CASE run.scan
    <3>1. payload' = MergeIncremental(run.pages, run.old)
      BY <2>1 DEF StoreResults
    <3> QED BY <1>1, <3>1, MergeKeepsIds DEF Old, Fetched
  <2>2. CASE ~run.scan /\ run.mode = "full"
    <3>1. payload' = run.pages /\ run.old = <<>>
      BY <2>2 DEF StoreResults, Places
    <3> QED BY <3>1, NoPages DEF Old, Fetched
  <2>3. CASE ~run.scan /\ run.mode # "full"
    <3>1. payload' = run.old \o run.pages
      BY <2>3 DEF StoreResults
    <3> QED BY <1>1, <3>1, IdsOfConcat DEF Old, Fetched
  <2> QED BY <1>1, <2>1, <2>2, <2>3
<1> QED BY <1>2, <1>3 DEF Old, Fetched, StoredIds

LEMMA SafetyPlaces ==
  ASSUME TypeOK, SafetyPage
  PROVE  /\ UNCHANGED <<strategy, pageSize, remote, newest, deletes, payload, cursor>>
         /\ UNCHANGED <<status, baseline, excused>> /\ StoredIds' = StoredIds
         /\ run.pc = "safety" /\ run'.pc = "store" /\ run'.mode = run.mode
         /\ run'.scan = run.scan /\ run'.known = run.known /\ run'.old = run.old
         /\ Old' = Old
         /\ Fetched' = Fetched \/ Fetched' = Fetched \union ReplyIds(run.req)
<1>1. /\ UNCHANGED <<strategy, pageSize, remote, newest, deletes, payload, cursor>>
      /\ UNCHANGED <<status, baseline, excused>>
      /\ run.pc = "safety" /\ run'.pc = "store" /\ run'.mode = run.mode
      /\ run'.scan = run.scan /\ run'.known = run.known /\ run'.old = run.old
      /\ run'.pages = run.pages \/ run'.pages = Append(run.pages, Reply(run.req))
  BY RunTyped DEF SafetyPage, Run, env, db, hist
<1>2. PICK p \in Page : p = Reply(run.req) /\ p.ids = ReplyIds(run.req)
  BY RunTyped, ReplyIsPage DEF Reply
<1>3. PagesIds(Append(run.pages, p)) = PagesIds(run.pages) \union p.ids
  BY RunTyped, IdsOfAppend
<1> QED BY <1>1, <1>2, <1>3 DEF Old, Fetched, StoredIds

LEMMA InitFound == Init => Found
<1> SUFFICES ASSUME Init PROVE Found
  OBVIOUS
<1>1. StoredIds = {} /\ Old = {} /\ Fetched = {} /\ baseline = {} /\ run.known = {}
  BY NoPages DEF Init, Idle, StoredIds, Old, Fetched
<1>2. run.pc = "idle" /\ run.mode = "none" /\ remote \subseteq 1..newest
  BY DEF Init, Idle
<1> QED BY <1>1, <1>2 DEF Found, Listing, Requests, Places

LEMMA StartFound ==
  ASSUME TypeOK, Found, NEW mode \in Modes, Start(mode)
  PROVE  Found'
<1>1. Listing'
  <2>1. baseline' = remote \/ baseline' = baseline
    BY DEF Start, hist
  <2> QED BY <2>1, StartPlaces DEF Found, Listing
<1>2. Requests'
  BY StartPlaces, EndpointAssumption DEF Requests, FirstRequest, NoCursor
<1>3. Places'
  <2>1. ASSUME run'.scan PROVE baseline' = remote /\ mode # "full"
    BY <2>1, StartPlaces DEF Start
  <2> QED BY <2>1, StartPlaces DEF Found, Listing, Places
<1> QED BY <1>1, <1>2, <1>3 DEF Found

\* The next request is beyond all that were made.
LEMMA BeyondSeen ==
  ASSUME TypeOK, Found, run.pc = "fetch", ~IsLastPage(run.req)
  PROVE  /\ NextRequest(run.req) \notin run.seen \union {run.req}
         /\ NextRequest(run.req) # 0
         /\ \A s \in run.seen \union {run.req} :
              IF strategy = "cursor" THEN NextRequest(run.req) < s ELSE s < NextRequest(run.req)
<1> DEFINE next == NextRequest(run.req)
<1>1. /\ run.req \in Nat /\ run.req # 0 /\ run.seen \subseteq Nat /\ next \in Nat
      /\ \A s \in run.seen : IF strategy = "cursor" THEN run.req < s ELSE s < run.req
  BY RunTyped, NextRequestType DEF Found, Requests
<1>2. CASE strategy = "cursor"
  <2>1. next < run.req /\ next # 0
    BY <1>1, <1>2, TokenGoesOn, ReplyIsPage DEF Item
  <2> HIDE DEF next
  <2>2. \A s \in run.seen \union {run.req} : next < s /\ s \in Nat
    BY <1>1, <1>2, <2>1
  <2>3. next \notin run.seen \union {run.req}
    BY <1>1, <2>2
  <2> QED BY <1>2, <2>1, <2>2, <2>3 DEF next
<1>3. CASE strategy # "cursor"
  <2>1. next = run.req + 1
    BY <1>3 DEF NextRequest
  <2> HIDE DEF next
  <2>2. \A s \in run.seen \union {run.req} : s < next /\ s \in Nat
    BY <1>1, <1>3, <2>1
  <2>3. next \notin run.seen \union {run.req} /\ next # 0
    BY <1>1, <2>1, <2>2
  <2> QED BY <1>3, <2>2, <2>3 DEF next
<1> QED BY <1>2, <1>3

LEMMA FetchFound ==
  ASSUME TypeOK, Found, FetchPage \/ FetchPageGlitch
  PROVE  Found'
<1>1. PICK next \in Nat : /\ PageArrived(Reply(run.req), next)
                          /\ \/ next \in run.seen \union {run.req}
                             \/ ~Reply(run.req).last => next = NextRequest(run.req)
                          /\ Reply(run.req).last = IsLastPage(run.req)
  <2>1. Reply(run.req).last = IsLastPage(run.req)
    BY DEF Reply
  <2>2. CASE FetchPage
    BY <2>1, <2>2, NextRequestType, RunTyped DEF FetchPage, NoCursor
  <2>3. CASE FetchPageGlitch
    BY <2>1, <2>3, RunTyped DEF FetchPageGlitch
  <2> QED BY <2>2, <2>3
<1>2. /\ run.pc = "fetch" /\ UNCHANGED <<strategy, pageSize, remote, newest, deletes, baseline>>
      /\ Reply(run.req) \in Page /\ ReplyIds(run.req) \subseteq remote /\ run.req \in Nat
  BY FetchArrives, ReplyIsPage, RunTyped DEF env
<1>3. /\ Old' = Old /\ Fetched' = Fetched \union ReplyIds(run.req)
      /\ StoredIds' = IF run.scan THEN StoredIds ELSE Old \union Fetched'
      /\ Reply(run.req).ids = ReplyIds(run.req)
  BY <1>1, FetchPlaces
<1>4. /\ run'.mode = run.mode /\ run'.scan = run.scan /\ run'.old = run.old
      /\ run'.seen = run.seen \union {run.req}
      /\ run'.known \subseteq run.known \union ReplyIds(run.req)
      /\ run'.pc = "fetch" =>
           ~Reply(run.req).last /\ next \notin run'.seen /\ run'.req = next
  BY <1>1, <1>2, <1>3, Arrives
<1>5. Listing'
  BY <1>2, <1>3, <1>4 DEF Found, Listing
<1>6. Requests'
  <2> SUFFICES ASSUME run'.pc = "fetch"
               PROVE  /\ run'.req # 0
                      /\ \A s \in run'.seen : IF strategy = "cursor" THEN run'.req < s ELSE s < run'.req
    BY <1>2 DEF Requests
  <2>1. next = NextRequest(run.req) /\ run'.req = next /\ ~IsLastPage(run.req)
    BY <1>1, <1>4
  <2> QED BY <1>2, <1>4, <2>1, BeyondSeen
<1>7. Places'
  <2>1. run'.mode = "full" => run'.old = <<>>
    BY <1>4 DEF Found, Places
  <2>2. ASSUME run'.scan
        PROVE  run'.known \subseteq Old' \union Fetched' /\ (deletes' = 0 => Old' \subseteq baseline')
    BY <1>2, <1>3, <1>4, <2>2 DEF Found, Places
  <2> QED BY <2>1, <2>2 DEF Places
<1> QED BY <1>5, <1>6, <1>7 DEF Found

LEMMA NextFound == TypeOK /\ RowInv /\ StillListed /\ Found /\ [Next]_vars => Found'
<1> SUFFICES ASSUME TypeOK, RowInv, StillListed, Found, [Next]_vars PROVE Found'
  OBVIOUS
<1>1. CASE \E mode \in Modes : Start(mode)
  BY <1>1, StartFound
<1>2. CASE FetchPage \/ FetchPageGlitch
  BY <1>2, FetchFound
<1>3. CASE \/ FailPermanent \/ Exhaust \/ FailUnrecorded \/ MarkSuccess \/ Crash
           \/ FailRetryable \/ FailLast
  <2>1. CASE run' = Idle /\ Old' = {} /\ Fetched' = {}
    <3>1. /\ run'.pc = "idle" /\ run'.mode = "none" /\ run'.known = {}
      BY <2>1 DEF Idle
    <3> QED BY <1>3, <2>1, <3>1, QuietPlaces DEF Found, Listing, Requests, Places
  <2>2. CASE ~(run' = Idle /\ Old' = {} /\ Fetched' = {})
    <3>1. /\ run.pc = "fetch" /\ UNCHANGED <<Old, Fetched>>
          /\ run'.req = run.req /\ run'.scan = run.scan /\ run'.mode = run.mode
          /\ run'.seen = run.seen /\ run'.known = run.known /\ run'.old = run.old
      BY <1>3, <2>2, QuietPlaces
    <3> QED BY <1>3, <3>1, QuietPlaces DEF Found, Listing, Requests, Places
  <2> QED BY <2>1, <2>2
<1>4. CASE StoreResults
  BY <1>4, StorePlaces DEF Found, Listing, Requests, Places
<1>5. CASE SafetyPage
  <2>1. ReplyIds(run.req) \subseteq remote
    BY RunTyped, ReplyIsPage
  <2> QED BY <1>5, <2>1, SafetyPlaces DEF Found, Listing, Requests, Places
<1>6. CASE Upload \/ Delete
  <2>1. /\ UNCHANGED <<strategy, run, baseline, payload>>
        /\ newest \in Nat
        /\ \/ /\ newest' = newest + 1 /\ remote' = remote \union {newest + 1}
              /\ deletes' = deletes
           \/ newest' = newest /\ remote' \subseteq remote /\ deletes' # 0
    BY <1>6, EnvTyped DEF Upload, Delete, db, hist
  <2>2. UNCHANGED <<Old, Fetched, StoredIds>>
    BY <2>1 DEF Old, Fetched, StoredIds
  <2>3. remote \subseteq 1..newest /\ remote' \subseteq 1..newest'
    <3>1. remote \subseteq 1..newest
      BY DEF Found, Listing
    <3>2. newest' = newest + 1 => \A i \in (1..newest) \union {newest + 1} : i \in 1..newest'
      BY <2>1
    <3> QED BY <2>1, <3>1, <3>2
  <2>4. CASE deletes' # 0
    <3>1. Listing'
      BY <2>3, <2>4 DEF Listing
    <3>2. Requests'
      BY <2>1 DEF Found, Requests
    <3>3. Places'
      BY <2>1, <2>2, <2>4 DEF Found, Places
    <3> QED BY <3>1, <3>2, <3>3 DEF Found
  <2>5. CASE deletes' = 0
    <3>1. deletes = 0 /\ remote' = remote \union {newest + 1}
      BY <2>1, <2>5
    <3>2. \A b \in baseline, j \in remote' : j < b => j \in baseline
      <4>1. baseline \subseteq Nat
        BY EnvTyped
      <4>2. \A b \in baseline : b \in 1..newest
        BY <2>3, <3>1, <4>1 DEF StillListed
      <4> QED BY <2>1, <3>1, <4>2 DEF Found, Listing
    <3> QED BY <2>1, <2>2, <2>3, <2>5, <3>1, <3>2 DEF Found, Listing, Requests, Places
  <2> QED BY <2>4, <2>5
<1>7. CASE UNCHANGED vars
  <2>1. UNCHANGED <<Old, Fetched, StoredIds>>
    BY <1>7 DEF vars, db, Old, Fetched, StoredIds
  <2> QED BY <1>7, <2>1 DEF vars, env, db, hist, Found, Listing, Requests, Places
<1> QED BY <1>1, <1>2, <1>3, <1>4, <1>5, <1>6, <1>7 DEF Next, RunStep

LEMMA InitWhole == Init => WholeInv
<1> SUFFICES ASSUME Init PROVE WholeInv
  OBVIOUS
<1>1. run.pc = "idle" /\ payload = <<>> /\ cursor = NoCursor /\ status = "PENDING"
  BY DEF Init, Idle
<1> QED BY <1>1 DEF WholeInv, Scanned, NoHole, Ended

LEMMA StartWhole ==
  ASSUME TypeOK, Found, BehindInv, WholeInv, NEW mode \in Modes, Start(mode)
  PROVE  WholeInv'
<1>1. /\ UNCHANGED <<strategy, pageSize, remote, deletes, payload, cursor>>
      /\ run'.pc = "fetch" /\ Fetched' = {} /\ StoredIds' = StoredIds
      /\ run'.req = IF cursor # NoCursor THEN cursor ELSE FirstRequest
      /\ run'.scan => cursor = NoCursor
      /\ Old' = IF mode = "full" THEN {} ELSE StoredIds
  BY StartPlaces
<1>2. Running'
  BY <1>1 DEF Running
<1>3. Ended'
  BY <1>1, <1>2 DEF Ended
<1>4. Claim' => /\ Claim \/ (cursor = NoCursor /\ GapShows)
                /\ cursor # NoCursor => Claim /\ mode # "full"
  BY <1>1 DEF Start, Claim, hist
<1>5. Scanned'
  <2> SUFFICES ASSUME run'.scan
               PROVE  /\ PassedBy(run.req)' \subseteq Fetched'
                      /\ Dense(remote, {}, run'.req) /\ \A i \in {} : run'.req <= i
    BY <1>1 DEF Scanned
  <2>1. cursor = NoCursor /\ run'.req = FirstRequest
    BY <1>1
  <2>2. baseline' = remote
    BY <2>1 DEF Start
  <2>3. PassedBy(run.req)' = {}
    BY <1>1, <2>1, <2>2, NothingBeforeFirst DEF PassedBy, PassedIn, Rank
  <2> QED BY <2>3 DEF Dense
<1>6. NoHole'
  <2> SUFFICES ASSUME Claim', strategy = "cursor"
               PROVE  /\ ~run'.scan => Dense(remote, Old' \union Fetched', run'.req)
                      /\ cursor # NoCursor => Dense(remote, StoredIds, cursor)
                      /\ payload # <<>> /\ Last(payload).last => Dense(remote, StoredIds, 0)
    BY <1>1 DEF NoHole
  <2>1. Dense(remote, Old' \union Fetched', run'.req)
    <3>1. CASE cursor = NoCursor
      BY <1>1, <3>1, DenseAtFirst
    <3>2. CASE cursor # NoCursor
      BY <1>1, <1>4, <3>2 DEF WholeInv, NoHole
    <3> QED BY <3>1, <3>2
  <2>2. cursor # NoCursor => Dense(remote, StoredIds, cursor)
    BY <1>4 DEF WholeInv, NoHole
  <2>3. payload # <<>> /\ Last(payload).last => Dense(remote, StoredIds, 0)
    BY <1>4 DEF WholeInv, NoHole, GapShows, StoredCursorIncomplete
  <2> QED BY <2>1, <2>2, <2>3
<1> QED BY <1>3, <1>5, <1>6 DEF WholeInv

\* What a run without a scan has after an answer.
LEMMA FetchWholeRun ==
  ASSUME TypeOK, RowInv, Found, BehindInv, WholeInv, FetchPage, ~run.scan
  PROVE  WholeInv'
<1> DEFINE page == Reply(run.req)
           next == IF IsLastPage(run.req) THEN NoCursor ELSE NextRequest(run.req)
           S == Old \union Fetched
<1>1. /\ PageArrived(page, next) /\ next \in Nat /\ page.last = IsLastPage(run.req)
      /\ page \in Page /\ run.req \in Nat /\ run.pc = "fetch"
      /\ run.old \in Seq(Page) /\ run.pages \in Seq(Page)
  BY NextRequestType, FetchArrives, RunTyped DEF FetchPage, Reply, NoCursor
<1>2. /\ UNCHANGED <<strategy, pageSize, remote, deletes, baseline, status>>
      /\ ReplyIds(run.req) \subseteq remote
  BY FetchArrives, ReplyIsPage, <1>1 DEF env
<1>3. /\ Old' = Old /\ Fetched' = Fetched \union ReplyIds(run.req)
      /\ StoredIds' = S \union ReplyIds(run.req)
  BY <1>1, FetchPlaces
<1>4. /\ run'.pc \in {"fetch", "store"} /\ run'.scan = run.scan
      /\ ~page.last => run'.req = next
      /\ run'.pc = "fetch" => ~page.last
      /\ run'.pc = "store" => page.last \/ next \in run.seen \union {run.req}
      /\ cursor' = IF page.last THEN NoCursor ELSE next
      /\ payload' = run.old \o Append(run.pages, page)
  <2>1. ~BoundaryHit(page)
    BY DEF BoundaryHit
  <2> QED BY <1>1, <2>1, Arrives
<1>5. page.last \/ next \notin run.seen \union {run.req}
  BY <1>1, BeyondSeen
<1>6. Last(payload') = page /\ Running'
  BY <1>1, <1>4, LastOfPages DEF Running
<1>7. ASSUME Claim'
      PROVE  /\ S \subseteq remote /\ baseline \subseteq remote
             /\ PassedBy(run.req) \subseteq S
             /\ strategy = "cursor" => Dense(remote, S, run.req)
  <2>1. deletes = 0 /\ (~excused \/ run.req = FirstRequest)
    BY <1>2, <1>7 DEF Claim, FetchPage
  <2>2. S \subseteq remote /\ baseline \subseteq remote
    BY <2>1 DEF Found, Listing, BehindInv, StillListed
  <2>3. PassedBy(run.req) \subseteq S
    <3>1. CASE ~excused
      BY <1>1, <2>1, <3>1 DEF BehindInv, RunBehind, Old, Fetched
    <3>2. CASE run.req = FirstRequest
      BY <2>2, <3>2, NothingBeforeFirst DEF PassedBy
    <3> QED BY <2>1, <3>1, <3>2
  <2>4. strategy = "cursor" => Dense(remote, S, run.req)
    <3>1. CASE ~excused
      BY <1>1, <2>1, <3>1 DEF WholeInv, NoHole, Claim
    <3>2. CASE run.req = FirstRequest
      BY <3>2, DenseAtFirst
    <3> QED BY <2>1, <3>1, <3>2
  <2> QED BY <2>2, <2>3, <2>4
<1> HIDE DEF S
<1>8. ASSUME Claim', page.last
      PROVE  /\ baseline \subseteq S \union ReplyIds(run.req)
             /\ strategy = "cursor" => Dense(remote, S \union ReplyIds(run.req), 0)
  <2>1. run.req # 0
    BY <1>1 DEF Found, Requests
  <2> HIDE DEF page, next
  <2> QED BY <1>1, <1>7, <1>8, <2>1, LastAnswerCovers, DenseGrows
<1>9. ASSUME Claim', ~page.last, strategy = "cursor"
      PROVE  Dense(remote, S \union ReplyIds(run.req), next)
  <2>1. ~IsLastPage(run.req) /\ next = NextRequest(run.req)
    BY <1>1, <1>9
  <2> HIDE DEF page, next
  <2> QED BY <1>1, <1>7, <1>9, <2>1, DenseGrows
<1> HIDE DEF page, next
<1>10. Old' \union Fetched' = S \union ReplyIds(run.req)
  BY <1>3 DEF S
<1>11. Scanned'
  BY <1>4 DEF Scanned
<1>12. NoHole'
  BY <1>2, <1>3, <1>4, <1>6, <1>8, <1>9, <1>10 DEF NoHole
<1>13. Ended'
  BY <1>2, <1>4, <1>5, <1>6, <1>8, <1>10 DEF Ended
<1> QED BY <1>11, <1>12, <1>13 DEF WholeInv

\* A scan that stops at known ids stops where nothing is missing behind them: the counts
\* agree, or the stored token listing has no hole and shows its end.
LEMMA BoundaryIsComplete ==
  ASSUME TypeOK, RowInv, Buffers, Found, BehindInv, WholeInv, run.pc = "fetch", run.scan, Claim,
         BoundaryHit(Reply(run.req)), ~IsLastPage(run.req)
  PROVE  LET S == Old \union Fetched \union ReplyIds(run.req)
         IN /\ baseline \subseteq S
            /\ strategy = "cursor" => Dense(remote, S, 0) /\ NextRequest(run.req) \in S
<1> DEFINE page == Reply(run.req)
           X == ReplyIds(run.req)
           S == Old \union Fetched \union X
<1>1. /\ X # {} /\ X \subseteq run.known /\ ~IncompleteListing(page)
      /\ page.total = IF strategy = "cursor" THEN 0 ELSE Cardinality(remote)
  BY DEF BoundaryHit, Reply
<1>2. /\ run.req \in Nat /\ deletes = 0 /\ ~excused /\ baseline \subseteq remote
      /\ X \subseteq remote /\ remote \subseteq Nat /\ remote \subseteq Item
      /\ run.known \subseteq remote /\ run.known \subseteq Old \union Fetched
      /\ Fetched \subseteq remote /\ Old \subseteq remote
  BY RunTyped, ReplyIsPage, EnvTyped
  DEF Claim, Found, Listing, Places, BehindInv, StillListed
<1>3. /\ PassedBy(run.req) \subseteq Fetched
      /\ strategy = "cursor" => /\ Dense(remote, Fetched, run.req)
                                /\ \A i \in Fetched : run.req <= i
  BY DEF WholeInv, Scanned
<1>4. CASE strategy # "cursor"
  <2>1. Cardinality(remote) \in Nat /\ IsFiniteSet(remote) /\ Cardinality(run.known) \in Nat
    BY <1>2, ItemSets
  <2>2. Cardinality(remote) > 0
    <3>1. Cardinality(remote) # 0
      BY <1>1, <1>2, <2>1, FS_EmptySet
    <3> QED BY <2>1, <3>1
  <2>3. ~(Cardinality(run.known) < Cardinality(remote))
    BY <1>1, <1>4, <2>2 DEF IncompleteListing
  <2>4. Cardinality(run.known) <= Cardinality(remote)
    BY <1>2, ItemSetsMonotone
  <2>5. Cardinality(remote) = Cardinality(run.known)
    BY <2>1, <2>3, <2>4
  <2>6. run.known = remote
    BY <1>2, <2>1, <2>5, FS_Subset
  <2> QED BY <1>2, <1>4, <2>6
<1>5. CASE strategy = "cursor"
  <2> DEFINE m == NextRequest(run.req)
  <2>1. m \in X /\ m < run.req /\ (\A j \in X : m <= j) /\ (\A j \in X : j < run.req)
    BY <1>2, <1>5, TokenGoesOn DEF ReplyIds
  <2>2. X \subseteq Old
    BY <1>1, <1>2, <1>3, <1>5, <2>1
  <2>3. Dense(remote, Old, 0)
    <3>1. ~StoredCursorIncomplete(run.old) /\ run.old = payload
      BY <1>1 DEF IncompleteListing, Buffers, RowInv, RowOfRun
    <3>2. payload # <<>>
      <4>1. Old # {}
        BY <2>1, <2>2
      <4> QED BY <3>1, <4>1, NoPages DEF Old
    <3>3. Last(payload).last
      BY <1>5, <3>1, <3>2 DEF StoredCursorIncomplete
    <3>4. Old = StoredIds
      BY <3>1 DEF Old, StoredIds
    <3> QED BY <1>5, <3>2, <3>3, <3>4 DEF WholeInv, NoHole
  <2>4. Dense(remote, Fetched \union X, m)
    BY <1>2, <1>3, <1>5, DenseGrows
  <2> HIDE DEF X, m
  <2>5. m \in Nat /\ m \in Old
    BY <1>2, <2>1, <2>2
  <2>6. ASSUME NEW i \in S, NEW j \in remote, j < i PROVE j \in S
    <3>0. i \in Nat /\ j \in Nat /\ 0 <= j
      BY <1>2, <2>6
    <3>1. CASE i \in Old
      BY <2>3, <2>6, <3>0, <3>1 DEF Dense
    <3>2. CASE j < m
      BY <2>3, <2>5, <3>0, <3>2 DEF Dense
    <3>3. CASE i \in Fetched \union X /\ ~(j < m)
      BY <2>4, <2>5, <2>6, <3>0, <3>3 DEF Dense
    <3> QED BY <2>6, <3>1, <3>2, <3>3
  <2>7. ASSUME NEW i \in baseline PROVE i \in S
    <3>1. i \in remote /\ i \in Nat
      BY <1>2
    <3>2. CASE i >= run.req
      BY <1>3, <1>5, <3>2 DEF PassedBy, PassedIn
    <3>3. CASE i < m
      BY <2>3, <2>5, <3>1, <3>3 DEF Dense
    <3>4. CASE i < run.req /\ m <= i
      BY <1>2, <1>5, <3>1, <3>4, TokenCovers DEF m, X
    <3> QED BY <1>2, <2>5, <3>1, <3>2, <3>3, <3>4
  <2>8. Dense(remote, S, 0) /\ m \in S
    BY <2>5, <2>6 DEF Dense
  <2> QED BY <2>7, <2>8 DEF m, X
<1> QED BY <1>4, <1>5

LEMMA FetchWholeScan ==
  ASSUME TypeOK, RowInv, Buffers, Found, BehindInv, WholeInv, FetchPage, run.scan
  PROVE  WholeInv'
<1> DEFINE page == Reply(run.req)
           next == IF IsLastPage(run.req) THEN NoCursor ELSE NextRequest(run.req)
           X == ReplyIds(run.req)
<1>1. /\ PageArrived(page, next) /\ next \in Nat /\ page.last = IsLastPage(run.req)
      /\ page \in Page /\ run.req \in Nat \ {0} /\ run.pc = "fetch"
  BY NextRequestType, FetchArrives, RunTyped DEF FetchPage, Reply, NoCursor, Found, Requests
<1>2. /\ UNCHANGED <<strategy, pageSize, remote, deletes, baseline, status>>
      /\ X \subseteq remote
  BY FetchArrives, ReplyIsPage, <1>1 DEF env
<1>3. Old' = Old /\ Fetched' = Fetched \union X /\ StoredIds' = StoredIds
  BY <1>1, FetchPlaces
<1>4. /\ run'.pc \in {"fetch", "safety", "store"} /\ run'.scan
      /\ ~page.last => run'.req = next
      /\ run'.pc = "fetch" => ~page.last
      /\ run'.pc = "safety" => BoundaryHit(page) /\ ~page.last
      /\ run'.pc = "store" => page.last \/ next \in run.seen \union {run.req}
      /\ payload' = payload /\ cursor' = cursor
  BY <1>1, Arrives
<1>5. page.last \/ next \notin run.seen \union {run.req}
  BY <1>1, BeyondSeen
<1>6. Running' /\ (Claim' => Claim)
  BY <1>2, <1>4 DEF Running, FetchPage, Claim, RowInv, RowOfRun
<1>7. ASSUME Claim
      PROVE  /\ Fetched \subseteq remote /\ baseline \subseteq remote /\ Old \subseteq baseline
             /\ \A b \in baseline, j \in remote : j < b => j \in baseline
             /\ PassedBy(run.req) \subseteq Fetched
             /\ strategy = "cursor" => /\ Dense(remote, Fetched, run.req)
                                       /\ \A i \in Fetched : run.req <= i
  BY <1>1, <1>7 DEF Claim, Found, Listing, Places, BehindInv, StillListed, WholeInv, Scanned
<1>8. ASSUME Claim, ~page.last
      PROVE  /\ PassedBy(next) \subseteq Fetched \union X
             /\ strategy = "cursor" => /\ Dense(remote, Fetched \union X, next)
                                       /\ \A i \in Fetched \union X : next <= i
  <2>1. ~IsLastPage(run.req) /\ next = NextRequest(run.req)
    BY <1>1, <1>8
  <2>2. PassedBy(next) \subseteq Fetched \union X
    BY <1>1, <1>7, <1>8, <2>1, AnswerCovers
  <2>3. ASSUME strategy = "cursor" PROVE Dense(remote, Fetched \union X, next)
    BY <1>1, <1>7, <1>8, <2>1, <2>3, DenseGrows
  <2>4. ASSUME strategy = "cursor", NEW i \in Fetched \union X PROVE next <= i
    <3>1. next < run.req /\ \A j \in X : next <= j
      BY <1>1, <2>1, <2>4, TokenGoesOn
    <3>2. i \in Nat
      BY <1>2, <1>7, <1>8, EnvTyped
    <3>3. i \in Fetched => run.req <= i
      BY <1>7, <1>8, <2>4
    <3> HIDE DEF next, X
    <3> QED BY <1>1, <2>4, <3>1, <3>2, <3>3
  <2> QED BY <2>2, <2>3, <2>4
<1>9. ASSUME Claim, page.last
      PROVE  /\ baseline \subseteq Old \union Fetched \union X
             /\ strategy = "cursor" => Dense(remote, Old \union Fetched \union X, 0)
  <2>1. IsLastPage(run.req)
    BY <1>1, <1>9
  <2>2. baseline \subseteq Fetched \union X
    BY <1>1, <1>7, <1>9, <2>1, LastAnswerCovers
  <2>3. ASSUME strategy = "cursor" PROVE Dense(remote, Fetched \union X, 0)
    BY <1>1, <1>7, <1>9, <2>1, <2>3, DenseGrows
  <2>4. strategy = "cursor" => Dense(remote, Old \union Fetched \union X, 0)
    BY <1>7, <1>9, <2>2, <2>3 DEF Dense
  <2> QED BY <2>2, <2>4
<1>10. \A req : PassedBy(req)' = PassedBy(req)
  BY <1>2 DEF PassedBy, PassedIn, Rank
<1> HIDE DEF next
<1>11. Scanned'
  <2>1. PassedBy(run.req)' = PassedBy(run'.req)
    BY <1>2 DEF PassedBy, PassedIn, Rank
  <2> HIDE DEF page, X
  <2> QED BY <1>2, <1>3, <1>4, <1>6, <1>8, <2>1 DEF Scanned
<1>12. NoHole'
  BY <1>2, <1>3, <1>4, <1>6 DEF WholeInv, NoHole
<1>13. Ended'
  <2> SUFFICES ASSUME Claim', run'.pc \in {"safety", "store"}
               PROVE  /\ baseline \subseteq Old \union Fetched \union X
                      /\ strategy = "cursor" => Dense(remote, Old \union Fetched \union X, 0)
                      /\ strategy = "cursor" /\ run'.pc = "safety"
                           => run'.req \in Old \union Fetched \union X
    BY <1>2, <1>3, <1>4, <1>6 DEF Ended
  <2>1. CASE page.last
    BY <1>4, <1>6, <1>9, <2>1
  <2>2. CASE ~page.last
    <3>1. BoundaryHit(page) /\ ~IsLastPage(run.req) /\ run'.req = NextRequest(run.req)
      BY <1>1, <1>4, <1>5, <2>2 DEF next
    <3> QED BY <1>1, <1>6, <3>1, BoundaryIsComplete
  <2> QED BY <2>1, <2>2
<1> QED BY <1>11, <1>12, <1>13 DEF WholeInv

LEMMA SafetyWhole ==
  ASSUME TypeOK, Found, WholeInv, SafetyPage
  PROVE  WholeInv'
<1>1. /\ UNCHANGED <<strategy, remote, deletes, payload, cursor, status, baseline, excused>>
      /\ StoredIds' = StoredIds /\ run.pc = "safety" /\ run'.pc = "store" /\ Old' = Old
      /\ Fetched' = Fetched \/ Fetched' = Fetched \union ReplyIds(run.req)
  BY SafetyPlaces
<1>2. Running' /\ (Claim' <=> Claim)
  BY <1>1 DEF Running, Claim
<1>3. Scanned' /\ NoHole'
  BY <1>1, <1>2 DEF WholeInv, Scanned, NoHole
<1>4. ASSUME Claim, strategy = "cursor"
      PROVE  ReplyIds(run.req) \subseteq Old \union Fetched
  <2>1. Dense(remote, Old \union Fetched, 0) /\ run.req \in Old \union Fetched
    BY <1>1, <1>4 DEF WholeInv, Ended
  <2>2. \A i \in ReplyIds(run.req) : i \in remote /\ i < run.req /\ 0 <= i
    BY <1>4, EnvTyped DEF ReplyIds
  <2> QED BY <2>1, <2>2 DEF Dense
<1>5. Ended'
  <2> SUFFICES ASSUME Claim
               PROVE  /\ baseline \subseteq Old \union Fetched'
                      /\ strategy = "cursor" => Dense(remote, Old \union Fetched', 0)
    BY <1>1, <1>2 DEF Ended
  <2>1. /\ baseline \subseteq Old \union Fetched
        /\ strategy = "cursor" => Dense(remote, Old \union Fetched, 0)
    BY <1>1 DEF WholeInv, Ended
  <2>2. ASSUME strategy = "cursor" PROVE Old \union Fetched' = Old \union Fetched
    BY <1>1, <1>4, <2>2
  <2>3. baseline \subseteq Old \union Fetched'
    BY <1>1, <2>1
  <2> QED BY <2>1, <2>2, <2>3
<1> QED BY <1>3, <1>5 DEF WholeInv

LEMMA StoreWhole ==
  ASSUME TypeOK, Found, WholeInv, StoreResults
  PROVE  WholeInv'
<1>1. /\ UNCHANGED <<strategy, remote, deletes, baseline, excused>>
      /\ run.pc = "store" /\ run'.pc = "mark" /\ cursor' = NoCursor
      /\ StoredIds' = Old \union Fetched
  BY StorePlaces DEF Found
<1>2. Claim' <=> Claim
  BY <1>1 DEF Claim
<1> QED BY <1>1, <1>2 DEF WholeInv, Scanned, NoHole, Ended

LEMMA QuietWhole ==
  ASSUME TypeOK, RowInv, WholeInv,
         \/ FailPermanent \/ Exhaust \/ FailUnrecorded \/ MarkSuccess \/ Crash
         \/ FailRetryable \/ FailLast
  PROVE  WholeInv'
<1>1. /\ UNCHANGED <<strategy, pageSize, remote, deletes, payload, cursor, baseline, excused>>
      /\ StoredIds' = StoredIds
  BY QuietPlaces
<1>2. Claim' <=> Claim
  BY <1>1 DEF Claim
<1>3. CASE run' = Idle /\ (status' = "SUCCESS" => run.pc = "mark")
  <2>1. run'.pc = "idle"
    BY <1>3 DEF Idle
  <2> QED BY <1>1, <1>2, <1>3, <2>1 DEF WholeInv, Scanned, NoHole, Ended
<1>4. CASE /\ run'.pc \in {"fetch", "exhaust"} /\ run.pc = "fetch" /\ status' # "SUCCESS"
           /\ UNCHANGED <<Old, Fetched>> /\ run'.req = run.req /\ run'.scan = run.scan
  <2>1. PassedBy(run.req)' = PassedBy(run.req)
    BY <1>1, <1>4 DEF PassedBy, PassedIn, Rank
  <2> QED BY <1>1, <1>2, <1>4, <2>1 DEF WholeInv, Scanned, NoHole, Ended
<1> QED BY <1>3, <1>4, QuietPlaces

\* An upload is newer than everything seen, so it opens no hole.
LEMMA ListingWhole ==
  ASSUME TypeOK, Found, BehindInv, WholeInv, Upload \/ Delete
  PROVE  WholeInv'
<1>1. UNCHANGED <<strategy, pageSize, payload, cursor, status, run, baseline, excused>>
  BY DEF Upload, Delete, db, hist
<1>2. UNCHANGED <<Old, Fetched, StoredIds, Running>>
  BY <1>1 DEF Old, Fetched, StoredIds, Running
<1>3. CASE Delete
  <2>1. deletes' # 0
    BY <1>3, EnvTyped DEF Delete
  <2> QED BY <2>1 DEF WholeInv, Scanned, NoHole, Ended, Claim
<1>4. CASE Upload
  <2>1. /\ remote' = remote \union {newest + 1} /\ deletes' = deletes /\ newest \in Nat
        /\ remote \subseteq 1..newest /\ remote' \subseteq Item
    BY <1>4, EnvTyped, ListingType DEF Upload, Found, Listing, TypeOK
  <2>2. \A S \in SUBSET remote : \A r : Dense(remote, S, r) => Dense(remote', S, r)
    <3> SUFFICES ASSUME NEW S \in SUBSET remote, NEW r, Dense(remote, S, r),
                        NEW i \in S, NEW j \in remote', r <= j, j < i
                 PROVE  j \in S
      BY DEF Dense
    <3>1. i \in 1..newest
      BY <2>1
    <3>2. j # newest + 1
      BY <2>1, <3>1
    <3> QED BY <2>1, <3>2 DEF Dense
  <2>3. Claim => Old \subseteq remote /\ Fetched \subseteq remote /\ StoredIds \subseteq remote
    BY DEF Found, Listing, Claim
  <2>4. Claim' <=> Claim
    BY <1>1, <2>1 DEF Claim
  <2>5. PassedBy(run.req)' \subseteq PassedBy(run.req)
    BY <1>1, <2>1, RunTyped, PassedShrinks
  <2>6. Scanned'
    BY <1>1, <1>2, <2>2, <2>3, <2>4, <2>5 DEF WholeInv, Scanned
  <2>7. Claim => Old \union Fetched \in SUBSET remote /\ StoredIds \in SUBSET remote
                 /\ Fetched \in SUBSET remote
    BY <2>3
  <2>8. NoHole'
    BY <1>1, <1>2, <2>2, <2>4, <2>7 DEF WholeInv, NoHole
  <2>9. Ended'
    BY <1>1, <1>2, <2>2, <2>4, <2>7 DEF WholeInv, Ended
  <2> QED BY <2>6, <2>8, <2>9 DEF WholeInv
<1> QED BY <1>3, <1>4

LEMMA NextWhole ==
  TypeOK /\ RowInv /\ Buffers /\ Found /\ BehindInv /\ WholeInv /\ [Next]_vars => WholeInv'
<1> SUFFICES ASSUME TypeOK, RowInv, Buffers, Found, BehindInv, WholeInv, [Next]_vars
             PROVE  WholeInv'
  OBVIOUS
<1>1. CASE \E mode \in Modes : Start(mode)
  BY <1>1, StartWhole
<1>2. CASE FetchPage
  BY <1>2, FetchWholeRun, FetchWholeScan
<1>3. CASE FetchPageGlitch
  <2>1. ~Claim'
    BY <1>3 DEF FetchPageGlitch, Claim
  <2> QED BY <2>1 DEF WholeInv, Scanned, NoHole, Ended
<1>4. CASE SafetyPage \/ StoreResults
  BY <1>4, SafetyWhole, StoreWhole
<1>5. CASE \/ FailPermanent \/ Exhaust \/ FailUnrecorded \/ MarkSuccess \/ Crash
           \/ FailRetryable \/ FailLast
  BY <1>5, QuietWhole
<1>6. CASE Upload \/ Delete
  BY <1>6, ListingWhole
<1>7. CASE UNCHANGED vars
  <2>1. /\ UNCHANGED <<strategy, pageSize, remote, deletes, payload, cursor, status, run>>
        /\ UNCHANGED <<baseline, excused>>
    BY <1>7 DEF vars, env, db, hist
  <2>2. UNCHANGED <<Old, Fetched, StoredIds, Running, Claim>>
    BY <2>1 DEF Old, Fetched, StoredIds, Running, Claim
  <2>3. PassedBy(run.req)' = PassedBy(run.req)
    BY <2>1 DEF PassedBy, PassedIn, Rank
  <2> QED BY <2>1, <2>2, <2>3 DEF WholeInv, Scanned, NoHole, Ended
<1> QED BY <1>1, <1>2, <1>3, <1>4, <1>5, <1>6, <1>7 DEF Next, RunStep

\* When an endpoint is marked SUCCESS the store holds everything that was listed when the
\* download began, for any page size and listing, over uploads, retries, crashes, resumes
\* and scans that stop early (_run_endpoint_inner).
THEOREM SuccessIsCompleteHolds == Spec => []SuccessIsComplete
<1>1. WholeInv => SuccessIsComplete
  BY DEF WholeInv, Ended, Claim, SuccessIsComplete
<1>2. BehindInv => StillListed
  BY DEF BehindInv
<1> QED BY <1>1, <1>2, InitType, NextType, InitRow, NextRow, InitBuffers, NextBuffers, InitBehind,
           NextBehind, InitFound, NextFound, InitWhole, NextWhole, PTL DEF Spec

------------------------------------------------------------------------------
(* The refinement of EndpointJob.                                            *)

Where == IF Running THEN "running" ELSE "idle"

\* Each step of the endpoint is one of EndpointJob's or leaves the row as it is.
LEMMA JobStep == TypeOK /\ RowInv /\ [Next]_vars => [Job!Next]_(Job!vars)
<1> SUFFICES ASSUME TypeOK, RowInv, [Next]_vars
             PROVE  Job!Next \/ UNCHANGED <<status, Where>>
  BY DEF Job!vars, Where
<1> USE DEF Job!Next, Where, Running
<1>1. CASE \E mode \in Modes : Start(mode)
  BY <1>1 DEF Start, Job!Begin
<1>2. CASE FetchPage \/ FetchPageGlitch
  <2>1. PICK next \in Nat : PageArrived(Reply(run.req), next)
    BY <1>2, FetchArrives
  <2>2. Reply(run.req) \in Page /\ run.pc = "fetch" /\ status' = status
    BY <1>2, FetchArrives
  <2>3. run'.pc # "idle"
    BY <2>1, <2>2, Arrives
  <2> QED BY <2>2, <2>3
<1>3. CASE SafetyPage \/ StoreResults
  <2>1. run.pc # "idle" /\ run'.pc # "idle" /\ status' = status
    BY <1>3, RunTyped DEF SafetyPage, StoreResults, Run, db
  <2> QED BY <2>1
<1>4. CASE FailPermanent \/ Exhaust \/ MarkSuccess
  BY <1>4 DEF FailPermanent, Exhaust, MarkSuccess, Idle, Job!End, Job!Final
<1>5. CASE FailUnrecorded \/ Crash
  BY <1>5 DEF FailUnrecorded, Crash, Idle, Job!End, db
<1>6. CASE FailRetryable \/ FailLast
  <2>1. run.pc # "idle" /\ run'.pc # "idle" /\ status' = "FAILED_RETRYABLE"
    BY <1>6, RunTyped DEF FailRetryable, FailLast, Run
  <2> QED BY <2>1 DEF Job!Retry
<1>7. CASE Upload \/ Delete \/ UNCHANGED vars
  BY <1>7 DEF Upload, Delete, vars, db
<1> QED BY <1>1, <1>2, <1>3, <1>4, <1>5, <1>6, <1>7 DEF Next, RunStep

\* The endpoint's row goes through the statuses FetchTask counts on: RUNNING, retries, one
\* final status, and nothing after it (EndpointJob).
THEOREM ImplementsJob == Spec => WritesAsAJob
<1>1. Init => Job!Init
  BY DEF Init, Job!Init, Running, Idle
<1> QED BY <1>1, JobStep, InitType, NextType, InitRow, NextRow, PTL
        DEF Spec, Job!Spec, WritesAsAJob

------------------------------------------------------------------------------
(* A run ends: the steps a coroutine has left.                               *)

\* The requests there are: page numbers, or tokens, for a listing of MaxItems.
Askable == 1..(MaxItems + 1)

Unasked == Askable \ run.seen

\* A run asks each request once, with MaxRetries retries, and then stores its results.
StepsLeft ==
  IF run.pc = "fetch"
  THEN (MaxRetries + 2) * Cardinality(Unasked) + (MaxRetries + 1 - run.attempt) + 4
  ELSE IF run.pc = "safety" THEN 3
  ELSE IF run.pc = "store" THEN 2
  ELSE IF run.pc \in {"mark", "exhaust"} THEN 1
  ELSE 0

RunRunsDown == [][Running => StepsLeft' < StepsLeft]_run

\* What is asked next was not asked before, also when a token loops or a resume starts at
\* a stored cursor.
AskedOnce ==
  /\ cursor \in Askable \union {NoCursor}
  /\ Running => run.req \in Askable
  /\ run.seen \subseteq Askable
  /\ run.pc = "fetch" => run.req \notin run.seen

\* Numbered pages end where the listing does; tokens are ids.
LEMMA NextInRequests ==
  ASSUME TypeOK, NEW req \in Askable, ~IsLastPage(req)
  PROVE  NextRequest(req) \in Askable
<1>1. req \in Nat /\ 1 <= req /\ MaxItems \in Nat
  BY EndpointAssumption DEF Askable
<1>2. CASE strategy = "cursor"
  BY <1>1, <1>2, TokenGoesOn, ReplyIsPage DEF Item, Askable
<1>3. CASE strategy # "cursor"
  <2>1. PICK i \in ReplyIds(req) : TRUE
    BY <1>3 DEF IsLastPage
  <2>2. i \in remote /\ (req - 1) * pageSize < Rank(i)
    BY <1>3, <2>1 DEF ReplyIds
  <2>3. Rank(i) \in Nat /\ Rank(i) <= MaxItems
    BY <2>2, EnvTyped, RankIs, ItemSets DEF Rank
  <2>4. \A a \in Nat, b \in Nat \ {0} : a <= a * b
    OBVIOUS
  <2>5. req - 1 \in Nat /\ pageSize \in Nat \ {0}
    BY <1>1, EnvTyped
  <2>6. req - 1 <= (req - 1) * pageSize /\ (req - 1) * pageSize \in Int
    BY <2>4, <2>5
  <2>7. req + 1 \in Askable
    BY <1>1, <2>2, <2>3, <2>6 DEF Askable
  <2> QED BY <1>3, <2>7 DEF NextRequest
<1> QED BY <1>2, <1>3

\* A reply's next request, whether or not the token loops.
LEMMA FetchNext ==
  ASSUME TypeOK, AskedOnce, FetchPage \/ FetchPageGlitch
  PROVE  /\ run.req \in Askable /\ run.req \notin run.seen /\ Reply(run.req) \in Page
         /\ \E next \in Nat : /\ PageArrived(Reply(run.req), next)
                              /\ ~Reply(run.req).last => next \in Askable
<1>1. run.req \in Askable /\ run.req \notin run.seen
  BY DEF AskedOnce, Running, FetchPage, FetchPageGlitch
<1>2. run.req \in Nat /\ Reply(run.req) \in Page /\ Reply(run.req).last = IsLastPage(run.req)
  BY RunTyped, ReplyIsPage DEF Reply
<1> DEFINE Arrived(next) == /\ PageArrived(Reply(run.req), next)
                            /\ ~Reply(run.req).last => next \in Askable
<1>3. ASSUME FetchPage PROVE \E next \in Nat : Arrived(next)
  <2>1. CASE IsLastPage(run.req)
    <3>1. PageArrived(Reply(run.req), NoCursor)
      BY <1>3, <2>1 DEF FetchPage
    <3>2. NoCursor \in Nat
      BY DEF NoCursor
    <3> QED BY <1>2, <2>1, <3>1, <3>2
  <2>2. CASE ~IsLastPage(run.req)
    <3>1. NextRequest(run.req) \in Askable /\ NextRequest(run.req) \in Nat
      BY <1>1, <1>2, <2>2, NextInRequests, NextRequestType
    <3>2. PageArrived(Reply(run.req), NextRequest(run.req))
      BY <1>3, <2>2 DEF FetchPage
    <3> QED BY <3>1, <3>2
  <2> QED BY <2>1, <2>2
<1>4. ASSUME FetchPageGlitch PROVE \E next \in Nat : Arrived(next)
  <2>1. PICK next \in run.seen \union {run.req} : PageArrived(Reply(run.req), next)
    BY <1>4 DEF FetchPageGlitch
  <2>2. next \in Askable /\ next \in Nat
    BY <1>1, <2>1 DEF AskedOnce, Askable
  <2> QED BY <2>1, <2>2
<1> QED BY <1>1, <1>2, <1>3, <1>4

\* Where a run stands after a page.
LEMMA FetchAsks ==
  ASSUME TypeOK, AskedOnce, FetchPage \/ FetchPageGlitch
  PROVE  /\ run.pc = "fetch" /\ run'.pc \in {"safety", "fetch", "store"}
         /\ run.req \in Askable /\ run.req \notin run.seen
         /\ run'.seen = run.seen \union {run.req} /\ run'.req \in Askable
         /\ run'.pc = "fetch" => run'.req \notin run'.seen
         /\ cursor' \in Askable \union {NoCursor}
<1>1. run.pc = "fetch"
  BY FetchArrives
<1>2. /\ run.req \in Askable /\ run.req \notin run.seen /\ Reply(run.req) \in Page
  BY FetchNext
<1>3. PICK next \in Nat : /\ PageArrived(Reply(run.req), next)
                          /\ ~Reply(run.req).last => next \in Askable
  BY FetchNext
<1> DEFINE page == Reply(run.req)
<1>4. /\ run'.seen = run.seen \union {run.req} /\ run'.pc \in {"safety", "fetch", "store"}
      /\ run'.pc = "fetch" => ~page.last /\ next \notin run'.seen
      /\ ~page.last => run'.req = next
      /\ run.scan => cursor' = cursor
      /\ ~run.scan => cursor' = IF page.last THEN NoCursor ELSE next
  BY <1>2, <1>3, Arrives
<1>5. page.last => run'.req = run.req
  BY <1>3, RunTyped DEF PageArrived, Run
<1>6. cursor' \in Askable \union {NoCursor}
  BY <1>3, <1>4 DEF AskedOnce
<1> QED BY <1>1, <1>2, <1>3, <1>4, <1>5, <1>6

LEMMA InitAsked == Init => AskedOnce
BY DEF Init, AskedOnce, Running, Idle, NoCursor

LEMMA NextAsked == TypeOK /\ AskedOnce /\ [Next]_vars => AskedOnce'
<1> SUFFICES ASSUME TypeOK, AskedOnce, [Next]_vars PROVE AskedOnce'
  OBVIOUS
<1>1. ASSUME NEW mode \in Modes, Start(mode) PROVE AskedOnce'
  <2>1. /\ run'.req = IF cursor # NoCursor THEN cursor ELSE FirstRequest
        /\ run'.seen = {} /\ run'.pc = "fetch" /\ cursor' = cursor
    BY <1>1 DEF Start
  <2>2. FirstRequest \in Askable
    BY EndpointAssumption DEF FirstRequest, Askable
  <2> QED BY <2>1, <2>2 DEF AskedOnce
<1>2. CASE FetchPage \/ FetchPageGlitch
  <2>1. run.seen \subseteq Askable
    BY DEF AskedOnce
  <2> QED BY <1>2, <2>1, FetchAsks DEF AskedOnce
<1>3. CASE SafetyPage \/ FailRetryable \/ FailLast \/ StoreResults
  <2>1. /\ run'.req = run.req /\ run'.seen = run.seen /\ run.pc # "idle"
        /\ run'.pc = "fetch" => run.pc = "fetch"
        /\ cursor' \in {cursor, NoCursor}
    BY <1>3, RunTyped DEF SafetyPage, FailRetryable, FailLast, StoreResults, Run, db
  <2> QED BY <2>1 DEF AskedOnce, Running
<1>4. CASE FailPermanent \/ Exhaust \/ FailUnrecorded \/ MarkSuccess \/ Crash
  BY <1>4 DEF FailPermanent, Exhaust, FailUnrecorded, MarkSuccess, Crash, Idle, Running, db,
              AskedOnce
<1>5. CASE Upload \/ Delete \/ UNCHANGED vars
  <2>1. UNCHANGED <<cursor, run>>
    BY <1>5 DEF Upload, Delete, vars, db
  <2> QED BY <2>1 DEF AskedOnce, Running
<1> QED BY <1>1, <1>2, <1>3, <1>4, <1>5 DEF Next, RunStep

\* Every page asked leaves one request fewer to ask.
LEMMA UnaskedIs ==
  ASSUME TypeOK
  PROVE  IsFiniteSet(Unasked) /\ Cardinality(Unasked) \in Nat
<1>1. IsFiniteSet(Askable)
  BY FS_Interval, EndpointAssumption DEF Askable
<1> QED BY <1>1, FS_Subset, FS_CardinalityType DEF Unasked

LEMMA UnaskedFalls ==
  ASSUME TypeOK, run.req \in Askable, run.req \notin run.seen,
         run'.seen = run.seen \union {run.req}
  PROVE  Cardinality(Unasked') = Cardinality(Unasked) - 1 /\ Cardinality(Unasked) >= 1
<1>1. Unasked' = Unasked \ {run.req} /\ run.req \in Unasked
  BY DEF Unasked, Askable
<1>2. Cardinality(Unasked') = Cardinality(Unasked) - 1
  BY <1>1, UnaskedIs, FS_RemoveElement
<1>3. Cardinality(Unasked') \in Nat
  BY <1>1, UnaskedIs, FS_Subset, FS_CardinalityType
<1> QED BY <1>2, <1>3, UnaskedIs

\* While pages are asked there is more to do than in any later place.
LEMMA FetchHasSteps ==
  ASSUME TypeOK, run.pc = "fetch"
  PROVE  /\ StepsLeft \in Nat /\ StepsLeft >= 4
         /\ (MaxRetries + 2) * Cardinality(Unasked) \in Nat
<1>1. MaxRetries \in Nat /\ run.attempt \in 0..(MaxRetries + 1)
  BY RunTyped, EnvTyped
<1>2. \A a, b \in Nat : (a + 2) * b \in Nat
  OBVIOUS
<1>3. (MaxRetries + 2) * Cardinality(Unasked) \in Nat
  BY <1>1, <1>2, UnaskedIs
<1> QED BY <1>1, <1>3 DEF StepsLeft

LEMMA FetchRunsDown ==
  ASSUME TypeOK, TypeOK', AskedOnce, FetchPage \/ FetchPageGlitch
  PROVE  StepsLeft' < StepsLeft
<1>1. /\ run.pc = "fetch" /\ run'.pc \in {"safety", "fetch", "store"}
      /\ Cardinality(Unasked') = Cardinality(Unasked) - 1
      /\ Cardinality(Unasked) \in Nat /\ Cardinality(Unasked) >= 1
  BY FetchAsks, UnaskedFalls, UnaskedIs
<1>2. CASE run'.pc = "fetch"
  <2> DEFINE m == MaxRetries
             n == Cardinality(Unasked)
             a == run.attempt
  <2>1. run'.attempt = 1
    BY RunTyped, FetchArrives DEF PageArrived, Run
  <2>2. m \in Nat /\ a \in 0..(m + 1) /\ n \in Nat
    BY <1>1, RunTyped, EnvTyped
  <2>3. StepsLeft = (m + 2) * n + (m + 1 - a) + 4
    BY <1>1 DEF StepsLeft
  <2>4. StepsLeft' = (m + 2) * (n - 1) + (m + 1 - 1) + 4
    BY <1>1, <1>2, <2>1 DEF StepsLeft
  <2> HIDE DEF m, n, a
  <2>5. (m + 2) * (n - 1) = (m + 2) * n - (m + 2) /\ (m + 2) * n \in Int
    BY <2>2
  <2> QED BY <2>2, <2>3, <2>4, <2>5
<1>3. CASE run'.pc # "fetch"
  <2>1. StepsLeft' <= 3 /\ StepsLeft' \in Nat
    BY <1>1, <1>3 DEF StepsLeft
  <2> QED BY <1>1, <2>1, FetchHasSteps
<1> QED BY <1>2, <1>3

\* Every step of a running coroutine brings its end nearer: no request is asked twice, a
\* page is retried at most MaxRetries times, and nothing starts over (_run_endpoint and its
\* retry driver).
THEOREM RunRunsDownHolds == Spec => RunRunsDown
<1> DEFINE Falls == Running => StepsLeft' < StepsLeft
<1>1. TypeOK /\ TypeOK' /\ AskedOnce /\ [Next]_vars => [Falls]_run
  <2> SUFFICES ASSUME TypeOK, TypeOK', AskedOnce, [Next]_vars, Running, run' # run
               PROVE  StepsLeft' < StepsLeft
    OBVIOUS
  <2> USE DEF Running
  <2>1. CASE FetchPage \/ FetchPageGlitch
    BY <2>1, FetchRunsDown
  <2>2. CASE SafetyPage \/ StoreResults
    <3>1. \/ run.pc = "safety" /\ run'.pc = "store"
          \/ run.pc = "store" /\ run'.pc = "mark"
      BY <2>2, RunTyped DEF SafetyPage, StoreResults, Run
    <3> QED BY <3>1 DEF StepsLeft
  <2>3. CASE FailRetryable
    <3>1. /\ run.pc = "fetch" /\ run'.pc = "fetch" /\ run'.seen = run.seen
          /\ run'.attempt = run.attempt + 1
      BY <2>3, RunTyped DEF FailRetryable, Run
    <3>2. Unasked' = Unasked
      BY <3>1 DEF Unasked, Askable
    <3>3. run.attempt \in Nat /\ MaxRetries \in Nat
      BY RunTyped, EnvTyped
    <3>4. (MaxRetries + 2) * Cardinality(Unasked) \in Nat
      BY <3>1, FetchHasSteps
    <3> QED BY <3>1, <3>2, <3>3, <3>4 DEF StepsLeft
  <2>4. CASE FailLast
    <3>1. run.pc = "fetch" /\ run'.pc = "exhaust"
      BY <2>4, RunTyped DEF FailLast, Run
    <3> QED BY <3>1, FetchHasSteps DEF StepsLeft
  <2>5. CASE FailPermanent \/ Exhaust \/ FailUnrecorded \/ MarkSuccess \/ Crash
    <3>1. StepsLeft' = 0
      BY <2>5 DEF FailPermanent, Exhaust, FailUnrecorded, MarkSuccess, Crash, StepsLeft, Idle
    <3>2. StepsLeft \in Nat /\ StepsLeft >= 1
      BY RunTyped, FetchHasSteps DEF StepsLeft
    <3> QED BY <3>1, <3>2
  <2>6. CASE Upload \/ Delete \/ UNCHANGED vars \/ \E mode \in Modes : Start(mode)
    BY <2>6 DEF Upload, Delete, vars, Start
  <2> QED BY <2>1, <2>2, <2>3, <2>4, <2>5, <2>6 DEF Next, RunStep
<1> HIDE DEF Falls
<1>2. Spec => [][Falls]_run
  BY <1>1, InitType, NextType, InitAsked, NextAsked, PTL DEF Spec
<1> QED BY <1>2 DEF Falls, RunRunsDown
=============================================================================
