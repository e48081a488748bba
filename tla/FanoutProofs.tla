---------------------------- MODULE FanoutProofs ----------------------------
(***************************************************************************)
(* Proofs about ItemFanout: types, the accounting of the occurrences, what *)
(* SUCCESS covers, the freshness after a refresh run, the published        *)
(* counters, the refinement of EndpointJob, and that a fan-out is never    *)
(* stuck and runs down, for any finite set of items, any doubled or        *)
(* filtered ones, any modes and any concurrency.                           *)
(***************************************************************************)
EXTENDS ItemFanout, FiniteSetTheorems, TLAPS

------------------------------------------------------------------------------
(* Occurrences.                                                              *)

LEMMA OccurrenceItem ==
  /\ \A o \in Occurrence : o[1] \in Items
  /\ \A i \in Items : <<i, 1>> \in Occurrence /\ <<i, 1>>[1] = i
BY FanoutAssumption DEF Occurrence

LEMMA OccurrencesFinite ==
  ASSUME NEW S \in SUBSET Occurrence
  PROVE  IsFiniteSet(S) /\ Cardinality(S) \in Nat
<1>1. IsFiniteSet({1}) /\ IsFiniteSet({2})
  BY FS_Singleton
<1>2. IsFiniteSet(Items) /\ IsFiniteSet(Doubled)
  BY FanoutAssumption, FS_Subset
<1>3. IsFiniteSet(Items \X {1}) /\ IsFiniteSet(Doubled \X {2})
  BY <1>1, <1>2, FS_Product
<1>4. IsFiniteSet(Occurrence)
  BY <1>3, FS_Union DEF Occurrence
<1> QED BY <1>4, FS_Subset, FS_CardinalityType

\* A run asks for listed items only, and what it does not ask for is settled; in a
\* refresh run, also fresh.
LEMMA ToFetchCovers ==
  ASSUME NEW m \in Modes
  PROVE  /\ ToFetch(m) \subseteq source
         /\ \A i \in (source \ Filtered) \ ToFetch(m) :
              i \in stored \union gone /\ (m = "refresh" => i \notin old)
BY FanoutAssumption DEF ToFetch, Unavailable

\* The move of one coroutine changes no other one's place.
LEMMA Moves ==
  ASSUME TypeOK, NEW o \in Occurrence, NEW s \in ItemState, Goto(o, s)
  PROVE  /\ item' \in [Occurrence -> ItemState]
         /\ item'[o] = s
         /\ \A p \in Occurrence \ {o} : item'[p] = item[p]
         /\ \A S : At(S)' = IF s \in S THEN At(S) \union {o} ELSE At(S) \ {o}
BY DEF Goto, TypeOK, At

------------------------------------------------------------------------------
(* The inductive invariant.                                                  *)

\* Where the endpoint's coroutine is says what the item coroutines may be doing.
Lifecycle ==
  /\ \A o \in Occurrence : item[o] # "absent" <=> o \in plan
  /\ main \in {"idle", "load"} => plan = {} /\ raised = "none"
  /\ main # "idle" => mode \in Modes
  /\ main \in {"load", "gather", "final"} => status = "RUNNING"
  /\ main = "final" \/ (main = "returned" /\ raised = "none") =>
       raised = "none" /\ \A o \in plan : item[o] = "done"
  /\ main = "returned" /\ raised = "other" => status = "RUNNING"

\* What the outcome of an item says about its rows; a counted one, if none failed.
Outcomes ==
  \A o \in Occurrence :
    /\ item[o] = "ok" => o[1] \in stored \ old
    /\ item[o] = "lost" => o[1] \in gone
    /\ item[o] \in {"counted", "broken", "done"} /\ failed = 0 =>
         o[1] \in gone \union (stored \ old)

\* An item of the plan's pages that is not asked for is settled, and in a refresh run
\* it is fresh.
PlanCovers ==
  main \in {"gather", "final"} =>
    \A i \in planned :
      \/ \E o \in plan : o[1] = i
      \/ i \in stored \union gone /\ (mode = "refresh" => i \notin old \ gone)

\* What was published is no more than what was counted since.
Published ==
  At({"done"}) # {} => progress.completed <= completed /\ progress.failed <= failed

IInv ==
  /\ TypeOK /\ Accounting
  /\ Lifecycle /\ Outcomes /\ PlanCovers /\ Published
  /\ SuccessCovers /\ RefreshRenews

\* The initial states satisfy the invariant.
LEMMA InitInv == Init => IInv
<1> SUFFICES ASSUME Init PROVE IInv
  OBVIOUS
<1> USE DEF Init, NoCoroutine
<1>1. TypeOK
  BY DEF TypeOK, Status, NoProgress, ItemState
<1>2. At({"done"}) = {} /\ Uncounted = {}
  BY DEF At, Uncounted
<1>3. Accounting /\ Published
  BY <1>2, FS_EmptySet DEF Accounting, Published
<1>4. Lifecycle /\ Outcomes /\ PlanCovers /\ SuccessCovers /\ RefreshRenews
  BY DEF Lifecycle, Outcomes, PlanCovers, SuccessCovers, RefreshRenews
<1> QED BY <1>1, <1>3, <1>4 DEF IInv

------------------------------------------------------------------------------
(* What the steps of the endpoint's coroutine preserve.                      *)

\* The counters, the places and the parts of the invariant about them.
LEMMA SamePlaces ==
  ASSUME IInv, UNCHANGED <<item, total, completed, failed>>
  PROVE  Accounting' /\ At({"done"})' = At({"done"}) /\ Uncounted' = Uncounted
BY DEF IInv, Accounting, At, Uncounted

LEMMA BeginInv ==
  ASSUME IInv, NEW m \in Modes, Begin(m)
  PROVE  IInv'
<1> USE DEF Begin, count
<1>1. TypeOK'
  BY DEF IInv, TypeOK, Status
<1>2. Accounting' /\ Published'
  BY SamePlaces DEF IInv, Published
<1>3. Lifecycle'
  BY DEF IInv, Lifecycle
<1>4. Outcomes' /\ PlanCovers' /\ SuccessCovers' /\ RefreshRenews'
  BY DEF IInv, Outcomes, PlanCovers, SuccessCovers, RefreshRenews
<1> QED BY <1>1, <1>2, <1>3, <1>4 DEF IInv

LEMMA PlanInv ==
  ASSUME IInv, Plan
  PROVE  IInv'
<1> USE DEF Plan
<1>1. /\ mode \in Modes /\ status = "RUNNING" /\ raised = "none" /\ main = "load"
      /\ UNCHANGED <<source, sourceStored, stored, old, gone, status, progress, mode, raised>>
  BY DEF IInv, Lifecycle, db
<1>2. /\ plan' \subseteq OccurrencesOf(source) /\ OccurrencesOf(source) \subseteq Occurrence
      /\ \A o \in Occurrence : o \in plan' <=> o[1] \in ToFetch(mode)
  BY <1>1, ToFetchCovers DEF OccurrencesOf
<1>3. total' \in Nat /\ completed' \in Nat /\ failed' = 0 /\ total' = completed' + Cardinality(plan')
  <2>1. Cardinality(plan') <= Cardinality(OccurrencesOf(source))
    BY <1>2, OccurrencesFinite, FS_Subset
  <2> QED BY <1>2, <2>1, OccurrencesFinite
<1>4. At({"done"})' = {} /\ Uncounted' = plan'
  BY <1>2 DEF At, Uncounted
<1>5. TypeOK'
  BY <1>1, <1>2, <1>3 DEF IInv, TypeOK, ItemState
<1>6. Accounting' /\ Published'
  <2>1. Cardinality(plan') \in Nat
    BY <1>2, OccurrencesFinite
  <2> QED BY <1>3, <1>4, <2>1 DEF Accounting, Published
<1>7. Lifecycle' /\ Outcomes'
  BY <1>1, <1>2 DEF Lifecycle, Outcomes
<1>8. PlanCovers'
  <2> SUFFICES ASSUME NEW i \in source \ Filtered
               PROVE  \/ \E o \in plan' : o[1] = i
                      \/ /\ i \in stored \union gone
                         /\ mode = "refresh" => i \notin old \ gone
    BY <1>1 DEF PlanCovers
  <2>1. CASE i \in ToFetch(mode)
    <3>1. <<i, 1>> \in plan' /\ <<i, 1>>[1] = i
      BY <1>2, <2>1, OccurrenceItem DEF IInv, TypeOK
    <3> QED BY <3>1
  <2>2. CASE i \notin ToFetch(mode)
    BY <1>1, <2>2, ToFetchCovers
  <2> QED BY <2>1, <2>2
<1>9. SuccessCovers' /\ RefreshRenews'
  BY <1>1 DEF SuccessCovers, RefreshRenews
<1> QED BY <1>5, <1>6, <1>7, <1>8, <1>9 DEF IInv

\* When every coroutine is done and none failed, what the run planned is settled.
LEMMA DoneCovers ==
  ASSUME IInv, main = "final", failed = 0
  PROVE  /\ planned \subseteq stored \union gone
         /\ mode = "refresh" => planned \cap old \subseteq gone
<1>1. \A o \in plan : o \in Occurrence /\ o[1] \in gone \union (stored \ old)
  BY DEF IInv, TypeOK, Lifecycle, Outcomes
<1>2. \A i \in planned : \/ \E o \in plan : o[1] = i
                         \/ i \in stored \union gone /\ (mode = "refresh" => i \notin old \ gone)
  BY DEF IInv, PlanCovers
<1> QED BY <1>1, <1>2

LEMMA FinishInv ==
  ASSUME IInv, Finish
  PROVE  IInv'
<1> USE DEF Finish
<1>1. UNCHANGED <<source, sourceStored, stored, old, gone, mode, plan, total, completed,
                  failed, item, raised, planned>>
  BY DEF count
<1>2. TypeOK'
  BY <1>1 DEF IInv, TypeOK, Status, FinalStatus
<1>3. Accounting' /\ Published'
  BY <1>1, SamePlaces DEF IInv, TypeOK, Published
<1>4. Lifecycle' /\ Outcomes' /\ PlanCovers'
  BY <1>1 DEF IInv, Lifecycle, Outcomes, PlanCovers
<1>5. SuccessCovers' /\ RefreshRenews'
  <2>1. status' = "SUCCESS" => failed = 0
    BY DEF IInv, TypeOK, FinalStatus
  <2> QED BY <1>1, <2>1, DoneCovers DEF SuccessCovers, RefreshRenews
<1> QED BY <1>2, <1>3, <1>4, <1>5 DEF IInv

\* The other steps of the endpoint's coroutine.
LEMMA MainInv ==
  ASSUME IInv, SourceMissing \/ NoItems \/ Gathered \/ Abort \/ Escape
  PROVE  IInv'
<1>1. /\ UNCHANGED <<source, sourceStored, stored, old, gone, mode, plan, total, completed,
                     failed, item, raised>>
      /\ Accounting' /\ At({"done"})' = At({"done"})
  <2>1. UNCHANGED <<source, sourceStored, stored, old, gone, mode, plan, total, completed,
                     failed, item, raised>>
    BY DEF SourceMissing, NoItems, Gathered, Abort, Escape, db, count
  <2> QED BY <2>1, SamePlaces
<1>2. CASE SourceMissing
  <2> USE <1>1, <1>2 DEF SourceMissing
  <2>1. TypeOK'
    BY DEF IInv, TypeOK, Status
  <2>2. Lifecycle' /\ Outcomes' /\ Published'
    BY DEF IInv, Lifecycle, Outcomes, Published
  <2>3. PlanCovers' /\ SuccessCovers' /\ RefreshRenews'
    BY DEF PlanCovers, SuccessCovers, RefreshRenews
  <2> QED BY <2>1, <2>2, <2>3 DEF IInv
<1>3. CASE NoItems
  <2> USE <1>1, <1>3 DEF NoItems
  <2>1. TypeOK'
    BY DEF IInv, TypeOK, Status, NoProgress
  <2>2. At({"done"}) = {}
    BY DEF IInv, Lifecycle, At
  <2>3. Lifecycle' /\ Outcomes' /\ Published'
    BY <2>2 DEF IInv, Lifecycle, Outcomes, Published
  <2>4. PlanCovers' /\ SuccessCovers' /\ RefreshRenews'
    BY DEF PlanCovers, SuccessCovers, RefreshRenews
  <2> QED BY <2>1, <2>3, <2>4 DEF IInv
<1>4. CASE Gathered
  <2> USE <1>1, <1>4 DEF Gathered, db
  <2>1. TypeOK'
    BY DEF IInv, TypeOK
  <2>2. \A o \in plan : item[o] = "done"
    BY DEF At
  <2>3. Lifecycle' /\ Outcomes' /\ Published'
    BY <2>2 DEF IInv, Lifecycle, Outcomes, Published
  <2>4. PlanCovers' /\ SuccessCovers' /\ RefreshRenews'
    BY DEF IInv, Lifecycle, PlanCovers, SuccessCovers, RefreshRenews
  <2> QED BY <2>1, <2>3, <2>4 DEF IInv
<1>5. CASE Abort \/ Escape
  <2> USE <1>1, <1>5 DEF Abort, Escape, db
  <2>1. TypeOK'
    BY DEF IInv, TypeOK, Status
  <2>2. Lifecycle' /\ Outcomes' /\ Published'
    BY DEF IInv, Lifecycle, Outcomes, Published
  <2>3. PlanCovers' /\ SuccessCovers' /\ RefreshRenews'
    BY DEF IInv, Lifecycle, PlanCovers, SuccessCovers, RefreshRenews
  <2> QED BY <2>1, <2>2, <2>3 DEF IInv
<1> QED BY <1>2, <1>3, <1>4, <1>5

------------------------------------------------------------------------------
(* What the steps of an item's coroutine preserve.                           *)

\* A coroutine that moves is one the plan started, and its endpoint's coroutine is
\* waiting in gather or has left it by an exception.
LEMMA Moving ==
  ASSUME IInv, NEW o \in Occurrence, item[o] \notin {"absent", "done"}
  PROVE  /\ o \in plan
         /\ main = "gather" \/ (main = "returned" /\ raised # "none")
BY DEF IInv, TypeOK, Lifecycle

\* What a move within the uncounted places, or within the others, leaves alone.
LEMMA MoveKeeps ==
  ASSUME IInv, NEW o \in Occurrence, NEW s \in ItemState \ {"absent", "done"}, Goto(o, s),
         item[o] \notin {"absent", "done"},
         (item[o] \in {"counted", "broken"}) <=> (s \in {"counted", "broken"}),
         UNCHANGED <<main, mode, plan, total, completed, failed, progress>>,
         status' = status,
         raised' = raised \/ (raised = "none" /\ raised' \in {"auth", "other"})
  PROVE  Accounting' /\ Lifecycle' /\ Published'
<1>1. /\ item' \in [Occurrence -> ItemState] /\ item'[o] = s
      /\ \A p \in Occurrence \ {o} : item'[p] = item[p]
      /\ At({"done"})' = At({"done"}) \ {o} /\ o \notin At({"done"})
      /\ Uncounted' = Uncounted
  <2>1. Uncounted' = Uncounted
    BY Moves DEF IInv, TypeOK, Uncounted, At, ItemState
  <2> QED BY <2>1, Moves DEF IInv, At
<1>2. Accounting' /\ Published'
  BY <1>1 DEF IInv, Accounting, Published
<1>3. o \in plan /\ (main = "gather" \/ (main = "returned" /\ raised # "none"))
  BY Moving
<1>4. Lifecycle'
  BY <1>1, <1>3 DEF IInv, TypeOK, Lifecycle
<1> QED BY <1>2, <1>4

LEMMA AcquireInv ==
  ASSUME IInv, NEW o \in Occurrence, Acquire(o) \/ ItemFailed(o)
  PROVE  IInv'
<1> USE DEF Acquire, ItemFailed, db, count
<1>1. PICK s \in {"fetching", "failed"} : Goto(o, s)
  OBVIOUS
<1>2. /\ item' \in [Occurrence -> ItemState] /\ item'[o] = s
      /\ \A p \in Occurrence \ {o} : item'[p] = item[p]
  BY <1>1, Moves DEF IInv, ItemState
<1>3. Accounting' /\ Lifecycle' /\ Published'
  BY <1>1, MoveKeeps DEF ItemState
<1>4. TypeOK'
  BY <1>2 DEF IInv, TypeOK
<1>5. Outcomes'
  BY <1>2 DEF IInv, Outcomes
<1>6. PlanCovers' /\ SuccessCovers' /\ RefreshRenews'
  BY DEF IInv, PlanCovers, SuccessCovers, RefreshRenews
<1> QED BY <1>3, <1>4, <1>5, <1>6 DEF IInv

LEMMA ItemStoredInv ==
  ASSUME IInv, NEW o \in Occurrence, ItemStored(o)
  PROVE  IInv'
<1> USE DEF ItemStored, count
<1>1. /\ item' \in [Occurrence -> ItemState] /\ item'[o] = "ok"
      /\ \A p \in Occurrence \ {o} : item'[p] = item[p]
  BY Moves DEF IInv, ItemState
<1>2. Accounting' /\ Lifecycle' /\ Published'
  BY MoveKeeps DEF ItemState
<1>3. stored \subseteq stored' /\ old' \subseteq old /\ stored \ old \subseteq stored' \ old'
      /\ o[1] \in stored' \ old'
  OBVIOUS
<1>4. TypeOK'
  BY <1>1, OccurrenceItem DEF IInv, TypeOK
<1>5. Outcomes'
  BY <1>1, <1>3 DEF IInv, Outcomes
<1>6. PlanCovers'
  <2> SUFFICES ASSUME main \in {"gather", "final"}, NEW i \in planned
               PROVE  \/ \E p \in plan : p[1] = i
                      \/ /\ i \in stored' \union gone
                         /\ mode = "refresh" => i \notin old' \ gone
    BY DEF PlanCovers
  <2> QED BY <1>3 DEF IInv, PlanCovers
<1>7. SuccessCovers' /\ RefreshRenews'
  BY <1>3 DEF IInv, SuccessCovers, RefreshRenews
<1> QED BY <1>2, <1>4, <1>5, <1>6, <1>7 DEF IInv

LEMMA ItemUnavailableInv ==
  ASSUME IInv, NEW o \in Occurrence, ItemUnavailable(o)
  PROVE  IInv'
<1> USE DEF ItemUnavailable, count
<1>1. /\ item' \in [Occurrence -> ItemState] /\ item'[o] = "lost"
      /\ \A p \in Occurrence \ {o} : item'[p] = item[p]
  BY Moves DEF IInv, ItemState
<1>2. Accounting' /\ Lifecycle' /\ Published'
  BY MoveKeeps DEF ItemState
<1>3. gone \subseteq gone' /\ o[1] \in gone'
  OBVIOUS
<1>4. TypeOK'
  BY <1>1, OccurrenceItem DEF IInv, TypeOK
<1>5. Outcomes'
  BY <1>1, <1>3 DEF IInv, Outcomes
<1>6. PlanCovers'
  <2> SUFFICES ASSUME main \in {"gather", "final"}, NEW i \in planned
               PROVE  \/ \E p \in plan : p[1] = i
                      \/ /\ i \in stored \union gone'
                         /\ mode = "refresh" => i \notin old \ gone'
    BY DEF PlanCovers
  <2> QED BY <1>3 DEF IInv, PlanCovers
<1>7. SuccessCovers' /\ RefreshRenews'
  BY <1>3 DEF IInv, SuccessCovers, RefreshRenews
<1> QED BY <1>2, <1>4, <1>5, <1>6, <1>7 DEF IInv

\* An exception in a coroutine, before or after it was counted.
LEMMA RaiseInv ==
  ASSUME IInv, NEW o \in Occurrence, ItemAuthError(o) \/ ItemRaises(o)
  PROVE  IInv'
<1> USE DEF ItemAuthError, ItemRaises, Raise, db, count
<1>1. PICK s \in {"raised", "broken"} : /\ Goto(o, s)
                                        /\ s = "broken" <=> item[o] = "counted"
  OBVIOUS
<1>2. /\ item' \in [Occurrence -> ItemState] /\ item'[o] = s
      /\ \A p \in Occurrence \ {o} : item'[p] = item[p]
  BY <1>1, Moves DEF IInv, ItemState
<1>3. raised' = raised \/ (raised = "none" /\ raised' \in {"auth", "other"})
  OBVIOUS
<1>4. Accounting' /\ Lifecycle' /\ Published'
  BY <1>1, <1>3, MoveKeeps DEF ItemState
<1>5. TypeOK'
  BY <1>2, <1>3 DEF IInv, TypeOK
<1>6. Outcomes'
  BY <1>1, <1>2 DEF IInv, Outcomes
<1>7. PlanCovers' /\ SuccessCovers' /\ RefreshRenews'
  BY DEF IInv, PlanCovers, SuccessCovers, RefreshRenews
<1> QED BY <1>4, <1>5, <1>6, <1>7 DEF IInv

LEMMA CountInv ==
  ASSUME IInv, NEW o \in Occurrence, Count(o)
  PROVE  IInv'
<1> USE DEF Count, db
<1>1. /\ item' \in [Occurrence -> ItemState] /\ item'[o] = "counted"
      /\ \A p \in Occurrence \ {o} : item'[p] = item[p]
      /\ Uncounted' = Uncounted \ {o} /\ o \in Uncounted
      /\ At({"done"})' = At({"done"})
  BY Moves DEF IInv, TypeOK, ItemState, Uncounted, At
<1>2. /\ completed' \in Nat /\ failed' \in Nat
      /\ completed <= completed' /\ failed <= failed'
      /\ completed' + failed' = completed + failed + 1
      /\ failed' = 0 => failed = 0 /\ item[o] # "failed"
  BY DEF IInv, TypeOK
<1>3. Accounting'
  <2>1. Uncounted \subseteq Occurrence
    BY DEF Uncounted, At
  <2>2. Cardinality(Uncounted) \in Nat /\ Cardinality(Uncounted') = Cardinality(Uncounted) - 1
    BY <1>1, <2>1, OccurrencesFinite, FS_RemoveElement
  <2> QED BY <1>2, <2>2 DEF IInv, TypeOK, Accounting
<1>4. Published'
  BY <1>1, <1>2 DEF IInv, TypeOK, Published
<1>5. Lifecycle'
  <2>1. o \in plan /\ (main = "gather" \/ (main = "returned" /\ raised # "none"))
    BY Moving
  <2> QED BY <1>1, <2>1 DEF IInv, Lifecycle
<1>6. TypeOK'
  BY <1>1, <1>2 DEF IInv, TypeOK
<1>7. Outcomes'
  BY <1>1, <1>2 DEF IInv, Outcomes
<1>8. PlanCovers' /\ SuccessCovers' /\ RefreshRenews'
  BY DEF IInv, PlanCovers, SuccessCovers, RefreshRenews
<1> QED BY <1>3, <1>4, <1>5, <1>6, <1>7, <1>8 DEF IInv

LEMMA PublishInv ==
  ASSUME IInv, NEW o \in Occurrence, Publish(o)
  PROVE  IInv'
<1> USE DEF Publish, count
<1>1. /\ item' \in [Occurrence -> ItemState] /\ item'[o] = "done"
      /\ \A p \in Occurrence \ {o} : item'[p] = item[p]
      /\ Uncounted' = Uncounted
  BY Moves DEF IInv, TypeOK, ItemState, Uncounted, At
<1>2. Accounting' /\ Published'
  BY <1>1 DEF IInv, TypeOK, Accounting, Published
<1>3. Lifecycle'
  <2>1. o \in plan /\ (main = "gather" \/ (main = "returned" /\ raised # "none"))
    BY Moving
  <2> QED BY <1>1, <2>1 DEF IInv, Lifecycle
<1>4. TypeOK'
  BY <1>1 DEF IInv, TypeOK, Status
<1>5. Outcomes'
  BY <1>1 DEF IInv, Outcomes
<1>6. PlanCovers' /\ SuccessCovers' /\ RefreshRenews'
  BY DEF IInv, PlanCovers, SuccessCovers, RefreshRenews
<1> QED BY <1>2, <1>3, <1>4, <1>5, <1>6 DEF IInv

------------------------------------------------------------------------------
(* What the surroundings preserve.                                           *)

LEMMA StopInv == ASSUME IInv, Stop PROVE IInv'
<1> USE DEF Stop, NoCoroutine, db
<1>1. TypeOK'
  BY DEF IInv, TypeOK, ItemState
<1>2. Uncounted' = {} /\ At({"done"})' = {}
  BY DEF Uncounted, At
<1>3. Accounting' /\ Published'
  BY <1>2, FS_EmptySet DEF Accounting, Published
<1>4. Lifecycle' /\ Outcomes' /\ PlanCovers' /\ SuccessCovers' /\ RefreshRenews'
  BY DEF IInv, Lifecycle, Outcomes, PlanCovers, SuccessCovers, RefreshRenews
<1> QED BY <1>1, <1>3, <1>4 DEF IInv

\* Between runs there is no coroutine whose outcome a growing or ageing row could deny.
LEMMA SurroundingsInv ==
  ASSUME IInv, SourceGrows \/ RowAges
  PROVE  IInv'
<1>1. /\ main = "idle" /\ old \subseteq old' /\ old' \subseteq stored /\ source' \subseteq Items
      /\ sourceStored' \in BOOLEAN
      /\ UNCHANGED <<stored, gone, status, progress, local, planned>>
  BY DEF IInv, TypeOK, SourceGrows, RowAges
<1>2. UNCHANGED <<main, mode, plan, total, completed, failed, item, raised>>
  BY <1>1 DEF local, count
<1>3. \A o \in Occurrence : item[o] = "absent"
  BY <1>1 DEF IInv, TypeOK, Lifecycle
<1>4. TypeOK'
  BY <1>1, <1>2 DEF IInv, TypeOK
<1>5. Accounting' /\ Published'
  BY <1>1, <1>2, SamePlaces DEF IInv, Published
<1>6. Outcomes'
  BY <1>2, <1>3 DEF Outcomes
<1>7. Lifecycle' /\ PlanCovers' /\ SuccessCovers' /\ RefreshRenews'
  BY <1>1, <1>2 DEF IInv, Lifecycle, PlanCovers, SuccessCovers, RefreshRenews
<1> QED BY <1>4, <1>5, <1>6, <1>7 DEF IInv

------------------------------------------------------------------------------
(* The theorems.                                                             *)

LEMMA StutterInv == ASSUME IInv, UNCHANGED vars PROVE IInv'
<1>1. UNCHANGED <<source, sourceStored, stored, old, gone, status, progress, main, mode,
                  plan, total, completed, failed, item, raised, planned>>
  BY DEF vars, db, local, count
<1>2. Accounting' /\ Published'
  BY <1>1, SamePlaces DEF IInv, Published
<1>3. TypeOK' /\ Lifecycle' /\ Outcomes'
  BY <1>1 DEF IInv, TypeOK, Lifecycle, Outcomes
<1>4. PlanCovers' /\ SuccessCovers' /\ RefreshRenews'
  BY <1>1 DEF IInv, PlanCovers, SuccessCovers, RefreshRenews
<1> QED BY <1>2, <1>3, <1>4 DEF IInv

\* Every step, of the endpoint's coroutine, of an item's or of the surroundings, keeps
\* the invariant.
LEMMA NextInv == IInv /\ [Next]_vars => IInv'
<1> SUFFICES ASSUME IInv, [Next]_vars PROVE IInv'
  OBVIOUS
<1>1. CASE \E m \in Modes : Begin(m)
  BY <1>1, BeginInv
<1>2. CASE MainStep
  BY <1>2, MainInv, PlanInv, FinishInv DEF MainStep
<1>3. ASSUME NEW o \in Occurrence, ItemStep(o) PROVE IInv'
  BY <1>3, AcquireInv, ItemStoredInv, ItemUnavailableInv, RaiseInv, CountInv, PublishInv
     DEF ItemStep
<1>4. CASE Stop
  BY <1>4, StopInv
<1>5. CASE SourceGrows \/ RowAges
  BY <1>5, SurroundingsInv
<1>6. CASE UNCHANGED vars
  BY <1>6, StutterInv
<1> QED BY <1>1, <1>2, <1>3, <1>4, <1>5, <1>6 DEF Next

LEMMA Inductive == Spec => []IInv
BY InitInv, NextInv, PTL DEF Spec

\* Every variable keeps its type, for any items, modes and concurrency; in particular
\* only stored rows grow old, and completed never underflows (_run_item_endpoint).
THEOREM TypeCorrect == Spec => []TypeOK
<1>1. IInv => TypeOK
  BY DEF IInv
<1> QED BY <1>1, Inductive, PTL

\* Each occurrence the source pages list is completed, failed or not yet counted, once
\* each, whatever the order of the coroutines and also after an abort (process_item).
THEOREM AccountingHolds == Spec => []Accounting
<1>1. IInv => Accounting
  BY DEF IInv
<1> QED BY <1>1, Inductive, PTL

\* SUCCESS means every item listed when the run planned is stored or refused for good.
THEOREM SuccessCoversHolds == Spec => []SuccessCovers
<1>1. IInv => SuccessCovers
  BY DEF IInv
<1> QED BY <1>1, Inductive, PTL

\* A refresh run that ends in SUCCESS leaves no planned row past its freshness window
\* but those the service refused.
THEOREM RefreshRenewsHolds == Spec => []RefreshRenews
<1>1. IInv => RefreshRenews
  BY DEF IInv
<1> QED BY <1>1, Inductive, PTL

\* The published counters never move backwards while the run lasts.
THEOREM ProgressMonotoneHolds == Spec => ProgressMonotone
<1> DEFINE Forward == At({"done"}) # {} => /\ progress.completed <= progress'.completed
                                           /\ progress.failed <= progress'.failed
<1>1. IInv /\ [Next]_vars => [Forward]_progress
  <2> SUFFICES ASSUME IInv, [Next]_vars, progress' # progress, At({"done"}) # {}
               PROVE  /\ progress.completed <= progress'.completed
                      /\ progress.failed <= progress'.failed
    BY DEF Forward
  <2>1. progress.completed <= completed /\ progress.failed <= failed
    BY DEF IInv, Published
  <2>2. ~NoItems
    BY DEF IInv, Lifecycle, At, NoItems
  <2>3. Finish \/ \E o \in Occurrence : Publish(o)
    BY <2>2 DEF Next, MainStep, Begin, SourceMissing, Plan, Gathered, Abort, Escape,
       ItemStep, Acquire, ItemStored, ItemUnavailable, ItemFailed, ItemAuthError, ItemRaises,
       Raise, Count, Stop, SourceGrows, RowAges, vars, db
  <2>4. progress' = [total |-> total, completed |-> completed, failed |-> failed]
    BY <2>3 DEF Finish, Publish
  <2> QED BY <2>1, <2>4
<1> QED BY <1>1, Inductive, PTL DEF Spec, ProgressMonotone

------------------------------------------------------------------------------
(* The refinement of EndpointJob.                                            *)

\* Where the endpoint's run is, as EndpointJob sees it.
Where == IF main \in {"load", "gather", "final"} THEN "running"
         ELSE IF main = "returned" /\ raised = "auth" THEN "aborted" ELSE "idle"

\* Each step is one of EndpointJob's or writes the same status again.
LEMMA JobStep == IInv /\ [Next]_vars => [Job!Next]_(Job!vars)
<1> SUFFICES ASSUME IInv, [Next]_vars
             PROVE  Job!Next \/ UNCHANGED <<status, Where>>
  BY DEF Job!vars, Where
<1> USE DEF Job!Next, Where
<1>1. CASE \E m \in Modes : Begin(m)
  BY <1>1 DEF Begin, Job!Begin
<1>2. CASE SourceMissing \/ NoItems \/ Finish
  BY <1>2 DEF IInv, Lifecycle, SourceMissing, NoItems, Finish, FinalStatus, Job!End, Job!Final
<1>3. CASE Plan \/ Gathered
  BY <1>3 DEF Plan, Gathered, db
<1>4. CASE Abort
  BY <1>4 DEF Abort, Job!Abort
<1>5. CASE Escape
  BY <1>5 DEF Escape, db, Job!End
<1>6. ASSUME NEW o \in Occurrence, ItemStep(o)
      PROVE  Job!Next \/ UNCHANGED <<status, Where>>
  <2>1. item[o] \notin {"absent", "done"} /\ UNCHANGED main
    BY <1>6 DEF ItemStep, Acquire, ItemStored, ItemUnavailable, ItemFailed, ItemAuthError,
       ItemRaises, Raise, Count, Publish
  <2>2. main = "gather" \/ (main = "returned" /\ raised # "none")
    BY <2>1, Moving
  <2>3. main = "returned" => UNCHANGED raised
    BY <1>6, <2>2 DEF ItemStep, Acquire, ItemStored, ItemUnavailable, ItemFailed,
       ItemAuthError, ItemRaises, Raise, Count, Publish
  <2>4. UNCHANGED Where
    BY <2>1, <2>2, <2>3
  <2>5. CASE Publish(o)
    <3>1. status' = "RUNNING" /\ (Where # "aborted" => status = "RUNNING")
      BY <2>2, <2>5 DEF IInv, TypeOK, Lifecycle, Publish
    <3> QED BY <2>4, <3>1 DEF Job!LatePublish
  <2>6. CASE ~Publish(o)
    BY <1>6, <2>4, <2>6 DEF ItemStep, Acquire, ItemStored, ItemUnavailable, ItemFailed,
       ItemAuthError, ItemRaises, Raise, Count, db
  <2> QED BY <2>5, <2>6
<1>7. CASE Stop
  BY <1>7 DEF Stop, db, Job!End, Job!Exit
<1>8. CASE SourceGrows \/ RowAges
  BY <1>8 DEF SourceGrows, RowAges, local
<1>9. CASE UNCHANGED vars
  BY <1>9 DEF vars, db, local
<1> QED BY <1>1, <1>2, <1>3, <1>4, <1>5, <1>6, <1>7, <1>8, <1>9 DEF Next, MainStep

\* The fan-out's row goes through the statuses FetchTask counts on (EndpointJob):
\* RUNNING while the run lasts, then one final status; RUNNING again only after an abort.
THEOREM ImplementsJob == Spec => WritesAsAJob
<1>1. Init => Job!Init
  BY DEF Init, Job!Init
<1> QED BY <1>1, JobStep, Inductive, PTL DEF Spec, Job!Spec, WritesAsAJob

------------------------------------------------------------------------------
(* A fan-out ends: it is never stuck, and every step brings its end nearer.  *)

\* A coroutine that an exception ended has told gather.
EndedByError == \A o \in Occurrence : item[o] \in {"raised", "broken"} => raised # "none"

UnderWay == {"fetching", "ok", "lost", "failed", "counted"}

\* While gather waits it can return, raise, or some coroutine can take its next step: one
\* that is under way, or one that finds a free permit.
FanoutGoesOn ==
  main = "gather" =>
    \/ raised # "none"
    \/ At({"done"}) = plan
    \/ At(UnderWay) # {}
    \/ At({"waiting"}) # {} /\ Cardinality(At({"fetching"})) < Concurrency

\* What an item's coroutine still does after each place.
Steps(s) ==
  IF s = "waiting" THEN 4
  ELSE IF s = "fetching" THEN 3
  ELSE IF s \in {"ok", "lost", "failed"} THEN 2
  ELSE IF s = "counted" THEN 1
  ELSE 0

Whole == Occurrence \X (1..4)
Units == {u \in Whole : u[2] <= Steps(item[u[1]])}

\* What the endpoint's own coroutine still does; at "load", the items it may start.
Ahead ==
  IF main = "load" THEN Cardinality(Whole) + 3
  ELSE IF main = "gather" THEN 2
  ELSE IF main = "final" THEN 1
  ELSE 0

StepsLeft == Ahead + Cardinality(Units)

FanoutRunsDown == [][main # "idle" /\ main' # "idle" => StepsLeft' < StepsLeft]_local

LEMMA InitEnded == Init => EndedByError
BY DEF Init, EndedByError, NoCoroutine

LEMMA NextEnded == IInv /\ EndedByError /\ [Next]_vars => EndedByError'
<1> SUFFICES ASSUME IInv, EndedByError, [Next]_vars PROVE EndedByError'
  OBVIOUS
<1> USE DEF EndedByError
<1>1. ASSUME NEW o \in Occurrence, ItemStep(o) PROVE EndedByError'
  <2>1. PICK s \in ItemState :
          /\ Goto(o, s)
          /\ s \in {"raised", "broken"} => raised' # "none"
          /\ raised # "none" => raised' # "none"
    BY <1>1 DEF ItemStep, Acquire, ItemStored, ItemUnavailable, ItemFailed, ItemAuthError,
                ItemRaises, Raise, Count, Publish, ItemState
  <2>2. item'[o] = s /\ \A p \in Occurrence \ {o} : item'[p] = item[p]
    BY <2>1, Moves DEF IInv
  <2> QED BY <2>1, <2>2
<1>2. CASE Plan
  BY <1>2 DEF Plan
<1>3. CASE Stop
  BY <1>3 DEF Stop, NoCoroutine
<1>4. CASE \/ \E m \in Modes : Begin(m)
           \/ SourceMissing \/ NoItems \/ Gathered \/ Finish \/ Abort \/ Escape
           \/ SourceGrows \/ RowAges \/ UNCHANGED vars
  <2>1. UNCHANGED <<item, raised>>
    BY <1>4 DEF Begin, SourceMissing, NoItems, Gathered, Finish, Abort, Escape, SourceGrows,
                RowAges, vars, local
  <2> QED BY <2>1
<1> QED BY <1>1, <1>2, <1>3, <1>4 DEF Next, MainStep

\* gather never waits for ever on coroutines that wait for each other, however few permits
\* the semaphore has (process_item, bili_fetching_item_concurrency).
THEOREM FanoutGoesOnHolds == Spec => []FanoutGoesOn
<1>1. IInv /\ EndedByError => FanoutGoesOn
  <2> SUFFICES ASSUME IInv, EndedByError, main = "gather", raised = "none",
                      At({"done"}) # plan, At(UnderWay) = {}
               PROVE  At({"waiting"}) # {} /\ Cardinality(At({"fetching"})) < Concurrency
    BY DEF FanoutGoesOn
  <2>1. At({"done"}) \subseteq plan /\ plan \subseteq Occurrence
    BY DEF IInv, TypeOK, Lifecycle, At
  <2>2. PICK o \in plan : item[o] # "done"
    BY <2>1 DEF At
  <2>3. item[o] \in ItemState /\ item[o] \notin {"absent", "done", "raised", "broken"}
    BY <2>1, <2>2 DEF IInv, TypeOK, Lifecycle, EndedByError
  <2>4. item[o] \notin UnderWay
    BY <2>1, <2>2 DEF At
  <2>5. item[o] = "waiting"
    BY <2>3, <2>4 DEF ItemState, UnderWay
  <2>6. At({"fetching"}) = {}
    BY DEF At, UnderWay
  <2>7. o \in At({"waiting"})
    BY <2>1, <2>5 DEF At
  <2>8. Cardinality(At({"fetching"})) = 0
    BY <2>6, FS_EmptySet
  <2> QED BY <2>7, <2>8, FanoutAssumption
<1> QED BY <1>1, Inductive, InitEnded, NextEnded, PTL DEF Spec

LEMMA StepsTyped == ASSUME NEW s PROVE Steps(s) \in 0..4
BY DEF Steps

LEMMA UnitsFinite ==
  /\ IsFiniteSet(Whole) /\ Cardinality(Whole) \in Nat
  /\ IsFiniteSet(Units) /\ Cardinality(Units) \in Nat /\ Cardinality(Units) <= Cardinality(Whole)
  /\ IsFiniteSet(Units') /\ Cardinality(Units') \in Nat /\ Cardinality(Units') <= Cardinality(Whole)
<1>1. IsFiniteSet(1..4)
  <2>1. 1 \in Int /\ 4 \in Int
    OBVIOUS
  <2> QED BY <2>1, FS_Interval, Zenon
<1>2. IsFiniteSet(Whole)
  BY <1>1, OccurrencesFinite, FS_Product DEF Whole
<1>3. Units \subseteq Whole /\ Units' \subseteq Whole
  BY DEF Units, Whole, Occurrence
<1> QED BY <1>2, <1>3, FS_Subset, FS_CardinalityType

\* Where a coroutine goes there is less to do.
LEMMA ItemSteps ==
  ASSUME NEW o \in Occurrence, ItemStep(o)
  PROVE  /\ UNCHANGED main
         /\ \E s \in ItemState : Goto(o, s) /\ Steps(s) < Steps(item[o])
BY DEF ItemStep, Acquire, ItemStored, ItemUnavailable, ItemFailed, ItemAuthError, ItemRaises,
       Raise, Count, Publish, ItemState, Steps

LEMMA ItemRunsDown ==
  ASSUME TypeOK, NEW o \in Occurrence, ItemStep(o)
  PROVE  StepsLeft' < StepsLeft
<1>1. PICK s \in ItemState : Goto(o, s) /\ Steps(s) < Steps(item[o])
  BY ItemSteps
<1>2. item'[o] = s /\ \A p \in Occurrence \ {o} : item'[p] = item[p]
  BY <1>1, Moves
<1>3. Steps(s) \in 0..4 /\ Steps(item[o]) \in 0..4
  BY StepsTyped
<1>4. Units' \subseteq Units
  <2> SUFFICES ASSUME NEW p \in Occurrence, NEW n \in 1..4, n <= Steps(item'[p])
               PROVE  n <= Steps(item[p])
    BY DEF Units, Whole, Occurrence
  <2>1. CASE p = o
    BY <1>1, <1>2, <1>3, <2>1
  <2>2. CASE p # o
    BY <1>2, <2>2
  <2> QED BY <2>1, <2>2
<1>5. <<o, Steps(item[o])>> \in Units /\ <<o, Steps(item[o])>> \notin Units'
  <2>1. /\ Steps(item[o]) \in 1..4 /\ Steps(item[o]) <= Steps(item[o])
        /\ ~(Steps(item[o]) <= Steps(item'[o]))
    BY <1>1, <1>2, <1>3
  <2> QED BY <2>1 DEF Units, Whole
<1>6. /\ Cardinality(Units') <= Cardinality(Units)
      /\ Cardinality(Units) = Cardinality(Units') => Units = Units'
  BY <1>4, UnitsFinite, FS_Subset
<1>7. Ahead' = Ahead /\ Ahead \in Nat
  BY ItemSteps, UnitsFinite DEF Ahead, Whole, Occurrence
<1>8. Cardinality(Units') < Cardinality(Units)
  BY <1>5, <1>6, UnitsFinite
<1> QED BY <1>7, <1>8, UnitsFinite DEF StepsLeft

LEMMA MainRunsDown ==
  ASSUME MainStep
  PROVE  StepsLeft' < StepsLeft
<1>1. CASE Plan
  <2>1. Ahead = Cardinality(Whole) + 3 /\ Ahead' = 2
    BY <1>1 DEF Plan, Ahead
  <2> QED BY <2>1, UnitsFinite DEF StepsLeft
<1>2. CASE SourceMissing \/ NoItems \/ Gathered \/ Finish \/ Abort \/ Escape
  <2>1. \/ main \in {"load", "gather", "final"} /\ main' = "returned"
        \/ main = "gather" /\ main' = "final"
    BY <1>2 DEF SourceMissing, NoItems, Gathered, Finish, Abort, Escape
  <2>2. Ahead' \in Nat /\ Ahead \in Nat /\ Ahead' < Ahead
    BY <2>1, UnitsFinite DEF Ahead
  <2>3. item' = item
    BY <1>2 DEF SourceMissing, NoItems, Gathered, Finish, Abort, Escape
  <2>4. Units' = Units
    BY <2>3 DEF Units, Whole, Occurrence
  <2> QED BY <2>2, <2>4, UnitsFinite DEF StepsLeft
<1> QED BY <1>1, <1>2 DEF MainStep

\* From the start of a run until the last left-over coroutine has returned, every step
\* brings the end nearer: each occurrence is asked for, counted and published once, and the
\* endpoint's coroutine starts them once (_run_item_endpoint).
THEOREM FanoutRunsDownHolds == Spec => FanoutRunsDown
<1> DEFINE Falls == main # "idle" /\ main' # "idle" => StepsLeft' < StepsLeft
<1>1. IInv /\ [Next]_vars => [Falls]_local
  <2> SUFFICES ASSUME IInv, [Next]_vars, main # "idle", main' # "idle", local' # local
               PROVE  StepsLeft' < StepsLeft
    OBVIOUS
  <2>1. ~(\E m \in Modes : Begin(m)) /\ ~Stop /\ ~SourceGrows /\ ~RowAges /\ ~UNCHANGED vars
    BY DEF Begin, Stop, SourceGrows, RowAges, vars
  <2> QED BY <2>1, MainRunsDown, ItemRunsDown DEF Next, IInv
<1> HIDE DEF Falls
<1>2. Spec => [][Falls]_local
  BY <1>1, Inductive, PTL DEF Spec
<1> QED BY <1>2 DEF Falls, FanoutRunsDown
=============================================================================
