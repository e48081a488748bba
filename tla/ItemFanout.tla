----------------------------- MODULE ItemFanout -----------------------------
(***************************************************************************)
(* One item-level endpoint of the fetching stage (video_detail, opus_      *)
(* detail, ...): for every id in the source endpoint's stored pages one    *)
(* coroutine fetches the item under a semaphore, stores it, counts it and  *)
(* publishes the counters, while the endpoint's own coroutine waits in     *)
(* asyncio.gather and then writes the final status.                        *)
(*                                                                         *)
(* The source pages may name an id twice (merged pages overlap and no      *)
(* extractor removes duplicates), so coroutines are indexed by occurrence. *)
(***************************************************************************)
EXTENDS Integers, FiniteSets

CONSTANTS
  Items,        \* the item ids
  Doubled,      \* the ids the source pages name twice
  Filtered,     \* the ids spec.skip_item rejects (reposts, forwarded opus)
  Modes,        \* "incremental", "refresh", "full"
  Concurrency   \* max(settings.bili_fetching_item_concurrency, 1)

ASSUME FanoutAssumption ==
  /\ IsFiniteSet(Items) /\ Doubled \subseteq Items /\ Filtered \subseteq Items
  /\ Modes \subseteq {"incremental", "refresh", "full"}
  /\ Concurrency \in Nat \ {0}

Occurrence == (Items \X {1}) \union (Doubled \X {2})
OccurrencesOf(S) == {o \in Occurrence : o[1] \in S}

VARIABLES
  source,       \* ids in the source endpoint's raw_payload
  sourceStored, \* whether that row exists
  stored,       \* raw_payload rows of this endpoint
  old,          \* the stored rows older than bili_fetching_refresh_after_days
  gone,         \* items with a ResourceUnavailableError in stage_error
  status,       \* fetch_endpoint_state.status
  progress,     \* fetch_endpoint_state.item_progress
  main,         \* the endpoint coroutine: where it is
  mode,         \* its mode
  plan,         \* _ItemFanoutPlan.to_fetch, as occurrences
  total, completed, failed,  \* the closure's counters
  item,         \* the item coroutines: where each occurrence is
  raised,       \* the first exception gather saw: "none", "auth", "other"
  planned       \* history: the items of the last plan, filtered ones left out

db    == <<source, sourceStored, stored, old, gone, status, progress>>
count == <<total, completed, failed>>
local == <<main, mode, plan, count, item, raised>>
vars  == <<db, local, planned>>

NoProgress == [total |-> 0, completed |-> 0, failed |-> 0]

Status == {"PENDING", "RUNNING", "SUCCESS", "PARTIAL_ITEM",
           "FAILED_EXHAUSTED", "FAILED_PERMANENT"}

\* absent: no coroutine. ok, lost, failed: the outcome of _process_single_item, not
\* counted yet. raised, broken: an exception ended it before or after it was counted.
\* counted: save_progress is done, update_endpoint_state is not.
ItemState == {"absent", "waiting", "fetching", "ok", "lost", "failed",
              "raised", "counted", "broken", "done"}

At(S) == {o \in Occurrence : item[o] \in S}
Goto(o, s) == item' = [item EXCEPT ![o] = s]

------------------------------------------------------------------------------
(* The endpoint's coroutine, _run_item_endpoint.                             *)

Begin(m) ==
  /\ main = "idle"
  /\ status' = "RUNNING"
  /\ main' = "load" /\ mode' = m
  /\ UNCHANGED <<source, sourceStored, stored, old, gone, progress,
                 plan, count, item, raised, planned>>

SourceMissing ==
  /\ main = "load" /\ ~sourceStored
  /\ status' = "FAILED_PERMANENT"
  /\ main' = "returned"
  /\ UNCHANGED <<source, sourceStored, stored, old, gone, progress,
                 mode, plan, count, item, raised, planned>>

NoItems ==
  /\ main = "load" /\ sourceStored /\ source = {}
  /\ status' = "SUCCESS" /\ progress' = NoProgress
  /\ main' = "returned"
  /\ planned' = {}
  /\ UNCHANGED <<source, sourceStored, stored, old, gone,
                 mode, plan, count, item, raised>>

\* list_unavailable_items: an error row counts until the item was stored after all.
Unavailable == gone \ stored

\* Seeded fault: a refresh run takes the incremental list.
ToFetch_NeverStale(m) ==
  LET wanted == source \ Filtered
  IN IF m = "full" THEN wanted ELSE wanted \ (stored \union Unavailable)

\* _build_item_fanout_plan: the items one run asks for.
ToFetch(m) ==
  LET wanted == source \ Filtered
  IN CASE m = "full" -> wanted
       [] m = "refresh" -> (wanted \ (stored \union Unavailable)) \union (wanted \cap old)
       [] m = "incremental" -> wanted \ (stored \union Unavailable)

Plan ==
  /\ main = "load" /\ sourceStored /\ source # {}
  /\ plan' = OccurrencesOf(ToFetch(mode))
  /\ total' = Cardinality(OccurrencesOf(source))
  /\ completed' = total' - Cardinality(plan')
  /\ failed' = 0
  /\ item' = [o \in Occurrence |-> IF o \in plan' THEN "waiting" ELSE "absent"]
  /\ main' = "gather"
  /\ planned' = source \ Filtered
  /\ UNCHANGED <<db, mode, raised>>

\* gather returned normally: the cursor of fetch_progress is cleared ...
Gathered ==
  /\ main = "gather" /\ raised = "none" /\ At({"done"}) = plan
  /\ main' = "final"
  /\ UNCHANGED <<db, mode, plan, count, item, raised, planned>>

\* Seeded fault: one completed item is enough for SUCCESS.
FinalStatus_AnyCompleted ==
  IF failed > 0 /\ completed = 0 THEN "FAILED_EXHAUSTED" ELSE "SUCCESS"

FinalStatus ==
  CASE failed > 0 /\ completed > 0 -> "PARTIAL_ITEM"
    [] failed > 0 /\ completed = 0 -> "FAILED_EXHAUSTED"
    [] OTHER -> "SUCCESS"

\* Seeded fault: the final row counts only what this run fetched, not the skipped.
Finish_FetchedOnly ==
  /\ main = "final"
  /\ status' = FinalStatus
  /\ progress' = [total |-> total, failed |-> failed,
                  completed |-> completed + Cardinality(plan) - total]
  /\ main' = "returned"
  /\ UNCHANGED <<source, sourceStored, stored, old, gone,
                 mode, plan, count, item, raised, planned>>

\* ... and the final status follows in a commit of its own.
Finish ==
  /\ main = "final"
  /\ status' = FinalStatus
  /\ progress' = [total |-> total, completed |-> completed, failed |-> failed]
  /\ main' = "returned"
  /\ UNCHANGED <<source, sourceStored, stored, old, gone,
                 mode, plan, count, item, raised, planned>>

\* gather raised at the first FetchingError("auth_permanent_fail"). It does not cancel
\* the other coroutines.
Abort ==
  /\ main = "gather" /\ raised = "auth"
  /\ status' = "FAILED_PERMANENT"
  /\ main' = "returned"
  /\ UNCHANGED <<source, sourceStored, stored, old, gone, progress,
                 mode, plan, count, item, raised, planned>>

\* Any other exception leaves _run_item_endpoint and is swallowed by
\* gather_with_progress: no status is written.
Escape ==
  /\ main = "gather" /\ raised = "other"
  /\ main' = "returned"
  /\ UNCHANGED <<db, mode, plan, count, item, raised, planned>>

------------------------------------------------------------------------------
(* An item's coroutine, process_item and _process_single_item.               *)

Acquire(o) ==
  /\ item[o] = "waiting"
  /\ Cardinality(At({"fetching"})) < Concurrency
  /\ Goto(o, "fetching")
  /\ UNCHANGED <<db, main, mode, plan, count, raised, planned>>

\* All attempts of an item are one step: an answer, which is stored ...
ItemStored(o) ==
  /\ item[o] = "fetching"
  /\ stored' = stored \union {o[1]} /\ old' = old \ {o[1]}
  /\ Goto(o, "ok")
  /\ UNCHANGED <<source, sourceStored, gone, status, progress,
                 main, mode, plan, count, raised, planned>>

\* ... a terminal refusal, recorded as an error of the item ...
ItemUnavailable(o) ==
  /\ item[o] = "fetching"
  /\ gone' = gone \union {o[1]}
  /\ Goto(o, "lost")
  /\ UNCHANGED <<source, sourceStored, stored, old, status, progress,
                 main, mode, plan, count, raised, planned>>

\* Seeded fault: a row that could not be refreshed is deleted, its age is kept.
ItemFailed_Forgets(o) ==
  /\ item[o] = "fetching"
  /\ stored' = stored \ {o[1]}
  /\ Goto(o, "failed")
  /\ UNCHANGED <<source, sourceStored, old, gone, status, progress,
                 main, mode, plan, count, raised, planned>>

\* ... or the last failed attempt.
ItemFailed(o) ==
  /\ item[o] = "fetching"
  /\ Goto(o, "failed")
  /\ UNCHANGED <<db, main, mode, plan, count, raised, planned>>

\* Seeded fault: a store error after the counters moved counts the item as failed too.
ItemRaises_CountedTwice(o) ==
  /\ item[o] \in {"ok", "lost", "counted"}
  /\ raised' = IF raised = "none" THEN "other" ELSE raised
  /\ failed' = failed + 1
  /\ Goto(o, "raised")
  /\ UNCHANGED <<db, main, mode, plan, total, completed, planned>>

Raise(o, how, what) ==
  /\ raised' = IF raised = "none" THEN what ELSE raised
  /\ Goto(o, how)
  /\ UNCHANGED <<db, main, mode, plan, count, planned>>

\* AuthError, re-raised by process_item as FetchingError("auth_permanent_fail").
ItemAuthError(o) == item[o] = "fetching" /\ Raise(o, "raised", "auth")

\* An exception of the store (or of the progress reporter) before or after the count.
ItemRaises(o) ==
  \/ item[o] \in {"fetching", "ok"} /\ Raise(o, "raised", "other")
  \/ item[o] = "counted" /\ Raise(o, "broken", "other")

\* The counters move, then save_progress is awaited.
Count(o) ==
  /\ item[o] \in {"ok", "lost", "failed"}
  /\ completed' = IF item[o] = "failed" THEN completed ELSE completed + 1
  /\ failed' = IF item[o] = "failed" THEN failed + 1 ELSE failed
  /\ Goto(o, "counted")
  /\ UNCHANGED <<db, main, mode, plan, total, raised, planned>>

\* Seeded fault: the status follows from the counters so far.
Publish_Final(o) ==
  /\ item[o] = "counted"
  /\ status' = FinalStatus
  /\ progress' = [total |-> total, completed |-> completed, failed |-> failed]
  /\ Goto(o, "done")
  /\ UNCHANGED <<source, sourceStored, stored, old, gone,
                 main, mode, plan, count, raised, planned>>

\* update_endpoint_state writes the counters as they are by then, and RUNNING.
Publish(o) ==
  /\ item[o] = "counted"
  /\ status' = "RUNNING"
  /\ progress' = [total |-> total, completed |-> completed, failed |-> failed]
  /\ Goto(o, "done")
  /\ UNCHANGED <<source, sourceStored, stored, old, gone,
                 main, mode, plan, count, raised, planned>>

------------------------------------------------------------------------------
(* The process and its surroundings.                                         *)

NoCoroutine == [o \in Occurrence |-> "absent"]

\* The command ends, or the process dies at any point; what is left of the item
\* coroutines goes with it.
Stop ==
  /\ main # "idle"
  /\ main' = "idle" /\ mode' = "none" /\ plan' = {}
  /\ total' = 0 /\ completed' = 0 /\ failed' = 0
  /\ item' = NoCoroutine /\ raised' = "none"
  /\ UNCHANGED <<db, planned>>

\* Between runs the source endpoint is fetched and lists more, and rows grow old.
SourceGrows ==
  /\ main = "idle"
  /\ sourceStored' = TRUE
  /\ \E i \in Items : source' \in {source, source \union {i}}
  /\ UNCHANGED <<stored, old, gone, status, progress, local, planned>>

RowAges ==
  /\ main = "idle"
  /\ \E i \in stored : old' = old \union {i}
  /\ UNCHANGED <<source, sourceStored, stored, gone, status, progress, local, planned>>

------------------------------------------------------------------------------

Init ==
  /\ source = {} /\ sourceStored = FALSE
  /\ stored = {} /\ old = {} /\ gone = {}
  /\ status = "PENDING" /\ progress = NoProgress
  /\ main = "idle" /\ mode = "none" /\ plan = {}
  /\ total = 0 /\ completed = 0 /\ failed = 0
  /\ item = NoCoroutine /\ raised = "none"
  /\ planned = {}

MainStep ==
  \/ SourceMissing \/ NoItems \/ Plan \/ Gathered \/ Finish \/ Abort \/ Escape

ItemStep(o) ==
  \/ Acquire(o)
  \/ ItemStored(o) \/ ItemUnavailable(o) \/ ItemFailed(o) \/ ItemAuthError(o)
  \/ ItemRaises(o)
  \/ Count(o) \/ Publish(o)

Next ==
  \/ \E m \in Modes : Begin(m)
  \/ MainStep
  \/ \E o \in Occurrence : ItemStep(o)
  \/ Stop
  \/ SourceGrows \/ RowAges

Spec == Init /\ [][Next]_vars

------------------------------------------------------------------------------
(* Properties.                                                               *)

TypeOK ==
  /\ source \subseteq Items /\ sourceStored \in BOOLEAN
  /\ stored \subseteq Items /\ old \subseteq stored /\ gone \subseteq Items
  /\ status \in Status
  /\ progress \in [total : Nat, completed : Nat, failed : Nat]
  /\ main \in {"idle", "load", "gather", "final", "returned"}
  /\ mode \in Modes \union {"none"}
  /\ plan \subseteq Occurrence
  /\ total \in Nat /\ completed \in Nat /\ failed \in Nat
  /\ item \in [Occurrence -> ItemState]
  /\ raised \in {"none", "auth", "other"}
  /\ planned \subseteq Items

\* Every listed occurrence is completed, failed or not counted yet, at every
\* interleaving of the coroutines, also after an abort: no item is counted twice and
\* none is dropped (the counters of process_item).
Uncounted == At({"waiting", "fetching", "ok", "lost", "failed", "raised"})

Accounting == total = completed + failed + Cardinality(Uncounted)

\* SUCCESS means that every item listed when the run planned is stored or was refused
\* for good, whatever earlier runs failed, aborted or crashed.
SuccessCovers == status = "SUCCESS" => planned \subseteq stored \union gone

\* After a refresh run that ends in SUCCESS no planned row is past its freshness
\* window, unless the service refused the item (mode `refresh`, CONTEXT.md).
RefreshRenews ==
  main = "returned" /\ status = "SUCCESS" /\ mode = "refresh" => planned \cap old \subseteq gone

\* The published counters never move backwards within one run, although every
\* coroutine publishes after an await and the endpoint's own coroutine writes last.
ProgressMonotone ==
  [][At({"done"}) # {} => /\ progress.completed <= progress'.completed
                          /\ progress.failed <= progress'.failed]_progress

\* "AuthError from any item -> abort and mark permanently failed" (comment in
\* _run_item_endpoint): once the aborted run has returned, the endpoint stays
\* FAILED_PERMANENT until the next run begins.
AbortIsFinal ==
  [][main = "returned" /\ status = "FAILED_PERMANENT" => status' = "FAILED_PERMANENT"]_vars

Job == INSTANCE EndpointJob WITH
  Fanout <- TRUE,
  job <- IF main \in {"load", "gather", "final"} THEN "running"
         ELSE IF main = "returned" /\ raised = "auth" THEN "aborted"
         ELSE "idle"

\* The row of the fan-out goes through the statuses FetchTask counts on: RUNNING from
\* every coroutine while the run lasts, one final status, and only after an abort
\* RUNNING again (update_endpoint_state in _run_item_endpoint and process_item).
WritesAsAJob == Job!Spec
=============================================================================
