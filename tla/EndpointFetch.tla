--------------------------- MODULE EndpointFetch ---------------------------
(***************************************************************************)
(* One uid-level endpoint of the fetching stage: the paginated download of *)
(* a remote listing (videos, dynamics, album, ...) into the per-uid SQLite *)
(* store, with per-page retries, a resume cursor committed together with   *)
(* the pages, the incremental scan over already known ids, and crashes.    *)
(*                                                                         *)
(* Items are numbers; a newer item has a larger number and listings are    *)
(* newest first, so the remote listing is a set.                           *)
(***************************************************************************)
EXTENDS Integers, Sequences, FiniteSets, SequencesExt

CONSTANTS
  Strategies,   \* the pagination strategies explored, see Strategy below
  Modes,        \* the modes explored: "full", and "incremental", which "refresh" equals here
  PageSizes,    \* the page sizes explored
  InitItems,    \* bound: the remote listing starts with at most this many items
  MaxItems,     \* bound: items ever uploaded
  MaxDeletes,   \* bound: items ever deleted upstream
  Glitches,     \* TRUE: a token service may point back to an earlier request
  MaxRetries,   \* settings.bili_fetching_max_retries
  MaxPages      \* bound: no new run starts on a payload longer than this

\* "page":   numbered pages with a total count and item ids   (videos)
\* "cursor": an opaque offset with has_more, ids, no total    (dynamics)
\* "album":  numbered pages without an item-id path           (album)
Strategy == {"page", "cursor", "album"}

ASSUME EndpointAssumption ==
  /\ Strategies \subseteq Strategy
  /\ Modes \subseteq {"incremental", "full"}
  /\ PageSizes \subseteq Nat \ {0}
  /\ InitItems \in Nat /\ MaxItems \in Nat /\ InitItems <= MaxItems
  /\ MaxDeletes \in Nat /\ Glitches \in BOOLEAN
  /\ MaxRetries \in Nat /\ MaxPages \in Nat

VARIABLES
  strategy, pageSize,  \* the endpoint's spec; chosen once
  remote,              \* ids the service lists now
  newest,              \* the newest id ever uploaded
  deletes,             \* how many items were deleted upstream
  payload,             \* raw_payload: the stored pages, <<>> for no row
  cursor,              \* fetch_progress.cursor, NoCursor for NULL or no row
  status,              \* fetch_endpoint_state.status
  run,                 \* the coroutine's locals, Idle when none is running
  baseline,            \* history: ids listed when this download's page 1 was asked
  excused              \* history: the download is known not to be complete

env  == <<strategy, pageSize, remote, newest, deletes>>
db   == <<payload, cursor, status>>
hist == <<baseline, excused>>
vars == <<env, db, run, hist>>

NoCursor == 0
FirstRequest == IF strategy = "cursor" THEN MaxItems + 1 ELSE 1

Page == [ids : SUBSET (1..MaxItems), last : BOOLEAN, total : 0..MaxItems]

Status == {"PENDING", "RUNNING", "SUCCESS", "FAILED_RETRYABLE",
           "FAILED_EXHAUSTED", "FAILED_PERMANENT"}

\* scan: known_ids is not None. old: the pages of the store that this run keeps,
\* stored_pages in a scan and stored_pages_base otherwise.
Idle == [pc |-> "idle", mode |-> "none", scan |-> FALSE, req |-> NoCursor,
         old |-> <<>>, pages |-> <<>>, seen |-> {}, known |-> {}, attempt |-> 0]

------------------------------------------------------------------------------
(* The remote service and the pagination strategies.                         *)

Rank(i) == Cardinality({j \in remote : j >= i})

\* The ids one request returns: a block of positions, or what is older than a token.
ReplyIds(req) ==
  IF strategy = "cursor"
  THEN LET older == {i \in remote : i < req}
       IN {i \in older : Cardinality({j \in older : j >= i}) <= pageSize}
  ELSE {i \in remote : (req - 1) * pageSize < Rank(i) /\ Rank(i) <= req * pageSize}

Oldest(S) == CHOOSE i \in S : \A j \in S : i <= j

\* _paginate_page: last when there is no item or the count is covered.
\* _paginate_cursor, _anchor: last when the reply has no has_more / anchor.
IsLastPage(req) ==
  IF strategy = "cursor"
  THEN \A i \in remote : i < req => i \in ReplyIds(req)
  ELSE ReplyIds(req) = {} \/ req * pageSize >= Cardinality(remote)

Reply(req) == [ids |-> ReplyIds(req), last |-> IsLastPage(req),
               total |-> IF strategy = "cursor" THEN 0 ELSE Cardinality(remote)]

NextRequest(req) ==
  IF strategy = "cursor" THEN Oldest(ReplyIds(req)) ELSE req + 1

------------------------------------------------------------------------------
(* Reading the stored pages.                                                 *)

HasIds == strategy # "album"

PagesIds(pages) == UNION {pages[k].ids : k \in DOMAIN pages}
StoredIds == PagesIds(payload)

\* _stored_total_count: the first positive count found in the stored pages.
StoredTotal(pages) ==
  LET counts == SelectSeq(pages, LAMBDA p : p.total > 0)
  IN IF counts = <<>> THEN 0 ELSE Head(counts).total

\* _stored_cursor_incomplete: the last stored page still announced more. Numbered
\* pages carry no such flag.
StoredCursorIncomplete(pages) ==
  strategy = "cursor" /\ pages # <<>> /\ ~Last(pages).last

\* Seeded fault: the latest-window snapshot, old pages are not merged back.
MergeIncremental_FreshOnly(fresh, stored) == fresh

\* _merge_incremental_pages: fresh pages first, then the stored ones; a page whose
\* ids were all seen is dropped, a page without ids is always kept.
MergeIncremental(fresh, stored) ==
  FoldLeft(LAMBDA merged, p :
             IF p.ids # {} /\ p.ids \subseteq PagesIds(merged)
             THEN merged ELSE Append(merged, p),
           <<>>, fresh \o stored)

------------------------------------------------------------------------------
(* The coroutine.                                                            *)

Running == run.pc # "idle"

\* History only: whether the store itself shows a scan that older pages are missing.
GapShows == payload = <<>> \/ strategy # "cursor" \/ StoredCursorIncomplete(payload)

\* RUNNING is written, then progress and payload are read. Without a cursor an
\* incremental run scans; with one every mode resumes at it.
Start(mode) ==
  /\ ~Running
  /\ Len(payload) <= MaxPages
  /\ LET scan == cursor = NoCursor /\ mode = "incremental" /\ payload # <<>> /\ HasIds
     IN run' = [pc      |-> "fetch",
                mode    |-> mode,
                scan    |-> scan,
                req     |-> IF cursor # NoCursor THEN cursor ELSE FirstRequest,
                old     |-> IF mode = "full" THEN <<>> ELSE payload,
                pages   |-> <<>>,
                seen    |-> {},
                known   |-> IF scan THEN StoredIds ELSE {},
                attempt |-> 1]
  /\ status' = "RUNNING"
  /\ IF cursor = NoCursor \/ mode = "full"
     THEN /\ baseline' = remote
          /\ excused' = \/ cursor # NoCursor
                        \/ excused /\ ~GapShows
     ELSE UNCHANGED hist
  /\ UNCHANGED <<env, payload, cursor>>

\* Seeded fault: only the counts are looked at, not the last stored page.
IncompleteListing_CountOnly(page) ==
  LET total == IF page.total > 0 THEN page.total ELSE StoredTotal(run.old)
  IN total > 0 /\ Cardinality(run.known) < total

\* A page without one unknown id ends a scan, unless the counts or the last stored
\* page say that the store misses older items and the listing goes on.
IncompleteListing(page) ==
  LET total == IF page.total > 0 THEN page.total ELSE StoredTotal(run.old)
  IN \/ total > 0 /\ Cardinality(run.known) < total
     \/ StoredCursorIncomplete(run.old)

BoundaryHit(page) ==
  /\ run.scan /\ page.ids # {} /\ page.ids \subseteq run.known
  /\ page.last \/ ~IncompleteListing(page)

\* Seeded fault: the cursor is written ahead of the page it follows.
CommitPage_CursorFirst(pages, page, next) ==
  IF run.scan THEN UNCHANGED <<payload, cursor>>
  ELSE /\ payload' = run.old \o run.pages
       /\ cursor' = IF page.last THEN NoCursor ELSE next

\* The page is committed with the request that follows it, in one transaction.
CommitPage(pages, page, next) ==
  IF run.scan THEN UNCHANGED <<payload, cursor>>
  ELSE /\ payload' = run.old \o pages
       /\ cursor' = IF page.last THEN NoCursor ELSE next

\* The request answered: append, commit, then decide whether the loop goes on.
PageArrived(page, next) ==
  LET pages == Append(run.pages, page)
      seen  == run.seen \union {run.req}
      over  == page.last \/ next \in seen
  IN /\ CommitPage(pages, page, next)
     /\ run' = [run EXCEPT
                  !.pages   = pages,
                  !.seen    = seen,
                  !.known   = IF run.scan /\ ~BoundaryHit(page)
                              THEN @ \union page.ids ELSE @,
                  !.attempt = 1,
                  !.req     = IF page.last THEN @ ELSE next,
                  !.pc      = CASE BoundaryHit(page) /\ ~page.last -> "safety"
                                [] ~BoundaryHit(page) /\ ~over -> "fetch"
                                [] OTHER -> "store"]

FetchPage ==
  /\ run.pc = "fetch"
  /\ PageArrived(Reply(run.req),
                 IF IsLastPage(run.req) THEN NoCursor ELSE NextRequest(run.req))
  /\ excused' = (excused /\ ~(run.mode = "full" /\ run.req = FirstRequest))
  /\ UNCHANGED <<env, status, baseline>>

\* A token service may hand out a token that was used already.
FetchPageGlitch ==
  /\ run.pc = "fetch" /\ strategy = "cursor" /\ Glitches
  /\ ~IsLastPage(run.req)
  /\ \E next \in run.seen \union {run.req} : PageArrived(Reply(run.req), next)
  /\ excused' = TRUE
  /\ UNCHANGED <<env, status, baseline>>

\* One more page after the boundary, tried once; its failure is only logged.
SafetyPage ==
  /\ run.pc = "safety"
  /\ \/ run' = [run EXCEPT !.pc = "store", !.pages = Append(@, Reply(run.req))]
     \/ run' = [run EXCEPT !.pc = "store"]
  /\ UNCHANGED <<env, db, hist>>

\* AuthError, ResourceUnavailableError, or an exception that is no FetchingError;
\* an exception of the store itself reaches the safety net of _run_endpoint.
FailPermanent ==
  /\ run.pc \in {"fetch", "store", "mark"}
  /\ status' = "FAILED_PERMANENT"
  /\ run' = Idle
  /\ UNCHANGED <<env, payload, cursor, hist>>

\* Seeded fault: the attempt counter is not compared with the limit.
FailRetryable_NoLimit ==
  /\ run.pc = "fetch"
  /\ status' = "FAILED_RETRYABLE"
  /\ run' = [run EXCEPT !.attempt = @ + 1]
  /\ UNCHANGED <<env, payload, cursor, hist>>

\* 412, timeout or another FetchingError while attempts are left.
FailRetryable ==
  /\ run.pc = "fetch"
  /\ run.attempt <= MaxRetries
  /\ status' = "FAILED_RETRYABLE"
  /\ run' = [run EXCEPT !.attempt = @ + 1]
  /\ UNCHANGED <<env, payload, cursor, hist>>

\* The last attempt, or InvalidRequestError on any: recorded as retryable first ...
FailLast ==
  /\ run.pc = "fetch"
  /\ status' = "FAILED_RETRYABLE"
  /\ run' = [run EXCEPT !.pc = "exhaust"]
  /\ UNCHANGED <<env, payload, cursor, hist>>

\* Seeded fault: the exhausted driver does not raise and the page is asked again.
Exhaust_NoRaise ==
  /\ run.pc = "exhaust"
  /\ status' = "FAILED_EXHAUSTED"
  /\ run' = [run EXCEPT !.pc = "fetch"]
  /\ UNCHANGED <<env, payload, cursor, hist>>

\* ... and then rewritten, after which the run returns.
Exhaust ==
  /\ run.pc = "exhaust"
  /\ status' = "FAILED_EXHAUSTED"
  /\ run' = Idle
  /\ UNCHANGED <<env, payload, cursor, hist>>

\* The store refuses the failure's own row: on_attempt_failed raises, or the safety net
\* suppresses the error, and the run returns without a final status.
FailUnrecorded ==
  /\ run.pc \in {"fetch", "exhaust", "store", "mark"}
  /\ run' = Idle
  /\ UNCHANGED <<env, db, hist>>

\* Seeded fault: a run that a loop ended keeps the cursor of its last page.
StoreResults_KeepCursor ==
  /\ run.pc = "store"
  /\ payload' = IF run.scan THEN MergeIncremental(run.pages, run.old)
                ELSE run.old \o run.pages
  /\ run' = [run EXCEPT !.pc = "mark"]
  /\ UNCHANGED <<env, cursor, status, hist>>

\* After the loop: the merged, overwritten or appended pages with a cleared cursor.
StoreResults ==
  /\ run.pc = "store"
  /\ payload' = CASE run.scan -> MergeIncremental(run.pages, run.old)
                  [] ~run.scan /\ run.mode = "full" -> run.pages
                  [] OTHER -> run.old \o run.pages
  /\ cursor' = NoCursor
  /\ run' = [run EXCEPT !.pc = "mark"]
  /\ UNCHANGED <<env, status, hist>>

MarkSuccess ==
  /\ run.pc = "mark"
  /\ status' = "SUCCESS"
  /\ run' = Idle
  /\ UNCHANGED <<env, payload, cursor, hist>>

\* The process dies: the store keeps what was committed.
Crash ==
  /\ Running
  /\ run' = Idle
  /\ UNCHANGED <<env, db, hist>>

------------------------------------------------------------------------------
(* The service's listing changes under the run.                              *)

Upload ==
  /\ newest < MaxItems
  /\ newest' = newest + 1
  /\ remote' = remote \union {newest + 1}
  /\ UNCHANGED <<strategy, pageSize, deletes, db, run, hist>>

Delete ==
  /\ deletes < MaxDeletes
  /\ \E i \in remote : remote' = remote \ {i}
  /\ deletes' = deletes + 1
  /\ UNCHANGED <<strategy, pageSize, newest, db, run, hist>>

------------------------------------------------------------------------------

Init ==
  /\ strategy \in Strategies /\ pageSize \in PageSizes
  /\ \E k \in 0..InitItems : newest = k /\ remote = 1..k
  /\ deletes = 0
  /\ payload = <<>> /\ cursor = NoCursor /\ status = "PENDING"
  /\ run = Idle
  /\ baseline = {} /\ excused = FALSE

RunStep ==
  \/ FetchPage \/ FetchPageGlitch \/ SafetyPage
  \/ FailPermanent \/ FailRetryable \/ FailLast \/ Exhaust \/ FailUnrecorded
  \/ StoreResults \/ MarkSuccess

Next ==
  \/ \E mode \in Modes : Start(mode)
  \/ RunStep
  \/ Crash
  \/ Upload \/ Delete

Spec == Init /\ [][Next]_vars

\* A started coroutine is scheduled by the event loop until it returns; every
\* request ends, by an answer, an error or its timeout.
FairSpec == Spec /\ WF_vars(RunStep)

------------------------------------------------------------------------------
(* Properties.                                                               *)

Item == 1..MaxItems

Run == [pc : {"idle", "fetch", "safety", "exhaust", "store", "mark"},
        mode : Modes \union {"none"}, scan : BOOLEAN, req : Nat,
        old : Seq(Page), pages : Seq(Page), seen : SUBSET Nat,
        known : SUBSET Item, attempt : 0..(MaxRetries + 1)]

TypeOK ==
  /\ strategy \in Strategies /\ pageSize \in PageSizes
  /\ remote \subseteq Item /\ newest \in 0..MaxItems /\ deletes \in 0..MaxDeletes
  /\ payload \in Seq(Page) /\ cursor \in Nat /\ status \in Status
  /\ run \in Run
  /\ baseline \subseteq Item /\ excused \in BOOLEAN

\* When an endpoint is marked SUCCESS the store holds every item that was listed
\* when the download began, whatever was uploaded, retried, crashed and resumed in
\* between, and whatever hole an earlier download had left: the scan of
\* _run_endpoint_inner finds it again. Excused are a listing with deletions, a reply
\* that looped, and a full run started on a leftover cursor (FullRefetches).
SuccessIsComplete ==
  status = "SUCCESS" /\ ~Running /\ deletes = 0 /\ ~excused => baseline \subseteq StoredIds

\* A stored cursor never runs ahead of the stored pages: what the listing had
\* before the cursor is in the payload, so a resume after a crash loses nothing
\* (save_raw_page_and_progress commits both in one transaction).
Passed == IF strategy = "cursor" THEN {i \in baseline : i >= cursor}
          ELSE {i \in baseline : Rank(i) <= (cursor - 1) * pageSize}

CursorBehindPages ==
  cursor # NoCursor /\ deletes = 0 /\ ~excused => Passed \subseteq StoredIds

\* SUCCESS leaves no cursor behind, or the next incremental run would resume in the
\* middle of the listing instead of scanning it from page 1.
SuccessClearsCursor == status = "SUCCESS" => cursor = NoCursor

\* Only a full run may drop an id that was stored: scans merge, resumes append.
OnlyFullForgets ==
  [][run.mode # "full" => StoredIds \subseteq StoredIds']_payload

\* Every started run returns: pages are requested at most once, retries end.
RunEnds == Running ~> ~Running

\* "`full` ignores existing data and reruns everything" (CONTEXT.md, mode): after a
\* full run that was marked SUCCESS everything listed at its start is stored.
FullRefetches ==
  [][run.pc = "mark" /\ run.mode = "full" /\ status' = "SUCCESS"
       => baseline \subseteq StoredIds]_vars

Job == INSTANCE EndpointJob WITH
  Fanout <- FALSE,
  job <- IF Running THEN "running" ELSE "idle"

\* The row of the endpoint goes through the statuses FetchTask counts on, in their order:
\* a status that ends the run is written once, and nothing is written after it
\* (update_endpoint_state in _run_endpoint and its retry driver).
WritesAsAJob == Job!Spec
=============================================================================
