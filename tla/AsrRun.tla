------------------------------- MODULE AsrRun -------------------------------
(***************************************************************************)
(* An ASR run over the videos of a uid (processing/runner): discovery and  *)
(* filters, the budget, the pool of a producer and workers over a bounded  *)
(* queue, each item's retry loop, the derived pipeline and task statuses,  *)
(* and the coverage audit; with failing store writes, a worker killed by   *)
(* one, and crashes. Fetching may add videos at any time. AsrItem is the   *)
(* work of one item; the pool's promise is WorkPool.                       *)
(*                                                                         *)
(* rows, stage_task and the known videos outlive the process. One run per  *)
(* uid at a time.                                                          *)
(***************************************************************************)
EXTENDS Integers, Sequences, FiniteSets

CONSTANTS
  N,            \* videos the uid may have
  Workers,      \* bili_processing_audio_workers
  QueueMax,     \* bili_processing_queue_maxsize
  MaxAttempts,  \* bili_processing_max_retries + 1
  Options,      \* the argument records a run may be started with
  MaxRuns,      \* bound on the runs of a behaviour
  MaxFaults,    \* bound on its failing store writes
  MaxCrashes    \* bound on its crashes

Videos == 1..N
None == 0   \* the sentinel that ends a worker, and no item

Option == [full : BOOLEAN, failedOnly : BOOLEAN, dry : BOOLEAN,
           named : BOOLEAN,           \* only_bvids or exclude_bvids is given
           among : SUBSET Videos,     \* what they leave
           limit : Nat \union {-1},   \* -1 for None
           budget : Nat \union {-1}]  \* the estimate allowed, one unit a video

ASSUME RunAssumption ==
  /\ {N, MaxAttempts} \subseteq Nat \ {0} /\ QueueMax \in Int
  /\ IsFiniteSet(Workers) /\ Workers # {}
  /\ {MaxRuns, MaxFaults, MaxCrashes} \subseteq Nat
  /\ Options \subseteq Option /\ \A o \in Options : o.named \/ o.among = Videos

VARIABLES
  known,    \* videos with a video_detail payload
  row,      \* audio_transcription.status, "none" without a row
  task,     \* stage_task.status, "none" without a row
  pipe,     \* the audio entry of its payload: status and rollup
  pc,       \* the run's step, "idle" when there is none
  opts,     \* its arguments
  rollup,   \* the counts the workers update
  over,     \* whether the estimate exceeds the budget
  toPut,    \* what the producer still has to put: items, then one None a worker
  queue,    \* the bounded queue
  worker,   \* by worker: its step, item and attempt
  good, bad,  \* history: items the current run's workers settled
  audited,  \* history: the videos known to the last audit, if the last run made one
  runs, faults, crashes

disk == <<known, row, task, pipe>>
pool == <<rollup, toPut, queue, worker, good, bad>>
bounds == <<runs, faults, crashes>>
vars == <<disk, pc, opts, over, pool, audited, bounds>>

Counts(total, completed, failed, skipped) ==
  [total |-> total, completed |-> completed, failed |-> failed, skipped |-> skipped]
Zero == Counts(0, 0, 0, 0)
AtGet == [at |-> "get", item |-> None, attempt |-> 0]
Gone == [at |-> "gone", item |-> None, attempt |-> 0]
NoAudit == [made |-> FALSE, known |-> {}]

\* The process's own state when no run is in progress.
Forget ==
  /\ rollup' = Zero /\ toPut' = <<>> /\ queue' = <<>> /\ worker' = [w \in Workers |-> Gone]
  /\ over' = FALSE /\ good' = {} /\ bad' = {}

Init ==
  /\ known \in SUBSET Videos /\ row = [v \in Videos |-> "none"]
  /\ task = "none" /\ pipe = [status |-> "none", items |-> Zero]
  /\ pc = "idle" /\ opts \in Options /\ over = FALSE
  /\ rollup = Zero /\ toPut = <<>> /\ queue = <<>> /\ worker = [w \in Workers |-> Gone]
  /\ good = {} /\ bad = {} /\ audited = NoAudit
  /\ runs = 0 /\ faults = 0 /\ crashes = 0

\* Another process fetches more of the uid.
FetchMore ==
  /\ \E v \in Videos \ known : known' = known \union {v}
  /\ UNCHANGED <<row, task, pipe, pc, opts, over, pool, audited, bounds>>

------------------------------------------------------------------------------
(* The run's own steps.                                                      *)

Start(o) ==
  /\ pc = "idle" /\ runs < MaxRuns
  /\ pc' = (IF o.dry THEN "dry" ELSE "init") /\ opts' = o /\ runs' = runs + 1
  /\ Forget
  /\ UNCHANGED <<disk, audited, faults, crashes>>

To(step) == pc' = step /\ UNCHANGED opts

\* init_task keeps the entry of an earlier run; then the task and the pipeline are RUNNING.
InitTask ==
  /\ pc = "init" /\ To("discover")
  /\ task' = "RUNNING" /\ pipe' = [pipe EXCEPT !.status = "RUNNING"]
  /\ audited' = NoAudit
  /\ UNCHANGED <<known, row, over, pool, bounds>>

Failed(v) == row[v] = "failed"
Success(v) == row[v] = "success"

Considered(o) == known \intersect o.among

\* Seeded fault: the retry of failed videos takes every video that has a row.
Ready_AnyRow(o) ==
  {v \in Considered(o) : IF o.failedOnly THEN row[v] # "none" ELSE o.full \/ ~Success(v)}

\* What the filters before the limit leave.
Ready(o) ==
  {v \in Considered(o) : IF o.failedOnly THEN Failed(v) ELSE o.full \/ ~Success(v)}

Skipped(o) == IF o.failedOnly \/ o.full THEN 0 ELSE Cardinality({v \in Considered(o) : Success(v)})

\* In the order of their ids, the first `limit` of them.
Candidates(o) ==
  LET upTo[v \in 0..N] ==
        IF v = 0 THEN <<>>
        ELSE IF v \in Ready(o) /\ (o.limit >= 0 => Len(upTo[v - 1]) < o.limit)
             THEN Append(upTo[v - 1], v) ELSE upTo[v - 1]
  IN upTo[N]

Exceeds(o) == o.budget >= 0 /\ Len(Candidates(o)) > o.budget

\* _dry_run_audio: the candidates are listed, nothing is written.
DryRun ==
  /\ pc = "dry" /\ To("idle") /\ Forget
  /\ UNCHANGED <<disk, audited, bounds>>

DiscoverFails ==
  /\ pc = "discover" /\ To("finish")
  /\ pipe' = [status |-> "FAILED_PERMANENT", items |-> Counts(1, 0, 1, 0)]
  /\ UNCHANGED <<known, row, task, over, pool, audited, bounds>>

\* Seeded fault: one sentinel too few.
Sentinels_OneShort == [i \in 1..Cardinality(Workers) - 1 |-> None]

Sentinels == [i \in 1..Cardinality(Workers) |-> None]

\* Over the budget nothing is dispatched and every candidate counts as skipped.
Discover ==
  /\ pc = "discover"
  /\ LET items == Candidates(opts)
         counts == Counts(Len(items) + Skipped(opts), 0, 0, Skipped(opts))
     IN IF Exceeds(opts)
        THEN /\ pipe' = [status |-> "PARTIAL",
                         items |-> [counts EXCEPT !.skipped = counts.total]]
             /\ over' = TRUE /\ To("finish") /\ UNCHANGED pool
        ELSE /\ pipe' = [pipe EXCEPT !.items = counts] /\ rollup' = counts
             /\ UNCHANGED over
             /\ IF items = <<>>
                THEN To("derive") /\ UNCHANGED <<toPut, queue, worker, good, bad>>
                ELSE /\ To("pool")
                     /\ toPut' = items \o Sentinels /\ queue' = <<>>
                     /\ worker' = [w \in Workers |-> AtGet] /\ good' = {} /\ bad' = {}
  /\ UNCHANGED <<known, row, task, audited, bounds>>

\* The gather returns when the producer and all workers have.
PoolDone ==
  /\ pc = "pool" /\ toPut = <<>> /\ \A w \in Workers : worker[w].at = "gone"
  /\ To("derive")
  /\ UNCHANGED <<disk, over, pool, audited, bounds>>

PipelineStatus(c) ==
  CASE c.total - c.completed - c.failed - c.skipped > 0 -> "RUNNING"
    [] c.failed > 0 /\ c.completed + c.skipped > 0 -> "PARTIAL"
    [] c.failed > 0 -> "FAILED_PERMANENT"
    [] OTHER -> "SUCCESS"

DerivePipeline ==
  /\ pc = "derive" /\ pipe' = [status |-> PipelineStatus(rollup), items |-> rollup]
  /\ To("finish")
  /\ UNCHANGED <<known, row, task, over, pool, audited, bounds>>

ShouldAudit ==
  opts.limit < 0 /\ ~opts.named /\ ~over /\ pipe.status # "FAILED_PERMANENT"

\* Seeded fault: the audit looks at the failed rows only, not at the missing ones.
Complete_FailedRows == \A v \in known : ~Failed(v)

Complete == \A v \in known : Success(v)

TaskStatus(status) ==
  CASE status = "SUCCESS" -> "SUCCESS"
    [] status = "RUNNING" -> "RUNNING"
    [] status = "FAILED_PERMANENT" -> "FAILED_PERMANENT"
    [] OTHER -> "PARTIAL"

\* _audit_audio_coverage: a partial pipeline stays partial whatever the rows say.
Audit ==
  /\ pc = "finish" /\ ShouldAudit /\ ~audited.made
  /\ pipe' = [pipe EXCEPT !.status = IF @ = "PARTIAL" \/ ~Complete THEN "PARTIAL" ELSE "SUCCESS"]
  /\ audited' = [made |-> TRUE, known |-> known]
  /\ UNCHANGED <<known, row, task, pc, opts, over, pool, bounds>>

\* The status is stored, then the temporary files go.
Finish ==
  /\ pc = "finish" /\ (~ShouldAudit \/ audited.made)
  /\ task' = TaskStatus(pipe.status)
  /\ To("idle") /\ Forget
  /\ UNCHANGED <<known, row, pipe, audited, bounds>>

\* A store write of the run itself raises: the task stays as it is, RUNNING.
RunFails ==
  /\ pc \in {"init", "discover", "derive", "finish"} /\ faults < MaxFaults
  /\ faults' = faults + 1 /\ To("aborted")
  /\ UNCHANGED <<disk, over, pool, audited, runs, crashes>>

------------------------------------------------------------------------------
(* The producer and the workers. asyncio.gather does not cancel the others   *)
(* when a worker raises: after an abort they go on, with a store that the    *)
(* command closes under them.                                                *)

Live == pc \in {"pool", "aborted", "closed"}
StoreOpen == pc # "closed"

\* A store write succeeds, or raises: always once the store is closed.
WriteOk == StoreOpen /\ UNCHANGED faults
WriteFails == \/ ~StoreOpen /\ UNCHANGED faults
              \/ faults < MaxFaults /\ StoreOpen /\ faults' = faults + 1

Capacity == IF QueueMax > 1 THEN QueueMax ELSE 1

\* Seeded fault: the queue has no bound.
Put_Unbounded ==
  /\ Live /\ toPut # <<>>
  /\ queue' = Append(queue, Head(toPut)) /\ toPut' = Tail(toPut)
  /\ UNCHANGED <<disk, pc, opts, over, rollup, worker, good, bad, audited, bounds>>

Put ==
  /\ Live /\ toPut # <<>> /\ Len(queue) < Capacity
  /\ queue' = Append(queue, Head(toPut)) /\ toPut' = Tail(toPut)
  /\ UNCHANGED <<disk, pc, opts, over, rollup, worker, good, bad, audited, bounds>>

\* Seeded fault: the item stays in the queue, another worker may take it as well.
Get_Peek(w) ==
  /\ Live /\ worker[w].at = "get" /\ queue # <<>>
  /\ queue' = IF Head(queue) = None THEN Tail(queue) ELSE queue
  /\ worker' = [worker EXCEPT ![w] =
       IF Head(queue) = None THEN Gone ELSE [at |-> "work", item |-> Head(queue), attempt |-> 1]]
  /\ UNCHANGED <<disk, pc, opts, over, rollup, toPut, good, bad, audited, bounds>>

Get(w) ==
  /\ Live /\ worker[w].at = "get" /\ queue # <<>>
  /\ queue' = Tail(queue)
  /\ worker' = [worker EXCEPT ![w] =
       IF Head(queue) = None THEN Gone ELSE [at |-> "work", item |-> Head(queue), attempt |-> 1]]
  /\ UNCHANGED <<disk, pc, opts, over, rollup, toPut, good, bad, audited, bounds>>

\* Seeded fault: a failed item is not counted.
Settle_Uncounted(w, ok) ==
  /\ worker' = [worker EXCEPT ![w] = AtGet]
  /\ IF pc = "pool"
     THEN IF ok
          THEN /\ good' = good \union {worker[w].item}
               /\ rollup' = [rollup EXCEPT !.completed = @ + 1] /\ UNCHANGED bad
          ELSE bad' = bad \union {worker[w].item} /\ UNCHANGED <<rollup, good>>
     ELSE UNCHANGED <<rollup, good, bad>>

\* The outcome enters the rollup, of which an aborted run has no use.
Settle(w, ok) ==
  /\ worker' = [worker EXCEPT ![w] = AtGet]
  /\ IF pc # "pool" THEN UNCHANGED <<rollup, good, bad>>
     ELSE IF ok
     THEN /\ good' = good \union {worker[w].item}
          /\ rollup' = [rollup EXCEPT !.completed = @ + 1] /\ UNCHANGED bad
     ELSE /\ bad' = bad \union {worker[w].item}
          /\ rollup' = [rollup EXCEPT !.failed = @ + 1] /\ UNCHANGED good

Stays(w) == UNCHANGED <<known, task, pipe, pc, opts, over, toPut, queue, audited, runs, crashes>>

RowBecomes(w, status) == row' = [row EXCEPT ![worker[w].item] = status]

\* An attempt raises. The failure is recorded, and the row says failed, before a retry; an
\* exception while recording ends the item without a retry and without a row.
AttemptFails(w) ==
  /\ Live /\ worker[w].at = "work" /\ Stays(w)
  /\ \/ /\ WriteOk /\ RowBecomes(w, "failed")
        /\ \/ /\ worker[w].attempt < MaxAttempts
              /\ worker' = [worker EXCEPT ![w].attempt = @ + 1]
              /\ UNCHANGED <<rollup, good, bad>>
           \/ Settle(w, FALSE)
     \/ WriteFails /\ Settle(w, FALSE) /\ UNCHANGED row

\* The pages are transcribed and the resume cache is cleared.
WorkDone(w) ==
  /\ Live /\ worker[w].at = "work" /\ Stays(w)
  /\ worker' = [worker EXCEPT ![w].at = "save"]
  /\ UNCHANGED <<row, rollup, good, bad, faults>>

SaveSuccess(w) ==
  /\ Live /\ worker[w].at = "save" /\ Stays(w)
  /\ \/ WriteOk /\ RowBecomes(w, "success") /\ Settle(w, TRUE)
     \/ /\ WriteFails /\ UNCHANGED <<row, rollup, good, bad>>
        /\ worker' = [worker EXCEPT ![w].at = "net"]

\* The safety net records the failure; when that raises too, the worker dies of it.
SafetyNet(w) ==
  /\ Live /\ worker[w].at = "net" /\ Stays(w)
  /\ \/ WriteOk /\ RowBecomes(w, "failed") /\ Settle(w, FALSE)
     \/ /\ WriteFails /\ UNCHANGED <<row, rollup, good, bad>>
        /\ worker' = [worker EXCEPT ![w].at = "dead"]

\* The gather raises what the worker raised.
PoolRaises ==
  /\ pc = "pool" /\ \E w \in Workers : worker[w].at = "dead"
  /\ To("aborted")
  /\ UNCHANGED <<disk, over, pool, audited, bounds>>

\* The command reports the failure and closes the store.
CloseStore ==
  /\ pc = "aborted" /\ To("closed")
  /\ UNCHANGED <<disk, over, pool, audited, bounds>>

\* The process ends, with whatever still runs.
Exit ==
  /\ pc = "closed" /\ To("idle") /\ Forget
  /\ UNCHANGED <<disk, audited, bounds>>

Crash ==
  /\ pc # "idle" /\ crashes < MaxCrashes /\ crashes' = crashes + 1
  /\ To("idle") /\ Forget
  /\ UNCHANGED <<disk, audited, runs, faults>>

------------------------------------------------------------------------------
WorkerStep(w) == Get(w) \/ AttemptFails(w) \/ WorkDone(w) \/ SaveSuccess(w) \/ SafetyNet(w)

RunStep ==
  \/ DryRun \/ InitTask \/ Discover \/ DiscoverFails \/ PoolDone \/ DerivePipeline \/ Audit
  \/ Finish \/ RunFails \/ PoolRaises \/ CloseStore \/ Exit

Next ==
  \/ \E o \in Options : Start(o)
  \/ RunStep \/ Put
  \/ \E w \in Workers : WorkerStep(w)
  \/ FetchMore \/ Crash

Spec == Init /\ [][Next]_vars

\* The event loop runs every ready coroutine; calls out of the process have timeouts.
FairSpec ==
  Spec /\ WF_vars(RunStep) /\ WF_vars(Put) /\ \A w \in Workers : WF_vars(WorkerStep(w))

------------------------------------------------------------------------------
(* Properties.                                                               *)

CountsType == [total : 0..N, completed : 0..N, failed : 0..N, skipped : 0..N]
Statuses == {"none", "RUNNING", "PARTIAL", "SUCCESS", "FAILED_PERMANENT"}

TypeOK ==
  /\ known \subseteq Videos /\ row \in [Videos -> {"none", "failed", "success"}]
  /\ task \in Statuses /\ pipe \in [status : Statuses, items : CountsType]
  /\ pc \in {"idle", "dry", "init", "discover", "pool", "derive", "finish", "aborted", "closed"}
  /\ opts \in Options /\ rollup \in CountsType /\ over \in BOOLEAN
  /\ toPut \in Seq(Videos \union {None}) /\ queue \in Seq(Videos \union {None})
  /\ Len(queue) <= Capacity
  /\ worker \in [Workers -> [at : {"get", "work", "save", "net", "dead", "gone"},
                             item : Videos \union {None}, attempt : 0..MaxAttempts]]
  /\ good \subseteq Videos /\ bad \subseteq Videos
  /\ audited \in [made : BOOLEAN, known : SUBSET Videos]
  /\ runs \in 0..MaxRuns /\ faults \in 0..MaxFaults /\ crashes \in 0..MaxCrashes

\* When the pool is done its counts are the truth: every candidate was settled, each
\* counted completed has its transcription stored, each counted failed has a failed row
\* unless a write failed, and none is left to keep the pipeline RUNNING (_run_audio).
RunAccounts ==
  pc = "derive" =>
    /\ rollup.total = rollup.completed + rollup.failed + rollup.skipped
    /\ rollup.completed = Cardinality(good) /\ rollup.failed = Cardinality(bad)
    /\ \A v \in good : Success(v)
    /\ faults = 0 => \A v \in bad : Failed(v)

\* A task stored as SUCCESS by a run that audits coverage is one all of whose videos, as
\* far as they were known to the audit, have a stored transcription.
SuccessMeansCovered ==
  pc = "idle" /\ task = "SUCCESS" /\ audited.made => \A v \in audited.known : Success(v)

\* A stored transcription is lost only while a full run works on that very video: no
\* retry, filter, crash or failing write of another run takes it away.
TranscriptsKept ==
  [][\A v \in Videos : Success(v) /\ ~Success(v)' =>
       /\ opts.full /\ ~opts.failedOnly
       /\ \E w \in Workers : worker[w].item = v]_vars

\* While the pool is awaited somebody can go on: the producer finds room, a worker finds an
\* entry or has an item in hand, the gather raises or returns. No capacity, no number of
\* workers and no worker's end leaves everyone waiting (run_item_workers).
PoolGoesOn ==
  pc = "pool" =>
    \/ toPut # <<>> /\ Len(queue) < Capacity
    \/ \E w \in Workers : \/ worker[w].at = "get" /\ queue # <<>>
                          \/ worker[w].at \in {"work", "save", "net", "dead"}
    \/ toPut = <<>> /\ \A w \in Workers : worker[w].at = "gone"

\* A run ends, finished or aborted: no worker waits for an item that will never come and
\* the producer does not wait for room in the queue for ever.
AsrRunEnds == pc = "init" ~> pc = "idle"

InFlight == {worker[w].item : w \in {u \in Workers : worker[u].at \in {"work", "save", "net", "dead"}}}
Entries(s) == {s[i] : i \in DOMAIN s} \ {None}

Pool == INSTANCE WorkPool WITH
  Item <- Videos,
  phase <- IF pc = "pool" THEN "open" ELSE "closed",
  todo <- IF pc = "pool" THEN Entries(toPut) \union Entries(queue) \union InFlight ELSE {},
  good <- IF pc = "pool" THEN good ELSE {},
  bad <- IF pc = "pool" THEN bad ELSE {}

\* The pool of producer, queue and workers is the pool of WorkPool: an item is settled at
\* most once, none is dropped, and it closes by itself only when all are settled.
PoolImplemented == Pool!Spec
=============================================================================
