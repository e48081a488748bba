# Formal models of bili-unit

bili-unit downloads everything one Bilibili user (uid) has published into a
per-uid SQLite database and transcribes the audio of the videos. This directory
holds TLA+ models of its code, the TLC configurations that check them on small
instances, and proofs that TLAPS checks for every instance. Paths below are
relative to the repository; `runner/` is `bili_unit/fetching/runner/`, `processing/`
is `bili_unit/processing/`.

Check a run with `tlc -workers 2 -config MCFetchTask.cfg MCFetchTask`, the proofs of
a module with `tlapm TaskProofs.tla`, and so on for every module named `...Proofs` and for
`SetInduction`. `PROJECT.json` lists the runs, the lines every
definition stands for, the hazards, the findings and the theorems.

## 1. Inventory

The program is one asyncio process per command, with threads only under
SQLite. Its state is in the database; what is in memory (coroutine locals, the
rate limiter) is lost with the process. Nothing keeps two processes from working
on one uid.

| component | code | state | operations | hard behaviour | what makes it correct |
|---|---|---|---|---|---|
| fetch task | `runner/__init__.py`, `runner/_run_scope.py`, `fetching/command.py` | `stage_task`, `fetch_endpoint_state` | decide on the stored task; seed and reset rows; phase 1 (uid endpoints); phase 2 (fan-outs); derive the task status | crash between any two commits; a stale RUNNING task; two processes; rows left in an intermediate status | fan-outs read complete sources only; a run settles its scope; SUCCESS is backed by rows; a dead run is recovered, a live one is not disturbed; failed work is retried |
| uid endpoint | `runner/_endpoint.py`, `_adapters/_pagination.py`, `_retry.py` | `raw_payload` (pages), `fetch_progress.cursor`, endpoint status | incremental scan, resume, full; per-page retry; page + cursor commit; merge and final store | listing changes while it is paginated; crash and resume; holes; looping tokens | SUCCESS means complete; the cursor is never ahead; only full forgets; every run ends |
| item fan-out | `runner/_item_fanout.py`, `_progress.py` | `raw_payload` (items), `stage_error`, endpoint status and `item_progress` | plan; fetch under a semaphore; count; publish; final status; abort | N coroutines sharing counters across awaits; gather without cancellation; ids listed twice | no item dropped or counted twice; SUCCESS covers the plan; counters never go back; an abort is final |
| rate limiter | `fetching/rate_limit.py` | rates, limiters, pause and recovery times | `acquire`, `_try_recover`, `record_412` | coroutines sleeping on old deadlines; catching up after idle time; limiters replaced while in use | rates in bounds; recovery paced by the clock; limiters follow their class; pauses kept |
| fetching store | `fetching/_store.py` | the fetching tables | transactions of the runner; queries | which writes commit together | page and cursor together; see the modules above |
| connection | `_db/connection.py`, `_db/context.py` | one SQLite connection, one lock, a thread per call | execute, transaction, open, close | cancellation frees the lock, the thread goes on; close takes no lock; rollback ends whose transaction | transactions do not interleave |
| worker client | `fetching/worker_client.py`, `_protocol.py` | process handle, pending futures, request ids, `_started` | start with retries, request, response, timeout, crash | `start()` waits for a handshake that is refused until it has returned | not modelled, see 6 |
| ASR run and pool | `processing/runner/__init__.py`, `_pipeline_executor.py`, `_audio.py` | `stage_task` (asr), rows, rollup, queue | discover and filter; budget; produce and consume; rollup; coverage audit | bounded queue and sentinels; a raising worker; a store closed under survivors; fetching adds videos | every item settled at most once; counts equal the outcomes; SUCCESS covers the known videos; no deadlock |
| ASR item | `processing/runner/_audio.py`, `_audio_work.py`, `audio/` | resume cache, temporary files, `audio_transcription` | download, convert, cut, transcribe with fallbacks, cache, stitch, save | crash between any two steps; three retries nested; files of a killed run; cutting arithmetic | no audio left out of a stored transcript; nothing paid twice; one model; audio is what its range says; the fallback ends |
| observability | `observability/` | run and event rows | start, emit, complete | completion latch | a run completes once |
| adapter, catalog, credentials | `fetching/_bilibili_adapter.py`, `_adapters/`, `_endpoint_groups/`, `auth.py` | none | build requests, extract ids | tables, no state | constants of the models |
| user interface, configuration, logging, migration | `command/`, `workbench.py`, `tui.py`, `__main__.py`, `doctor.py`, `_env.py`, `_logging.py`, `tools/` | none of their own | delegation, printing; `delete_uid` | deleting the files of a running uid | - |

Interactions: `FetchingCommand.fetch_uid` opens the connection, builds store,
limiter and runner and calls `run_or_resume`. The runner starts one coroutine per
uid endpoint, waits for all, starts one per fan-out, which starts one per item; all
of them call `RateLimitController.acquire`, the adapter and the store. The ASR
stage reads what fetching stored and shares only the database and `RetryDriver`
with it. `ProcessingRunner.run` starts a producer and N workers over a bounded queue; a
worker gives one video to `run_item_with_retry`, which runs `_do_audio_work` and
records what became of it. The resume cache and the temporary files are outside
the database.

## 2. Modules

| module | models | checked by |
|---|---|---|
| `EndpointFetch` | one uid endpoint with its remote listing | `MCEndpointFetch.cfg`, `EndpointFullCursor.cfg` |
| `ItemFanout` | one item endpoint with all its coroutines | `MCItemFanout.cfg`, `ItemFanoutAbort.cfg` |
| `EndpointJob` | abstract: which statuses one endpoint's run writes, in which order | implemented by `EndpointFetch` and `ItemFanout` |
| `RateLimit`, `MCRateLimit` | the limiter and the coroutines going through it | `MCRateLimit.cfg`, `RateLimitPause.cfg` |
| `FetchTask`, `MCFetchTask` | the task of one uid, its runs and processes | `MCFetchTask.cfg`, `FetchTaskRetry.cfg`, `FetchTaskTakeOver.cfg` |
| `AsrRun`, `MCAsrRun` | ASR runs of one uid: discovery, pool, audit | `MCAsrRun.cfg` |
| `WorkPool` | abstract: the pool without producer, queue and workers | implemented by `AsrRun` |
| `AsrItem`, `MCAsrItem` | the transcription of one video over several runs | `MCAsrItem.cfg`, `AsrItemStale.cfg` |
| `AudioSplit` | the algorithms `AsrItem` cuts and stitches with | `MCAsrItem.cfg` |
| `RateLimitProofs`, `FanoutProofs`, `TaskProofs`, `EndpointProofs`, `AsrRunProofs`, `AsrItemProofs`, `SplitProofs` | theorems about `RateLimit`, `ItemFanout`, `FetchTask`, `EndpointFetch`, `AsrRun`, `AsrItem`, `AudioSplit` | tlapm |
| `SetInduction` | induction over the natural numbers, for the proofs | tlapm |

Operators named `X_Something` under the comment "Seeded fault" are deliberate
mistakes, each a variant of the definition `X` below it. No specification uses
them; putting one in the place of `X` makes a named property fail, which shows
that the property constrains the code it is about.

### EndpointFetch

Variables follow the tables: `payload` is the list of stored pages, `cursor` the
`fetch_progress` cursor, `status` the endpoint row; `run` holds the locals of
`_run_endpoint_inner`. An item is a number, a newer item a larger one, and a
listing is newest first, so the remote listing is a set and the page a request
returns is computed from it at the moment of the request: uploads shift numbered
pages and do not shift token pages, as with the service. One step is the code
between two awaits that matter: `Start` (RUNNING, read cursor and pages, choose
scan or resume; nothing else writes those rows in between), `FetchPage` (answer,
append, page + cursor transaction, boundary decision), `SafetyPage`, the
failures, `StoreResults` (final transaction), `MarkSuccess`. `Crash` may come at
any of them. `FailUnrecorded` is the store failing while a failure is recorded:
the driver passes that exception on and the run returns.

The three strategies stand for the shapes the catalog has: numbered pages with
ids and a count, an opaque token with ids and without a count (`cursor`,
`anchor` and `legacy_offset` differ in the name of the field only), and numbered
pages without an id path. `refresh` takes the incremental path here.

What is not promised is part of the statement: `SuccessIsComplete` leaves out
listings with upstream deletions (ids that are gone inflate the number of known
ids, and backfill compares numbers), downloads in which the service repeated a
token (the code accepts them as complete), and full runs started on a leftover
cursor, which is finding 1. The history variable `excused` records the last two,
`baseline` what was listed when the download's first page was asked for. After
an excused download the excuse ends when a full run restarts from page 1, or
when the store itself shows the gap to the next scan (`GapShows`).

Numbered pages can also leave a hole when an interrupted download is resumed
after uploads, but the count then exceeds the known ids and the next scan goes on
past the boundary; the run confirms that no such hole survives a SUCCESS for
which it counts.

### ItemFanout

Coroutines are indexed by occurrence, because the merged source pages may list an
id twice and nothing removes the duplicate. Each goes through waiting, fetching
(under the semaphore), an outcome, `Count` (the closure's counters), `Publish`
(status RUNNING with the counters of that moment). `Count` and `Publish` are two
steps because `save_progress` is awaited between them. The endpoint's own
coroutine waits in `gather`, which raises at the first exception and cancels
nobody; `Abort` and `Escape` are its two error paths. All attempts of one item
are one step: what distinguishes them is only waiting (see `RateLimit`). An exception
of the store or the reporter may end a coroutine before or after it was counted.

### RateLimit

Time is an integer clock. Rates are integers with 1600 for one request a second,
so that the floor of 0.05 is 80 and one permit per period of ten seconds is 160;
the model computes `round` with ties to even, as Python does. `Admit` is the
synchronous beginning of `acquire` (pause check, recovery, queueing at the global
limiter), `Resume` the continuation after the sleep, which does not look at the
pause again. Token buckets are external: a queued coroutine passes at some time.
`record_412` takes a lock that is never held across an await, so it is one step.
Halving rounds down in the integers; the instances choose rates for which it is
exact as long as the floor is not reached. The configured rates are any integers, as
neither `_env.py` nor the constructor looks at them: a rate configured below the floor is
raised to the floor by the first 412, and `QpsInBounds` says so. Pauses, cooldowns and
delays are not negative. A permit on a limiter that was replaced
while a coroutine queued is not told from one on the new limiter.

### FetchTask

Endpoints' own runs are reduced to the statuses they write (`UidBegin`,
`UidRetry`, `UidEnd`, `ItemBegin`, `ItemEnd`, `LatePublish`): the actions of
`EndpointJob`. `EndpointFetch` and `ItemFanout` are those runs in detail, and both
are checked to implement it (`WritesAsAJob`). Everything else is step by step: the
planner's branches, the three kinds of transactions of `prepare_task_run`
(`InitTask`, `MarkRunning`, one `Prepare` per row), the loops of phase 1 and 2
endpoint by endpoint, because each reads a row before it decides, and the final
status. `age` is the time since `stage_task.updated_at_ms` was written. Processes are
independent; `Crash` is the death of one, or a store error that leaves the planner, the
preparation or `_run` before phase 2.

Item coroutines that an aborted fan-out left behind outlive `_run`: they write until the
database is closed. So a run that wrote its result (`Finish`), or that raises after its
fan-outs have returned (`Raise`), is `closing` with its jobs, through the reporter's awaits,
until `Close`; `LatePublish` may come at any moment before that, any number of times. (A
row that changes between the reading of the statuses and the write of the result
gives the same task and rows as one that changes after it, so `Finish` reads and writes
in one step.) In phase 1 no coroutine outlives its job.

An argument of `{}` means no `--include` option, hence all endpoints or, on a
resume, the seeded ones.

Not in the model: endpoint names that are not in the catalog, the `run` and
`resume` entry points (no command calls them), and the branch for a source that
needs a credential its fan-out does not need, which the catalog does not have
(`TaskAssumption` says so).

### AsrRun and WorkPool

`row`, `task`, `pipe` and `known` are the tables a run reads and writes; everything
else dies with the process. A run is one of the argument records of `Options`.
`Start` to `Finish` follow `ProcessingRunner.run` and `_run_audio` await by await:
`InitTask`, `Discover` (filters, limit, budget and the first rollup) or
`DiscoverFails`, the pool, `DerivePipeline`, `Audit`, `Finish`. The order of the videos is that
of their numbers, as the code sorts ids. `FetchMore` adds a video between any two steps.

The pool is step by step: `Put` blocks on a full queue, `Get` on an empty one, a
worker's item goes through `AttemptFails`, `WorkDone`, `SaveSuccess`, and `SafetyNet` when
a store write raises outside the retry loop. What a failing write does is the code's:
while a failure is recorded it is swallowed with the failure (no row, no retry);
while a success is stored the item is recorded as failed; in the safety net it
kills the worker. Then `asyncio.gather` raises and the survivors go on, first with
an open store (`aborted`), then with a closed one (`closed`), until the process ends.

`WorkPool` keeps of all this three sets: what is left, what went well, what went badly.
The mapping (`Pool` at the end of `AsrRun`) takes what is to be put, queued and in a
worker's hands as left, and the pool as closed once the run has left it. `PoolImplemented`
includes `WorkPool`'s liveness: an open pool closes.

### AsrItem and AudioSplit

State that outlives a process: the row, the resume cache and the files in
`mp3_<page>/segments`. A segment is its range, a file in the directory the audio it
really holds, so that the two can differ; text is `text`, `empty` or `resisted`. Times are
ticks. The detector reports the same voices for the same audio (`speech`).

The steps are the awaits of `_do_audio_work`: the stream's address, the download, the
conversion, each file ffmpeg writes, each send. `Fail` is the exception leaving the
attempt through `finally`, `RecordFailure` what the driver does with it.
`LengthTruncated` and `HighRisk` end in the same code (`Resisted`): the item passes one
number as the first and as the largest token limit, so doubling it never happens.
The pieces of a divided segment are put in front of the list and go through the
cache again, each with half the piece size, as in the recursion. A text answer and
its cache entry are one step: no await lies between them.

A video that has a transcript is worked on again only in full mode, where cache and
directory are empty; `AsrRun` has that case. `delete_uid` removes the database and
leaves cache and files, so it is an action between runs.

`AudioSplit` has the pure algorithms as operators (recursive functions where the code
loops). Its properties are constant formulas over all inputs up to a length, stated
as invariants of the first state (`AtStart`): TLC evaluates the operators the item's steps use.
Halves are rounded down to a tick, which is faithful as long as half a segment is at least a
tick: the code's floor of a segment is seconds long, so `SplitAssumption` asks it of every limit
(`LongEnough`). In the properties about texts letters are two, and in
`StitchUndoesOverlap` a tick's word occurs once, because any repeated word may be
taken for the overlap (see Findings, observations).

## 3. Runs

`CHECK_DEADLOCK FALSE` is set only where a bound stops the model: uploads and
payload length in `EndpointFetch`, the clock in `RateLimit`, the number of runs in
`AsrItem` and `AsrRun`.

| run | instance | shows |
|---|---|---|
| `endpoint_fetch` | all strategies, page sizes 1 and 2, at most 3 items (2 at the start), 1 deletion, token loops, 1 retry, payloads of 3 pages before a run starts | SUCCESS is complete; the cursor is behind the pages; SUCCESS clears it; only full forgets; every run ends; statuses as in `EndpointJob` |
| `endpoint_full_cursor` (violation) | numbered pages of one item | finding 1 |
| `item_fanout` | 3 items, one doubled, one filtered, 2 permits, all modes, any number of runs | accounting, coverage, refresh, monotone counters; statuses as in `EndpointJob` |
| `fanout_abort` (violation) | 2 items | finding 2 |
| `rate_limit` | 2 coroutines, 2 + 1 endpoints of the two classes, pause 1, cooldown 2, clock up to 4 | bounds, pacing, limiters, pauses |
| `rate_pause` (violation) | 2 coroutines, 1 endpoint | finding 3 |
| `fetch_task` | 1 process, videos and two fan-outs on it, one with a credential; incremental and full; all scopes a user can name here | complete sources, settled scopes, backed SUCCESS, takeover |
| `fetch_retry` (violation) | videos and one fan-out | finding 4 |
| `fetch_takeover` (violation) | two processes | finding 5 |
| `asr_run` | 2 videos, 2 workers, a queue of 1, 2 attempts; plain, full, failed-only, limited, named, budgeted and dry runs; 3 runs, 2 failing writes, 1 crash | true counts; SUCCESS covers; transcripts kept; the pool is never stuck; a run ends; the pool is `WorkPool` |
| `asr_item` | a page of unknown length and one of 6 ticks cut at 4, speech with and without a pause, 2 models, 2 attempts, 2 sends, 2 runs, 1 crash, deletes | complete transcripts; nothing paid twice; one model; the work ends; the algorithms on audio of up to 7 ticks and texts of up to 4 letters |
| `asr_stale` (violation) | a page of 8 ticks, 2 runs | finding 6 |

Why the bounds are enough. `endpoint_fetch`: three items on pages of one give a
first, a middle and a last page, so a crash, an upload and a resume can fall
before, between and after; a payload of three pages lets a run start on what two
interrupted runs left. `item_fanout`: with a doubled id four coroutines compete for two
permits; a third item is there to be filtered or to arrive late. `rate_limit`:
two rates need two 412s to the floor and two recovery steps back to the cap; one is
configured below the floor. The clock covers the 412s and two cooldowns; what lies
beyond, the rates whose recovery ends by the 5 % rule included, is proved, not
sampled. `fetch_task`: each status a row can
have meets each branch; a second fan-out is needed for a task with mixed outcomes.
One process at a time, because two running ones already break the takeover promise
(finding 5); `refresh` differs from incremental in this module in nothing.

`asr_run`: two workers and one place in the queue make the producer block before the
sentinels and let a worker die while the other works; two failing writes are what it
takes to kill a worker (the save, then the safety net); three runs give a
failed-only or full run after a mixed one after an aborted one. `MaxRuns`, `MaxFaults`
and `MaxCrashes` bound nothing else. `asr_item`: six ticks over a cap of four give two
segments with and without overlap, by voice and by period; pieces are halved to one
tick short of the smallest (`MinPiece` 2), which gives text, given-up and divided segments in
one page; the second page has no declared length and is sent whole. Two runs and a crash
reach every pair of an interruption and a continuation. `EmptySkip` is below
`MinPiece`, so that both limits of `TranscriptComplete` are met; it asks nothing of the page
without a declared duration, which has no ticks. `PlanBound` 7 with caps
2 to 4 cuts up to six times; `TextBound` 4 is above `ProbeChars` 3 and `MinOverlapChars`
2; `OneSecond` 1 is a tick and `SegmentFloor` 2 the least of which half is still a tick. `asr_stale` needs three files by
voice activity where the fixed period gives two.

Fairness. `EndpointFetch!FairSpec` is weak fairness of the running coroutine's
steps: the event loop runs what is ready, and each request ends by its answer, an
error or its timeout. Nothing is assumed of crashes, uploads or commands.
`FetchTask!FairSpec` says that time passes, that the user keeps trying (weak
fairness of `Command`), and that a command which is started again and again
now and then lives to look at the task (strong fairness of `Decide`, because `Crash`
may come first any number of times). `AsrRun!FairSpec` is weak fairness of the run's own
coroutine, of the producer and of each worker, separately: the event loop starves no
ready coroutine; a `Put` into a full queue is not enabled and so not helped.
`AsrItem!FairSpec` is weak fairness of the item's steps: ffmpeg, the downloads and
the backend are called with timeouts. Nothing is assumed of crashes, store errors or
answers. `ItemFanout` and `RateLimit` are checked for safety only.

### Findings

1. `full` does not ignore existing data when a cursor is left: the run resumes in
   the middle and then overwrites the row with the tail alone (`CONTEXT.md:103`,
   `runner/_endpoint.py:256`).
2. An aborted fan-out does not stay FAILED_PERMANENT: siblings that were not
   cancelled write RUNNING (`runner/_item_fanout.py:241`, `:214`). They do so also after
   the task's own status was written (`runner/__init__.py:302`), until `fetching/command.py:74`
   closes the database: a task can stay FAILED_PERMANENT over a row that says RUNNING.
3. The 412 pause is looked at once: a sleeper walks into a pause that was extended
   meanwhile (`fetching/rate_limit.py:98`).
4. A source exhausted by transient errors makes its fan-out and with it the task
   FAILED_PERMANENT, after which no command of any mode retries
   (`runner/_run_scope.py:134`).
5. "Stale" is the age of the task row, which a run never refreshes: a live run of
   more than 15 minutes is taken over (`_env.py:55`, `runner/_run_scope.py:115`).
6. The fixed-period cut takes every `seg_*.mp3` of its directory for its own, also those
   a killed run cut at other points: stale audio is transcribed, and paid for, under a
   range it does not have (`processing/audio/_converter.py:282`, `:58`).

Observations that no run states, because no text of the repository promises otherwise or
because it is a matter of data the models leave out:

- Between `clear_bvid` and the write of the row a crash loses the paid texts
  (`processing/runner/_audio.py:724`). Empty, high-risk and truncated answers are paid and not
  cached, and a detector that fails once changes the ranges: these are paid again.
- A rate configured below 0.05 is raised to 0.05 by a 412 and stays there: `record_412` takes
  the larger of the floor and the half (`fetching/rate_limit.py:222`), although the constructor
  calls the configured rates a ceiling (`:79`), and recovery only raises. The limiters do not
  differ: below 0.05 each of them grants one permit in ten seconds.
- One segment without text that is longer than the skip limit fails the video for good.
- `_splice_pair` takes any block the two ends share for the overlap and drops what precedes
  it in the right text as well, also for cuts in silence, of which the comment at
  `processing/runner/_audio_work.py:291` says a plain join.
- `download_to_file` says it raises `DownloadError` on an I/O failure
  (`processing/audio/_downloader.py:113`), but wraps only `ClientError` and `TimeoutError`: a
  full disk is an `OSError`, hence not retried. The models have it as error `other`.
- The connection's lock does not outlive a cancellation, its thread does (`_db/connection.py:274`).
  If an interrupt meets a coroutine that an earlier `gather` left behind, that one may take the
  lock inside the cancelled call's transaction: its BEGIN is refused, its ROLLBACK ends
  the other transaction, and the statements that remain commit one by one. No other
  path cancels a coroutine that writes, so the models take a transaction as one step.
- After a worker has died the others go on, pay, and clear caches, with a store that is
  closed (`processing/runner/_pipeline_executor.py:359`).
- A run without an audit keeps the `coverage` of an earlier one in the task's payload.

## 4. Proofs

Every safety property of the passing runs is proved for all values of the constants that the
modules' assumptions admit. Two kinds of theorem have a hypothesis of their own: three about
`FetchTask` need that runs do not overlap (`Apart`), and `StitchSound` needs settings that fit
each other (`OverlapFits`); both are explained below. Of liveness everything but the fairness is
proved: for the pool and the fan-out that they are never stuck, and for these two, the download
and the work on a video that every step leaves less to do. The inductive invariants were
checked by TLC on the runs' instances first.

Three lemmas stand under several of the proofs. `SetInduction` derives, from the library's
theorem that no infinite descent exists below a natural number, that a set of natural numbers has
a least element (`NatLeast`), a bounded one a greatest (`NatGreatest`), and that a set with 0 and
every successor is all of them (`NatBySuccessor`). They speak of sets, not of a predicate
parameter, so the provers can instantiate them; by them the folds and the recursive functions of
the models are proved about for every input.

### RateLimitProofs

For every set of coroutines and endpoints, every split into classes, all original rates (above,
at or below the floor) and all natural pauses, cooldowns and delays (`RateLimitAssumption`), and
with no bound on the clock that matters: `TypeCorrect`, `RatesStayInBounds`, `RecoveryIsPaced`,
`LimitersFollowTheirClass`, `OwnPauseIsKept`. They rest on `IInv` (theorem `Invariance`): the
five properties and two strengthenings, none of which is implied by the others. A 412 may raise
a rate configured below the floor; its limiters follow all the same, because at the floor and
below each grants one permit (`LowRatesAlike`).

- `ClockOfSteps`: after a recovery, `recoveredUntil = last412 + (steps + 1) * cooldown`.
  `RecoveryPaced` alone says nothing of the time that gates the next step.
- `PauseCovers`: the shared pause and a coroutine's own sleep end no earlier than
  its last 412 plus the pause. `OwnPauseKept` alone is lost at the step that wakes it.

### FanoutProofs

For any items, occurrences, modes and number of permits (`FanoutAssumption`): `TypeCorrect`,
`AccountingHolds`, `SuccessCoversHolds`, `RefreshRenewsHolds`, `ProgressMonotoneHolds` and the
refinement of `EndpointJob` (`ImplementsJob`). `IInv` adds to `TypeOK` and `Accounting`:

- `Lifecycle`: which item states there can be while the endpoint's own coroutine loads, gathers,
  ends or has returned. Without it a late coroutine could count after the final write.
- `Outcomes`: what an item's outcome says about its rows, and, when nothing failed, a counted one
  too. SUCCESS is decided from counters; this ties the counters to rows.
- `PlanCovers`: a planned item without a coroutine is settled (and fresh, in a refresh run).
- `Published`: the stored counters are below the ones in memory. `ProgressMonotone` is a
  consequence for each step; it is not itself a state property to be kept.

Counters are cardinalities of sets of coroutines, each of which one step moves between.

`FanoutGoesOnHolds`: while `gather` waits it can return or raise, or some coroutine is under way,
or one that waits finds a free permit. It needs `EndedByError`: a coroutine that ended in an
exception has left that exception for `gather`. `FanoutRunsDownHolds`: every step of a run lowers
`StepsLeft`, the steps the coroutines and the endpoint have before them, also after an abort,
when left-over coroutines go on.

### TaskProofs

`TypeCorrect` for any number of processes that interleave. `FanoutOnCompleteSourceHolds`,
`RunSettlesScopeHolds` and `SuccessIsBackedHolds`, for any catalog of endpoints, sources and
credentials, have the hypothesis `[]Apart`: at most one process is past its decision and not
closed. Other
processes may take a command meanwhile, look at the task and leave. Nothing in the code sees to
it (finding 5 is how it is lost), so it is a hypothesis of the theorems and not of the module;
with one process it holds by itself (`OneIsApart`), and TLC finds `FanoutOnCompleteSource`
violated when two runs do overlap. `IInv` says for the run what its place in `_run` implies: which
coroutines exist (`JobsInPhase`), what became of the scope's endpoints so far (`ScopeInPhase`),
that the task is RUNNING (`TaskInPhase`), and that a fan-out once queued still finds its source
complete, and one that left items behind has no success in its row (`FanoutRows`). The
former is not kept by itself: that no uid-level endpoint is running any more in phase 2 is in
`JobsInPhase`. The latter is why left-over items take back no SUCCESS after the run's result.

`PermanentIsFinalHolds`, under the same hypothesis: once the task is FAILED_PERMANENT it never
changes again, and no command changes a row. One kind of write is left, and the property names
it (`LeftOver`): an item that an aborted fan-out left behind in the run that wrote the failure,
while that run closes, turns the row of its own endpoint from FAILED_PERMANENT to RUNNING
(finding 2). The invariant `AtRest` says that nobody is past a decision then but a run that
closes. Finding 4 is a run in which one command gets nowhere; this theorem says that no sequence
of commands, modes, scopes and crashes does.

### EndpointProofs

For any set of strategies, page sizes, listings, deletions and retries: `TypeCorrect`,
`SuccessIsCompleteHolds`, `CursorBehindPagesHolds`, `SuccessClearsCursorHolds`,
`OnlyFullForgetsHolds` and the refinement of `EndpointJob`. The merge of fetched pages is a fold; that it
keeps every id (`MergeKeepsIds`) is an induction over its turns. The invariants:

- `RowOfRun`: while a run lasts its row is not final, and none is about to be marked with a
  cursor left. Gives `SuccessClearsCursor`.
- `Buffers`: what the store holds until a run stores its results; gives `OnlyFullForgets`.
- `RunBehind`, `StillListed`: what lies before the next request is in the pages of the run. The
  cursor's promise is that of the request it was copied from; uploads only move numbered
  positions further back (lemmas on `Rank`).
- `Listing`, `Requests`, `Places`: what is stored was listed and what is new is newer; requests
  go one way, so that only a looping token repeats one; and where a scan's known ids come from.
- `Scanned`, `NoHole`, `Ended`: a scan holds what lies before its request; a token listing is
  stored down to a request, a cursor, or its end without a hole (`Dense`); and when the last page
  or the boundary of known ids is reached everything is there. `NoHole` is what makes it sound to
  stop at the first page of known ids; for numbered pages it is the comparison of the number of
  known ids with the total (`LastAnswerCovers`, `BoundaryIsComplete`), a counting argument.

The three excuses of `SuccessIsComplete` (section 2) are the theorem's as well.

`RunRunsDownHolds`: every step of a running download lowers `StepsLeft`, made of the requests
not asked yet, the retries left and the steps of the final store. Its invariant `AskedOnce` is
what the `seen` check is for: what is asked next was not asked before, whether a token loops or
a resume starts in the middle.

### AsrRunProofs

For any numbers of videos, workers, queue places, attempts, runs, failing writes and crashes:
`TypeCorrect`, `RunAccountsHolds`, `SuccessMeansCoveredHolds`, `TranscriptsKeptHolds`, and
`ImplementsPool`, the safety part of `PoolImplemented`: each step is a step of `WorkPool` or
none, and a run leaves an open pool only by closing it. `IInv` (theorem `Inductive`):

- `SentinelsLast`: what is queued and to be put is a line of items followed by one sentinel for
  each worker that has not taken one. That is why the gather returns only when nothing is left.
- `OneOfEach`: no item is twice in the line, or there and in a worker's hands, or in two.
- `Lifecycle`: when workers are alive, and which row of the task they work under; survivors of an
  aborted run included.
- `OnlyMissing`: unless the run is a full one, what is pending has no transcription, which is why
  a failure does not overwrite one.
- `Accounts`: counts, settled and pending items add up to the candidates.
- `Claims`: a status that claims coverage was checked against rows nobody changes since.

`PoolGoesOnHolds`: the pool is free of deadlock. With every worker waiting at an empty queue
and the producer through, `SentinelsLast` leaves no sentinel and hence no waiting worker; with a
full queue somebody takes from it. `PoolRunsDownHolds`: every step of a live pool lowers
`StepsLeft`, a sum over what is to be put, what is queued, and what each worker has in hand with
the attempts it has left.

### AsrItemProofs and SplitProofs

For any pages, durations, voices, models, attempts, runs and crashes: `TypeCorrect`,
`TranscriptCompleteHolds`, `PaidOnceHolds`, `OneModelHolds`. The invariant comes in four layers,
each inductive given the ones before: `TypeOK` with `Shape` (where the work stands); `Cached`
(what was bought is in the cache, what is asked for is not); `Modelled` (what an attempt
collected is of its run's model); `Covered` (each tick of a finished page is settled, each of the
page in work is settled or waits, and the plan of a cut holds them all). `Covered` rests on
`SplitProofs`: whatever plan is cut, and whatever a resisted segment is divided into, no tick is
lost, and a fixed-period cut over the files of a killed run still names as many ranges as the
duration needs. It does not say that the audio of a file is that of its range: that is finding 6.

`SplitProofs` proves the algorithms for durations, limits and voices of any size and not only up
to the bounds TLC enumerates: `SplitsAreSoundAlways`, `RegionsAreSoundAlways`,
`PlansAreSoundAlways`, `SplicesAreSoundAlways` (for texts of any length: that the longest match lies
in both texts needs that a first of the longest blocks exists). The plan of `pick_split_points` is a recursive function of the cut
position; `Tiled` is what each of its values is, by induction from the end of the audio. That
speech is cut only where no whole silence is in reach needs in addition that the midpoints are
those of the gaps between regions (`Cursor`, `Starts`).

`StitchUndoesOverlapAlways`, and with it `StitchSoundHolds`: speech without a pause, cut with an
overlap, comes out of the stitching with each word once, by induction over the fold. The
hypothesis `OverlapFits` asks for an overlap of at least `MinOverlapChars` and at most
`ProbeChars` words, as the run has it. The code does not tie the settings to each other: with a
shorter overlap the splice takes the shared words for chance and keeps them twice, with a
longer one it looks at a part of them only.

`WorkRunsDownHolds`: every step of the work on a video leaves less of it, where less is the
dictionary order of seven natural numbers (`Left`): attempts, pages, stages of the page, files to
cut, seams, segments, sends. A seam is a tick inside a segment; a resisted segment that is divided
makes two segments of one but uses up the seams where it is cut (`SeamsOfDivided`), which is
why divisions end although they put more segments into the queue than they take.

### What proving changed in the models

- A limit of one tick cannot be planned for: half of it rounds to nothing, and a silence at
  the position reached would be taken again and again. The code's limits are
  tens of seconds, so the models now assume `LongEnough`.
- `Pieces` was defined only for a file as long as its range; a file of a killed run can be
  shorter (finding 6). `Excerpt` now takes what is there, as ffmpeg does.
- Bounds (`MaxRuns`, `MaxFaults`, `MaxCrashes`) are natural numbers by assumption.
- `Candidates` is a recursive function over the videos, of which the proofs use the equation.

### Model-checked only

Liveness (`RunEnds`, `DeadRunTakenOver`, `AsrRunEnds`, `ItemEnds`, and the fairness in
`PoolImplemented`): the prover does not reach temporal reasoning with fairness, nor ENABLED. For
`RunEnds`, `AsrRunEnds` and `ItemEnds` what lies below is proved (the steps left fall; the pool is
never stuck), and TLC adds that the scheduler's fairness takes the steps; `DeadRunTakenOver`
rests on commands that keep coming and is TLC's alone. The violations are counterexamples and
need no proof.

## 5. Plan

The modules, runs and theorems that were planned are there. What could be added:

1. `FetchTask` with overlapping runs: which parts of the three properties survive without
   `Apart`. A run's queue and its jobs are its own, what the rows say is not.
2. A module for the connection's lock and threads under cancellation, implementing the
   atomic transactions every module assumes wherever no interrupt meets an orphaned coroutine
   (see Findings, observations).

## 6. Not modelled

The worker client is left out because `start()` cannot succeed: it sends its handshake
through `_send_op`, which raises until `start()` has set `_started`
(`fetching/worker_client.py:316`), so there is no later behaviour to check. The connection's lock, threads
and schema are assumed: a transaction is one step in every module; that a write may
raise, and does on a closed connection, is in `AsrRun`. Of the ASR stage are left out the
voice detector's signal processing, the cut by file size (taken only for a page without
a declared duration whose audio exceeds the size limit), two ASR processes on one
uid, a disabled resume cache, and token and cost sums.

The adapter and the catalog build requests and tables and keep no state; what the
models need of them is in their constants. Credentials are read from the
environment: `FetchTask` chooses whether one is found. Logging, progress bars and the event log
are left out; that the reporter's write can raise is part of `ItemFanout`. The user
interfaces delegate. The migration tool is run once on old data. Contents of error rows are left out, except
the `ResourceUnavailableError` rows that planning reads.
