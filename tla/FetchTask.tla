----------------------------- MODULE FetchTask ------------------------------
(***************************************************************************)
(* One uid's fetching task: the planner that decides what a command does   *)
(* with the stored task, the seeding and resetting of endpoint rows, the   *)
(* two phases of a run (uid-level endpoints, then the item fan-outs that   *)
(* read their pages), the derived task status, and the takeover of a task  *)
(* a dead process left RUNNING.                                            *)
(*                                                                         *)
(* An endpoint's own run is reduced to the statuses it writes; modules     *)
(* EndpointFetch and ItemFanout are those runs in detail.                  *)
(***************************************************************************)
EXTENDS Integers, FiniteSets

CONSTANTS
  Procs,       \* processes that execute `fetch` for this uid
  UidLevel,    \* endpoints of kind "uid"
  ItemLevel,   \* endpoints of kind "item"
  Source,      \* spec.source_endpoint of an item-level endpoint
  NeedsCredential,  \* endpoints with spec.credential_required
  Arguments,   \* the --include sets explored; {} stands for None, all endpoints
  Modes,       \* "incremental", "refresh", "full"
  StaleAge     \* stale_running_threshold_ms, in ticks

Endpoints == UidLevel \union ItemLevel

ASSUME TaskAssumption ==
  /\ IsFiniteSet(Endpoints) /\ UidLevel \cap ItemLevel = {}
  /\ Source \in [ItemLevel -> UidLevel]
  /\ NeedsCredential \subseteq Endpoints
  /\ \A e \in ItemLevel : Source[e] \in NeedsCredential => e \in NeedsCredential
  /\ Arguments \subseteq SUBSET Endpoints
  /\ Modes \subseteq {"incremental", "refresh", "full"}
  /\ StaleAge \in Nat \ {0}

VARIABLES
  task,      \* stage_task.status, "none" without a row
  age,       \* time since stage_task.updated_at_ms was written, up to StaleAge
  endpoint,  \* fetch_endpoint_state.status by endpoint, "none" without a row
  run,       \* what each process is doing, Idle when nothing
  finished   \* history: the endpoints of the last run that wrote its final status

vars == <<task, age, endpoint, run, finished>>

TaskStatus == {"PENDING", "RUNNING", "SUCCESS", "PARTIAL",
               "FAILED_RETRYABLE", "FAILED_EXHAUSTED", "FAILED_PERMANENT"}
EndpointStatus == {"PENDING", "RUNNING", "SUCCESS", "PARTIAL_ITEM",
                   "FAILED_RETRYABLE", "FAILED_EXHAUSTED", "FAILED_PERMANENT"}

\* todo: the endpoints a loop has not looked at; items: item_specs. A job is the
\* coroutine of an endpoint; an aborted fan-out has returned, its items have not. A run
\* is closing from its result, or its exception, to the close of its database.
Run == [at : {"idle", "decide", "seed", "mark", "prepare", "plan", "uid",
              "planItems", "item", "final", "closing"},
        mode : Modes \union {"none"}, argument : SUBSET Endpoints, fresh : BOOLEAN,
        scope : SUBSET Endpoints, todo : SUBSET Endpoints, items : SUBSET ItemLevel,
        credential : BOOLEAN,
        job : [Endpoints -> {"none", "queued", "running", "aborted", "done"}]]

NoJobs == [e \in Endpoints |-> "none"]
Idle == [at |-> "idle", mode |-> "none", argument |-> {}, fresh |-> FALSE, scope |-> {},
         todo |-> {}, items |-> {}, credential |-> FALSE, job |-> NoJobs]

At(p, s) == run[p].at = s
Become(p, r) == run' = [run EXCEPT ![p] = r]
Look(p, e) == [run[p] EXCEPT !.todo = @ \ {e}]
Write(e, s) == endpoint' = [endpoint EXCEPT ![e] = s]
Job(p, e, s) == run' = [run EXCEPT ![p].job[e] = s]

------------------------------------------------------------------------------
(* The planner, FetchRunPlanner.run_or_resume_scope.                         *)

Command(p) ==
  /\ At(p, "idle")
  /\ \E m \in Modes, a \in Arguments :
       Become(p, [Idle EXCEPT !.at = "decide", !.mode = m, !.argument = a])
  /\ UNCHANGED <<task, age, endpoint, finished>>

Seeded == {e \in Endpoints : endpoint[e] # "none"}

\* new_scope, the scan of a SUCCESS task, or resume_scope.
Scope(status, mode, argument) ==
  IF argument # {} THEN argument
  ELSE IF status \in {"none", "SUCCESS"} \/ mode = "full" THEN Endpoints
  ELSE Seeded

Start(p, status) ==
  LET r == run[p]
  IN Become(p, [r EXCEPT !.at = "seed",
                         !.fresh = (status = "none" \/ r.mode = "full"),
                         !.scope = Scope(status, r.mode, r.argument)])

AlreadyRunning(p) ==
  /\ At(p, "decide") /\ task = "RUNNING" /\ age < StaleAge
  /\ Become(p, Idle)
  /\ UNCHANGED <<task, age, endpoint, finished>>

TakeOver(p) ==
  /\ At(p, "decide") /\ task = "RUNNING" /\ age >= StaleAge
  /\ task' = "PARTIAL" /\ age' = 0
  /\ Start(p, "PARTIAL")
  /\ UNCHANGED <<endpoint, finished>>

SkipFailed(p) ==
  /\ At(p, "decide") /\ task = "FAILED_PERMANENT"
  /\ Become(p, Idle)
  /\ UNCHANGED <<task, age, endpoint, finished>>

Proceed(p) ==
  /\ At(p, "decide") /\ task \notin {"RUNNING", "FAILED_PERMANENT"}
  /\ Start(p, task)
  /\ UNCHANGED <<task, age, endpoint, finished>>

\* Seeded fault: a RUNNING task is left alone, whatever its age.
Decide_NeverStale(p) ==
  \/ AlreadyRunning(p)
  \/ At(p, "decide") /\ task = "RUNNING" /\ Become(p, Idle) /\ UNCHANGED <<task, age, endpoint, finished>>
  \/ SkipFailed(p) \/ Proceed(p)

Decide(p) == AlreadyRunning(p) \/ TakeOver(p) \/ SkipFailed(p) \/ Proceed(p)

------------------------------------------------------------------------------
(* prepare_task_run: three kinds of transactions.                            *)

InitTask(p) ==
  /\ At(p, "seed")
  /\ task' = (IF task = "none" THEN "PENDING" ELSE task) /\ age' = 0
  /\ endpoint' = [e \in Endpoints |->
                    IF e \in run[p].scope /\ endpoint[e] = "none" THEN "PENDING"
                                                                 ELSE endpoint[e]]
  /\ run' = [run EXCEPT ![p].at = "mark"]
  /\ UNCHANGED finished

MarkRunning(p) ==
  /\ At(p, "mark")
  /\ task' = "RUNNING" /\ age' = 0
  /\ Become(p, [run[p] EXCEPT !.at = "prepare", !.todo = run[p].scope])
  /\ UNCHANGED <<endpoint, finished>>

\* Seeded fault: rows are reset to no row.
Reset_Deleted(status, fresh, mode) == IF fresh THEN "NULL" ELSE status

\* An endpoint asked for again starts over, except one a crash or a permanent failure
\* left in another status.
Reset(status, fresh, mode) ==
  IF \/ fresh
     \/ status = "FAILED_EXHAUSTED"
     \/ status = "SUCCESS" /\ mode \in {"incremental", "refresh"}
  THEN "PENDING" ELSE status

Prepare(p) ==
  /\ At(p, "prepare")
  /\ \E e \in run[p].todo :
       /\ Write(e, Reset(endpoint[e], run[p].fresh, run[p].mode))
       /\ Become(p, Look(p, e))
  /\ UNCHANGED <<task, age, finished>>

\* _resolve_credential finds one or not; without a credential endpoint it is not asked.
Credential(p) ==
  /\ At(p, "prepare") /\ run[p].todo = {}
  /\ LET scope  == run[p].scope
         named  == scope \union {Source[e] : e \in scope \cap ItemLevel}
     IN \E found \in IF named \cap NeedsCredential = {} THEN {FALSE} ELSE BOOLEAN :
          Become(p, [run[p] EXCEPT !.at = "plan", !.todo = scope, !.credential = found])
  /\ UNCHANGED <<task, age, endpoint, finished>>

------------------------------------------------------------------------------
(* Phase 1: the uid-level endpoints of the scope and unseeded sources.       *)

Refused(p, e) == e \in NeedsCredential /\ ~run[p].credential

\* Seeded fault: a row a dead process left RUNNING is taken for work in progress.
Unfinished_NotRunning(e) == endpoint[e] \notin {"SUCCESS", "RUNNING"}

Unfinished(e) == endpoint[e] # "SUCCESS"

PlanSkip(p, e) ==
  /\ ~Unfinished(e)
  /\ Become(p, Look(p, e))
  /\ UNCHANGED <<task, age, endpoint, finished>>

PlanRefused(p, e) ==
  /\ Unfinished(e) /\ Refused(p, e)
  /\ Write(e, "FAILED_PERMANENT")
  /\ Become(p, Look(p, e))
  /\ UNCHANGED <<task, age, finished>>

PlanUid(p, e) ==
  /\ Unfinished(e) /\ ~Refused(p, e) /\ e \in UidLevel
  /\ Become(p, [Look(p, e) EXCEPT !.job[e] = "queued"])
  /\ UNCHANGED <<task, age, endpoint, finished>>

\* A source without a row is seeded by init_task and fetched too. (Its own credential is
\* there: in the catalog a source that needs one feeds only endpoints that need one.)
PlanItem(p, e) ==
  /\ Unfinished(e) /\ ~Refused(p, e) /\ e \in ItemLevel
  /\ LET source == Source[e]
         listed == [Look(p, e) EXCEPT !.items = @ \union {e}]
     IN \/ /\ endpoint[source] # "none"
           /\ Become(p, listed)
           /\ UNCHANGED <<age, endpoint>>
        \/ /\ endpoint[source] = "none"
           /\ Write(source, "PENDING") /\ age' = 0
           /\ Become(p, [listed EXCEPT !.job[source] = "queued"])
  /\ UNCHANGED <<task, finished>>

Plan(p) ==
  /\ At(p, "plan")
  /\ \E e \in run[p].todo : PlanSkip(p, e) \/ PlanRefused(p, e) \/ PlanUid(p, e) \/ PlanItem(p, e)

StartUidJobs(p) ==
  /\ At(p, "plan") /\ run[p].todo = {}
  /\ run' = [run EXCEPT ![p].at = "uid"]
  /\ UNCHANGED <<task, age, endpoint, finished>>

UidBegin(p, e) ==
  /\ At(p, "uid") /\ run[p].job[e] = "queued"
  /\ Write(e, "RUNNING") /\ Job(p, e, "running")
  /\ UNCHANGED <<task, age, finished>>

UidRetry(p, e) ==
  /\ At(p, "uid") /\ run[p].job[e] = "running"
  /\ Write(e, "FAILED_RETRYABLE")
  /\ UNCHANGED <<task, age, run, finished>>

\* The run ends with a status, or without one when the store refuses to write a failure.
UidEnd(p, e) ==
  /\ At(p, "uid") /\ run[p].job[e] = "running"
  /\ \/ \E s \in {"SUCCESS", "FAILED_EXHAUSTED", "FAILED_PERMANENT"} : Write(e, s)
     \/ UNCHANGED endpoint
  /\ Job(p, e, "done")
  /\ UNCHANGED <<task, age, finished>>

JobsOver(p) == \A e \in Endpoints : run[p].job[e] \notin {"queued", "running"}

------------------------------------------------------------------------------
(* Phase 2: the item fan-outs whose source succeeded.                        *)

StartPhase2(p) ==
  /\ At(p, "uid") /\ JobsOver(p)
  /\ Become(p, [run[p] EXCEPT !.at = "planItems", !.todo = run[p].items])
  /\ UNCHANGED <<task, age, endpoint, finished>>

\* Seeded fault: only a source that failed for good stops its fan-out.
SourceReady_NotPermanent(e) == endpoint[Source[e]] # "FAILED_PERMANENT"

SourceReady(e) == endpoint[Source[e]] = "SUCCESS"

CheckSource(p) ==
  /\ At(p, "planItems")
  /\ \E e \in run[p].todo :
       \/ Unfinished(e) /\ SourceReady(e) /\ UNCHANGED endpoint
          /\ Become(p, [Look(p, e) EXCEPT !.job[e] = "queued"])
       \/ Unfinished(e) /\ ~SourceReady(e) /\ Write(e, "FAILED_PERMANENT")
          /\ Become(p, Look(p, e))
       \/ ~Unfinished(e) /\ UNCHANGED endpoint /\ Become(p, Look(p, e))
  /\ UNCHANGED <<task, age, finished>>

StartItemJobs(p) ==
  /\ At(p, "planItems") /\ run[p].todo = {}
  /\ run' = [run EXCEPT ![p].at = "item"]
  /\ UNCHANGED <<task, age, endpoint, finished>>

ItemBegin(p, e) ==
  /\ At(p, "item") /\ run[p].job[e] = "queued"
  /\ Write(e, "RUNNING") /\ Job(p, e, "running")
  /\ UNCHANGED <<task, age, finished>>

\* The fan-out ends with a status, by an escaping exception without one, or by an abort.
\* After the last two, items that are still running go on to publish RUNNING.
ItemEnd(p, e) ==
  /\ At(p, "item") /\ run[p].job[e] = "running"
  /\ \/ \E s \in {"SUCCESS", "PARTIAL_ITEM", "FAILED_EXHAUSTED", "FAILED_PERMANENT"} :
          Write(e, s) /\ Job(p, e, "done")
     \/ UNCHANGED endpoint /\ \E j \in {"done", "aborted"} : Job(p, e, j)
     \/ Write(e, "FAILED_PERMANENT") /\ Job(p, e, "aborted")
  /\ UNCHANGED <<task, age, finished>>

\* Nobody waits for these items: they write as long as the database is open, also after
\* the run has written its result. There may be more of them to come.
LatePublish(p, e) ==
  /\ run[p].job[e] = "aborted"
  /\ Write(e, "RUNNING")
  /\ \E j \in {"aborted", "done"} : Job(p, e, j)
  /\ UNCHANGED <<task, age, finished>>

------------------------------------------------------------------------------
(* The end of a run.                                                         *)

CollectStatuses(p) ==
  /\ At(p, "item") /\ JobsOver(p)
  /\ run' = [run EXCEPT ![p].at = "final"]
  /\ UNCHANGED <<task, age, endpoint, finished>>

Good == {"SUCCESS", "PARTIAL_ITEM"}

\* Seeded fault: any success makes the task a success.
Derive_AnySuccess(statuses) ==
  IF statuses \cap Good # {} THEN "SUCCESS"
  ELSE IF "FAILED_PERMANENT" \in statuses THEN "FAILED_PERMANENT"
  ELSE IF "FAILED_EXHAUSTED" \in statuses THEN "FAILED_EXHAUSTED"
  ELSE "PARTIAL"

\* _derive_status_from_statuses
Derive(statuses) ==
  LET failed(s) == IF statuses \cap Good # {} THEN "PARTIAL" ELSE s
  IN CASE statuses \subseteq Good -> "SUCCESS"
       [] "FAILED_PERMANENT" \in statuses -> failed("FAILED_PERMANENT")
       [] "FAILED_EXHAUSTED" \in statuses /\ "FAILED_PERMANENT" \notin statuses
            -> failed("FAILED_EXHAUSTED")
       [] OTHER -> IF "FAILED_RETRYABLE" \in statuses THEN "FAILED_RETRYABLE" ELSE "PARTIAL"

Finish(p) ==
  /\ At(p, "final")
  /\ task' = Derive({endpoint[e] : e \in run[p].scope}) /\ age' = 0
  /\ finished' = run[p].scope
  /\ run' = [run EXCEPT ![p].at = "closing"]
  /\ UNCHANGED endpoint

\* A store call of _run itself raises after the fan-outs have returned: the task stays as
\* it is. (Before phase 2 no coroutine is left that could outlive _run: see Crash.)
Raise(p) ==
  /\ (At(p, "item") /\ JobsOver(p)) \/ At(p, "final")
  /\ run' = [run EXCEPT ![p].at = "closing"]
  /\ UNCHANGED <<task, age, endpoint, finished>>

\* The run is reported, the database is closed: left-over items write no more.
Close(p) ==
  /\ At(p, "closing")
  /\ Become(p, Idle)
  /\ UNCHANGED <<task, age, endpoint, finished>>

\* The process dies, or an exception of the store leaves the planner, prepare_task_run or
\* _run before phase 2.
Crash(p) ==
  /\ ~At(p, "idle")
  /\ Become(p, Idle)
  /\ UNCHANGED <<task, age, endpoint, finished>>

Tick ==
  /\ age < StaleAge
  /\ age' = age + 1
  /\ UNCHANGED <<task, endpoint, run, finished>>

------------------------------------------------------------------------------

Init ==
  /\ task = "none" /\ age = 0
  /\ endpoint = [e \in Endpoints |-> "none"]
  /\ run = [p \in Procs |-> Idle]
  /\ finished = {}

RunStep(p) ==
  \/ InitTask(p) \/ MarkRunning(p) \/ Prepare(p) \/ Credential(p)
  \/ Plan(p) \/ StartUidJobs(p) \/ StartPhase2(p)
  \/ CheckSource(p) \/ StartItemJobs(p)
  \/ CollectStatuses(p) \/ Finish(p) \/ Raise(p) \/ Close(p)
  \/ \E e \in UidLevel : UidBegin(p, e) \/ UidRetry(p, e) \/ UidEnd(p, e)
  \/ \E e \in ItemLevel : ItemBegin(p, e) \/ ItemEnd(p, e) \/ LatePublish(p, e)

Next ==
  \/ \E p \in Procs : Command(p) \/ Decide(p) \/ RunStep(p) \/ Crash(p)
  \/ Tick

Spec == Init /\ [][Next]_vars

\* Time passes, the user keeps trying, and now and then a command lives long enough to
\* look at the task.
FairSpec == /\ Spec /\ WF_vars(Tick)
            /\ \A p \in Procs : WF_vars(Command(p)) /\ SF_vars(Decide(p))

------------------------------------------------------------------------------
(* Properties. They are about one process at a time, unless they say so.     *)

TypeOK ==
  /\ task \in TaskStatus \union {"none"} /\ age \in 0..StaleAge
  /\ endpoint \in [Endpoints -> EndpointStatus \union {"none"}]
  /\ run \in [Procs -> Run]
  /\ finished \subseteq Endpoints

\* No fan-out runs on the pages of a source whose last fetch did not end in SUCCESS,
\* whatever a crash, another scope or an earlier run left in its row (_run, phase 2).
FanoutOnCompleteSource ==
  \A p \in Procs, e \in ItemLevel :
    run[p].job[e] \in {"queued", "running"} => endpoint[Source[e]] = "SUCCESS"

\* When a run writes its result every uid-level endpoint of its scope is settled or was
\* at least run, also one that a crash had left RUNNING or between two retries.
RunSettlesScope ==
  \A p \in Procs : At(p, "final") =>
    \A e \in run[p].scope \cap UidLevel :
      \/ endpoint[e] \in {"SUCCESS", "FAILED_EXHAUSTED", "FAILED_PERMANENT"}
      \/ run[p].job[e] = "done"

\* A task that says SUCCESS is backed by the rows of the run that wrote it, until a
\* later run has marked the task RUNNING, wherever that later run crashes.
SuccessIsBacked == task = "SUCCESS" => \A e \in finished : endpoint[e] \in Good

\* A task that a dead process left RUNNING is taken over after the stale threshold,
\* however often the user tries before.
DeadRunTakenOver ==
  task = "RUNNING" /\ (\A p \in Procs : At(p, "idle")) ~> task # "RUNNING"

\* "incremental skips what succeeded and retries what failed" (CONTEXT.md): a command
\* that returns at once leaves no endpoint it was asked for in FAILED_EXHAUSTED.
FailedIsRetried ==
  [][\A p \in Procs : SkipFailed(p) =>
       \A e \in run[p].argument : endpoint[e] # "FAILED_EXHAUSTED"]_vars

\* "RUNNING task with updated_at older than this is treated as PARTIAL (process
\* killed/timeout)" (_env.py): a takeover meets no process that is still working.
TakeOverOnlyDead ==
  [][\A p \in Procs : TakeOver(p) =>
       \A q \in Procs \ {p} : run[q].at \in {"idle", "decide", "closing"}]_vars
=============================================================================
