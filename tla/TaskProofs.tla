----------------------------- MODULE TaskProofs -----------------------------
(***************************************************************************)
(* Proofs about FetchTask: types for any processes; and, as long as no two *)
(* runs of the uid overlap, what a fan-out reads, what a finished run      *)
(* settled, what SUCCESS is backed by, and what may still change after a   *)
(* permanent failure. For any number of processes, endpoints, sources, credentials,    *)
(* --include sets, modes and any stale threshold.                          *)
(***************************************************************************)
EXTENDS FetchTask, TLAPS

------------------------------------------------------------------------------
(* Types.                                                                    *)

Phase == {"idle", "decide", "seed", "mark", "prepare", "plan", "uid",
          "planItems", "item", "final", "closing"}
JobState == {"none", "queued", "running", "aborted", "done"}

LEMMA RunFields ==
  ASSUME NEW r \in Run
  PROVE  /\ r.at \in Phase /\ r.mode \in Modes \union {"none"} /\ r.argument \subseteq Endpoints
         /\ r.fresh \in BOOLEAN /\ r.scope \subseteq Endpoints /\ r.todo \subseteq Endpoints
         /\ r.items \subseteq ItemLevel /\ r.credential \in BOOLEAN
         /\ r.job \in [Endpoints -> JobState]
BY DEF Run, Phase, JobState

\* A run stays a run when it moves on, when a list is replaced or when a job changes.
LEMMA RunChanges ==
  ASSUME NEW r \in Run
  PROVE  /\ \A a \in Phase : [r EXCEPT !.at = a] \in Run
         /\ \A t \in SUBSET Endpoints : [r EXCEPT !.todo = t] \in Run
         /\ \A e \in Endpoints, j \in JobState : [r EXCEPT !.job[e] = j] \in Run
BY RunFields DEF Run, Phase, JobState

LEMMA IdleRun == Idle \in Run
BY DEF Idle, NoJobs, Run, Endpoints

\* What one process becomes leaves every other one where it is.
LEMMA Becomes ==
  ASSUME TypeOK, NEW p \in Procs, NEW r \in Run, Become(p, r)
  PROVE  /\ run' \in [Procs -> Run] /\ run'[p] = r
         /\ \A q \in Procs \ {p} : run'[q] = run[q]
BY DEF TypeOK, Become

\* Moving on, and moving a job, as a change of the whole run.
LEMMA MovesOn ==
  ASSUME TypeOK, NEW p \in Procs
  PROVE  /\ \A a \in Phase : (run' = [run EXCEPT ![p].at = a]) =>
                               Become(p, [run[p] EXCEPT !.at = a])
         /\ \A e \in Endpoints, j \in JobState : Job(p, e, j) =>
                               Become(p, [run[p] EXCEPT !.job[e] = j])
BY DEF TypeOK, Become, Job

\* A row written with a status keeps the table's type and the other rows.
LEMMA Writes ==
  ASSUME TypeOK, NEW e \in Endpoints, NEW s \in EndpointStatus, Write(e, s)
  PROVE  /\ endpoint' \in [Endpoints -> EndpointStatus \union {"none"}] /\ endpoint'[e] = s
         /\ \A f \in Endpoints \ {e} : endpoint'[f] = endpoint[f]
BY DEF TypeOK, Write

LEMMA CommandType ==
  ASSUME TypeOK, NEW p \in Procs, Command(p)
  PROVE  TypeOK'
<1>1. PICK m \in Modes, a \in Arguments :
        Become(p, [Idle EXCEPT !.at = "decide", !.mode = m, !.argument = a])
  BY DEF Command
<1>2. [Idle EXCEPT !.at = "decide", !.mode = m, !.argument = a] \in Run
  BY IdleRun, TaskAssumption DEF Run
<1> QED BY <1>1, <1>2, Becomes DEF TypeOK, Command

\* A run that starts has its scope among the endpoints.
LEMMA StartType ==
  ASSUME TypeOK, NEW p \in Procs, NEW s \in TaskStatus \union {"none"}, Start(p, s)
  PROVE  run' \in [Procs -> Run]
<1> DEFINE r == [run[p] EXCEPT !.at = "seed",
                               !.fresh = (s = "none" \/ run[p].mode = "full"),
                               !.scope = Scope(s, run[p].mode, run[p].argument)]
<1>1. run[p] \in Run
  BY DEF TypeOK
<1>2. Scope(s, run[p].mode, run[p].argument) \subseteq Endpoints
  BY <1>1, RunFields DEF Scope, Seeded
<1>3. (s = "none" \/ run[p].mode = "full") \in BOOLEAN
  OBVIOUS
<1>4. r \in Run
  BY <1>1, <1>2, <1>3 DEF Run
<1>5. Become(p, r)
  BY DEF Start
<1> HIDE DEF r
<1> QED BY <1>4, <1>5, Becomes

LEMMA DecideType ==
  ASSUME TypeOK, NEW p \in Procs, Decide(p)
  PROVE  TypeOK'
<1>1. CASE AlreadyRunning(p) \/ SkipFailed(p)
  BY <1>1, IdleRun, Becomes DEF AlreadyRunning, SkipFailed, TypeOK
<1>2. CASE TakeOver(p)
  BY <1>2, StartType, TaskAssumption DEF TakeOver, TypeOK, TaskStatus
<1>3. CASE Proceed(p)
  BY <1>3, StartType DEF Proceed, TypeOK
<1> QED BY <1>1, <1>2, <1>3 DEF Decide

LEMMA PrepareType ==
  ASSUME TypeOK, NEW p \in Procs,
         InitTask(p) \/ MarkRunning(p) \/ Prepare(p) \/ Credential(p)
  PROVE  TypeOK'
<1>1. run[p] \in Run /\ run[p].scope \subseteq Endpoints /\ run[p].todo \subseteq Endpoints
  BY RunFields DEF TypeOK
<1>2. CASE InitTask(p)
  <2>1. run' \in [Procs -> Run]
    BY <1>1, <1>2, RunChanges, MovesOn, Becomes DEF InitTask, Phase
  <2> QED BY <1>2, <2>1, TaskAssumption DEF InitTask, TypeOK, TaskStatus, EndpointStatus
<1>3. CASE MarkRunning(p)
  <2>1. [run[p] EXCEPT !.at = "prepare", !.todo = run[p].scope] \in Run
    BY <1>1 DEF Run
  <2> QED BY <1>3, <2>1, Becomes, TaskAssumption DEF MarkRunning, TypeOK, TaskStatus
<1>4. CASE Prepare(p)
  <2>1. PICK e \in run[p].todo : /\ Write(e, Reset(endpoint[e], run[p].fresh, run[p].mode))
                                 /\ Become(p, Look(p, e))
    BY <1>4 DEF Prepare
  <2>2. Look(p, e) \in Run
    BY <1>1, RunChanges DEF Look
  <2>3. endpoint' \in [Endpoints -> EndpointStatus \union {"none"}]
    BY <1>1, <2>1 DEF TypeOK, Write, Reset, EndpointStatus
  <2> QED BY <1>4, <2>1, <2>2, <2>3, Becomes DEF Prepare, TypeOK
<1>5. CASE Credential(p)
  <2>1. PICK found \in BOOLEAN :
          Become(p, [run[p] EXCEPT !.at = "plan", !.todo = run[p].scope, !.credential = found])
    BY <1>5 DEF Credential
  <2>2. [run[p] EXCEPT !.at = "plan", !.todo = run[p].scope, !.credential = found] \in Run
    BY <1>1 DEF Run
  <2> QED BY <1>5, <2>1, <2>2, Becomes DEF Credential, TypeOK
<1> QED BY <1>2, <1>3, <1>4, <1>5

LEMMA PlanType ==
  ASSUME TypeOK, NEW p \in Procs, Plan(p)
  PROVE  TypeOK'
<1>1. run[p] \in Run /\ run[p].todo \subseteq Endpoints
  BY RunFields DEF TypeOK
<1>2. PICK e \in run[p].todo : PlanSkip(p, e) \/ PlanRefused(p, e) \/ PlanUid(p, e) \/ PlanItem(p, e)
  BY DEF Plan
<1>3. e \in Endpoints /\ Look(p, e) \in Run
  BY <1>1, RunChanges DEF Look
<1>4. CASE PlanSkip(p, e)
  BY <1>3, <1>4, Becomes DEF PlanSkip, TypeOK
<1>5. CASE PlanRefused(p, e)
  BY <1>3, <1>5, Becomes, Writes DEF PlanRefused, TypeOK, EndpointStatus
<1>6. CASE PlanUid(p, e)
  <2>1. [Look(p, e) EXCEPT !.job[e] = "queued"] \in Run
    BY <1>3, RunChanges DEF JobState
  <2> QED BY <1>6, <2>1, Becomes DEF PlanUid, TypeOK
<1>7. CASE PlanItem(p, e)
  <2> DEFINE listed == [Look(p, e) EXCEPT !.items = @ \union {e}]
  <2>1. Source[e] \in Endpoints
    BY <1>7, TaskAssumption DEF PlanItem, Endpoints
  <2>2. listed \in Run
    BY <1>3, <1>7 DEF PlanItem, Run
  <2>3. [listed EXCEPT !.job[Source[e]] = "queued"] \in Run
    BY <2>1, <2>2, RunChanges DEF JobState
  <2>4. run' \in [Procs -> Run]
    BY <1>7, <2>2, <2>3, Becomes DEF PlanItem
  <2>5. endpoint' \in [Endpoints -> EndpointStatus \union {"none"}] /\ age' \in 0..StaleAge
    BY <1>7, <2>1, Writes, TaskAssumption DEF PlanItem, TypeOK, EndpointStatus
  <2> QED BY <1>7, <2>4, <2>5 DEF PlanItem, TypeOK
<1> QED BY <1>2, <1>4, <1>5, <1>6, <1>7

\* The jobs of either phase.
LEMMA JobType ==
  ASSUME TypeOK, NEW p \in Procs, NEW e \in Endpoints,
         \/ UidBegin(p, e) \/ UidRetry(p, e) \/ UidEnd(p, e)
         \/ ItemBegin(p, e) \/ ItemEnd(p, e) \/ LatePublish(p, e)
  PROVE  TypeOK'
<1>1. UNCHANGED run \/ \E j \in JobState : Job(p, e, j)
  BY DEF UidBegin, UidRetry, UidEnd, ItemBegin, ItemEnd, LatePublish, JobState
<1>2. run' \in [Procs -> Run]
  <2>1. ASSUME NEW j \in JobState, Job(p, e, j) PROVE run' \in [Procs -> Run]
    <3>1. Become(p, [run[p] EXCEPT !.job[e] = j])
      BY <2>1, MovesOn
    <3>2. [run[p] EXCEPT !.job[e] = j] \in Run
      BY RunChanges DEF TypeOK
    <3> QED BY <3>1, <3>2, Becomes
  <2> QED BY <1>1, <2>1 DEF TypeOK
<1>3. UNCHANGED endpoint \/ \E s \in EndpointStatus : Write(e, s)
  BY DEF UidBegin, UidRetry, UidEnd, ItemBegin, ItemEnd, LatePublish, EndpointStatus
<1>4. endpoint' \in [Endpoints -> EndpointStatus \union {"none"}]
  BY <1>3, Writes DEF TypeOK
<1>5. UNCHANGED <<task, age, finished>>
  BY DEF UidBegin, UidRetry, UidEnd, ItemBegin, ItemEnd, LatePublish
<1> QED BY <1>2, <1>4, <1>5 DEF TypeOK

LEMMA CheckSourceType ==
  ASSUME TypeOK, NEW p \in Procs, CheckSource(p)
  PROVE  TypeOK'
<1>1. run[p] \in Run /\ run[p].todo \subseteq Endpoints
  BY RunFields DEF TypeOK
<1>2. PICK e \in run[p].todo :
        /\ UNCHANGED endpoint \/ Write(e, "FAILED_PERMANENT")
        /\ \/ Become(p, Look(p, e))
           \/ Become(p, [Look(p, e) EXCEPT !.job[e] = "queued"])
  BY DEF CheckSource
<1>3. e \in Endpoints /\ Look(p, e) \in Run /\ [Look(p, e) EXCEPT !.job[e] = "queued"] \in Run
  BY <1>1, RunChanges DEF Look, JobState
<1>4. run' \in [Procs -> Run]
  BY <1>2, <1>3, Becomes
<1>5. endpoint' \in [Endpoints -> EndpointStatus \union {"none"}]
  BY <1>2, <1>3, Writes DEF TypeOK, EndpointStatus
<1> QED BY <1>4, <1>5 DEF CheckSource, TypeOK

\* The steps between the phases.
LEMMA PhaseType ==
  ASSUME TypeOK, NEW p \in Procs,
         \/ StartUidJobs(p) \/ StartPhase2(p) \/ StartItemJobs(p) \/ CollectStatuses(p)
         \/ Raise(p)
  PROVE  TypeOK'
<1>1. run[p] \in Run /\ run[p].items \subseteq Endpoints
  BY RunFields DEF TypeOK, Endpoints
<1>2. [run[p] EXCEPT !.at = "planItems", !.todo = run[p].items] \in Run
  BY <1>1 DEF Run
<1>3. run' \in [Procs -> Run]
  BY <1>1, <1>2, MovesOn, RunChanges, Becomes
     DEF StartUidJobs, StartPhase2, StartItemJobs, CollectStatuses, Raise, Phase
<1> QED BY <1>3 DEF StartUidJobs, StartPhase2, StartItemJobs, CollectStatuses, Raise, TypeOK

\* The status a finished run writes is one of the task's; SUCCESS needs every row good.
LEMMA DeriveResult ==
  ASSUME NEW S \in SUBSET (EndpointStatus \union {"none"})
  PROVE  Derive(S) \in TaskStatus /\ (Derive(S) = "SUCCESS" <=> S \subseteq Good)
BY DEF Derive, Good, TaskStatus

LEMMA FinishType ==
  ASSUME TypeOK, NEW p \in Procs, Finish(p)
  PROVE  TypeOK'
<1>1. run[p].scope \subseteq Endpoints
  BY RunFields DEF TypeOK
<1>2. {endpoint[e] : e \in run[p].scope} \subseteq EndpointStatus \union {"none"}
  BY <1>1 DEF TypeOK
<1>3. task' \in TaskStatus
  BY <1>2, DeriveResult DEF Finish
<1>4. run' \in [Procs -> Run]
  BY MovesOn, RunChanges, Becomes DEF Finish, TypeOK, Phase
<1> QED BY <1>1, <1>3, <1>4, TaskAssumption DEF Finish, TypeOK

LEMMA InitType == Init => TypeOK
BY IdleRun, TaskAssumption DEF Init, TypeOK, EndpointStatus

LEMMA NextType == TypeOK /\ [Next]_vars => TypeOK'
<1> SUFFICES ASSUME TypeOK, [Next]_vars PROVE TypeOK'
  OBVIOUS
<1>1. ASSUME NEW p \in Procs, Command(p) \/ Decide(p) \/ Close(p) \/ Crash(p) PROVE TypeOK'
  <2>1. CASE Close(p) \/ Crash(p)
    BY <2>1, IdleRun, Becomes DEF Close, Crash, TypeOK
  <2> QED BY <1>1, <2>1, CommandType, DecideType
<1>2. ASSUME NEW p \in Procs, RunStep(p) PROVE TypeOK'
  BY <1>1, <1>2, PrepareType, PlanType, JobType, CheckSourceType, PhaseType, FinishType
     DEF RunStep, Endpoints
<1>3. CASE Tick
  BY <1>3, TaskAssumption DEF Tick, TypeOK
<1>4. CASE UNCHANGED vars
  BY <1>4 DEF vars, TypeOK
<1> QED BY <1>1, <1>2, <1>3, <1>4 DEF Next

\* Rows, runs and the task keep their types under any interleaving of any processes;
\* age stays below the threshold (FetchRunPlanner, _run, prepare_task_run).
THEOREM TypeCorrect == Spec => []TypeOK
BY InitType, NextType, PTL DEF Spec

------------------------------------------------------------------------------
(* The inductive invariant while runs do not overlap.                        *)

Settled == {"SUCCESS", "FAILED_EXHAUSTED", "FAILED_PERMANENT"}

\* Which coroutines there are at which point of the run.
JobsInPhase(r) ==
  /\ r.at \in {"idle", "decide", "seed", "mark", "prepare"} => r.job = NoJobs
  /\ r.at \in {"plan", "uid"} => \A e \in ItemLevel : r.job[e] = "none"
  /\ r.at = "planItems" => r.todo \subseteq r.items /\ \A e \in ItemLevel : r.job[e] # "aborted"
  /\ r.at \in {"planItems", "item", "final", "closing"} =>
       \A e \in UidLevel : r.job[e] \in {"none", "done"}
  /\ \A e \in UidLevel : r.job[e] # "aborted"

\* What became of the uid-level endpoints of the scope so far.
ScopeInPhase(r, rows) ==
  \A e \in r.scope \cap UidLevel :
    /\ r.at = "plan" => e \in r.todo \/ rows[e] \in Settled \/ r.job[e] \in {"queued", "done"}
    /\ r.at = "uid" => rows[e] \in Settled \/ r.job[e] \in {"queued", "running", "done"}
    /\ r.at \in {"planItems", "item", "final"} => rows[e] \in Settled \/ r.job[e] = "done"

\* From the first prepared row to the final status the task is RUNNING.
TaskInPhase(r, status) ==
  r.at \in {"prepare", "plan", "uid", "planItems", "item", "final"} => status = "RUNNING"

\* A fan-out waits and works on a source that is ready; its own row says no success before
\* it ends, and not after it when it left items behind.
FanoutRows(r, rows) ==
  \A e \in ItemLevel :
    /\ r.job[e] \in {"queued", "running"} => rows[Source[e]] = "SUCCESS"
    /\ r.job[e] \in {"running", "aborted"} => rows[e] \in {"RUNNING", "FAILED_PERMANENT"}

RunInv(r, rows, status) ==
  JobsInPhase(r) /\ ScopeInPhase(r, rows) /\ TaskInPhase(r, status) /\ FanoutRows(r, rows)

IInv ==
  /\ TypeOK
  /\ \A p \in Procs : RunInv(run[p], endpoint, task)
  /\ SuccessIsBacked

\* A process that does nothing, or has a command and has not looked at the task yet.
Outside(r) == r.at \in {"idle", "decide"}

\* Runs do not overlap: at most one process is past its decision and not closed yet. Nothing
\* in the code sees to it, and TakeOverOnlyDead shows how it is lost; commands that come while
\* a run lasts and leave again are not excluded.
Apart == \A p, q \in Procs : Outside(run[p]) \/ Outside(run[q]) \/ p = q

\* Before its rows are prepared a run has no coroutine and claims nothing of them.
LEMMA EarlyInv ==
  ASSUME NEW r \in Run, r.at \in {"idle", "decide", "seed", "mark"}, r.job = NoJobs,
         NEW rows, NEW status
  PROVE  RunInv(r, rows, status)
BY DEF RunInv, JobsInPhase, ScopeInPhase, TaskInPhase, FanoutRows, NoJobs, Endpoints

\* One process per uid is the least of it.
LEMMA OneIsApart == (\A p, q \in Procs : p = q) => Apart
BY DEF Apart

\* A process outside keeps its promises whatever another one writes, and one that is not is
\* the only one; so a step has to keep what its own run becomes.
LEMMA OnlyRun ==
  ASSUME Apart, Apart', IInv, NEW p \in Procs, NEW r \in Run, Become(p, r),
         RunInv(r, endpoint', task'), SuccessIsBacked',
         ~Outside(run[p]) \/ ~Outside(r) \/ UNCHANGED <<task, endpoint>>
  PROVE  (\A q \in Procs : RunInv(run[q], endpoint, task))' /\ SuccessIsBacked'
<1>1. run'[p] = r /\ \A q \in Procs \ {p} : run'[q] = run[q]
  BY Becomes DEF IInv
<1>2. ASSUME NEW q \in Procs, q # p PROVE RunInv(run[q], endpoint', task')
  <2>1. run[q] \in Run /\ RunInv(run[q], endpoint, task)
    BY DEF IInv, TypeOK
  <2>2. CASE Outside(run[q])
    <3>1. run[q].job = NoJobs /\ run[q].at \in {"idle", "decide", "seed", "mark"}
      BY <2>1, <2>2 DEF RunInv, JobsInPhase, Outside
    <3> QED BY <2>1, <3>1, EarlyInv
  <2>3. CASE ~Outside(run[q])
    <3>1. Outside(run[p])
      BY <1>2, <2>3 DEF Apart
    <3>2. Outside(run'[p])
      BY <1>1, <1>2, <2>3 DEF Apart
    <3>3. UNCHANGED <<task, endpoint>>
      BY <1>1, <3>1, <3>2
    <3> QED BY <2>1, <3>3
  <2> QED BY <2>2, <2>3
<1> QED BY <1>1, <1>2

LEMMA InitInv == Init => IInv
<1> SUFFICES ASSUME Init PROVE IInv
  OBVIOUS
<1>1. Idle.at = "idle" /\ Idle.job = NoJobs
  BY DEF Idle
<1>2. \A p \in Procs : RunInv(run[p], endpoint, task)
  BY <1>1, IdleRun, EarlyInv DEF Init
<1> QED BY <1>2, InitType DEF IInv, Init, SuccessIsBacked

------------------------------------------------------------------------------
(* What each step of a process keeps.                                        *)

RunsInv == \A p \in Procs : RunInv(run[p], endpoint, task)

LEMMA StopsInv ==
  ASSUME Apart, Apart', IInv, NEW p \in Procs, Become(p, Idle),
         UNCHANGED <<task, endpoint, finished>>
  PROVE  RunsInv' /\ SuccessIsBacked'
<1>1. Idle.at = "idle" /\ Idle.job = NoJobs
  BY DEF Idle
<1>2. RunInv(Idle, endpoint', task')
  BY <1>1, IdleRun, EarlyInv
<1>3. SuccessIsBacked'
  BY DEF IInv, SuccessIsBacked
<1> QED BY <1>2, <1>3, IdleRun, OnlyRun DEF RunsInv

LEMMA CommandInv ==
  ASSUME Apart, Apart', IInv, NEW p \in Procs, Command(p)
  PROVE  RunsInv' /\ SuccessIsBacked'
<1>1. PICK m \in Modes, a \in Arguments :
        Become(p, [Idle EXCEPT !.at = "decide", !.mode = m, !.argument = a])
  BY DEF Command
<1> DEFINE r == [Idle EXCEPT !.at = "decide", !.mode = m, !.argument = a]
<1>2. r \in Run
  BY IdleRun, TaskAssumption DEF Run
<1>3. r.at = "decide" /\ r.job = NoJobs
  BY DEF Idle
<1> HIDE DEF r
<1>4. RunInv(r, endpoint', task')
  BY <1>2, <1>3, EarlyInv
<1>5. SuccessIsBacked'
  BY DEF IInv, SuccessIsBacked, Command
<1>6. Become(p, r)
  BY <1>1 DEF r
<1> QED BY <1>2, <1>4, <1>5, <1>6, OnlyRun DEF Command, RunsInv

\* A decided command has no coroutine yet; a takeover only turns RUNNING into PARTIAL.
LEMMA DecideInv ==
  ASSUME Apart, Apart', IInv, NEW p \in Procs, Decide(p)
  PROVE  RunsInv' /\ SuccessIsBacked'
<1>1. CASE AlreadyRunning(p) \/ SkipFailed(p)
  BY <1>1, StopsInv DEF AlreadyRunning, SkipFailed
<1>2. CASE TakeOver(p) \/ Proceed(p)
  <2>1. PICK s \in TaskStatus \union {"none"} : Start(p, s)
    BY <1>2 DEF TakeOver, Proceed, IInv, TypeOK, TaskStatus
  <2> DEFINE r == [run[p] EXCEPT !.at = "seed",
                                 !.fresh = (s = "none" \/ run[p].mode = "full"),
                                 !.scope = Scope(s, run[p].mode, run[p].argument)]
  <2>2. run[p] \in Run /\ run[p].at = "decide"
    BY <1>2 DEF TakeOver, Proceed, At, IInv, TypeOK
  <2>3. Scope(s, run[p].mode, run[p].argument) \subseteq Endpoints
    BY <2>2, RunFields DEF Scope, Seeded
  <2>4. r \in Run
    BY <2>2, <2>3 DEF Run
  <2>5. r.at = "seed" /\ r.job = run[p].job /\ run[p].job = NoJobs
    BY <2>2 DEF IInv, RunInv, JobsInPhase, Run
  <2>6. Become(p, r)
    BY <2>1 DEF Start
  <2> HIDE DEF r
  <2>7. RunInv(r, endpoint', task')
    BY <2>4, <2>5, EarlyInv
  <2>8. SuccessIsBacked'
    BY <1>2 DEF IInv, SuccessIsBacked, TakeOver, Proceed
  <2>9. ~Outside(r)
    BY <2>5 DEF Outside
  <2> QED BY <2>4, <2>6, <2>7, <2>8, <2>9, OnlyRun DEF RunsInv
<1> QED BY <1>1, <1>2 DEF Decide

\* The seed step writes no row that says something already.
LEMMA InitTaskInv ==
  ASSUME Apart, Apart', IInv, NEW p \in Procs, InitTask(p)
  PROVE  RunsInv' /\ SuccessIsBacked'
<1> DEFINE r == [run[p] EXCEPT !.at = "mark"]
<1>1. run[p] \in Run /\ run[p].at = "seed" /\ Become(p, r)
  BY MovesOn DEF InitTask, At, IInv, TypeOK, Phase
<1>2. r \in Run
  BY <1>1, RunChanges DEF Phase
<1>3. r.at = "mark" /\ r.job = NoJobs
  BY <1>1 DEF IInv, RunInv, JobsInPhase, Run
<1> HIDE DEF r
<1>4. RunInv(r, endpoint', task')
  BY <1>2, <1>3, EarlyInv
<1>5. SuccessIsBacked'
  <2>1. \A e \in Endpoints : endpoint[e] # "none" => endpoint'[e] = endpoint[e]
    BY DEF InitTask
  <2>2. finished' \subseteq Endpoints /\ finished' = finished /\ (task' = "SUCCESS" => task = "SUCCESS")
    BY DEF InitTask, IInv, TypeOK
  <2> QED BY <2>1, <2>2 DEF IInv, SuccessIsBacked, Good
<1>6. ~Outside(run[p])
  BY <1>1 DEF Outside
<1> QED BY <1>1, <1>2, <1>4, <1>5, <1>6, OnlyRun DEF RunsInv

\* From the mark on the task is RUNNING, so a step only has to keep what its run claims.
LEMMA ClaimsKept ==
  ASSUME Apart, Apart', IInv, NEW p \in Procs, NEW r \in Run, Become(p, r), task' = "RUNNING",
         run[p].at \notin {"idle", "decide"}, JobsInPhase(r), ScopeInPhase(r, endpoint'), FanoutRows(r, endpoint')
  PROVE  RunsInv' /\ SuccessIsBacked'
<1>1. RunInv(r, endpoint', task')
  BY DEF RunInv, TaskInPhase
<1>2. SuccessIsBacked'
  BY DEF SuccessIsBacked
<1> QED BY <1>1, <1>2, OnlyRun DEF Outside, RunsInv

\* What the invariant says of a run while it is past the mark.
LEMMA Claims ==
  ASSUME IInv, NEW p \in Procs
  PROVE  /\ TypeOK /\ run[p] \in Run /\ JobsInPhase(run[p])
         /\ ScopeInPhase(run[p], endpoint) /\ FanoutRows(run[p], endpoint)
         /\ run[p].at \in {"prepare", "plan", "uid", "planItems", "item", "final"} => task = "RUNNING"
BY DEF IInv, RunInv, TypeOK, TaskInPhase

LEMMA MarkInv ==
  ASSUME Apart, Apart', IInv, NEW p \in Procs, MarkRunning(p)
  PROVE  RunsInv' /\ SuccessIsBacked'
<1> DEFINE r == [run[p] EXCEPT !.at = "prepare", !.todo = run[p].scope]
<1>1. run[p] \in Run /\ run[p].at = "mark" /\ run[p].job = NoJobs /\ run[p].scope \subseteq Endpoints
  BY Claims, RunFields DEF MarkRunning, At, JobsInPhase
<1>2. r \in Run /\ r.at = "prepare" /\ r.job = NoJobs
  BY <1>1 DEF Run
<1>3. Become(p, r) /\ task' = "RUNNING"
  BY DEF MarkRunning
<1> HIDE DEF r
<1>4. JobsInPhase(r) /\ ScopeInPhase(r, endpoint') /\ FanoutRows(r, endpoint')
  BY <1>2 DEF JobsInPhase, ScopeInPhase, FanoutRows, NoJobs, Endpoints
<1> QED BY <1>1, <1>2, <1>3, <1>4, ClaimsKept

LEMMA PrepareInv ==
  ASSUME Apart, Apart', IInv, NEW p \in Procs, Prepare(p)
  PROVE  RunsInv' /\ SuccessIsBacked'
<1>1. PICK e \in run[p].todo : Become(p, Look(p, e))
  BY DEF Prepare
<1> DEFINE r == Look(p, e)
<1>2. run[p] \in Run /\ run[p].at = "prepare" /\ run[p].job = NoJobs /\ task = "RUNNING"
      /\ run[p].todo \subseteq Endpoints
  BY Claims, RunFields DEF Prepare, At, JobsInPhase
<1>3. r \in Run /\ r.at = "prepare" /\ r.job = NoJobs
  BY <1>2 DEF Look, Run
<1> HIDE DEF r
<1>4. JobsInPhase(r) /\ ScopeInPhase(r, endpoint') /\ FanoutRows(r, endpoint')
  BY <1>3 DEF JobsInPhase, ScopeInPhase, FanoutRows, NoJobs, Endpoints
<1>5. Become(p, r) /\ task' = "RUNNING"
  BY <1>1, <1>2 DEF Prepare, r
<1> QED BY <1>2, <1>3, <1>4, <1>5, ClaimsKept

\* The plan's list starts as the whole scope.
LEMMA CredentialInv ==
  ASSUME Apart, Apart', IInv, NEW p \in Procs, Credential(p)
  PROVE  RunsInv' /\ SuccessIsBacked'
<1>1. PICK found \in BOOLEAN :
        Become(p, [run[p] EXCEPT !.at = "plan", !.todo = run[p].scope, !.credential = found])
  BY DEF Credential
<1> DEFINE r == [run[p] EXCEPT !.at = "plan", !.todo = run[p].scope, !.credential = found]
<1>2. /\ run[p] \in Run /\ run[p].at = "prepare" /\ run[p].job = NoJobs /\ task = "RUNNING"
      /\ run[p].scope \subseteq Endpoints
  BY Claims, RunFields DEF Credential, At, JobsInPhase
<1>3. r \in Run /\ r.at = "plan" /\ r.job = NoJobs /\ r.todo = r.scope
  BY <1>2 DEF Run
<1>4. Become(p, r) /\ task' = "RUNNING"
  BY <1>1, <1>2 DEF Credential
<1> HIDE DEF r
<1>5. JobsInPhase(r) /\ ScopeInPhase(r, endpoint') /\ FanoutRows(r, endpoint')
  BY <1>3 DEF JobsInPhase, ScopeInPhase, FanoutRows, NoJobs, Endpoints
<1> QED BY <1>2, <1>3, <1>4, <1>5, ClaimsKept

\* Phase 1 starts no fan-out, and lists or settles each uid-level endpoint of the scope.
LEMMA PlanInv ==
  ASSUME Apart, Apart', IInv, NEW p \in Procs, Plan(p)
  PROVE  RunsInv' /\ SuccessIsBacked'
<1> DEFINE r0 == run[p]
<1>1. PICK e \in r0.todo : PlanSkip(p, e) \/ PlanRefused(p, e) \/ PlanUid(p, e) \/ PlanItem(p, e)
  BY DEF Plan
<1>2. /\ r0 \in Run /\ r0.at = "plan" /\ task = "RUNNING" /\ task' = "RUNNING"
      /\ \A f \in ItemLevel : r0.job[f] = "none"
      /\ \A f \in UidLevel : r0.job[f] # "aborted"
      /\ e \in Endpoints
  BY <1>1, Claims, RunFields
     DEF Plan, At, JobsInPhase, PlanSkip, PlanRefused, PlanUid, PlanItem
<1>3. \A f \in r0.scope \cap UidLevel :
        f \in r0.todo \/ endpoint[f] \in Settled \/ r0.job[f] \in {"queued", "done"}
  BY <1>2, Claims DEF ScopeInPhase
<1>4. /\ Look(p, e) \in Run /\ Look(p, e).at = "plan" /\ Look(p, e).job = r0.job
      /\ Look(p, e).scope = r0.scope /\ Look(p, e).todo = r0.todo \ {e}
  BY <1>2, RunFields DEF Look, Run
<1>5. CASE PlanSkip(p, e) \/ PlanRefused(p, e)
  <2> DEFINE r == Look(p, e)
  <2>1. \A f \in Endpoints \ {e} : endpoint'[f] = endpoint[f]
    BY <1>5 DEF PlanSkip, PlanRefused, Write, IInv, TypeOK
  <2>2. endpoint'[e] \in Settled
    BY <1>2, <1>5 DEF PlanSkip, PlanRefused, Unfinished, Write, IInv, TypeOK, Settled
  <2>3. JobsInPhase(r) /\ ScopeInPhase(r, endpoint') /\ FanoutRows(r, endpoint')
    BY <1>2, <1>3, <1>4, <2>1, <2>2 DEF JobsInPhase, ScopeInPhase, FanoutRows, Endpoints
  <2> QED BY <1>2, <1>4, <1>5, <2>3, ClaimsKept DEF PlanSkip, PlanRefused
<1>6. CASE PlanUid(p, e)
  <2> DEFINE r == [Look(p, e) EXCEPT !.job[e] = "queued"]
  <2>1. /\ r \in Run /\ r.at = "plan" /\ r.scope = r0.scope /\ r.todo = r0.todo \ {e}
        /\ r.job = [r0.job EXCEPT ![e] = "queued"]
    BY <1>2, <1>4, RunChanges, ZenonT(60) DEF Run, JobState
  <2>2. r.job[e] = "queued" /\ \A f \in Endpoints \ {e} : r.job[f] = r0.job[f]
    BY <1>2, <2>1, RunFields
  <2>3. Become(p, r) /\ endpoint' = endpoint /\ e \in UidLevel
    BY <1>6 DEF PlanUid
  <2> HIDE DEF r
  <2>4. JobsInPhase(r) /\ ScopeInPhase(r, endpoint') /\ FanoutRows(r, endpoint')
    BY <1>2, <1>3, <2>1, <2>2, <2>3, TaskAssumption
       DEF JobsInPhase, ScopeInPhase, FanoutRows, Endpoints
  <2> QED BY <1>2, <2>1, <2>3, <2>4, ClaimsKept
<1>7. CASE PlanItem(p, e)
  <2> DEFINE s == Source[e]
             listed == [Look(p, e) EXCEPT !.items = @ \union {e}]
             r == [listed EXCEPT !.job[s] = "queued"]
  <2>1. e \in ItemLevel /\ s \in UidLevel /\ s \in Endpoints
    BY <1>7, TaskAssumption DEF PlanItem, Endpoints
  <2>2. /\ listed \in Run /\ listed.at = "plan" /\ listed.job = r0.job
        /\ listed.scope = r0.scope /\ listed.todo = r0.todo \ {e}
    BY <1>4, <2>1 DEF Run
  <2>3. /\ r \in Run /\ r.at = "plan" /\ r.scope = r0.scope /\ r.todo = r0.todo \ {e}
        /\ r.job = [r0.job EXCEPT ![s] = "queued"]
    BY <2>1, <2>2, RunChanges, ZenonT(60) DEF Run, JobState
  <2>4. r.job[s] = "queued" /\ \A f \in Endpoints \ {s} : r.job[f] = r0.job[f]
    BY <1>2, <2>1, <2>3, RunFields
  <2>5. \/ Become(p, listed) /\ endpoint' = endpoint
        \/ Become(p, r) /\ Write(s, "PENDING")
    BY <1>7 DEF PlanItem
  <2> HIDE DEF listed, r
  <2>6. CASE Become(p, listed) /\ endpoint' = endpoint
    <3>1. JobsInPhase(listed) /\ ScopeInPhase(listed, endpoint') /\ FanoutRows(listed, endpoint')
      BY <1>2, <1>3, <2>1, <2>2, <2>6, TaskAssumption
         DEF JobsInPhase, ScopeInPhase, FanoutRows, Endpoints
    <3> QED BY <1>2, <2>2, <2>6, <3>1, ClaimsKept
  <2>7. CASE Become(p, r) /\ Write(s, "PENDING")
    <3>1. \A f \in Endpoints \ {s} : endpoint'[f] = endpoint[f]
      BY <2>7 DEF Write, IInv, TypeOK
    <3>2. JobsInPhase(r) /\ ScopeInPhase(r, endpoint') /\ FanoutRows(r, endpoint')
      BY <1>2, <1>3, <2>1, <2>3, <2>4, <3>1, TaskAssumption
         DEF JobsInPhase, ScopeInPhase, FanoutRows, Endpoints
    <3> QED BY <1>2, <2>3, <2>7, <3>2, ClaimsKept
  <2> QED BY <2>5, <2>6, <2>7
<1> QED BY <1>1, <1>5, <1>6, <1>7

\* A uid-level job that has begun counts for its endpoint, whatever it writes.
LEMMA UidJobInv ==
  ASSUME Apart, Apart', IInv, NEW p \in Procs, NEW e \in UidLevel,
         UidBegin(p, e) \/ UidRetry(p, e) \/ UidEnd(p, e)
  PROVE  RunsInv' /\ SuccessIsBacked'
<1> DEFINE r0 == run[p]
<1>1. /\ r0 \in Run /\ r0.at = "uid" /\ task = "RUNNING" /\ task' = "RUNNING" /\ e \in Endpoints
      /\ \A f \in ItemLevel : r0.job[f] = "none"
      /\ \A f \in UidLevel : r0.job[f] # "aborted"
      /\ \A f \in r0.scope \cap UidLevel :
           endpoint[f] \in Settled \/ r0.job[f] \in {"queued", "running", "done"}
  BY Claims DEF UidBegin, UidRetry, UidEnd, At, JobsInPhase, ScopeInPhase, Endpoints
<1>2. PICK j \in {"running", "done"} : Become(p, [r0 EXCEPT !.job[e] = j])
  <2>1. CASE UidRetry(p, e)
    <3>1. run[p] = [r0 EXCEPT !.job[e] = "running"]
      BY <1>1, <2>1, RunFields DEF UidRetry, Run
    <3> QED BY <2>1, <3>1 DEF UidRetry, Become, IInv, TypeOK
  <2>2. CASE UidBegin(p, e) \/ UidEnd(p, e)
    BY <1>1, <2>2, MovesOn DEF UidBegin, UidEnd, IInv, JobState
  <2> QED BY <2>1, <2>2
<1> DEFINE r == [r0 EXCEPT !.job[e] = j]
<1>3. /\ r \in Run /\ r.at = "uid" /\ r.scope = r0.scope /\ r.job = [r0.job EXCEPT ![e] = j]
  BY <1>1, RunChanges, ZenonT(60) DEF Run, JobState
<1>4. r.job[e] = j /\ \A f \in Endpoints \ {e} : r.job[f] = r0.job[f]
  BY <1>1, <1>3, RunFields
<1>5. \A f \in Endpoints \ {e} : endpoint'[f] = endpoint[f]
  BY DEF UidBegin, UidRetry, UidEnd, Write, IInv, TypeOK
<1> HIDE DEF r
<1>6. JobsInPhase(r) /\ ScopeInPhase(r, endpoint') /\ FanoutRows(r, endpoint')
  BY <1>1, <1>3, <1>4, <1>5, TaskAssumption
     DEF JobsInPhase, ScopeInPhase, FanoutRows, Endpoints
<1>7. Become(p, r)
  BY <1>2 DEF r
<1> QED BY <1>1, <1>3, <1>6, <1>7, ClaimsKept

\* A fan-out is queued only on a source that is SUCCESS, and no source is written any more.
LEMMA CheckSourceInv ==
  ASSUME Apart, Apart', IInv, NEW p \in Procs, CheckSource(p)
  PROVE  RunsInv' /\ SuccessIsBacked'
<1> DEFINE r0 == run[p]
<1>1. PICK e \in r0.todo :
        \/ /\ SourceReady(e) /\ UNCHANGED endpoint
           /\ Become(p, [Look(p, e) EXCEPT !.job[e] = "queued"])
        \/ (UNCHANGED endpoint \/ Write(e, "FAILED_PERMANENT")) /\ Become(p, Look(p, e))
  BY DEF CheckSource
<1>2. /\ r0 \in Run /\ r0.at = "planItems" /\ task = "RUNNING" /\ task' = "RUNNING"
      /\ r0.todo \subseteq r0.items
      /\ \A f \in ItemLevel : r0.job[f] # "aborted"
      /\ \A f \in UidLevel : r0.job[f] \in {"none", "done"}
      /\ \A f \in r0.scope \cap UidLevel : endpoint[f] \in Settled \/ r0.job[f] = "done"
      /\ FanoutRows(r0, endpoint)
  BY Claims DEF CheckSource, At, JobsInPhase, ScopeInPhase
<1>3. e \in ItemLevel /\ e \in Endpoints /\ e \notin UidLevel /\ r0.items \subseteq ItemLevel
  BY <1>1, <1>2, RunFields, TaskAssumption DEF Endpoints
<1>4. /\ Look(p, e) \in Run /\ Look(p, e).at = "planItems" /\ Look(p, e).job = r0.job
      /\ Look(p, e).scope = r0.scope /\ Look(p, e).todo = r0.todo \ {e}
      /\ Look(p, e).items = r0.items
  BY <1>2, RunFields DEF Look, Run
<1>5. CASE /\ SourceReady(e) /\ UNCHANGED endpoint
           /\ Become(p, [Look(p, e) EXCEPT !.job[e] = "queued"])
  <2> DEFINE r == [Look(p, e) EXCEPT !.job[e] = "queued"]
  <2>1. /\ r \in Run /\ r.at = "planItems" /\ r.scope = r0.scope /\ r.todo = r0.todo \ {e}
        /\ r.items = r0.items /\ r.job = [r0.job EXCEPT ![e] = "queued"]
    BY <1>3, <1>4, RunChanges, ZenonT(60) DEF Run, JobState
  <2>2. r.job[e] = "queued" /\ \A f \in Endpoints \ {e} : r.job[f] = r0.job[f]
    BY <1>2, <1>3, <2>1, RunFields
  <2>3. Become(p, r)
    BY <1>5
  <2> HIDE DEF r
  <2>4. JobsInPhase(r) /\ ScopeInPhase(r, endpoint')
    BY <1>2, <1>3, <1>5, <2>1, <2>2 DEF JobsInPhase, ScopeInPhase, Endpoints
  <2>5. FanoutRows(r, endpoint')
    BY <1>2, <1>5, <2>2 DEF FanoutRows, SourceReady, Endpoints
  <2> QED BY <1>2, <2>1, <2>3, <2>4, <2>5, ClaimsKept
<1>6. CASE (UNCHANGED endpoint \/ Write(e, "FAILED_PERMANENT")) /\ Become(p, Look(p, e))
  <2> DEFINE r == Look(p, e)
  <2>1. \A f \in UidLevel : endpoint'[f] = endpoint[f]
    BY <1>3, <1>6 DEF Write, IInv, TypeOK, Endpoints
  <2>2. JobsInPhase(r) /\ ScopeInPhase(r, endpoint')
    BY <1>2, <1>4, <2>1 DEF JobsInPhase, ScopeInPhase
  <2>3. FanoutRows(r, endpoint')
    <3>1. \A f \in ItemLevel : Source[f] \in UidLevel /\ f \in Endpoints
      BY TaskAssumption DEF Endpoints
    <3>2. \A f \in Endpoints : endpoint'[f] = endpoint[f] \/ endpoint'[f] = "FAILED_PERMANENT"
      BY <1>3, <1>6 DEF Write, IInv, TypeOK
    <3> QED BY <1>2, <1>4, <2>1, <3>1, <3>2 DEF FanoutRows
  <2> QED BY <1>2, <1>4, <1>6, <2>2, <2>3, ClaimsKept
<1> QED BY <1>1, <1>5, <1>6

\* A fan-out writes its own row only, which is no source; what it left behind writes it also
\* while the run closes, and takes back no success.
LEMMA ItemJobInv ==
  ASSUME Apart, Apart', IInv, NEW p \in Procs, NEW e \in ItemLevel,
         ItemBegin(p, e) \/ ItemEnd(p, e) \/ LatePublish(p, e)
  PROVE  RunsInv' /\ SuccessIsBacked'
<1> DEFINE r0 == run[p]
<1>1. r0 \in Run /\ JobsInPhase(r0) /\ e \in Endpoints /\ e \notin UidLevel
  BY Claims, TaskAssumption DEF Endpoints
<1>2. r0.at \in {"item", "final", "closing"}
  BY <1>1, RunFields DEF ItemBegin, ItemEnd, LatePublish, At, JobsInPhase, NoJobs, Phase
<1>3. /\ task' = task /\ finished' = finished
      /\ r0.at \in {"item", "final"} => task = "RUNNING"
      /\ \A f \in UidLevel : r0.job[f] \in {"none", "done"}
      /\ r0.at # "closing" =>
           \A f \in r0.scope \cap UidLevel : endpoint[f] \in Settled \/ r0.job[f] = "done"
      /\ FanoutRows(r0, endpoint)
  BY <1>1, <1>2, Claims DEF ItemBegin, ItemEnd, LatePublish, JobsInPhase, ScopeInPhase
<1>4. PICK j \in {"running", "done", "aborted"} :
        /\ Job(p, e, j)
        /\ j = "running" => r0.job[e] = "queued"
        /\ j \in {"running", "aborted"} => endpoint'[e] \in {"RUNNING", "FAILED_PERMANENT"}
  <2>1. CASE ItemBegin(p, e)
    BY <1>1, <2>1 DEF ItemBegin, Write, IInv, TypeOK
  <2>2. CASE ItemEnd(p, e)
    <3>1. endpoint[e] \in {"RUNNING", "FAILED_PERMANENT"}
      BY <1>3, <2>2 DEF ItemEnd, FanoutRows
    <3> QED BY <1>1, <2>2, <3>1 DEF ItemEnd, Write, IInv, TypeOK
  <2>3. CASE LatePublish(p, e)
    BY <1>1, <2>3 DEF LatePublish, Write, IInv, TypeOK
  <2> QED BY <2>1, <2>2, <2>3
<1> DEFINE r == [r0 EXCEPT !.job[e] = j]
<1>5. /\ r \in Run /\ r.at = r0.at /\ r.scope = r0.scope /\ r.job = [r0.job EXCEPT ![e] = j]
  BY <1>1, RunChanges, ZenonT(60) DEF Run, JobState
<1>6. r.job[e] = j /\ \A f \in Endpoints \ {e} : r.job[f] = r0.job[f]
  BY <1>1, <1>5, RunFields
<1>7. \A f \in Endpoints \ {e} : endpoint'[f] = endpoint[f]
  BY <1>1 DEF ItemBegin, ItemEnd, LatePublish, Write, IInv, TypeOK
<1>8. Become(p, r)
  BY <1>1, <1>4, MovesOn DEF IInv, JobState
<1> HIDE DEF r
<1>9. JobsInPhase(r) /\ ScopeInPhase(r, endpoint')
  BY <1>1, <1>2, <1>3, <1>5, <1>6, <1>7 DEF JobsInPhase, ScopeInPhase, Endpoints
<1>10. FanoutRows(r, endpoint')
  <2> SUFFICES ASSUME NEW f \in ItemLevel
               PROVE  /\ r.job[f] \in {"queued", "running"} => endpoint'[Source[f]] = "SUCCESS"
                      /\ r.job[f] \in {"running", "aborted"}
                           => endpoint'[f] \in {"RUNNING", "FAILED_PERMANENT"}
    BY DEF FanoutRows
  <2>1. Source[f] \in Endpoints \ {e} /\ f \in Endpoints
    BY <1>1, TaskAssumption DEF Endpoints
  <2>2. CASE f = e
    BY <1>3, <1>4, <1>6, <1>7, <2>1, <2>2 DEF FanoutRows
  <2>3. CASE f # e
    BY <1>3, <1>6, <1>7, <2>1, <2>3 DEF FanoutRows
  <2> QED BY <2>2, <2>3
<1>11. SuccessIsBacked'
  <2> SUFFICES ASSUME task = "SUCCESS" PROVE \A f \in finished : endpoint'[f] \in Good
    BY <1>3 DEF SuccessIsBacked
  <2>1. r0.at = "closing"
    BY <1>2, <1>3
  <2>2. LatePublish(p, e)
    BY <2>1 DEF ItemBegin, ItemEnd, At
  <2>3. endpoint[e] \notin Good
    BY <1>3, <2>2 DEF LatePublish, FanoutRows, Good
  <2>4. finished \subseteq Endpoints /\ \A f \in finished : endpoint[f] \in Good
    BY DEF IInv, TypeOK, SuccessIsBacked
  <2> QED BY <1>7, <2>3, <2>4
<1>12. RunInv(r, endpoint', task')
  BY <1>2, <1>3, <1>5, <1>9, <1>10 DEF RunInv, TaskInPhase
<1>13. ~Outside(run[p])
  BY <1>2 DEF Outside
<1> QED BY <1>5, <1>8, <1>11, <1>12, <1>13, OnlyRun DEF RunsInv

\* A phase begins when the jobs of the one before are over.
LEMMA PhaseInv ==
  ASSUME Apart, Apart', IInv, NEW p \in Procs,
         StartUidJobs(p) \/ StartPhase2(p) \/ StartItemJobs(p) \/ CollectStatuses(p)
  PROVE  RunsInv' /\ SuccessIsBacked'
<1> USE DEF At
<1>1. /\ run[p] \in Run /\ JobsInPhase(run[p]) /\ ScopeInPhase(run[p], endpoint)
      /\ FanoutRows(run[p], endpoint) /\ task = "RUNNING" /\ task' = "RUNNING"
      /\ endpoint' = endpoint /\ run[p].at \in {"plan", "uid", "planItems", "item"}
  BY Claims DEF StartUidJobs, StartPhase2, StartItemJobs, CollectStatuses
<1>2. CASE StartUidJobs(p) \/ StartItemJobs(p) \/ CollectStatuses(p)
  <2>1. PICK a \in {"uid", "item", "final"} :
          /\ run' = [run EXCEPT ![p].at = a]
          /\ a = "uid" => run[p].at = "plan" /\ run[p].todo = {}
          /\ a = "item" => run[p].at = "planItems"
          /\ a = "final" => run[p].at = "item"
    BY <1>2 DEF StartUidJobs, StartItemJobs, CollectStatuses
  <2> DEFINE r == [run[p] EXCEPT !.at = a]
  <2>2. r \in Run /\ Become(p, r)
    BY <1>1, <2>1, RunChanges, MovesOn DEF Phase, IInv
  <2>3. r.at = a /\ r.scope = run[p].scope /\ r.job = run[p].job
    BY <1>1 DEF Run
  <2> HIDE DEF r
  <2>4. JobsInPhase(r) /\ ScopeInPhase(r, endpoint') /\ FanoutRows(r, endpoint')
    BY <1>1, <2>1, <2>3 DEF JobsInPhase, ScopeInPhase, FanoutRows
  <2> QED BY <1>1, <2>2, <2>4, ClaimsKept
<1>3. CASE StartPhase2(p)
  <2> DEFINE r == [run[p] EXCEPT !.at = "planItems", !.todo = run[p].items]
  <2>1. run[p].items \subseteq Endpoints /\ run[p].job \in [Endpoints -> JobState]
    BY <1>1, RunFields DEF Endpoints
  <2>2. /\ r \in Run /\ r.at = "planItems" /\ r.scope = run[p].scope /\ r.job = run[p].job
        /\ r.todo = r.items
    BY <1>1, <2>1 DEF Run
  <2>3. run[p].at = "uid" /\ JobsOver(p) /\ Become(p, r)
    BY <1>3 DEF StartPhase2
  <2> HIDE DEF r
  <2>4. \A e \in UidLevel : run[p].job[e] \in {"none", "done"}
    BY <1>1, <2>1, <2>3 DEF JobsOver, JobsInPhase, JobState, Endpoints
  <2>5. JobsInPhase(r)
    BY <1>1, <2>2, <2>3, <2>4 DEF JobsInPhase
  <2>6. ScopeInPhase(r, endpoint') /\ FanoutRows(r, endpoint')
    BY <1>1, <2>2, <2>3, <2>4 DEF ScopeInPhase, FanoutRows
  <2> QED BY <1>1, <2>2, <2>3, <2>5, <2>6, ClaimsKept
<1> QED BY <1>2, <1>3

\* A run that closes keeps its rows and its coroutines.
LEMMA ClosingInv ==
  ASSUME Apart, Apart', IInv, NEW p \in Procs, Finish(p) \/ Raise(p), SuccessIsBacked'
  PROVE  RunsInv' /\ SuccessIsBacked'
<1> DEFINE r == [run[p] EXCEPT !.at = "closing"]
<1>1. /\ run[p] \in Run /\ JobsInPhase(run[p]) /\ FanoutRows(run[p], endpoint)
      /\ endpoint' = endpoint /\ run[p].at \in {"item", "final"}
  BY Claims DEF Finish, Raise, At
<1>2. Become(p, r)
  BY MovesOn DEF Finish, Raise, IInv, Phase
<1>3. r \in Run
  BY <1>1, RunChanges DEF Phase
<1>4. r.at = "closing" /\ r.scope = run[p].scope /\ r.job = run[p].job
  BY <1>1 DEF Run
<1> HIDE DEF r
<1>5. RunInv(r, endpoint', task')
  BY <1>1, <1>4 DEF RunInv, JobsInPhase, ScopeInPhase, TaskInPhase, FanoutRows
<1>6. ~Outside(run[p])
  BY <1>1 DEF Outside
<1> QED BY <1>2, <1>3, <1>5, <1>6, OnlyRun DEF RunsInv

\* The result is SUCCESS only when every row of the scope is good.
LEMMA FinishInv ==
  ASSUME Apart, Apart', IInv, NEW p \in Procs, Finish(p)
  PROVE  RunsInv' /\ SuccessIsBacked'
<1>1. run[p].scope \subseteq Endpoints
  BY Claims, RunFields
<1>2. {endpoint[e] : e \in run[p].scope} \subseteq EndpointStatus \union {"none"}
  BY <1>1 DEF IInv, TypeOK
<1>3. task' = "SUCCESS" => {endpoint[e] : e \in run[p].scope} \subseteq Good
  BY <1>2, DeriveResult DEF Finish
<1>4. SuccessIsBacked'
  BY <1>3 DEF Finish, SuccessIsBacked
<1> QED BY <1>4, ClosingInv

\* A run that gives up leaves task and rows as they are.
LEMMA RaiseInv ==
  ASSUME Apart, Apart', IInv, NEW p \in Procs, Raise(p)
  PROVE  RunsInv' /\ SuccessIsBacked'
<1>1. SuccessIsBacked'
  BY DEF Raise, IInv, SuccessIsBacked
<1> QED BY <1>1, ClosingInv

------------------------------------------------------------------------------
(* The theorems.                                                             *)

LEMMA NextInv == Apart /\ Apart' /\ IInv /\ [Next]_vars => IInv'
<1> SUFFICES ASSUME Apart, Apart', IInv, [Next]_vars PROVE RunsInv' /\ SuccessIsBacked'
  BY NextType DEF IInv, RunsInv
<1>1. ASSUME NEW p \in Procs, Command(p) \/ Decide(p) \/ Close(p) \/ Crash(p)
      PROVE  RunsInv' /\ SuccessIsBacked'
  BY <1>1, CommandInv, DecideInv, StopsInv DEF Close, Crash
<1>2. ASSUME NEW p \in Procs, RunStep(p)
      PROVE  RunsInv' /\ SuccessIsBacked'
  BY <1>1, <1>2, InitTaskInv, MarkInv, PrepareInv, CredentialInv, PlanInv, UidJobInv,
     CheckSourceInv, ItemJobInv, PhaseInv, FinishInv, RaiseInv DEF RunStep
<1>3. CASE Tick \/ UNCHANGED vars
  <2>1. UNCHANGED <<task, endpoint, run, finished>>
    BY <1>3 DEF Tick, vars
  <2> QED BY <2>1 DEF IInv, RunsInv, SuccessIsBacked
<1> QED BY <1>1, <1>2, <1>3 DEF Next

LEMMA Inductive == Spec /\ []Apart => []IInv
BY InitInv, NextInv, PTL DEF Spec

\* While runs do not overlap, no fan-out is queued or running on a source whose last fetch
\* did not end in SUCCESS, whatever crashed or ran before (_run, phase 2).
THEOREM FanoutOnCompleteSourceHolds == Spec /\ []Apart => []FanoutOnCompleteSource
<1>1. IInv => FanoutOnCompleteSource
  BY DEF IInv, RunInv, FanoutRows, FanoutOnCompleteSource
<1> QED BY <1>1, Inductive, PTL

\* A run that no other one overlaps and that writes its result has settled, or at least run,
\* every uid-level endpoint of its scope, for any --include set and any rows found at the start.
THEOREM RunSettlesScopeHolds == Spec /\ []Apart => []RunSettlesScope
<1>1. IInv => RunSettlesScope
  BY DEF IInv, RunInv, ScopeInPhase, Settled, At, RunSettlesScope
<1> QED BY <1>1, Inductive, PTL

\* While runs do not overlap, a task that says SUCCESS is backed by good rows of the run that
\* wrote it, until a later run has marked the task RUNNING.
THEOREM SuccessIsBackedHolds == Spec /\ []Apart => []SuccessIsBacked
<1>1. IInv => SuccessIsBacked
  BY DEF IInv
<1> QED BY <1>1, Inductive, PTL

------------------------------------------------------------------------------
(* The failure no command undoes.                                            *)

\* No process is beyond looking at a task that failed permanently, save the one that wrote
\* the failure and is not closed yet.
AtRest == task = "FAILED_PERMANENT" =>
            \A p \in Procs : Outside(run[p]) \/ run[p].at = "closing"

\* An item coroutine that an aborted fan-out of a closing run left behind writes RUNNING over
\* the failure of its endpoint.
LeftOver(e) ==
  /\ endpoint[e] = "FAILED_PERMANENT" /\ endpoint'[e] = "RUNNING"
  /\ e \in ItemLevel
  /\ \E p \in Procs : At(p, "closing") /\ run[p].job[e] = "aborted"

RowsStay == \A e \in Endpoints : endpoint'[e] = endpoint[e] \/ LeftOver(e)

\* Commands look at such a task and leave; they start nothing. All that still changes a row
\* are the items left behind by the run that wrote the failure, until its database is closed.
PermanentIsFinal == [][task = "FAILED_PERMANENT" => UNCHANGED task /\ RowsStay]_vars

\* At rest a process can only take a command, decline it, close or die, and its items write.
LEMMA RestingSteps ==
  ASSUME IInv, AtRest, task = "FAILED_PERMANENT", NEW p \in Procs,
         Command(p) \/ Decide(p) \/ RunStep(p) \/ Crash(p)
  PROVE  /\ UNCHANGED task /\ RowsStay
         /\ \E r \in Run : Become(p, r) /\ (Outside(r) \/ r.at = "closing")
<1> USE DEF Outside
<1>1. Idle \in Run /\ Idle.at = "idle"
  BY IdleRun DEF Idle
<1>2. CASE Command(p)
  <2>1. PICK m \in Modes, a \in Arguments :
          Become(p, [Idle EXCEPT !.at = "decide", !.mode = m, !.argument = a])
    BY <1>2 DEF Command
  <2> DEFINE r == [Idle EXCEPT !.at = "decide", !.mode = m, !.argument = a]
  <2>2. r \in Run /\ r.at = "decide"
    BY <1>1, TaskAssumption DEF Run
  <2> QED BY <1>2, <2>1, <2>2 DEF Command, RowsStay
<1>3. CASE Decide(p)
  BY <1>1, <1>3 DEF Decide, AlreadyRunning, TakeOver, SkipFailed, Proceed, RowsStay
<1>4. CASE Close(p) \/ Crash(p)
  BY <1>1, <1>4 DEF Close, Crash, RowsStay
<1>5. ASSUME NEW e \in ItemLevel, LatePublish(p, e)
      PROVE  /\ UNCHANGED task /\ RowsStay
             /\ \E r \in Run : Become(p, r) /\ (Outside(r) \/ r.at = "closing")
  <2>1. /\ run[p] \in Run /\ JobsInPhase(run[p]) /\ FanoutRows(run[p], endpoint)
        /\ e \in Endpoints
    BY Claims DEF Endpoints
  <2>2. run[p].job[e] = "aborted" /\ Write(e, "RUNNING") /\ UNCHANGED task
    BY <1>5 DEF LatePublish
  <2>3. run[p].at = "closing"
    BY <2>1, <2>2 DEF AtRest, JobsInPhase, NoJobs
  <2>4. endpoint[e] \in {"RUNNING", "FAILED_PERMANENT"}
    BY <2>1, <2>2 DEF FanoutRows
  <2>5. endpoint'[e] = "RUNNING" /\ \A f \in Endpoints \ {e} : endpoint'[f] = endpoint[f]
    BY <2>1, <2>2, Writes DEF IInv, EndpointStatus
  <2>6. RowsStay
    BY <2>2, <2>3, <2>4, <2>5 DEF RowsStay, LeftOver, At
  <2>7. PICK j \in JobState : Become(p, [run[p] EXCEPT !.job[e] = j])
    BY <1>5, <2>1, MovesOn DEF LatePublish, IInv, JobState
  <2> DEFINE r == [run[p] EXCEPT !.job[e] = j]
  <2>8. r \in Run /\ r.at = run[p].at
    BY <2>1, RunChanges, ZenonT(60) DEF Run
  <2> QED BY <2>2, <2>3, <2>6, <2>7, <2>8
<1>6. ASSUME RunStep(p), ~Close(p) PROVE \E e \in ItemLevel : LatePublish(p, e)
  <2>1. run[p].at \in {"idle", "decide", "closing"}
    BY DEF AtRest
  <2> QED BY <1>6, <2>1
          DEF RunStep, At, InitTask, MarkRunning, Prepare, Credential, Plan, StartUidJobs,
              StartPhase2, CheckSource, StartItemJobs, CollectStatuses, Finish, Raise,
              UidBegin, UidRetry, UidEnd, ItemBegin, ItemEnd
<1> QED BY <1>2, <1>3, <1>4, <1>5, <1>6

\* Only the end of a run writes the failure.
LEMMA OnlyFinishFails ==
  ASSUME IInv, task # "FAILED_PERMANENT", task' = "FAILED_PERMANENT", [Next]_vars
  PROVE  \E p \in Procs : Finish(p)
<1>1. CASE Tick \/ UNCHANGED vars
  BY <1>1 DEF Tick, vars
<1>2. ASSUME NEW p \in Procs, Command(p) \/ Decide(p) \/ Crash(p) PROVE FALSE
  BY <1>2 DEF Command, Decide, AlreadyRunning, TakeOver, SkipFailed, Proceed, Crash
<1>3. ASSUME NEW p \in Procs, RunStep(p) PROVE Finish(p)
  <2>1. CASE InitTask(p) \/ MarkRunning(p) \/ Prepare(p)
    BY <2>1 DEF InitTask, MarkRunning, Prepare
  <2>2. CASE Credential(p) \/ Plan(p)
    BY <2>2 DEF Credential, Plan, PlanSkip, PlanRefused, PlanUid, PlanItem
  <2>3. CASE \/ StartUidJobs(p) \/ StartPhase2(p) \/ CheckSource(p) \/ StartItemJobs(p)
             \/ CollectStatuses(p) \/ Raise(p) \/ Close(p)
    BY <2>3 DEF StartUidJobs, StartPhase2, StartItemJobs, CollectStatuses, CheckSource, Raise,
                Close
  <2>4. CASE \E e \in UidLevel : UidBegin(p, e) \/ UidRetry(p, e) \/ UidEnd(p, e)
    BY <2>4 DEF UidBegin, UidRetry, UidEnd
  <2>5. CASE \E e \in ItemLevel : ItemBegin(p, e) \/ ItemEnd(p, e) \/ LatePublish(p, e)
    BY <2>5 DEF ItemBegin, ItemEnd, LatePublish
  <2> QED BY <1>3, <2>1, <2>2, <2>3, <2>4, <2>5 DEF RunStep
<1> QED BY <1>1, <1>2, <1>3 DEF Next

LEMMA NextAtRest ==
  Apart /\ IInv /\ AtRest /\ [Next]_vars =>
    AtRest' /\ (task = "FAILED_PERMANENT" => UNCHANGED task /\ RowsStay)
<1> SUFFICES ASSUME Apart, IInv, AtRest, [Next]_vars
             PROVE  AtRest' /\ (task = "FAILED_PERMANENT" => UNCHANGED task /\ RowsStay)
  OBVIOUS
<1> USE DEF AtRest
<1>1. CASE task = "FAILED_PERMANENT"
  <2>1. CASE Tick \/ UNCHANGED vars
    BY <1>1, <2>1 DEF Tick, vars, RowsStay
  <2>2. ASSUME NEW p \in Procs, Command(p) \/ Decide(p) \/ RunStep(p) \/ Crash(p)
        PROVE  AtRest' /\ UNCHANGED task /\ RowsStay
    <3>1. PICK r \in Run : Become(p, r) /\ (Outside(r) \/ r.at = "closing")
      BY <1>1, <2>2, RestingSteps
    <3>2. \A q \in Procs : run'[q] = r \/ run'[q] = run[q]
      BY <3>1, Becomes DEF IInv
    <3>3. UNCHANGED task /\ RowsStay
      BY <1>1, <2>2, RestingSteps
    <3> QED BY <1>1, <3>1, <3>2, <3>3
  <2> QED BY <2>1, <2>2 DEF Next
<1>2. CASE task # "FAILED_PERMANENT" /\ task' = "FAILED_PERMANENT"
  <2>1. PICK p \in Procs : Finish(p)
    BY <1>2, OnlyFinishFails
  <2>2. run[p] \in Run /\ ~Outside(run[p])
    BY <2>1 DEF Finish, At, Outside, IInv, TypeOK
  <2> DEFINE r == [run[p] EXCEPT !.at = "closing"]
  <2>3. r \in Run /\ Become(p, r)
    BY <2>1, <2>2, RunChanges, MovesOn DEF Finish, Phase, IInv
  <2>4. r.at = "closing"
    BY <2>2 DEF Run
  <2> HIDE DEF r
  <2>5. run'[p] = r /\ \A q \in Procs \ {p} : run'[q] = run[q]
    BY <2>3, Becomes DEF IInv
  <2>6. ASSUME NEW q \in Procs PROVE Outside(run'[q]) \/ run'[q].at = "closing"
    <3>1. CASE q = p
      BY <2>4, <2>5, <3>1
    <3>2. CASE q # p
      <4>1. Outside(run[q]) \/ Outside(run[p])
        BY <3>2 DEF Apart
      <4> QED BY <2>2, <2>5, <3>2, <4>1
    <3> QED BY <3>1, <3>2
  <2> QED BY <1>2, <2>6
<1> QED BY <1>1, <1>2

\* While runs do not overlap, once one wrote FAILED_PERMANENT no command ever changes the task
\* again or an endpoint's row: not a later --include set, not --mode full. The planner returns
\* before it compares (run_or_resume_scope); run fetch_retry shows what that locks out. Only
\* until its own database is closed (FetchCommand) do items that an aborted fan-out of that
\* run left behind write RUNNING over the failure of their endpoint, and nothing else.
THEOREM PermanentIsFinalHolds == Spec /\ []Apart => PermanentIsFinal
<1>1. Init => AtRest
  BY DEF Init, AtRest
<1> QED BY <1>1, InitInv, NextInv, NextAtRest, PTL DEF Spec, PermanentIsFinal
=============================================================================
