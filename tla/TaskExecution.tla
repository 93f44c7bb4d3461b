--------------------------- MODULE TaskExecution ---------------------------
(***************************************************************************)
(* A task carried through the durable queue: the API handlers of api.py    *)
(* that change a task and then schedule its job, and the workers of        *)
(* task_runner.py that claim the job and call service.run.  Composes       *)
(* TaskService (the task tables) and WorkerQueue (the job table); the two  *)
(* are written in separate transactions.                                   *)
(*                                                                         *)
(* The deployment has a task queue (task_queue_url).  Without one these    *)
(* handlers schedule nothing, and the run endpoint calls service.run       *)
(* itself, which TaskService alone covers.                                 *)
(***************************************************************************)
EXTENDS Naturals, Sequences, FiniteSets

CONSTANTS
    Worker, Api, None,
    RequiredOutputs, Route, Approval, Methods, MaxAttempts, MaxIds, MaxArtifacts,
    StaleAfter, MaxCrashes,
    AuditMayFail,   \* TRUE: durable_service's audit writes may raise
    DbMayFail,      \* TRUE: a session's write may fail
    FinishMayRaise, \* TRUE: the executor may raise after finish has committed
    ApiMayCrash,    \* TRUE: an API process may die between two calls
    PatientRetry,   \* TRUE: clients retry only after /execution shows a settled job
    MaxRetries      \* bound: retry is asked for only below this attempt number

VARIABLES
    task, project, arts, approvals, proc,           \* TaskService
    jobs, created, age, worker, sched, crashes,     \* WorkerQueue
    api,    \* for each API thread, what follows the service call it is in
    lost    \* history: an API process died before it had scheduled what it was to schedule

\* task_job_id: one deterministic job id for the task.
TheJob == "taskrun"

\* The parts, each with the theorems about it.
S == INSTANCE TaskServiceProofs WITH Runner <- Worker, Caller <- Api, MayCrash <- TRUE
Q == INSTANCE WorkerQueueProofs WITH Job <- {TheJob}, Scheduler <- Api, Restarts <- BOOLEAN,
                                     Timely <- TRUE

ASSUME ExecutionAssumption ==
    /\ S!ServiceAssumption
    /\ Q!QueueAssumption
    /\ Worker \cap Api = {}
    /\ MaxIds >= 1
    /\ {DbMayFail, ApiMayCrash, PatientRetry} \subseteq BOOLEAN
    /\ MaxRetries \in Nat

taskVars == <<task, project, arts, approvals, proc>>
jobVars == <<jobs, created, age, worker, sched, crashes>>
vars == <<taskVars, jobVars, api, lost>>

Init ==
    /\ S!Init
    /\ Q!Init
    /\ api = [a \in Api |-> "none"]
    /\ lost = FALSE

SessionFails(p) == DbMayFail /\ S!session_fails(p)

Free(a) == proc[a].pc = "idle" /\ sched[a].pc = "idle"

----------------------------------------------------------------------------
(* Handlers of the API.                                                    *)

\* POST /tasks, POST /tasks/{id}/retry: the service call, after which the handler
\* schedules the job with this restart flag.
StartSubmit(a) ==
    /\ Free(a)
    /\ S!submit(a)
    /\ api' = [api EXCEPT ![a] = "dispatch"]
    /\ UNCHANGED <<jobVars, lost>>

StartRetry(a) ==
    /\ Free(a)
    /\ "retry" \in Methods
    /\ task.attempt < MaxRetries
    /\ PatientRetry => jobs[TheJob].status \in Q!Settled
    /\ S!retry_read(a)
    /\ api' = [api EXCEPT ![a] = "restart"]
    /\ UNCHANGED <<jobVars, lost>>

\* POST /tasks/{id}/run with a queue configured: dispatch and nothing else.
Run(a) ==
    /\ Free(a)
    /\ task.status # "absent"
    /\ Q!ScheduleInsert(a, TheJob, FALSE)
    /\ UNCHANGED <<taskVars, api, lost>>

\* The handlers that do not touch the queue.
StartOther(a) ==
    /\ Free(a)
    /\ \/ "cancel" \in Methods /\ S!cancel_read(a)
       \/ "approve" \in Methods /\ \E i \in DOMAIN arts, d \in S!Decision : S!approve_read(a, {i}, d)
    /\ UNCHANGED <<jobVars, api, lost>>

ServiceStep(a) ==
    /\ S!CallStep(a) \/ SessionFails(a) \/ S!durable_raise(a)
    /\ UNCHANGED <<jobVars, api, lost>>

\* The service call is over: schedule if it returned, answer with an error if it
\* raised.
AfterService(a) ==
    /\ S!Done(a)
    /\ IF proc[a].pc = "returned" /\ api[a] # "none"
       THEN Q!ScheduleInsert(a, TheJob, api[a] = "restart")
       ELSE UNCHANGED jobVars
    /\ api' = [api EXCEPT ![a] = "none"]
    /\ UNCHANGED lost

ScheduleStep(a) ==
    /\ Q!SchedulerStep(a)
    /\ UNCHANGED <<taskVars, api, lost>>

ApiCrash(a) ==
    /\ ApiMayCrash
    /\ ~Free(a)
    /\ S!Crash(a) \/ (proc[a].pc = "idle" /\ UNCHANGED taskVars)
    /\ Q!ScheduleCrash(a) \/ (sched[a].pc = "idle" /\ UNCHANGED jobVars)
    /\ api' = [api EXCEPT ![a] = "none"]
    /\ lost' = (lost \/ api[a] # "none" \/ sched[a].pc # "idle")

ApiStep(a) == ServiceStep(a) \/ AfterService(a) \/ ScheduleStep(a)

----------------------------------------------------------------------------
(* Workers: the handler of a claimed job is service.run.                   *)

QueueStep(w) ==
    /\ Q!Recover(w) \/ Q!Claim(w) \/ Q!Finish(w) \/ Q!Close(w) \/ Q!Fail(w)
    /\ UNCHANGED <<taskVars, api, lost>>

RunStep(w) ==
    /\ worker[w].pc = "executing"
    /\ S!run_read(w) \/ S!RunStep(w) \/ SessionFails(w) \/ S!durable_raise(w)
    /\ UNCHANGED <<jobVars, api, lost>>

\* service.run returned or raised, and the executor goes on to finish or fail.
RunOver(w) ==
    /\ S!Done(w)
    /\ Q!Handle(w)
    /\ worker'[w].pc = IF proc[w].pc = "returned" THEN "finishing" ELSE "failing"
    /\ UNCHANGED <<api, lost>>

WorkerCrash(w) ==
    /\ Q!Crash(w)
    /\ S!Crash(w) \/ (proc[w].pc = "idle" /\ UNCHANGED taskVars)
    /\ UNCHANGED <<api, lost>>

WorkerStep(w) == QueueStep(w) \/ RunStep(w) \/ RunOver(w)

Tick == Q!Tick /\ UNCHANGED <<taskVars, api, lost>>

Next ==
    \/ \E a \in Api : StartSubmit(a) \/ StartRetry(a) \/ Run(a) \/ StartOther(a)
    \/ \E a \in Api : ApiStep(a) \/ ApiCrash(a)
    \/ \E w \in Worker : WorkerStep(w) \/ WorkerCrash(w)
    \/ Tick

Spec == Init /\ [][Next]_vars

\* Workers loop, handlers that were called go on, time passes; no request is owed.
FairSpec ==
    /\ Spec
    /\ \A w \in Worker : WF_vars(WorkerStep(w))
    /\ \A a \in Api : WF_vars(ApiStep(a))
    /\ WF_vars(Tick)

----------------------------------------------------------------------------
(* Properties.                                                             *)

\* The environment in which the tables can be kept in step: one client at a time, which
\* waits for a job to settle before it retries, and no write that fails.
OneClient ==
    /\ \A a, b \in Api : a = b
    /\ PatientRetry
    /\ ~AuditMayFail /\ ~DbMayFail /\ ~FinishMayRaise

TypeOK == S!TypeOK /\ Q!TypeOK /\ api \in [Api -> {"none", "dispatch", "restart"}] /\ lost \in BOOLEAN

\* Nobody is in the middle of anything.
Quiet ==
    /\ \A a \in Api : Free(a)
    /\ \A w \in Worker : worker[w].pc \in {"idle", "recovered"}

\* Between requests the two tables agree: a task that waits to run has a job that
\* waits to be claimed, a task that is marked running has a job that some worker
\* will get back to, and a job that succeeded left no task unfinished; unless an API
\* process died between a service call and its schedule call (submit, retry).  Checked
\* where OneClient holds.
TablesAgree ==
    Quiet /\ ~lost =>
        /\ task.status = "queued" => jobs[TheJob].status \in {"queued", "running"}
        /\ task.status = "running" => jobs[TheJob].status \in {"queued", "running"}
        /\ jobs[TheJob].status = "succeeded" => task.status \notin {"queued", "running", "failed"}

\* Retrying a task requeues its job: between requests a task that waits to run is
\* not left with a job that is settled (retry, schedule).
RetryRequeues ==
    Quiet /\ task.status = "queued" /\ task.attempt > 0 =>
        jobs[TheJob].status \notin Q!Settled

\* Submitting a task schedules its job: between requests a task that exists has one.
SubmitSchedules ==
    Quiet /\ task.status # "absent" => jobs[TheJob].status # "absent"

\* However often a task is dispatched, retried and recovered after a crash, the
\* adapter of a required output is made to produce it once.  Checked where restarts
\* come from one thread.
NoDuplicateOutput ==
    \A i, j \in DOMAIN arts :
        /\ arts[i].producer = "adapter" /\ arts[j].producer = "adapter"
        /\ arts[i].kind = arts[j].kind
        => i = j

\* A task that waits to run or is marked running gets somewhere, even if the worker
\* that runs it dies: its claim goes stale, and another worker runs it again; unless an
\* API process died before it had scheduled it.
TaskSettles ==
    task.status \in {"queued", "running"}
        ~> \/ task.status \notin {"queued", "running"}
           \/ lost
============================================================================
