---------------------------- MODULE WorkerQueue ----------------------------
(***************************************************************************)
(* The durable job queue (workers/queue.py, workers/postgres_queue.py),    *)
(* the scheduler that feeds it (workers/task_runner.py, TaskScheduler) and *)
(* the workers that drain it (TaskWorker and workers/executor.py).         *)
(*                                                                         *)
(* Both back ends run each queue method in one transaction, so a method is *)
(* one step; a caller that makes several calls is several steps, and any   *)
(* other process may run between two of them.  A row keeps the columns the *)
(* control flow depends on.  updated_at is kept as the row's age: the time *)
(* since it was last written, saturating once it is past the stale limit.  *)
(* error and result_json are kept as "set" or "NULL".                      *)
(***************************************************************************)
EXTENDS Naturals, FiniteSets

CONSTANTS
    Job,            \* job ids of the adapter "onebridge_task"
    Worker,         \* worker processes
    Scheduler,      \* threads of the API inside TaskScheduler.schedule
    StaleAfter,     \* stale_after_seconds, in ticks of the clock
    Restarts,       \* values of schedule's restart flag that callers use
    Timely,         \* TRUE: no worker holds a job longer than StaleAfter
    FinishMayRaise, \* TRUE: the executor may raise after finish has committed
    MaxCrashes,     \* bound on the number of worker crashes
    None            \* SQL NULL

ASSUME QueueAssumption ==
    /\ IsFiniteSet(Job)
    /\ StaleAfter \in Nat \ {0}
    /\ MaxCrashes \in Nat
    /\ Restarts \subseteq BOOLEAN
    /\ Timely \in BOOLEAN
    /\ FinishMayRaise \in BOOLEAN
    /\ None \notin Worker
    /\ None \notin Job

VARIABLES
    jobs,           \* the table worker_jobs, by job id
    created,        \* created_at as an insertion number; 0 when absent
    age,            \* now - updated_at, saturating at StaleAfter + 1
    worker,         \* what each worker process is doing
    sched,          \* what each scheduling thread is doing
    crashes         \* worker crashes so far

queueVars == <<jobs, created, age>>
vars == <<jobs, created, age, worker, sched, crashes>>

Settled == {"succeeded", "failed"}
JobStatus == {"absent", "queued", "running"} \cup Settled
Row == [status : JobStatus, worker : Worker \cup {None},
        error : BOOLEAN, result : BOOLEAN]
WorkerPC == {"idle", "recovered", "executing", "finishing", "closing", "failing"}

AbsentRow == [status |-> "absent", worker |-> None, error |-> FALSE, result |-> FALSE]
QueuedRow == [AbsentRow EXCEPT !.status = "queued"]
IdleWorker == [pc |-> "idle", job |-> None]
IdleSched == [pc |-> "idle", job |-> None, restart |-> FALSE, created |-> FALSE]

TypeOK ==
    /\ jobs \in [Job -> Row]
    /\ created \in [Job -> Nat]
    /\ age \in [Job -> 0 .. StaleAfter + 1]
    /\ worker \in [Worker -> [pc : WorkerPC, job : Job \cup {None}]]
    /\ sched \in [Scheduler -> [pc : {"idle", "inserted", "requeue"},
                                job : Job \cup {None},
                                restart : BOOLEAN, created : BOOLEAN]]
    /\ crashes \in Nat
    \* a process that is past its claim, or in schedule, works on a job
    /\ \A w \in Worker : worker[w].pc \notin {"idle", "recovered"} => worker[w].job \in Job
    /\ \A s \in Scheduler : sched[s].pc # "idle" => sched[s].job \in Job

Init ==
    /\ jobs = [j \in Job |-> AbsentRow]
    /\ created = [j \in Job |-> 0]
    /\ age = [j \in Job |-> 0]
    /\ worker = [w \in Worker |-> IdleWorker]
    /\ sched = [s \in Scheduler |-> IdleSched]
    /\ crashes = 0

----------------------------------------------------------------------------
(* The queue's methods, as what each transaction does to the table.        *)

Present == {j \in Job : jobs[j].status # "absent"}

\* A statement that writes row j and sets updated_at to the current time.
Write(j, row) ==
    /\ jobs' = [jobs EXCEPT ![j] = row]
    /\ age' = [age EXCEPT ![j] = 0]

\* INSERT of a new row.
enqueue(j) ==
    /\ jobs[j].status = "absent"
    /\ Write(j, QueuedRow)
    /\ created' = [created EXCEPT ![j] = Cardinality(Present) + 1]

\* INSERT OR IGNORE: a present row is left as it is.
enqueue_idempotent(j) ==
    \/ enqueue(j)
    \/ jobs[j].status # "absent" /\ UNCHANGED queueVars

\* The oldest queued row becomes running; the write lock (BEGIN IMMEDIATE, or
\* FOR UPDATE SKIP LOCKED) makes the SELECT and the UPDATE one step.
claim(w, j) ==
    /\ jobs[j].status = "queued"
    /\ \A i \in Job : jobs[i].status = "queued" => created[j] <= created[i]
    /\ Write(j, [jobs[j] EXCEPT !.status = "running", !.worker = w])
    /\ UNCHANGED created

Stale(j) == jobs[j].status = "running" /\ age[j] > StaleAfter

\* Mutant: the cutoff includes a claim that is exactly StaleAfter old.
requeue_stale_Early ==
    /\ jobs' = [j \in Job |-> IF jobs[j].status = "running" /\ age[j] >= StaleAfter
                              THEN QueuedRow ELSE jobs[j]]
    /\ UNCHANGED <<created, age>>

\* Mutant: the UPDATE forgets status='running'.
requeue_stale_AnyStatus ==
    /\ jobs' = [j \in Job |-> IF jobs[j].status # "absent" /\ age[j] > StaleAfter
                              THEN QueuedRow ELSE jobs[j]]
    /\ UNCHANGED <<created, age>>

\* Mutant: stale claims are never recovered.
requeue_stale_Never == UNCHANGED queueVars

\* One UPDATE over every running row whose updated_at is before the cutoff.
requeue_stale ==
    /\ jobs' = [j \in Job |-> IF Stale(j) THEN QueuedRow ELSE jobs[j]]
    /\ age' = [j \in Job |-> IF Stale(j) THEN 0 ELSE age[j]]
    /\ UNCHANGED created

\* Mutant: the row goes back with the error of the attempt that failed.
requeue_KeepsError(j) ==
    /\ Write(j, [jobs[j] EXCEPT !.status = "queued", !.worker = None])
    /\ UNCHANGED created

\* finish, fail and requeue name the row by its id alone.
finish(j) ==
    /\ Write(j, [jobs[j] EXCEPT !.status = "succeeded", !.result = TRUE, !.error = FALSE])
    /\ UNCHANGED created

\* Mutant: a word that is not one of JOB_STATUSES.
fail_Error(j) ==
    /\ Write(j, [jobs[j] EXCEPT !.status = "error", !.error = TRUE])
    /\ UNCHANGED created

fail(j) ==
    /\ Write(j, [jobs[j] EXCEPT !.status = "failed", !.error = TRUE])
    /\ UNCHANGED created

requeue(j) ==
    /\ Write(j, QueuedRow)
    /\ UNCHANGED created

----------------------------------------------------------------------------
(* TaskScheduler.schedule: insert, read back, and maybe requeue, in three  *)
(* transactions.                                                           *)

ScheduleInsert(s, j, restart) ==
    /\ sched[s].pc = "idle"
    /\ enqueue_idempotent(j)
    /\ sched' = [sched EXCEPT ![s] = [pc |-> "inserted", job |-> j, restart |-> restart,
                                      created |-> jobs[j].status = "absent"]]
    /\ UNCHANGED <<worker, crashes>>

\* Mutant: restart is ignored, a retried task keeps its settled job.
ScheduleDecide_NoRestart(s) ==
    /\ sched[s].pc = "inserted"
    /\ sched' = [sched EXCEPT ![s] = IdleSched]
    /\ UNCHANGED <<jobs, created, age, worker, crashes>>

\* The row read back decides; it may have changed by the time requeue runs.
ScheduleDecide(s) ==
    /\ sched[s].pc = "inserted"
    /\ sched' = [sched EXCEPT ![s] =
           IF /\ sched[s].restart
              /\ ~sched[s].created
              /\ jobs[sched[s].job].status \in Settled
           THEN [sched[s] EXCEPT !.pc = "requeue"]
           ELSE IdleSched]
    /\ UNCHANGED <<jobs, created, age, worker, crashes>>

ScheduleRequeue(s) ==
    /\ sched[s].pc = "requeue"
    /\ requeue(sched[s].job)
    /\ sched' = [sched EXCEPT ![s] = IdleSched]
    /\ UNCHANGED <<worker, crashes>>

\* The API process dies inside schedule, between two of its transactions.
ScheduleCrash(s) ==
    /\ sched[s].pc # "idle"
    /\ sched' = [sched EXCEPT ![s] = IdleSched]
    /\ UNCHANGED <<jobs, created, age, worker, crashes>>

\* enqueue called directly, with a fresh job id.
Enqueue(j) ==
    /\ enqueue(j)
    /\ UNCHANGED <<worker, sched, crashes>>

----------------------------------------------------------------------------
(* TaskWorker.run_one: recover stale claims, claim, execute, settle.       *)

Recover(w) ==
    /\ worker[w].pc = "idle"
    /\ requeue_stale
    /\ worker' = [worker EXCEPT ![w].pc = "recovered"]
    /\ UNCHANGED <<sched, crashes>>

Claim(w) ==
    /\ worker[w].pc = "recovered"
    /\ \/ \E j \in Job :
             /\ claim(w, j)
             /\ worker' = [worker EXCEPT ![w] = [pc |-> "executing", job |-> j]]
       \/ /\ \A j \in Job : jobs[j].status # "queued"
          /\ worker' = [worker EXCEPT ![w] = IdleWorker]
          /\ UNCHANGED queueVars
    /\ UNCHANGED <<sched, crashes>>

\* The handler returns a result or raises; it does not touch the queue.
Handle(w) ==
    /\ worker[w].pc = "executing"
    /\ \E next \in {"finishing", "failing"} :
           worker' = [worker EXCEPT ![w].pc = next]
    /\ UNCHANGED <<jobs, created, age, sched, crashes>>

Finish(w) ==
    /\ worker[w].pc = "finishing"
    /\ finish(worker[w].job)
    /\ worker' = [worker EXCEPT ![w].pc = "closing"]
    /\ UNCHANGED <<sched, crashes>>

\* After finish has committed, the row is read back and the workspace is removed;
\* if either raises, the outer except clause fails the job that was just finished.
Close(w) ==
    /\ worker[w].pc = "closing"
    /\ \/ worker' = [worker EXCEPT ![w] = IdleWorker]
       \/ FinishMayRaise /\ worker' = [worker EXCEPT ![w].pc = "failing"]
    /\ UNCHANGED <<jobs, created, age, sched, crashes>>

Fail(w) ==
    /\ worker[w].pc = "failing"
    /\ fail(worker[w].job)
    /\ worker' = [worker EXCEPT ![w] = IdleWorker]
    /\ UNCHANGED <<sched, crashes>>

\* The process dies wherever it is and is started again.
Crash(w) ==
    /\ crashes < MaxCrashes
    /\ worker[w].pc # "idle"
    /\ worker' = [worker EXCEPT ![w] = IdleWorker]
    /\ crashes' = crashes + 1
    /\ UNCHANGED <<jobs, created, age, sched>>

\* A worker between claiming a job and settling it.
Holding(w, j) ==
    worker[w].pc \in {"executing", "finishing", "failing"} /\ worker[w].job = j

\* Time passes.  With Timely, not while a live worker would overrun the limit.
Tick ==
    /\ Timely => \A w \in Worker, j \in Job : Holding(w, j) => age[j] < StaleAfter
    /\ age' = [j \in Job |-> IF age[j] <= StaleAfter THEN age[j] + 1 ELSE age[j]]
    /\ UNCHANGED <<jobs, created, worker, sched, crashes>>

WorkerStep(w) == Recover(w) \/ Claim(w) \/ Handle(w) \/ Finish(w) \/ Close(w) \/ Fail(w)

SchedulerStep(s) == ScheduleDecide(s) \/ ScheduleRequeue(s)

Next ==
    \/ \E s \in Scheduler, j \in Job, r \in Restarts : ScheduleInsert(s, j, r)
    \/ \E s \in Scheduler : SchedulerStep(s) \/ ScheduleCrash(s)
    \/ \E j \in Job : Enqueue(j)
    \/ \E w \in Worker : WorkerStep(w) \/ Crash(w)
    \/ Tick

Spec == Init /\ [][Next]_vars

\* A started worker keeps looping, a schedule call in progress returns, and
\* time passes; nobody is obliged to schedule anything.
Fairness ==
    /\ \A w \in Worker : WF_vars(WorkerStep(w))
    /\ \A s \in Scheduler : WF_vars(SchedulerStep(s))
    /\ WF_vars(Tick)

FairSpec == Spec /\ Fairness

----------------------------------------------------------------------------
(* Properties.                                                             *)

\* The environments in which a restart cannot reach a job that is running:
\* nobody restarts, or restarts are made by one thread at a time and a worker
\* that finished a job never turns around and fails it.
SafeRestarts ==
    TRUE \in Restarts => /\ \A s, t \in Scheduler : s = t
                         /\ ~FinishMayRaise

\* No job is executed by two workers at once: a claim is exclusive until it is
\* settled, stale recovery included (claim, requeue_stale, schedule).  Checked
\* where Timely and SafeRestarts hold.
ExclusiveExecution ==
    \A v, w \in Worker, j \in Job : Holding(v, j) /\ Holding(w, j) => v = w

\* What a row's status promises about its other columns: a queued or running row
\* carries nothing over from an earlier attempt, a running row names its worker,
\* a succeeded row has a result and no error, a failed row has its error
\* (requeue, requeue_stale, finish, fail).
RowConsistent ==
    \A j \in Job :
        /\ jobs[j].status \in {"queued", "running"} => ~jobs[j].error /\ ~jobs[j].result
        /\ jobs[j].status = "queued" => jobs[j].worker = None
        /\ jobs[j].status = "running" => jobs[j].worker \in Worker
        /\ jobs[j].status = "succeeded" => jobs[j].result /\ ~jobs[j].error
        /\ jobs[j].status = "failed" => jobs[j].error

\* A settled job goes back to the queue only because a scheduler restarts it;
\* stale recovery never runs finished work again (requeue_stale, schedule).
SettledOnlyRestarted ==
    [][\A j \in Job :
          jobs[j].status \in Settled /\ jobs'[j].status \notin Settled =>
              \E s \in Scheduler : sched[s] = [pc |-> "requeue", job |-> j,
                                              restart |-> TRUE, created |-> FALSE]]_vars

\* Every queued job is eventually settled, crashes of its workers included: a
\* claim whose worker died is recovered by another one (run_one, requeue_stale).
\* A restarted job keeps its created_at and goes ahead of younger ones, so this
\* holds if restarts cease some day.
JobSettles ==
    <>[](\A s \in Scheduler : sched[s].pc # "requeue") =>
        \A j \in Job : jobs[j].status = "queued" ~> jobs[j].status \in Settled

\* The job of a worker that has a claim; one that fails what it has finished has none.
ClaimOf(w) ==
    IF \/ worker[w].pc \in {"executing", "finishing"}
       \/ worker[w].pc = "failing" /\ jobs[worker[w].job].status = "running"
    THEN worker[w].job ELSE None

Queued == {j \in Job : jobs[j].status = "queued"}
Done == {j \in Job : jobs[j].status \in Settled}
Claims == [w \in Worker |-> ClaimOf(w)]
Recalled == {j \in Job : \E s \in Scheduler : sched[s].pc = "requeue" /\ sched[s].job = j}

Handout ==
    INSTANCE JobHandout
        WITH waiting <- Queued, holds <- Claims, settled <- Done, recalled <- Recalled

\* A queued job is handed to one worker, which alone settles it; recovery offers only
\* jobs that no live worker has, and a settled one comes back only by a restart
\* (claim, finish, fail, requeue_stale, schedule).  Checked where Timely and
\* SafeRestarts hold.
HandedOut == Handout!Spec
============================================================================
