# A TLA+ verification of OneBridge

OneBridge is a control plane: it takes a task contract from OpenClaw, LINE or an
HTTP client, has external adapters (Flowise, Open Design, Hermes) produce the
required outputs, has people review them, and releases what was approved.  It
also qualifies and switches its own production deployments.  This directory holds
TLA+ modules for the parts of it that decide something on shared state, TLC
configurations that check them on small instances, and TLAPS proofs about them.

All paths below are relative to the repository; Python files are under
`src/onebridge/`.  `PROJECT.json` lists components, runs, hazards, findings and
theorems in a form that tools read, and for each definition the source lines it
is translated from.

## 1. The system

### 1.1 Components

| Component | State it keeps | Operations that change it | Hard behaviour |
|---|---|---|---|
| Task service (`service.py`, `durable_service.py`, `release_gate.py`) | tasks, projects, artifacts, approvals | submit, run, approve, revise, release, retry, cancel | methods of several database sessions overlap; audit and checkpoint writes raise after a commit; a process dies between sessions |
| Job queue (`workers/queue.py`, `workers/postgres_queue.py`) | `worker_jobs` | enqueue, claim, finish, fail, requeue, requeue_stale | competing workers, claims judged by age alone |
| Scheduler and worker (`workers/task_runner.py`, `workers/executor.py`) | none of their own | schedule; recover, claim, handle, finish or fail | workers die between claim and finish; schedule decides on a row it read earlier |
| API (`api.py`) | none of its own | one service call, then one schedule call per request | dies between the two; clients retry early, twice, or while the task runs |
| Deployment registry (`deployment_switch.py`) | `service_deployments`, `deployment_actions` | register, probe, promote, rollback, reconcile | external traffic moves between two commits; nothing serialises the callers |
| Traffic actuator (`deployment_actuator.py`) | the external controller's routing | apply | refuses, moves, or moves and loses the answer |
| Release operator (`release_operator.py`) | requests, approvals, the release lease | request, approve, approve_request, revoke, execute | single use of approvals, lease takeover, two-person rule, plans that change under an approval |
| Production release controller (`production_release.py`) | `production_releases` | run, its rollback, reconcile | a sequence over two other components with compensation that may fail half way |
| Adapter compatibility (`compatibility_service.py`, `qualification.py`, `release_pipeline.py`) | entries and their states, qualification evidence | register, qualify, promote, promote_many, block | several adapters promoted together, on evidence read before |
| Audit log (`audit.py`) | a hash-chained file | append, verify | concurrent appends, short writes, torn last line |
| Durable wrapper and checkpoints (`durable_service.py`, `checkpoints.py`) | a checkpoint file per step | each service method with its audit records | three stores written one after the other |
| Supervisor and sandbox (`workers/supervisor.py`, `workers/sandbox.py`) | child processes | run_supervised | a command, its descendants, a drain thread and a monitor that race |
| Adapters (`adapters/`) | nothing durable | execute | results of a command that was killed, or overran |
| LINE (`line_messaging.py`, parts of `api.py` and `cli.py`) | none of its own | webhook, push | webhooks delivered again after a failure |
| Context forge, workflow graph | none | pure functions | budgets, topological order |
| The rest (identity, policies, redaction, portal, MCP, SDK, CLI, telemetry) | none; what redaction leaves of a person's name is compared by the release operator (section 3.6) | | |

### 1.2 How they interact

The API calls the task service, and then the scheduler, in separate transactions of
separate tables; the worker claims a job and calls `service.run`, which writes the
task tables; nothing but the deterministic job id ties the two together.  The durable
wrapper writes an audit record before and after the service's sessions. The release
operator checks its own tables, takes a lease, and calls the release controller, which
qualifies adapters through the compatibility service, switches the slot through the
deployment registry, and promotes the adapters last; the registry calls the actuator
between two of its own commits.  The HTTP endpoints of the registry (register, probe,
rollback, reconcile) and the command line's compatibility commands do not take the
lease.  The Hermes adapter, called by `service.run`, makes a workspace, has the
supervisor run a command in it and reads its outputs.  The LINE controller submits and
schedules as the API does.

### 1.3 What makes it hard

Most of it comes from one pattern: a method opens a database session, reads, leaves
the session or does something slow, and writes later on the strength of what it
read.  No table has a version column, and an `UPDATE` names a row by its key.
SQLAlchemy writes only the columns whose assigned value differs from the one the
session read, so an overlapping write of another column survives and an
assignment that restores what was read is not written at all.  The models are
built on that pattern (section 3.1).  Beside it: processes die between two
commits, stale claims and leases are told by age, an external controller acts
while its answer gets lost, and writes to the audit log fail after the commit
they report.

### 1.4 What makes each component correct

| Component | Properties |
|---|---|
| Queue and workers | one execution of a job at a time; finished work is not run again by recovery; columns agree with the status; every queued job is settled |
| Task service | only reviewed artifacts are released; a release is the approved latest revision of a succeeded task; revisions form one line; task and project agree; a cancelled task stays cancelled |
| API, queue and service together | a task that waits has a job that waits; a retry requeues; no output is produced twice; a task gets somewhere |
| Registry and actuator | one active slot; health evidence is about what is deployed; the journal tells the truth about the traffic |
| Release operator | one release at a time; one release per approval; one decision per request; two persons where two are required; "completed" means released |
| Compatibility | an active version has passed its latest qualification; a release set becomes active as a whole |
| Release controller | the recorded outcome of a release is what is in force in the registry, the traffic and the compatibility matrix |
| Audit log | undisturbed logs verify; acknowledged events are kept; a torn write damages one line; the lock is given back |
| Durable wrapper | every execution is on record; a completed run's outputs were recorded before it; checkpoints describe committed work |
| Hermes and supervisor | only the results of a command that ended by itself, within its budgets, are accepted; what was killed is gone; the call ends |
| LINE | a promised task exists, with a job where there is a queue; a webhook answered with success was handled; answers go where the request came from; a message becomes a task |

## 2. Modules

| Module | Models | Uses |
|---|---|---|
| `WorkerQueue` | queue, scheduler, workers | refines `JobHandout` |
| `JobHandout` | what the queue promises those who submit and those who work | |
| `TaskService` | one task and its project through the service, the gate and the durable wrapper | |
| `TaskExecution` | API handlers, service, queue and workers for one task | instances of `TaskService` and `WorkerQueue` |
| `UnitOfWork` | what the methods of several sessions share: the `Assign` rule, calls that do not overlap | |
| `DeploymentSwitch` | the registry of one service, its journal, the traffic controller | extends `UnitOfWork` |
| `CompatibilityService` | the compatibility matrix, qualification, the release set pipeline | extends `UnitOfWork` |
| `ProductionRelease` | the release controller | extends `DeploymentSwitch` and `CompatibilityService` |
| `ReleaseOperator` | requests, approvals, lease, execute | refines `ReleaseLock` (theorem) |
| `ReleaseLock` | what the lease and the spent approvals promise together | |
| `AuditLog` | the audit log and its verification | refines `AppendOnlyLog` |
| `AppendOnlyLog` | what the audit trail promises its reader | |
| `DurableService` | the durable wrapper and the checkpoints | extends `AuditLog`, instance of `TaskService` |
| `WorkerSupervisor` | `run_supervised` and the processes it watches | |
| `HermesAdapter` | the Hermes adapter: workspace, sandbox, supervised run, outputs | instance of `WorkerSupervisor` |
| `LineChannel` | webhook, controller, pushes | |
| `WorkerQueueProofs`, `TaskServiceProofs`, `ReleaseOperatorProofs`, `HermesAdapterProofs`, `LineChannelProofs` | theorems on the module each is named for | that module |
| `TaskExecutionProofs` | theorems on `TaskExecution` | instances of `TaskServiceProofs` and `WorkerQueueProofs` |
| `DurableServiceProofs` | theorems on `AuditLog` and `DurableService` | `DurableService`, with an instance of `TaskServiceProofs` |
| `ProductionReleaseProofs` | theorems on `DeploymentSwitch`, `CompatibilityService` and `ProductionRelease` | `ProductionRelease` |
| `MCTaskService`, `MCTaskExecution`, `MCDeploymentSwitch`, `MCReleaseOperator`, `MCCompatibilityService`, `MCProductionRelease`, `MCDurableService`, `MCHermesAdapter`, `MCLineChannel` | instances for TLC | the module each is named for |

`TaskExecution` and `DurableService` name the proof modules of their parts in their
`INSTANCE`s, so that a part's theorems are available as theorems of the composition
(`S!ReleasesReviewed`).  The release components share the name space of one process
set instead: the controller calls the methods of both, and its proof speaks of all
three states at once.  So do the durable wrapper and its audit log, whose
specification is `LogSpec` and whose names begin with `Log` where the wrapper has one
like it.

Definitions named `X_Something` next to a definition `X` are variants of it with a
plausible bug (a dropped guard, a missing reset, a swapped status).  They are not
used by any specification; they exist so that one can put them in X's place and
see that the properties notice.

## 3. How the models correspond to the code

### 3.1 Sessions and steps

A session that writes one statement, or runs under the queue's write lock, is one
action.  A session whose handler decides on what it read is two actions: the read, whose
result stays in the process's call record (`snap`, `seen`, `approval`), and the commit,
which writes the assigned columns into the rows *as they are by then*. `Assign(old,
current, new)` is SQLAlchemy's rule that an unchanged assignment is not written.  From
its first flush a SQLite session holds the write lock, so what is read after that is
read in the commit step; what is read before it is a step of its own.  Every process may
step between any two actions, and die there.

### 3.2 WorkerQueue

`jobs`, `created`, `age` are the rows of `worker_jobs`: the status, the worker, and
whether error and result are NULL; the insertion order; the time since
`updated_at`, in ticks, saturating one past the stale limit.  `worker` is the
program counter of `TaskWorker.run_one` and `WorkerExecutor`; `sched` that of
`TaskScheduler.schedule`.  `Recover`, `Claim`, `Handle`, `Finish`, `Close`, `Fail`
follow `run_one` and the executor in order; `Close` is what comes after `finish`
has committed and may still raise.  `ScheduleInsert`, `ScheduleDecide`,
`ScheduleRequeue` are schedule's three transactions, and `ScheduleCrash` is the API
process that dies between two of them.  Job ids are those of the adapter
`onebridge_task`; both back ends have the same transactions.  `HandedOut` is the
refinement of `JobHandout`: queued jobs wait, a worker from its claim to its outcome
holds a job, and a scheduler that was asked to restart a settled one has recalled it.

### 3.3 TaskService

One task row, the status of its project, its artifact rows in the order of `created_at`,
the artifacts with an approve row, and one call record per process. `run` is `run_read`,
`run_start`, `run_scan`, one `run_produce` per adapter call, `run_settle` or `run_fail`;
`approve`, `revise`, `retry`, `cancel` are a read and a commit; `release` reads the
status, then the artifacts, then writes.  An adapter is its outcome: the outputs asked
of it, in any order, or an exception.  The required outputs are numbered as in the
contract: `Missing` are the positions that have no artifact yet, `Batch` those that the
adapter of the first one makes, `Orders` the orders in which it may return them.  The
revision of the first row that a session of `run` or `release` inserts is read before
the session has flushed anything (`run_revision`, `release_revision`), that of a further
row after the flush, in the step that commits.  Audit and checkpoint writes appear as
the wrapper raising before or after the method's commits (`AuditMayFail`).  Wherever
`ORDER BY revision DESC LIMIT 1` could return either of two rows, the model chooses
either.

### 3.4 TaskExecution

Composes an instance of `TaskService` whose runners are the workers and whose callers
are API threads with an instance of `WorkerQueue` that has the single deterministic
job id of the task.  `api` remembers what a handler does once its service call
returned: schedule, schedule with restart, or answer; `lost` that an API process died
before it had made the schedule call it owed.  A worker in "executing"
takes the steps of `service.run`; when it returns or raises, the worker goes on to
finish or fail.  A process that dies dies in both parts: its call of the service is
lost with what it was doing for the queue.  The module is about a deployment that has a
task queue (`task_queue_url`): without one the handlers schedule nothing, and the run
endpoint calls `service.run` itself, which `TaskService` alone covers.

### 3.5 DeploymentSwitch

`slots` is `service_deployments` for one service, with the evidence of the last probe
as the release it talked to and whether it is fresh; `actions` the journal;
`traffic` the slot the external controller routes to, which the code can only
observe.  A promotion is: read the rows and insert a pending action; apply; record
actuated; commit the transition with the rows it reads as active; on failure mark
the action `reconcile_required` or failed, each in its own commit; last, mark the
action committed and read the row again.  With `CommitMayFail` any of these sessions
may raise.  The commit of the transition has a handler (`mark_reconcile_required`); the
others are in no `try` of the registry's (`Unguarded`), and when one of them raises
nothing of it is written and the method is over, wherever the traffic is by then and
although the registry may have committed (`SwitchRaises`).

### 3.6 ReleaseOperator

`requests`, `approvals`, `releases` are the tables in insertion order, `lease` the one
row of `release_leases`, `plan` the fingerprint a plan made now would have; it stands
for slots, versions and adapter states that other operations change. A row keeps
`redact_text(name)[:200]` of a name: `Stored` is any function on names, and the
comparisons are those of the code, of a stored name with the name as the caller gives it
or with another stored one.  `by` in a row remembers who made it, for the properties
only. `execute` is the read of the approval, the comparison with the plan, acquire
(read, then insert or delete-and-insert), consume (read, then commit), the run of the
controller (its row, then its outcome, or an exception before or after it), the recorded
status, and the release of the lease (read, then delete by key).  Ages are flags that
the environment raises (`ApprovalExpires`, `LeaseExpires`).  A process that dies before
it has the lease has written nothing, so `Crash` is for those that have it.

### 3.7 CompatibilityService

`entries` is `compatibility_entries` (the state of each version of each adapter),
`evidence` whether the latest row of `adapter_qualifications` passed, `registry` the
version of each adapter a process was started with.  A session is a read and a commit
with the `Assign` rule of 3.1, so that what overlapping sessions do to each other's
rows is that of the code.  `qualify_current` is its test (a mock or a blocked version
is refused), `register_current`, the suite run against the adapter (`qualify_adapter`,
which passes, fails or raises) and the record.  `promote_many` reads every row and
every latest qualification in one session and demotes the others in the same commit.
The pipeline qualifies one adapter after the other and promotes all or none;
`qualify_only` stops before that.

### 3.8 ProductionRelease

`releases` is `production_releases`; `proc` where each process is in `run` or
`reconcile`; `dcall` and `ccall` are where the same process is in a method of the
registry (`slots`, `actions`, `traffic`) and of the matrix (`entries`, `evidence`).
`run` creates its row, qualifies, probes the target and the previous slot, promotes the
slot (a call of `DeploymentSwitch`, step by step), smoke tests, promotes the adapters (a
call of `CompatibilityService`), and saves the status.  A failure goes to `save`, or to
`rollback`, which has the registry roll back to the standby promoted last and may fail;
after a failed switch the latest journal row tells `switch_failed` from
`reconcile_required`.  `reconcile` calls the registry's and then settles the latest
waiting release.  Steps of the two components outside `run` happen too: slots are
registered, probed and rolled back by the endpoints, and the process is started again
with another version of an adapter.  When a session of the registry raises, `run` takes
it for a failed probe, switch or rollback, whatever was committed before
(`registry_raises`).

### 3.9 AuditLog

`file` is the sequence of records written, each with how far it got: a whole line, all
but the newline, less.  `append` is the lock, the reading of the last hash, one
`os.write` (whole, short, or raising), `fsync`, and the release of the lock; a process
killed anywhere leaves the lock to the kernel.  The last hash is found by reading
lines, so a body without its newline is a readable record that the next one is written
behind.  `MayLosePower` drops any part of what `fsync` has not flushed.  `Verdict` is
`verify`: valid, invalid, or unreadable.

### 3.10 DurableService

Each method is the service's method and then its audit record; `run` is a record, the
service's run, one checkpoint per step, one record per artifact, one for the
completion.  A step is its place in `default_pipeline`, which orders the kinds it
knows: `wrap.latest` is the artifact of each step that `run` has read, `wrap.todo` the
steps whose checkpoint is still to be saved.  A contract that asks for a kind the
pipeline does not know makes `run` raise after the service has committed.  A database
session of the service may fail as well.  The log is that of `AuditLog`, with the
wrapper's processes as its `Writer`s, so every record is an `append` that may raise and
leave the rest undone; a crash may come between any two steps.  A loss of power ends
every process at once and is left to `AuditLog` alone.

### 3.11 WorkerSupervisor and HermesAdapter

The command (`main`) and its descendants (`kids`) live, write output, change the
workspace, leave the process group, are killed, and die.  The supervisor's steps are the
turns of its loop: look at the output counted by the drain thread, the workspace, the
deadline; kill; wait twice; drain; close; look once more at the budgets.  Output and
workspace are small numbers with budgets among them; `late` is the deadline.  Of a
workspace `usage` has the bytes and files a scan counts, the bytes it passes over (in
the root's `.git`, in files it cannot examine), and whether every directory can be
listed; files behind symbolic links are not followed and belong to none of these.  A
scan gives no result for a workspace it cannot list or with more than `ScanLimit` files,
and may give none while something is still running there.  `close` waits for the drain
thread unless it finds the pipe's lock free between two reads (`close_early`): what is
unread is then lost. `HermesAdapter` prepares the workspace, wraps the command in what
`probe_strong_sandbox` found (only bubblewrap gives a pid namespace of its own, whose
other processes die with its first), runs the supervisor, refuses what did not exit with
0 within its budgets, reads the manifest the command left and removes the workspace
whatever happened.

### 3.12 LineChannel

`line` counts the deliveries of each webhook; `server` is where an API process is in
the events of one; `tasks` what has been submitted from LINE with the status of its
job; `tokens` the reply tokens used; `sent` the messages LINE accepted; `queue` whether
the deployment has a task queue, which the default configuration has not: then schedule
is left out and the task waits for a request that runs it.  A text is
submit, schedule, reply, three calls each of which may fail; a failure ends the
request with an error and LINE delivers the whole webhook again.

## 4. Runs

| Run | Instance | What it shows |
|---|---|---|
| `queue` | 2 workers, 1 scheduler, 2 jobs, 1 crash, stale after 1 tick | `ExclusiveExecution`, `HandedOut` (the refinement of `JobHandout`); `JobSettles` under fairness |
| `service_serial` | 1 process, 2 kinds, 2 attempts, 4 artifacts, requests for up to 2 artifacts, crashes, failing audit writes | what the methods promise when they do not overlap: `RevisionsLinear`, `SucceededIsApproved`, `ProjectAgrees`, `ReleaseFailClosed`; and `ReleaseReviewed` |
| `service_cancel` | the smallest instance | the finding of section 7.1 |
| `durable` | 1 worker, 1 API process, 2 kinds, 2 attempts, 4 records, failing disk, crashes | `ExecutionsRecorded`, `CompletedIsBacked`, `CheckpointSound` |
| `execution_client` | 2 workers, 1 API thread, 2 retries, 5 attempts, 1 worker crash, any API crashes | `TablesAgree`, `NoDuplicateOutput`; `TaskSettles` under fairness |
| `audit` | 2 processes, 2 events, 4 records, every fault | `NeverInvalid`, `DamageConfined`, `AckedKept`, `OnlyAppended` (the refinement of `AppendOnlyLog`); `LockReleased` under fairness |
| `hermes` | 1 descendant, three sandboxes, 6 sizes of a workspace, 3 manifests | `AcceptedIsLeft`, `AcceptedWithinBudget`, `TreeGone`; `EndsInTime` under fairness |
| `compatibility` | 1 process, 2 adapters with 2 versions each, one of them a mock, failing commits, crashes | `ActiveQualified`, `PromotedTogether` |
| `switch_operator` | 2 slots, 2 releases, 1 operator, 4 journal rows, every fault | `OneActive`, `EvidenceMatches`, `RegistryMatchesTraffic` |
| `production_release` | 1 process, 2 slots, 1 adapter with 2 versions, 4 journal rows, 2 releases, every fault | `SucceededIsInForce`, `FailedLeavesPrevious`, `AdaptersLast`, `ReconciledIsServed` |
| `release_operator` | 2 processes, 2 people, one with a name that is stored changed, 2 plans, 1 request, 1 direct approval, 1 crash | `LeaseExclusive`, `SingleUse`, `DecidedOnce`, `TwoPersons`, `CompletedIsReleased` |
| `line` | 2 API processes, with a queue and without, 1 worker, 2 webhooks delivered up to twice, 1 fault, 1 push request | `PromisesKept`, `AckedIsHandled`; `FirstBecomesTask` under fairness |

Each module also defines a type invariant, `TypeOK` (`SwitchTypeOK` and `MatrixTypeOK`
in the two components of `ProductionRelease`).  Those of `WorkerQueue`, `TaskService`,
`TaskExecution`, `DeploymentSwitch`, `CompatibilityService` and `ProductionRelease`
under its controller, `ReleaseOperator`, `AuditLog` (`LogTypeOK`), `DurableService`,
`HermesAdapter` (with `WorkerSupervisor`'s in it) and `LineChannel` are all proved
(section 5).  `RowConsistent` and `SettledOnlyRestarted` (`queue`), `OneActiveVersion`
(`compatibility`) and `OutcomeFinal` (`production_release`) are proved and can be added
to the `INVARIANTS` or `PROPERTIES` line of the configuration to see them hold there.
Configurations that belong to no run are kept beside the others; section 7.2 says what
each shows.  To repeat one: `tlc -config MCDeploymentSwitch_promotions.cfg
MCDeploymentSwitch.tla`.

### 4.1 Bounds and why they are enough

- *Queue.*  Two jobs are the least for which the order of claims matters, two
  workers the least for which claims compete, one crash the least after which a claim
  is stale; a stale limit of one tick tells "at the limit" from "past it", which the
  off-by-one variant confuses.  Time needs no bound: ages saturate.
- *Service.*  A kind with a rejected or superseded first revision needs a second one;
  a required set of two kinds is the least for which a task may have one output and
  lack the other.  Four artifacts are two kinds in two revisions, or one of them
  and a release.  With two attempts a run finds what another one left.
- *Execution.*  Five attempts are more than two retries and one recovery after a
  crash can use up; attempts beyond it do not start.
- *Durable wrapper.*  Two kinds are the least for which a checkpoint has a lineage;
  two attempts the least for which one finds what another one left.  A log of four
  records is full after a run's start, its two artifacts and its completion; crashes and
  failing writes cut it anywhere before that, and a second attempt starts from there.
- *Audit log.*  Two processes compete for the lock; four records let a torn one be
  followed, were it allowed, by others.
- *Supervisor.*  A budget of one and a maximum of two tell within from beyond; the six
  workspaces are one within every budget, one beyond each, one beyond the scan
  limit, one whose growth is all in `.git`, and one beyond a budget that cannot be
  listed.  One descendant may be in the process group or have left it.
- *Compatibility.*  Two adapters are the least for a set; one of them has two real
  versions, of which one may replace the other, the other a real and a mock version.
- *Release controller.*  Two releases are a promotion and a second one that has a
  previous slot to fall back to; four journal rows are a promotion and a rollback
  for each.  One adapter: that a set is promoted together is `compatibility`'s.
- *LINE.*  One webhook with an ignored event, a text and a question, one that can never
  be handled; two deliveries are a first one that failed and one after it.  A
  deployment has a queue or has none from its start; both are initial states.
- *Registry.*  Four journal rows: a promotion each way, a failed one and the one
  that reconcile has to pick out of several.  The full product of four rows with two
  releases and unhealthy slots is too large, so `LongJournal` follows journals
  beyond two rows only while both slots run one healthy release; what a slot runs
  and how it was probed matters for registration and promotion, which two rows
  exercise in full, and the longer journals are about which action the observation
  settles.
- *Release operator.*  Two processes, two people and one request with one direct
  approval let every pair of calls compete, for one approval and for different ones.
  `CrashWithOneApproval` follows the states after a crash only while there is one
  approval; the crash matters to the lease and to that approval's request, and the
  conclusions of `LeaseExclusive` and `SingleUse` ask for `crashes = 0`.  One of the two
  names is stored as it is and the other is not, so that either person may be requester,
  approver or executor under either kind of name.  `NamesThatMatter` lets only the plain
  name execute and approve directly where no two persons are required, and nobody
  compares names.
- *Symmetry.*  `switch_operator` permutes slots and releases, `release_operator`
  processes and fingerprints, `compatibility` the two real versions of one
  adapter, `production_release` slots and versions.  No definition names one of them,
  the initial states and the constraints are symmetric, and these runs check safety
  only.  The `CHOOSE` in `TaskService` is why no symmetry is used there.

Every bound is a guard on a counter in the specification (`MaxCrashes`,
`MaxAttempts`, `MaxArtifacts`, `MaxIds`, `MaxRetries`, `MaxActions`, `MaxRequests`,
`MaxDirect`, `MaxReleases`, `MaxFile`, `MaxOut`, `MaxFaults`, `MaxDeliveries`,
`MaxPushes`) or one of the three constraints above.

### 4.2 Fairness

Liveness is checked for the queue, a task's execution, the audit log's lock, a
supervised command and the LINE channel.  Weak fairness of `WorkerStep` is the loop of
`TaskWorker.run_forever` under a supervisor that restarts a worker that died; of
`SchedulerStep` and `ApiStep`, that a request being handled goes on until it is
answered; of `Tick`, that time passes.  Nobody is obliged to make a request, to crash,
or to succeed: a handler may fail every time. In `AuditLog` a caller that is in
`append` runs on; a wait for the lock is fair too, but `LockReleased` does not depend
on who gets it.  In `HermesAdapter` the adapter, the supervisor, its drain thread and
time go on, and a process that was killed dies in the end; the command itself owes
nothing.  In `LineChannel` an API process finishes what it handles and LINE delivers
again what was not answered with success; `MaxFaults` below `MaxDeliveries` is what
makes one delivery succeed. `JobSettles` has the premise that restarts cease, because
a restarted job keeps its `created_at` and goes ahead of younger ones.

### 4.3 Assumptions on the environment

- `Timely` (queue): a live worker settles its job within the stale limit.
  `docs/DEPLOYMENT_AND_WORKERS.md:58` claims as much of the bounded adapter
  timeouts; nothing renews a claim (`heartbeat` has no caller).  In `TaskExecution`
  it is fixed to TRUE.
- `SafeRestarts`: restarts come from one thread at a time and a finished job is not
  failed.  Without it a second requeue can reach a job that a worker already has.
- `OneCall` (task service): its calls do not overlap.  Only the theorems on the
  serial properties ask for it; `ReleasesReviewed` does not.
- `OneClient` (`TaskExecution`, for `TablesAgree`): one API thread, `PatientRetry`, and no
  failing audit write, database session or `finish`.
- `OneCaller` (registry, compatibility, controller): calls do not overlap.
  The release lease keeps releases apart, but the endpoints and commands beside it do
  not take it.  Calls that died half way, and what they left, are part of it.
- `PatientRetry`: a client retries after the execution endpoint shows a settled job.
- `Timely` (release operator): no live process holds the lease past its age.
- A local file system in `AuditLog`: `flock` excludes, `O_APPEND` appends, `fsync`
  flushes.
- A killed process dies in the end (`HermesAdapter`), perhaps late (`Stuck`).
- `DrainsInTime` (`HermesAdapter`): once the command and everybody who holds the pipe is
  gone, the drain thread reads what is left in it before `run_supervised` gives it up,
  within two seconds.  Only the part of `AcceptedWithinBudget` that is about output asks
  for it.
- A queue is configured, in `WorkerQueue` and `TaskExecution`; `LineChannel` has both.
- A name that is stored as it is (`Stored[who] = who`), in the part of `TwoPersons` that
  is about the executor.

Each is a constant or a predicate on constants.  The findings and section 7.2 say
what happens without them.

## 5. Theorems

TLC shows the properties on the instances above; the theorems hold for every number of
jobs, workers, tasks' kinds and artifacts, slots' releases, adapters, versions,
processes, people, requests, approvals, webhooks, audit events, descendants of a
command and its budgets, and for every setting of the fault switches.  Every safety
property that a run checks is proved, under the assumption the run makes and no other,
except `CancelledIsFinal`, which is false (section 7.1).

Each proof has the same shape.  A lemma per action says what it does to the part of the
state in question; a property that is not inductive is strengthened by what makes it
true, and the invariant is checked with TLC on the run's instance first; the theorem
combines initial states and steps.  Where a number is chosen as the least or the
greatest of a set (the next revision, the first output that is missing), its existence
comes from the smallest counterexample (`WellFoundedInduction`).

**WorkerQueueProofs.**  `TypeCorrect` and `RowsConsistent` (no assumption beyond the
constants').  `OnlyRestarted`: the invariant behind it is that a scheduler that is
about to requeue was asked to restart and found the row present, which is
what distinguishes its UPDATE from stale recovery's.  `Exclusive`: under `Timely` and
`SafeRestarts` no two workers hold a job.  `ExclusiveExecution` is not inductive: it
says nothing of what the row holds.  The strengthening `ExclusiveInv` adds that a
holder's job is running, in its name and no older than the limit (`WorkerHasClaim`);
that a scheduler about to requeue has a settled row before it (`RestartSettled`),
which is where a second scheduling thread or a failed finished job would break it;
and `ScheduleKnows`.  Stale recovery then never touches a held job, and `claim` only
takes a queued one.  `ImplementsHandout`, the refinement of `JobHandout`, follows from
the same invariant: a claim is `Take`, an outcome `Settle`, a worker's death `Abandon`,
recovery an `Offer` of a job that nobody holds any more, and a requeue `Repeat` of one
that its scheduler has recalled.

**TaskServiceProofs.**  `TypeCorrect`: the rows that calls and artifacts refer to exist.
`ReleasesReviewed`, for processes that overlap in every way, with crashes and failing
audit writes.  `ReviewInv` adds that an approved artifact is a reviewed one, that a
selection which passed the gate is a good manifest (`GateManifest`), and that a good
manifest stays one (`ManifestStands`), because artifacts never change their kind, number
or producer and approvals are never taken back (`RowsStand`).  For calls that do not
overlap (`OneCall`): `OneLine`, `SucceededApproved`, `TaskAndProjectAgree`,
`FailClosed`. They follow from one invariant, `SerialInv`, which adds to the three state
properties `Current`: what a call in progress has read is still so when it writes, the
revision it is going to use among it (`RevisionFresh`).  It has to survive calls that
died half way: what a run left in `running`, with some of its outputs, is where the next
one starts, and its revisions are counted by the next.

**TaskExecutionProofs.**  `ServicePart` and `QueuePart`: driven by the API and the
workers, the two parts go through steps of their own specifications, so that
`ReleasesReviewed` and exclusive execution carry over.  `ProducedOnce`, under
`SafeRestarts` and the `Timely` that the module fixes: `ProducedInv` adds that a
worker is in `service.run` only while it executes a claimed job, and that a run which
produces has seen everything an adapter made for the task before; exclusiveness of the
claim is what keeps a second run from adding to it.  `TablesInStep`, for one client
that waits for a settled job before it retries (`OneClient`): the tables agree
(`Matched`) unless a handler still owes the queue a call (`Owed`) or died owing it
(`lost`).  `OutcomeInv` says that what a worker is about to tell the queue is what
became of the task, and `HandlerInv` where each handler is between its two calls.

**ProductionReleaseProofs, the registry.**  `RegistryTypeCorrect` holds for any number of
callers.  Under `OneCaller`: `AtMostOneActive`, `EvidenceOfRelease`.  The
strengthening is `SeenCurrent`: what a call in progress read in its session is what
the rows still hold.  Each commit then decides on the current rows.  `JournalHonest`:
the invariant `Journal` says how far the call in progress is with its row of the
journal, that this row is the latest one, and from which place on the traffic is where
the call sent it; a crash, a commit that fails or an answer that gets lost leaves the
row at a status that promises nothing, and so does a session that raises on the way.
Nothing is assumed about crashes, sessions that raise or the actuator.

**ProductionReleaseProofs, the matrix.**  Under `OneCaller`: `OnlyQualifiedActive`,
`OneVersionActive`, `SetsPromotedTogether`.  `MatrixInv` adds that what a session read
is what the rows still hold, that what a call is about to promote has passed, and that
no set names two versions of one adapter.  Nothing is assumed about failing commits,
crashes or restarts with other versions.  `OnlyPromotionActivates` shows that no other
step makes a version active.

**ProductionReleaseProofs, the controller.**  Under `OneCaller`: `SuccessInForce`,
`FailureUndone`, `SlotFirst`, `SettledAsServed`, `OneOutcome`, and `TypeCorrect`.
Nothing is assumed about which sessions, probes, actuations and smoke tests fail, where
a process dies, which endpoints were called between two releases, or which versions a
process was restarted with.  `ControlInv` has, beside the invariants of the two
components, five parts for a run in progress: what its row says (`RunShape`), where the
registry's and the matrix's methods may be while it is at a place (`SwitchPlace`,
`MatrixPlace`), which slot is active there and where the traffic goes (`Routed`), and
that the outcome about to be saved is true (`SaveOK`).  That a rollback restores the
slot the run found active needs the two slots of the code: the run's target became
active and the previous slot standby, and there is no third one that the registry's
choice of a standby could mean.  A run that found no active slot has to know that there
is no standby at all (`NoStandby`), which holds because a slot becomes standby only when
another becomes active in the same commit.  `FailureUndone` has one exception, which the
code has: a switch whose last session raised is recorded as failed with the target
active.  `SwitchedUnrecorded` says what is in force then, and that the journal's row
still says "actuated", by which it can be told (section 7.2).  `RegistryPart` and
`MatrixPart` are the promises of the components inside the composition: every step of
the controller is a step of `SwitchSpec` or none.

**ReleaseOperatorProofs.**  `TypeCorrect`.  `Exclusive`: under `Timely`, as long as no
process died, at most one is between taking the lease and giving it back.  The
strengthening `LeaseInv` adds that a holder's approval is the one in the lease row, that
the row is gone when nobody holds it, that it is not past its age and that nobody is
about to take it over.  `Single`: under the same conditions no approval has two
production releases.  `SpentInv` says that every released approval is consumed, and that
between the test of `consumed_at` and the release's row the approval is unconsumed and
then consumed with no release of it; exclusiveness of the lease is what keeps two
executors out of that span.  `ImplementsLock` takes the two together: in a behaviour in
which no process dies, under `Timely`, the row of the lease is the holder of
`ReleaseLock` and the rows of `production_releases` are what ran under it.  An acquired
lease is `Take`, a release's row `Run` by the holder, the deleted lease `Give`, and
every other step leaves both.  TLC agrees on an instance with two processes and two
approvals, and refutes it once a process may die.  Three theorems hold whatever
overlaps, dies or takes the lease over.  `OneDecision`: a decision is made by an
`UPDATE` that asks for a pending request, and nothing makes a decided one undecided
again.  `NeverAlone`: execute compares the persons once, by a read that is long past
when the release starts; what it looked at cannot change, because no row ever changes
its author or its request (`ApprovalsKept`, `RequestsKept`, `ReleasesKept`).  `Stored`
is any function there: that requester and approver differ follows from their stored
names being different, that approver and executor differ only where the approver's
stored name is the name.  `CompletedTruly`: the call that writes "completed" owns the
release it writes about, and a release that is over stays as it is (`OwnRelease`).

**DurableServiceProofs, the audit log.**  No assumption beyond the constants'.
`DamageStaysConfined`, `NeverCalledInvalid`, `AcknowledgedKept`, and
`ImplementsAppendOnly`, the refinement of `AppendOnlyLog`.  `DamageConfined` is not
inductive: it does not say who may write. `LogInv` adds that every record names the
one before it (`AllChained`), that only the last record may be torn and only the last
two may miss their newline (`FrontWhole`), and that a process about to write has read
a last line that is whole (`WriterSawEnd`), which holds because it holds the lock
(`LogTypeOK`).  What a loss of power leaves is a prefix no shorter than what was
flushed (`AckedFlushed`).

**DurableServiceProofs, the wrapper.**  No assumption on overlap, crashes or the disk.
`TypeCorrect`.  `ServicePart` and `LogPart`: the wrapper's steps are steps of
`TaskService` and of `AuditLog`, or none; `ReleasesReviewed`, `RecordsKept` and
`RecordsOnlyAppended` carry over.  `CheckpointsSound`: `CheckInv` adds
that what a run is still to save is as sound as what it has saved.  `CompletedBacked`:
`RunInv` says that a run which returned from the service left an artifact of every
required kind and that its trail starts with every checkpoint made, and `BackedInv`
follows the records of one trail into the file, one `append` at a time, among the
records of other processes.  `ExecutionsAreRecorded` counts: `StartInv` says that the
attempts made and the processes entitled to make one are together no more than the
acknowledged records of a start; that those are in a log that verifies is `AckedKept`.

**HermesAdapterProofs.**  For any command, any number of descendants, any budgets and
each of the sandboxes; no assumption beyond the constants'.  `TypeCorrect`,
`ResultIsLeft`, `ResultWithinBudget`, `NothingSurvives`.  `ResultWithinBudget` is about
what the supervisor measures: the counted bytes and files of a workspace that can be
listed and has no more than `ScanLimit` files, and the output if `DrainsInTime`.  None
of the three properties is inductive: they look at the end of a call, and what makes
them true happened when the command ended.  `HermesInv` says what is known then: a
supervisor that does not raise has reaped the command and holds its code (`Collected`,
`Reported`), which is never one of the supervisor's own; a pid namespace whose first
process has ended is empty, and the manifest in it is the one the command left
(`Emptied`); the signal to the group left nobody in it, and who is no longer alive
starts nobody (`GroupGone`); the drain thread of a contained command is done only after
the command's end, and with all of its output if it keeps up (`Drained`), so the last
test of the budgets sees everything (`Measured`), whenever the monitor took its last
turn; outputs are read only after a run that returned 0 (`Accepting`).
`SettledForGood`, an action property: once a contained command is reaped and its
supervisor done, no step changes its output, its workspace or its manifest, so the
outputs that are loaded are the ones that were measured.  For a command without a
namespace of its own that fails (section 7.2, held pipes).

**LineChannelProofs.**  No assumption beyond the constants'.  `TypeCorrect`; `Promises`, by
`PromiseInv`: the task a handler holds between submit and reply was made from its
event, and from schedule on has a job if the deployment has a queue; a task goes to the
conversation of that event, and no step takes a task away or its job from it.
`AckedHandled`, by `HandledInv`: what a handler has gone past is
handled, by whichever delivery of the webhook did it.

What no theorem covers, and TLC checks, is liveness (`JobSettles`, `TaskSettles`,
`LockReleased`, `EndsInTime`, `FirstBecomesTask`): it needs fairness, and with it
`ENABLED`, which is outside the prover.

## 6. Plan

1. (done) `WorkerQueue`, `TaskService`, their composition `TaskExecution`;
   `DeploymentSwitch`; `ReleaseOperator`; proofs for the first, fourth and fifth.
2. (done) `CompatibilityService`, `ProductionRelease` over it and `DeploymentSwitch`;
   `AuditLog` with the refinement of `AppendOnlyLog`; `DurableService` over it and
   `TaskService`; `WorkerSupervisor` and `HermesAdapter`; `LineChannel`.
3. (done) Proofs: every safety property of every run, every type invariant, the
   compositions' parts.
4. (done) Abstract specifications: a queue that hands out each job to one holder
   (`JobHandout`, by `WorkerQueue`), a log that only grows (`AppendOnlyLog`, by
   `AuditLog` and inside `DurableService`), a lock with one holder (`ReleaseLock`, by
   `ReleaseOperator` while no process dies).
5. (to do) Pure algorithms against reference definitions: the workflow graph's topological
   order, the context forge's budget; the ordered application of migrations.

## 7. Disagreements between the code and what is said of it

### 7.1 A finding with a run

`service_cancel`: `CancelledIsFinal` fails.  run's last session assigns a status
without reading it, and a cancel in between is overwritten (`service.py:286`, `297`).

### 7.2 Known divergences without a run

Each entry of the table is what TLC finds with the configuration named.  Those after
it follow from the constants or the steps stated.

| Configuration | Property | What happens |
|---|---|---|
| `MCTaskService_gate.cfg` | `ReleaseFailClosed` | a release that overlaps a review, revision or cancel is recorded though the gate would have refused (`service.py:466`); `README.md:132` says release is fail closed |
| `MCTaskExecution_retry.cfg` | `RetryRequeues` | a retry between the task's failure and the job's leaves the task queued with a failed job (`workers/task_runner.py:69`); `docs/DEPLOYMENT_AND_WORKERS.md:41` says retry requeues the job |
| `MCDeploymentSwitch_promotions.cfg` | `OneActive` | overlapping promotions of the two slots leave both active (`deployment_switch.py:493`); `docs/DEPLOYMENT_AND_WORKERS.md:134` calls promotion atomic |
| `MCReleaseOperator_lease.cfg` | `OneReleaseAtATime` | two executors take over one expired lease (`release_operator.py:574`); `docs/RELEASE_OPERATOR.md:25` says the lease allows one operation at a time |
| `MCCompatibilityService_qualify_only.cfg` | `QualifyOnlyKeepsActive` | qualification of an active version that fails blocks it (`compatibility_service.py:99`); `README.md:251` says `--qualify-only` changes no active version |

Two more configurations pass: `MCTaskService_overlap.cfg` (two processes whose calls
overlap in every way: `ReleaseReviewed` holds, as is proved for any number) and
`MCTaskExecution_faults.cfg` (every fault switched on at once: `NoDuplicateOutput`
holds).

- *Forked revisions.*  `RevisionsLinear` fails in `TaskService` with two callers that
  revise the same artifact: both pass the test for the latest revision.
- *Slow worker.*  `ExclusiveExecution` fails in `WorkerQueue` with `Timely` FALSE: a live
  worker past the stale limit loses its job to another, and whichever of the two settles
  it last determines its outcome (`workers/queue.py:154`, `165`).
- *Restarts that go on.*  `JobSettles` without its premise fails: a job that is restarted
  again and again keeps its place before a younger one (`workers/queue.py:114`).
- *Evidence and replacement.*  `EvidenceMatches` fails in `DeploymentSwitch` with two
  callers: a probe of the old release is recorded for a newly registered one
  (`deployment_switch.py:347`).  A registration may likewise commit into a slot promoted
  since it read it (`deployment_switch.py:294`).
- *Switched and recorded as failed.*  With `CommitMayFail`, the session in which `promote`
  marks its action committed raises after slots and traffic were committed
  (`deployment_switch.py:517-523`): `run` finds the latest action "actuated" and saves
  `switch_failed`, with the target active (`production_release.py:178-188`).  It is the
  exception in `FailedLeavesPrevious`; the journal's row stays at "actuated", which
  reconcile does not look at.
- *Moved and not recorded.*  With `CommitMayFail`, the session that records the answer of
  the controller raises after the traffic moved (`deployment_switch.py:431`, `437`): the
  action stays pending, the registry keeps the previous slot, and reconcile does not look
  at the action.
- *Divergence that cannot be reconciled.*  `DivergenceReconcilable` fails with one
  caller, `HasActuator` and `Ambiguous` TRUE, one release, two journal rows and no
  other fault: traffic moved, the answer was an error, the action is recorded as
  failed and reconcile looks only at `reconcile_required` ones.  With `MayCrash` the
  same follows from a process that dies after the actuation.
- *Executed after revocation.*  `RevokedNotExecuted` fails in `ReleaseOperator` with
  one person, two processes, one direct approval, `Revocable` TRUE and no crash: the
  consuming session does not look at the decision again.
- *One person under a changed name.*  An approver whose name redaction or the length limit
  changes is stored under another name than the one `execute` compares
  (`release_operator.py:245`, `457`, `629`; `redaction.py:30-72`): in two-person mode the
  same person may approve a request of somebody else and execute it.  `TwoPersons` without
  its second premise fails in `release_operator`.  The other comparison holds: a requester
  whose name is changed passes approve_request's (`release_operator.py:382`), but not
  execute's, which is between two stored names.
- *Approval used twice.*  The conclusion of `SingleUse` fails without its premise:
  two executors that take over a dead process's lease for the same approval both read
  it unconsumed.
- *Task without a job.*  `SubmitSchedules` fails in `TaskExecution` with
  `ApiMayCrash`: the API dies between submit and schedule.  A later call of the run
  endpoint mends it; after a retry nothing does.
- *Output produced twice.*  `NoDuplicateOutput` fails with two API threads that
  retry one task at the same time: the second requeue reaches a job that is running.
- *Overlapping compatibility calls.*  `ActiveQualified` and `OneActiveVersion` fail in
  `CompatibilityService` with two callers: a promotion is decided on evidence that another
  qualification replaces before it commits, and two promotions demote what each of
  them read.  A version that was blocked between `get` and `register_current`'s commit
  is a candidate again.
- *Releases nobody finishes.*  A crash in `ProductionRelease` leaves a release
  "started" for good; a crash between the registry's reconciliation and the release's
  leaves it at `reconcile_required` with no action left to reconcile.
- *A torn audit log.*  After a torn write every later append raises
  `audit_log_corrupt`, and with it every method of the durable service, before or
  after its commits, until the file is repaired by hand.
- *Retried messages.*  In `LineChannel` a webhook whose second message fails is
  delivered again: the first becomes a second task, its reply token is used, the
  delivery fails there again, and the messages after it are never processed
  (`line_messaging.py:347`; `docs/CHANNELS_AND_SDK.md:59`).
- *Held pipes.*  Without a pid namespace, a descendant that left the process group and
  holds the output pipe keeps `run_supervised` in `stdout.close()` past every deadline
  (`workers/supervisor.py:227`), and goes on writing to the workspace after the
  command's exit.
- *What is not measured.*  A scan passes over the workspace root's `.git`, symbolic links
  and files it cannot examine, and gives no result for a workspace with more files than
  its limit or with a directory it cannot list (`workers/supervisor.py:51-66`); such
  growth is accepted.  So is output that was still in the pipe when the drain thread was
  given up (`workers/supervisor.py:223-227`).
- *A promise without a queue.*  Without `task_queue_url`, the default, the reply to a LINE
  message says that the task waits to be processed, and no job is made
  (`line_messaging.py:402`; `tests/test_line_messaging.py:120-139`): nothing processes it
  until somebody calls the run endpoint.

## 8. What is not modelled

The components listed in section 1 with no module in section 2: the context forge and
the workflow graph (pure algorithms, planned), the application of migrations, and what
is stateless (identity and policies, redaction, the portal, MCP, SDK, CLI, telemetry,
the TypeScript plugin, which translate, format or guard but keep no state that others
decide on).  What redaction makes of a name matters in one place, the release operator,
where it is the constant `Stored`.  The adapters other than Hermes appear by their
outcome.  Inside the modelled parts: the contents of artifacts, prompts and manifests;
hashes, except that a fingerprint is equal or not; authentication; reading endpoints;
wording and logging; the files of a worker's workspace, except that removing them may
raise; more than one task per project; tenants; the error that reconcile raises for an
observed version that differs from the slot's, before it has written anything.  The
commits with which `ProductionRelease` inserts a release, saves its outcome and settles
it do not fail by themselves: nothing in `run` or `reconcile` handles their exceptions,
so what a failing one leaves is what a process leaves that dies there, and processes die
there.

Sessions of the task service are modelled with SQLite's write lock, which is held from
the first flush to the commit.  PostgreSQL at read committed lets other sessions run
in that span too: what the overlapping configurations refute is refuted there as well,
but what `MCTaskService_overlap.cfg` and the serial runs show of the reads in the
commit steps is shown for SQLite, or for calls that do not overlap.  The queue's
methods are one transaction under a lock on both.
