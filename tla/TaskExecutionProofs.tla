------------------------ MODULE TaskExecutionProofs ------------------------
(***************************************************************************)
(* What the task table and the job table promise together, for every       *)
(* number of workers and every contract.  The two parts behave as          *)
(* TaskService and WorkerQueue specify, so that their theorems carry over; *)
(* the properties of this module relate the two tables.                    *)
(***************************************************************************)
EXTENDS TaskExecution, FiniteSetTheorems, TLAPS

----------------------------------------------------------------------------
(* The inductive invariants.                                               *)

\* A worker is in service.run only while it executes a claimed job.
RunsClaimed ==
    \A w \in Worker : proc[w].pc # "idle" => worker[w].pc = "executing"

\* A run that produces has seen everything an adapter ever made for the task.
Made == {i \in DOMAIN arts : arts[i].producer = "adapter"}

SeenAll == \A w \in Worker : proc[w].pc = "run_produce" => Made \subseteq proc[w].ids

ProducedInv == RunsClaimed /\ SeenAll /\ NoDuplicateOutput

JobStatus == jobs[TheJob].status

\* Where a handler is: in its service call, or past it in schedule, or in neither.
HandlerInv ==
    \A a \in Api :
        /\ proc[a].pc \in {"idle", "approve", "cancel", "retry", "returned", "raised"}
        /\ proc[a].pc # "idle" => sched[a].pc = "idle"
        /\ proc[a].pc = "retry" => api[a] = "restart"
        /\ api[a] = "dispatch" => proc[a].pc = "returned"
        /\ api[a] = "restart" => /\ proc[a].pc \in {"retry", "returned", "raised"}
                                 /\ JobStatus \in Q!Settled

\* The statuses of a task that nobody is to run again.
Ended == {"waiting_approval", "succeeded", "cancelled", "blocked"}

\* What a worker is about to tell the queue is what became of the task.
OutcomeInv ==
    \A w \in Worker :
        /\ worker[w].pc = "finishing" \/ proc[w].pc = "returned" => task.status \in Ended
        /\ worker[w].pc = "failing" \/ proc[w].pc = "raised" =>
               task.status \in Ended \cup {"failed"}

\* A handler that is to put the job into the queue has not done so yet.
Owed ==
    \E a \in Api :
        \/ api[a] = "dispatch" /\ JobStatus = "absent"
        \/ api[a] = "restart" /\ proc[a].pc = "returned"
        \/ /\ sched[a].pc = "inserted" /\ sched[a].restart /\ ~sched[a].created
           /\ JobStatus \in Q!Settled
        \/ sched[a].pc = "requeue"

\* The tables agree.
Matched ==
    \/ JobStatus = "absent" /\ task.status \notin {"queued", "running"}
    \/ JobStatus \in {"queued", "running"}
    \/ /\ JobStatus \in Q!Settled
       /\ task.status \notin {"absent", "queued", "running"}
       /\ JobStatus = "succeeded" => task.status # "failed"

AgreeInv ==
    /\ RunsClaimed
    /\ HandlerInv
    /\ OutcomeInv
    /\ lost \/ Owed \/ Matched

----------------------------------------------------------------------------
(* The parts.                                                              *)

\* To the task's tables every step is one of the service's, or none.
LEMMA ServiceSteps == [Next]_vars => [S!Next]_(S!vars)
<1>. SUFFICES ASSUME [Next]_vars
              PROVE  S!Next \/ UNCHANGED S!vars
  OBVIOUS
<1>1. ASSUME UNCHANGED taskVars
      PROVE  UNCHANGED S!vars
  BY <1>1 DEF taskVars, S!vars
<1>2. ASSUME NEW a \in Api, StartSubmit(a) \/ StartRetry(a)
      PROVE  S!CallBegin(a)
  BY <1>2 DEF StartSubmit, StartRetry, S!CallBegin
<1>3. ASSUME NEW a \in Api, StartOther(a)
      PROVE  S!CallBegin(a)
  <2>1. CASE "cancel" \in Methods /\ S!cancel_read(a)
    BY <2>1 DEF S!CallBegin
  <2>2. ASSUME "approve" \in Methods,
               NEW i \in DOMAIN arts, NEW d \in S!Decision, S!approve_read(a, {i}, d)
        PROVE  S!CallBegin(a)
    <3>1. S!Cardinality({i}) = Cardinality({i}) /\ Cardinality({i}) = 1
      BY FS_Singleton DEF S!Cardinality, Cardinality
    <3>2. S!Cardinality({i}) \in 1 .. MaxIds
      BY <3>1, ExecutionAssumption DEF S!ServiceAssumption
    <3>. QED  BY <2>2, <3>2 DEF S!CallBegin
  <2>. QED  BY <1>3, <2>1, <2>2 DEF StartOther
<1>4. ASSUME NEW a \in Api, ServiceStep(a)
      PROVE  S!CallStep(a) \/ S!session_fails(a) \/ S!durable_raise(a)
  BY <1>4 DEF ServiceStep, SessionFails
<1>5. ASSUME NEW a \in Api, AfterService(a)
      PROVE  S!Done(a)
  BY <1>5 DEF AfterService
<1>6. ASSUME NEW a \in Api, ApiCrash(a)
      PROVE  S!Crash(a) \/ UNCHANGED taskVars
  BY <1>6 DEF ApiCrash
<1>7. ASSUME NEW w \in Worker, RunStep(w)
      PROVE  S!run_read(w) \/ S!RunStep(w) \/ S!session_fails(w) \/ S!durable_raise(w)
  BY <1>7 DEF RunStep, SessionFails
<1>8. ASSUME NEW w \in Worker, RunOver(w) \/ WorkerCrash(w)
      PROVE  S!Done(w) \/ S!Crash(w) \/ UNCHANGED taskVars
  BY <1>8 DEF RunOver, WorkerCrash
<1>9. ASSUME \/ \E a \in Api : Run(a) \/ ScheduleStep(a)
             \/ \E w \in Worker : QueueStep(w)
             \/ Tick \/ UNCHANGED vars
      PROVE  UNCHANGED taskVars
  BY <1>9 DEF Run, ScheduleStep, QueueStep, Tick, vars, taskVars
<1>. QED  BY <1>1, <1>2, <1>3, <1>4, <1>5, <1>6, <1>7, <1>8, <1>9
          DEF Next, ApiStep, WorkerStep, S!Next, S!Proc

\* The API's threads and the workers use the task service as TaskService says: every step
\* is one of its steps or leaves its tables alone (api.py, task_runner.py).
THEOREM ServicePart == Spec => S!Spec
<1>1. Init => S!Init
  BY DEF Init
<1>. QED  BY <1>1, ServiceSteps, PTL DEF Spec, S!Spec

\* To the job table every step is one of the queue's, or none.
LEMMA QueueSteps == [Next]_vars => [Q!Next]_(Q!vars)
<1>. SUFFICES ASSUME [Next]_vars
              PROVE  Q!Next \/ UNCHANGED Q!vars
  OBVIOUS
<1>0. TheJob \in {TheJob}
  OBVIOUS
<1>1. ASSUME UNCHANGED jobVars
      PROVE  UNCHANGED Q!vars
  BY <1>1 DEF jobVars, Q!vars
<1>2. ASSUME NEW a \in Api, Run(a)
      PROVE  Q!ScheduleInsert(a, TheJob, FALSE)
  BY <1>2 DEF Run
<1>3. ASSUME NEW a \in Api, AfterService(a)
      PROVE  (\E r \in BOOLEAN : Q!ScheduleInsert(a, TheJob, r)) \/ UNCHANGED jobVars
  <2>1. (api[a] = "restart") \in BOOLEAN
    OBVIOUS
  <2>. QED  BY <1>3, <2>1 DEF AfterService
<1>4. ASSUME NEW a \in Api, ScheduleStep(a) \/ ApiCrash(a)
      PROVE  Q!SchedulerStep(a) \/ Q!ScheduleCrash(a) \/ UNCHANGED jobVars
  BY <1>4 DEF ScheduleStep, ApiCrash
<1>5. ASSUME NEW w \in Worker, QueueStep(w) \/ RunOver(w) \/ WorkerCrash(w)
      PROVE  Q!WorkerStep(w) \/ Q!Crash(w)
  BY <1>5 DEF QueueStep, RunOver, WorkerCrash, Q!WorkerStep
<1>6. ASSUME Tick
      PROVE  Q!Tick
  BY <1>6 DEF Tick
<1>7. ASSUME \/ \E a \in Api : StartSubmit(a) \/ StartRetry(a) \/ StartOther(a) \/ ServiceStep(a)
             \/ \E w \in Worker : RunStep(w)
             \/ UNCHANGED vars
      PROVE  UNCHANGED jobVars
  BY <1>7 DEF StartSubmit, StartRetry, StartOther, ServiceStep, RunStep, vars, jobVars
<1>. QED  BY <1>0, <1>1, <1>2, <1>3, <1>4, <1>5, <1>6, <1>7
             DEF Next, ApiStep, WorkerStep, Q!Next

\* They use the job queue as WorkerQueue says, with the one job of the task.
THEOREM QueuePart == Spec => Q!Spec
<1>1. Init => Q!Init
  BY DEF Init
<1>. QED  BY <1>1, QueueSteps, PTL DEF Spec, Q!Spec

\* Whatever is released was reviewed, however the API and the workers overlap.
THEOREM ReleasesReviewed == Spec => []S!ReleaseReviewed
  BY ServicePart, S!ReleasesReviewed, ExecutionAssumption, PTL

LEMMA PartTypes == Spec => [](S!TypeOK /\ Q!TypeOK)
  BY ServicePart, QueuePart, S!TypeCorrect, Q!TypeCorrect, ExecutionAssumption, PTL

LEMMA ClaimsHold == Q!SafeRestarts /\ Spec => []Q!ExclusiveInv
  BY QueuePart, Q!ClaimsStand, ExecutionAssumption, PTL

\* Type correctness of the two tables and of the handlers.
THEOREM TypeCorrect == Spec => []TypeOK
<1>. DEFINE Own == api \in [Api -> {"none", "dispatch", "restart"}] /\ lost \in BOOLEAN
<1>1. Init => Own
  BY DEF Init
<1>2. Own /\ [Next]_vars => Own'
  BY DEF Next, ApiStep, WorkerStep, StartSubmit, StartRetry, Run, StartOther, ServiceStep,
         AfterService, ScheduleStep, ApiCrash, QueueStep, RunStep, RunOver, WorkerCrash,
         Tick, vars
<1>3. S!TypeOK /\ Q!TypeOK /\ Own => TypeOK
  BY DEF TypeOK
<1>. QED  BY <1>1, <1>2, <1>3, PartTypes, PTL DEF Spec

----------------------------------------------------------------------------
(* What a step does to the processes.                                      *)

\* The processes that do not take the step are where they were.
OthersStay(p) == \A q \in S!Proc \ {p} : proc'[q] = proc[q]

LEMMA ProcEnds ==
    ASSUME S!TypeOK, NEW p \in S!Proc, S!Returns(p) \/ S!Raises(p)
    PROVE  /\ OthersStay(p)
           /\ S!Returns(p) => proc'[p].pc = "returned"
           /\ S!Raises(p) => proc'[p].pc = "raised"
           /\ proc'[p].pc \in {"returned", "raised"}
  BY DEF S!Returns, S!Raises, S!Idle, S!TypeOK, OthersStay

LEMMA ProcLeaves ==
    ASSUME S!TypeOK, NEW p \in S!Proc, S!Done(p) \/ S!Crash(p)
    PROVE  OthersStay(p) /\ proc'[p].pc = "idle" /\ UNCHANGED <<task, project, arts, approvals>>
  BY DEF S!Done, S!Crash, S!Idle, S!TypeOK, OthersStay, S!rows

\* A worker's step in service.run.
LEMMA RunDoes ==
    ASSUME S!TypeOK, NEW w \in Worker, RunStep(w)
    PROVE  /\ worker[w].pc = "executing" /\ UNCHANGED <<jobVars, api, lost>>
           /\ OthersStay(w)
           /\ \/ proc'[w].pc \in {"run_start", "run_scan", "run_produce"}
              \/ proc'[w].pc = "returned" /\ task'.status \in Ended
              \/ proc'[w].pc = "raised" /\ task'.status \in Ended \cup {"failed"}
              \/ AuditMayFail \/ DbMayFail
<1>0. w \in S!Proc /\ proc \in [S!Proc -> S!Call] /\ task \in S!TaskRow
  BY DEF S!TypeOK, S!Proc
<1>. DEFINE Goes == /\ OthersStay(w)
                    /\ \/ proc'[w].pc \in {"run_start", "run_scan", "run_produce"}
                       \/ proc'[w].pc = "returned" /\ task'.status \in Ended
                       \/ proc'[w].pc = "raised" /\ task'.status \in Ended \cup {"failed"}
                       \/ AuditMayFail \/ DbMayFail
<1>1. ASSUME S!run_read(w)
      PROVE  Goes
  <2>1. ASSUME S!Begin(w, "run_start", task)
      PROVE  Goes
    BY <1>0, <2>1 DEF S!Begin, S!Idle, OthersStay
  <2>2. ASSUME S!Raises(w) /\ (task.status = "cancelled" \/ AuditMayFail)
      PROVE  Goes
    BY <1>0, <1>1, <2>2, ProcEnds DEF S!run_read, S!rows, Ended
  <2>. QED  BY <1>1, <2>1, <2>2 DEF S!run_read
<1>2. ASSUME S!run_start(w) \/ S!run_scan(w)
      PROVE  Goes
  BY <1>0, <1>2 DEF S!run_start, S!run_scan, S!Call, OthersStay
<1>8. ASSUME S!run_revision(w) \/ S!run_produce(w)
      PROVE  Goes
  <2>1. CASE S!run_revision(w)
    BY <1>0, <2>1 DEF S!run_revision, S!Call, OthersStay
  <2>2. CASE S!run_produce(w)
    BY <1>0, <2>2 DEF S!run_produce, S!Call, OthersStay
  <2>. QED  BY <1>8, <2>1, <2>2
<1>3. ASSUME S!run_settle(w)
      PROVE  Goes
  <2>1. task'.status \in {"waiting_approval", "succeeded"}
    BY <1>0, <1>3 DEF S!run_settle, S!TaskRow
  <2>. QED  BY <1>0, <1>3, <2>1, ProcEnds DEF S!run_settle, Ended
<1>4. ASSUME S!run_fail(w)
      PROVE  Goes
  <2>1. task'.status = "failed"
    BY <1>0, <1>4 DEF S!run_fail, S!TaskRow
  <2>. QED  BY <1>0, <1>4, <2>1, ProcEnds DEF S!run_fail
<1>5. ASSUME SessionFails(w)
      PROVE  Goes
  BY <1>0, <1>5, ProcEnds DEF SessionFails, S!session_fails
<1>6. ASSUME S!durable_raise(w)
      PROVE  Goes
  BY <1>0, <1>6 DEF S!durable_raise, OthersStay, S!Call
<1>7. Goes
  <2>. HIDE DEF Goes
  <2>. QED  BY <1>1, <1>2, <1>3, <1>4, <1>5, <1>6, <1>8 DEF RunStep, S!RunStep
<1>. QED  BY <1>7 DEF RunStep

\* A worker's step in the queue.
LEMMA QueueDoes ==
    ASSUME Q!TypeOK, NEW w \in Worker, QueueStep(w)
    PROVE  /\ UNCHANGED <<taskVars, sched, api, lost>>
           /\ worker[w].pc # "executing"
           /\ \A v \in Worker \ {w} : worker'[v] = worker[v]
           /\ worker'[w].pc \in {"idle", "recovered", "executing", "closing", "failing"}
           /\ worker'[w].pc = "failing" => FinishMayRaise
  BY DEF QueueStep, Q!Recover, Q!Claim, Q!Finish, Q!Close, Q!Fail, Q!TypeOK, Q!IdleWorker

\* A worker leaves service.run.
LEMMA OverDoes ==
    ASSUME S!TypeOK, Q!TypeOK, NEW w \in Worker, RunOver(w)
    PROVE  /\ UNCHANGED <<task, project, arts, approvals, jobs, created, age, sched, crashes, api, lost>>
           /\ worker[w].pc = "executing" /\ proc[w].pc \in {"returned", "raised"}
           /\ OthersStay(w) /\ proc'[w].pc = "idle"
           /\ \A v \in Worker \ {w} : worker'[v] = worker[v]
           /\ worker'[w].pc = IF proc[w].pc = "returned" THEN "finishing" ELSE "failing"
<1>1. w \in S!Proc
  BY DEF S!Proc
<1>. QED  BY <1>1, ProcLeaves DEF RunOver, Q!Handle, S!Done, Q!TypeOK

LEMMA WorkerCrashDoes ==
    ASSUME S!TypeOK, Q!TypeOK, NEW w \in Worker, WorkerCrash(w)
    PROVE  /\ UNCHANGED <<task, project, arts, approvals, jobs, created, age, sched, api, lost>>
           /\ OthersStay(w) /\ proc'[w].pc = "idle"
           /\ \A v \in Worker \ {w} : worker'[v] = worker[v]
           /\ worker'[w].pc = "idle"
<1>1. w \in S!Proc
  BY DEF S!Proc
<1>2. OthersStay(w) /\ proc'[w].pc = "idle" /\ UNCHANGED <<task, project, arts, approvals>>
  BY <1>1, ProcLeaves DEF WorkerCrash, taskVars, OthersStay
<1>. QED  BY <1>2 DEF WorkerCrash, Q!Crash, Q!TypeOK, Q!IdleWorker

\* A thread of the API does not touch the workers.
ApiMoves(a) ==
    \/ StartSubmit(a) \/ StartRetry(a) \/ Run(a) \/ StartOther(a)
    \/ ApiStep(a) \/ ApiCrash(a)

LEMMA ApiDoes ==
    ASSUME S!TypeOK, NEW a \in Api, ApiMoves(a)
    PROVE  UNCHANGED <<worker, crashes>> /\ OthersStay(a)
<1>0. a \in S!Proc /\ proc \in [S!Proc -> S!Call]
  BY DEF S!TypeOK, S!Proc
<1>1. CASE StartSubmit(a) \/ StartRetry(a)
  <2>1. ASSUME S!submit(a)
        PROVE  OthersStay(a)
    BY <1>0, <2>1, ProcEnds DEF S!submit
  <2>2. ASSUME S!retry_read(a)
        PROVE  OthersStay(a)
    BY <1>0, <2>2, ProcEnds DEF S!retry_read, S!Begin, OthersStay
  <2>. QED  BY <1>1, <2>1, <2>2 DEF StartSubmit, StartRetry, jobVars
<1>2. CASE StartOther(a)
  <2>1. ASSUME S!cancel_read(a)
        PROVE  OthersStay(a)
    BY <1>0, <2>1, ProcEnds DEF S!cancel_read, S!Begin, OthersStay
  <2>2. ASSUME NEW i \in DOMAIN arts, NEW d \in S!Decision, S!approve_read(a, {i}, d)
        PROVE  OthersStay(a)
    BY <1>0, <2>2 DEF S!approve_read, OthersStay
  <2>. QED  BY <1>2, <2>1, <2>2 DEF StartOther, jobVars
<1>3. CASE Run(a) \/ ScheduleStep(a)
  BY <1>3 DEF Run, ScheduleStep, taskVars, OthersStay, Q!ScheduleInsert, Q!SchedulerStep,
              Q!ScheduleDecide, Q!ScheduleRequeue
<1>4. CASE ServiceStep(a)
  <2>1. ASSUME S!CallStep(a)
        PROVE  OthersStay(a)
    <3>1. CASE S!release_read(a)
      BY <1>0, <3>1, ProcEnds DEF S!release_read, OthersStay
    <3>3. CASE S!release_revision(a)
      BY <1>0, <3>3 DEF S!release_revision, OthersStay
    <3>2. CASE ~S!release_read(a) /\ ~S!release_revision(a)
      BY <1>0, <2>1, <3>2, ProcEnds
         DEF S!CallStep, S!revise_commit, S!approve_commit, S!release_write, S!retry_commit,
             S!cancel_commit
    <3>. QED  BY <3>1, <3>2, <3>3
  <2>2. ASSUME SessionFails(a)
        PROVE  OthersStay(a)
    BY <1>0, <2>2, ProcEnds DEF SessionFails, S!session_fails
  <2>3. ASSUME S!durable_raise(a)
        PROVE  OthersStay(a)
    BY <1>0, <2>3 DEF S!durable_raise, OthersStay
  <2>. QED  BY <1>4, <2>1, <2>2, <2>3 DEF ServiceStep, jobVars
<1>5. CASE AfterService(a)
  BY <1>0, <1>5, ProcLeaves DEF AfterService, Q!ScheduleInsert, jobVars
<1>6. CASE ApiCrash(a)
  <2>1. OthersStay(a)
    BY <1>0, <1>6, ProcLeaves DEF ApiCrash, taskVars, OthersStay
  <2>. QED  BY <1>6, <2>1 DEF ApiCrash, Q!ScheduleCrash, jobVars
<1>. QED  BY <1>1, <1>2, <1>3, <1>4, <1>5, <1>6 DEF ApiMoves, ApiStep

\* Every step is one of these, the clock's, or none.
LEMMA Steps ==
    ASSUME [Next]_vars
    PROVE  \/ \E a \in Api : ApiMoves(a)
           \/ \E w \in Worker : QueueStep(w) \/ RunStep(w) \/ RunOver(w) \/ WorkerCrash(w)
           \/ Tick /\ UNCHANGED <<taskVars, jobs, created, worker, sched, crashes, api, lost>>
           \/ UNCHANGED vars
  BY DEF Next, ApiMoves, WorkerStep, Tick, Q!Tick

LEMMA RunsClaimedKept ==
    ASSUME S!TypeOK, Q!TypeOK, RunsClaimed, [Next]_vars
    PROVE  RunsClaimed'
<1>0. \A w \in Worker : w \in S!Proc /\ w \notin Api
  BY ExecutionAssumption DEF S!Proc
<1>1. ASSUME NEW a \in Api, ApiMoves(a)
      PROVE  RunsClaimed'
  BY <1>0, <1>1, ApiDoes DEF RunsClaimed, OthersStay
<1>2. ASSUME NEW w \in Worker, QueueStep(w)
      PROVE  RunsClaimed'
  BY <1>0, <1>2, QueueDoes DEF RunsClaimed, taskVars
<1>3. ASSUME NEW w \in Worker, RunStep(w)
      PROVE  RunsClaimed'
  BY <1>0, <1>3, RunDoes DEF RunsClaimed, OthersStay, jobVars
<1>4. ASSUME NEW w \in Worker, RunOver(w)
      PROVE  RunsClaimed'
  BY <1>0, <1>4, OverDoes DEF RunsClaimed, OthersStay
<1>5. ASSUME NEW w \in Worker, WorkerCrash(w)
      PROVE  RunsClaimed'
  BY <1>0, <1>5, WorkerCrashDoes DEF RunsClaimed, OthersStay
<1>6. CASE UNCHANGED <<proc, worker>>
  BY <1>6 DEF RunsClaimed
<1>. QED  BY <1>1, <1>2, <1>3, <1>4, <1>5, <1>6, Steps DEF vars, taskVars, jobVars

----------------------------------------------------------------------------
(* Each output is produced once.                                           *)

\* No step but a run's adds an artifact of an adapter or makes one of another.
LEMMA MadeStands ==
    ASSUME S!TypeOK, [Next]_vars, ~\E w \in Worker : S!run_produce(w)
    PROVE  /\ Made' = Made
           /\ \A i \in Made : arts'[i].kind = arts[i].kind
<1>1. [S!Next]_(S!vars)
  BY ServiceSteps
<1>2. \A i \in DOMAIN arts : S!Stands(i)
  BY <1>1, S!RowsStand, ExecutionAssumption
<1>3. ASSUME NEW i \in DOMAIN arts' \ DOMAIN arts, arts'[i].producer = "adapter"
      PROVE  FALSE
  <2>1. CASE UNCHANGED <<arts, approvals>>
    BY <1>3, <2>1
  <2>2. ASSUME NEW a \in Api, S!revise_commit(a)
        PROVE  FALSE
    <3>. a \in S!Proc
      BY DEF S!Proc
    <3>. QED  BY <1>3, <2>2, S!ReviseRows, ExecutionAssumption
  <2>3. ASSUME NEW a \in Api, S!approve_commit(a)
        PROVE  FALSE
    <3>. a \in S!Proc
      BY DEF S!Proc
    <3>. QED  BY <1>3, <2>3, S!ApproveRows, ExecutionAssumption
  <2>4. ASSUME NEW a \in Api, S!release_write(a)
        PROVE  FALSE
    <3>. a \in S!Proc
      BY DEF S!Proc
    <3>. QED  BY <1>3, <2>4, S!ReleaseRows, ExecutionAssumption
  <2>. QED  BY <1>1, <2>1, <2>2, <2>3, <2>4, S!OtherRows, ExecutionAssumption
<1>. QED  BY <1>2, <1>3 DEF Made, S!Stands

\* Only one worker executes.
LEMMA OneExecutes ==
    ASSUME Q!ExclusiveInv, NEW v \in Worker, NEW w \in Worker,
           worker[v].pc = "executing", worker[w].pc = "executing"
    PROVE  v = w
<1>1. Q!TypeOK /\ Q!WorkerHasClaim
  BY DEF Q!ExclusiveInv
<1>2. worker[v].job = TheJob /\ worker[w].job = TheJob
  BY <1>1 DEF Q!TypeOK
<1>. QED  BY <1>1, <1>2 DEF Q!WorkerHasClaim, Q!HasClaim, Q!Claimed

\* A run that has seen what there was adds outputs of the kinds that were missing.
LEMMA ProduceKeepsOnce ==
    ASSUME S!TypeOK, Q!ExclusiveInv, ProducedInv, NEW w \in Worker, S!run_produce(w)
    PROVE  SeenAll' /\ NoDuplicateOutput'
<1>0. w \in S!Proc /\ proc \in [S!Proc -> S!Call] /\ proc[w].pc = "run_produce"
  BY DEF S!TypeOK, S!Proc, S!run_produce
<1>1. /\ \A i \in DOMAIN arts : i \in DOMAIN arts' /\ arts'[i] = arts[i]
      /\ \A i \in DOMAIN arts' \ DOMAIN arts : \A j \in proc[w].ids : arts[j].kind # arts'[i].kind
      /\ \A i, j \in DOMAIN arts' \ DOMAIN arts : arts'[i].kind = arts'[j].kind => i = j
  BY <1>0, S!ProduceRows, ExecutionAssumption
<1>2. Made \subseteq proc[w].ids
  BY <1>0 DEF ProducedInv, SeenAll
<1>3. NoDuplicateOutput'
  <2> SUFFICES ASSUME NEW i \in DOMAIN arts', NEW j \in DOMAIN arts',
                      arts'[i].producer = "adapter", arts'[j].producer = "adapter",
                      arts'[i].kind = arts'[j].kind
               PROVE  i = j
    BY DEF NoDuplicateOutput
  <2>1. CASE i \in DOMAIN arts /\ j \in DOMAIN arts
    BY <1>1, <2>1 DEF ProducedInv, NoDuplicateOutput
  <2>2. CASE i \in DOMAIN arts /\ j \notin DOMAIN arts
    BY <1>1, <1>2, <2>2 DEF Made
  <2>3. CASE i \notin DOMAIN arts /\ j \in DOMAIN arts
    BY <1>1, <1>2, <2>3 DEF Made
  <2>4. CASE i \notin DOMAIN arts /\ j \notin DOMAIN arts
    BY <1>1, <2>4
  <2>. QED  BY <2>1, <2>2, <2>3, <2>4
<1>4. SeenAll'
  <2> SUFFICES ASSUME NEW v \in Worker, proc'[v].pc = "run_produce"
               PROVE  Made' \subseteq proc'[v].ids
    BY DEF SeenAll
  <2>1. v = w
    <3>1. CASE v # w
      <4>1. v \in S!Proc \ {w}
        BY <3>1 DEF S!Proc
      <4>2. proc[v].pc = "run_produce"
        BY <1>0, <4>1 DEF S!run_produce
      <4>3. worker[v].pc = "executing" /\ worker[w].pc = "executing"
        BY <1>0, <4>2 DEF ProducedInv, RunsClaimed
      <4>. QED  BY <3>1, <4>3, OneExecutes
    <3>. QED  BY <3>1
  <2>2. proc'[w].ids = proc[w].ids \cup (DOMAIN arts' \ DOMAIN arts)
    BY <1>0 DEF S!run_produce, S!Call
  <2>. QED  BY <1>1, <1>2, <2>1, <2>2 DEF Made
<1>. QED  BY <1>3, <1>4

LEMMA ProducedKept ==
    ASSUME S!TypeOK, Q!ExclusiveInv, ProducedInv, [Next]_vars
    PROVE  ProducedInv'
<1>0. Q!TypeOK /\ \A w \in Worker : w \in S!Proc /\ w \notin Api
  BY ExecutionAssumption DEF Q!ExclusiveInv, S!Proc
<1>1. RunsClaimed'
  BY <1>0, RunsClaimedKept DEF ProducedInv
<1>2. ASSUME NEW w \in Worker, S!run_produce(w)
      PROVE  SeenAll' /\ NoDuplicateOutput'
  BY <1>2, ProduceKeepsOnce
<1>3. ASSUME ~\E w \in Worker : S!run_produce(w)
      PROVE  NoDuplicateOutput'
  BY <1>3, MadeStands DEF ProducedInv, NoDuplicateOutput, Made
\* Who is in run_produce then was there before, with what it knew, or has just scanned.
<1>4. ASSUME ~(\E w \in Worker : S!run_produce(w)), NEW v \in Worker, proc'[v].pc = "run_produce"
      PROVE  Made' \subseteq proc'[v].ids
  <2>1. Made' = Made
    BY <1>4, MadeStands
  <2>2. (proc[v].pc = "run_produce" /\ proc'[v].ids = proc[v].ids) \/ S!run_scan(v)
    <3>1. ASSUME NEW a \in Api, ApiMoves(a)
          PROVE  proc'[v] = proc[v]
      BY <1>0, <3>1, ApiDoes DEF OthersStay
    <3>2. ASSUME NEW w \in Worker, RunOver(w) \/ WorkerCrash(w)
          PROVE  proc'[v] = proc[v]
      BY <1>0, <1>4, <3>2, OverDoes, WorkerCrashDoes DEF OthersStay
    <3>3. ASSUME NEW w \in Worker, RunStep(w), w # v
          PROVE  proc'[v] = proc[v]
      BY <1>0, <3>3, RunDoes DEF OthersStay
    <3>4. ASSUME RunStep(v)
          PROVE  (proc[v].pc = "run_produce" /\ proc'[v].ids = proc[v].ids) \/ S!run_scan(v)
      <4>0. v \in S!Proc /\ proc \in [S!Proc -> S!Call]
        BY <1>0 DEF S!TypeOK
      <4>1. ~S!Returns(v) /\ ~S!Raises(v) /\ ~S!Begin(v, "run_start", task)
        BY <1>4, <4>0, ProcEnds DEF S!Begin, S!Idle
      <4>2. ~S!run_start(v) /\ ~S!durable_raise(v)
        BY <1>4, <4>0 DEF S!run_start, S!durable_raise, S!Call
      <4>3. S!run_revision(v) => proc[v].pc = "run_produce" /\ proc'[v].ids = proc[v].ids
        BY <4>0 DEF S!run_revision, S!Call
      <4>. QED  BY <1>4, <3>4, <4>1, <4>2, <4>3
           DEF RunStep, S!RunStep, S!run_read, S!run_settle, S!run_fail, SessionFails,
               S!session_fails
    <3>5. ASSUME UNCHANGED taskVars
          PROVE  proc'[v] = proc[v]
      BY <3>5 DEF taskVars
    <3>6. ASSUME NEW w \in Worker, QueueStep(w)
          PROVE  UNCHANGED taskVars
      BY <3>6 DEF QueueStep
    <3>. QED  BY <1>4, <3>1, <3>2, <3>3, <3>4, <3>5, <3>6, Steps DEF vars
  <2>3. CASE proc[v].pc = "run_produce" /\ proc'[v].ids = proc[v].ids
    BY <1>4, <2>1, <2>3 DEF ProducedInv, SeenAll
  <2>4. CASE S!run_scan(v)
    <3>1. proc'[v].ids = DOMAIN arts
      BY <1>0, <2>4 DEF S!run_scan, S!TypeOK, S!Call
    <3>. QED  BY <2>1, <3>1 DEF Made
  <2>. QED  BY <2>2, <2>3, <2>4
<1>5. ASSUME ~\E w \in Worker : S!run_produce(w)
      PROVE  SeenAll'
  BY <1>4, <1>5 DEF SeenAll
<1>. QED  BY <1>1, <1>2, <1>3, <1>5 DEF ProducedInv

\* However often the task is dispatched, retried and recovered, whatever workers and API
\* processes die and whatever writes fail: the adapter of a required output makes it
\* once, where restarts come from one thread at a time and a finished job is not failed.
THEOREM ProducedOnce == Q!SafeRestarts /\ Spec => []NoDuplicateOutput
<1>. SUFFICES ASSUME Q!SafeRestarts
              PROVE  Spec => []NoDuplicateOutput
  OBVIOUS
<1>1. Init => ProducedInv
  BY DEF Init, S!Init, S!Idle, ProducedInv, RunsClaimed, SeenAll, NoDuplicateOutput, S!Proc
<1>2. S!TypeOK /\ Q!ExclusiveInv /\ ProducedInv /\ [Next]_vars => ProducedInv'
  BY ProducedKept
<1>3. ProducedInv => NoDuplicateOutput
  BY DEF ProducedInv
<1>. QED  BY <1>1, <1>2, <1>3, PartTypes, ClaimsHold, PTL DEF Spec

----------------------------------------------------------------------------
(* The two tables agree, where OneClient holds.                            *)

LEMMA HolderRuns ==
    ASSUME Q!ExclusiveInv, ~FinishMayRaise, NEW w \in Worker,
           worker[w].pc \in {"executing", "finishing", "failing"}
    PROVE  JobStatus = "running" /\ jobs[TheJob].worker = w
<1>1. Q!TypeOK /\ Q!HasClaim(w)
  BY DEF Q!ExclusiveInv, Q!WorkerHasClaim
<1>2. worker[w].job = TheJob
  BY <1>1 DEF Q!TypeOK
<1>. QED  BY <1>1, <1>2 DEF Q!HasClaim, Q!Claimed, Q!Completed, JobStatus

\* Nobody is to settle a job that is not running.
LEMMA NobodyReports ==
    ASSUME Q!ExclusiveInv, ~FinishMayRaise, RunsClaimed, JobStatus # "running", NEW w \in Worker
    PROVE  worker[w].pc \notin {"executing", "finishing", "failing"} /\ proc[w].pc = "idle"
  BY HolderRuns DEF RunsClaimed

LEMMA InsertDoes ==
    ASSUME Q!TypeOK, NEW a \in Api, NEW r \in BOOLEAN, Q!ScheduleInsert(a, TheJob, r)
    PROVE  /\ sched[a].pc = "idle" /\ UNCHANGED <<worker, crashes>>
           /\ sched'[a].pc = "inserted" /\ sched'[a].restart = r
           /\ sched'[a].created = (JobStatus = "absent")
           /\ JobStatus' = IF JobStatus = "absent" THEN "queued" ELSE JobStatus
<1>1. Q!enqueue_idempotent(TheJob) /\ sched[a].pc = "idle" /\ UNCHANGED <<worker, crashes>>
  BY DEF Q!ScheduleInsert
<1>2. sched' = [sched EXCEPT ![a] = [pc |-> "inserted", job |-> TheJob, restart |-> r,
                                     created |-> jobs[TheJob].status = "absent"]]
  BY DEF Q!ScheduleInsert
<1>3. DOMAIN sched = Api /\ DOMAIN jobs = {TheJob}
  BY DEF Q!TypeOK
<1>4. JobStatus' = IF JobStatus = "absent" THEN "queued" ELSE JobStatus
  BY <1>1, <1>3 DEF Q!enqueue_idempotent, Q!enqueue, Q!Write, Q!queueVars, Q!QueuedRow,
                    Q!AbsentRow, JobStatus
<1>. QED  BY <1>1, <1>2, <1>3, <1>4 DEF JobStatus

\* A handler's step in the service.
LEMMA CallDoes ==
    ASSUME S!TypeOK, HandlerInv, ~AuditMayFail, ~DbMayFail, NEW a \in Api, ServiceStep(a)
    PROVE  /\ UNCHANGED <<jobVars, api, lost>> /\ proc'[a].pc = "returned"
           /\ \/ /\ proc[a].pc \in {"approve", "cancel"}
                 /\ task'.status \in {task.status} \cup Ended
              \/ proc[a].pc = "retry" /\ task'.status = "queued"
<1>0. a \in S!Proc /\ task \in S!TaskRow
  BY DEF S!TypeOK, S!Proc
<1>1. S!CallStep(a) /\ UNCHANGED <<jobVars, api, lost>>
  BY DEF ServiceStep, SessionFails, S!durable_raise
<1>2. S!approve_commit(a) \/ S!cancel_commit(a) \/ S!retry_commit(a)
  BY <1>1 DEF S!CallStep, HandlerInv, S!revise_commit, S!release_read, S!release_revision,
              S!release_write
<1>3. \A s : [task EXCEPT !.status = s].status = s
  BY <1>0 DEF S!TaskRow
<1>4. \A s, e : [task EXCEPT !.status = s, !.error = e].status = s
  BY <1>0 DEF S!TaskRow
<1>5. ASSUME S!approve_commit(a)
      PROVE  /\ proc[a].pc = "approve" /\ S!Returns(a)
             /\ task'.status \in {task.status} \cup Ended
  <2>1. PICK s \in Ended : task' = [task EXCEPT !.status = S!Assign(proc[a].snap.status, @, s)]
    BY <1>5 DEF S!approve_commit, Ended
  <2>. QED  BY <1>3, <1>5, <2>1 DEF S!approve_commit, S!Assign
<1>6. ASSUME S!cancel_commit(a)
      PROVE  proc[a].pc = "cancel" /\ S!Returns(a) /\ task'.status \in Ended
  BY <1>3, <1>6 DEF S!cancel_commit, Ended
<1>7. ASSUME S!retry_commit(a)
      PROVE  proc[a].pc = "retry" /\ S!Returns(a) /\ task'.status = "queued"
  BY <1>4, <1>7 DEF S!retry_commit
<1>. QED  BY <1>0, <1>1, <1>2, <1>5, <1>6, <1>7, ProcEnds

\* The start of a handler.
LEMMA StartDoes ==
    ASSUME S!TypeOK, NEW a \in Api, StartSubmit(a) \/ StartRetry(a) \/ StartOther(a)
    PROVE  /\ UNCHANGED <<jobVars, lost>> /\ Free(a)
           /\ StartSubmit(a) =>
                  /\ task.status = "absent" /\ task'.status = "queued"
                  /\ proc'[a].pc = "returned" /\ api' = [api EXCEPT ![a] = "dispatch"]
           /\ StartRetry(a) =>
                  /\ task' = task /\ proc'[a].pc \in {"retry", "raised"}
                  /\ api' = [api EXCEPT ![a] = "restart"]
                  /\ PatientRetry => JobStatus \in Q!Settled
           /\ StartOther(a) =>
                  /\ UNCHANGED <<task, api>>
                  /\ proc'[a].pc \in {"returned", "cancel", "approve"}
<1>0. a \in S!Proc /\ proc \in [S!Proc -> S!Call]
  BY DEF S!TypeOK, S!Proc
<1>1. ASSUME StartSubmit(a)
      PROVE  /\ task.status = "absent" /\ task'.status = "queued"
             /\ proc'[a].pc = "returned" /\ api' = [api EXCEPT ![a] = "dispatch"]
  <2>1. task' = [S!NoTask EXCEPT !.status = "queued"] /\ task.status = "absent" /\ S!Returns(a)
    BY <1>1 DEF StartSubmit, S!submit
  <2>2. proc'[a].pc = "returned" /\ task'.status = "queued"
    BY <1>0, <2>1, ProcEnds DEF S!NoTask
  <2>. QED  BY <1>1, <2>1, <2>2 DEF StartSubmit
<1>2. ASSUME StartRetry(a)
      PROVE  /\ task' = task /\ proc'[a].pc \in {"retry", "raised"}
             /\ api' = [api EXCEPT ![a] = "restart"]
             /\ PatientRetry => JobStatus \in Q!Settled
  <2>1. S!Begin(a, "retry", S!Error) \/ S!Raises(a)
    BY <1>2 DEF StartRetry, S!retry_read
  <2>2. proc'[a].pc \in {"retry", "raised"}
    BY <1>0, <2>1, ProcEnds DEF S!Begin, S!Idle
  <2>. QED  BY <1>2, <2>2 DEF StartRetry, S!retry_read, S!rows, JobStatus
<1>3. ASSUME StartOther(a)
      PROVE  UNCHANGED <<task, api>> /\ proc'[a].pc \in {"returned", "cancel", "approve"}
  <2>1. ASSUME S!cancel_read(a)
        PROVE  task' = task /\ proc'[a].pc \in {"returned", "cancel"}
    <3>1. S!Returns(a) \/ S!Begin(a, "cancel", S!NoTask)
      BY <2>1 DEF S!cancel_read
    <3>2. proc'[a].pc \in {"returned", "cancel"}
      BY <1>0, <3>1, ProcEnds DEF S!Begin, S!Idle
    <3>. QED  BY <2>1, <3>2 DEF S!cancel_read, S!rows
  <2>2. ASSUME NEW i \in DOMAIN arts, NEW d \in S!Decision, S!approve_read(a, {i}, d)
        PROVE  task' = task /\ proc'[a].pc = "approve"
    BY <1>0, <2>2 DEF S!approve_read, S!Idle, S!rows
  <2>. QED  BY <1>3, <2>1, <2>2 DEF StartOther
<1>4. UNCHANGED <<jobVars, lost>> /\ Free(a)
  BY DEF StartSubmit, StartRetry, StartOther
<1>. QED  BY <1>1, <1>2, <1>3, <1>4

\* A handler takes no worker by surprise: a task that somebody is about to report on
\* only moves among the ends.
LEMMA ApiKeepsOutcome ==
    ASSUME S!TypeOK, Q!ExclusiveInv, ~FinishMayRaise, RunsClaimed, OutcomeInv,
           NEW a \in Api, ApiMoves(a),
           task'.status \in {task.status} \cup Ended \/ JobStatus # "running"
    PROVE  OutcomeInv'
<1>1. \A w \in Worker : worker'[w] = worker[w] /\ proc'[w] = proc[w]
  BY ApiDoes, ExecutionAssumption DEF OthersStay, S!Proc
<1>2. CASE task'.status \in {task.status} \cup Ended
  BY <1>1, <1>2 DEF OutcomeInv
<1>3. CASE JobStatus # "running"
  BY <1>1, <1>3, NobodyReports DEF OutcomeInv
<1>. QED  BY <1>2, <1>3

\* Between requests a handler owes nothing.
LEMMA FreeOwesNothing ==
    ASSUME TypeOK, HandlerInv, NEW a \in Api, \A b \in Api : b = a,
           proc[a].pc \notin {"retry", "returned", "raised"}
    PROVE  api[a] = "none" /\ (sched[a].pc = "idle" => ~Owed)
  BY DEF TypeOK, HandlerInv, Owed

LEMMA StartAgrees ==
    ASSUME OneClient, TypeOK, Q!ExclusiveInv, AgreeInv,
           NEW a \in Api, StartSubmit(a) \/ StartRetry(a) \/ StartOther(a)
    PROVE  HandlerInv' /\ OutcomeInv' /\ (lost \/ Owed \/ Matched)'
<1>0. /\ S!TypeOK /\ ApiMoves(a) /\ ~FinishMayRaise /\ PatientRetry
      /\ \A b \in Api : b = a
      /\ DOMAIN api = Api
  BY DEF OneClient, TypeOK, ApiMoves
<1>1. UNCHANGED <<jobVars, lost>> /\ proc[a].pc = "idle" /\ sched[a].pc = "idle"
  BY <1>0, StartDoes DEF Free
<1>2. api[a] = "none" /\ ~Owed /\ JobStatus' = JobStatus /\ sched'[a].pc = "idle"
  BY <1>0, <1>1, FreeOwesNothing DEF AgreeInv, jobVars, JobStatus
<1>3. CASE StartSubmit(a)
  <2>1. /\ task.status = "absent" /\ task'.status = "queued" /\ proc'[a].pc = "returned"
        /\ api'[a] = "dispatch"
    BY <1>0, <1>3, StartDoes
  <2>2. HandlerInv'
    BY <1>0, <1>2, <2>1 DEF HandlerInv
  <2>3. OutcomeInv'
    <3>1. \A w \in Worker : worker'[w] = worker[w] /\ proc'[w] = proc[w]
      BY <1>0, ApiDoes, ExecutionAssumption DEF OthersStay, S!Proc
    <3>. QED  BY <2>1, <3>1 DEF AgreeInv, OutcomeInv, Ended
  <2>4. (lost \/ Owed \/ Matched)'
    <3>1. CASE lost
      BY <1>1, <3>1
    <3>2. CASE Matched
      <4>1. JobStatus \in {"absent", "queued", "running"}
        BY <2>1, <3>2 DEF Matched
      <4>. QED  BY <1>2, <2>1, <4>1 DEF Owed, Matched
    <3>. QED  BY <1>2, <3>1, <3>2 DEF AgreeInv
  <2>. QED  BY <2>2, <2>3, <2>4
<1>4. CASE StartRetry(a)
  <2>1. /\ task' = task /\ proc'[a].pc \in {"retry", "raised"} /\ api'[a] = "restart"
        /\ JobStatus \in Q!Settled
    BY <1>0, <1>4, StartDoes
  <2>2. HandlerInv'
    BY <1>0, <1>2, <2>1 DEF HandlerInv
  <2>3. OutcomeInv'
    BY <1>0, <2>1, ApiKeepsOutcome DEF AgreeInv
  <2>4. (lost \/ Owed \/ Matched)'
    BY <1>1, <1>2, <2>1 DEF AgreeInv, Matched
  <2>. QED  BY <2>2, <2>3, <2>4
<1>5. CASE StartOther(a)
  <2>1. task' = task /\ api' = api /\ proc'[a].pc \in {"returned", "cancel", "approve"}
    BY <1>0, <1>5, StartDoes
  <2>2. HandlerInv'
    BY <1>0, <1>2, <2>1 DEF HandlerInv
  <2>3. OutcomeInv'
    BY <1>0, <2>1, ApiKeepsOutcome DEF AgreeInv
  <2>4. (lost \/ Owed \/ Matched)'
    BY <1>1, <1>2, <2>1 DEF AgreeInv, Matched
  <2>. QED  BY <2>2, <2>3, <2>4
<1>. QED  BY <1>3, <1>4, <1>5

LEMMA RunAgrees ==
    ASSUME OneClient, TypeOK, Q!ExclusiveInv, AgreeInv, NEW a \in Api, Run(a)
    PROVE  HandlerInv' /\ OutcomeInv' /\ (lost \/ Owed \/ Matched)'
<1>0. /\ S!TypeOK /\ Q!TypeOK /\ ApiMoves(a) /\ ~FinishMayRaise
      /\ \A b \in Api : b = a
  BY DEF OneClient, TypeOK, ApiMoves
<1>1. /\ UNCHANGED <<taskVars, api, lost>> /\ proc[a].pc = "idle" /\ sched[a].pc = "idle"
      /\ Q!ScheduleInsert(a, TheJob, FALSE)
  BY DEF Run, Free
<1>2. api[a] = "none" /\ ~Owed
  BY <1>0, <1>1, FreeOwesNothing DEF AgreeInv
<1>3. JobStatus' = IF JobStatus = "absent" THEN "queued" ELSE JobStatus
  BY <1>0, <1>1, InsertDoes
<1>4. HandlerInv'
  BY <1>0, <1>1, <1>2 DEF HandlerInv, taskVars
<1>5. OutcomeInv'
  BY <1>0, <1>1, ApiKeepsOutcome DEF AgreeInv, taskVars
<1>6. (lost \/ Owed \/ Matched)'
  BY <1>1, <1>2, <1>3 DEF AgreeInv, Matched, taskVars
<1>. QED  BY <1>4, <1>5, <1>6

LEMMA ServiceAgrees ==
    ASSUME OneClient, TypeOK, Q!ExclusiveInv, AgreeInv, NEW a \in Api, ServiceStep(a)
    PROVE  HandlerInv' /\ OutcomeInv' /\ (lost \/ Owed \/ Matched)'
<1>0. /\ S!TypeOK /\ ApiMoves(a) /\ ~FinishMayRaise /\ ~AuditMayFail /\ ~DbMayFail
      /\ \A b \in Api : b = a
  BY DEF OneClient, TypeOK, ApiMoves, ApiStep
<1>1. /\ UNCHANGED <<jobVars, api, lost>> /\ proc'[a].pc = "returned"
      /\ \/ proc[a].pc \in {"approve", "cancel"} /\ task'.status \in {task.status} \cup Ended
         \/ proc[a].pc = "retry" /\ task'.status = "queued"
  BY <1>0, CallDoes DEF AgreeInv
<1>2. JobStatus' = JobStatus /\ sched' = sched /\ api' = api /\ lost' = lost
  BY <1>1 DEF jobVars, JobStatus
<1>3. sched[a].pc = "idle"
  BY <1>1 DEF AgreeInv, HandlerInv
<1>4. CASE proc[a].pc \in {"approve", "cancel"} /\ task'.status \in {task.status} \cup Ended
  <2>1. api[a] = "none" /\ ~Owed
    BY <1>0, <1>3, <1>4, FreeOwesNothing DEF AgreeInv
  <2>2. HandlerInv'
    BY <1>0, <1>1, <1>2, <1>3, <2>1 DEF HandlerInv
  <2>3. OutcomeInv'
    BY <1>0, <1>4, ApiKeepsOutcome DEF AgreeInv
  <2>4. (lost \/ Owed \/ Matched)'
    BY <1>2, <1>4, <2>1 DEF AgreeInv, Matched, Ended
  <2>. QED  BY <2>2, <2>3, <2>4
<1>5. CASE proc[a].pc = "retry" /\ task'.status = "queued"
  <2>1. api[a] = "restart" /\ JobStatus \in Q!Settled
    BY <1>5 DEF AgreeInv, HandlerInv
  <2>2. HandlerInv'
    BY <1>0, <1>1, <1>2, <1>3, <2>1 DEF HandlerInv
  <2>3. OutcomeInv'
    BY <1>0, <2>1, ApiKeepsOutcome DEF AgreeInv, Q!Settled
  <2>4. Owed'
    BY <1>1, <1>2, <2>1 DEF Owed
  <2>. QED  BY <2>2, <2>3, <2>4
<1>. QED  BY <1>1, <1>4, <1>5

LEMMA AfterAgrees ==
    ASSUME OneClient, TypeOK, Q!ExclusiveInv, AgreeInv, NEW a \in Api, AfterService(a)
    PROVE  HandlerInv' /\ OutcomeInv' /\ (lost \/ Owed \/ Matched)'
<1>0. /\ S!TypeOK /\ Q!TypeOK /\ ApiMoves(a) /\ ~FinishMayRaise
      /\ \A b \in Api : b = a
      /\ a \in S!Proc /\ DOMAIN api = Api /\ api[a] \in {"none", "dispatch", "restart"}
  BY DEF OneClient, TypeOK, ApiMoves, ApiStep, S!Proc
<1>1. /\ proc'[a].pc = "idle" /\ api'[a] = "none" /\ lost' = lost /\ task' = task
      /\ proc[a].pc \in {"returned", "raised"}
  BY <1>0, ProcLeaves DEF AfterService, S!Done
<1>2. HandlerInv'
  BY <1>0, <1>1 DEF HandlerInv
<1>3. OutcomeInv'
  BY <1>0, <1>1, ApiKeepsOutcome DEF AgreeInv
<1>4. sched[a].pc = "idle"
  BY <1>1 DEF AgreeInv, HandlerInv
<1>5. CASE proc[a].pc = "returned" /\ api[a] # "none"
  <2>1. Q!ScheduleInsert(a, TheJob, api[a] = "restart")
    BY <1>5 DEF AfterService
  <2>2. /\ sched'[a].pc = "inserted" /\ sched'[a].restart = (api[a] = "restart")
        /\ sched'[a].created = (JobStatus = "absent")
        /\ JobStatus' = IF JobStatus = "absent" THEN "queued" ELSE JobStatus
    BY <1>0, <2>1, InsertDoes
  <2>3. CASE api[a] = "restart"
    <3>1. JobStatus \in Q!Settled
      BY <2>3 DEF AgreeInv, HandlerInv
    <3>. QED  BY <1>2, <1>3, <2>2, <2>3, <3>1 DEF Owed, Q!Settled
  <2>4. CASE api[a] = "dispatch"
    <3>1. lost \/ JobStatus = "absent" \/ Matched
      BY <1>0, <1>4, <2>4 DEF AgreeInv, Owed
    <3>. QED  BY <1>1, <1>2, <1>3, <2>2, <3>1 DEF Matched
  <2>. QED  BY <1>0, <1>5, <2>3, <2>4
<1>6. CASE ~(proc[a].pc = "returned" /\ api[a] # "none")
  <2>1. UNCHANGED jobVars
    BY <1>6 DEF AfterService
  <2>2. ~Owed
    BY <1>0, <1>4, <1>6 DEF Owed, AgreeInv, HandlerInv
  <2>. QED  BY <1>1, <1>2, <1>3, <2>1, <2>2 DEF AgreeInv, Matched, JobStatus, jobVars
<1>. QED  BY <1>5, <1>6

LEMMA ScheduleAgrees ==
    ASSUME OneClient, TypeOK, Q!ExclusiveInv, AgreeInv, NEW a \in Api, ScheduleStep(a)
    PROVE  HandlerInv' /\ OutcomeInv' /\ (lost \/ Owed \/ Matched)'
<1>0. /\ S!TypeOK /\ Q!TypeOK /\ ApiMoves(a) /\ ~FinishMayRaise
      /\ \A b \in Api : b = a
      /\ UNCHANGED <<task, proc, api, lost>>
  BY DEF OneClient, TypeOK, ApiMoves, ApiStep, ScheduleStep, taskVars
<1>1. sched[a].pc # "idle" /\ proc[a].pc = "idle"
  BY
    DEF ScheduleStep, Q!SchedulerStep, Q!ScheduleDecide, Q!ScheduleRequeue, AgreeInv, HandlerInv
<1>2. api[a] = "none"
  BY <1>0, <1>1, FreeOwesNothing DEF AgreeInv
<1>3. HandlerInv'
  BY <1>0, <1>1, <1>2 DEF AgreeInv, HandlerInv
<1>4. OutcomeInv'
  BY <1>0, ApiKeepsOutcome DEF AgreeInv
<1>5. CASE Q!ScheduleDecide(a)
  <2>1. JobStatus' = JobStatus /\ sched[a].job = TheJob
    BY <1>0, <1>5 DEF Q!ScheduleDecide, Q!TypeOK, JobStatus
  <2>2. CASE sched[a].restart /\ ~sched[a].created /\ JobStatus \in Q!Settled
    <3>1. sched'[a].pc = "requeue"
      BY <1>0, <1>5, <2>1, <2>2 DEF Q!ScheduleDecide, Q!TypeOK, JobStatus
    <3>. QED  BY <1>3, <1>4, <3>1 DEF Owed
  <2>3. CASE ~(sched[a].restart /\ ~sched[a].created /\ JobStatus \in Q!Settled)
    <3>1. ~Owed
      BY <1>0, <1>2, <1>5, <2>3 DEF Owed, Q!ScheduleDecide
    <3>. QED  BY <1>0, <1>3, <1>4, <2>1, <3>1 DEF AgreeInv, Matched
  <2>. QED  BY <2>2, <2>3
<1>6. CASE Q!ScheduleRequeue(a)
  <2>1. sched[a].job = TheJob
    BY <1>0, <1>6 DEF Q!ScheduleRequeue, Q!TypeOK
  <2>2. JobStatus' = "queued"
    BY <1>0, <1>6, <2>1
       DEF Q!ScheduleRequeue, Q!requeue, Q!Write, Q!QueuedRow, Q!AbsentRow, Q!TypeOK, JobStatus
  <2>. QED  BY <1>3, <1>4, <2>2 DEF Matched
<1>. QED  BY <1>5, <1>6 DEF ScheduleStep, Q!SchedulerStep

LEMMA ApiCrashAgrees ==
    ASSUME OneClient, TypeOK, Q!ExclusiveInv, AgreeInv, NEW a \in Api, ApiCrash(a)
    PROVE  HandlerInv' /\ OutcomeInv' /\ (lost \/ Owed \/ Matched)'
<1>0. /\ S!TypeOK /\ Q!TypeOK /\ ApiMoves(a) /\ ~FinishMayRaise
      /\ \A b \in Api : b = a
      /\ a \in S!Proc /\ DOMAIN api = Api
  BY DEF OneClient, TypeOK, ApiMoves, S!Proc
<1>1. proc'[a].pc = "idle" /\ task' = task
  BY <1>0, ProcLeaves DEF ApiCrash, taskVars
<1>2. /\ api'[a] = "none" /\ lost' = (lost \/ api[a] # "none" \/ sched[a].pc # "idle")
      /\ jobs' = jobs
  BY <1>0 DEF ApiCrash, Q!ScheduleCrash, jobVars
<1>3. HandlerInv'
  BY <1>0, <1>1, <1>2 DEF HandlerInv
<1>4. OutcomeInv'
  BY <1>0, <1>1, ApiKeepsOutcome DEF AgreeInv
<1>5. CASE api[a] = "none" /\ sched[a].pc = "idle"
  <2>1. ~Owed
    BY <1>0, <1>5 DEF Owed
  <2>. QED  BY <1>1, <1>2, <1>3, <1>4, <2>1 DEF AgreeInv, Matched, JobStatus
<1>. QED  BY <1>2, <1>3, <1>4, <1>5

\* A worker moves; what it does to the job, and what the task is by then.
LEMMA WorkerAgrees ==
    ASSUME OneClient, AgreeInv, UNCHANGED <<sched, api, lost>>,
           \A a \in Api : proc'[a] = proc[a],
           \/ JobStatus' = JobStatus /\ task' = task
           \/ JobStatus = "running" /\ JobStatus' \in {"running", "queued"}
           \/ JobStatus = "queued" /\ JobStatus' = "running"
           \/ /\ JobStatus = "running" /\ JobStatus' = "succeeded"
              /\ task' = task /\ task.status \in Ended
           \/ /\ JobStatus = "running" /\ JobStatus' = "failed"
              /\ task' = task /\ task.status \in Ended \cup {"failed"}
    PROVE  HandlerInv' /\ (lost \/ Owed \/ Matched)'
<1>1. JobStatus \in Q!Settled => JobStatus' \in Q!Settled
  BY DEF Q!Settled
<1>2. HandlerInv'
  BY <1>1 DEF AgreeInv, HandlerInv
<1>3. CASE lost
  BY <1>2, <1>3
<1>4. CASE Owed
  BY <1>1, <1>2, <1>4 DEF Owed
<1>5. CASE Matched
  <2>1. Matched'
    BY <1>5 DEF Matched, Ended, Q!Settled
  <2>. QED  BY <1>2, <2>1
<1>. QED  BY <1>3, <1>4, <1>5 DEF AgreeInv

LEMMA QueueAgrees ==
    ASSUME OneClient, TypeOK, Q!ExclusiveInv, AgreeInv, NEW w \in Worker, QueueStep(w)
    PROVE  HandlerInv' /\ OutcomeInv' /\ (lost \/ Owed \/ Matched)'
<1>0. Q!TypeOK /\ ~FinishMayRaise
  BY DEF OneClient, TypeOK
<1>1. /\ UNCHANGED <<task, proc, sched, api, lost>>
      /\ \A v \in Worker \ {w} : worker'[v] = worker[v]
      /\ worker'[w].pc \in {"idle", "recovered", "executing", "closing"}
      /\ worker[w].pc # "executing"
  BY <1>0, QueueDoes DEF taskVars
<1>2. OutcomeInv'
  BY <1>1 DEF AgreeInv, OutcomeInv
<1>3. worker[w].pc \in {"finishing", "failing"} => worker[w].job = TheJob /\ JobStatus = "running"
  BY <1>0, HolderRuns DEF Q!TypeOK
<1>4. CASE Q!Recover(w)
  <2>1. \/ JobStatus' = JobStatus
        \/ JobStatus = "running" /\ JobStatus' = "queued"
    BY <1>4 DEF Q!Recover, Q!requeue_stale, Q!Stale, Q!QueuedRow, Q!AbsentRow, JobStatus
  <2>. QED  BY <1>1, <1>2, <2>1, WorkerAgrees
<1>5. CASE Q!Claim(w)
  <2>1. \/ JobStatus' = JobStatus
        \/ JobStatus = "queued" /\ JobStatus' = "running"
    <3>1. CASE \E j \in {TheJob} : Q!claim(w, j)
      <4>1. jobs[TheJob] \in Q!Row /\ DOMAIN jobs = {TheJob}
        BY <1>0 DEF Q!TypeOK
      <4>2. /\ jobs[TheJob].status = "queued"
            /\ jobs' = [jobs EXCEPT ![TheJob] =
                           [jobs[TheJob] EXCEPT !.status = "running", !.worker = w]]
        BY <3>1 DEF Q!claim, Q!Write
      <4>3. [jobs[TheJob] EXCEPT !.status = "running", !.worker = w].status = "running"
        BY <4>1 DEF Q!Row
      <4>. QED  BY <4>1, <4>2, <4>3 DEF JobStatus
    <3>2. CASE UNCHANGED Q!queueVars
      BY <3>2 DEF Q!queueVars, JobStatus
    <3>. QED  BY <1>5, <3>1, <3>2 DEF Q!Claim
  <2>. QED  BY <1>1, <1>2, <2>1, WorkerAgrees
<1>6. CASE Q!Finish(w)
  <2>1. worker[w].pc = "finishing" /\ JobStatus' = "succeeded"
    BY <1>0, <1>3, <1>6 DEF Q!Finish, Q!finish, Q!Write, Q!TypeOK, Q!Row, JobStatus
  <2>2. task.status \in Ended
    BY <2>1 DEF AgreeInv, OutcomeInv
  <2>. QED  BY <1>1, <1>2, <1>3, <2>1, <2>2, WorkerAgrees
<1>7. CASE Q!Close(w)
  <2>1. JobStatus' = JobStatus
    BY <1>7 DEF Q!Close, JobStatus
  <2>. QED  BY <1>1, <1>2, <2>1, WorkerAgrees
<1>8. CASE Q!Fail(w)
  <2>1. worker[w].pc = "failing" /\ JobStatus' = "failed"
    BY <1>0, <1>3, <1>8 DEF Q!Fail, Q!fail, Q!Write, Q!TypeOK, Q!Row, JobStatus
  <2>2. task.status \in Ended \cup {"failed"}
    BY <2>1 DEF AgreeInv, OutcomeInv
  <2>. QED  BY <1>1, <1>2, <1>3, <2>1, <2>2, WorkerAgrees
<1>. QED  BY <1>4, <1>5, <1>6, <1>7, <1>8 DEF QueueStep

\* Only one worker is past its claim.
LEMMA OneHolds ==
    ASSUME Q!ExclusiveInv, ~FinishMayRaise, NEW v \in Worker, NEW w \in Worker,
           worker[v].pc \in {"executing", "finishing", "failing"},
           worker[w].pc \in {"executing", "finishing", "failing"}
    PROVE  v = w
  BY HolderRuns

LEMMA RunStepAgrees ==
    ASSUME OneClient, TypeOK, Q!ExclusiveInv, AgreeInv, NEW w \in Worker, RunStep(w)
    PROVE  HandlerInv' /\ OutcomeInv' /\ (lost \/ Owed \/ Matched)'
<1>0. /\ S!TypeOK /\ ~FinishMayRaise /\ ~AuditMayFail /\ ~DbMayFail
      /\ Worker \cap Api = {} /\ S!Proc = Worker \cup Api
  BY ExecutionAssumption DEF OneClient, TypeOK, S!Proc
<1>1. /\ worker[w].pc = "executing" /\ UNCHANGED <<jobVars, api, lost>> /\ OthersStay(w)
      /\ \/ proc'[w].pc \in {"run_start", "run_scan", "run_produce"}
         \/ proc'[w].pc = "returned" /\ task'.status \in Ended
         \/ proc'[w].pc = "raised" /\ task'.status \in Ended \cup {"failed"}
  BY <1>0, RunDoes
<1>2. JobStatus = "running" /\ JobStatus' = "running" /\ sched' = sched /\ worker' = worker
  BY <1>0, <1>1, HolderRuns DEF jobVars, JobStatus
<1>3. ASSUME NEW v \in Worker, v # w
      PROVE  worker[v].pc \notin {"finishing", "failing"} /\ proc'[v].pc = "idle"
  <2>1. worker[v].pc \notin {"executing", "finishing", "failing"}
    BY <1>0, <1>1, <1>3, OneHolds
  <2>2. proc'[v] = proc[v]
    BY <1>0, <1>1, <1>3 DEF OthersStay
  <2>. QED  BY <2>1, <2>2 DEF AgreeInv, RunsClaimed
<1>4. OutcomeInv'
  BY <1>1, <1>2, <1>3 DEF OutcomeInv
<1>5. \A a \in Api : proc'[a] = proc[a]
  BY <1>0, <1>1 DEF OthersStay
<1>. QED  BY <1>1, <1>2, <1>4, <1>5, WorkerAgrees

LEMMA WorkerLeaves ==
    ASSUME OneClient, TypeOK, AgreeInv, NEW w \in Worker, RunOver(w) \/ WorkerCrash(w)
    PROVE  HandlerInv' /\ OutcomeInv' /\ (lost \/ Owed \/ Matched)'
<1>0. /\ S!TypeOK /\ Q!TypeOK /\ Worker \cap Api = {} /\ S!Proc = Worker \cup Api
  BY ExecutionAssumption DEF TypeOK, S!Proc
<1>1. /\ UNCHANGED <<task, jobs, sched, api, lost>> /\ OthersStay(w) /\ proc'[w].pc = "idle"
      /\ \A v \in Worker \ {w} : worker'[v] = worker[v]
  BY <1>0, OverDoes, WorkerCrashDoes
<1>2. \/ worker'[w].pc = "idle"
      \/ proc[w].pc = "returned" /\ worker'[w].pc = "finishing"
      \/ proc[w].pc = "raised" /\ worker'[w].pc = "failing"
  BY <1>0, OverDoes, WorkerCrashDoes
<1>3. \A v \in Worker \ {w} : proc'[v] = proc[v]
  BY <1>0, <1>1 DEF OthersStay
<1>4. OutcomeInv'
  BY <1>1, <1>2, <1>3 DEF AgreeInv, OutcomeInv
<1>5. \A a \in Api : proc'[a] = proc[a]
  BY <1>0, <1>1 DEF OthersStay
<1>6. JobStatus' = JobStatus
  BY <1>1 DEF JobStatus
<1>. QED  BY <1>1, <1>4, <1>5, <1>6, WorkerAgrees

LEMMA AgreeKept ==
    ASSUME OneClient, TypeOK, Q!ExclusiveInv, AgreeInv, [Next]_vars
    PROVE  AgreeInv'
<1>0. RunsClaimed'
  BY RunsClaimedKept DEF TypeOK, AgreeInv
<1>1. CASE UNCHANGED <<task, proc, jobs, worker, sched, api, lost>>
  <2>1. HandlerInv' /\ OutcomeInv' /\ (lost \/ Owed \/ Matched)'
    BY <1>1 DEF AgreeInv, HandlerInv, OutcomeInv, Owed, Matched, JobStatus
  <2>. QED  BY <1>0, <2>1 DEF AgreeInv
<1>2. ASSUME NEW a \in Api, ApiMoves(a)
      PROVE  HandlerInv' /\ OutcomeInv' /\ (lost \/ Owed \/ Matched)'
  BY <1>2, StartAgrees, RunAgrees, ServiceAgrees, AfterAgrees, ScheduleAgrees, ApiCrashAgrees
     DEF ApiMoves, ApiStep
<1>3. ASSUME NEW w \in Worker, QueueStep(w) \/ RunStep(w) \/ RunOver(w) \/ WorkerCrash(w)
      PROVE  HandlerInv' /\ OutcomeInv' /\ (lost \/ Owed \/ Matched)'
  BY <1>3, QueueAgrees, RunStepAgrees, WorkerLeaves
<1>. QED  BY <1>0, <1>1, <1>2, <1>3, Steps DEF AgreeInv, vars, taskVars, jobVars

\* Between requests a task that waits or runs has a job that does, and a job that
\* succeeded left no task unfinished, for any number of workers that die, as long as no
\* API process died before it had scheduled what it was to schedule; where OneClient holds.
THEOREM TablesInStep == OneClient /\ Spec => []TablesAgree
<1>. SUFFICES ASSUME OneClient
              PROVE  Spec => []TablesAgree
  OBVIOUS
<1>1. Q!SafeRestarts
  BY DEF OneClient, Q!SafeRestarts
<1>2. Init => AgreeInv
  <2> SUFFICES ASSUME Init
               PROVE  AgreeInv
    OBVIOUS
  <2>1. /\ task.status = "absent" /\ JobStatus = "absent"
        /\ \A p \in S!Proc : proc[p].pc = "idle"
        /\ \A w \in Worker : worker[w].pc = "idle" /\ proc[w].pc = "idle"
        /\ \A a \in Api : sched[a].pc = "idle" /\ api[a] = "none" /\ proc[a].pc = "idle"
    BY DEF Init, S!Init, S!Idle, S!NoTask, S!Proc, Q!Init, Q!AbsentRow, Q!IdleWorker,
           Q!IdleSched, JobStatus
  <2>. QED  BY <2>1 DEF AgreeInv, RunsClaimed, HandlerInv, OutcomeInv, Matched
<1>3. TypeOK /\ Q!ExclusiveInv /\ AgreeInv /\ [Next]_vars => AgreeInv'
  BY AgreeKept
<1>4. AgreeInv => TablesAgree
  <2> SUFFICES ASSUME AgreeInv, Quiet, ~lost
               PROVE  /\ task.status \in {"queued", "running"} => JobStatus \in {"queued", "running"}
                      /\ JobStatus = "succeeded" => task.status \notin {"queued", "running", "failed"}
    BY DEF TablesAgree, JobStatus
  <2>1. ~Owed
    BY DEF AgreeInv, HandlerInv, Quiet, Free, Owed
  <2>. QED  BY <2>1 DEF AgreeInv, Matched, Q!Settled
<1>. QED  BY <1>1, <1>2, <1>3, <1>4, TypeCorrect, ClaimsHold, PTL DEF Spec
============================================================================
