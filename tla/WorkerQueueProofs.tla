------------------------- MODULE WorkerQueueProofs -------------------------
(***************************************************************************)
(* What WorkerQueue promises for every set of jobs, workers and schedulers *)
(* and every stale limit.                                                  *)
(***************************************************************************)
EXTENDS WorkerQueue, FiniteSetTheorems, TLAPS

\* The number of rows in the table is a natural number, so created_at is one.
LEMMA PresentCount == Cardinality(Present) \in Nat
<1>1. IsFiniteSet(Job)
  BY QueueAssumption
<1>2. Present \subseteq Job
  BY DEF Present
<1>. QED  BY <1>1, <1>2, FS_Subset, FS_CardinalityType

\* The methods of the queue keep the three columns well typed.
LEMMA WriteType ==
    ASSUME TypeOK, NEW j \in Job, NEW row \in Row, Write(j, row)
    PROVE  /\ jobs' \in [Job -> Row]
           /\ age' \in [Job -> 0 .. StaleAfter + 1]
  BY QueueAssumption DEF TypeOK, Write

LEMMA EnqueueType ==
    ASSUME TypeOK, NEW j \in Job, enqueue(j)
    PROVE  /\ jobs' \in [Job -> Row]
           /\ created' \in [Job -> Nat]
           /\ age' \in [Job -> 0 .. StaleAfter + 1]
<1>1. QueuedRow \in Row
  BY DEF QueuedRow, AbsentRow, Row, JobStatus
<1>2. created' \in [Job -> Nat]
  BY PresentCount DEF enqueue, TypeOK
<1>. QED  BY <1>1, <1>2, WriteType DEF enqueue

LEMMA RowColumns ==
    ASSUME TypeOK, NEW j \in Job
    PROVE  /\ QueuedRow \in Row
           /\ \A w \in Worker : [jobs[j] EXCEPT !.status = "running", !.worker = w] \in Row
           /\ [jobs[j] EXCEPT !.status = "succeeded", !.result = TRUE, !.error = FALSE] \in Row
           /\ [jobs[j] EXCEPT !.status = "failed", !.error = TRUE] \in Row
<1>1. jobs[j] \in Row
  BY DEF TypeOK
<1>2. QueuedRow \in Row
  BY DEF QueuedRow, AbsentRow, Row, JobStatus
<1>3. ASSUME NEW w \in Worker
      PROVE  [jobs[j] EXCEPT !.status = "running", !.worker = w] \in Row
  BY <1>1 DEF Row, JobStatus
<1>4. [jobs[j] EXCEPT !.status = "succeeded", !.result = TRUE, !.error = FALSE] \in Row
  BY <1>1 DEF Row, JobStatus, Settled
<1>5. [jobs[j] EXCEPT !.status = "failed", !.error = TRUE] \in Row
  BY <1>1 DEF Row, JobStatus, Settled
<1>. QED  BY <1>2, <1>3, <1>4, <1>5

\* Type correctness of the queue, its workers and its schedulers.
THEOREM TypeCorrect == Spec => []TypeOK
<1>1. Init => TypeOK
  BY QueueAssumption
     DEF Init, TypeOK, AbsentRow, Row, JobStatus, IdleWorker, IdleSched, WorkerPC
<1>2. TypeOK /\ [Next]_vars => TypeOK'
  <2> SUFFICES ASSUME TypeOK, [Next]_vars
               PROVE  TypeOK'
    OBVIOUS
  <2>1. ASSUME NEW s \in Scheduler, NEW j \in Job, NEW r \in Restarts, ScheduleInsert(s, j, r)
        PROVE  TypeOK'
    <3>1. r \in BOOLEAN
      BY QueueAssumption
    <3>2. /\ jobs' \in [Job -> Row]
          /\ created' \in [Job -> Nat]
          /\ age' \in [Job -> 0 .. StaleAfter + 1]
      BY <2>1, EnqueueType DEF ScheduleInsert, enqueue_idempotent, queueVars, TypeOK
    <3>. QED  BY <2>1, <3>1, <3>2 DEF ScheduleInsert, TypeOK
  <2>2. ASSUME NEW s \in Scheduler, ScheduleDecide(s)
        PROVE  TypeOK'
    BY <2>2 DEF ScheduleDecide, TypeOK, IdleSched
  <2>14. ASSUME NEW s \in Scheduler, ScheduleCrash(s)
         PROVE  TypeOK'
    BY <2>14 DEF ScheduleCrash, TypeOK, IdleSched
  <2>3. ASSUME NEW s \in Scheduler, ScheduleRequeue(s)
        PROVE  TypeOK'
    <3>1. sched[s].job \in Job
      BY <2>3 DEF ScheduleRequeue, TypeOK
    <3>2. jobs' \in [Job -> Row] /\ age' \in [Job -> 0 .. StaleAfter + 1]
      BY <2>3, <3>1, WriteType, RowColumns DEF ScheduleRequeue, requeue
    <3>. QED  BY <2>3, <3>2 DEF ScheduleRequeue, requeue, TypeOK, IdleSched
  <2>4. ASSUME NEW j \in Job, Enqueue(j)
        PROVE  TypeOK'
    BY <2>4, EnqueueType DEF Enqueue, TypeOK
  <2>5. ASSUME NEW w \in Worker, Recover(w)
        PROVE  TypeOK'
    <3>1. QueuedRow \in Row
      BY DEF QueuedRow, AbsentRow, Row, JobStatus
    <3>2. jobs' \in [Job -> Row]
      BY <2>5, <3>1 DEF Recover, requeue_stale, TypeOK
    <3>3. age' \in [Job -> 0 .. StaleAfter + 1]
      BY <2>5, QueueAssumption DEF Recover, requeue_stale, TypeOK
    <3>. QED  BY <2>5, <3>2, <3>3 DEF Recover, requeue_stale, TypeOK, WorkerPC
  <2>6. ASSUME NEW w \in Worker, Claim(w)
        PROVE  TypeOK'
    <3>1. CASE \E j \in Job : /\ claim(w, j)
                              /\ worker' = [worker EXCEPT ![w] = [pc |-> "executing", job |-> j]]
      <4>1. PICK j \in Job : /\ claim(w, j)
                             /\ worker' = [worker EXCEPT ![w] = [pc |-> "executing", job |-> j]]
        BY <3>1
      <4>2. jobs' \in [Job -> Row] /\ age' \in [Job -> 0 .. StaleAfter + 1]
        BY <4>1, WriteType, RowColumns DEF claim
      <4>. QED  BY <2>6, <4>1, <4>2 DEF Claim, claim, TypeOK, WorkerPC
    <3>2. CASE worker' = [worker EXCEPT ![w] = IdleWorker] /\ UNCHANGED queueVars
      BY <2>6, <3>2 DEF Claim, TypeOK, IdleWorker, WorkerPC, queueVars
    <3>. QED  BY <2>6, <3>1, <3>2 DEF Claim
  <2>7. ASSUME NEW w \in Worker, Handle(w)
        PROVE  TypeOK'
    BY <2>7 DEF Handle, TypeOK, WorkerPC
  <2>8. ASSUME NEW w \in Worker, Finish(w)
        PROVE  TypeOK'
    <3>1. worker[w].job \in Job
      BY <2>8 DEF Finish, TypeOK
    <3>2. jobs' \in [Job -> Row] /\ age' \in [Job -> 0 .. StaleAfter + 1]
      BY <2>8, <3>1, WriteType, RowColumns DEF Finish, finish
    <3>. QED  BY <2>8, <3>2 DEF Finish, finish, TypeOK, WorkerPC
  <2>9. ASSUME NEW w \in Worker, Close(w)
        PROVE  TypeOK'
    BY <2>9 DEF Close, TypeOK, WorkerPC, IdleWorker
  <2>10. ASSUME NEW w \in Worker, Fail(w)
         PROVE  TypeOK'
    <3>1. worker[w].job \in Job
      BY <2>10 DEF Fail, TypeOK
    <3>2. jobs' \in [Job -> Row] /\ age' \in [Job -> 0 .. StaleAfter + 1]
      BY <2>10, <3>1, WriteType, RowColumns DEF Fail, fail
    <3>. QED  BY <2>10, <3>2 DEF Fail, fail, TypeOK, WorkerPC, IdleWorker
  <2>11. ASSUME NEW w \in Worker, Crash(w)
         PROVE  TypeOK'
    BY <2>11 DEF Crash, TypeOK, WorkerPC, IdleWorker
  <2>12. CASE Tick
    <3>1. age' \in [Job -> 0 .. StaleAfter + 1]
      BY <2>12, QueueAssumption DEF Tick, TypeOK
    <3>. QED  BY <2>12, <3>1 DEF Tick, TypeOK
  <2>13. CASE UNCHANGED vars
    BY <2>13 DEF vars, TypeOK
  <2>. QED  BY <2>1, <2>2, <2>14, <2>3, <2>4, <2>5, <2>6, <2>7, <2>8, <2>9, <2>10, <2>11,
               <2>12, <2>13 DEF Next, WorkerStep, SchedulerStep
<1>. QED  BY <1>1, <1>2, PTL DEF Spec

----------------------------------------------------------------------------
(* RowConsistent is inductive together with TypeOK: every method of the    *)
(* queue writes the status and the columns that go with it.                *)

\* A row that is written keeps the promise of its status, for every method.
LEMMA WriteConsistent ==
    ASSUME TypeOK, RowConsistent, NEW j \in Job, NEW row,
           jobs' = [jobs EXCEPT ![j] = row],
           row.status \in {"queued", "running"} => ~row.error /\ ~row.result,
           row.status = "queued" => row.worker = None,
           row.status = "running" => row.worker \in Worker,
           row.status = "succeeded" => row.result /\ ~row.error,
           row.status = "failed" => row.error
    PROVE  RowConsistent'
  BY DEF TypeOK, RowConsistent

LEMMA QueuedColumns ==
    /\ QueuedRow.status = "queued"
    /\ QueuedRow.worker = None
    /\ ~QueuedRow.error
    /\ ~QueuedRow.result
  BY DEF QueuedRow, AbsentRow

\* RowConsistent for every number of jobs, workers and schedulers.
THEOREM RowsConsistent == Spec => []RowConsistent
<1>1. Init => RowConsistent
  BY DEF Init, RowConsistent, AbsentRow
<1>2. TypeOK /\ RowConsistent /\ [Next]_vars => RowConsistent'
  <2> SUFFICES ASSUME TypeOK, RowConsistent, [Next]_vars
               PROVE  RowConsistent'
    OBVIOUS
  <2>1. ASSUME NEW j \in Job, enqueue(j)
        PROVE  RowConsistent'
    BY <2>1, WriteConsistent, QueuedColumns DEF enqueue, Write
  <2>2. ASSUME NEW j \in Job, requeue(j)
        PROVE  RowConsistent'
    BY <2>2, WriteConsistent, QueuedColumns DEF requeue, Write
  <2>3. CASE UNCHANGED jobs
    BY <2>3 DEF RowConsistent
  <2>4. ASSUME NEW s \in Scheduler, NEW j \in Job, NEW r \in Restarts, ScheduleInsert(s, j, r)
        PROVE  RowConsistent'
    BY <2>1, <2>3, <2>4 DEF ScheduleInsert, enqueue_idempotent, queueVars
  <2>5. ASSUME NEW s \in Scheduler, ScheduleRequeue(s)
        PROVE  RowConsistent'
    BY <2>2, <2>5 DEF ScheduleRequeue, TypeOK
  <2>6. ASSUME NEW w \in Worker, Recover(w)
        PROVE  RowConsistent'
    BY <2>6, QueuedColumns DEF Recover, requeue_stale, RowConsistent, TypeOK
  <2>7. ASSUME NEW w \in Worker, Claim(w)
        PROVE  RowConsistent'
    <3>1. CASE \E j \in Job : claim(w, j)
      <4>1. PICK j \in Job : claim(w, j)
        BY <3>1
      <4>2. jobs[j] \in Row /\ jobs[j].status = "queued"
        BY <4>1 DEF claim, TypeOK
      <4>. DEFINE row == [jobs[j] EXCEPT !.status = "running", !.worker = w]
      <4>3. row.status = "running" /\ row.worker = w /\ row.error = jobs[j].error
            /\ row.result = jobs[j].result
        BY <4>2 DEF Row
      <4>4. ~jobs[j].error /\ ~jobs[j].result
        BY <4>2 DEF RowConsistent
      <4>5. jobs' = [jobs EXCEPT ![j] = row]
        BY <4>1 DEF claim, Write
      <4>. HIDE DEF row
      <4>. QED  BY <4>3, <4>4, <4>5, WriteConsistent
    <3>2. CASE UNCHANGED queueVars
      BY <2>3, <3>2 DEF queueVars
    <3>. QED  BY <2>7, <3>1, <3>2 DEF Claim
  <2>8. ASSUME NEW w \in Worker, Finish(w)
        PROVE  RowConsistent'
    <3>. DEFINE j == worker[w].job
                row == [jobs[j] EXCEPT !.status = "succeeded", !.result = TRUE, !.error = FALSE]
    <3>1. j \in Job
      BY <2>8 DEF Finish, TypeOK
    <3>2. jobs[j] \in Row
      BY <3>1 DEF TypeOK
    <3>3. row.status = "succeeded" /\ row.result /\ ~row.error
      BY <3>2 DEF Row
    <3>4. jobs' = [jobs EXCEPT ![j] = row]
      BY <2>8 DEF Finish, finish, Write
    <3>. HIDE DEF j, row
    <3>. QED  BY <3>1, <3>3, <3>4, WriteConsistent
  <2>9. ASSUME NEW w \in Worker, Fail(w)
        PROVE  RowConsistent'
    <3>. DEFINE j == worker[w].job
                row == [jobs[j] EXCEPT !.status = "failed", !.error = TRUE]
    <3>1. j \in Job
      BY <2>9 DEF Fail, TypeOK
    <3>2. jobs[j] \in Row
      BY <3>1 DEF TypeOK
    <3>3. row.status = "failed" /\ row.error
      BY <3>2 DEF Row
    <3>4. jobs' = [jobs EXCEPT ![j] = row]
      BY <2>9 DEF Fail, fail, Write
    <3>. HIDE DEF j, row
    <3>. QED  BY <3>1, <3>3, <3>4, WriteConsistent
  <2>. QED  BY <2>1, <2>3, <2>4, <2>5, <2>6, <2>7, <2>8, <2>9
            DEF Next, WorkerStep, SchedulerStep, ScheduleDecide, ScheduleCrash, Enqueue, Handle, Close,
                Crash, Tick, vars
<1>. QED  BY <1>1, <1>2, TypeCorrect, PTL DEF Spec

----------------------------------------------------------------------------
(* ExclusiveExecution.  It is not inductive: it needs to know that a worker *)
(* that executes a job has a claim on the row, young enough that stale      *)
(* recovery leaves it alone, and that a restart only reaches settled rows.  *)

\* The row names w and is running, on a claim that is not stale.
Claimed(w) ==
    /\ jobs[worker[w].job].status = "running"
    /\ jobs[worker[w].job].worker = w
    /\ age[worker[w].job] <= StaleAfter

\* The row names w and is settled for good: w could not remove its workspace.
Completed(w) ==
    /\ FinishMayRaise
    /\ jobs[worker[w].job].status \in Settled
    /\ jobs[worker[w].job].worker = w

HasClaim(w) ==
    /\ worker[w].pc \in {"executing", "finishing"} => Claimed(w)
    /\ worker[w].pc = "closing" /\ FinishMayRaise => Completed(w)
    /\ worker[w].pc = "failing" => Claimed(w) \/ Completed(w)

WorkerHasClaim == \A w \in Worker : HasClaim(w)

\* What a call of schedule knows: its flag is one the callers use, and when it
\* is about to requeue, that flag is TRUE and the row was not its own insert.
ScheduleKnows ==
    \A s \in Scheduler :
        /\ sched[s].pc # "idle" => sched[s].restart \in Restarts
        /\ sched[s].pc = "requeue" => sched[s].restart /\ ~sched[s].created

\* No restart is under way for a row that is not settled.
RestartSettled ==
    \A s \in Scheduler : sched[s].pc = "requeue" => jobs[sched[s].job].status \in Settled

ExclusiveInv == TypeOK /\ ScheduleKnows /\ WorkerHasClaim /\ RestartSettled

\* What a schedule call knows is kept by every step.
LEMMA ScheduleKnowsStep ==
    ASSUME TypeOK, ScheduleKnows, [Next]_vars
    PROVE  ScheduleKnows'
<1>1. ASSUME NEW s \in Scheduler, NEW j \in Job, NEW r \in Restarts, ScheduleInsert(s, j, r)
      PROVE  ScheduleKnows'
  BY <1>1 DEF ScheduleInsert, ScheduleKnows, TypeOK
<1>2. ASSUME NEW s \in Scheduler, ScheduleDecide(s) \/ ScheduleCrash(s)
      PROVE  ScheduleKnows'
  BY <1>2 DEF ScheduleDecide, ScheduleCrash, ScheduleKnows, TypeOK, IdleSched
<1>3. ASSUME NEW s \in Scheduler, ScheduleRequeue(s)
      PROVE  ScheduleKnows'
  BY <1>3 DEF ScheduleRequeue, ScheduleKnows, TypeOK, IdleSched
<1>4. CASE UNCHANGED sched
  BY <1>4 DEF ScheduleKnows
<1>. QED  BY <1>1, <1>2, <1>3, <1>4
          DEF Next, WorkerStep, SchedulerStep, Enqueue, Recover, Claim, Handle, Finish,
              Close, Fail, Crash, Tick, vars

\* Only a scheduler's requeue takes a row out of its settled status.
LEMMA SettledStep ==
    ASSUME TypeOK, [Next]_vars,
           NEW j \in Job, jobs[j].status \in Settled, jobs'[j].status \notin Settled
    PROVE  \E s \in Scheduler : ScheduleRequeue(s) /\ sched[s].job = j
<1>1. ASSUME NEW i \in Job, enqueue(i)
      PROVE  FALSE
  BY <1>1 DEF enqueue, Write, TypeOK, Settled
<1>2. CASE UNCHANGED jobs
  BY <1>2
<1>3. ASSUME NEW s \in Scheduler, NEW i \in Job, NEW r \in Restarts, ScheduleInsert(s, i, r)
      PROVE  FALSE
  BY <1>1, <1>2, <1>3 DEF ScheduleInsert, enqueue_idempotent, queueVars
<1>4. ASSUME NEW s \in Scheduler, ScheduleRequeue(s)
      PROVE  sched[s].job = j
  BY <1>4 DEF ScheduleRequeue, requeue, Write, TypeOK
<1>5. ASSUME NEW w \in Worker, Recover(w)
      PROVE  FALSE
  BY <1>5 DEF Recover, requeue_stale, Stale, Settled, TypeOK
<1>6. ASSUME NEW w \in Worker, Claim(w)
      PROVE  FALSE
  BY <1>2, <1>6 DEF Claim, claim, Write, queueVars, TypeOK, Settled
<1>7. ASSUME NEW w \in Worker, Finish(w)
      PROVE  FALSE
  <2>1. jobs'[worker[w].job].status = "succeeded"
    BY <1>7 DEF Finish, finish, Write, TypeOK, Row
  <2>. QED  BY <1>7, <2>1 DEF Finish, finish, Write, TypeOK, Settled
<1>8. ASSUME NEW w \in Worker, Fail(w)
      PROVE  FALSE
  <2>1. jobs'[worker[w].job].status = "failed"
    BY <1>8 DEF Fail, fail, Write, TypeOK, Row
  <2>. QED  BY <1>8, <2>1 DEF Fail, fail, Write, TypeOK, Settled
<1>. QED  BY <1>1, <1>2, <1>3, <1>4, <1>5, <1>6, <1>7, <1>8
          DEF Next, WorkerStep, SchedulerStep, ScheduleDecide, ScheduleCrash, Enqueue, Handle, Close,
              Crash, Tick, vars

\* A settled job goes back to the queue only because a scheduler restarts it.
THEOREM OnlyRestarted == Spec => SettledOnlyRestarted
<1>. DEFINE A == \A j \in Job :
                    jobs[j].status \in Settled /\ jobs'[j].status \notin Settled =>
                        \E s \in Scheduler : sched[s] = [pc |-> "requeue", job |-> j,
                                                        restart |-> TRUE, created |-> FALSE]
<1>1. Init => ScheduleKnows
  BY DEF Init, ScheduleKnows, IdleSched
<1>2. TypeOK /\ ScheduleKnows /\ [Next]_vars => ScheduleKnows'
  BY ScheduleKnowsStep
<1>3. TypeOK /\ ScheduleKnows /\ [Next]_vars => [A]_vars
  <2> SUFFICES ASSUME TypeOK, ScheduleKnows, [Next]_vars,
                      NEW j \in Job, jobs[j].status \in Settled, jobs'[j].status \notin Settled
               PROVE  \E s \in Scheduler : sched[s] = [pc |-> "requeue", job |-> j,
                                                       restart |-> TRUE, created |-> FALSE]
    OBVIOUS
  <2>1. PICK s \in Scheduler : ScheduleRequeue(s) /\ sched[s].job = j
    BY SettledStep
  <2>2. sched[s].pc = "requeue" /\ sched[s].restart = TRUE /\ sched[s].created = FALSE
    BY <2>1 DEF ScheduleRequeue, ScheduleKnows, TypeOK
  <2>. QED  BY <2>1, <2>2 DEF TypeOK
<1>. QED  BY <1>1, <1>2, <1>3, TypeCorrect, PTL DEF Spec, SettledOnlyRestarted

\* The workers whose claim the invariant speaks of.
Bound(w) ==
    \/ worker[w].pc \in {"executing", "finishing", "failing"}
    \/ worker[w].pc = "closing" /\ FinishMayRaise

\* What the row of a bound worker looks like.
LEMMA BoundRow ==
    ASSUME TypeOK, NEW w \in Worker, HasClaim(w), Bound(w)
    PROVE  /\ worker[w].job \in Job
           /\ jobs[worker[w].job].worker = w
           /\ jobs[worker[w].job].status \in {"running"} \cup Settled
           /\ ~FinishMayRaise => jobs[worker[w].job].status = "running"
           /\ jobs[worker[w].job].status = "running" => age[worker[w].job] <= StaleAfter
<1>1. worker[w].job \in Job
  BY DEF Bound, TypeOK
<1>. QED  BY <1>1 DEF HasClaim, Bound, Claimed, Completed, Settled

\* A worker that does not move keeps its claim when its row is left alone.
LEMMA ClaimKept ==
    ASSUME TypeOK, NEW w \in Worker, HasClaim(w), worker'[w] = worker[w],
           Bound(w) => /\ jobs'[worker[w].job] = jobs[worker[w].job]
                       /\ age'[worker[w].job] = age[worker[w].job]
    PROVE  HasClaim(w)'
  BY DEF HasClaim, Bound, Claimed, Completed

\* A step that writes one row, and moves at most the worker w, keeps the claims
\* of all others, when the row was not theirs.
LEMMA OthersKept ==
    ASSUME TypeOK, WorkerHasClaim, NEW j \in Job, NEW row, Write(j, row),
           NEW v \in Worker, worker'[v] = worker[v], Bound(v) => worker[v].job # j
    PROVE  HasClaim(v)'
<1>1. HasClaim(v)
  BY DEF WorkerHasClaim
<1>2. Bound(v) => worker[v].job \in Job
  BY <1>1, BoundRow
<1>3. Bound(v) => /\ jobs'[worker[v].job] = jobs[worker[v].job]
                  /\ age'[worker[v].job] = age[worker[v].job]
  BY <1>2 DEF Write, TypeOK
<1>. QED  BY <1>1, <1>3, ClaimKept

\* Every step keeps the claims, where no worker overruns the stale limit and no
\* restart can reach a running row.
LEMMA WorkerHasClaimStep ==
    ASSUME Timely, SafeRestarts, ExclusiveInv, [Next]_vars
    PROVE  WorkerHasClaim'
<1>. USE DEF ExclusiveInv
<1>1. ASSUME UNCHANGED <<jobs, age, worker>>
      PROVE  WorkerHasClaim'
  BY <1>1, ClaimKept DEF WorkerHasClaim
<1>2. ASSUME NEW j \in Job, enqueue(j), UNCHANGED worker
      PROVE  WorkerHasClaim'
  <2> SUFFICES ASSUME NEW v \in Worker PROVE HasClaim(v)'
    BY DEF WorkerHasClaim
  <2>1. Bound(v) => worker[v].job # j
    BY <1>2, BoundRow DEF WorkerHasClaim, enqueue, Settled
  <2>. QED  BY <1>2, <2>1, OthersKept DEF enqueue
<1>3. ASSUME NEW s \in Scheduler, ScheduleRequeue(s)
      PROVE  WorkerHasClaim'
  <2> SUFFICES ASSUME NEW v \in Worker PROVE HasClaim(v)'
    BY DEF WorkerHasClaim
  <2>. DEFINE j == sched[s].job
  <2>1. j \in Job /\ jobs[j].status \in Settled
    BY <1>3 DEF ScheduleRequeue, RestartSettled, TypeOK
  <2>2. ~FinishMayRaise
    <3>1. sched[s].pc = "requeue"
      BY <1>3 DEF ScheduleRequeue
    <3>2. sched[s].restart = TRUE /\ sched[s].restart \in Restarts
      BY <3>1 DEF ScheduleKnows, TypeOK
    <3>. QED  BY <3>2 DEF SafeRestarts
  <2>3. Bound(v) => worker[v].job # j
    BY <2>1, <2>2, BoundRow DEF WorkerHasClaim, Settled
  <2>4. Write(j, QueuedRow) /\ worker' = worker
    BY <1>3 DEF ScheduleRequeue, requeue
  <2>. HIDE DEF j
  <2>. QED  BY <2>1, <2>3, <2>4, OthersKept
<1>4. ASSUME NEW w \in Worker, Recover(w)
      PROVE  WorkerHasClaim'
  <2> SUFFICES ASSUME NEW v \in Worker PROVE HasClaim(v)'
    BY DEF WorkerHasClaim
  <2>0. HasClaim(v)
    BY DEF WorkerHasClaim
  <2>1. CASE v = w
    BY <1>4, <2>1 DEF Recover, HasClaim, TypeOK
  <2>2. CASE v # w
    <3>1. worker'[v] = worker[v]
      BY <1>4, <2>2 DEF Recover, TypeOK
    <3>2. ASSUME Bound(v)
          PROVE  /\ jobs'[worker[v].job] = jobs[worker[v].job]
                 /\ age'[worker[v].job] = age[worker[v].job]
      <4>1. worker[v].job \in Job /\ ~Stale(worker[v].job)
        BY <2>0, <3>2, BoundRow, QueueAssumption DEF Stale, TypeOK
      <4>. QED  BY <1>4, <4>1 DEF Recover, requeue_stale
    <3>. QED  BY <2>0, <3>1, <3>2, ClaimKept
  <2>. QED  BY <2>1, <2>2
<1>5. ASSUME NEW w \in Worker, Claim(w)
      PROVE  WorkerHasClaim'
  <2> SUFFICES ASSUME NEW v \in Worker PROVE HasClaim(v)'
    BY DEF WorkerHasClaim
  <2>0. HasClaim(v)
    BY DEF WorkerHasClaim
  <2>1. CASE \E j \in Job : /\ claim(w, j)
                            /\ worker' = [worker EXCEPT ![w] = [pc |-> "executing", job |-> j]]
    <3>1. PICK j \in Job : /\ claim(w, j)
                           /\ worker' = [worker EXCEPT ![w] = [pc |-> "executing", job |-> j]]
      BY <2>1
    <3>2. CASE v = w
      <4>1. worker'[v].pc = "executing" /\ worker'[v].job = j
        BY <3>1, <3>2 DEF TypeOK
      <4>2. jobs'[j].status = "running" /\ jobs'[j].worker = v /\ age'[j] = 0
        BY <3>1, <3>2 DEF claim, Write, TypeOK, Row
      <4>. QED  BY <4>1, <4>2, QueueAssumption DEF HasClaim, Claimed
    <3>3. CASE v # w
      <4>1. worker'[v] = worker[v]
        BY <3>1, <3>3 DEF TypeOK
      <4>2. Bound(v) => worker[v].job # j
        BY <2>0, <3>1, BoundRow DEF claim, Settled
      <4>. QED  BY <3>1, <4>1, <4>2, OthersKept DEF claim
    <3>. QED  BY <3>2, <3>3
  <2>2. CASE worker' = [worker EXCEPT ![w] = IdleWorker] /\ UNCHANGED queueVars
    <3>1. CASE v = w
      BY <2>2, <3>1 DEF HasClaim, IdleWorker, TypeOK
    <3>2. CASE v # w
      BY <2>0, <2>2, <3>2, ClaimKept DEF queueVars, TypeOK
    <3>. QED  BY <3>1, <3>2
  <2>. QED  BY <1>5, <2>1, <2>2 DEF Claim
<1>6. ASSUME NEW w \in Worker, Handle(w) \/ Close(w) \/ Crash(w)
      PROVE  WorkerHasClaim'
  <2> SUFFICES ASSUME NEW v \in Worker PROVE HasClaim(v)'
    BY DEF WorkerHasClaim
  <2>0. HasClaim(v) /\ UNCHANGED <<jobs, age>>
    BY <1>6 DEF WorkerHasClaim, Handle, Close, Crash
  <2>1. CASE v = w
    BY <1>6, <2>0, <2>1
    DEF Handle, Close, Crash, IdleWorker, HasClaim, Claimed, Completed, TypeOK
  <2>2. CASE v # w
    BY <1>6, <2>0, <2>2, ClaimKept DEF Handle, Close, Crash, TypeOK
  <2>. QED  BY <2>1, <2>2
<1>7. ASSUME NEW w \in Worker, Finish(w) \/ Fail(w)
      PROVE  WorkerHasClaim'
  <2> SUFFICES ASSUME NEW v \in Worker PROVE HasClaim(v)'
    BY DEF WorkerHasClaim
  <2>. DEFINE j == worker[w].job
  <2>0. HasClaim(v) /\ HasClaim(w) /\ Bound(w)
    BY <1>7 DEF WorkerHasClaim, Finish, Fail, Bound
  <2>1. j \in Job /\ jobs[j].worker = w
    BY <2>0, BoundRow
  <2>2. PICK row : Write(j, row)
    BY <1>7 DEF Finish, Fail, finish, fail
  <2>3. CASE v # w
    <3>1. worker'[v] = worker[v]
      BY <1>7, <2>3 DEF Finish, Fail, TypeOK
    <3>2. Bound(v) => worker[v].job # j
      BY <2>0, <2>1, <2>3, BoundRow
    <3>. HIDE DEF j
    <3>. QED  BY <2>1, <2>2, <3>1, <3>2, OthersKept
  <2>4. CASE v = w /\ Finish(w)
    <3>1. worker'[v].pc = "closing" /\ worker'[v].job = j
      BY <2>4 DEF Finish, TypeOK
    <3>2. jobs'[j].status = "succeeded" /\ jobs'[j].worker = v
      BY <2>1, <2>4 DEF Finish, finish, Write, TypeOK, Row
    <3>. QED  BY <3>1, <3>2 DEF HasClaim, Completed, Settled
  <2>5. CASE v = w /\ Fail(w)
    BY <2>5 DEF Fail, IdleWorker, HasClaim, TypeOK
  <2>. QED  BY <1>7, <2>3, <2>4, <2>5
<1>8. ASSUME Tick
      PROVE  WorkerHasClaim'
  <2> SUFFICES ASSUME NEW v \in Worker PROVE HasClaim(v)'
    BY DEF WorkerHasClaim
  <2>1. HasClaim(v) /\ UNCHANGED <<jobs, worker>>
    BY <1>8 DEF WorkerHasClaim, Tick
  <2>2. worker[v].pc \in {"executing", "finishing", "failing"} =>
            worker[v].job \in Job /\ age'[worker[v].job] <= StaleAfter
    BY <1>8, QueueAssumption DEF Tick, Holding, TypeOK
  <2>. QED  BY <2>1, <2>2 DEF HasClaim, Claimed, Completed
<1>. QED  BY <1>1, <1>2, <1>3, <1>4, <1>5, <1>6, <1>7, <1>8
          DEF Next, WorkerStep, SchedulerStep, ScheduleInsert, ScheduleDecide,
              ScheduleCrash, enqueue_idempotent, Enqueue, queueVars, vars

\* With one scheduling thread, or none that restarts, a row that was settled when
\* the thread looked is settled when it requeues.
LEMMA RestartSettledStep ==
    ASSUME SafeRestarts, ExclusiveInv, [Next]_vars
    PROVE  RestartSettled'
<1>. USE DEF ExclusiveInv
<1>. SUFFICES ASSUME NEW t \in Scheduler, sched'[t].pc = "requeue"
              PROVE  jobs'[sched'[t].job].status \in Settled
  BY DEF RestartSettled
<1>1. ASSUME ScheduleDecide(t)
      PROVE  jobs'[sched'[t].job].status \in Settled
  BY <1>1 DEF ScheduleDecide, IdleSched, TypeOK
<1>2. ASSUME sched'[t] = sched[t], ~ScheduleRequeue(t)
      PROVE  jobs'[sched'[t].job].status \in Settled
  <2>1. sched[t].pc = "requeue" /\ sched[t].job \in Job
    BY <1>2 DEF TypeOK
  <2>2. jobs[sched[t].job].status \in Settled
    BY <2>1 DEF RestartSettled
  <2>3. \A s \in Scheduler : s = t
    <3>1. sched[t].restart = TRUE /\ sched[t].restart \in Restarts
      BY <2>1 DEF ScheduleKnows, TypeOK
    <3>. QED  BY <3>1 DEF SafeRestarts
  <2>. QED  BY <1>2, <2>1, <2>2, <2>3, SettledStep
<1>3. \/ ScheduleDecide(t)
      \/ sched'[t] = sched[t] /\ ~ScheduleRequeue(t)
  <2>1. ~ScheduleRequeue(t)
    BY DEF ScheduleRequeue, IdleSched, TypeOK
  <2>2. ASSUME NEW s \in Scheduler, NEW j \in Job, NEW r \in Restarts, ScheduleInsert(s, j, r)
        PROVE  sched'[t] = sched[t]
    BY <2>2 DEF ScheduleInsert, TypeOK
  <2>3. ASSUME NEW s \in Scheduler, ScheduleDecide(s), s # t
        PROVE  sched'[t] = sched[t]
    BY <2>3 DEF ScheduleDecide, TypeOK
  <2>4. ASSUME NEW s \in Scheduler, ScheduleRequeue(s), s # t
        PROVE  sched'[t] = sched[t]
    BY <2>4 DEF ScheduleRequeue, TypeOK
  <2>5. CASE UNCHANGED sched
    BY <2>1, <2>5
  <2>6. ASSUME NEW s \in Scheduler, ScheduleCrash(s)
        PROVE  sched'[t] = sched[t]
    BY <2>6 DEF ScheduleCrash, IdleSched, TypeOK
  <2>. QED  BY <2>1, <2>2, <2>3, <2>4, <2>5, <2>6
            DEF Next, WorkerStep, SchedulerStep, Enqueue, Recover, Claim, Handle, Finish,
                Close, Fail, Crash, Tick, vars
<1>. QED  BY <1>1, <1>2, <1>3

LEMMA ClaimsStand == Timely /\ SafeRestarts /\ Spec => []ExclusiveInv
<1>. SUFFICES ASSUME Timely, SafeRestarts
              PROVE  Spec => []ExclusiveInv
  OBVIOUS
<1>1. Init => ScheduleKnows /\ WorkerHasClaim /\ RestartSettled
  BY DEF Init, ScheduleKnows, WorkerHasClaim, HasClaim, RestartSettled, IdleSched, IdleWorker
<1>2. TypeOK /\ ScheduleKnows /\ WorkerHasClaim /\ RestartSettled /\ [Next]_vars
          => ScheduleKnows' /\ WorkerHasClaim' /\ RestartSettled'
  BY ScheduleKnowsStep, WorkerHasClaimStep, RestartSettledStep DEF ExclusiveInv
<1>. QED  BY <1>1, <1>2, TypeCorrect, PTL DEF Spec, ExclusiveInv

\* A claim is exclusive until it is settled, for every number of jobs, workers and
\* schedulers and every stale limit, where no worker overruns that limit and no
\* restart can reach a running row.
THEOREM Exclusive == Timely /\ SafeRestarts /\ Spec => []ExclusiveExecution
<1>1. ExclusiveInv => ExclusiveExecution
  <2> SUFFICES ASSUME TypeOK, WorkerHasClaim, NEW v \in Worker, NEW w \in Worker,
                      NEW j \in Job, Holding(v, j), Holding(w, j)
               PROVE  v = w
    BY DEF ExclusiveExecution, ExclusiveInv
  <2>1. jobs[j].worker = v /\ jobs[j].worker = w
    BY BoundRow DEF WorkerHasClaim, Holding, Bound
  <2>. QED  BY <2>1
<1>. QED  BY <1>1, ClaimsStand, PTL

----------------------------------------------------------------------------
(* The refinement of JobHandout.                                           *)

LEMMA ClaimRow ==
    ASSUME ExclusiveInv, NEW w \in Worker, Claims[w] # None
    PROVE  /\ Claims[w] = worker[w].job /\ worker[w].job \in Job
           /\ worker[w].pc \in {"executing", "finishing", "failing"}
           /\ jobs[worker[w].job].status = "running"
           /\ jobs[worker[w].job].worker = w
           /\ age[worker[w].job] <= StaleAfter
<1>1. TypeOK /\ HasClaim(w)
  BY DEF ExclusiveInv, WorkerHasClaim
<1>2. /\ Claims[w] = worker[w].job
      /\ \/ worker[w].pc \in {"executing", "finishing"}
         \/ worker[w].pc = "failing" /\ jobs[worker[w].job].status = "running"
  BY DEF Claims, ClaimOf
<1>. QED  BY <1>1, <1>2 DEF HasClaim, Claimed, Completed, Settled, TypeOK

\* A job that is absent, or whose claim is stale, is nobody's.
LEMMA Unclaimed ==
    ASSUME ExclusiveInv, NEW j \in Job,
           jobs[j].status = "absent" \/ Stale(j)
    PROVE  j \in Handout!Free
<1>1. j \notin Queued \cup Done
  BY DEF Queued, Done, Settled, Stale
<1>2. \A w \in Worker : Claims[w] # j
  <2> SUFFICES ASSUME NEW w \in Worker, Claims[w] = j PROVE FALSE
    OBVIOUS
  <2>1. Claims[w] # None
    BY QueueAssumption
  <2>2. jobs[j].status = "running" /\ age[j] <= StaleAfter
    BY <2>1, ClaimRow
  <2>3. age[j] \in Nat /\ StaleAfter \in Nat
    BY QueueAssumption DEF ExclusiveInv, TypeOK
  <2>. QED  BY <2>2, <2>3 DEF Stale
<1>. QED  BY <1>1, <1>2 DEF Handout!Free

\* The claim of a worker that does not move, and whose row stays running or settled.
LEMMA ClaimStays ==
    ASSUME NEW w \in Worker, worker'[w] = worker[w],
           worker[w].pc = "failing" =>
               (jobs'[worker[w].job].status = "running" <=> jobs[worker[w].job].status = "running")
    PROVE  Claims'[w] = Claims[w]
  BY DEF Claims, ClaimOf

\* A row that is written while no worker moves, and that no failing worker is about.
LEMMA ClaimsStay ==
    ASSUME TypeOK, NEW j \in Job, NEW row, Write(j, row), worker' = worker,
           \A w \in Worker : worker[w].pc = "failing" => worker[w].job # j
    PROVE  Claims' = Claims
<1>1. ASSUME NEW w \in Worker
      PROVE  Claims'[w] = Claims[w]
  <2>1. worker[w].pc = "failing" => worker[w].job \in Job /\ worker[w].job # j
    BY DEF TypeOK
  <2>2. worker[w].pc = "failing" => jobs'[worker[w].job] = jobs[worker[w].job]
    BY <2>1 DEF Write, TypeOK
  <2>. QED  BY <2>2, ClaimStays
<1>. QED  BY <1>1 DEF Claims

\* What a step of one worker does to the claims.
LEMMA ClaimMoves ==
    ASSUME TypeOK, NEW w \in Worker, NEW c, worker' = [worker EXCEPT ![w] = c],
           \A v \in Worker \ {w} : worker[v].pc = "failing" =>
               jobs'[worker[v].job].status = jobs[worker[v].job].status
    PROVE  Claims' = [Claims EXCEPT ![w] =
               IF \/ c.pc \in {"executing", "finishing"}
                  \/ c.pc = "failing" /\ jobs'[c.job].status = "running"
               THEN c.job ELSE None]
<1>1. \A v \in Worker \ {w} : worker'[v] = worker[v]
  BY DEF TypeOK
<1>2. \A v \in Worker \ {w} : Claims'[v] = Claims[v]
  BY <1>1, ClaimStays
<1>3. worker'[w] = c
  BY DEF TypeOK
<1>. DEFINE has == IF \/ c.pc \in {"executing", "finishing"}
                      \/ c.pc = "failing" /\ jobs'[c.job].status = "running"
                   THEN c.job ELSE None
<1>4. Claims'[w] = has
  BY <1>3 DEF Claims, ClaimOf
<1>5. Claims = [v \in Worker |-> Claims[v]] /\ Claims' = [v \in Worker |-> Claims'[v]]
  BY DEF Claims
<1>. HIDE DEF has
<1>6. Claims' = [Claims EXCEPT ![w] = has]
  BY <1>2, <1>4, <1>5
<1>. QED  BY <1>6 DEF has

\* A new row is offered.
LEMMA EnqueueOffers ==
    ASSUME ExclusiveInv, NEW j \in Job, enqueue(j), worker' = worker, Recalled' = Recalled
    PROVE  Handout!Offer
<1>1. TypeOK /\ Write(j, QueuedRow) /\ jobs[j].status = "absent"
  BY DEF ExclusiveInv, enqueue
<1>2. Queued' = Queued \cup {j} /\ Done' = Done
  BY <1>1 DEF Queued, Done, Write, QueuedRow, AbsentRow, TypeOK, Settled
<1>3. ASSUME NEW w \in Worker, worker[w].pc = "failing"
      PROVE  worker[w].job # j
  <2>1. HasClaim(w)
    BY DEF ExclusiveInv, WorkerHasClaim
  <2>. QED  BY <1>1, <1>3, <2>1 DEF HasClaim, Claimed, Completed, Settled
<1>4. Claims' = Claims
  BY <1>1, <1>3, ClaimsStay
<1>5. {j} \in SUBSET Handout!Free
  BY <1>1, Unclaimed
<1>. QED  BY <1>2, <1>4, <1>5 DEF Handout!Offer

LEMMA RestartRepeats ==
    ASSUME SafeRestarts, ExclusiveInv, NEW s \in Scheduler, ScheduleRequeue(s)
    PROVE  Handout!Repeat(sched[s].job)
<1>. DEFINE j == sched[s].job
<1>0. TypeOK /\ RestartSettled /\ sched[s].pc = "requeue"
  BY DEF ExclusiveInv, ScheduleRequeue
<1>1. j \in Job /\ jobs[j].status \in Settled
  BY <1>0 DEF TypeOK, RestartSettled
<1>2. sched[s].restart = TRUE /\ TRUE \in Restarts
  BY <1>0 DEF ExclusiveInv, ScheduleKnows, TypeOK
<1>3. (\A t \in Scheduler : t = s) /\ ~FinishMayRaise
  BY <1>2 DEF SafeRestarts
<1>4. Write(j, QueuedRow) /\ worker' = worker /\ sched' = [sched EXCEPT ![s] = IdleSched]
  BY DEF ScheduleRequeue, requeue
<1>5. j \in Done \cap Recalled
  BY <1>0, <1>1 DEF Done, Recalled
<1>6. Queued' = Queued \cup {j} /\ Done' = Done \ {j}
  <2>. HIDE DEF j
  <2>. QED  BY <1>0, <1>1, <1>4 DEF Queued, Done, Write, QueuedRow, AbsentRow, TypeOK, Settled
<1>7. Recalled' = Recalled \ {j}
  <2>1. sched'[s].pc # "requeue"
    BY <1>0, <1>4 DEF TypeOK, IdleSched
  <2>2. Recalled' = {}
    BY <1>3, <2>1 DEF Recalled
  <2>3. Recalled \subseteq {j}
    BY <1>3 DEF Recalled
  <2>. QED  BY <2>2, <2>3
<1>8. ASSUME NEW w \in Worker, worker[w].pc = "failing"
      PROVE  worker[w].job # j
  <2>1. HasClaim(w)
    BY DEF ExclusiveInv, WorkerHasClaim
  <2>. QED  BY <1>1, <1>3, <1>8, <2>1 DEF HasClaim, Claimed, Completed, Settled
<1>9. Claims' = Claims
  <2>. HIDE DEF j
  <2>. QED  BY <1>0, <1>1, <1>4, <1>8, ClaimsStay
<1>. QED  BY <1>5, <1>6, <1>7, <1>9 DEF Handout!Repeat

LEMMA DecideRecalls ==
    ASSUME ExclusiveInv, NEW s \in Scheduler, ScheduleDecide(s)
    PROVE  \/ \E j \in Job : Handout!Recall(j)
           \/ UNCHANGED Handout!vars
<1>. DEFINE j == sched[s].job
<1>0. TypeOK /\ sched[s].pc = "inserted" /\ UNCHANGED <<jobs, worker>>
  BY DEF ExclusiveInv, ScheduleDecide
<1>1. j \in Job
  BY <1>0 DEF TypeOK
<1>2. Queued' = Queued /\ Done' = Done /\ Claims' = Claims
  BY <1>0 DEF Queued, Done, Claims, ClaimOf
<1>3. \A t \in Scheduler \ {s} : sched'[t] = sched[t]
  BY <1>0 DEF ScheduleDecide, TypeOK
<1>4. sched'[s].pc = "requeue" => sched'[s].job = j /\ j \in Done
  BY <1>0, <1>1 DEF ScheduleDecide, TypeOK, IdleSched, Done
<1>5. CASE sched'[s].pc = "requeue"
  <2>1. Recalled' = Recalled \cup {j}
    BY <1>0, <1>1, <1>3, <1>4, <1>5 DEF Recalled
  <2>2. Handout!Recall(j)
    BY <1>2, <1>4, <1>5, <2>1 DEF Handout!Recall
  <2>. QED  BY <1>1, <2>2
<1>6. CASE sched'[s].pc # "requeue"
  <2>1. Recalled' = Recalled
    BY <1>0, <1>3, <1>6 DEF Recalled
  <2>. QED  BY <1>2, <2>1 DEF Handout!vars
<1>. QED  BY <1>5, <1>6

LEMMA CrashForgets ==
    ASSUME SafeRestarts, ExclusiveInv, NEW s \in Scheduler, ScheduleCrash(s)
    PROVE  \/ \E j \in Job : Handout!Forget(j)
           \/ UNCHANGED Handout!vars
<1>. DEFINE j == sched[s].job
<1>0. TypeOK /\ UNCHANGED <<jobs, worker>> /\ j \in Job
  BY DEF ExclusiveInv, ScheduleCrash, TypeOK
<1>1. Queued' = Queued /\ Done' = Done /\ Claims' = Claims
  BY <1>0 DEF Queued, Done, Claims, ClaimOf
<1>2. sched'[s].pc # "requeue" /\ \A t \in Scheduler \ {s} : sched'[t] = sched[t]
  BY <1>0 DEF ScheduleCrash, IdleSched, TypeOK
<1>3. CASE sched[s].pc = "requeue"
  <2>1. sched[s].restart = TRUE /\ TRUE \in Restarts
    BY <1>0, <1>3 DEF ExclusiveInv, ScheduleKnows, TypeOK
  <2>2. \A t \in Scheduler : t = s
    BY <2>1 DEF SafeRestarts
  <2>3. Recalled = {j} /\ Recalled' = {}
    BY <1>0, <1>2, <1>3, <2>2 DEF Recalled
  <2>4. Handout!Forget(j)
    <3>. HIDE DEF j
    <3>. QED  BY <1>1, <2>3 DEF Handout!Forget
  <2>. QED  BY <1>0, <2>4
<1>4. CASE sched[s].pc # "requeue"
  <2>1. Recalled' = Recalled
    BY <1>2, <1>4 DEF Recalled
  <2>. QED  BY <1>1, <2>1 DEF Handout!vars
<1>. QED  BY <1>3, <1>4

LEMMA RecoverOffers ==
    ASSUME ExclusiveInv, NEW w \in Worker, Recover(w)
    PROVE  Handout!Offer
<1>. DEFINE S == {j \in Job : Stale(j)}
<1>0. TypeOK /\ requeue_stale /\ worker[w].pc = "idle"
      /\ worker' = [worker EXCEPT ![w].pc = "recovered"] /\ sched' = sched
  BY DEF ExclusiveInv, Recover
<1>1. S \in SUBSET Handout!Free
  BY Unclaimed
<1>2. Queued' = Queued \cup S /\ Done' = Done
  BY <1>0 DEF Queued, Done, requeue_stale, Stale, QueuedRow, AbsentRow, Settled
<1>3. Recalled' = Recalled
  BY <1>0 DEF Recalled
<1>4. ASSUME NEW v \in Worker
      PROVE  Claims'[v] = Claims[v]
  <2>1. CASE v = w
    BY <1>0, <2>1 DEF Claims, ClaimOf, TypeOK
  <2>2. CASE v # w
    <3>1. worker'[v] = worker[v]
      BY <1>0, <2>2 DEF TypeOK
    <3>2. ASSUME worker[v].pc = "failing"
          PROVE  jobs'[worker[v].job] = jobs[worker[v].job]
      <4>1. HasClaim(v) /\ worker[v].job \in Job
        BY <1>0, <3>2 DEF ExclusiveInv, WorkerHasClaim, TypeOK
      <4>2. ~Stale(worker[v].job)
        BY <1>0, <3>2, <4>1, QueueAssumption
           DEF HasClaim, Claimed, Completed, Stale, Settled, TypeOK
      <4>. QED  BY <1>0, <4>1, <4>2 DEF requeue_stale
    <3>. QED  BY <3>1, <3>2, ClaimStays
  <2>. QED  BY <2>1, <2>2
<1>5. Claims' = Claims
  BY <1>4 DEF Claims
<1>. QED  BY <1>1, <1>2, <1>3, <1>5 DEF Handout!Offer

LEMMA ClaimTakes ==
    ASSUME ExclusiveInv, NEW w \in Worker, Claim(w)
    PROVE  \/ \E j \in Job : Handout!Take(w, j)
           \/ UNCHANGED Handout!vars
<1>0. TypeOK /\ worker[w].pc = "recovered" /\ sched' = sched
  BY DEF ExclusiveInv, Claim
<1>1. Recalled' = Recalled
  BY <1>0 DEF Recalled
<1>2. Claims[w] = None
  BY <1>0 DEF Claims, ClaimOf
<1>3. ASSUME NEW j \in Job, claim(w, j),
             worker' = [worker EXCEPT ![w] = [pc |-> "executing", job |-> j]]
      PROVE  Handout!Take(w, j)
  <2>1. jobs[j].status = "queued" /\ jobs[j] \in Row
    BY <1>0, <1>3 DEF claim, TypeOK
  <2>2. /\ jobs'[j].status = "running"
        /\ \A i \in Job \ {j} : jobs'[i] = jobs[i]
    BY <1>0, <1>3, <2>1 DEF claim, Write, TypeOK, Row
  <2>3. Queued' = Queued \ {j} /\ Done' = Done /\ j \in Queued
    BY <2>1, <2>2 DEF Queued, Done, Settled
  <2>4. ASSUME NEW v \in Worker, worker[v].pc = "failing"
        PROVE  jobs'[worker[v].job].status = jobs[worker[v].job].status
    <3>1. HasClaim(v) /\ worker[v].job \in Job
      BY <1>0, <2>4 DEF ExclusiveInv, WorkerHasClaim, TypeOK
    <3>2. worker[v].job # j
      BY <2>1, <2>4, <3>1 DEF HasClaim, Claimed, Completed, Settled
    <3>. QED  BY <2>2, <3>1, <3>2
  <2>. DEFINE c == [pc |-> "executing", job |-> j]
  <2>5. c.pc = "executing" /\ c.job = j /\ worker' = [worker EXCEPT ![w] = c]
    BY <1>3
  <2>. HIDE DEF c
  <2>6. Claims' = [Claims EXCEPT ![w] = j]
    BY <1>0, <2>4, <2>5, ClaimMoves
  <2>. QED  BY <1>1, <1>2, <2>3, <2>6 DEF Handout!Take
<1>4. CASE worker' = [worker EXCEPT ![w] = IdleWorker] /\ UNCHANGED queueVars
  <2>1. Queued' = Queued /\ Done' = Done
    BY <1>4 DEF Queued, Done, queueVars
  <2>2. IdleWorker.pc = "idle" /\ jobs' = jobs
    BY <1>4 DEF IdleWorker, queueVars
  <2>3. Claims' = [Claims EXCEPT ![w] = None]
    BY <1>0, <1>4, <2>2, ClaimMoves
  <2>4. Claims' = Claims
    BY <1>2, <2>3 DEF Claims
  <2>. QED  BY <1>1, <2>1, <2>4 DEF Handout!vars
<1>. QED  BY <1>3, <1>4 DEF Claim

\* A worker that goes on without touching the queue, or dies.
LEMMA QuietStep ==
    ASSUME ExclusiveInv, NEW w \in Worker, Handle(w) \/ Close(w) \/ Crash(w)
    PROVE  Handout!Abandon(w) \/ UNCHANGED Handout!vars
<1>0. TypeOK /\ UNCHANGED <<jobs, sched>>
  BY DEF ExclusiveInv, Handle, Close, Crash
<1>1. Queued' = Queued /\ Done' = Done /\ Recalled' = Recalled
  BY <1>0 DEF Queued, Done, Recalled
<1>2. HasClaim(w)
  BY DEF ExclusiveInv, WorkerHasClaim
<1>3. PICK c : /\ worker' = [worker EXCEPT ![w] = c]
               /\ \/ /\ worker[w].pc = "executing"
                     /\ c.pc \in {"finishing", "failing"} /\ c.job = worker[w].job
                  \/ /\ worker[w].pc = "closing"
                     /\ FinishMayRaise
                     /\ c.pc = "failing" /\ c.job = worker[w].job
                  \/ c.pc = "idle"
  <2>1. CASE Handle(w)
    <3>1. PICK next \in {"finishing", "failing"} : worker' = [worker EXCEPT ![w].pc = next]
      BY <2>1 DEF Handle
    <3>2. worker[w].pc = "executing" /\ worker[w] \in [pc : WorkerPC, job : Job \cup {None}]
      BY <1>0, <2>1 DEF Handle, TypeOK
    <3>. WITNESS [worker[w] EXCEPT !.pc = next]
    <3>. QED  BY <3>1, <3>2
  <2>2. CASE Close(w)
    <3>1. CASE worker' = [worker EXCEPT ![w] = IdleWorker]
      <4>. WITNESS IdleWorker
      <4>. QED  BY <3>1 DEF IdleWorker
    <3>2. CASE FinishMayRaise /\ worker' = [worker EXCEPT ![w].pc = "failing"]
      <4>. WITNESS [worker[w] EXCEPT !.pc = "failing"]
      <4>. QED  BY <1>0, <2>2, <3>2 DEF Close, TypeOK
    <3>. QED  BY <2>2, <3>1, <3>2 DEF Close
  <2>3. CASE Crash(w)
    <3>. WITNESS IdleWorker
    <3>. QED  BY <2>3 DEF Crash, IdleWorker
  <2>. QED  BY <2>1, <2>2, <2>3
<1>. DEFINE has == IF \/ c.pc \in {"executing", "finishing"}
                      \/ c.pc = "failing" /\ jobs'[c.job].status = "running"
                   THEN c.job ELSE None
<1>4. Claims' = [Claims EXCEPT ![w] = has]
  BY <1>0, <1>3, ClaimMoves
<1>5. has = Claims[w] \/ has = None
  <2>1. CASE worker[w].pc = "executing" /\ c.job = worker[w].job
             /\ c.pc \in {"finishing", "failing"}
    BY <1>0, <1>2, <2>1 DEF Claims, ClaimOf, HasClaim, Claimed
  <2>2. CASE worker[w].pc = "closing" /\ FinishMayRaise /\ c.pc = "failing"
             /\ c.job = worker[w].job
    BY <1>0, <1>2, <2>2 DEF HasClaim, Completed, Settled
  <2>3. CASE c.pc = "idle"
    BY <2>3
  <2>. QED  BY <1>3, <2>1, <2>2, <2>3
<1>. HIDE DEF has
<1>6. CASE has = Claims[w]
  <2>1. Claims' = Claims
    BY <1>4, <1>6 DEF Claims
  <2>. QED  BY <1>1, <2>1 DEF Handout!vars
<1>7. CASE has = None /\ Claims[w] # None
  BY <1>1, <1>4, <1>7 DEF Handout!Abandon
<1>. QED  BY <1>5, <1>6, <1>7

\* finish and fail settle the job of the worker that calls them; a job it had settled
\* before stays settled.
LEMMA SettleStep ==
    ASSUME ExclusiveInv, NEW w \in Worker, Finish(w) \/ Fail(w)
    PROVE  Handout!Settle(w) \/ UNCHANGED Handout!vars
<1>. DEFINE j == worker[w].job
<1>0. TypeOK /\ HasClaim(w) /\ sched' = sched /\ worker[w].pc \in {"finishing", "failing"}
  BY DEF ExclusiveInv, WorkerHasClaim, Finish, Fail
<1>1. /\ j \in Job /\ jobs[j] \in Row
      /\ jobs[j].status \in {"running"} \cup Settled
      /\ jobs[j].worker = w
  BY <1>0 DEF HasClaim, Claimed, Completed, TypeOK, Settled
<1>2. /\ jobs'[j].status \in Settled
      /\ \A i \in Job \ {j} : jobs'[i] = jobs[i]
  <2>1. PICK row : Write(j, row) /\ row.status \in Settled
    <3>1. /\ [jobs[j] EXCEPT !.status = "succeeded", !.result = TRUE,
                             !.error = FALSE].status \in Settled
          /\ [jobs[j] EXCEPT !.status = "failed", !.error = TRUE].status \in Settled
      BY <1>1 DEF Row, Settled
    <3>. QED  BY <3>1 DEF Finish, Fail, finish, fail
  <2>2. jobs' = [jobs EXCEPT ![j] = row] /\ DOMAIN jobs = Job
    BY <1>0, <2>1 DEF Write, TypeOK
  <2>. HIDE DEF j
  <2>. QED  BY <1>1, <2>1, <2>2
<1>3. Recalled' = Recalled
  BY <1>0 DEF Recalled
<1>4. PICK c : worker' = [worker EXCEPT ![w] = c] /\ c.pc \in {"closing", "idle"}
  <2>1. CASE Finish(w)
    <3>. WITNESS [worker[w] EXCEPT !.pc = "closing"]
    <3>. QED  BY <1>0, <2>1 DEF Finish, TypeOK
  <2>2. CASE Fail(w)
    <3>. WITNESS IdleWorker
    <3>. QED  BY <2>2 DEF Fail, IdleWorker
  <2>. QED  BY <2>1, <2>2
<1>5. ASSUME NEW v \in Worker \ {w}, worker[v].pc = "failing"
      PROVE  jobs'[worker[v].job].status = jobs[worker[v].job].status
  <2>1. HasClaim(v) /\ worker[v].job \in Job
    BY <1>0, <1>5 DEF ExclusiveInv, WorkerHasClaim, TypeOK
  <2>2. jobs[worker[v].job].worker = v
    BY <1>5, <2>1 DEF HasClaim, Claimed, Completed
  <2>3. worker[v].job # j
    BY <1>1, <2>2
  <2>. QED  BY <1>2, <2>1, <2>3
<1>6. Claims' = [Claims EXCEPT ![w] = None]
  BY <1>0, <1>4, <1>5, ClaimMoves
<1>7. Queued' = Queued /\ Done' = Done \cup {j}
  <2>. HIDE DEF j
  <2>. QED  BY <1>1, <1>2 DEF Queued, Done, Settled
<1>8. CASE jobs[j].status = "running"
  <2>1. Claims[w] = j /\ j # None
    BY <1>0, <1>1, <1>8, QueueAssumption DEF Claims, ClaimOf
  <2>. HIDE DEF j
  <2>. QED  BY <1>3, <1>6, <1>7, <2>1 DEF Handout!Settle
<1>9. CASE jobs[j].status \in Settled
  <2>1. worker[w].pc = "failing" /\ jobs[j].status # "running"
    BY <1>0, <1>9 DEF HasClaim, Claimed, Settled
  <2>2. Claims[w] = None
    BY <2>1 DEF Claims, ClaimOf
  <2>3. Claims' = Claims
    BY <1>6, <2>2 DEF Claims
  <2>4. Done' = Done
    BY <1>1, <1>7, <1>9 DEF Done
  <2>. QED  BY <1>3, <1>7, <2>3, <2>4 DEF Handout!vars
<1>. QED  BY <1>1, <1>8, <1>9

LEMMA HandoutStep ==
    ASSUME SafeRestarts, ExclusiveInv, [Next]_vars
    PROVE  [Handout!Next]_(Handout!vars)
<1>0. TypeOK
  BY DEF ExclusiveInv
<1>1. ASSUME UNCHANGED <<jobs, worker>>, Recalled' = Recalled
      PROVE  UNCHANGED Handout!vars
  BY <1>1 DEF Handout!vars, Queued, Done, Claims, ClaimOf
<1>2. ASSUME NEW s \in Scheduler, NEW j \in Job, NEW r \in Restarts, ScheduleInsert(s, j, r)
      PROVE  Handout!Offer \/ UNCHANGED Handout!vars
  <2>1. Recalled' = Recalled
    BY <1>0, <1>2 DEF ScheduleInsert, Recalled, TypeOK
  <2>. QED  BY <1>1, <1>2, <2>1, EnqueueOffers
            DEF ScheduleInsert, enqueue_idempotent, queueVars
<1>3. ASSUME NEW s \in Scheduler, SchedulerStep(s) \/ ScheduleCrash(s)
      PROVE  \/ \E j \in Job : Handout!Recall(j) \/ Handout!Forget(j) \/ Handout!Repeat(j)
             \/ UNCHANGED Handout!vars
  <2>1. CASE ScheduleDecide(s)
    BY <2>1, DecideRecalls
  <2>2. CASE ScheduleRequeue(s)
    <3>1. sched[s].job \in Job
      BY <1>0, <2>2 DEF ScheduleRequeue, TypeOK
    <3>. QED  BY <2>2, <3>1, RestartRepeats
  <2>. QED  BY <1>3, <2>1, <2>2, CrashForgets DEF SchedulerStep
<1>4. ASSUME NEW j \in Job, Enqueue(j)
      PROVE  Handout!Offer
  <2>1. Recalled' = Recalled
    BY <1>4 DEF Enqueue, Recalled
  <2>. QED  BY <1>4, <2>1, EnqueueOffers DEF Enqueue
<1>5. ASSUME NEW w \in Worker, WorkerStep(w) \/ Crash(w)
      PROVE  \/ Handout!Offer \/ Handout!Settle(w) \/ Handout!Abandon(w)
             \/ \E j \in Job : Handout!Take(w, j)
             \/ UNCHANGED Handout!vars
  BY <1>5, RecoverOffers, ClaimTakes, QuietStep, SettleStep DEF WorkerStep
<1>6. CASE Tick \/ UNCHANGED vars
  <2>1. UNCHANGED <<jobs, worker, sched>>
    BY <1>6 DEF Tick, vars
  <2>2. Recalled' = Recalled
    BY <2>1 DEF Recalled
  <2>. QED  BY <1>1, <2>1, <2>2
<1>. QED  BY <1>2, <1>3, <1>4, <1>5, <1>6 DEF Next, Handout!Next

\* WorkerQueue implements JobHandout, for every number of jobs, workers and schedulers
\* and every stale limit: a queued job goes to one worker, which alone settles it, and
\* comes back only when nobody has it or a restart recalls it.
THEOREM ImplementsHandout == Timely /\ SafeRestarts /\ Spec => HandedOut
<1>. SUFFICES ASSUME Timely, SafeRestarts
              PROVE  Spec => HandedOut
  OBVIOUS
<1>1. Init => Handout!Init
  BY DEF Init, Handout!Init, Queued, Done, Claims, ClaimOf, Recalled, AbsentRow,
         IdleWorker, IdleSched, Settled
<1>2. ExclusiveInv /\ [Next]_vars => [Handout!Next]_(Handout!vars)
  BY HandoutStep
<1>. QED  BY <1>1, <1>2, ClaimsStand, PTL DEF Spec, HandedOut, Handout!Spec
============================================================================
