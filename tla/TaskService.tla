---------------------------- MODULE TaskService ----------------------------
(***************************************************************************)
(* The task pipeline of the control plane: service.py with release_gate.py *)
(* and the durable wrapper of durable_service.py, for one task and the     *)
(* project that holds it.  Tasks share nothing but the project row.        *)
(*                                                                         *)
(* A database session is a unit of work.  It reads rows, the handler       *)
(* decides and assigns in memory, and the session writes at its first      *)
(* flush and commits.  No row carries a version, and an UPDATE names the   *)
(* row by its id and sets only the columns whose value differs from the    *)
(* one that was read.  A session whose handler decides on what it read is  *)
(* therefore two steps, the read and the commit, and other processes run   *)
(* in between.  From the first flush to the commit SQLite holds the write  *)
(* lock; what is read in that span (the project, the latest revisions in   *)
(* approve, the highest revisions of run's second and later outputs) is    *)
(* read in the commit step.                                                *)
(***************************************************************************)
EXTENDS Naturals, Sequences, FiniteSets

CONSTANTS
    Runner,             \* processes that call run: workers, or /run handlers
    Caller,             \* processes that call the other methods
    Methods,            \* the methods they call, submit apart
    RequiredOutputs,    \* contract.input.required_outputs
    Route,              \* output_routes: the adapter that produces a kind
    Approval,           \* contract.policy.approval
    AuditMayFail,       \* TRUE: the durable wrapper may raise after a commit
    MayCrash,           \* TRUE: a process may die inside a method
    MaxAttempts,        \* bound on task.attempt
    MaxIds,             \* bound on the artifact_ids of one approval request
    MaxArtifacts        \* bound on the artifact rows of the task

Required == {RequiredOutputs[n] : n \in DOMAIN RequiredOutputs}

ASSUME ServiceAssumption ==
    /\ RequiredOutputs \in Seq(STRING)
    /\ \A m, n \in DOMAIN RequiredOutputs :
           RequiredOutputs[m] = RequiredOutputs[n] => m = n
    /\ Required \subseteq DOMAIN Route
    /\ "release" \notin Required
    /\ Approval \in {"none", "before_publish"}
    /\ Methods \subseteq {"approve", "revise", "release", "retry", "cancel"}
    /\ AuditMayFail \in BOOLEAN
    /\ MayCrash \in BOOLEAN
    /\ MaxAttempts \in Nat
    /\ MaxArtifacts \in Nat
    /\ MaxIds \in Nat

VARIABLES
    task,       \* the task row
    project,    \* the status of its project
    arts,       \* the task's artifact rows in the order of created_at
    approvals,  \* the artifacts with an "approve" row in the approvals table
    proc        \* the method call each process is in

vars == <<task, project, arts, approvals, proc>>
rows == <<task, project, arts, approvals>>

Proc == Runner \cup Caller

TaskStatus == {"absent", "queued", "running", "waiting_approval", "succeeded",
               "failed", "blocked", "cancelled"}
ProjectStatus == {"absent", "received", "planned", "running", "waiting_approval",
                  "succeeded", "approved", "released", "failed", "cancelled"}
ArtifactStatus == {"awaiting_review", "approved", "rejected", "superseded", "released"}
Decision == {"approve", "reject"}
PC == {"idle", "run_start", "run_scan", "run_produce", "revise", "approve",
       "release_read", "release_write", "retry", "cancel", "returned", "raised"}

TaskRow == [status : TaskStatus, attempt : Nat, error : BOOLEAN]

\* A task has artifacts of the required kinds and release manifests.
Kind == Required \cup {"release"}
ArtifactRow == [kind : Kind, revision : Nat, status : ArtifactStatus,
                producer : {"adapter", "human_review", "onebridge"},
                inputs : SUBSET Nat]

\* A call in progress: the columns of the task row it read and may assign; the
\* artifacts it works on (run's
\* produced_ids, approve's artifact_ids, revise's parent, release's selection);
\* those among them whose status it read as the one it is about to assign, for
\* which the session emits no UPDATE; approve's decision; and the revision that
\* the first row it inserts will have, 0 before that was read.
Call == [pc : PC, snap : TaskRow, ids : SUBSET Nat, clean : SUBSET Nat,
         decision : Decision, rev : Nat]

NoTask == [status |-> "absent", attempt |-> 0, error |-> FALSE]
Idle == [pc |-> "idle", snap |-> NoTask, ids |-> {}, clean |-> {}, decision |-> "approve",
         rev |-> 0]

TypeOK ==
    /\ task \in TaskRow
    /\ project \in ProjectStatus
    /\ arts \in Seq(ArtifactRow) /\ Len(arts) <= MaxArtifacts
    /\ approvals \subseteq DOMAIN arts
    /\ proc \in [Proc -> Call]
    \* calls and lineage refer to rows that exist
    /\ \A p \in Proc : proc[p].ids \subseteq DOMAIN arts
    /\ \A i \in DOMAIN arts : arts[i].inputs \subseteq DOMAIN arts

Init ==
    /\ task = NoTask
    /\ project = "absent"
    /\ arts = <<>>
    /\ approvals = {}
    /\ proc = [p \in Proc |-> Idle]

----------------------------------------------------------------------------
(* Rows.                                                                   *)

\* The value a column has after a session that read old and assigned new: an
\* assignment that changes nothing is not written.
Assign(old, current, new) == IF old = new THEN current ELSE new

OfKind(k) == {i \in DOMAIN arts : arts[i].kind = k}

\* The rows ORDER BY revision DESC LIMIT 1 may return for a kind.
Latest(k) == {i \in OfKind(k) : \A j \in OfKind(k) : arts[j].revision <= arts[i].revision}

\* Mutant: every new row of a kind is revision 1.
NextRevision_One(k) == 1

\* 1 + the highest revision of a kind, 1 when there is none.
NextRevision(k) ==
    IF Latest(k) = {} THEN 1 ELSE 1 + arts[CHOOSE i \in Latest(k) : TRUE].revision

Artifact(k, rev, st, by, in) ==
    [kind |-> k, revision |-> rev, status |-> st, producer |-> by, inputs |-> in]

\* The columns a session reads of the task row, the others left at their default.
Status == [NoTask EXCEPT !.status = task.status]
Error == [NoTask EXCEPT !.error = task.error]

Begin(p, pc, read) == proc' = [proc EXCEPT ![p] = [Idle EXCEPT !.pc = pc, !.snap = read]]
Returns(p) == proc' = [proc EXCEPT ![p] = [Idle EXCEPT !.pc = "returned"]]
Raises(p) == proc' = [proc EXCEPT ![p] = [Idle EXCEPT !.pc = "raised"]]

----------------------------------------------------------------------------
(* submit: the primary key makes the check and the insert one step.        *)

submit(p) ==
    /\ proc[p].pc = "idle"
    /\ task.status = "absent"
    /\ task' = [NoTask EXCEPT !.status = "queued"]
    /\ project' = IF project = "absent" THEN "received" ELSE project
    /\ Returns(p)
    /\ UNCHANGED <<arts, approvals>>

----------------------------------------------------------------------------
(* run: mark running, read what exists, call the adapter of each missing   *)
(* output and store what it produced, settle.                              *)

\* The wrapper's "task.started" record comes first.
run_read(p) ==
    /\ proc[p].pc = "idle"
    /\ task.status # "absent"
    /\ task.attempt < MaxAttempts
    /\ \/ task.status # "cancelled" /\ Begin(p, "run_start", task)
       \/ (task.status = "cancelled" \/ AuditMayFail) /\ Raises(p)
    /\ UNCHANGED rows

run_start(p) ==
    /\ proc[p].pc = "run_start"
    /\ task' = [status  |-> Assign(proc[p].snap.status, task.status, "running"),
                attempt |-> proc[p].snap.attempt + 1,
                error   |-> Assign(proc[p].snap.error, task.error, FALSE)]
    /\ project' = "running"
    /\ proc' = [proc EXCEPT ![p].pc = "run_scan"]
    /\ UNCHANGED <<arts, approvals>>

\* Mutant: a run starts from nothing instead of from what is already there.
run_scan_Fresh(p) ==
    /\ proc[p].pc = "run_scan"
    /\ proc' = [proc EXCEPT ![p].pc = "run_produce"]
    /\ UNCHANGED rows

\* existing_artifacts: every kind that has a row of any status counts as done.
run_scan(p) ==
    /\ proc[p].pc = "run_scan"
    /\ proc' = [proc EXCEPT ![p].pc = "run_produce", ![p].ids = DOMAIN arts]
    /\ UNCHANGED rows

\* The places in the contract of the required kinds not yet produced.
Missing(p) == {n \in DOMAIN RequiredOutputs :
                   \A i \in proc[p].ids : arts[i].kind # RequiredOutputs[n]}

First(p) == CHOOSE n \in Missing(p) : \A m \in Missing(p) : n <= m

\* The missing kinds that the adapter of the first one is asked for together.
Batch(p) == {n \in Missing(p) :
                 Route[RequiredOutputs[n]] = Route[RequiredOutputs[First(p)]]}

\* The contract's order of a batch.
Orders(p) == {order \in [1 .. Cardinality(Batch(p)) -> Batch(p)] :
                  \A m, n \in DOMAIN order : m < n => order[m] < order[n]}

Produced(p, order) ==
    [n \in DOMAIN order |->
        LET k == RequiredOutputs[order[n]]
        IN  Artifact(k, IF order[n] = First(p) THEN proc[p].rev ELSE NextRevision(k),
                     IF Approval = "before_publish" THEN "awaiting_review" ELSE "approved",
                     "adapter", proc[p].ids)]

\* The first row's revision is read before anything is written.
run_revision(p) ==
    /\ proc[p].pc = "run_produce"
    /\ Missing(p) # {}
    /\ proc[p].rev = 0
    /\ proc' = [proc EXCEPT ![p].rev = NextRevision(RequiredOutputs[First(p)])]
    /\ UNCHANGED rows

\* The adapter's valid outputs are stored and recorded in one commit.
run_produce(p) ==
    /\ proc[p].pc = "run_produce"
    /\ Missing(p) # {}
    /\ proc[p].rev # 0
    /\ Len(arts) + Cardinality(Batch(p)) <= MaxArtifacts
    /\ \E order \in Orders(p) : arts' = arts \o Produced(p, order)
    /\ proc' = [proc EXCEPT ![p].ids = @ \cup (DOMAIN arts' \ DOMAIN arts), ![p].rev = 0]
    /\ UNCHANGED <<task, project, approvals>>

\* The last session assigns a status whatever the row says by now.
run_settle(p) ==
    /\ proc[p].pc = "run_produce"
    /\ Missing(p) = {}
    /\ task' = [task EXCEPT !.status = IF Approval = "before_publish"
                                       THEN "waiting_approval" ELSE "succeeded"]
    /\ project' = task'.status
    /\ Returns(p)
    /\ UNCHANGED <<arts, approvals>>

\* No route, an adapter error, invalid or missing outputs, a failed write.
run_fail(p) ==
    /\ proc[p].pc \in {"run_scan", "run_produce"}
    /\ task' = [task EXCEPT !.status = "failed", !.error = TRUE]
    /\ project' = "failed"
    /\ Raises(p)
    /\ UNCHANGED <<arts, approvals>>

----------------------------------------------------------------------------
(* Review: revise_text_artifact and approve.                               *)

\* Only the latest revision of a kind can be revised.
revise_read(p, i) ==
    /\ proc[p].pc = "idle"
    /\ \/ /\ i \in Latest(arts[i].kind)
          /\ proc' = [proc EXCEPT ![p] =
                 [Idle EXCEPT !.pc = "revise", !.snap = Status, !.ids = {i},
                              !.clean = {j \in {i} : arts[j].status = "superseded"}]]
       \/ Latest(arts[i].kind) # {i} /\ Raises(p)
    /\ UNCHANGED rows

revise_commit(p) ==
    /\ proc[p].pc = "revise"
    /\ Len(arts) < MaxArtifacts
    /\ \E i \in proc[p].ids :
           LET superseded == [arts EXCEPT ![i].status = IF i \in proc[p].clean
                                                        THEN @ ELSE "superseded"]
           IN arts' = Append(superseded,
                             Artifact(arts[i].kind, arts[i].revision + 1,
                                      "awaiting_review", "human_review", {i}))
    /\ task' = [task EXCEPT !.status = Assign(proc[p].snap.status, @, "waiting_approval")]
    /\ project' = "waiting_approval"
    /\ Returns(p)
    /\ UNCHANGED approvals

\* Mutant: a rejected artifact gets the status of a rejected task.
Verdict_Blocked(decision) == IF decision = "approve" THEN "approved" ELSE "blocked"

Verdict(decision) == IF decision = "approve" THEN "approved" ELSE "rejected"

approve_read(p, ids, decision) ==
    /\ proc[p].pc = "idle"
    /\ task.status # "absent"
    /\ proc' = [proc EXCEPT ![p] =
           [Idle EXCEPT !.pc = "approve", !.snap = Status, !.ids = ids,
                        !.clean = {i \in ids : arts[i].status = Verdict(decision)},
                        !.decision = decision]]
    /\ UNCHANGED rows

\* The statuses approve works with: the session's own objects for the artifacts
\* it decides on, the table for the others.
ApprovedInSession(p, i) == i \in proc[p].ids \/ arts[i].status = "approved"

\* Mutant: an approved revision of each kind is enough, be it the latest or not.
RequiredApproved_Any(p, ok) ==
    ok = \A k \in Required : \E i \in OfKind(k) : ApprovedInSession(p, i)

\* required_approved; a tie between latest revisions may be broken either way.
RequiredApproved(p, ok) ==
    /\ (\A k \in Required : /\ Latest(k) # {}
                            /\ \A i \in Latest(k) : ApprovedInSession(p, i)) => ok
    /\ ok => \A k \in Required : \E i \in Latest(k) : ApprovedInSession(p, i)

approve_commit(p) ==
    LET c == proc[p]
        Settle(ts, ps) == /\ task' = [task EXCEPT !.status = Assign(c.snap.status, @, ts)]
                          /\ project' = ps
    IN /\ c.pc = "approve"
       /\ arts' = [i \in DOMAIN arts |->
                      IF i \in c.ids \ c.clean
                      THEN [arts[i] EXCEPT !.status = Verdict(c.decision)] ELSE arts[i]]
       /\ \/ /\ c.decision = "reject"
             /\ Settle("blocked", "waiting_approval")
             /\ UNCHANGED approvals
          \/ /\ c.decision = "approve"
             /\ approvals' = approvals \cup c.ids
             /\ \E ok \in BOOLEAN :
                    /\ RequiredApproved(p, ok)
                    /\ IF ok THEN Settle("succeeded", "approved")
                             ELSE Settle("waiting_approval", "waiting_approval")
       /\ Returns(p)

----------------------------------------------------------------------------
(* release: the status, then the artifacts, then the new row, in separate  *)
(* sessions; the gate and the manifest are computed from the first two.    *)

release_status(p) ==
    /\ proc[p].pc = "idle"
    /\ task.status # "absent"
    /\ Begin(p, "release_read", Status)
    /\ UNCHANGED rows

\* The gate keeps the first row it meets among equal revisions.
GateLatest(k) == CHOOSE i \in Latest(k) : \A j \in Latest(k) : i <= j

\* Mutant: superseded revisions are selected too.
Selected_All == {i \in DOMAIN arts : arts[i].kind \in Required}

\* The manifest's artifacts.
Selected == {GateLatest(k) : k \in Required}

\* Mutant: the gate looks at the artifacts only.
GateAllows_AnyTask(status) ==
    /\ \A k \in Required : Latest(k) # {} /\ arts[GateLatest(k)].status = "approved"
    /\ Required # {}

\* Mutant: the gate trusts the task's status.
GateAllows_TaskOnly(status) ==
    status = "succeeded" /\ \A k \in Required : Latest(k) # {}

\* evaluate_release_gate and build_release_manifest.
GateAllows(status) ==
    /\ status = "succeeded"
    /\ \A k \in Required : Latest(k) # {} /\ arts[GateLatest(k)].status = "approved"
    /\ \A i \in DOMAIN arts :
           i = GateLatest(arts[i].kind) => /\ arts[i].status # "rejected"
                                           /\ Approval = "before_publish" =>
                                                  arts[i].status = "approved"
    /\ Required # {}

release_read(p) ==
    /\ proc[p].pc = "release_read"
    /\ IF GateAllows(proc[p].snap.status)
       THEN proc' = [proc EXCEPT ![p].pc = "release_write", ![p].ids = Selected]
       ELSE Raises(p)
    /\ UNCHANGED rows

release_revision(p) ==
    /\ proc[p].pc = "release_write"
    /\ proc[p].rev = 0
    /\ proc' = [proc EXCEPT ![p].rev = NextRevision("release")]
    /\ UNCHANGED rows

release_write(p) ==
    /\ proc[p].pc = "release_write"
    /\ proc[p].rev # 0
    /\ Len(arts) < MaxArtifacts
    /\ arts' = Append(arts, Artifact("release", proc[p].rev, "released",
                                     "onebridge", proc[p].ids))
    /\ project' = "released"
    /\ Returns(p)
    /\ UNCHANGED <<task, approvals>>

----------------------------------------------------------------------------
(* retry and cancel.                                                       *)

retry_read(p) ==
    /\ proc[p].pc = "idle"
    /\ task.status # "absent"
    /\ IF task.status \in {"failed", "blocked"} THEN Begin(p, "retry", Error)
                                                ELSE Raises(p)
    /\ UNCHANGED rows

\* Mutant: the project keeps its old status.
retry_commit_TaskOnly(p) ==
    /\ proc[p].pc = "retry"
    /\ task' = [task EXCEPT !.status = "queued",
                            !.error = Assign(proc[p].snap.error, @, FALSE)]
    /\ Returns(p)
    /\ UNCHANGED <<project, arts, approvals>>

retry_commit(p) ==
    /\ proc[p].pc = "retry"
    /\ task' = [task EXCEPT !.status = "queued",
                            !.error = Assign(proc[p].snap.error, @, FALSE)]
    /\ project' = "planned"
    /\ Returns(p)
    /\ UNCHANGED <<arts, approvals>>

cancel_read(p) ==
    /\ proc[p].pc = "idle"
    /\ task.status # "absent"
    /\ IF task.status \in {"succeeded", "cancelled"} THEN Returns(p)
                                                     ELSE Begin(p, "cancel", NoTask)
    /\ UNCHANGED rows

cancel_commit(p) ==
    /\ proc[p].pc = "cancel"
    /\ task' = [task EXCEPT !.status = "cancelled"]
    /\ project' = "cancelled"
    /\ Returns(p)
    /\ UNCHANGED <<arts, approvals>>

\* A session whose write fails (a locked database, a lost connection) rolls back
\* and raises; inside run's try block that is run_fail.
session_fails(p) ==
    /\ proc[p].pc \in {"run_start", "revise", "approve", "release_write", "retry", "cancel"}
    /\ Raises(p)
    /\ UNCHANGED rows

----------------------------------------------------------------------------
(* The durable wrapper's checkpoint and audit writes follow the commit;    *)
(* one that raises turns a method that took effect into an error.          *)

durable_raise(p) ==
    /\ AuditMayFail
    /\ proc[p].pc = "returned"
    /\ proc' = [proc EXCEPT ![p].pc = "raised"]
    /\ UNCHANGED rows

Done(p) ==
    /\ proc[p].pc \in {"returned", "raised"}
    /\ proc' = [proc EXCEPT ![p] = Idle]
    /\ UNCHANGED rows

Crash(p) ==
    /\ MayCrash
    /\ proc[p].pc # "idle"
    /\ proc' = [proc EXCEPT ![p] = Idle]
    /\ UNCHANGED rows

\* A step of a run that has been started.
RunStep(p) == \/ run_start(p) \/ run_scan(p) \/ run_revision(p) \/ run_produce(p)
              \/ run_settle(p) \/ run_fail(p)

\* A step of any other call in progress.
CallStep(p) == \/ revise_commit(p) \/ approve_commit(p)
               \/ release_read(p) \/ release_revision(p) \/ release_write(p)
               \/ retry_commit(p) \/ cancel_commit(p)

CallBegin(p) ==
    \/ submit(p)
    \/ "release" \in Methods /\ release_status(p)
    \/ "retry" \in Methods /\ retry_read(p)
    \/ "cancel" \in Methods /\ cancel_read(p)
    \/ "revise" \in Methods /\ \E i \in DOMAIN arts : revise_read(p, i)
    \/ "approve" \in Methods /\ \E ids \in SUBSET DOMAIN arts, d \in Decision :
                                   Cardinality(ids) \in 1 .. MaxIds /\ approve_read(p, ids, d)

Next ==
    \/ \E p \in Runner : run_read(p) \/ RunStep(p)
    \/ \E p \in Caller : CallBegin(p) \/ CallStep(p)
    \/ \E p \in Proc : session_fails(p) \/ durable_raise(p) \/ Done(p) \/ Crash(p)

Spec == Init /\ [][Next]_vars

----------------------------------------------------------------------------
(* Properties.                                                             *)

\* An approved artifact was approved by somebody, or came from an adapter under a
\* contract that asks for no approval.
Reviewed(i) ==
    \/ i \in approvals
    \/ Approval = "none" /\ arts[i].producer = "adapter"

\* A release manifest holds exactly one artifact of every required kind, and no
\* artifact gets into one unreviewed, however the reviews, revisions, runs and
\* releases overlap (evaluate_release_gate, release, approve).
ReleaseReviewed ==
    \A r \in DOMAIN arts :
        arts[r].kind = "release" /\ arts[r].producer = "onebridge" =>
            /\ {arts[i].kind : i \in arts[r].inputs} = Required
            /\ \A i, j \in arts[r].inputs : arts[i].kind = arts[j].kind => i = j
            /\ \A i \in arts[r].inputs : Reviewed(i)

\* Revision numbers of a kind are never used twice: the revisions form one line
\* (run's 1 + max, revise's parent.revision + 1).  For calls that do not overlap.
RevisionsLinear ==
    \A i, j \in DOMAIN arts :
        arts[i].kind = arts[j].kind /\ arts[i].revision = arts[j].revision => i = j

\* A task that needs approval is "succeeded" only while the latest revision of every
\* required kind is approved (approve, revise_text_artifact, run).  For calls that
\* do not overlap.
SucceededIsApproved ==
    Approval = "before_publish" /\ task.status = "succeeded" =>
        \A k \in Required : \E i \in Latest(k) : arts[i].status = "approved"

\* The project's status is one that goes with its task's (every method writes both).
\* For calls that do not overlap, and a project with one task.
ProjectAgrees ==
    project \in CASE task.status = "absent" -> {"absent"}
                  [] task.status = "queued" -> {"received", "planned"}
                  [] task.status \in {"running", "failed", "cancelled"} -> {task.status}
                  [] task.status = "waiting_approval" -> {"waiting_approval"}
                  [] task.status = "blocked" -> {"waiting_approval"}
                  [] task.status = "succeeded" -> {"succeeded", "approved", "released"}

\* At the step that records a release the task is succeeded and everything in the
\* manifest is the latest revision of its kind and approved (release).
ReleaseFailClosed ==
    [][\A r \in DOMAIN arts' \ DOMAIN arts :
          arts'[r].producer = "onebridge" =>
              /\ task.status = "succeeded"
              /\ \A i \in arts'[r].inputs : /\ i \in Latest(arts[i].kind)
                                            /\ arts[i].status = "approved"]_vars

\* A cancelled task stays cancelled (cancel, and run's "cancelled task cannot run").
CancelledIsFinal ==
    [][task.status = "cancelled" => task'.status = "cancelled"]_vars
============================================================================
