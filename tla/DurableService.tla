--------------------------- MODULE DurableService ---------------------------
(***************************************************************************)
(* The durable wrapper of the task service (durable_service.py): every     *)
(* method calls the one of TaskService and then appends to the audit log;  *)
(* run also appends before it, and saves a checkpoint of every step        *)
(* (checkpoints.py) after it.  Extends AuditLog and composes TaskService;  *)
(* the rows, the checkpoint files and the log are written one after the    *)
(* other.                                                                  *)
(***************************************************************************)
EXTENDS AuditLog

CONSTANTS
    Runner, Caller,     \* worker processes; API processes
    Methods, RequiredOutputs, Route, Approval, MaxAttempts, MaxIds, MaxArtifacts

VARIABLES
    task, project, arts, approvals, proc,   \* TaskService
    checkpoints,    \* the checkpoint file of each step, None when there is none
    wrap            \* where each process is in the wrapper

\* The log's events: what was done, with the artifact where a property asks which.
Method == {"submit", "revise", "approve", "release", "retry", "cancel"}
EventType == {"task.started", "task.failed", "task.execution_completed",
              "artifact.observed"} \cup Method
Ev(type) == [type |-> type, art |-> 0]

\* The service, with the theorems about it.
S == INSTANCE TaskServiceProofs WITH AuditMayFail <- FALSE, Methods <- Methods \ {"submit"}

taskVars == <<task, project, arts, approvals, proc>>
vars == <<taskVars, logVars, checkpoints, wrap>>

\* default_pipeline: the kinds in the order of their steps; a step's number is its place.
Pipeline == <<"content", "design", "code", "test_report">>
Steps == {n \in DOMAIN Pipeline : Pipeline[n] \in S!Required}

\* The artifacts of some steps, 0 for the others.
Outputs == [Steps -> Nat]

Checkpoint == [lineage : Outputs, output : Nat]

\* The log's writers are the processes of both kinds.
ASSUME DurableAssumption ==
    /\ IsFiniteSet(Writer)
    /\ Writer = Runner \cup Caller
    /\ Event = [type : EventType, art : 0 .. MaxArtifacts]
    /\ None \notin Checkpoint
    /\ RequiredOutputs \in Seq(STRING)
    /\ \A m, n \in DOMAIN RequiredOutputs :
           RequiredOutputs[m] = RequiredOutputs[n] => m = n
    /\ S!Required \subseteq DOMAIN Route
    /\ "release" \notin S!Required
    /\ Approval \in {"none", "before_publish"}
    /\ Methods \subseteq Method
    /\ {MaxAttempts, MaxArtifacts} \subseteq Nat
    /\ MaxIds \in Nat \ {0}

\* pc: where; op: which method; trail: the events still to append; latest: the artifact
\* of each step that can be saved; todo: the steps still to save.
Nothing == [n \in Steps |-> 0]
Idle == [pc |-> "idle", op |-> "run", trail |-> <<>>, latest |-> Nothing, todo |-> {}]
WrapPC == {"idle", "started", "service", "checkpoint", "trail"}
Wrap == [pc : WrapPC, op : Method \cup {"run"}, trail : Seq(Event),
         latest : Outputs, todo : SUBSET Steps]

TypeOK ==
    /\ S!TypeOK
    /\ LogTypeOK
    /\ checkpoints \in [Steps -> Checkpoint \cup {None}]
    /\ wrap \in [Writer -> Wrap]
    \* a process is in the service, in an append or between them, as its pc says
    /\ \A p \in Writer :
           /\ proc[p].pc # "idle" => wrap[p].pc = "service"
           /\ call[p].pc # "idle" => wrap[p].pc \in {"started", "trail"}

Init ==
    /\ S!Init
    /\ LogInit
    /\ checkpoints = [n \in Steps |-> None]
    /\ wrap = [p \in Writer |-> Idle]

Goto(p, w) == wrap' = [wrap EXCEPT ![p] = w]
Exit(p) == Goto(p, Idle)

----------------------------------------------------------------------------
(* run.                                                                    *)

\* Mutant: the run begins without waiting for its record.
run_StartUnrecorded(p) ==
    /\ wrap[p].pc = "idle" /\ task.status # "absent"
    /\ S!run_read(p)
    /\ Goto(p, [Idle EXCEPT !.pc = "service"])
    /\ UNCHANGED <<logVars, checkpoints>>

run(p) ==
    /\ wrap[p].pc = "idle" /\ task.status # "absent" /\ task.attempt < MaxAttempts
    /\ append(p, Ev("task.started"))
    /\ Goto(p, [Idle EXCEPT !.pc = "started"])
    /\ UNCHANGED <<taskVars, checkpoints>>

\* An append that raised ends the method; nothing of the task has been touched.
run_enter(p) ==
    /\ wrap[p].pc = "started"
    /\ LogDone(p)
    /\ IF call[p].pc = "raised"
       THEN Exit(p) /\ UNCHANGED taskVars
       ELSE S!run_read(p) /\ Goto(p, [wrap[p] EXCEPT !.pc = "service"])
    /\ UNCHANGED <<file, synced, lock, acked, checkpoints>>

\* The steps up to the first that has no artifact, each with the artifact of its kind that
\* _checkpoint_artifacts keeps: the highest revision, the first of equal ones.
Reached == {n \in Steps : \A m \in Steps : m <= n => S!OfKind(Pipeline[m]) # {}}
Found == [n \in Steps |-> IF n \in Reached THEN S!GateLatest(Pipeline[n]) ELSE 0]

\* default_pipeline raises "unsupported workflow outputs".
Supported == S!Required \subseteq {Pipeline[n] : n \in DOMAIN Pipeline}

\* super().run raised, or returned and its artifacts are read.
run_exit(p) ==
    /\ wrap[p].pc = "service" /\ wrap[p].op = "run"
    /\ S!Done(p)
    /\ Goto(p, IF proc[p].pc = "raised"
               THEN [Idle EXCEPT !.pc = "trail", !.trail = <<Ev("task.failed")>>]
               ELSE IF Supported
               THEN [Idle EXCEPT !.pc = "checkpoint", !.latest = Found, !.todo = Reached]
               ELSE Idle)
    /\ UNCHANGED <<logVars, checkpoints>>

\* Mutant: a step's own output is in its input lineage.
Lineage_Own(w, n) == [m \in Steps |-> IF m <= n THEN w.latest[m] ELSE 0]

Lineage(w, n) == [m \in Steps |-> IF m < n THEN w.latest[m] ELSE 0]

\* CheckpointStore.save, step by step: the temporary file has a name of its own, and
\* os.replace puts it in place whole; the load that follows only reads.
save(p, n) ==
    LET w == wrap[p]
    IN /\ w.pc = "checkpoint" /\ n \in w.todo
       /\ \A m \in w.todo : n <= m
       /\ checkpoints' = [checkpoints EXCEPT ![n] =
                             [lineage |-> Lineage(w, n), output |-> w.latest[n]]]
       /\ Goto(p, [w EXCEPT !.todo = @ \ {n}])
       /\ UNCHANGED <<taskVars, logVars>>

\* "checkpoint_too_large", or the disk is full.
save_raise(p) ==
    /\ DiskMayFail
    /\ wrap[p].pc = "checkpoint" /\ wrap[p].todo # {}
    /\ Exit(p)
    /\ UNCHANGED <<taskVars, logVars, checkpoints>>

\* Mutant: completion is recorded first.
RunTrail_CompletedFirst ==
    <<Ev("task.execution_completed")>> \o
        [i \in DOMAIN arts |-> [type |-> "artifact.observed", art |-> i]]

\* The events of a finished run: every artifact there is by now, then completion.
RunTrail ==
    Append([i \in DOMAIN arts |-> [type |-> "artifact.observed", art |-> i]],
           Ev("task.execution_completed"))

run_observe(p) ==
    /\ wrap[p].pc = "checkpoint" /\ wrap[p].todo = {}
    /\ Goto(p, [Idle EXCEPT !.pc = "trail", !.trail = RunTrail])
    /\ UNCHANGED <<taskVars, logVars, checkpoints>>

----------------------------------------------------------------------------
(* The other methods: the service's, then its events.                      *)

Enter(p, op) ==
    CASE op = "submit"  -> S!submit(p)
      [] op = "revise"  -> \E i \in DOMAIN arts : S!revise_read(p, i)
      [] op = "approve" -> \E i \in DOMAIN arts, d \in S!Decision : S!approve_read(p, {i}, d)
      [] op = "release" -> S!release_status(p)
      [] op = "retry"   -> S!retry_read(p)
      [] op = "cancel"  -> S!cancel_read(p)

method(p, op) ==
    /\ wrap[p].pc = "idle"
    /\ op \in Methods
    /\ Enter(p, op)
    /\ Goto(p, [Idle EXCEPT !.pc = "service", !.op = op])
    /\ UNCHANGED <<logVars, checkpoints>>

method_exit(p) ==
    /\ wrap[p].pc = "service" /\ wrap[p].op # "run"
    /\ S!Done(p)
    /\ Goto(p, IF proc[p].pc = "raised" THEN Idle
               ELSE [Idle EXCEPT !.pc = "trail", !.trail = <<Ev(wrap[p].op)>>])
    /\ UNCHANGED <<logVars, checkpoints>>

\* A step of the service's method.
ServiceStep(p) ==
    /\ wrap[p].pc = "service"
    /\ (p \in Runner /\ S!RunStep(p)) \/ (p \in Caller /\ S!CallStep(p)) \/ S!session_fails(p)
    /\ UNCHANGED <<logVars, checkpoints, wrap>>

----------------------------------------------------------------------------
(* The trail: one append after the other, until one raises.                *)

trail_append(p) ==
    /\ wrap[p].pc = "trail" /\ wrap[p].trail # <<>>
    /\ append(p, Head(wrap[p].trail))
    /\ Goto(p, [wrap[p] EXCEPT !.trail = Tail(@)])
    /\ UNCHANGED <<taskVars, checkpoints>>

trail_next(p) ==
    /\ wrap[p].pc = "trail"
    /\ LogDone(p)
    /\ IF call[p].pc = "raised" \/ wrap[p].trail = <<>> THEN Exit(p) ELSE UNCHANGED wrap
    /\ UNCHANGED <<taskVars, file, synced, lock, acked, checkpoints>>

AppendStep(p) ==
    /\ append_step(p)
    /\ UNCHANGED <<taskVars, checkpoints, wrap>>

\* A process dies anywhere.
Crash(p) ==
    /\ MayCrash
    /\ wrap[p].pc # "idle"
    /\ wrap' = [wrap EXCEPT ![p] = Idle]
    /\ S!Crash(p) \/ (proc[p].pc = "idle" /\ UNCHANGED taskVars)
    /\ LogCrash(p) \/ (call[p].pc = "idle" /\ UNCHANGED logVars)
    /\ UNCHANGED checkpoints

Next ==
    \/ \E p \in Runner : run(p) \/ run_enter(p) \/ run_exit(p) \/ save_raise(p)
                         \/ run_observe(p) \/ \E n \in Steps : save(p, n)
    \/ \E p \in Caller : (\E op \in Method : method(p, op)) \/ method_exit(p)
    \/ \E p \in Writer : ServiceStep(p) \/ AppendStep(p) \/ trail_append(p) \/ trail_next(p)
                       \/ Crash(p)

Spec == Init /\ [][Next]_vars

----------------------------------------------------------------------------
(* Properties.                                                             *)

Whole(i) == Readable(i)
Started == {i \in DOMAIN file : Whole(i) /\ file[i].event.type = "task.started"}

\* A log that verifies accounts for every execution: a run changes nothing of the task
\* before its "task.started" is on the disk (durable_service.py:80), and nothing
\* that happens later to the log hides that record while the log verifies.
ExecutionsRecorded == Verdict = "valid" => task.attempt <= Cardinality(Started)

\* "task.execution_completed" is the last thing a run writes: every required output
\* was recorded before it, and every step has its checkpoint, whichever process died
\* where (run, _checkpoint_artifacts).
CompletedIsBacked ==
    \A i \in DOMAIN file :
        Whole(i) /\ file[i].event.type = "task.execution_completed" =>
            /\ \A n \in Steps : checkpoints[n] # None
            /\ \A k \in S!Required :
                   \E j \in 1 .. i - 1 : /\ file[j].event.type = "artifact.observed"
                                         /\ arts[file[j].event.art].kind = k

\* A checkpoint describes committed work: its output is an artifact of its step's kind,
\* and its lineage holds an output of each earlier step and nothing else, however often
\* the task was run, revised or retried (_checkpoint_artifacts, CheckpointStore.save).
CheckpointSound ==
    \A n \in Steps :
        LET c == checkpoints[n]
        IN c # None =>
               /\ c.output \in S!OfKind(Pipeline[n])
               /\ \A m \in Steps : IF m < n THEN c.lineage[m] \in S!OfKind(Pipeline[m])
                                            ELSE c.lineage[m] = 0
=============================================================================
