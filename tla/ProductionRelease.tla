------------------------- MODULE ProductionRelease -------------------------
(***************************************************************************)
(* The production release controller (production_release.py): one run      *)
(* qualifies a set of adapters, probes the target slot and the slot to     *)
(* fall back to, switches the traffic, smoke tests the stable path and     *)
(* promotes the adapters, and compensates with a rollback when one of the  *)
(* last two fails.  reconcile settles a switch whose outcome is not known. *)
(*                                                                         *)
(* The controller is composed with the registry of slots, whose journal    *)
(* and traffic controller are those of DeploymentSwitch, and with the      *)
(* compatibility matrix of CompatibilityService: every step of theirs that *)
(* runs on behalf of the controller is a step here.  A run probes the two  *)
(* slots it may need, so health evidence that ages between calls is left   *)
(* out.                                                                    *)
(***************************************************************************)
EXTENDS DeploymentSwitch, CompatibilityService

CONSTANT
    MaxReleases         \* bound on the rows of production_releases

ASSUME ReleaseAssumption == MaxReleases \in Nat

VARIABLES
    releases,   \* the table production_releases, in the order of created_at
    proc        \* where each process is in a method of the controller

vars == <<switchVars, matrixVars, releases, proc>>

Status == {"started", "qualification_failed", "probe_failed", "switch_failed",
           "reconcile_required", "rolled_back", "rollback_failed", "succeeded", "reconciled"}
Row == [target : Slot, previous : Slot \cup {None}, adapters : SUBSET Adapter, status : Status]

PC == {"idle", "create", "qualify", "probe_target", "probe_previous", "switch", "smoke",
       "adapters", "rollback", "save", "observe", "resolve"}

\* A call in progress: the release it is about, its adapters and the slots it read,
\* what the pipeline qualified, and the status to be saved.
Call == [pc : PC, release : Nat, adapters : SUBSET Adapter, target : Slot \cup {None},
         previous : Slot \cup {None}, qualified : SUBSET (Adapter \X Version),
         status : Status]

Idle == [pc |-> "idle", release |-> 0, adapters |-> {}, target |-> None, previous |-> None,
         qualified |-> {}, status |-> "started"]

TypeOK ==
    /\ SwitchTypeOK
    /\ MatrixTypeOK
    /\ releases \in Seq(Row)
    /\ proc \in [Process -> Call]
    /\ \A p \in Process : proc[p].release \in 0 .. Len(releases)

Init ==
    /\ SwitchInit
    /\ MatrixInit
    /\ releases = <<>>
    /\ proc = [p \in Process |-> Idle]

Enters(p, call) == proc' = [proc EXCEPT ![p] = call]
Moves(p, pc) == proc' = [proc EXCEPT ![p].pc = pc]
Saves(p, status) == Enters(p, [proc[p] EXCEPT !.pc = "save", !.status = status])

\* A process is in one method at a time.
Free(p) == proc[p].pc = "idle" /\ dcall[p].pc = "idle" /\ ccall[p].pc = "idle"
Switched(p) == dcall'[p].pc = "idle"

----------------------------------------------------------------------------
(* run.                                                                    *)

\* The target is registered and is not the slot found active; the bounds leave room
\* for a promotion and a rollback.
run_check(p, s, adapters) ==
    /\ Free(p)
    /\ Len(releases) < MaxReleases
    /\ HasActuator => Len(actions) + 2 <= MaxActions
    /\ slots[s].state # "absent"
    /\ \E previous \in IF Active = {} THEN {None} ELSE Active :
           /\ previous # s
           /\ Enters(p, [Idle EXCEPT !.pc = "create", !.adapters = adapters, !.target = s,
                                     !.previous = previous])
    /\ UNCHANGED <<switchVars, matrixVars, releases>>

\* Mutant: the pipeline promotes what it has qualified.
PromoteInPipeline_Default == TRUE

\* promote=False.
PromoteInPipeline == FALSE

\* _create, and the pipeline begins.
run_create(p) ==
    /\ proc[p].pc = "create"
    /\ releases' = Append(releases, [target |-> proc[p].target, previous |-> proc[p].previous,
                                     adapters |-> proc[p].adapters, status |-> "started"])
    /\ pipeline_run(p, proc[p].adapters, PromoteInPipeline)
    /\ Enters(p, [proc[p] EXCEPT !.pc = "qualify", !.release = Len(releases) + 1])
    /\ UNCHANGED switchVars

run_qualified(p) ==
    /\ proc[p].pc = "qualify"
    /\ pipeline_result(p)
    /\ IF ccall[p].ok
       THEN Enters(p, [proc[p] EXCEPT !.pc = "probe_target",
                                      !.qualified = ccall[p].targets])
       ELSE Saves(p, "qualification_failed")
    /\ UNCHANGED <<switchVars, releases>>

\* deployments.probe of the target, then of the slot to fall back to.
run_probe(p) ==
    /\ \/ proc[p].pc = "probe_target" /\ probe_get(p, proc[p].target)
       \/ proc[p].pc = "probe_previous" /\ probe_get(p, proc[p].previous)
    /\ UNCHANGED <<matrixVars, releases, proc>>

\* The probe was recorded, as healthy.
ProbeHealthy(p) == dcall[p].pc = "record" /\ dcall[p].healthy

run_probe_step(p) ==
    /\ proc[p].pc \in {"probe_target", "probe_previous"}
    /\ probe_deployment(p) \/ record_health_read(p) \/ record_health_write(p)
    /\ CASE ~Switched(p) -> UNCHANGED proc
         [] Switched(p) /\ ~ProbeHealthy(p) -> Saves(p, "probe_failed")
         [] OTHER -> Moves(p, IF proc[p].pc = "probe_target" /\ proc[p].previous # None
                              THEN "probe_previous" ELSE "switch")
    /\ UNCHANGED <<matrixVars, releases>>

\* Mutant: a status nobody knows.
SwitchFailure_Unknown == "failed"

\* promote raised: the latest action of the service tells whether traffic may have moved.
SwitchFailure ==
    IF actions' # <<>> /\ actions'[Len(actions')].status = "reconcile_required"
    THEN "reconcile_required" ELSE "switch_failed"

\* deployments.promote begins, or raises at its first check.
run_promote(p) ==
    /\ proc[p].pc = "switch"
    /\ dcall[p].pc = "idle"
    /\ \/ promote_check(p, proc[p].target) /\ UNCHANGED proc
       \/ /\ ~(HealthCurrent(slots[proc[p].target]) /\ slots[proc[p].target].state # "active")
          /\ UNCHANGED switchVars
          /\ Saves(p, SwitchFailure)
    /\ UNCHANGED <<matrixVars, releases>>

\* promote and rollback return after mark_committed; when they end otherwise they raised.
Committed(p) == dcall[p].pc = "mark"

run_promote_step(p) ==
    /\ proc[p].pc = "switch"
    /\ SwitchStep(p)
    /\ CASE ~Switched(p) -> UNCHANGED proc
         [] Switched(p) /\ Committed(p) -> Moves(p, "smoke")
         [] OTHER -> Saves(p, SwitchFailure)
    /\ UNCHANGED <<matrixVars, releases>>

\* Mutant: a failing smoke test ends the run.
SmokeFailed_Ends(p) == Saves(p, "rolled_back")

SmokeFailed(p) == Moves(p, "rollback")

\* The stable path answers, maybe with the slot that serves it; an answer that names
\* another slot is a failure.
run_smoke(p) ==
    /\ proc[p].pc = "smoke"
    /\ \/ \E reported \in {None, IF HasActuator THEN traffic ELSE proc[p].target} :
              IF reported \in {None, proc[p].target}
              THEN Moves(p, "adapters") ELSE SmokeFailed(p)
       \/ SmokeFailed(p)
    /\ UNCHANGED <<switchVars, matrixVars, releases>>

\* compatibility.promote_many.
run_promote_adapters(p) ==
    /\ proc[p].pc = "adapters"
    /\ ccall[p].pc = "idle"
    /\ promote_many(p, proc[p].qualified)
    /\ UNCHANGED <<switchVars, releases, proc>>

\* Mutant: the adapters' promotion is not compensated for.
AdaptersFailed_Ignored(p) == Saves(p, "succeeded")

AdaptersFailed(p) == Moves(p, "rollback")

run_adapters(p) ==
    /\ proc[p].pc = "adapters"
    /\ pipeline_result(p)
    /\ IF ccall[p].ok THEN Saves(p, "succeeded") ELSE AdaptersFailed(p)
    /\ UNCHANGED <<switchVars, releases>>

\* The steps of the matrix on behalf of the controller.
run_matrix_step(p) ==
    /\ proc[p].pc \in {"qualify", "adapters"}
    /\ MatrixStep(p)
    /\ UNCHANGED <<switchVars, releases, proc>>

\* _rollback: deployments.rollback takes whichever standby was promoted last, or raises:
\* there is none, or the pending row cannot be written.
run_rollback(p) ==
    /\ proc[p].pc = "rollback"
    /\ dcall[p].pc = "idle"
    /\ \/ rollback_list(p) /\ UNCHANGED proc
       \/ /\ Eligible = {} \/ CommitMayFail
          /\ UNCHANGED switchVars
          /\ Saves(p, "rollback_failed")
    /\ UNCHANGED <<matrixVars, releases>>

run_rollback_step(p) ==
    /\ proc[p].pc = "rollback"
    /\ SwitchStep(p)
    /\ CASE ~Switched(p) -> UNCHANGED proc
         [] Switched(p) /\ Committed(p) -> Saves(p, "rolled_back")
         [] OTHER -> Saves(p, "rollback_failed")
    /\ UNCHANGED <<matrixVars, releases>>

\* _save.
run_save(p) ==
    /\ proc[p].pc = "save"
    /\ releases' = [releases EXCEPT ![proc[p].release].status = proc[p].status]
    /\ Enters(p, Idle)
    /\ UNCHANGED <<switchVars, matrixVars>>

----------------------------------------------------------------------------
(* reconcile.                                                              *)

\* The stable path is asked which slot serves it (the endpoint and the command).
observe_stable(p) ==
    /\ Free(p)
    /\ reconcile_observe(p)
    /\ Moves(p, "observe")
    /\ UNCHANGED <<matrixVars, releases>>

\* Mutant: the release is settled although the registry was not.
Reconciled_Always(p) == dcall[p].pc # "idle"

\* deployments.reconcile returned, and did not raise.
Reconciled(p) == dcall[p].pc = "reconcile"

reconcile_switch(p) ==
    /\ proc[p].pc = "observe"
    /\ reconcile_read(p) \/ reconcile_write(p)
    /\ CASE ~Switched(p) -> UNCHANGED proc
         [] Switched(p) /\ Reconciled(p) -> Moves(p, "resolve")
         [] OTHER -> Enters(p, Idle)
    /\ UNCHANGED <<matrixVars, releases>>

\* Mutant: any release that has not succeeded.
Unresolved_Any == {r \in DOMAIN releases : releases[r].status # "succeeded"}

\* The release that was saved last as reconcile_required: calls of run do not overlap,
\* so it is the latest created.
Unresolved == {r \in DOMAIN releases : releases[r].status = "reconcile_required"}

reconcile_resolve(p) ==
    /\ proc[p].pc = "resolve"
    /\ releases' = [r \in DOMAIN releases |->
           IF r \in Unresolved /\ \A q \in Unresolved : q <= r
           THEN [releases[r] EXCEPT !.status = "reconciled"] ELSE releases[r]]
    /\ Enters(p, Idle)
    /\ UNCHANGED <<switchVars, matrixVars>>

----------------------------------------------------------------------------
(* The other endpoints, and what happens to the processes.                 *)

Endpoint(p) ==
    /\ proc[p].pc = "idle"
    /\ Register(p) \/ Probe(p) \/ rollback_list(p) \/ SwitchStep(p)
    /\ UNCHANGED <<matrixVars, releases, proc>>

\* A session of the registry's raises: the run takes it for a failed probe, a failed
\* switch or a failed rollback, whatever was committed before; reconcile and the other
\* endpoints are over.
registry_raises(p) ==
    /\ SwitchRaises(p)
    /\ \/ proc[p].pc \in {"probe_target", "probe_previous"} /\ Saves(p, "probe_failed")
       \/ proc[p].pc = "switch" /\ Saves(p, SwitchFailure)
       \/ proc[p].pc = "rollback" /\ Saves(p, "rollback_failed")
       \/ proc[p].pc = "observe" /\ Enters(p, Idle)
       \/ proc[p].pc = "idle" /\ UNCHANGED proc
    /\ UNCHANGED <<matrixVars, releases>>

\* The process is started again with another version of an adapter.
Upgrade(p) ==
    /\ Free(p)
    /\ \E a \in Adapter, v \in Version : MatrixUpgrade(p, a, v)
    /\ UNCHANGED <<switchVars, releases, proc>>

\* The process dies: whatever method it was in is not finished.
Crash(p) ==
    /\ MayCrash
    /\ ~Free(p)
    /\ dcall' = [dcall EXCEPT ![p] = SwitchIdle]
    /\ ccall' = [ccall EXCEPT ![p] = MatrixIdle]
    /\ Enters(p, Idle)
    /\ UNCHANGED <<slots, last, actions, traffic, entries, evidence, registry, releases>>

Run(p) ==
    \/ \E s \in Slot, adapters \in (SUBSET Adapter) \ {{}} : run_check(p, s, adapters)
    \/ run_create(p)
    \/ run_qualified(p)
    \/ run_probe(p) \/ run_probe_step(p)
    \/ run_promote(p) \/ run_promote_step(p)
    \/ run_smoke(p)
    \/ run_promote_adapters(p) \/ run_adapters(p)
    \/ run_matrix_step(p)
    \/ run_rollback(p) \/ run_rollback_step(p)
    \/ run_save(p)

ReconcileRelease(p) == observe_stable(p) \/ reconcile_switch(p) \/ reconcile_resolve(p)

Next ==
    \E p \in Process :
        \/ Run(p) \/ ReconcileRelease(p) \/ Endpoint(p)
        \/ registry_raises(p) \/ Upgrade(p) \/ Crash(p)

Spec == Init /\ [][Next]_vars

----------------------------------------------------------------------------
(* Properties, for one process: runs do not overlap other calls.           *)

Saved(r) == r \in DOMAIN releases /\ releases'[r].status # releases[r].status

\* A release is recorded as succeeded only when everything it promised is in force:
\* its slot is the active one and serves the traffic, and its adapters' versions are
\* active on a passing latest qualification (run).
SucceededIsInForce ==
    [][\A r \in DOMAIN releases : Saved(r) /\ releases'[r].status = "succeeded" =>
           /\ Active = {releases[r].target}
           /\ HasActuator => traffic = releases[r].target
           /\ \E p \in Process : \A a \in releases[r].adapters : InForce(p, a)]_vars

\* promote had committed when its last session raised: the target is active and serves
\* the traffic, and the journal goes no further than "actuated".
SwitchedUnrecorded(r) ==
    /\ Active = {releases[r].target}
    /\ HasActuator =>
           /\ traffic = releases[r].target
           /\ actions[Len(actions)].status = "actuated"

\* A release that ends in any other way, and does not say that its rollback failed or
\* that it needs reconciliation, leaves the slot active that was active before; but a
\* failed switch may also have gone through, and then the journal does not say so (run,
\* _rollback, promote).
FailedLeavesPrevious ==
    [][\A r \in DOMAIN releases :
           /\ Saved(r)
           /\ releases'[r].status \in {"qualification_failed", "probe_failed", "switch_failed",
                                      "rolled_back"}
           => \/ Active = {releases[r].previous} \ {None}
              \/ releases'[r].status = "switch_failed" /\ SwitchedUnrecorded(r)]_vars

\* No step of a run makes a version active before the switch and its smoke test: a run
\* that fails earlier promotes no adapter (run).
AdaptersLast ==
    [][\A p \in Process, a \in Adapter, v \in Version :
           /\ proc[p].pc # "idle"
           /\ entries[a][v] # "active"
           /\ entries'[a][v] = "active"
           => Active = {proc[p].target}]_vars

\* The outcome of a release is recorded once; only a release that needs reconciliation
\* gets another (_save, reconcile).
OutcomeFinal ==
    [][\A r \in DOMAIN releases : Saved(r) =>
           \/ releases[r].status = "started"
           \/ releases[r].status = "reconcile_required" /\ releases'[r].status = "reconciled"]_vars

\* A release is settled as reconciled only when the registry follows the traffic again
\* (reconcile).
ReconciledIsServed ==
    [][\A r \in DOMAIN releases :
           Saved(r) /\ releases'[r].status = "reconciled" => Active = {traffic}]_vars
============================================================================
