-------------------------- MODULE DeploymentSwitch --------------------------
(***************************************************************************)
(* The blue/green registry of one service (deployment_switch.py) and the   *)
(* external traffic controller it drives (deployment_actuator.py).         *)
(*                                                                         *)
(* Nothing serialises the callers of the registry: the release lease is    *)
(* taken by ReleaseOperator.execute only, not by the HTTP endpoints for    *)
(* register, probe, rollback and reconcile.  A session that decides on     *)
(* what it read is two steps, the read and the commit.                     *)
(***************************************************************************)
EXTENDS Naturals, Sequences, FiniteSets, UnitOfWork

CONSTANTS
    Slot,               \* {"blue", "green"}
    Release,            \* what is deployed in a slot: an endpoint and a version
    HasActuator,        \* TRUE: a traffic controller is configured
    Ambiguous,          \* TRUE: apply may raise although traffic has moved
    MaxActions,         \* bound on the rows of deployment_actions
    None                \* SQL NULL

ASSUME SwitchAssumption ==
    /\ IsFiniteSet(Slot)
    /\ Cardinality(Slot) = 2
    /\ None \notin Slot
    /\ None \notin Release
    /\ HasActuator \in BOOLEAN
    /\ Ambiguous \in BOOLEAN
    /\ MaxActions \in Nat

VARIABLES
    slots,      \* the table service_deployments, by slot
    last,       \* the slot with the latest promoted_at
    actions,    \* the table deployment_actions in the order of created_at
    traffic,    \* the slot the external controller routes to
    dcall       \* the method call each process is in

switchVars == <<slots, last, actions, traffic, dcall>>

SlotState == {"absent", "candidate", "active", "standby", "blocked"}

\* evidence.of is the release that the recorded probe talked to; evidence.fresh
\* says that checked_at is no older than health_max_age_seconds.
Evidence == [of : Release \cup {None}, fresh : BOOLEAN]
SlotRow == [state : SlotState, release : Release \cup {None},
            health : {"unknown", "healthy", "unhealthy"}, evidence : Evidence]

ActionStatus == {"pending", "actuated", "failed", "committed",
                 "reconcile_required", "reconciled"}

\* since numbers the actions in the order they became reconcile_required, the
\* order of updated_at among them.
Action == [from : Slot \cup {None}, to : Slot, status : ActionStatus, since : Nat]

SwitchPC == {"idle", "register", "probing", "probed", "record", "listing", "apply",
             "applied", "refused", "committing", "commit", "mark", "unrecorded",
             "observed", "reconcile"}

\* A call in progress: its operation, its slot, the rows its session read, the
\* release it registers or probes, the probe's verdict, and its journal row.
SwitchCall == [pc : SwitchPC, op : {"promote", "rollback"}, slot : Slot \cup {None},
               seen : [Slot -> SlotRow], release : Release \cup {None}, healthy : BOOLEAN,
               act : Nat]

NoEvidence == [of |-> None, fresh |-> FALSE]
NoRow == [state |-> "absent", release |-> None, health |-> "unknown",
          evidence |-> NoEvidence]
NoRows == [s \in Slot |-> NoRow]
SwitchIdle == [pc |-> "idle", op |-> "promote", slot |-> None, seen |-> NoRows,
               release |-> None, healthy |-> FALSE, act |-> 0]

\* The calls that have a row in the journal; one at "mark" has it when there is an
\* actuator.
Journalled == {"apply", "applied", "refused", "unrecorded", "reconcile"}

\* A call in progress names a slot, and its journal row is among the first n.
CallOK(call, n) ==
    /\ call \in SwitchCall
    /\ call.pc # "idle" => call.slot \in Slot
    /\ call.act \in 0 .. n
    /\ call.pc \in Journalled => call.act # 0

SwitchTypeOK ==
    /\ slots \in [Slot -> SlotRow]
    /\ last \in Slot \cup {None}
    /\ actions \in Seq(Action)
    /\ traffic \in Slot \cup {None}
    /\ dcall \in [Process -> SwitchCall]
    /\ \A p \in Process : CallOK(dcall[p], Len(actions))

SwitchInit ==
    /\ slots = NoRows
    /\ last = None
    /\ actions = <<>>
    /\ traffic = None
    /\ dcall = [p \in Process |-> SwitchIdle]

Active == {s \in Slot : slots[s].state = "active"}

HealthCurrent(row) == row.health = "healthy" /\ row.evidence.fresh

Returns(p) == dcall' = [dcall EXCEPT ![p] = SwitchIdle]
SwitchEnters(p, call) == dcall' = [dcall EXCEPT ![p] = call]
SwitchMoves(p, pc) == dcall' = [dcall EXCEPT ![p].pc = pc]

----------------------------------------------------------------------------
(* register and probe.                                                     *)

\* register raises for an active slot, and writes nothing when nothing changed.
Registrable(s, r) == slots[s].release # r /\ slots[s].state # "active"

register_read(p, s, r) ==
    /\ dcall[p].pc = "idle"
    /\ Registrable(s, r)
    /\ SwitchEnters(p, [SwitchIdle EXCEPT !.pc = "register", !.slot = s, !.seen = slots,
                                          !.release = r])
    /\ UNCHANGED <<slots, last, actions, traffic>>

\* Mutant: the evidence of the replaced release stays on the row.
Registered_KeepsEvidence(old, now, r) ==
    [now EXCEPT !.release = r, !.state = Assign(old.state, @, "candidate")]

\* The row after a register that read old and finds the row at now.
Registered(old, now, r) ==
    [state |-> Assign(old.state, now.state, "candidate"),
     release |-> r,
     health |-> Assign(old.health, now.health, "unknown"),
     evidence |-> Assign(old.evidence, now.evidence, NoEvidence)]

\* A second INSERT of the same slot breaks the unique constraint and raises.
register_write(p) ==
    LET s == dcall[p].slot
        old == dcall[p].seen[s]
    IN  /\ dcall[p].pc = "register"
        /\ slots' = IF old.state = "absent" /\ slots[s].state # "absent" THEN slots
                   ELSE [slots EXCEPT ![s] = IF @.state = "absent"
                             THEN [NoRow EXCEPT !.state = "candidate",
                                                !.release = dcall[p].release]
                             ELSE Registered(old, @, dcall[p].release)]
        /\ Returns(p)
        /\ UNCHANGED <<last, actions, traffic>>

\* probe reads the endpoint, talks to it, and records what it heard.
probe_get(p, s) ==
    /\ dcall[p].pc = "idle"
    /\ slots[s].state # "absent"
    /\ SwitchEnters(p, [SwitchIdle EXCEPT !.pc = "probing", !.slot = s,
                                          !.release = slots[s].release])
    /\ UNCHANGED <<slots, last, actions, traffic>>

\* A transport error or an oversized answer raises and nothing is recorded.
probe_deployment(p) ==
    /\ dcall[p].pc = "probing"
    /\ \/ \E ok \in BOOLEAN :
              SwitchEnters(p, [dcall[p] EXCEPT !.pc = "probed", !.healthy = ok])
       \/ Returns(p)
    /\ UNCHANGED <<slots, last, actions, traffic>>

record_health_read(p) ==
    /\ dcall[p].pc = "probed"
    /\ SwitchEnters(p, [dcall[p] EXCEPT !.pc = "record", !.seen = slots])
    /\ UNCHANGED <<slots, last, actions, traffic>>

\* The evidence carries the time of the probe, so it always differs.
record_health_write(p) ==
    LET s == dcall[p].slot
        old == dcall[p].seen[s]
    IN  /\ dcall[p].pc = "record"
        /\ slots' = [slots EXCEPT ![s] =
               [state |-> IF ~dcall[p].healthy /\ old.state = "candidate"
                          THEN "blocked" ELSE @.state,
                release |-> @.release,
                health |-> Assign(old.health, @.health,
                                  IF dcall[p].healthy THEN "healthy" ELSE "unhealthy"),
                evidence |-> [of |-> dcall[p].release, fresh |-> TRUE]]]
        /\ Returns(p)
        /\ UNCHANGED <<last, actions, traffic>>

\* The evidence of a slot passes health_max_age_seconds.
Expire(s) ==
    /\ slots[s].evidence.fresh
    /\ slots' = [slots EXCEPT ![s].evidence.fresh = FALSE]
    /\ UNCHANGED <<last, actions, traffic, dcall>>

----------------------------------------------------------------------------
(* promote and rollback: choose the target, move the traffic, commit.      *)

\* The bound on the journal, tested before a call starts.
Room == HasActuator => Len(actions) < MaxActions

promote_check(p, s) ==
    /\ dcall[p].pc = "idle"
    /\ Room
    /\ HealthCurrent(slots[s])
    /\ slots[s].state # "active"
    /\ SwitchEnters(p, [SwitchIdle EXCEPT !.pc = "listing", !.slot = s])
    /\ UNCHANGED <<slots, last, actions, traffic>>

\* _actuate's first half: the pending row, an insert nobody else refers to.
Pending(p, op, s) ==
    IF HasActuator
    THEN /\ Room
         /\ \E from \in IF Active = {} THEN {None} ELSE Active :
                actions' = Append(actions, [from |-> from, to |-> s,
                                            status |-> "pending", since |-> 0])
         /\ SwitchEnters(p, [SwitchIdle EXCEPT !.pc = "apply", !.op = op, !.slot = s,
                                               !.act = Len(actions) + 1])
    ELSE /\ SwitchEnters(p, [SwitchIdle EXCEPT !.pc = "committing", !.op = op, !.slot = s])
         /\ UNCHANGED actions

promote_list(p) ==
    /\ dcall[p].pc = "listing"
    /\ Pending(p, "promote", dcall[p].slot)
    /\ UNCHANGED <<slots, last, traffic>>

\* The standby slots rollback may take; the one promoted last wins.
Eligible == {s \in Slot : slots[s].state = "standby" /\ HealthCurrent(slots[s])}

rollback_list(p) ==
    /\ dcall[p].pc = "idle"
    /\ \E s \in Eligible :
           /\ last \in Eligible => s = last
           /\ Pending(p, "rollback", s)
    /\ UNCHANGED <<slots, last, traffic>>

\* The controller moves the traffic, or refuses; an answer that is lost or
\* rejected after the move raises as well.
apply(p) ==
    /\ dcall[p].pc = "apply"
    /\ \/ traffic' = dcall[p].slot /\ SwitchMoves(p, "applied")
       \/ UNCHANGED traffic /\ SwitchMoves(p, "refused")
       \/ Ambiguous /\ traffic' = dcall[p].slot /\ SwitchMoves(p, "refused")
    /\ UNCHANGED <<slots, last, actions>>

record_action_result(p) ==
    \/ /\ dcall[p].pc = "applied"
       /\ actions' = [actions EXCEPT ![dcall[p].act].status = "actuated"]
       /\ SwitchMoves(p, "committing")
       /\ UNCHANGED <<slots, last, traffic>>
    \/ /\ dcall[p].pc = "refused"
       /\ actions' = [actions EXCEPT ![dcall[p].act].status = "failed"]
       /\ Returns(p)
       /\ UNCHANGED <<slots, last, traffic>>

\* The except clause: without a journal row the exception just propagates.
Uncommitted(p) == IF dcall[p].act = 0 THEN Returns(p) ELSE SwitchMoves(p, "unrecorded")

\* What the committing session asks again of the target.
Committable(p) ==
    LET row == slots[dcall[p].slot]
    IN  /\ HealthCurrent(row)
        /\ dcall[p].op = "rollback" => row.state = "standby"

commit_read(p) ==
    /\ dcall[p].pc = "committing"
    /\ IF Committable(p)
       THEN SwitchEnters(p, [dcall[p] EXCEPT !.pc = "commit", !.seen = slots])
       ELSE Uncommitted(p)
    /\ UNCHANGED <<slots, last, actions, traffic>>

\* Mutant: the previous active row is not demoted.
Transition_NoDemotion(t, old) ==
    [s \in Slot |->
        IF s = t THEN [slots[s] EXCEPT !.state = Assign(old[s].state, @, "active")]
        ELSE slots[s]]

\* The target becomes active, and what was read as active becomes standby.
Transition(t, old) ==
    [s \in Slot |->
        CASE s = t -> [slots[s] EXCEPT !.state = Assign(old[s].state, @, "active")]
          [] s # t /\ old[s].state = "active" -> [slots[s] EXCEPT !.state = "standby"]
          [] OTHER -> slots[s]]

commit_write(p) ==
    /\ dcall[p].pc = "commit"
    /\ \/ /\ slots' = Transition(dcall[p].slot, dcall[p].seen)
          /\ last' = dcall[p].slot
          /\ SwitchMoves(p, "mark")
       \/ /\ CommitMayFail
          /\ Uncommitted(p)
          /\ UNCHANGED <<slots, last>>
    /\ UNCHANGED <<actions, traffic>>

\* What is left after the commit: the journal row, if there is one, and the row read
\* again for the caller.
mark_committed(p) ==
    /\ dcall[p].pc = "mark"
    /\ actions' = IF dcall[p].act = 0 THEN actions
                  ELSE [actions EXCEPT ![dcall[p].act].status = "committed"]
    /\ Returns(p)
    /\ UNCHANGED <<slots, last, traffic>>

Pendings == {i \in DOMAIN actions : actions[i].status = "reconcile_required"}
Later(i) == {j \in DOMAIN actions : actions[j].since > actions[i].since}

\* Mutant: the row is marked with a word reconcile does not look for.
mark_reconcile_required_Misspelt(p) ==
    /\ dcall[p].pc = "unrecorded"
    /\ actions' = [actions EXCEPT ![dcall[p].act].status = "reconcile"]
    /\ Returns(p)
    /\ UNCHANGED <<slots, last, traffic>>

mark_reconcile_required(p) ==
    /\ dcall[p].pc = "unrecorded"
    /\ actions' = [actions EXCEPT
           ![dcall[p].act].status = "reconcile_required",
           ![dcall[p].act].since = 1 + Cardinality({i \in DOMAIN actions : actions[i].since > 0})]
    /\ Returns(p)
    /\ UNCHANGED <<slots, last, traffic>>

----------------------------------------------------------------------------
(* reconcile: the caller asks the stable path which slot serves it, and    *)
(* the registry follows.                                                   *)

reconcile_observe(p) ==
    /\ dcall[p].pc = "idle"
    /\ traffic # None
    /\ SwitchEnters(p, [SwitchIdle EXCEPT !.pc = "observed", !.slot = traffic])
    /\ UNCHANGED <<slots, last, actions, traffic>>

\* The action that became reconcile_required last is the one resolved; none, or
\* one about other slots, raises.
reconcile_read(p) ==
    /\ dcall[p].pc = "observed"
    /\ LET latest == {i \in Pendings : Later(i) \cap Pendings = {}}
       IN  \/ /\ \A i \in latest : dcall[p].slot \notin {actions[i].from, actions[i].to}
              /\ Returns(p)
           \/ \E i \in latest :
                  /\ dcall[p].slot \in {actions[i].from, actions[i].to}
                  /\ SwitchEnters(p, [dcall[p] EXCEPT !.pc = "reconcile", !.seen = slots,
                                                      !.act = i])
    /\ UNCHANGED <<slots, last, actions, traffic>>

\* Mutant: the registry follows the journal instead of the observation.
ObservedSlot_Journal(p) == actions[dcall[p].act].to

\* observed_slot.
ObservedSlot(p) == dcall[p].slot

reconcile_write(p) ==
    /\ dcall[p].pc = "reconcile"
    /\ slots' = Transition(ObservedSlot(p), dcall[p].seen)
    /\ last' = ObservedSlot(p)
    /\ actions' = [actions EXCEPT ![dcall[p].act].status = "reconciled"]
    /\ Returns(p)
    /\ UNCHANGED traffic

----------------------------------------------------------------------------

\* The steps whose session is in no try of the registry's: what it raises is raised by
\* the method, and an exception that was about to be recorded is replaced by it.
Unguarded == {"register", "record", "listing", "applied", "refused", "mark", "unrecorded",
              "reconcile"}

\* Such a session raises: nothing of it is written and the method is over, also when the
\* traffic has moved or the registry has committed.
SwitchRaises(p) ==
    /\ CommitMayFail
    /\ dcall[p].pc \in Unguarded
    /\ Returns(p)
    /\ UNCHANGED <<slots, last, actions, traffic>>

\* The process dies inside a method and the next call starts afresh.
SwitchCrash(p) ==
    /\ MayCrash
    /\ dcall[p].pc # "idle"
    /\ Returns(p)
    /\ UNCHANGED <<slots, last, actions, traffic>>

Register(p) == (\E s \in Slot, r \in Release : register_read(p, s, r)) \/ register_write(p)

Probe(p) ==
    \/ \E s \in Slot : probe_get(p, s)
    \/ probe_deployment(p)
    \/ record_health_read(p)
    \/ record_health_write(p)

SwitchStep(p) ==
    \/ promote_list(p)
    \/ apply(p)
    \/ record_action_result(p)
    \/ commit_read(p)
    \/ commit_write(p)
    \/ mark_committed(p)
    \/ mark_reconcile_required(p)

Switch(p) == (\E s \in Slot : promote_check(p, s)) \/ rollback_list(p) \/ SwitchStep(p)

Reconcile(p) == reconcile_observe(p) \/ reconcile_read(p) \/ reconcile_write(p)

SwitchNext ==
    \/ \E p \in Process :
           \/ Register(p) \/ Probe(p) \/ Switch(p) \/ Reconcile(p)
           \/ SwitchRaises(p) \/ SwitchCrash(p)
    \/ \E s \in Slot : Expire(s)

SwitchSpec == SwitchInit /\ [][SwitchNext]_switchVars

----------------------------------------------------------------------------
(* Properties.                                                             *)

\* At most one slot of the service is active (promote, rollback, reconcile).
OneActive == \A s, t \in Active : s = t

\* A slot that counts as healthy was probed as what is deployed there now: the
\* evidence of a replaced release never carries over (register, probe).
EvidenceMatches ==
    \A s \in Slot : slots[s].health = "healthy" => slots[s].evidence.of = slots[s].release

Quiet == \A p \in Process : dcall[p].pc = "idle"

\* The journal is honest: when its latest action says committed or reconciled, the
\* active slot is the one that serves the traffic, whatever crashed, failed or was
\* refused before (promote, rollback, reconcile).
RegistryMatchesTraffic ==
    Quiet /\ actions # <<>> /\ actions[Len(actions)].status \in {"committed", "reconciled"} =>
        Active = {traffic}

\* When registry and traffic disagree, some action is there to be reconciled.
DivergenceReconcilable ==
    Quiet /\ traffic # None /\ Active # {traffic} => Pendings # {}
============================================================================
