----------------------- MODULE ProductionReleaseProofs -----------------------
(***************************************************************************)
(* The release components: what the registry of slots promises by itself,  *)
(* what the compatibility matrix does, and what the controller makes of    *)
(* the two, for every number of releases, adapters, versions and rows.     *)
(***************************************************************************)
EXTENDS ProductionRelease, FiniteSetTheorems, TLAPS

----------------------------------------------------------------------------
(* The registry: types.                                                    *)

LEMMA NoRowsType == NoRow \in SlotRow /\ NoRows \in [Slot -> SlotRow]
  BY DEF NoRows, NoRow, NoEvidence, SlotRow, SlotState, Evidence

LEMMA IdleType ==
    /\ SwitchIdle \in SwitchCall
    /\ SwitchIdle.act = 0
    /\ \A n \in Nat : CallOK(SwitchIdle, n)
  BY NoRowsType DEF SwitchIdle, SwitchCall, CallOK, SwitchPC, Journalled

LEMMA TablesType ==
    ASSUME SwitchTypeOK
    PROVE  /\ slots \in [Slot -> SlotRow]
           /\ last \in Slot \cup {None}
           /\ actions \in Seq(Action)
           /\ traffic \in Slot \cup {None}
           /\ Len(actions) \in Nat
  BY DEF SwitchTypeOK

LEMMA TransitionType ==
    ASSUME SwitchTypeOK, NEW t \in Slot, NEW old \in [Slot -> SlotRow]
    PROVE  Transition(t, old) \in [Slot -> SlotRow]
  BY DEF SwitchTypeOK, Transition, Assign, SlotRow, SlotState

\* The call that actuates, and the one that reconciles.
LEMMA JournalledCallType ==
    ASSUME NEW call \in SwitchCall, NEW act \in Nat, NEW seen \in [Slot -> SlotRow],
           NEW op \in {"promote", "rollback"}, NEW s \in Slot
    PROVE  /\ [call EXCEPT !.pc = "apply", !.op = op, !.slot = s, !.act = act] \in SwitchCall
           /\ [call EXCEPT !.pc = "reconcile", !.seen = seen, !.act = act] \in SwitchCall
  BY DEF SwitchCall, SwitchPC

\* A step that writes well typed tables and moves one call is well typed.
LEMMA StepType ==
    ASSUME SwitchTypeOK, NEW p \in Process, NEW call,
           dcall' = [dcall EXCEPT ![p] = call],
           CallOK(call, Len(actions')),
           slots' \in [Slot -> SlotRow],
           last' \in Slot \cup {None},
           actions' \in Seq(Action),
           Len(actions) <= Len(actions'),
           traffic' \in Slot \cup {None}
    PROVE  SwitchTypeOK'
<1>1. Len(actions) \in Nat /\ Len(actions') \in Nat
  BY DEF SwitchTypeOK
<1>2. dcall' \in [Process -> SwitchCall]
  BY DEF SwitchTypeOK, CallOK
<1>3. \A q \in Process : CallOK(dcall'[q], Len(actions'))
  BY <1>1 DEF SwitchTypeOK, CallOK
<1>. QED  BY <1>2, <1>3 DEF SwitchTypeOK

\* A step that leaves the tables alone.
LEMMA CallStepType ==
    ASSUME SwitchTypeOK, NEW p \in Process, NEW call,
           dcall' = [dcall EXCEPT ![p] = call],
           CallOK(call, Len(actions)),
           UNCHANGED <<slots, last, actions, traffic>>
    PROVE  SwitchTypeOK'
<1>1. Len(actions') = Len(actions) /\ Len(actions) <= Len(actions')
  BY TablesType
<1>2. CallOK(call, Len(actions'))
  BY <1>1
<1>. QED  BY <1>1, <1>2, StepType, TablesType

\* A call that returns or raises, and one that goes on to its next step.
LEMMA ReturnType ==
    ASSUME SwitchTypeOK, NEW p \in Process, Returns(p),
           slots' \in [Slot -> SlotRow],
           last' \in Slot \cup {None},
           actions' \in Seq(Action),
           Len(actions') = Len(actions),
           traffic' \in Slot \cup {None}
    PROVE  SwitchTypeOK'
<1>1. Len(actions) \in Nat
  BY TablesType
<1>2. CallOK(SwitchIdle, Len(actions'))
  BY <1>1, IdleType
<1>3. Len(actions) <= Len(actions')
  BY <1>1
<1>4. dcall' = [dcall EXCEPT ![p] = SwitchIdle]
  BY DEF Returns
<1>. QED  BY <1>2, <1>3, <1>4, StepType

LEMMA MoveType ==
    ASSUME SwitchTypeOK, NEW p \in Process, dcall[p].pc # "idle", NEW pc \in SwitchPC,
           pc \in Journalled => dcall[p].act # 0
    PROVE  CallOK([dcall[p] EXCEPT !.pc = pc], Len(actions))
  BY DEF SwitchTypeOK, CallOK, SwitchCall

LEMMA GoesOnType ==
    ASSUME SwitchTypeOK, NEW p \in Process, dcall[p].pc # "idle", NEW pc \in SwitchPC,
           SwitchMoves(p, pc),
           pc \in Journalled => dcall[p].act # 0,
           slots' \in [Slot -> SlotRow],
           last' \in Slot \cup {None},
           actions' \in Seq(Action),
           Len(actions') = Len(actions),
           traffic' \in Slot \cup {None}
    PROVE  SwitchTypeOK'
<1>1. CallOK([dcall[p] EXCEPT !.pc = pc], Len(actions'))
  BY MoveType
<1>2. Len(actions) <= Len(actions')
  BY TablesType
<1>3. dcall' = [dcall EXCEPT ![p] = [dcall[p] EXCEPT !.pc = pc]]
  BY DEF SwitchMoves, SwitchTypeOK
<1>. QED  BY <1>1, <1>2, <1>3, StepType

\* The call of a process that is inside a method.
LEMMA ProcType ==
    ASSUME SwitchTypeOK, NEW p \in Process
    PROVE  /\ dcall[p] \in SwitchCall
           /\ dcall[p].seen \in [Slot -> SlotRow]
           /\ dcall[p].release \in Release \cup {None}
           /\ dcall[p].healthy \in BOOLEAN
           /\ dcall[p].pc # "idle" => dcall[p].slot \in Slot
           /\ dcall[p].pc \in Journalled => dcall[p].act \in 1 .. Len(actions)
<1>1. dcall[p] \in SwitchCall /\ CallOK(dcall[p], Len(actions)) /\ Len(actions) \in Nat
  BY DEF SwitchTypeOK
<1>. QED  BY <1>1 DEF SwitchCall, CallOK

\* A status written to the journal.
LEMMA JournalType ==
    ASSUME SwitchTypeOK, NEW i \in 1 .. Len(actions), NEW st \in ActionStatus
    PROVE  /\ [actions EXCEPT ![i].status = st] \in Seq(Action)
           /\ Len([actions EXCEPT ![i].status = st]) = Len(actions)
<1>1. actions \in Seq(Action) /\ i \in DOMAIN actions /\ actions[i] \in Action
  BY TablesType
<1>2. [actions[i] EXCEPT !.status = st] \in Action
  BY <1>1 DEF Action
<1>. QED  BY <1>1, <1>2

LEMMA RegisterType ==
    ASSUME SwitchTypeOK, NEW p \in Process, Register(p)
    PROVE  SwitchTypeOK'
<1>1. ASSUME NEW s \in Slot, NEW r \in Release, register_read(p, s, r)
      PROVE  SwitchTypeOK'
  <2>. DEFINE call == [SwitchIdle EXCEPT !.pc = "register", !.slot = s, !.seen = slots, !.release = r]
  <2>1. CallOK(call, Len(actions))
    BY IdleType, TablesType DEF SwitchCall, CallOK, SwitchPC, Journalled
  <2>2. dcall' = [dcall EXCEPT ![p] = call] /\ UNCHANGED <<slots, last, actions, traffic>>
    BY <1>1 DEF register_read, SwitchEnters
  <2>. HIDE DEF call
  <2>. QED  BY <2>1, <2>2, CallStepType
<1>2. ASSUME register_write(p)
      PROVE  SwitchTypeOK'
  <2>. DEFINE s == dcall[p].slot
              r == dcall[p].release
  <2>1. s \in Slot /\ r \in Release \cup {None} /\ dcall[p].seen[s] \in SlotRow /\ slots[s] \in SlotRow
    BY <1>2, ProcType DEF register_write, SwitchTypeOK
  <2>2. Registered(dcall[p].seen[s], slots[s], r) \in SlotRow
    BY <2>1 DEF Registered, Assign, NoEvidence, SlotRow, SlotState, Evidence
  <2>3. [NoRow EXCEPT !.state = "candidate", !.release = r] \in SlotRow
    BY <2>1, NoRowsType DEF SlotRow, SlotState
  <2>4. slots' \in [Slot -> SlotRow]
    BY <1>2, <2>1, <2>2, <2>3 DEF register_write, SwitchTypeOK
  <2>. QED  BY <1>2, <2>4, ReturnType, TablesType DEF register_write
<1>. QED  BY <1>1, <1>2 DEF Register

LEMMA ProbeType ==
    ASSUME SwitchTypeOK, NEW p \in Process, Probe(p)
    PROVE  SwitchTypeOK'
<1>1. ASSUME NEW s \in Slot, probe_get(p, s)
      PROVE  SwitchTypeOK'
  <2>. DEFINE call == [SwitchIdle EXCEPT !.pc = "probing", !.slot = s, !.release = slots[s].release]
  <2>1. slots[s].release \in Release \cup {None}
    BY DEF SwitchTypeOK, SlotRow
  <2>2. CallOK(call, Len(actions))
    BY <2>1, IdleType, TablesType DEF SwitchCall, CallOK, SwitchPC, Journalled
  <2>3. dcall' = [dcall EXCEPT ![p] = call] /\ UNCHANGED <<slots, last, actions, traffic>>
    BY <1>1 DEF probe_get, SwitchEnters
  <2>. HIDE DEF call
  <2>. QED  BY <2>2, <2>3, CallStepType
<1>2. ASSUME probe_deployment(p)
      PROVE  SwitchTypeOK'
  <2>1. \A ok \in BOOLEAN : CallOK([dcall[p] EXCEPT !.pc = "probed", !.healthy = ok], Len(actions))
    BY <1>2 DEF probe_deployment, SwitchTypeOK, SwitchCall, CallOK, SwitchPC, Journalled
  <2>. QED  BY <1>2, <2>1, IdleType, CallStepType, TablesType
               DEF probe_deployment, SwitchEnters, Returns
<1>3. ASSUME record_health_read(p)
      PROVE  SwitchTypeOK'
  <2>1. CallOK([dcall[p] EXCEPT !.pc = "record", !.seen = slots], Len(actions))
    BY <1>3 DEF record_health_read, SwitchTypeOK, SwitchCall, CallOK, SwitchPC, Journalled
  <2>. QED  BY <1>3, <2>1, CallStepType DEF record_health_read, SwitchEnters
<1>4. ASSUME record_health_write(p)
      PROVE  SwitchTypeOK'
  <2>. DEFINE s == dcall[p].slot
              old == dcall[p].seen[s]
              row == [state |-> IF ~dcall[p].healthy /\ old.state = "candidate"
                                THEN "blocked" ELSE slots[s].state,
                      release |-> slots[s].release,
                      health |-> Assign(old.health, slots[s].health,
                                        IF dcall[p].healthy THEN "healthy" ELSE "unhealthy"),
                      evidence |-> [of |-> dcall[p].release, fresh |-> TRUE]]
  <2>1. s \in Slot /\ old \in SlotRow /\ slots[s] \in SlotRow /\ dcall[p].release \in Release \cup {None}
    BY <1>4, ProcType DEF record_health_write, SwitchTypeOK
  <2>2. row \in SlotRow
    BY <2>1 DEF Assign, SlotRow, SlotState, Evidence
  <2>3. slots' = [slots EXCEPT ![s] = row]
    BY <1>4 DEF record_health_write
  <2>4. slots' \in [Slot -> SlotRow]
    BY <2>1, <2>2, <2>3 DEF SwitchTypeOK
  <2>. QED  BY <1>4, <2>4, ReturnType, TablesType DEF record_health_write
<1>. QED  BY <1>1, <1>2, <1>3, <1>4 DEF Probe

LEMMA PendingType ==
    ASSUME SwitchTypeOK, NEW p \in Process, NEW op \in {"promote", "rollback"}, NEW s \in Slot,
           Pending(p, op, s), UNCHANGED <<slots, last, traffic>>
    PROVE  SwitchTypeOK'
<1>1. CASE HasActuator
  <2>. DEFINE call == [SwitchIdle EXCEPT !.pc = "apply", !.op = op, !.slot = s, !.act = Len(actions) + 1]
  <2>1. PICK from \in Slot \cup {None} :
            actions' = Append(actions, [from |-> from, to |-> s,
                                        status |-> "pending", since |-> 0])
    BY <1>1 DEF Pending, Active
  <2>2. [from |-> from, to |-> s, status |-> "pending", since |-> 0] \in Action
    BY DEF Action, ActionStatus
  <2>3. actions' \in Seq(Action) /\ Len(actions') = Len(actions) + 1 /\ Len(actions) \in Nat
    BY <2>1, <2>2 DEF SwitchTypeOK
  <2>4. CallOK(call, Len(actions) + 1)
    <3>1. call \in SwitchCall
      <4>1. Len(actions) + 1 \in Nat
        BY <2>3
      <4>. QED  BY <4>1, IdleType, NoRowsType, JournalledCallType
    <3>2. call.slot = s /\ call.act = Len(actions) + 1
      BY IdleType DEF SwitchCall
    <3>. QED  BY <2>3, <3>1, <3>2 DEF CallOK
  <2>5. dcall' = [dcall EXCEPT ![p] = call]
    BY <1>1 DEF Pending, SwitchEnters
  <2>. HIDE DEF call
  <2>6. CallOK(call, Len(actions')) /\ Len(actions) <= Len(actions')
    BY <2>3, <2>4
  <2>. QED  BY <1>1, <2>3, <2>5, <2>6, StepType, TablesType
<1>2. CASE ~HasActuator
  <2>. DEFINE call == [SwitchIdle EXCEPT !.pc = "committing", !.op = op, !.slot = s]
  <2>1. CallOK(call, Len(actions))
    BY IdleType, TablesType DEF SwitchCall, CallOK, SwitchPC, Journalled
  <2>2. dcall' = [dcall EXCEPT ![p] = call] /\ UNCHANGED <<slots, last, actions, traffic>>
    BY <1>2 DEF Pending, SwitchEnters
  <2>. HIDE DEF call
  <2>. QED  BY <2>1, <2>2, CallStepType
<1>. QED  BY <1>1, <1>2

LEMMA SwitchType ==
    ASSUME SwitchTypeOK, NEW p \in Process, Switch(p)
    PROVE  SwitchTypeOK'
<1>0. Len(actions) \in Nat
  BY DEF SwitchTypeOK
<1>1. ASSUME NEW s \in Slot, promote_check(p, s)
      PROVE  SwitchTypeOK'
  <2>. DEFINE call == [SwitchIdle EXCEPT !.pc = "listing", !.slot = s]
  <2>1. CallOK(call, Len(actions))
    BY <1>0, IdleType DEF SwitchCall, CallOK, SwitchPC, Journalled
  <2>2. dcall' = [dcall EXCEPT ![p] = call] /\ UNCHANGED <<slots, last, actions, traffic>>
    BY <1>1 DEF promote_check, SwitchEnters
  <2>. HIDE DEF call
  <2>. QED  BY <2>1, <2>2, CallStepType
<1>2. ASSUME promote_list(p)
      PROVE  SwitchTypeOK'
  BY <1>2, PendingType, ProcType DEF promote_list
<1>3. ASSUME rollback_list(p)
      PROVE  SwitchTypeOK'
  BY <1>3, PendingType DEF rollback_list, Eligible
<1>4. ASSUME apply(p)
      PROVE  SwitchTypeOK'
  <2>1. dcall[p].slot \in Slot /\ dcall[p].act # 0 /\ dcall[p].pc # "idle"
    BY <1>4, ProcType DEF apply, Journalled
  <2>2. PICK pc \in {"applied", "refused"} : SwitchMoves(p, pc)
    BY <1>4 DEF apply
  <2>3. pc \in SwitchPC
    BY DEF SwitchPC
  <2>4. traffic' \in Slot \cup {None} /\ UNCHANGED <<slots, last, actions>>
    BY <1>4, <2>1, TablesType DEF apply
  <2>. QED  BY <2>1, <2>2, <2>3, <2>4, GoesOnType, TablesType
<1>5. ASSUME record_action_result(p)
      PROVE  SwitchTypeOK'
  <2>1. dcall[p].act \in 1 .. Len(actions)
    BY <1>5, ProcType DEF record_action_result, Journalled
  <2>2. actions' \in Seq(Action) /\ Len(actions') = Len(actions)
    <3>1. PICK st \in {"actuated", "failed"} :
              actions' = [actions EXCEPT ![dcall[p].act].status = st]
      BY <1>5 DEF record_action_result
    <3>2. st \in ActionStatus
      BY DEF ActionStatus
    <3>. QED  BY <2>1, <3>1, <3>2, JournalType
  <2>3. CASE SwitchMoves(p, "committing")
    <3>1. "committing" \in SwitchPC /\ "committing" \notin Journalled
      BY DEF SwitchPC, Journalled
    <3>2. dcall[p].pc # "idle" /\ UNCHANGED <<slots, last, traffic>>
      BY <1>5 DEF record_action_result
    <3>. QED  BY <2>2, <2>3, <3>1, <3>2, GoesOnType, TablesType
  <2>4. CASE Returns(p)
    BY <1>0, <1>5, <2>2, <2>4, ReturnType, TablesType DEF record_action_result
  <2>. QED  BY <1>5, <2>3, <2>4 DEF record_action_result
<1>6. ASSUME commit_read(p)
      PROVE  SwitchTypeOK'
  <2>1. CASE SwitchEnters(p, [dcall[p] EXCEPT !.pc = "commit", !.seen = slots])
    <3>1. CallOK([dcall[p] EXCEPT !.pc = "commit", !.seen = slots], Len(actions))
      BY <1>6 DEF commit_read, SwitchTypeOK, SwitchCall, CallOK, SwitchPC, Journalled
    <3>. QED  BY <1>6, <2>1, <3>1, CallStepType DEF commit_read, SwitchEnters
  <2>2. CASE Returns(p)
    BY <1>0, <1>6, <2>2, IdleType, CallStepType DEF commit_read, Returns
  <2>3. CASE dcall[p].act # 0 /\ SwitchMoves(p, "unrecorded")
    <3>1. CallOK([dcall[p] EXCEPT !.pc = "unrecorded"], Len(actions))
      BY <1>6, <2>3, MoveType DEF commit_read, SwitchPC
    <3>. QED  BY <1>6, <2>3, <3>1, CallStepType DEF commit_read, SwitchMoves
  <2>. QED  BY <1>6, <2>1, <2>2, <2>3 DEF commit_read, Uncommitted
<1>7. ASSUME commit_write(p)
      PROVE  SwitchTypeOK'
  <2>1. dcall[p].slot \in Slot /\ dcall[p].seen \in [Slot -> SlotRow]
    BY <1>7, ProcType DEF commit_write
  <2>2. slots' \in [Slot -> SlotRow] /\ last' \in Slot \cup {None}
    BY <1>7, <2>1, TransitionType DEF commit_write, SwitchTypeOK
  <2>3. CASE Returns(p)
    BY <1>0, <1>7, <2>2, <2>3, ReturnType, TablesType DEF commit_write
  <2>4. ASSUME NEW pc \in {"mark", "unrecorded"}, pc = "unrecorded" => dcall[p].act # 0,
               SwitchMoves(p, pc)
        PROVE  SwitchTypeOK'
    <3>1. pc \in SwitchPC /\ (pc \in Journalled => dcall[p].act # 0)
      BY <2>4 DEF SwitchPC, Journalled
    <3>2. dcall[p].pc # "idle" /\ UNCHANGED <<actions, traffic>>
      BY <1>7 DEF commit_write
    <3>. QED  BY <2>2, <2>4, <3>1, <3>2, GoesOnType, TablesType
  <2>. QED  BY <1>7, <2>3, <2>4 DEF commit_write, Uncommitted
<1>8. ASSUME mark_committed(p)
      PROVE  SwitchTypeOK'
  <2>1. dcall[p].act \in 0 .. Len(actions)
    BY DEF SwitchTypeOK, CallOK
  <2>2. actions' \in Seq(Action) /\ Len(actions') = Len(actions)
    <3>1. CASE dcall[p].act = 0
      BY <1>8, <3>1, TablesType DEF mark_committed
    <3>2. CASE dcall[p].act # 0
      <4>1. dcall[p].act \in 1 .. Len(actions)
        BY <1>0, <2>1, <3>2
      <4>. QED  BY <1>8, <3>2, <4>1, JournalType DEF mark_committed, ActionStatus
    <3>. QED  BY <3>1, <3>2
  <2>. QED  BY <1>0, <1>8, <2>2, ReturnType, TablesType DEF mark_committed
<1>9. ASSUME mark_reconcile_required(p)
      PROVE  SwitchTypeOK'
  <2>1. dcall[p].act \in 1 .. Len(actions)
    BY <1>9, ProcType DEF mark_reconcile_required, Journalled
  <2>. DEFINE n == 1 + Cardinality({i \in DOMAIN actions : actions[i].since > 0})
  <2>2. n \in Nat
    <3>1. IsFiniteSet(1 .. Len(actions))
      BY <1>0, FS_Interval
    <3>2. {i \in DOMAIN actions : actions[i].since > 0} \subseteq 1 .. Len(actions)
      BY DEF SwitchTypeOK
    <3>. QED  BY <3>1, <3>2, FS_Subset, FS_CardinalityType
  <2>3. actions' = [actions EXCEPT ![dcall[p].act].status = "reconcile_required",
                                   ![dcall[p].act].since = n]
    BY <1>9 DEF mark_reconcile_required, Cardinality, Cardinality
  <2>. HIDE DEF n
  <2>4. actions' \in Seq(Action) /\ Len(actions') = Len(actions)
    <3>. DEFINE i == dcall[p].act
    <3>1. actions \in Seq(Action) /\ i \in DOMAIN actions /\ actions[i] \in Action
      BY <2>1, TablesType
    <3>2. [actions[i] EXCEPT !.status = "reconcile_required", !.since = n] \in Action
      BY <2>2, <3>1 DEF Action, ActionStatus
    <3>3. actions' = [actions EXCEPT
                          ![i] = [actions[i] EXCEPT !.status = "reconcile_required", !.since = n]]
      BY <2>3, <3>1
    <3>. HIDE DEF i
    <3>. QED  BY <3>1, <3>2, <3>3
  <2>. QED  BY <1>0, <1>9, <2>4, ReturnType, TablesType DEF mark_reconcile_required
<1>. QED  BY <1>1, <1>2, <1>3, <1>4, <1>5, <1>6, <1>7, <1>8, <1>9 DEF Switch, SwitchStep

LEMMA ReconcileType ==
    ASSUME SwitchTypeOK, NEW p \in Process, Reconcile(p)
    PROVE  SwitchTypeOK'
<1>0. Len(actions) \in Nat
  BY DEF SwitchTypeOK
<1>1. ASSUME reconcile_observe(p)
      PROVE  SwitchTypeOK'
  <2>. DEFINE call == [SwitchIdle EXCEPT !.pc = "observed", !.slot = traffic]
  <2>1. CallOK(call, Len(actions))
    BY <1>0, <1>1, IdleType, TablesType
       DEF reconcile_observe, SwitchCall, CallOK, SwitchPC, Journalled
  <2>2. dcall' = [dcall EXCEPT ![p] = call] /\ UNCHANGED <<slots, last, actions, traffic>>
    BY <1>1 DEF reconcile_observe, SwitchEnters
  <2>. HIDE DEF call
  <2>. QED  BY <2>1, <2>2, CallStepType
<1>2. ASSUME reconcile_read(p)
      PROVE  SwitchTypeOK'
  <2>1. CASE Returns(p)
    BY <1>0, <1>2, <2>1, IdleType, CallStepType DEF reconcile_read, Returns
  <2>2. ASSUME NEW i \in Pendings,
               SwitchEnters(p, [dcall[p] EXCEPT !.pc = "reconcile", !.seen = slots, !.act = i])
        PROVE  SwitchTypeOK'
    <3>1. i \in 1 .. Len(actions)
      BY DEF Pendings, SwitchTypeOK
    <3>. DEFINE call == [dcall[p] EXCEPT !.pc = "reconcile", !.seen = slots, !.act = i]
    <3>2. call \in SwitchCall
      <4>1. i \in Nat
        BY <1>0, <3>1
      <4>2. dcall[p].slot \in Slot
        BY <1>2, ProcType DEF reconcile_read
      <4>. QED  BY <4>1, <4>2, ProcType, TablesType, JournalledCallType
    <3>3. call.slot \in Slot /\ call.act = i
      BY <1>2, ProcType DEF reconcile_read, SwitchCall
    <3>4. CallOK(call, Len(actions))
      BY <1>0, <3>1, <3>2, <3>3 DEF CallOK
    <3>5. dcall' = [dcall EXCEPT ![p] = call] /\ UNCHANGED <<slots, last, actions, traffic>>
      BY <1>2, <2>2 DEF reconcile_read, SwitchEnters
    <3>. HIDE DEF call
    <3>. QED  BY <3>4, <3>5, CallStepType
  <2>. QED  BY <1>2, <2>1, <2>2 DEF reconcile_read
<1>3. ASSUME reconcile_write(p)
      PROVE  SwitchTypeOK'
  <2>1. dcall[p].slot \in Slot /\ dcall[p].seen \in [Slot -> SlotRow] /\ dcall[p].act \in 1 .. Len(actions)
    BY <1>3, ProcType DEF reconcile_write, Journalled
  <2>2. slots' \in [Slot -> SlotRow]
    BY <1>3, <2>1, TransitionType DEF reconcile_write, ObservedSlot
  <2>3. actions' \in Seq(Action) /\ Len(actions') = Len(actions)
    BY <1>3, <2>1, JournalType DEF reconcile_write, ActionStatus
  <2>. QED  BY <1>0, <1>3, <2>1, <2>2, <2>3, ReturnType, TablesType
            DEF reconcile_write, ObservedSlot
<1>. QED  BY <1>1, <1>2, <1>3 DEF Reconcile

LEMMA RegistryTypeInit == SwitchInit => SwitchTypeOK
<1> SUFFICES ASSUME SwitchInit PROVE SwitchTypeOK
  OBVIOUS
<1>1. actions = <<>> /\ Len(actions) = 0
  BY DEF SwitchInit
<1>2. CallOK(SwitchIdle, 0) /\ SwitchIdle \in SwitchCall
  BY IdleType DEF CallOK
<1>. QED  BY <1>1, <1>2, NoRowsType DEF SwitchInit, SwitchTypeOK

LEMMA RegistryTypeStep == SwitchTypeOK /\ [SwitchNext]_switchVars => SwitchTypeOK'
<1> SUFFICES ASSUME SwitchTypeOK, [SwitchNext]_switchVars
             PROVE  SwitchTypeOK'
  OBVIOUS
<1>1. ASSUME NEW p \in Process, SwitchRaises(p) \/ SwitchCrash(p)
      PROVE  SwitchTypeOK'
  <2>1. Len(actions) \in Nat
    BY DEF SwitchTypeOK
  <2>. QED  BY <1>1, <2>1, IdleType, CallStepType DEF SwitchRaises, SwitchCrash, Returns
<1>2. ASSUME NEW s \in Slot, Expire(s)
      PROVE  SwitchTypeOK'
  <2>1. slots' \in [Slot -> SlotRow]
    BY <1>2 DEF Expire, SwitchTypeOK, SlotRow, Evidence
  <2>. QED  BY <1>2, <2>1 DEF Expire, SwitchTypeOK
<1>3. CASE UNCHANGED switchVars
  BY <1>3 DEF switchVars, SwitchTypeOK
<1>. QED  BY <1>1, <1>2, <1>3, RegisterType, ProbeType, SwitchType, ReconcileType DEF SwitchNext

\* Type correctness of the registry, its journal and the calls in progress.
THEOREM RegistryTypeCorrect == SwitchSpec => []SwitchTypeOK
  BY RegistryTypeInit, RegistryTypeStep, PTL DEF SwitchSpec

----------------------------------------------------------------------------
(* One operator at a time.  What a session read is then still true when it  *)
(* commits, except that evidence grows old in between.                      *)

\* The calls that hold rows or a release they read.
Seeing == {"register", "probing", "probed", "record", "commit", "reconcile"}

SeenBy(p) ==
    /\ dcall[p].pc \in {"register", "record", "commit", "reconcile"} =>
           \A s \in Slot : /\ dcall[p].seen[s].state = slots[s].state
                           /\ dcall[p].seen[s].health = slots[s].health
    /\ dcall[p].pc = "register" => slots[dcall[p].slot].state # "active"
    /\ dcall[p].pc \in {"probing", "probed", "record"} =>
           dcall[p].release = slots[dcall[p].slot].release

SeenCurrent == \A p \in Process : SeenBy(p)

LEMMA NotSeeing ==
    ASSUME OneCaller, NEW p \in Process, dcall'[p].pc \notin Seeing
    PROVE  SeenCurrent'
  BY DEF OneCaller, SeenCurrent, SeenBy, Seeing

LEMMA ReturnsSeen ==
    ASSUME OneCaller, SwitchTypeOK, NEW p \in Process, Returns(p)
    PROVE  SeenCurrent'
<1>1. dcall'[p].pc = "idle"
  BY DEF Returns, SwitchTypeOK, SwitchIdle
<1>. QED  BY <1>1, NotSeeing DEF Seeing

LEMMA SeenStep ==
    ASSUME OneCaller, SwitchTypeOK, SeenCurrent, [SwitchNext]_switchVars
    PROVE  SeenCurrent'
<1>1. ASSUME NEW p \in Process, Register(p)
      PROVE  SeenCurrent'
  <2>1. ASSUME NEW s \in Slot, NEW r \in Release, register_read(p, s, r)
        PROVE  SeenCurrent'
    <3>1. /\ dcall'[p].pc = "register" /\ dcall'[p].slot = s /\ dcall'[p].seen = slots
          /\ slots' = slots /\ slots[s].state # "active"
      BY <2>1 DEF register_read, Registrable, SwitchEnters, SwitchIdle, SwitchTypeOK
    <3>. QED  BY <3>1 DEF OneCaller, SeenCurrent, SeenBy
  <2>2. ASSUME register_write(p)
        PROVE  SeenCurrent'
    BY <2>2, ReturnsSeen DEF register_write
  <2>. QED  BY <1>1, <2>1, <2>2 DEF Register
<1>2. ASSUME NEW p \in Process, Probe(p)
      PROVE  SeenCurrent'
  <2>1. ASSUME NEW s \in Slot, probe_get(p, s)
        PROVE  SeenCurrent'
    <3>1. /\ dcall'[p].pc = "probing" /\ dcall'[p].slot = s
          /\ dcall'[p].release = slots[s].release /\ slots' = slots
      BY <2>1 DEF probe_get, SwitchEnters, SwitchIdle, SwitchTypeOK
    <3>. QED  BY <3>1 DEF OneCaller, SeenCurrent, SeenBy
  <2>2. ASSUME probe_deployment(p)
        PROVE  SeenCurrent'
    <3>1. CASE Returns(p)
      BY <3>1, ReturnsSeen
    <3>2. ASSUME NEW ok \in BOOLEAN, SwitchEnters(p, [dcall[p] EXCEPT !.pc = "probed", !.healthy = ok])
          PROVE  SeenCurrent'
      <4>1. dcall[p] \in SwitchCall /\ dcall[p].pc = "probing" /\ slots' = slots
        BY <2>2 DEF probe_deployment, SwitchTypeOK
      <4>2. /\ dcall'[p].pc = "probed" /\ dcall'[p].slot = dcall[p].slot
            /\ dcall'[p].release = dcall[p].release
        BY <3>2, <4>1 DEF SwitchEnters, SwitchTypeOK, SwitchCall
      <4>3. dcall[p].release = slots[dcall[p].slot].release
        BY <4>1 DEF SeenCurrent, SeenBy
      <4>. QED  BY <4>1, <4>2, <4>3 DEF OneCaller, SeenCurrent, SeenBy
    <3>. QED  BY <2>2, <3>1, <3>2 DEF probe_deployment
  <2>3. ASSUME record_health_read(p)
        PROVE  SeenCurrent'
    <3>1. dcall[p] \in SwitchCall /\ dcall[p].pc = "probed" /\ slots' = slots
      BY <2>3 DEF record_health_read, SwitchTypeOK
    <3>2. /\ dcall'[p].pc = "record" /\ dcall'[p].slot = dcall[p].slot
          /\ dcall'[p].release = dcall[p].release /\ dcall'[p].seen = slots
      BY <2>3, <3>1 DEF record_health_read, SwitchEnters, SwitchTypeOK, SwitchCall
    <3>3. dcall[p].release = slots[dcall[p].slot].release
      BY <3>1 DEF SeenCurrent, SeenBy
    <3>. QED  BY <3>1, <3>2, <3>3 DEF OneCaller, SeenCurrent, SeenBy
  <2>4. ASSUME record_health_write(p)
        PROVE  SeenCurrent'
    BY <2>4, ReturnsSeen DEF record_health_write
  <2>. QED  BY <1>2, <2>1, <2>2, <2>3, <2>4 DEF Probe
<1>3. ASSUME NEW p \in Process, NEW pc \in SwitchPC \ Seeing, SwitchMoves(p, pc)
      PROVE  SeenCurrent'
  <2>1. dcall'[p].pc = pc
    BY <1>3 DEF SwitchMoves, SwitchTypeOK, SwitchCall
  <2>. QED  BY <1>3, <2>1, NotSeeing
<1>4. ASSUME NEW p \in Process, Switch(p)
      PROVE  SeenCurrent'
  <2>0. {"apply", "applied", "refused", "committing", "mark", "unrecorded"} \subseteq SwitchPC \ Seeing
    BY DEF SwitchPC, Seeing
  <2>1. ASSUME NEW s \in Slot, promote_check(p, s)
        PROVE  SeenCurrent'
    <3>1. dcall'[p].pc = "listing"
      BY <2>1 DEF promote_check, SwitchEnters, SwitchIdle, SwitchTypeOK
    <3>. QED  BY <3>1, NotSeeing DEF Seeing
  <2>2. ASSUME NEW op \in {"promote", "rollback"}, NEW s \in Slot, Pending(p, op, s)
        PROVE  SeenCurrent'
    <3>1. dcall'[p].pc \in {"apply", "committing"}
      BY <2>2 DEF Pending, SwitchEnters, SwitchIdle, SwitchTypeOK
    <3>. QED  BY <3>1, NotSeeing DEF Seeing
  <2>3. ASSUME promote_list(p) \/ rollback_list(p)
        PROVE  SeenCurrent'
    BY <2>2, <2>3, ProcType DEF promote_list, rollback_list, Eligible
  <2>4. ASSUME apply(p) \/ record_action_result(p)
        PROVE  SeenCurrent'
    BY <1>3, <2>0, <2>4, ReturnsSeen DEF apply, record_action_result
  <2>5. ASSUME commit_read(p)
        PROVE  SeenCurrent'
    <3>1. CASE SwitchEnters(p, [dcall[p] EXCEPT !.pc = "commit", !.seen = slots])
      <4>1. dcall'[p].pc = "commit" /\ dcall'[p].seen = slots /\ slots' = slots
        BY <2>5, <3>1 DEF commit_read, SwitchEnters, SwitchTypeOK, SwitchCall
      <4>. QED  BY <4>1 DEF OneCaller, SeenCurrent, SeenBy
    <3>2. CASE Uncommitted(p)
      BY <1>3, <2>0, <3>2, ReturnsSeen DEF Uncommitted
    <3>. QED  BY <2>5, <3>1, <3>2 DEF commit_read
  <2>6. ASSUME commit_write(p)
        PROVE  SeenCurrent'
    BY <1>3, <2>0, <2>6, ReturnsSeen DEF commit_write, Uncommitted
  <2>7. ASSUME mark_committed(p) \/ mark_reconcile_required(p)
        PROVE  SeenCurrent'
    BY <2>7, ReturnsSeen DEF mark_committed, mark_reconcile_required
  <2>. QED  BY <1>4, <2>1, <2>3, <2>4, <2>5, <2>6, <2>7 DEF Switch, SwitchStep
<1>5. ASSUME NEW p \in Process, Reconcile(p)
      PROVE  SeenCurrent'
  <2>1. ASSUME reconcile_observe(p)
        PROVE  SeenCurrent'
    <3>1. dcall'[p].pc = "observed"
      BY <2>1 DEF reconcile_observe, SwitchEnters, SwitchIdle, SwitchTypeOK
    <3>. QED  BY <3>1, NotSeeing DEF Seeing
  <2>2. ASSUME NEW i, SwitchEnters(p, [dcall[p] EXCEPT !.pc = "reconcile", !.seen = slots, !.act = i]),
               slots' = slots
        PROVE  SeenCurrent'
    <3>1. dcall'[p].pc = "reconcile" /\ dcall'[p].seen = slots
      BY <2>2 DEF SwitchEnters, SwitchTypeOK, SwitchCall
    <3>. QED  BY <2>2, <3>1 DEF OneCaller, SeenCurrent, SeenBy
  <2>3. ASSUME reconcile_read(p)
        PROVE  SeenCurrent'
    BY <2>2, <2>3, ReturnsSeen DEF reconcile_read
  <2>4. ASSUME reconcile_write(p)
        PROVE  SeenCurrent'
    BY <2>4, ReturnsSeen DEF reconcile_write
  <2>. QED  BY <1>5, <2>1, <2>3, <2>4 DEF Reconcile
<1>6. ASSUME NEW p \in Process, SwitchRaises(p) \/ SwitchCrash(p)
      PROVE  SeenCurrent'
  BY <1>6, ReturnsSeen DEF SwitchRaises, SwitchCrash
<1>7. ASSUME NEW s \in Slot, Expire(s)
      PROVE  SeenCurrent'
  <2>1. \A t \in Slot : /\ slots'[t].state = slots[t].state
                        /\ slots'[t].health = slots[t].health
                        /\ slots'[t].release = slots[t].release
    BY <1>7 DEF Expire, SwitchTypeOK, SlotRow
  <2>2. \A p \in Process : dcall'[p] = dcall[p] /\ (dcall[p].pc # "idle" => dcall[p].slot \in Slot)
    BY <1>7, ProcType DEF Expire
  <2>. QED  BY <2>1, <2>2 DEF SeenCurrent, SeenBy
<1>8. CASE UNCHANGED switchVars
  BY <1>8 DEF switchVars, SeenCurrent, SeenBy
<1>. QED  BY <1>1, <1>2, <1>4, <1>5, <1>6, <1>7, <1>8 DEF SwitchNext

\* The steps that write the table: the three kinds of session that do.
LEMMA RowsStep ==
    ASSUME SwitchTypeOK, [SwitchNext]_switchVars
    PROVE  \/ \A s \in Slot : slots'[s] = [slots[s] EXCEPT !.evidence.fresh = FALSE]
                             \/ slots'[s] = slots[s]
           \/ \E p \in Process : register_write(p) \/ record_health_write(p)
           \/ \E p \in Process, t \in Slot :
                  /\ dcall[p].pc \in {"commit", "reconcile"}
                  /\ slots' = Transition(t, dcall[p].seen)
<1>1. ASSUME NEW p \in Process, commit_write(p) \/ reconcile_write(p)
      PROVE  \/ slots' = slots
             \/ \E t \in Slot : /\ dcall[p].pc \in {"commit", "reconcile"}
                                /\ slots' = Transition(t, dcall[p].seen)
  BY <1>1, ProcType DEF commit_write, reconcile_write, ObservedSlot
<1>2. ASSUME NEW s \in Slot, Expire(s)
      PROVE  \A t \in Slot : slots'[t] = [slots[t] EXCEPT !.evidence.fresh = FALSE]
                             \/ slots'[t] = slots[t]
  BY <1>2 DEF Expire, SwitchTypeOK
<1>. QED  BY <1>1, <1>2
          DEF SwitchNext, Register, Probe, Switch, SwitchStep, Reconcile, SwitchRaises,
              SwitchCrash, switchVars, register_read, probe_get,
              probe_deployment, record_health_read, promote_check, promote_list, rollback_list,
              apply, record_action_result, commit_read, mark_committed,
              mark_reconcile_required, reconcile_observe, reconcile_read

\* A step activates at most one slot, and then that slot alone is active.
LEMMA ActiveStep ==
    ASSUME OneCaller, SwitchTypeOK, SeenCurrent, [SwitchNext]_switchVars
    PROVE  Active' \subseteq Active \/ \E t \in Slot : Active' \subseteq {t}
<1>1. CASE \A s \in Slot : slots'[s] = [slots[s] EXCEPT !.evidence.fresh = FALSE]
                          \/ slots'[s] = slots[s]
  <2>1. \A s \in Slot : slots'[s].state = slots[s].state
    BY <1>1 DEF SwitchTypeOK, SlotRow
  <2>. QED  BY <2>1 DEF Active
<1>2. ASSUME NEW p \in Process, register_write(p)
      PROVE  Active' \subseteq Active
  <2>1. dcall[p].slot \in Slot /\ dcall[p].seen[dcall[p].slot] \in SlotRow
    BY <1>2, ProcType DEF register_write
  <2>2. \A s \in Slot : slots'[s].state # slots[s].state => slots'[s].state = "candidate"
    BY <1>2, <2>1 DEF register_write, Registered, Assign, NoRow, SwitchTypeOK
  <2>. QED  BY <2>2 DEF Active
<1>3. ASSUME NEW p \in Process, record_health_write(p)
      PROVE  Active' \subseteq Active
  <2>1. dcall[p].slot \in Slot
    BY <1>3, ProcType DEF record_health_write
  <2>2. \A s \in Slot : slots'[s].state # slots[s].state => slots'[s].state = "blocked"
    BY <1>3, <2>1 DEF record_health_write, SwitchTypeOK
  <2>. QED  BY <2>2 DEF Active
<1>4. ASSUME NEW p \in Process, NEW t \in Slot,
             dcall[p].pc \in {"commit", "reconcile"}, slots' = Transition(t, dcall[p].seen)
      PROVE  Active' \subseteq {t}
  <2>1. \A s \in Slot : dcall[p].seen[s].state = slots[s].state
    BY <1>4 DEF SeenCurrent, SeenBy
  <2>2. \A s \in Slot : s # t => slots'[s].state # "active"
    BY <1>4, <2>1 DEF Transition, SwitchTypeOK, SlotRow
  <2>. QED  BY <2>2 DEF Active
<1>. QED  BY <1>1, <1>2, <1>3, <1>4, RowsStep

\* What a step may do to what a slot runs and to its evidence: leave them alone,
\* replace the release of a slot that is not active and discard the evidence, or
\* record evidence of the present release.
LEMMA ReleaseStep ==
    ASSUME OneCaller, SwitchTypeOK, SeenCurrent, [SwitchNext]_switchVars, NEW s \in Slot
    PROVE  \/ /\ slots'[s].release = slots[s].release
              /\ slots'[s].health = slots[s].health
              /\ slots'[s].evidence.of = slots[s].evidence.of
           \/ slots'[s].health # "healthy" /\ slots[s].state # "active"
           \/ slots'[s].release = slots[s].release /\ slots'[s].evidence.of = slots[s].release
<1>1. CASE \A t \in Slot : slots'[t] = [slots[t] EXCEPT !.evidence.fresh = FALSE]
                          \/ slots'[t] = slots[t]
  BY <1>1 DEF SwitchTypeOK, SlotRow, Evidence
<1>2. ASSUME NEW p \in Process, register_write(p)
      PROVE  slots'[s] = slots[s] \/ (slots'[s].health # "healthy" /\ slots[s].state # "active")
  <2>. DEFINE t == dcall[p].slot
  <2>1. t \in Slot /\ slots[t].state # "active" /\ dcall[p].seen[t].health = slots[t].health
    BY <1>2, ProcType DEF register_write, SeenCurrent, SeenBy
  <2>2. CASE s # t
    BY <1>2, <2>1, <2>2 DEF register_write, SwitchTypeOK
  <2>3. CASE s = t
    BY <1>2, <2>1, <2>3 DEF register_write, Registered, Assign, NoRow, SwitchTypeOK
  <2>. QED  BY <2>2, <2>3
<1>3. ASSUME NEW p \in Process, record_health_write(p)
      PROVE  \/ slots'[s] = slots[s]
             \/ slots'[s].release = slots[s].release /\ slots'[s].evidence.of = slots[s].release
  <2>. DEFINE t == dcall[p].slot
  <2>1. t \in Slot /\ dcall[p].release = slots[t].release
    BY <1>3, ProcType DEF record_health_write, SeenCurrent, SeenBy
  <2>2. CASE s # t
    BY <1>3, <2>1, <2>2 DEF record_health_write, SwitchTypeOK
  <2>3. CASE s = t
    BY <1>3, <2>1, <2>3 DEF record_health_write, SwitchTypeOK
  <2>. QED  BY <2>2, <2>3
<1>4. ASSUME NEW p \in Process, NEW t \in Slot, slots' = Transition(t, dcall[p].seen)
      PROVE  /\ slots'[s].release = slots[s].release
             /\ slots'[s].health = slots[s].health
             /\ slots'[s].evidence.of = slots[s].evidence.of
  BY <1>4 DEF Transition, Assign, SwitchTypeOK, SlotRow
<1>. QED  BY <1>1, <1>2, <1>3, <1>4, RowsStep

LEMMA SerialInit == SwitchInit => SeenCurrent /\ OneActive /\ EvidenceMatches
  BY DEF SwitchInit, SeenCurrent, SeenBy, OneActive, Active, EvidenceMatches, SwitchIdle,
         NoRows, NoRow

\* At most one slot is active, for every set of releases and length of journal, where
\* one operator at a time calls the registry.
THEOREM AtMostOneActive == OneCaller /\ SwitchSpec => []OneActive
<1>. SUFFICES ASSUME OneCaller PROVE SwitchSpec => []OneActive
  OBVIOUS
<1>1. SwitchInit => SeenCurrent /\ OneActive
  BY SerialInit
<1>2. SwitchTypeOK /\ SeenCurrent /\ OneActive /\ [SwitchNext]_switchVars => SeenCurrent' /\ OneActive'
  BY SeenStep, ActiveStep DEF OneActive
<1>. QED  BY <1>1, <1>2, RegistryTypeCorrect, PTL DEF SwitchSpec

\* A slot counts as healthy only on evidence of what is deployed there now.
THEOREM EvidenceOfRelease == OneCaller /\ SwitchSpec => []EvidenceMatches
<1>. SUFFICES ASSUME OneCaller PROVE SwitchSpec => []EvidenceMatches
  OBVIOUS
<1>1. SwitchInit => SeenCurrent /\ EvidenceMatches
  BY SerialInit
<1>2. SwitchTypeOK /\ SeenCurrent /\ EvidenceMatches /\ [SwitchNext]_switchVars
          => SeenCurrent' /\ EvidenceMatches'
  BY SeenStep, ReleaseStep DEF EvidenceMatches
<1>. QED  BY <1>1, <1>2, RegistryTypeCorrect, PTL DEF SwitchSpec

----------------------------------------------------------------------------
(* The journal.  RegistryMatchesTraffic speaks of the moments when nobody is *)
(* in a call.  In between, a call knows how far its own row of the journal   *)
(* is, and that row is the latest one.                                       *)

Latest == actions[Len(actions)]

JournalBy(p) ==
    /\ dcall[p].pc \in {"apply", "applied", "refused"} =>
           dcall[p].act = Len(actions) /\ Latest.status = "pending"
    /\ dcall[p].pc \in {"committing", "commit", "mark", "unrecorded"} =>
           IF dcall[p].act = 0 THEN actions = <<>>
           ELSE dcall[p].act = Len(actions) /\ Latest.status = "actuated"
    /\ dcall[p].pc \in {"applied", "committing", "commit", "mark"} /\ dcall[p].act # 0 =>
           traffic = dcall[p].slot
    /\ dcall[p].pc \in {"observed", "reconcile"} => traffic = dcall[p].slot
    /\ dcall[p].pc = "mark" => Active = {dcall[p].slot}

\* What the latest row says of the registry holds during calls as well.
Honest == actions # <<>> /\ Latest.status \in {"committed", "reconciled"} => Active = {traffic}

Journal ==
    /\ HasActuator \/ actions = <<>>
    /\ Honest
    /\ \A p \in Process : JournalBy(p)

\* The calls that JournalBy speaks of.
Watched == {"apply", "applied", "refused", "committing", "commit", "mark", "unrecorded",
            "observed", "reconcile"}

LEMMA OwnJournal ==
    ASSUME OneCaller, NEW p \in Process, HasActuator \/ actions' = <<>>, Honest',
           JournalBy(p)'
    PROVE  Journal'
BY DEF OneCaller, Journal

LEMMA MovedCall ==
    ASSUME SwitchTypeOK, NEW p \in Process, NEW pc, SwitchMoves(p, pc)
    PROVE  /\ dcall'[p].pc = pc /\ dcall'[p].slot = dcall[p].slot
           /\ dcall'[p].act = dcall[p].act
<1>1. dcall[p] \in SwitchCall
  BY DEF SwitchTypeOK
<1>. QED  BY <1>1 DEF SwitchMoves, SwitchCall, SwitchTypeOK

LEMMA ReturnedCall ==
    ASSUME SwitchTypeOK, NEW p \in Process, Returns(p)
    PROVE  dcall'[p].pc = "idle"
BY DEF Returns, SwitchTypeOK, SwitchIdle

\* A step outside the journal and the transitions.
LEMMA JournalBystander ==
    ASSUME OneCaller, Journal, NEW p \in Process, dcall'[p].pc \notin Watched,
           UNCHANGED <<actions, traffic>>, Active' = Active
    PROVE  Journal'
<1>1. Honest' /\ (HasActuator \/ actions' = <<>>)
  BY DEF Journal, Honest, Latest
<1>2. JournalBy(p)'
  BY DEF JournalBy, Watched
<1>. QED  BY <1>1, <1>2, OwnJournal

\* Register, probe and time activate nothing and deactivate nothing.
LEMMA ActiveSame ==
    ASSUME OneCaller, SwitchTypeOK, SeenCurrent,
           \/ \A s \in Slot : slots'[s] = [slots[s] EXCEPT !.evidence.fresh = FALSE]
                              \/ slots'[s] = slots[s]
           \/ \E p \in Process : register_write(p) \/ record_health_write(p)
    PROVE  Active' = Active
<1>1. CASE \A s \in Slot : slots'[s] = [slots[s] EXCEPT !.evidence.fresh = FALSE]
                          \/ slots'[s] = slots[s]
  <2>1. \A s \in Slot : slots'[s].state = slots[s].state
    BY <1>1 DEF SwitchTypeOK, SlotRow
  <2>. QED  BY <2>1 DEF Active
<1>2. ASSUME NEW p \in Process, register_write(p)
      PROVE  Active' = Active
  <2>1. /\ dcall[p].slot \in Slot /\ dcall[p].seen[dcall[p].slot] \in SlotRow
        /\ slots[dcall[p].slot].state # "active"
    BY <1>2, ProcType DEF register_write, SeenCurrent, SeenBy
  <2>2. \A s \in Slot : \/ slots'[s].state = slots[s].state
                        \/ slots'[s].state = "candidate" /\ s = dcall[p].slot
    BY <1>2, <2>1 DEF register_write, Registered, Assign, NoRow, SwitchTypeOK
  <2>. QED  BY <2>1, <2>2 DEF Active
<1>3. ASSUME NEW p \in Process, record_health_write(p)
      PROVE  Active' = Active
  <2>1. /\ dcall[p].slot \in Slot
        /\ dcall[p].seen[dcall[p].slot].state = slots[dcall[p].slot].state
    BY <1>3, ProcType DEF record_health_write, SeenCurrent, SeenBy
  <2>2. \A s \in Slot : \/ slots'[s].state = slots[s].state
                        \/ slots'[s].state = "blocked" /\ slots[s].state = "candidate"
    BY <1>3, <2>1 DEF record_health_write, SwitchTypeOK
  <2>. QED  BY <2>2 DEF Active
<1>. QED  BY <1>1, <1>2, <1>3

\* A transition leaves its target as the only active slot.
LEMMA ActiveTarget ==
    ASSUME SwitchTypeOK, SeenCurrent, NEW p \in Process, NEW t \in Slot,
           dcall[p].pc \in {"commit", "reconcile"}, slots' = Transition(t, dcall[p].seen)
    PROVE  Active' = {t}
<1>1. \A s \in Slot : dcall[p].seen[s].state = slots[s].state
  BY DEF SeenCurrent, SeenBy
<1>2. \A s \in Slot : slots'[s].state = "active" <=> s = t
  BY <1>1 DEF Transition, Assign, SwitchTypeOK, SlotRow
<1>. QED  BY <1>2 DEF Active

LEMMA SwitchJournal ==
    ASSUME OneCaller, SwitchTypeOK, SeenCurrent, Journal, NEW p \in Process, Switch(p)
    PROVE  Journal'
<1>0. /\ dcall[p] \in SwitchCall /\ actions \in Seq(Action) /\ JournalBy(p)
      /\ Honest /\ (HasActuator \/ actions = <<>>)
      /\ dcall[p].act \in 0 .. Len(actions)
  BY DEF SwitchTypeOK, CallOK, Journal
<1>1. slots' = slots => Active' = Active
  BY DEF Active
<1>2. ASSUME NEW s \in Slot, promote_check(p, s)
      PROVE  Journal'
  <2>1. dcall'[p].pc = "listing"
    BY <1>2 DEF promote_check, SwitchEnters, SwitchIdle, SwitchTypeOK
  <2>. QED  BY <1>1, <1>2, <2>1, JournalBystander DEF promote_check, Watched
<1>3. ASSUME NEW op, NEW s \in Slot, Pending(p, op, s), UNCHANGED <<slots, traffic>>
      PROVE  Journal'
  <2>1. CASE HasActuator
    <3>1. PICK from : /\ actions' = Append(actions, [from |-> from, to |-> s,
                                                     status |-> "pending", since |-> 0])
                      /\ dcall'[p].pc = "apply" /\ dcall'[p].act = Len(actions) + 1
      BY <1>3, <2>1 DEF Pending, SwitchEnters, SwitchIdle, SwitchTypeOK
    <3>. DEFINE row == [from |-> from, to |-> s, status |-> "pending", since |-> 0]
    <3>2. row.status = "pending"
      OBVIOUS
    <3>3. actions' = Append(actions, row)
      BY <3>1
    <3>4. Len(actions') = Len(actions) + 1 /\ Latest'.status = "pending"
      <4>. HIDE DEF row
      <4>. QED  BY <1>0, <3>2, <3>3 DEF Latest
    <3>. QED  BY <2>1, <3>1, <3>4, OwnJournal DEF JournalBy, Honest
  <2>2. CASE ~HasActuator
    <3>1. dcall'[p].pc = "committing" /\ dcall'[p].act = 0 /\ actions' = <<>>
      BY <1>0, <1>3, <2>2 DEF Pending, SwitchEnters, SwitchIdle, SwitchTypeOK
    <3>. QED  BY <3>1, OwnJournal DEF JournalBy, Honest
  <2>. QED  BY <2>1, <2>2
<1>4. CASE promote_list(p) \/ rollback_list(p)
  BY <1>3, <1>4, ProcType DEF promote_list, rollback_list, Eligible
<1>5. CASE apply(p)
  <2>1. /\ dcall[p].act = Len(actions) /\ Latest.status = "pending"
        /\ actions' = actions
    BY <1>0, <1>5 DEF apply, JournalBy
  <2>2. /\ dcall'[p].act = dcall[p].act /\ dcall'[p].slot = dcall[p].slot
        /\ \/ dcall'[p].pc = "applied" /\ traffic' = dcall[p].slot
           \/ dcall'[p].pc = "refused"
    BY <1>5, MovedCall DEF apply
  <2>3. Honest' /\ (HasActuator \/ actions' = <<>>)
    BY <1>0, <2>1 DEF Honest, Latest
  <2>4. JournalBy(p)'
    BY <2>1, <2>2 DEF JournalBy, Latest
  <2>. QED  BY <2>3, <2>4, OwnJournal
<1>6. ASSUME NEW s \in ActionStatus, NEW k, dcall[p].act = Len(actions), dcall[p].act # 0,
             actions' = [actions EXCEPT ![dcall[p].act].status = s, ![dcall[p].act].since = k]
             \/ actions' = [actions EXCEPT ![dcall[p].act].status = s]
      PROVE  /\ Len(actions') = Len(actions) /\ actions' # <<>> /\ Latest'.status = s
  <2>1. Len(actions) \in DOMAIN actions /\ actions[Len(actions)] \in Action
    BY <1>0, <1>6
  <2>. QED  BY <1>0, <1>6, <2>1 DEF Latest, Action
<1>7. CASE record_action_result(p)
  <2>0. dcall[p].act = Len(actions) /\ dcall[p].act # 0 /\ traffic' = traffic
    BY <1>0, <1>7, ProcType
       DEF record_action_result, JournalBy, SwitchTypeOK, CallOK, Journalled
  <2>. HasActuator
    BY <1>0, <2>0
  <2>1. CASE /\ dcall[p].pc = "applied" /\ SwitchMoves(p, "committing")
             /\ actions' = [actions EXCEPT ![dcall[p].act].status = "actuated"]
    <3>1. Len(actions') = Len(actions) /\ Latest'.status = "actuated"
      BY <1>6, <2>0, <2>1 DEF ActionStatus
    <3>2. /\ dcall'[p].pc = "committing" /\ dcall'[p].act = dcall[p].act
          /\ traffic' = dcall'[p].slot
      BY <1>0, <2>0, <2>1, MovedCall DEF JournalBy
    <3>3. JournalBy(p)' /\ Honest'
      BY <2>0, <3>1, <3>2 DEF JournalBy, Honest
    <3>. QED  BY <3>3, OwnJournal
  <2>2. CASE /\ Returns(p)
             /\ actions' = [actions EXCEPT ![dcall[p].act].status = "failed"]
    <3>1. Latest'.status = "failed"
      BY <1>6, <2>0, <2>2 DEF ActionStatus
    <3>2. JournalBy(p)' /\ Honest'
      BY <2>2, <3>1, ReturnedCall DEF JournalBy, Honest
    <3>. QED  BY <3>2, OwnJournal
  <2>. QED  BY <1>7, <2>1, <2>2 DEF record_action_result
<1>8. ASSUME Uncommitted(p), dcall[p].pc \in {"committing", "commit"},
             UNCHANGED <<slots, actions, traffic>>
      PROVE  Journal'
  <2>1. CASE dcall[p].act = 0
    BY <1>1, <1>8, <2>1, ReturnedCall, JournalBystander DEF Uncommitted, Watched
  <2>2. CASE dcall[p].act # 0
    <3>1. dcall'[p].pc = "unrecorded" /\ dcall'[p].act = dcall[p].act
      BY <1>8, <2>2, MovedCall DEF Uncommitted
    <3>2. JournalBy(p)' /\ Honest'
      BY <1>0, <1>1, <1>8, <2>2, <3>1 DEF JournalBy, Honest, Latest
    <3>. QED  BY <1>0, <1>8, <3>2, OwnJournal
  <2>. QED  BY <2>1, <2>2
<1>9. CASE commit_read(p)
  <2>1. CASE SwitchEnters(p, [dcall[p] EXCEPT !.pc = "commit", !.seen = slots])
    <3>1. /\ dcall'[p].pc = "commit" /\ dcall'[p].act = dcall[p].act
          /\ dcall'[p].slot = dcall[p].slot
      BY <1>0, <2>1 DEF SwitchEnters, SwitchTypeOK, SwitchCall
    <3>2. dcall[p].pc = "committing" /\ UNCHANGED <<slots, actions, traffic>>
      BY <1>9 DEF commit_read
    <3>3. JournalBy(p)' /\ Honest'
      BY <1>0, <1>1, <3>1, <3>2 DEF JournalBy, Honest, Latest
    <3>. QED  BY <1>0, <3>2, <3>3, OwnJournal
  <2>2. CASE Uncommitted(p)
    BY <1>8, <1>9, <2>2 DEF commit_read
  <2>. QED  BY <1>9, <2>1, <2>2 DEF commit_read
<1>10. CASE commit_write(p)
  <2>0. dcall[p].pc = "commit" /\ UNCHANGED <<actions, traffic>> /\ dcall[p].slot \in Slot
    BY <1>10, ProcType DEF commit_write
  <2>1. CASE slots' = Transition(dcall[p].slot, dcall[p].seen)
    <3>1. Active' = {dcall[p].slot}
      BY <2>0, <2>1, ActiveTarget
    <3>3. CASE SwitchMoves(p, "mark")
      <4>1. /\ dcall'[p].pc = "mark" /\ dcall'[p].act = dcall[p].act
            /\ dcall'[p].slot = dcall[p].slot
        BY <3>3, MovedCall
      <4>2. JournalBy(p)' /\ Honest'
        BY <1>0, <2>0, <3>1, <3>3, <4>1 DEF JournalBy, Honest, Latest
      <4>. QED  BY <1>0, <2>0, <4>2, OwnJournal
    <3>4. CASE Uncommitted(p) /\ slots' = slots
      BY <1>8, <2>0, <3>4
    <3>. QED  BY <1>10, <3>3, <3>4 DEF commit_write
  <2>2. CASE Uncommitted(p) /\ slots' = slots
    BY <1>8, <2>0, <2>2
  <2>. QED  BY <1>10, <2>1, <2>2 DEF commit_write
<1>11. CASE mark_committed(p)
  <2>0. dcall[p].pc = "mark" /\ traffic' = traffic /\ slots' = slots /\ Returns(p)
    BY <1>11 DEF mark_committed
  <2>1. CASE dcall[p].act = 0
    BY <1>1, <1>11, <2>0, <2>1, ReturnedCall, JournalBystander DEF mark_committed, Watched
  <2>2. CASE dcall[p].act # 0
    <3>1. dcall[p].act = Len(actions) /\ Active' = Active /\ Active = {traffic}
      BY <1>0, <1>1, <2>0, <2>2 DEF JournalBy
    <3>2. Latest'.status = "committed"
      BY <1>6, <1>11, <2>2, <3>1 DEF mark_committed, ActionStatus
    <3>3. JournalBy(p)' /\ Honest'
      BY <2>0, <3>1, <3>2, ReturnedCall DEF JournalBy, Honest
    <3>. QED  BY <1>0, <2>2, <3>1, <3>3, OwnJournal
  <2>. QED  BY <2>1, <2>2
<1>12. CASE mark_reconcile_required(p)
  <2>0. dcall[p].act # 0 /\ dcall[p].act = Len(actions)
    BY <1>0, <1>12, ProcType
       DEF mark_reconcile_required, JournalBy, SwitchTypeOK, CallOK, Journalled
  <2>1. Latest'.status = "reconcile_required"
    <3>1. PICK k : actions' = [actions EXCEPT ![dcall[p].act].status = "reconcile_required",
                                              ![dcall[p].act].since = k]
      BY <1>12 DEF mark_reconcile_required
    <3>. QED  BY <1>6, <2>0, <3>1 DEF ActionStatus
  <2>2. JournalBy(p)' /\ Honest'
    BY <1>12, <2>1, ReturnedCall DEF mark_reconcile_required, JournalBy, Honest
  <2>. QED  BY <1>0, <2>0, <2>2, OwnJournal
<1>. QED  BY <1>2, <1>4, <1>5, <1>7, <1>9, <1>10, <1>11, <1>12 DEF Switch, SwitchStep

LEMMA ReconcileJournal ==
    ASSUME OneCaller, SwitchTypeOK, SeenCurrent, Journal, NEW p \in Process, Reconcile(p)
    PROVE  Journal'
<1>0. /\ dcall[p] \in SwitchCall /\ actions \in Seq(Action) /\ JournalBy(p)
      /\ Honest /\ (HasActuator \/ actions = <<>>)
  BY DEF SwitchTypeOK, Journal
<1>1. slots' = slots => Active' = Active
  BY DEF Active
<1>2. CASE reconcile_observe(p)
  <2>1. dcall'[p].pc = "observed" /\ dcall'[p].slot = traffic
    BY <1>2 DEF reconcile_observe, SwitchEnters, SwitchIdle, SwitchTypeOK
  <2>2. JournalBy(p)' /\ Honest'
    BY <1>0, <1>1, <1>2, <2>1 DEF reconcile_observe, JournalBy, Honest, Latest
  <2>. QED  BY <1>0, <1>2, <2>2, OwnJournal DEF reconcile_observe
<1>3. CASE reconcile_read(p)
  <2>0. dcall[p].pc = "observed" /\ UNCHANGED <<slots, actions, traffic>>
    BY <1>3 DEF reconcile_read
  <2>1. CASE Returns(p)
    BY <1>1, <2>0, <2>1, ReturnedCall, JournalBystander DEF Watched
  <2>2. ASSUME NEW i, SwitchEnters(p, [dcall[p] EXCEPT !.pc = "reconcile", !.seen = slots, !.act = i])
        PROVE  Journal'
    <3>1. dcall'[p].pc = "reconcile" /\ dcall'[p].slot = dcall[p].slot
      BY <1>0, <2>2 DEF SwitchEnters, SwitchTypeOK, SwitchCall
    <3>2. JournalBy(p)' /\ Honest'
      BY <1>0, <1>1, <2>0, <3>1 DEF JournalBy, Honest, Latest
    <3>. QED  BY <1>0, <2>0, <3>2, OwnJournal
  <2>. QED  BY <1>3, <2>1, <2>2 DEF reconcile_read
<1>4. CASE reconcile_write(p)
  <2>0. /\ dcall[p].pc = "reconcile" /\ dcall[p].slot \in Slot
        /\ traffic' = traffic /\ traffic = dcall[p].slot
        /\ slots' = Transition(dcall[p].slot, dcall[p].seen)
    BY <1>0, <1>4, ProcType DEF reconcile_write, ObservedSlot, JournalBy
  <2>1. Active' = {traffic'}
    BY <2>0, ActiveTarget
  <2>2. JournalBy(p)' /\ Honest'
    BY <1>4, <2>1, ReturnedCall DEF reconcile_write, JournalBy, Honest
  <2>3. HasActuator
    BY <1>0, <2>0, ProcType DEF SwitchTypeOK, CallOK, Journalled
  <2>. QED  BY <2>2, <2>3, OwnJournal
<1>. QED  BY <1>2, <1>3, <1>4 DEF Reconcile

LEMMA JournalStep ==
    ASSUME OneCaller, SwitchTypeOK, SeenCurrent, Journal, [SwitchNext]_switchVars
    PROVE  Journal'
<1>0. slots' = slots => Active' = Active
  BY DEF Active
<1>1. ASSUME NEW p \in Process, Register(p)
      PROVE  Journal'
  <2>1. ASSUME NEW s \in Slot, NEW r \in Release, register_read(p, s, r)
        PROVE  UNCHANGED <<slots, actions, traffic>> /\ dcall'[p].pc = "register"
    BY <2>1 DEF register_read, SwitchEnters, SwitchIdle, SwitchTypeOK
  <2>2. CASE register_write(p)
    BY <2>2, ActiveSame, ReturnedCall, JournalBystander DEF register_write, Watched
  <2>. QED  BY <1>0, <1>1, <2>1, <2>2, JournalBystander DEF Register, Watched
<1>2. ASSUME NEW p \in Process, Probe(p)
      PROVE  Journal'
  <2>0. dcall[p] \in SwitchCall
    BY DEF SwitchTypeOK
  <2>1. ASSUME NEW s \in Slot, probe_get(p, s)
        PROVE  UNCHANGED <<slots, actions, traffic>> /\ dcall'[p].pc = "probing"
    BY <2>1 DEF probe_get, SwitchEnters, SwitchIdle, SwitchTypeOK
  <2>2. ASSUME probe_deployment(p)
        PROVE  UNCHANGED <<slots, actions, traffic>> /\ dcall'[p].pc \in {"probed", "idle"}
    BY <2>0, <2>2, ReturnedCall DEF probe_deployment, SwitchEnters, SwitchTypeOK, SwitchCall
  <2>3. ASSUME record_health_read(p)
        PROVE  UNCHANGED <<slots, actions, traffic>> /\ dcall'[p].pc = "record"
    BY <2>0, <2>3 DEF record_health_read, SwitchEnters, SwitchTypeOK, SwitchCall
  <2>4. CASE record_health_write(p)
    BY <2>4, ActiveSame, ReturnedCall, JournalBystander DEF record_health_write, Watched
  <2>. QED  BY <1>0, <1>2, <2>1, <2>2, <2>3, <2>4, JournalBystander DEF Probe, Watched
<1>3. ASSUME NEW p \in Process, SwitchRaises(p) \/ SwitchCrash(p)
      PROVE  Journal'
  BY <1>0, <1>3, ReturnedCall, JournalBystander DEF SwitchRaises, SwitchCrash, Watched
<1>4. ASSUME UNCHANGED <<actions, traffic, dcall>>, Active' = Active
      PROVE  Journal'
  BY <1>4 DEF Journal, JournalBy, Honest, Latest
<1>5. ASSUME NEW s \in Slot, Expire(s)
      PROVE  Journal'
  <2>1. \A t \in Slot : slots'[t] = [slots[t] EXCEPT !.evidence.fresh = FALSE]
                         \/ slots'[t] = slots[t]
    BY <1>5 DEF Expire, SwitchTypeOK
  <2>. QED  BY <1>4, <1>5, <2>1, ActiveSame DEF Expire
<1>6. CASE UNCHANGED switchVars
  BY <1>0, <1>4, <1>6 DEF switchVars
<1>. QED  BY <1>1, <1>2, <1>3, <1>5, <1>6, SwitchJournal, ReconcileJournal DEF SwitchNext

LEMMA JournalInit == SwitchInit => Journal
  BY DEF SwitchInit, Journal, JournalBy, Honest, SwitchIdle

\* The journal is honest, for every length of it: when its latest action says committed
\* or reconciled, the slot that is active is the one that serves the traffic, with one
\* operator at a time and whatever crashes, failed commits and lost answers came before.
THEOREM JournalHonest == OneCaller /\ SwitchSpec => []RegistryMatchesTraffic
<1>. SUFFICES ASSUME OneCaller PROVE SwitchSpec => []RegistryMatchesTraffic
  OBVIOUS
<1>1. SwitchInit => SeenCurrent /\ Journal
  BY SerialInit, JournalInit
<1>2. SwitchTypeOK /\ SeenCurrent /\ Journal /\ [SwitchNext]_switchVars => SeenCurrent' /\ Journal'
  BY SeenStep, JournalStep
<1>3. Journal => RegistryMatchesTraffic
  BY DEF Journal, Honest, Latest, RegistryMatchesTraffic
<1>. QED  BY <1>1, <1>2, <1>3, RegistryTypeCorrect, PTL DEF SwitchSpec

----------------------------------------------------------------------------
(* The inductive invariant.                                                *)

MatrixEvidence == [Adapter -> [Version -> {"none", "passed", "failed"}]]

\* The places between the read and the commit of a session.
InSession == {"registering", "recording", "promoting", "block"}

\* The methods about one adapter have one at hand.
HasAdapter(c) ==
    c.pc \in {"register", "registering", "qualify", "probe", "record", "recording", "block"} =>
        \E a \in Adapter : c.at = {a}

\* No set names two versions of one adapter.
OneVersionEach(targets) == \A t, u \in targets : t[1] = u[1] => t = u

\* A call whose next commit decides on nothing it read before.
Resting(c) ==
    /\ c \in MatrixCall
    /\ HasAdapter(c)
    /\ c.pc \notin InSession
    /\ OneVersionEach(c.targets)

\* A call is well formed, what its session read is what the rows still hold, and what it
\* is about to promote has passed.
EntryCallOK(c, rows, passes) ==
    /\ c \in MatrixCall
    /\ HasAdapter(c)
    /\ OneVersionEach(c.targets)
    /\ c.pc \in InSession => c.seen = rows
    /\ c.pc = "promoting" => \A t \in c.targets : passes[t[1]][t[2]] = "passed"

MatrixInv ==
    /\ entries \in Matrix
    /\ evidence \in MatrixEvidence
    /\ registry \in [Process -> [Adapter -> Version]]
    /\ ccall \in [Process -> MatrixCall]
    /\ \A p \in Process : EntryCallOK(ccall[p], entries, evidence)
    /\ ActiveQualified
    /\ OneActiveVersion

LEMMA IdleRests == Resting(MatrixIdle)
  BY DEF Resting, MatrixIdle, NoEntries, MatrixCall, MatrixPC, Ops, Matrix, EntryState,
         HasAdapter, InSession, OneVersionEach

\* The one call moves, and the tables are as the properties want them.
LEMMA CallMoves ==
    ASSUME OneCaller, MatrixInv, NEW p \in Process, NEW c, MatrixEnters(p, c),
           EntryCallOK(c, entries', evidence'),
           entries' \in Matrix, evidence' \in MatrixEvidence,
           registry' \in [Process -> [Adapter -> Version]],
           ActiveQualified', OneActiveVersion'
    PROVE  MatrixInv'
<1>1. c \in MatrixCall
  BY DEF EntryCallOK
<1>2. ccall' \in [Process -> MatrixCall] /\ ccall'[p] = c
  BY <1>1 DEF MatrixInv, MatrixEnters
<1>3. \A q \in Process : EntryCallOK(ccall'[q], entries', evidence')
  BY <1>2 DEF OneCaller, EntryCallOK
<1>. QED  BY <1>2, <1>3 DEF MatrixInv

\* The call comes to a place outside a session, and no table changes.
LEMMA Rests ==
    ASSUME OneCaller, MatrixInv, NEW p \in Process, NEW c, MatrixEnters(p, c), Resting(c),
           UNCHANGED <<entries, evidence, registry>>
    PROVE  MatrixInv'
<1>1. EntryCallOK(c, entries', evidence')
  BY DEF Resting, EntryCallOK, InSession
<1>2. ActiveQualified' /\ OneActiveVersion'
  BY DEF MatrixInv, ActiveQualified, OneActiveVersion
<1>. QED  BY <1>1, <1>2, CallMoves DEF MatrixInv

\* What follows a method or one adapter's qualification is a place outside a session.
LEMMA EndsRests ==
    ASSUME MatrixInv, NEW p \in Process, NEW ok \in BOOLEAN, Ends(p, ok)
    PROVE  \E c : MatrixEnters(p, c) /\ Resting(c)
<1>1. ccall[p] \in MatrixCall /\ OneVersionEach(ccall[p].targets)
  BY DEF MatrixInv, EntryCallOK
<1>2. NoEntries \in Matrix
  BY DEF NoEntries, Matrix, EntryState
<1>3. Resting([ccall[p] EXCEPT !.pc = "done", !.at = {}, !.seen = NoEntries, !.ok = ok])
  BY <1>1, <1>2 DEF Resting, MatrixCall, MatrixPC, HasAdapter, InSession
<1>. QED  BY <1>3, IdleRests DEF Ends

LEMMA QualifiedRests ==
    ASSUME MatrixInv, NEW p \in Process, NEW passed \in BOOLEAN, Qualified(p, passed)
    PROVE  \E c : MatrixEnters(p, c) /\ Resting(c)
<1>. DEFINE c == [ccall[p] EXCEPT !.ok = @ /\ passed, !.seen = NoEntries, !.verdict = FALSE]
<1>1. ccall[p] \in MatrixCall /\ OneVersionEach(ccall[p].targets)
  BY DEF MatrixInv, EntryCallOK
<1>2. NoEntries \in Matrix
  BY DEF NoEntries, Matrix, EntryState
<1>3. c \in MatrixCall /\ c.targets = ccall[p].targets /\ c.ok \in BOOLEAN
  BY <1>1, <1>2 DEF MatrixCall
<1>. HIDE DEF c
<1>4. ASSUME NEW a \in c.todo
      PROVE  Resting([c EXCEPT !.pc = "qualify", !.at = {a}, !.todo = @ \ {a}])
  BY <1>1, <1>3 DEF Resting, MatrixCall, MatrixPC, HasAdapter, InSession
<1>5. Resting([c EXCEPT !.pc = "promote", !.at = {}])
  BY <1>1, <1>3 DEF Resting, MatrixCall, MatrixPC, HasAdapter, InSession
<1>6. CASE Ends(p, c.ok)
  BY <1>3, <1>6, EndsRests
<1>. QED  BY <1>4, <1>5, <1>6, IdleRests DEF Qualified, c

\* The adapter at hand is one, and its version is a version.
LEMMA AtHand ==
    ASSUME MatrixInv, NEW p \in Process,
           ccall[p].pc \in {"register", "registering", "qualify", "probe", "record",
                           "recording", "block"}
    PROVE  This(p) \in Adapter /\ Ver(p) \in Version
<1>1. \E a \in Adapter : ccall[p].at = {a}
  BY DEF MatrixInv, EntryCallOK, HasAdapter
<1>. QED  BY <1>1 DEF This, Ver, MatrixInv

----------------------------------------------------------------------------
(* Requests.                                                               *)

LEMMA RequestKeeps ==
    ASSUME OneCaller, MatrixInv, NEW p \in Process, MatrixRequest(p)
    PROVE  MatrixInv'
<1>0. MatrixIdle \in MatrixCall /\ OneVersionEach(MatrixIdle.targets)
  BY IdleRests DEF Resting
<1>1. ASSUME NEW a \in Adapter, register_current(p, a) \/ qualify_current(p, a)
      PROVE  MatrixInv'
  <2>1. \A pc \in {"register", "qualify"} :
            Resting([MatrixIdle EXCEPT !.pc = pc, !.op = pc, !.at = {a}])
    BY <1>0 DEF Resting, MatrixCall, MatrixPC, Ops, HasAdapter, InSession, MatrixIdle
  <2>. QED  BY <1>1, <2>1, Rests DEF register_current, qualify_current
<1>one. ASSUME NEW a \in Adapter, NEW v \in Version
        PROVE  OneVersionEach({<<a, v>>}) /\ {<<a, v>>} \in SUBSET (Adapter \X Version)
  BY DEF OneVersionEach
<1>2. ASSUME NEW a \in Adapter, NEW v \in Version, promote(p, a, v)
      PROVE  MatrixInv'
  <2>1. Resting([MatrixIdle EXCEPT !.pc = "promote", !.op = "promote", !.targets = {<<a, v>>}])
    BY <1>0, <1>one DEF Resting, MatrixCall, MatrixPC, Ops, HasAdapter, InSession, MatrixIdle
  <2>. QED  BY <1>2, <2>1, Rests DEF promote
<1>3. ASSUME NEW a \in Adapter, NEW v \in Version, block_read(p, a, v)
      PROVE  MatrixInv'
  <2>. DEFINE c == [MatrixIdle EXCEPT !.pc = "block", !.op = "block", !.at = {a},
                                !.targets = {<<a, v>>}, !.seen = entries]
  <2>1. EntryCallOK(c, entries', evidence')
    <3>1. c \in MatrixCall
      BY <1>0, <1>one DEF MatrixInv, MatrixCall, MatrixPC, Ops, MatrixIdle
    <3>2. HasAdapter(c) /\ OneVersionEach(c.targets) /\ c.pc = "block" /\ c.seen = entries
      BY <1>one DEF HasAdapter, MatrixIdle
    <3>. HIDE DEF c
    <3>. QED  BY <1>3, <3>1, <3>2 DEF EntryCallOK, block_read
  <2>2. MatrixEnters(p, c)
    BY <1>3 DEF block_read
  <2>. HIDE DEF c
  <2>3. ActiveQualified' /\ OneActiveVersion'
    BY <1>3 DEF block_read, MatrixInv, ActiveQualified, OneActiveVersion
  <2>. QED  BY <1>3, <2>1, <2>2, <2>3, CallMoves DEF block_read, MatrixInv
<1>4. ASSUME NEW requested \in (SUBSET Adapter) \ {{}}, NEW promoting \in BOOLEAN,
             pipeline_run(p, requested, promoting)
      PROVE  MatrixInv'
  <2>. DEFINE targets == {<<a, registry[p][a]>> : a \in requested}
              c == [MatrixIdle EXCEPT !.op = IF promoting THEN "release" ELSE "qualify_only",
                                !.targets = targets, !.ok = TRUE]
  <2>1. targets \in SUBSET (Adapter \X Version) /\ OneVersionEach(targets)
    BY DEF MatrixInv, OneVersionEach
  <2>2. Resting([c EXCEPT !.pc = "done", !.ok = FALSE, !.targets = {}])
    BY <1>0 DEF Resting, MatrixCall, MatrixPC, Ops, HasAdapter, InSession, OneVersionEach, MatrixIdle
  <2>3. ASSUME NEW a \in requested
        PROVE  Resting([c EXCEPT !.pc = "qualify", !.at = {a}, !.todo = requested \ {a}])
    <3>. HIDE DEF targets
    <3>. QED  BY <1>0, <2>1 DEF Resting, MatrixCall, MatrixPC, Ops, HasAdapter, InSession, MatrixIdle
  <2>. HIDE DEF c
  <2>. QED  BY <1>4, <2>2, <2>3, Rests DEF pipeline_run, c
<1>. QED  BY <1>1, <1>2, <1>3, <1>4 DEF MatrixRequest

----------------------------------------------------------------------------
(* Steps of the methods.                                                   *)

LEMMA RegisterCommitKeeps ==
    ASSUME OneCaller, MatrixInv, NEW p \in Process, register_current_commit(p)
    PROVE  MatrixInv'
<1>. DEFINE a == This(p)
            v == Ver(p)
            old == ccall[p].seen[a][v]
<1>1. a \in Adapter /\ v \in Version
  BY AtHand DEF register_current_commit
<1>2. ccall[p].seen = entries
  BY DEF register_current_commit, MatrixInv, EntryCallOK, InSession
<1>3. CASE UNCHANGED entries
  <2>1. MatrixEnters(p, MatrixIdle) \/ MatrixMoves(p, "probe") \/ Qualified(p, FALSE)
    BY DEF register_current_commit
  <2>2. CASE MatrixMoves(p, "probe")
    <3>1. Resting([ccall[p] EXCEPT !.pc = "probe"])
      BY DEF register_current_commit, MatrixInv, EntryCallOK, Resting, MatrixCall, MatrixPC,
             HasAdapter, InSession
    <3>2. MatrixEnters(p, [ccall[p] EXCEPT !.pc = "probe"])
      BY <2>2 DEF MatrixMoves, MatrixEnters, MatrixInv
    <3>. QED  BY <1>3, <3>1, <3>2, Rests DEF register_current_commit
  <2>. QED  BY <1>3, <2>1, <2>2, IdleRests, QualifiedRests, Rests DEF register_current_commit
<1>4. CASE entries' = [entries EXCEPT ![a][v] = "candidate"]
           /\ (MatrixEnters(p, MatrixIdle) \/ MatrixMoves(p, "probe"))
  <2>1. /\ entries' \in Matrix
        /\ \A b \in Adapter, w \in Version : entries'[b][w] = "active" => entries[b][w] = "active"
    BY <1>1, <1>4 DEF MatrixInv, Matrix, EntryState
  <2>2. ActiveQualified' /\ OneActiveVersion'
    BY <2>1 DEF register_current_commit, MatrixInv, ActiveQualified, OneActiveVersion
  <2>3. PICK c : MatrixEnters(p, c) /\ Resting(c)
    <3>1. Resting([ccall[p] EXCEPT !.pc = "probe"])
      BY DEF register_current_commit, MatrixInv, EntryCallOK, Resting, MatrixCall, MatrixPC,
             HasAdapter, InSession
    <3>2. MatrixMoves(p, "probe") => MatrixEnters(p, [ccall[p] EXCEPT !.pc = "probe"])
      BY DEF MatrixMoves, MatrixEnters, MatrixInv
    <3>. QED  BY <1>4, <3>1, <3>2, IdleRests
  <2>4. EntryCallOK(c, entries', evidence')
    BY <2>3 DEF Resting, EntryCallOK, InSession
  <2>. QED  BY <2>1, <2>2, <2>3, <2>4, CallMoves DEF register_current_commit, MatrixInv
<1>5. CASE /\ entries' = [entries EXCEPT ![a][v] =
                              IF old \in {"absent", "blocked"} THEN "candidate" ELSE @]
           /\ MatrixEnters(p, MatrixIdle) \/ MatrixMoves(p, "probe")
  <2>1. CASE old \in {"absent", "blocked"}
    <3>1. entries' = [entries EXCEPT ![a][v] = "candidate"]
      BY <1>5, <2>1
    <3>. QED  BY <1>4, <1>5, <3>1
  <2>2. CASE old \notin {"absent", "blocked"}
    <3>1. entries' = [entries EXCEPT ![a][v] = @]
      BY <1>5, <2>2
    <3>2. entries' = entries
      BY <1>1, <3>1 DEF MatrixInv, Matrix
    <3>. QED  BY <1>3, <3>2
  <2>. QED  BY <2>1, <2>2
<1>. QED  BY <1>3, <1>5 DEF register_current_commit

LEMMA RecordCommitKeeps ==
    ASSUME OneCaller, MatrixInv, NEW p \in Process, record_commit(p)
    PROVE  MatrixInv'
<1>. DEFINE a == This(p)
            v == Ver(p)
            passed == ccall[p].verdict
<1>1. a \in Adapter /\ v \in Version /\ passed \in BOOLEAN
  BY AtHand DEF record_commit, MatrixInv, MatrixCall
<1>2. ccall[p].seen = entries
  BY DEF record_commit, MatrixInv, EntryCallOK, InSession
<1>3. CASE UNCHANGED <<entries, evidence>> /\ Qualified(p, FALSE)
  BY <1>3, QualifiedRests, Rests DEF record_commit
<1>4. CASE /\ evidence' = [evidence EXCEPT ![a][v] = IF passed THEN "passed" ELSE "failed"]
           /\ entries' = [entries EXCEPT ![a][v] = RecordedState(ccall[p].seen[a][v], @, passed)]
           /\ Qualified(p, passed)
  <2>. DEFINE new == RecordedState(entries[a][v], entries[a][v], passed)
  <2>1. new \in EntryState /\ (new = "active" => passed /\ entries[a][v] = "active")
    BY <1>1 DEF RecordedState, Assign, EntryState, MatrixInv, Matrix
  <2>2. entries' = [entries EXCEPT ![a][v] = new]
    BY <1>1, <1>2, <1>4 DEF MatrixInv, Matrix
  <2>. HIDE DEF new
  <2>3. entries' \in Matrix /\ evidence' \in MatrixEvidence
    BY <1>1, <1>4, <2>1, <2>2 DEF MatrixInv, Matrix, MatrixEvidence
  <2>4. \A b \in Adapter, w \in Version :
            entries'[b][w] = "active" => entries[b][w] = "active" /\ evidence'[b][w] = "passed"
    <3>1. ASSUME NEW b \in Adapter, NEW w \in Version, entries'[b][w] = "active"
          PROVE  entries[b][w] = "active" /\ evidence'[b][w] = "passed"
      <4>1. CASE b = a /\ w = v
        BY <1>1, <1>4, <2>1, <2>2, <3>1, <4>1 DEF MatrixInv, Matrix, MatrixEvidence
      <4>2. CASE ~(b = a /\ w = v)
        BY <1>1, <1>4, <2>2, <3>1, <4>2 DEF MatrixInv, Matrix, MatrixEvidence, ActiveQualified
      <4>. QED  BY <4>1, <4>2
    <3>. QED  BY <3>1
  <2>5. ActiveQualified' /\ OneActiveVersion'
    BY <2>4 DEF MatrixInv, ActiveQualified, OneActiveVersion
  <2>6. PICK c : MatrixEnters(p, c) /\ Resting(c)
    BY <1>1, <1>4, QualifiedRests
  <2>7. EntryCallOK(c, entries', evidence')
    BY <2>6 DEF Resting, EntryCallOK, InSession
  <2>. QED  BY <2>3, <2>5, <2>6, <2>7, CallMoves DEF record_commit, MatrixInv
<1>. QED  BY <1>3, <1>4 DEF record_commit

\* The targets become active, and for their adapters nothing else stays active.
LEMMA PromotedRows ==
    ASSUME entries \in Matrix, NEW targets \in SUBSET (Adapter \X Version),
           NEW a \in Adapter, NEW v \in Version
    PROVE  /\ Promoted(targets, entries) \in Matrix
           /\ <<a, v>> \in targets => Promoted(targets, entries)[a][v] = "active"
           /\ <<a, v>> \notin targets /\ Promoted(targets, entries)[a][v] = "active" =>
                  /\ entries[a][v] = "active"
                  /\ \A t \in targets : t[1] # a
<1>1. \A b \in Adapter, w \in Version :
          Promoted(targets, entries)[b][w] =
              CASE <<b, w>> \in targets -> Assign(entries[b][w], entries[b][w], "active")
                [] <<b, w>> \notin targets /\ entries[b][w] = "active"
                       /\ (\E t \in targets : t[1] = b) -> "candidate"
                [] OTHER -> entries[b][w]
  BY DEF Promoted
<1>2. ASSUME NEW b \in Adapter, NEW w \in Version
      PROVE  Promoted(targets, entries)[b][w] \in EntryState
  <2>1. entries[b][w] \in EntryState
    BY DEF Matrix
  <2>2. Promoted(targets, entries)[b][w] \in {"active", "candidate", entries[b][w]}
    BY <1>1 DEF Assign
  <2>. QED  BY <2>1, <2>2 DEF EntryState
<1>3. Promoted(targets, entries) \in Matrix
  BY <1>2 DEF Promoted, Matrix
<1>. QED  BY <1>1, <1>3 DEF Assign

LEMMA PromoteCommitKeeps ==
    ASSUME OneCaller, MatrixInv, NEW p \in Process, promote_commit(p)
    PROVE  MatrixInv'
<1>. DEFINE targets == ccall[p].targets
<1>1. /\ targets \in SUBSET (Adapter \X Version)
      /\ OneVersionEach(targets)
      /\ ccall[p].seen = entries
      /\ \A t \in targets : evidence[t[1]][t[2]] = "passed"
  BY DEF promote_commit, MatrixInv, EntryCallOK, InSession, MatrixCall
<1>2. PICK ok \in BOOLEAN : Ends(p, ok)
  BY DEF promote_commit
<1>3. PICK c : MatrixEnters(p, c) /\ Resting(c)
  BY <1>2, EndsRests
<1>4. CASE UNCHANGED entries
  BY <1>3, <1>4, Rests DEF promote_commit
<1>5. CASE entries' = Promoted(targets, entries)
  <2>1. entries' \in Matrix
    BY <1>1, <1>5, PromotedRows DEF MatrixInv, Promoted, Matrix, EntryState, Assign
  <2>2. \A a \in Adapter, v \in Version : entries'[a][v] = "active" =>
            \/ <<a, v>> \in targets
            \/ entries[a][v] = "active" /\ \A t \in targets : t[1] # a
    BY <1>1, <1>5, PromotedRows DEF MatrixInv
  <2>. HIDE DEF targets
  <2>3. ActiveQualified'
    <3>1. ASSUME NEW a \in Adapter, NEW v \in Version, <<a, v>> \in targets
          PROVE  evidence[a][v] = "passed"
      <4>1. evidence[<<a, v>>[1]][<<a, v>>[2]] = "passed"
        BY <1>1, <3>1
      <4>. QED  BY <4>1
    <3>. QED  BY <2>2, <3>1 DEF promote_commit, MatrixInv, ActiveQualified
  <2>4. OneActiveVersion'
    <3> SUFFICES ASSUME NEW a \in Adapter, NEW v \in Version, NEW w \in Version,
                        entries'[a][v] = "active", entries'[a][w] = "active"
                 PROVE  v = w
      BY DEF OneActiveVersion
    <3>1. CASE <<a, v>> \in targets \/ <<a, w>> \in targets
      BY <1>1, <2>2, <3>1 DEF OneVersionEach
    <3>2. CASE <<a, v>> \notin targets /\ <<a, w>> \notin targets
      BY <2>2, <3>2 DEF MatrixInv, OneActiveVersion
    <3>. QED  BY <3>1, <3>2
  <2>5. EntryCallOK(c, entries', evidence')
    BY <1>3 DEF Resting, EntryCallOK, InSession
  <2>. QED  BY <1>3, <2>1, <2>3, <2>4, <2>5, CallMoves DEF promote_commit, MatrixInv
<1>. QED  BY <1>1, <1>4, <1>5 DEF promote_commit

LEMMA BlockCommitKeeps ==
    ASSUME OneCaller, MatrixInv, NEW p \in Process, block_commit(p)
    PROVE  MatrixInv'
<1>1. ccall[p].seen = entries
  BY DEF block_commit, MatrixInv, EntryCallOK, InSession
<1>2. \A a \in Adapter, v \in Version :
          entries'[a][v] \in EntryState /\ (entries'[a][v] = "active" => entries[a][v] = "active")
  <2> SUFFICES ASSUME NEW a \in Adapter, NEW v \in Version
               PROVE  entries'[a][v] \in EntryState
                          /\ (entries'[a][v] = "active" => entries[a][v] = "active")
    OBVIOUS
  <2>1. entries'[a][v] = IF <<a, v>> \in ccall[p].targets
                         THEN Assign(ccall[p].seen[a][v], entries[a][v], "blocked")
                         ELSE entries[a][v]
    BY DEF block_commit
  <2>2. entries'[a][v] \in {entries[a][v], "blocked"}
    BY <2>1 DEF Assign
  <2>3. entries[a][v] \in EntryState
    BY DEF MatrixInv, Matrix
  <2>. QED  BY <2>2, <2>3 DEF EntryState
<1>3. entries' \in Matrix
  BY <1>2 DEF block_commit, Matrix
<1>4. ActiveQualified' /\ OneActiveVersion'
  BY <1>2 DEF block_commit, MatrixInv, ActiveQualified, OneActiveVersion
<1>5. EntryCallOK(MatrixIdle, entries', evidence')
  BY IdleRests DEF Resting, EntryCallOK, InSession
<1>. QED  BY <1>3, <1>4, <1>5, CallMoves DEF block_commit, MatrixInv

\* The reads: the call enters a session with the rows as they are.
LEMMA ReadKeeps ==
    ASSUME OneCaller, MatrixInv, NEW p \in Process,
           register_current_read(p) \/ record_read(p) \/ promote_read(p)
    PROVE  MatrixInv'
<1>1. ccall[p] \in MatrixCall /\ HasAdapter(ccall[p]) /\ OneVersionEach(ccall[p].targets)
      /\ entries \in Matrix
  BY DEF MatrixInv, EntryCallOK
<1>2. CASE promote_read(p) /\ Ends(p, FALSE)
  BY <1>2, EndsRests, Rests DEF promote_read
<1>3. ASSUME NEW pc \in InSession, pc # "block",
             MatrixEnters(p, [ccall[p] EXCEPT !.pc = pc, !.seen = entries]),
             pc \in {"registering", "recording"} =>
                 ccall[p].pc \in {"register", "record"},
             pc = "promoting" => \A t \in ccall[p].targets : evidence[t[1]][t[2]] = "passed",
             UNCHANGED <<entries, evidence, registry>>
      PROVE  MatrixInv'
  <2>. DEFINE c == [ccall[p] EXCEPT !.pc = pc, !.seen = entries]
  <2>1. c \in MatrixCall
    BY <1>1, <1>3 DEF MatrixCall, MatrixPC, InSession
  <2>2. /\ HasAdapter(c)
        /\ c.targets = ccall[p].targets
        /\ c.pc = pc /\ c.seen = entries
    BY <1>1, <1>3 DEF MatrixCall, HasAdapter, InSession
  <2>. HIDE DEF c
  <2>3. EntryCallOK(c, entries', evidence')
    BY <1>1, <1>3, <2>1, <2>2 DEF EntryCallOK
  <2>4. ActiveQualified' /\ OneActiveVersion'
    BY <1>3 DEF MatrixInv, ActiveQualified, OneActiveVersion
  <2>. QED  BY <1>3, <2>3, <2>4, CallMoves DEF MatrixInv, c
<1>4. CASE register_current_read(p)
  BY <1>3, <1>4 DEF register_current_read, InSession
<1>5. CASE record_read(p)
  BY <1>3, <1>5 DEF record_read, InSession
<1>6. CASE promote_read(p) /\ \A t \in ccall[p].targets : Promotable(ccall[p].op, t)
  BY <1>3, <1>6 DEF promote_read, Promotable, InSession
<1>. QED  BY <1>2, <1>4, <1>5, <1>6 DEF promote_read

LEMMA ProbeKeeps ==
    ASSUME OneCaller, MatrixInv, NEW p \in Process, qualify_check(p) \/ qualify_adapter(p)
    PROVE  MatrixInv'
<1>1. ccall[p] \in MatrixCall /\ HasAdapter(ccall[p]) /\ OneVersionEach(ccall[p].targets)
  BY DEF MatrixInv, EntryCallOK
<1>2. CASE Qualified(p, FALSE)
  BY <1>2, QualifiedRests, Rests DEF qualify_check, qualify_adapter
<1>3. CASE qualify_check(p) /\ MatrixMoves(p, "register")
  <2>1. Resting([ccall[p] EXCEPT !.pc = "register"])
    BY <1>1, <1>3 DEF qualify_check, Resting, MatrixCall, MatrixPC, HasAdapter, InSession
  <2>2. MatrixEnters(p, [ccall[p] EXCEPT !.pc = "register"])
    BY <1>3 DEF MatrixMoves, MatrixEnters, MatrixInv
  <2>. QED  BY <1>3, <2>1, <2>2, Rests DEF qualify_check
<1>4. ASSUME qualify_adapter(p), NEW passed \in BOOLEAN,
             MatrixEnters(p, [ccall[p] EXCEPT !.pc = "record", !.verdict = passed])
      PROVE  MatrixInv'
  <2>1. Resting([ccall[p] EXCEPT !.pc = "record", !.verdict = passed])
    BY <1>1, <1>4 DEF qualify_adapter, Resting, MatrixCall, MatrixPC, HasAdapter, InSession
  <2>. QED  BY <1>4, <2>1, Rests DEF qualify_adapter
<1>. QED  BY <1>2, <1>3, <1>4 DEF qualify_check, qualify_adapter

----------------------------------------------------------------------------
(* The theorems.                                                           *)

LEMMA InitMatrix == MatrixInit => MatrixInv
<1> SUFFICES ASSUME MatrixInit
             PROVE  MatrixInv
  OBVIOUS
<1>1. entries \in Matrix /\ evidence \in MatrixEvidence
  BY DEF MatrixInit, NoEntries, Matrix, EntryState, MatrixEvidence
<1>2. \A a \in Adapter, v \in Version : entries[a][v] # "active"
  BY DEF MatrixInit, NoEntries
<1>3. MatrixIdle \in MatrixCall /\ EntryCallOK(MatrixIdle, entries, evidence)
  BY IdleRests DEF Resting, EntryCallOK, InSession
<1>4. ccall \in [Process -> MatrixCall] /\ \A p \in Process : EntryCallOK(ccall[p], entries, evidence)
  BY <1>3 DEF MatrixInit
<1>. QED  BY <1>1, <1>2, <1>4 DEF MatrixInit, MatrixInv, ActiveQualified, OneActiveVersion

LEMMA NextMatrix == OneCaller /\ MatrixInv /\ [MatrixNext]_matrixVars => MatrixInv'
<1> SUFFICES ASSUME OneCaller, MatrixInv, [MatrixNext]_matrixVars
             PROVE  MatrixInv'
  OBVIOUS
<1>1. ASSUME NEW p \in Process, MatrixRequest(p)
      PROVE  MatrixInv'
  BY <1>1, RequestKeeps
<1>2. ASSUME NEW p \in Process, MatrixStep(p)
      PROVE  MatrixInv'
  BY <1>2, RegisterCommitKeeps, RecordCommitKeeps, PromoteCommitKeeps, BlockCommitKeeps,
     ReadKeeps, ProbeKeeps DEF MatrixStep
<1>3. ASSUME NEW p \in Process, pipeline_result(p) \/ MatrixCrash(p)
      PROVE  MatrixInv'
  BY <1>3, IdleRests, Rests DEF pipeline_result, MatrixCrash
<1>4. ASSUME NEW p \in Process, NEW a \in Adapter, NEW v \in Version, MatrixUpgrade(p, a, v)
      PROVE  MatrixInv'
  <2>1. registry' \in [Process -> [Adapter -> Version]]
    BY <1>4 DEF MatrixUpgrade, MatrixInv
  <2>. QED  BY <1>4, <2>1
               DEF MatrixUpgrade, MatrixInv, EntryCallOK, ActiveQualified, OneActiveVersion
<1>5. CASE UNCHANGED matrixVars
  BY <1>5 DEF matrixVars, MatrixInv, EntryCallOK, ActiveQualified, OneActiveVersion
<1>. QED  BY <1>1, <1>2, <1>3, <1>4, <1>5 DEF MatrixNext

\* A version that is active has a passing latest qualification, whatever fails or dies.
THEOREM OnlyQualifiedActive == OneCaller /\ MatrixSpec => []ActiveQualified
<1>. SUFFICES ASSUME OneCaller PROVE MatrixSpec => []ActiveQualified
  OBVIOUS
<1>1. MatrixInv /\ [MatrixNext]_matrixVars => MatrixInv'
  BY NextMatrix
<1>2. MatrixInv => ActiveQualified
  BY DEF MatrixInv
<1>. QED  BY <1>1, <1>2, InitMatrix, PTL DEF MatrixSpec

\* An adapter never has two active versions.
THEOREM OneVersionActive == OneCaller /\ MatrixSpec => []OneActiveVersion
<1>. SUFFICES ASSUME OneCaller PROVE MatrixSpec => []OneActiveVersion
  OBVIOUS
<1>1. MatrixInv /\ [MatrixNext]_matrixVars => MatrixInv'
  BY NextMatrix
<1>2. MatrixInv => OneActiveVersion
  BY DEF MatrixInv
<1>. QED  BY <1>1, <1>2, InitMatrix, PTL DEF MatrixSpec

\* Only the commit of a promotion makes a version active.
LEMMA OnlyPromotionActivates ==
    ASSUME MatrixInv, MatrixNext, NEW a \in Adapter, NEW v \in Version,
           entries[a][v] # "active", entries'[a][v] = "active"
    PROVE  \E q \in Process : promote_commit(q) /\ entries' = Promoted(ccall[q].targets, ccall[q].seen)
<1>1. ~UNCHANGED entries
  OBVIOUS
<1>2. PICK q \in Process :
          register_current_commit(q) \/ record_commit(q) \/ promote_commit(q) \/ block_commit(q)
  BY <1>1
     DEF MatrixNext, MatrixRequest, MatrixStep, pipeline_result, MatrixUpgrade, MatrixCrash, register_current,
             qualify_current, promote, block_read, pipeline_run, qualify_check, register_current_read,
             qualify_adapter, record_read, promote_read
<1>3. ~register_current_commit(q)
  <2> SUFFICES ASSUME register_current_commit(q)
               PROVE  FALSE
    OBVIOUS
  <2>1. This(q) \in Adapter /\ Ver(q) \in Version
    BY AtHand DEF register_current_commit
  <2>2. PICK new : /\ new # entries[This(q)][Ver(q)] => new = "candidate"
                   /\ entries' = [entries EXCEPT ![This(q)][Ver(q)] = new]
    BY <1>1, <2>1 DEF register_current_commit
  <2>. QED  BY <2>1, <2>2 DEF MatrixInv, Matrix
<1>4. ~record_commit(q)
  <2> SUFFICES ASSUME record_commit(q)
               PROVE  FALSE
    OBVIOUS
  <2>1. This(q) \in Adapter /\ Ver(q) \in Version
    BY AtHand DEF record_commit
  <2>2. PICK new : /\ new # entries[This(q)][Ver(q)] => new = "blocked"
                   /\ entries' = [entries EXCEPT ![This(q)][Ver(q)] = new]
    BY <1>1, <2>1 DEF record_commit, RecordedState, Assign
  <2>. QED  BY <2>1, <2>2 DEF MatrixInv, Matrix
<1>5. ~block_commit(q)
  <2> SUFFICES ASSUME block_commit(q)
               PROVE  FALSE
    OBVIOUS
  <2>1. entries'[a][v] = IF <<a, v>> \in ccall[q].targets
                         THEN Assign(ccall[q].seen[a][v], entries[a][v], "blocked")
                         ELSE entries[a][v]
    BY DEF block_commit
  <2>2. entries'[a][v] \in {entries[a][v], "blocked"}
    BY <2>1 DEF Assign
  <2>. QED  BY <2>2
<1>. QED  BY <1>1, <1>2, <1>3, <1>4, <1>5 DEF promote_commit

\* A release set becomes active as a whole.
THEOREM SetsPromotedTogether == OneCaller /\ MatrixSpec => PromotedTogether
<1>. SUFFICES ASSUME OneCaller PROVE MatrixSpec => PromotedTogether
  OBVIOUS
<1>. DEFINE Together ==
         \A p \in Process : \A t \in ccall[p].targets :
             /\ ccall[p].op \in {"release", "promote_many"}
             /\ entries[t[1]][t[2]] # "active"
             /\ entries'[t[1]][t[2]] = "active"
             => \A u \in ccall[p].targets : entries'[u[1]][u[2]] = "active"
<1>1. MatrixInv /\ [MatrixNext]_matrixVars => MatrixInv'
  BY NextMatrix
<1>2. MatrixInv /\ [MatrixNext]_matrixVars => [Together]_matrixVars
  <2> SUFFICES ASSUME MatrixInv, MatrixNext, NEW p \in Process, NEW t \in ccall[p].targets,
                      entries[t[1]][t[2]] # "active", entries'[t[1]][t[2]] = "active",
                      NEW u \in ccall[p].targets
               PROVE  entries'[u[1]][u[2]] = "active"
    OBVIOUS
  <2>1. ccall[p].targets \in SUBSET (Adapter \X Version)
    BY DEF MatrixInv, MatrixCall
  <2>2. t[1] \in Adapter /\ t[2] \in Version /\ u[1] \in Adapter /\ u[2] \in Version
        /\ u = <<u[1], u[2]>>
    BY <2>1
  <2>3. PICK q \in Process :
            promote_commit(q) /\ entries' = Promoted(ccall[q].targets, ccall[q].seen)
    BY <2>2, OnlyPromotionActivates
  <2>4. q = p
    BY DEF OneCaller
  <2>5. ccall[p].seen = entries
    BY <2>3, <2>4 DEF promote_commit, MatrixInv, EntryCallOK, InSession
  <2>6. <<u[1], u[2]>> \in ccall[p].targets
    BY <2>2
  <2>7. Promoted(ccall[p].targets, entries)[u[1]][u[2]] = "active"
    BY <2>1, <2>2, <2>6, PromotedRows DEF MatrixInv
  <2>. QED  BY <2>3, <2>4, <2>5, <2>7
<1>3. MatrixSpec => [][Together]_matrixVars
  BY <1>1, <1>2, InitMatrix, PTL DEF MatrixSpec
<1>. QED  BY <1>3 DEF PromotedTogether

----------------------------------------------------------------------------
(* The controller.  A run holds a row of its own table and drives the two   *)
(* components; the invariant says how far each of the three is when the run *)
(* is at a given place, and what the registry and the matrix look like      *)
(* there.                                                                   *)

\* The places of a run.
RunPC == {"create", "qualify", "probe_target", "probe_previous", "switch", "smoke",
          "adapters", "rollback", "save"}

\* The slot that was active before the run.
Before(p) == {proc[p].previous} \ {None}

NoStandby == \A s \in Slot : slots[s].state # "standby"

\* A run is between two slots, and its row says what it said when it began.
RunShape(p) ==
    proc[p].pc \in RunPC =>
        /\ proc[p].target \in Slot
        /\ proc[p].previous # proc[p].target
        /\ proc[p].pc = "probe_previous" => proc[p].previous # None
        /\ proc[p].pc # "create" =>
               /\ proc[p].release \in DOMAIN releases
               /\ releases[proc[p].release] =
                      [target |-> proc[p].target, previous |-> proc[p].previous,
                       adapters |-> proc[p].adapters, status |-> "started"]

\* The places of a promotion or rollback after it has chosen its slot.
Switching == {"apply", "applied", "refused", "committing", "commit", "mark", "unrecorded"}

\* Where the registry's method is when the controller is at a place.
SwitchPlace(p) ==
    /\ dcall[p].pc = "idle" => dcall[p] = SwitchIdle
    /\ HasActuator /\ dcall[p].pc \in Switching => dcall[p].act # 0
    /\ proc[p].pc \in {"create", "qualify", "smoke", "adapters", "save", "resolve"} =>
           dcall[p].pc = "idle"
    /\ proc[p].pc \in {"probe_target", "probe_previous"} =>
           dcall[p].pc \in {"idle", "probing", "probed", "record"}
    /\ proc[p].pc = "switch" =>
           /\ dcall[p].pc \in Switching \cup {"idle", "listing"}
           /\ dcall[p].pc # "idle" => dcall[p].slot = proc[p].target
    /\ proc[p].pc = "rollback" =>
           /\ dcall[p].pc \in Switching \cup {"idle"}
           /\ dcall[p].pc # "idle" => dcall[p].slot = proc[p].previous
    /\ proc[p].pc = "observe" => dcall[p].pc \in {"observed", "reconcile"}

\* The versions a run is about: those its process was started with.
Wanted(p) == {<<a, registry[p][a]>> : a \in proc[p].adapters}
NoMock(targets) == \A t \in targets : t[2] \notin Mock

\* The places of a set that is qualified and not promoted.
Qualifying == {"qualify", "register", "registering", "probe", "record", "recording", "done"}

\* Where the matrix's method is.
MatrixPlace(p) ==
    /\ ccall[p].pc = "idle" => ccall[p] = MatrixIdle
    /\ proc[p].pc \notin {"qualify", "adapters"} => ccall[p].pc = "idle"
    /\ proc[p].pc = "qualify" =>
           /\ ccall[p].op = "qualify_only"
           /\ ccall[p].pc \in Qualifying
           /\ ccall[p].ok => ccall[p].targets = Wanted(p) /\ NoMock(ccall[p].targets)
    /\ proc[p].pc \in {"probe_target", "probe_previous", "switch", "smoke", "adapters"} =>
           proc[p].qualified = Wanted(p) /\ NoMock(proc[p].qualified)
    /\ proc[p].pc = "adapters" /\ ccall[p].pc # "idle" =>
           /\ ccall[p].op = "promote_many"
           /\ ccall[p].pc \in {"promote", "promoting", "done"}
           /\ ccall[p].targets = proc[p].qualified
           /\ ccall[p].pc = "done" /\ ccall[p].ok =>
                  \A t \in ccall[p].targets : /\ entries[t[1]][t[2]] = "active"
                                              /\ evidence[t[1]][t[2]] = "passed"

\* Which slot is active on the way.
Routed(p) ==
    /\ proc[p].pc \in RunPC \ {"save"} /\ proc[p].previous = None => NoStandby
    /\ proc[p].pc \in {"create", "qualify", "probe_target", "probe_previous"} =>
           Active = Before(p)
    /\ proc[p].pc = "switch" /\ dcall[p].pc # "mark" => Active = Before(p)
    /\ proc[p].pc \in {"smoke", "adapters"} =>
           Active = {proc[p].target} /\ (HasActuator => traffic = proc[p].target)
    /\ proc[p].pc = "rollback" /\ dcall[p].pc = "idle" => Active = {proc[p].target}
    /\ proc[p].pc = "resolve" => Active = {traffic}

\* The statuses a run ends with, and those that promise the slot it found.
Outcomes == {"qualification_failed", "probe_failed", "switch_failed", "reconcile_required",
             "rolled_back", "rollback_failed", "succeeded"}
Undone == {"qualification_failed", "probe_failed", "switch_failed", "rolled_back"}

\* The switch went through and its last session raised.
WentThrough(p) ==
    /\ Active = {proc[p].target}
    /\ HasActuator => traffic = proc[p].target /\ Latest.status = "actuated"

\* What is about to be saved is true.
SaveOK(p) ==
    proc[p].pc = "save" =>
        /\ proc[p].status \in Outcomes
        /\ proc[p].status \in Undone =>
               Active = Before(p) \/ (proc[p].status = "switch_failed" /\ WentThrough(p))
        /\ proc[p].status = "succeeded" =>
               /\ Active = {proc[p].target}
               /\ HasActuator => traffic = proc[p].target
               /\ \A a \in proc[p].adapters : InForce(p, a)

ControlTypes == releases \in Seq(Row) /\ proc \in [Process -> Call]

ControlOf(p) == RunShape(p) /\ SwitchPlace(p) /\ MatrixPlace(p) /\ Routed(p) /\ SaveOK(p)

ControlInv ==
    /\ SwitchTypeOK /\ SeenCurrent /\ Journal /\ OneActive
    /\ MatrixInv
    /\ ControlTypes
    /\ Active = {} => NoStandby
    /\ \A p \in Process : ControlOf(p)

----------------------------------------------------------------------------
(* What the steps of the controller do to its own row and call.             *)

SameRun(p) ==
    /\ proc'[p].release = proc[p].release /\ proc'[p].adapters = proc[p].adapters
    /\ proc'[p].target = proc[p].target /\ proc'[p].previous = proc[p].previous
    /\ proc'[p].qualified = proc[p].qualified

LEMMA MovesDoes ==
    ASSUME ControlTypes, NEW p \in Process, NEW pc \in PC, Moves(p, pc)
    PROVE  proc' \in [Process -> Call] /\ proc'[p].pc = pc /\ SameRun(p)
  BY DEF ControlTypes, Call, Moves, SameRun

LEMMA SavesDoes ==
    ASSUME ControlTypes, NEW p \in Process, NEW status \in Status, Saves(p, status)
    PROVE  /\ proc' \in [Process -> Call] /\ proc'[p].pc = "save"
           /\ proc'[p].status = status /\ SameRun(p)
<1>1. [proc[p] EXCEPT !.pc = "save", !.status = status] \in Call
  BY DEF ControlTypes, Call, PC
<1>. QED  BY <1>1 DEF ControlTypes, Call, Saves, Enters, SameRun

LEMMA IdleDoes ==
    ASSUME ControlTypes, NEW p \in Process, Enters(p, Idle)
    PROVE  proc' \in [Process -> Call] /\ proc'[p].pc = "idle"
<1>1. Idle \in Call
  BY DEF Idle, Call, PC, Status
<1>. QED  BY <1>1 DEF ControlTypes, Enters, Idle

\* With both slots named there is no third.
LEMMA TwoSlots ==
    ASSUME NEW s \in Slot, NEW t \in Slot, s # t
    PROVE  Slot = {s, t}
<1>1. IsFiniteSet(Slot) /\ Cardinality(Slot) = 2
  BY SwitchAssumption
<1>2. Cardinality({s, t}) = 2
  <2>1. IsFiniteSet({s}) /\ Cardinality({s}) = 1
    BY FS_Singleton
  <2>2. Cardinality({s} \cup {t}) = Cardinality({s}) + 1
    BY <2>1, FS_AddElement
  <2>3. {s} \cup {t} = {s, t}
    OBVIOUS
  <2>. QED  BY <2>1, <2>2, <2>3
<1>. QED  BY <1>1, <1>2, FS_Subset

----------------------------------------------------------------------------
(* What the registry's steps do to the slots and to the call.               *)

LEMMA SameActive == slots' = slots => Active' = Active /\ NoStandby' = NoStandby
  BY DEF Active, NoStandby

\* Only a transition makes a slot a standby, and then one that was active.
LEMMA StandbyStep ==
    ASSUME OneCaller, SwitchTypeOK, SeenCurrent, [SwitchNext]_switchVars, NEW s \in Slot,
           slots'[s].state = "standby"
    PROVE  slots[s].state = "standby" \/ (s \in Active /\ Active' # Active)
<1>1. CASE \A t \in Slot : slots'[t] = [slots[t] EXCEPT !.evidence.fresh = FALSE]
                           \/ slots'[t] = slots[t]
  BY <1>1 DEF SwitchTypeOK, SlotRow
<1>2. ASSUME NEW p \in Process, register_write(p)
      PROVE  slots[s].state = "standby"
  <2>1. dcall[p].slot \in Slot /\ dcall[p].seen[dcall[p].slot] \in SlotRow
    BY <1>2, ProcType DEF register_write
  <2>. QED  BY <1>2, <2>1 DEF register_write, Registered, Assign, NoRow, SwitchTypeOK
<1>3. ASSUME NEW p \in Process, record_health_write(p)
      PROVE  slots[s].state = "standby"
  <2>1. dcall[p].slot \in Slot
    BY <1>3, ProcType DEF record_health_write
  <2>. QED  BY <1>3, <2>1 DEF record_health_write, SwitchTypeOK
<1>4. ASSUME NEW p \in Process, NEW t \in Slot,
             dcall[p].pc \in {"commit", "reconcile"}, slots' = Transition(t, dcall[p].seen)
      PROVE  slots[s].state = "standby" \/ (s \in Active /\ Active' # Active)
  <2>1. Active' = {t}
    BY <1>4, ActiveTarget
  <2>2. dcall[p].seen[s].state = slots[s].state
    BY <1>4 DEF SeenCurrent, SeenBy
  <2>3. slots[s].state = "standby" \/ slots[s].state = "active"
    BY <1>4, <2>2 DEF Transition, Assign, SwitchTypeOK, SlotRow
  <2>. QED  BY <2>3 DEF Active
<1>. QED  BY <1>1, <1>2, <1>3, <1>4, RowsStep

\* No standby appears while the active slot stays what it is, or where there is none.
LEMMA StandbyKept ==
    ASSUME OneCaller, SwitchTypeOK, SeenCurrent, [SwitchNext]_switchVars,
           NoStandby, Active = {} \/ Active' = Active
    PROVE  NoStandby'
  BY StandbyStep DEF NoStandby

\* Once a slot is active, some slot is.
LEMMA StandbyBehind ==
    ASSUME OneCaller, SwitchTypeOK, SeenCurrent, [SwitchNext]_switchVars,
           Active = {} => NoStandby
    PROVE  Active' = {} => NoStandby'
<1>. SUFFICES ASSUME Active' = {}, NEW s \in Slot, slots'[s].state = "standby"
              PROVE  FALSE
  BY DEF NoStandby
<1>1. Active = {}
  BY RowsStep, ActiveSame, ActiveTarget
<1>2. slots[s].state = "standby"
  BY <1>1, StandbyStep
<1>. QED  BY <1>1, <1>2 DEF NoStandby

\* A step of a promotion or rollback goes on with its slot, or ends: with the slot active
\* when it has committed, with nothing changed when not.
LEMMA SwitchStepDoes ==
    ASSUME OneCaller, SwitchTypeOK, SeenCurrent, Journal, NEW p \in Process,
           SwitchPlace(p), SwitchStep(p)
    PROVE  /\ dcall[p].pc \in Switching \cup {"listing"}
           /\ \/ /\ dcall[p].pc # "mark" /\ dcall'[p].pc \in Switching
                 /\ dcall'[p].slot = dcall[p].slot
                 /\ HasActuator => dcall'[p].act # 0
                 /\ dcall'[p].pc # "mark" => slots' = slots
              \/ /\ dcall'[p] = SwitchIdle
                 /\ ~Committed(p)
                 /\ slots' = slots
              \/ /\ dcall'[p] = SwitchIdle
                 /\ Committed(p)
                 /\ Active' = {dcall[p].slot}
                 /\ HasActuator => traffic' = dcall[p].slot
<1>0. /\ dcall[p] \in SwitchCall /\ JournalBy(p) /\ dcall[p].act \in Nat
      /\ dcall[p].pc \in Journalled => dcall[p].act # 0
      /\ dcall[p].pc # "idle" => dcall[p].slot \in Slot
  BY DEF SwitchTypeOK, CallOK, Journal, SwitchCall
<1>1. ASSUME NEW pc, SwitchMoves(p, pc)
      PROVE  dcall'[p].pc = pc /\ dcall'[p].slot = dcall[p].slot /\ dcall'[p].act = dcall[p].act
  BY <1>1, MovedCall
<1>2. Returns(p) => dcall'[p] = SwitchIdle
  BY DEF Returns, SwitchTypeOK
<1>3. CASE promote_list(p)
  <2>1. CASE HasActuator
    <3>1. dcall'[p] = [SwitchIdle EXCEPT !.pc = "apply", !.op = "promote",
                                         !.slot = dcall[p].slot, !.act = Len(actions) + 1]
      BY <1>3, <2>1 DEF promote_list, Pending, SwitchEnters, SwitchTypeOK
    <3>2. Len(actions) \in Nat
      BY TablesType
    <3>. QED  BY <1>3, <3>1, <3>2 DEF promote_list, Switching, SwitchIdle
  <2>2. CASE ~HasActuator
    <3>1. dcall'[p] = [SwitchIdle EXCEPT !.pc = "committing", !.op = "promote",
                                         !.slot = dcall[p].slot]
      BY <1>3, <2>2 DEF promote_list, Pending, SwitchEnters, SwitchTypeOK
    <3>. QED  BY <1>3, <2>2, <3>1 DEF promote_list, Switching, SwitchIdle
  <2>. QED  BY <2>1, <2>2
<1>4. CASE apply(p)
  BY <1>0, <1>1, <1>4 DEF apply, Switching, Journalled
<1>5. CASE record_action_result(p)
  BY <1>0, <1>1, <1>2, <1>5 DEF record_action_result, Switching, Journalled, Committed
<1>6. ASSUME Uncommitted(p), slots' = slots, dcall[p].pc \in {"committing", "commit"}
      PROVE  \/ dcall'[p] = SwitchIdle /\ ~Committed(p)
             \/ /\ dcall'[p].pc = "unrecorded"
                /\ dcall'[p].slot = dcall[p].slot /\ dcall'[p].act # 0
  BY <1>1, <1>2, <1>6 DEF Uncommitted, Committed
<1>7. CASE commit_read(p)
  <2>1. CASE SwitchEnters(p, [dcall[p] EXCEPT !.pc = "commit", !.seen = slots])
    <3>1. dcall'[p].pc = "commit" /\ dcall'[p].slot = dcall[p].slot
          /\ dcall'[p].act = dcall[p].act
      BY <1>0, <2>1 DEF SwitchEnters, SwitchTypeOK, SwitchCall
    <3>. QED  BY <1>7, <3>1 DEF commit_read, Switching, SwitchPlace
  <2>. QED  BY <1>6, <1>7, <2>1 DEF commit_read, Switching
<1>8. CASE commit_write(p)
  <2>1. CASE slots' = Transition(dcall[p].slot, dcall[p].seen) /\ SwitchMoves(p, "mark")
    <3>1. Active' = {dcall[p].slot}
      BY <1>0, <1>8, <2>1, ActiveTarget DEF commit_write
    <3>2. HasActuator => dcall[p].act # 0
      BY <1>8 DEF commit_write, SwitchPlace, Switching
    <3>. QED  BY <1>1, <1>8, <2>1, <3>1, <3>2 DEF commit_write, Switching
  <2>. QED  BY <1>6, <1>8, <2>1 DEF commit_write, Switching
<1>9. CASE mark_committed(p)
  <2>1. /\ dcall[p].pc = "mark" /\ traffic' = traffic /\ slots' = slots
        /\ HasActuator => traffic = dcall[p].slot
        /\ Active = {dcall[p].slot}
    BY <1>0, <1>9 DEF mark_committed, JournalBy, SwitchPlace, Switching
  <2>. QED  BY <1>2, <1>9, <2>1, SameActive DEF mark_committed, Switching, Committed
<1>10. CASE mark_reconcile_required(p)
  BY <1>2, <1>10 DEF mark_reconcile_required, Switching, Committed
<1>. QED  BY <1>3, <1>4, <1>5, <1>7, <1>8, <1>9, <1>10 DEF SwitchStep

----------------------------------------------------------------------------
(* What the matrix's steps do to the call.                                 *)

LEMMA EndsDoes ==
    ASSUME MatrixInv, NEW p \in Process, NEW ok \in BOOLEAN, Ends(p, ok),
           ccall[p].op \in {"qualify_only", "promote_many"}
    PROVE  /\ ccall'[p].pc = "done" /\ ccall'[p].ok = ok
           /\ ccall'[p].op = ccall[p].op /\ ccall'[p].targets = ccall[p].targets
<1>1. ccall[p] \in MatrixCall
  BY DEF MatrixInv
<1>2. ccall'[p] = [ccall[p] EXCEPT !.pc = "done", !.at = {}, !.seen = NoEntries, !.ok = ok]
  BY DEF Ends, MatrixEnters, MatrixInv
<1>. QED  BY <1>1, <1>2 DEF MatrixCall

LEMMA MatrixMovesDoes ==
    ASSUME MatrixInv, NEW p \in Process, NEW pc, MatrixMoves(p, pc)
    PROVE  /\ ccall'[p].pc = pc /\ ccall'[p].ok = ccall[p].ok
           /\ ccall'[p].op = ccall[p].op /\ ccall'[p].targets = ccall[p].targets
  BY DEF MatrixInv, MatrixCall, MatrixMoves

LEMMA QualifiedDoes ==
    ASSUME MatrixInv, NEW p \in Process, NEW passed \in BOOLEAN, Qualified(p, passed),
           ccall[p].op = "qualify_only"
    PROVE  /\ ccall'[p].pc \in {"qualify", "done"} /\ (ccall'[p].ok => ccall[p].ok)
           /\ ccall'[p].op = ccall[p].op /\ ccall'[p].targets = ccall[p].targets
<1>. DEFINE c == [ccall[p] EXCEPT !.ok = @ /\ passed, !.seen = NoEntries, !.verdict = FALSE]
<1>1. ccall[p] \in MatrixCall
  BY DEF MatrixInv
<1>2. /\ c.op = ccall[p].op /\ c.targets = ccall[p].targets /\ c.todo = ccall[p].todo
      /\ c.ok \in BOOLEAN /\ (c.ok => ccall[p].ok)
      /\ DOMAIN c = DOMAIN ccall[p]
  BY <1>1 DEF MatrixCall
<1>. HIDE DEF c
<1>3. CASE Ends(p, c.ok)
  BY <1>2, <1>3, EndsDoes
<1>4. ASSUME NEW a \in c.todo,
             MatrixEnters(p, [c EXCEPT !.pc = "qualify", !.at = {a}, !.todo = @ \ {a}])
      PROVE  /\ ccall'[p].pc = "qualify" /\ ccall'[p].ok = c.ok
             /\ ccall'[p].op = c.op /\ ccall'[p].targets = c.targets
  <2>1. ccall'[p] = [c EXCEPT !.pc = "qualify", !.at = {a}, !.todo = @ \ {a}]
    BY <1>4 DEF MatrixEnters, MatrixInv
  <2>2. "pc" \in DOMAIN c
    BY <1>1, <1>2 DEF MatrixCall
  <2>. QED  BY <2>1, <2>2
<1>5. Qualified(p, passed) =>
          \/ Ends(p, c.ok)
          \/ \E a \in c.todo :
                 MatrixEnters(p, [c EXCEPT !.pc = "qualify", !.at = {a}, !.todo = @ \ {a}])
  BY <1>2 DEF Qualified, c
<1>. QED  BY <1>2, <1>3, <1>4, <1>5

\* A set that is only qualified stays what it is and is never promoted.
LEMMA QualifyStepDoes ==
    ASSUME MatrixInv, NEW p \in Process, MatrixStep(p),
           ccall[p].op = "qualify_only", ccall[p].pc \in Qualifying
    PROVE  /\ ccall'[p].pc \in Qualifying /\ (ccall'[p].ok => ccall[p].ok)
           /\ ccall'[p].op = ccall[p].op /\ ccall'[p].targets = ccall[p].targets
<1>. DEFINE Goes ==
         /\ ccall'[p].pc \in Qualifying /\ (ccall'[p].ok => ccall[p].ok)
         /\ ccall'[p].op = ccall[p].op /\ ccall'[p].targets = ccall[p].targets
<1>. SUFFICES Goes
  OBVIOUS
<1>1. ASSUME NEW passed \in BOOLEAN, Qualified(p, passed)
      PROVE  Goes
  BY <1>1, QualifiedDoes DEF Qualifying
<1>2. ASSUME NEW pc \in Qualifying, MatrixMoves(p, pc)
      PROVE  Goes
  BY <1>2, MatrixMovesDoes
<1>. HIDE DEF Goes
<1>3. CASE qualify_check(p)
  BY <1>1, <1>2, <1>3 DEF qualify_check, Qualifying
<1>4. CASE register_current_read(p)
  BY <1>4 DEF register_current_read, MatrixEnters, MatrixInv, MatrixCall, Goes, Qualifying
<1>5. CASE register_current_commit(p)
  BY <1>1, <1>2, <1>5 DEF register_current_commit, Qualifying
<1>6. CASE qualify_adapter(p)
  <2>1. ASSUME NEW passed \in BOOLEAN,
               MatrixEnters(p, [ccall[p] EXCEPT !.pc = "record", !.verdict = passed])
        PROVE  Goes
    BY <2>1 DEF MatrixEnters, MatrixInv, MatrixCall, Goes, Qualifying
  <2>. QED  BY <1>1, <1>6, <2>1 DEF qualify_adapter
<1>7. CASE record_read(p)
  BY <1>7 DEF record_read, MatrixEnters, MatrixInv, MatrixCall, Goes, Qualifying
<1>8. CASE record_commit(p)
  <2>1. ccall[p].verdict \in BOOLEAN
    BY DEF MatrixInv, MatrixCall
  <2>. QED  BY <1>1, <1>8, <2>1 DEF record_commit
<1>9. ~promote_read(p) /\ ~promote_commit(p) /\ ~block_commit(p)
  BY DEF promote_read, promote_commit, block_commit, Qualifying
<1>. QED  BY <1>3, <1>4, <1>5, <1>6, <1>7, <1>8, <1>9 DEF MatrixStep

\* A set that is promoted is in force when the promotion says so.
LEMMA PromoteStepDoes ==
    ASSUME OneCaller, MatrixInv, NEW p \in Process, MatrixStep(p),
           ccall[p].op = "promote_many", ccall[p].pc \in {"promote", "promoting", "done"}
    PROVE  /\ ccall'[p].pc \in {"promoting", "done"}
           /\ ccall'[p].op = ccall[p].op /\ ccall'[p].targets = ccall[p].targets
           /\ ccall'[p].pc = "done" /\ ccall'[p].ok =>
                  \A t \in ccall[p].targets : /\ entries'[t[1]][t[2]] = "active"
                                              /\ evidence'[t[1]][t[2]] = "passed"
<1>1. CASE promote_read(p)
  <2>1. CASE Ends(p, FALSE)
    BY <2>1, EndsDoes
  <2>2. CASE MatrixEnters(p, [ccall[p] EXCEPT !.pc = "promoting", !.seen = entries])
    BY <2>2 DEF MatrixEnters, MatrixInv, MatrixCall
  <2>. QED  BY <1>1, <2>1, <2>2 DEF promote_read
<1>2. CASE promote_commit(p)
  <2>1. CASE Ends(p, FALSE)
    BY <2>1, EndsDoes
  <2>2. CASE entries' = Promoted(ccall[p].targets, ccall[p].seen) /\ Ends(p, TRUE)
    <3>1. ccall[p].seen = entries /\ ccall[p].targets \in SUBSET (Adapter \X Version)
      BY <1>2 DEF promote_commit, MatrixInv, EntryCallOK, InSession, MatrixCall
    <3>2. ASSUME NEW t \in ccall[p].targets
          PROVE  entries'[t[1]][t[2]] = "active" /\ evidence'[t[1]][t[2]] = "passed"
      <4>1. t[1] \in Adapter /\ t[2] \in Version /\ t = <<t[1], t[2]>>
        BY <3>1
      <4>2. entries'[t[1]][t[2]] = "active"
        BY <2>2, <3>1, <4>1, PromotedRows DEF MatrixInv
      <4>3. evidence' = evidence /\ evidence[t[1]][t[2]] = "passed"
        BY <1>2 DEF promote_commit, MatrixInv, EntryCallOK
      <4>. QED  BY <4>2, <4>3
    <3>. QED  BY <2>2, <3>2, EndsDoes
  <2>. QED  BY <1>2, <2>1, <2>2 DEF promote_commit
<1>3. ccall[p].pc \in {"promote", "promoting"} => promote_read(p) \/ promote_commit(p)
  BY DEF MatrixStep, qualify_check, register_current_read, register_current_commit,
         qualify_adapter, record_read, record_commit, block_commit
<1>4. ccall[p].pc # "done"
  BY DEF MatrixStep, qualify_check, register_current_read, register_current_commit,
         qualify_adapter, record_read, record_commit, promote_read, promote_commit, block_commit
<1>. QED  BY <1>1, <1>2, <1>3, <1>4

----------------------------------------------------------------------------
(* Every step of the controller is a step of the registry, and one of the   *)
(* matrix or the promotion of a set, which the matrix takes as well.        *)

LEMMA RegistryStep ==
    ASSUME ControlInv, [Next]_vars
    PROVE  [SwitchNext]_switchVars
<1>1. ASSUME NEW p \in Process, Run(p)
      PROVE  [SwitchNext]_switchVars
  <2>1. run_probe(p) \/ run_probe_step(p) => Probe(p)
    BY DEF run_probe, run_probe_step, Probe, ControlInv, ControlOf, RunShape, RunPC,
           ControlTypes, Call
  <2>2. run_promote(p) => Switch(p) \/ UNCHANGED switchVars
    BY DEF run_promote, Switch, ControlInv, ControlOf, RunShape, RunPC
  <2>3. run_rollback(p) => Switch(p) \/ UNCHANGED switchVars
    BY DEF run_rollback, Switch
  <2>4. run_promote_step(p) \/ run_rollback_step(p) => Switch(p)
    BY DEF run_promote_step, run_rollback_step, Switch
  <2>5. run_smoke(p) \/ run_qualified(p) \/ run_create(p) \/ run_adapters(p)
        \/ run_promote_adapters(p) \/ run_matrix_step(p) \/ run_save(p) => UNCHANGED switchVars
    BY DEF run_smoke, run_qualified, run_create, run_adapters, run_promote_adapters,
           run_matrix_step, run_save
  <2>6. (\E s \in Slot, adapters \in (SUBSET Adapter) \ {{}} : run_check(p, s, adapters))
        => UNCHANGED switchVars
    BY DEF run_check
  <2>. QED  BY <1>1, <2>1, <2>2, <2>3, <2>4, <2>5, <2>6 DEF Run, SwitchNext
<1>2. ASSUME NEW p \in Process, ReconcileRelease(p)
      PROVE  [SwitchNext]_switchVars
  BY <1>2 DEF ReconcileRelease, observe_stable, reconcile_switch, reconcile_resolve, Reconcile,
              SwitchNext
<1>3. ASSUME NEW p \in Process, Endpoint(p) \/ registry_raises(p)
      PROVE  [SwitchNext]_switchVars
  BY <1>3 DEF Endpoint, registry_raises, Switch, SwitchNext
<1>4. ASSUME NEW p \in Process, Crash(p)
      PROVE  [SwitchNext]_switchVars
  <2>1. CASE dcall[p].pc # "idle"
    BY <1>4, <2>1 DEF Crash, SwitchCrash, Returns, SwitchNext
  <2>2. CASE dcall[p].pc = "idle"
    <3>1. dcall[p] = SwitchIdle /\ dcall \in [Process -> SwitchCall]
      BY <2>2 DEF ControlInv, ControlOf, SwitchPlace, SwitchTypeOK
    <3>2. dcall' = dcall
      BY <1>4, <3>1 DEF Crash
    <3>. QED  BY <1>4, <3>2 DEF Crash, switchVars
  <2>. QED  BY <2>1, <2>2
<1>. QED  BY <1>1, <1>2, <1>3, <1>4 DEF Next, Upgrade, vars

\* What a run has qualified names one version of an adapter.
LEMMA WantedSet ==
    ASSUME ControlTypes, MatrixInv, NEW p \in Process
    PROVE  /\ Wanted(p) \in SUBSET (Adapter \X Version)
           /\ OneVersionEach(Wanted(p))
<1>1. proc[p].adapters \in SUBSET Adapter
  BY DEF ControlTypes, Call
<1>2. \A a \in Adapter : registry[p][a] \in Version
  BY DEF MatrixInv
<1>. QED  BY <1>1, <1>2 DEF Wanted, OneVersionEach

LEMMA MatrixKept ==
    ASSUME OneCaller, ControlInv, [Next]_vars
    PROVE  MatrixInv'
<1>0. MatrixInv /\ ControlTypes
  BY DEF ControlInv
<1>1. ASSUME [MatrixNext]_matrixVars
      PROVE  MatrixInv'
  BY <1>0, <1>1, NextMatrix
<1>2. ASSUME NEW p \in Process, run_promote_adapters(p)
      PROVE  MatrixInv'
  <2>. DEFINE c == [MatrixIdle EXCEPT !.pc = "promote", !.op = "promote_many",
                                      !.targets = proc[p].qualified]
  <2>1. MatrixEnters(p, c) /\ UNCHANGED <<entries, evidence, registry>>
    BY <1>2 DEF run_promote_adapters, promote_many
  <2>2. proc[p].qualified = Wanted(p)
    BY <1>2 DEF run_promote_adapters, ControlInv, ControlOf, MatrixPlace
  <2>3. Resting(c)
    BY <1>0, <2>2, IdleRests, WantedSet
       DEF Resting, MatrixCall, MatrixPC, Ops, HasAdapter, InSession, MatrixIdle
  <2>. HIDE DEF c
  <2>. QED  BY <1>0, <2>1, <2>3, Rests
<1>3. ASSUME NEW p \in Process, run_create(p)
      PROVE  MatrixNext
  <2>1. proc[p].adapters \in SUBSET Adapter
    BY <1>0 DEF ControlTypes, Call
  <2>2. pipeline_run(p, proc[p].adapters, FALSE)
    BY <1>3 DEF run_create, PromoteInPipeline
  <2>3. proc[p].adapters # {}
    BY <2>2 DEF pipeline_run
  <2>4. proc[p].adapters \notin {{}}
    BY <2>3, Zenon
  <2>5. \E requested \in (SUBSET Adapter) \ {{}}, promoting \in BOOLEAN :
            pipeline_run(p, requested, promoting)
    <3>1. proc[p].adapters \in (SUBSET Adapter) \ {{}}
      BY <2>1, <2>4, Zenon
    <3>. WITNESS proc[p].adapters \in (SUBSET Adapter) \ {{}}, FALSE \in BOOLEAN
    <3>. QED  BY <2>2
  <2>6. MatrixRequest(p)
    BY <2>5 DEF MatrixRequest
  <2>. QED  BY <2>6 DEF MatrixNext
<1>4. ASSUME NEW p \in Process,
             run_qualified(p) \/ run_adapters(p) \/ run_matrix_step(p) \/ Upgrade(p)
      PROVE  MatrixNext
  BY <1>4 DEF run_qualified, run_adapters, run_matrix_step, Upgrade, MatrixNext
<1>5. ASSUME NEW p \in Process,
             \/ \E s \in Slot, adapters \in (SUBSET Adapter) \ {{}} : run_check(p, s, adapters)
             \/ run_probe(p) \/ run_probe_step(p) \/ run_promote(p) \/ run_promote_step(p)
             \/ run_smoke(p) \/ run_rollback(p) \/ run_rollback_step(p) \/ run_save(p)
             \/ ReconcileRelease(p) \/ Endpoint(p) \/ registry_raises(p)
      PROVE  UNCHANGED matrixVars
  BY <1>5 DEF run_check, run_probe, run_probe_step, run_promote, run_promote_step, run_smoke,
              run_rollback, run_rollback_step, run_save, ReconcileRelease, observe_stable,
              reconcile_switch, reconcile_resolve, Endpoint, registry_raises
<1>6. ASSUME NEW p \in Process, Crash(p)
      PROVE  [MatrixNext]_matrixVars
  <2>1. CASE ccall[p].pc # "idle"
    BY <1>6, <2>1 DEF Crash, MatrixCrash, MatrixEnters, MatrixNext
  <2>2. CASE ccall[p].pc = "idle"
    <3>1. ccall[p] = MatrixIdle /\ ccall \in [Process -> MatrixCall]
      BY <1>0, <2>2 DEF ControlInv, ControlOf, MatrixPlace, MatrixInv
    <3>2. ccall' = ccall
      BY <1>6, <3>1 DEF Crash
    <3>. QED  BY <1>6, <3>2 DEF Crash, matrixVars
  <2>. QED  BY <2>1, <2>2
<1>7. CASE UNCHANGED vars
  BY <1>1, <1>7 DEF vars
<1>. QED  BY <1>1, <1>2, <1>3, <1>4, <1>5, <1>6, <1>7 DEF Next, Run

\* What the components keep by themselves.
LEMMA PartsKept ==
    ASSUME OneCaller, ControlInv, [Next]_vars
    PROVE  /\ SwitchTypeOK' /\ SeenCurrent' /\ Journal' /\ OneActive'
           /\ MatrixInv'
           /\ Active' = {} => NoStandby'
           /\ NoStandby /\ (Active = {} \/ Active' = Active) => NoStandby'
<1>1. [SwitchNext]_switchVars
  BY RegistryStep
<1>2. SwitchTypeOK /\ SeenCurrent /\ Journal /\ OneActive /\ (Active = {} => NoStandby)
  BY DEF ControlInv
<1>3. SwitchTypeOK'
  BY <1>1, <1>2, RegistryTypeStep
<1>4. SeenCurrent' /\ Journal'
  BY <1>1, <1>2, SeenStep, JournalStep
<1>5. OneActive'
  BY <1>1, <1>2, ActiveStep DEF OneActive
<1>6. Active' = {} => NoStandby'
  BY <1>1, <1>2, StandbyBehind
<1>7. NoStandby /\ (Active = {} \/ Active' = Active) => NoStandby'
  BY <1>1, <1>2, StandbyKept
<1>. QED  BY <1>3, <1>4, <1>5, <1>6, <1>7, MatrixKept

----------------------------------------------------------------------------
(* What each step of a run does to the run.  The parts have been dealt with *)
(* above; the lemmas below conclude ControlOf for the process that moves.   *)

\* What is known when a step begins.
LEMMA Known ==
    ASSUME ControlInv, NEW p \in Process
    PROVE  /\ ControlTypes /\ MatrixInv /\ SwitchTypeOK
           /\ ControlOf(p)
           /\ proc[p] \in Call /\ proc \in [Process -> Call]
           /\ ccall[p] \in MatrixCall /\ dcall[p] \in SwitchCall
           /\ releases \in Seq(Row) /\ None \notin Slot
           /\ SwitchIdle.pc = "idle" /\ MatrixIdle.pc = "idle"
  BY SwitchAssumption
     DEF ControlInv, ControlTypes, MatrixInv, SwitchTypeOK, SwitchIdle, MatrixIdle

LEMMA ReleaseRows ==
    ASSUME releases \in Seq(Row), NEW r \in DOMAIN releases, NEW status \in Status
    PROVE  [releases EXCEPT ![r].status = status] \in Seq(Row)
<1>0. releases[r] \in Row
  OBVIOUS
<1>1. [releases[r] EXCEPT !.status = status] \in Row
  BY <1>0 DEF Row
<1>2. \A row \in Row : [releases EXCEPT ![r] = row] \in Seq(Row)
  OBVIOUS
<1>. QED  BY <1>1, <1>2

\* run: the check, the row, and what the pipeline said.
LEMMA CheckControl ==
    ASSUME ControlInv, NEW p \in Process, NEW s \in Slot, NEW adapters \in SUBSET Adapter,
           run_check(p, s, adapters)
    PROVE  ControlTypes' /\ ControlOf(p)'
<1>1. PICK previous \in IF Active = {} THEN {None} ELSE Active :
          /\ previous # s
          /\ Enters(p, [Idle EXCEPT !.pc = "create", !.adapters = adapters, !.target = s,
                                    !.previous = previous])
  BY DEF run_check
<1>2. previous \in Slot \cup {None} /\ Active = {previous} \ {None}
      /\ (previous = None => NoStandby)
  BY <1>1, Known DEF ControlInv, OneActive, Active
<1>. DEFINE c == [Idle EXCEPT !.pc = "create", !.adapters = adapters, !.target = s,
                              !.previous = previous]
<1>3. c \in Call
  BY <1>2 DEF Idle, Call, PC, Status
<1>4. /\ c.pc = "create" /\ c.target = s /\ c.previous = previous
  BY DEF Idle
<1>. HIDE DEF c
<1>5. proc' \in [Process -> Call] /\ proc'[p] = c
  BY <1>1, <1>3, Known DEF Enters, c
<1>6. UNCHANGED <<slots, last, actions, traffic, dcall, entries, evidence, registry, ccall,
                  releases>>
  BY DEF run_check, switchVars, matrixVars
<1>7. Active' = Active /\ NoStandby' = NoStandby
  BY <1>6, SameActive
<1>8. dcall[p].pc = "idle" /\ ccall[p].pc = "idle"
  BY DEF run_check, Free
<1>9. RunShape(p)' /\ SaveOK(p)'
  BY <1>1, <1>4, <1>5 DEF RunShape, SaveOK
<1>10. SwitchPlace(p)' /\ MatrixPlace(p)'
  BY <1>4, <1>5, <1>6, <1>8, Known DEF ControlOf, SwitchPlace, MatrixPlace, Switching
<1>11. Routed(p)'
  BY <1>2, <1>4, <1>5, <1>7 DEF Routed, Before
<1>. QED  BY <1>5, <1>6, <1>9, <1>10, <1>11, Known DEF ControlTypes, ControlOf

LEMMA CreateControl ==
    ASSUME ControlInv, NEW p \in Process, run_create(p)
    PROVE  ControlTypes' /\ ControlOf(p)'
<1>. DEFINE row == [target |-> proc[p].target, previous |-> proc[p].previous,
                    adapters |-> proc[p].adapters, status |-> "started"]
            c == [proc[p] EXCEPT !.pc = "qualify", !.release = Len(releases) + 1]
<1>0. proc[p].pc = "create" /\ releases' = Append(releases, row) /\ Enters(p, c)
      /\ pipeline_run(p, proc[p].adapters, FALSE)
      /\ UNCHANGED <<slots, last, actions, traffic, dcall, entries, evidence, registry>>
  BY DEF run_create, switchVars, PromoteInPipeline, pipeline_run
<1>1. proc[p].target \in Slot /\ proc[p].previous # proc[p].target
  BY <1>0, Known DEF ControlOf, RunShape, RunPC
<1>2. row \in Row /\ Len(releases) \in Nat
  BY <1>1, Known DEF Row, Call, Status
<1>3. c \in Call /\ c.pc = "qualify" /\ c.release = Len(releases) + 1 /\ c.target = proc[p].target
      /\ c.previous = proc[p].previous /\ c.adapters = proc[p].adapters
  <2>1. Len(releases) + 1 \in Nat
    BY <1>2
  <2>. HIDE DEF row
  <2>. QED  BY <2>1, Known DEF Call, PC
<1>. HIDE DEF c
<1>4. proc' \in [Process -> Call] /\ proc'[p] = c
  BY <1>0, <1>3, Known DEF Enters
<1>5. releases' \in Seq(Row) /\ Len(releases) + 1 \in DOMAIN releases'
      /\ releases'[Len(releases) + 1] = row
  BY <1>0, <1>2, Known
<1>6. RunShape(p)' /\ SaveOK(p)'
  BY <1>1, <1>3, <1>4, <1>5 DEF RunShape, SaveOK
<1>7. SwitchPlace(p)'
  BY <1>0, <1>3, <1>4, Known DEF ControlOf, SwitchPlace, Switching
<1>8. MatrixPlace(p)'
  <2>. DEFINE targets == {<<a, registry[p][a]>> : a \in proc[p].adapters}
              m == [MatrixIdle EXCEPT !.op = "qualify_only", !.targets = targets, !.ok = TRUE]
  <2>1. Wanted(p)' = targets
    BY <1>0, <1>3, <1>4 DEF Wanted
  <2>2. CASE \E t \in targets : t[2] \in Mock
    <3>1. ccall' = [ccall EXCEPT ![p] = [m EXCEPT !.pc = "done", !.ok = FALSE, !.targets = {}]]
      BY <1>0, <2>2 DEF pipeline_run, MatrixEnters
    <3>2. ccall'[p].pc = "done" /\ ccall'[p].op = "qualify_only" /\ ~ccall'[p].ok
      BY <3>1, Known DEF MatrixInv, MatrixIdle
    <3>. QED  BY <1>3, <1>4, <3>2 DEF MatrixPlace, Qualifying
  <2>3. CASE ~\E t \in targets : t[2] \in Mock
    <3>1. PICK a \in proc[p].adapters :
              ccall' = [ccall EXCEPT ![p] = [m EXCEPT !.pc = "qualify", !.at = {a},
                                                      !.todo = proc[p].adapters \ {a}]]
      BY <1>0, <2>3 DEF pipeline_run, MatrixEnters
    <3>2. ccall'[p].pc = "qualify" /\ ccall'[p].op = "qualify_only" /\ ccall'[p].targets = targets
      BY <3>1, Known DEF MatrixInv, MatrixIdle
    <3>. QED  BY <1>3, <1>4, <2>1, <2>3, <3>2 DEF MatrixPlace, Qualifying, NoMock
  <2>. QED  BY <2>2, <2>3
<1>9. Routed(p)'
  <2>1. Active' = Active /\ NoStandby' = NoStandby
    BY <1>0, SameActive
  <2>. QED  BY <1>0, <1>3, <1>4, <2>1, Known DEF ControlOf, Routed, Before, RunPC
<1>. QED  BY <1>4, <1>5, <1>6, <1>7, <1>8, <1>9 DEF ControlTypes, ControlOf

LEMMA QualifiedControl ==
    ASSUME ControlInv, NEW p \in Process, run_qualified(p)
    PROVE  ControlTypes' /\ ControlOf(p)'
<1>0. /\ proc[p].pc = "qualify" /\ ccall[p].pc = "done" /\ ccall'[p] = MatrixIdle
      /\ UNCHANGED <<slots, last, actions, traffic, dcall, entries, evidence, registry, releases>>
      /\ IF ccall[p].ok
         THEN Enters(p, [proc[p] EXCEPT !.pc = "probe_target", !.qualified = ccall[p].targets])
         ELSE Saves(p, "qualification_failed")
  BY Known DEF run_qualified, pipeline_result, MatrixEnters, MatrixInv, switchVars
<1>1. Active' = Active /\ NoStandby' = NoStandby
  BY <1>0, SameActive
<1>2. CASE ccall[p].ok
  <2>. DEFINE c == [proc[p] EXCEPT !.pc = "probe_target", !.qualified = ccall[p].targets]
  <2>1. ccall[p].targets \in SUBSET (Adapter \X Version)
    BY Known DEF MatrixCall
  <2>2. /\ c \in Call /\ c.pc = "probe_target" /\ c.qualified = ccall[p].targets
        /\ c.release = proc[p].release /\ c.adapters = proc[p].adapters
        /\ c.target = proc[p].target /\ c.previous = proc[p].previous
    BY <2>1, Known DEF Call, PC
  <2>. HIDE DEF c
  <2>3. proc' \in [Process -> Call] /\ proc'[p] = c
    BY <1>0, <1>2, <2>2, Known DEF Enters, c
  <2>4. Wanted(p)' = Wanted(p)
    BY <1>0, <2>2, <2>3 DEF Wanted
  <2>5. RunShape(p)' /\ SaveOK(p)'
    BY <1>0, <2>2, <2>3, Known DEF ControlOf, RunShape, SaveOK, RunPC
  <2>6. SwitchPlace(p)'
    BY <1>0, <2>2, <2>3, Known DEF ControlOf, SwitchPlace, Switching
  <2>7. MatrixPlace(p)'
    BY <1>0, <1>2, <2>2, <2>3, <2>4, Known DEF ControlOf, MatrixPlace, NoMock
  <2>8. Routed(p)'
    BY <1>0, <1>1, <2>2, <2>3, Known DEF ControlOf, Routed, Before, RunPC
  <2>. QED  BY <1>0, <2>3, <2>5, <2>6, <2>7, <2>8, Known DEF ControlTypes, ControlOf
<1>3. CASE ~ccall[p].ok
  <2>1. /\ proc' \in [Process -> Call] /\ proc'[p].pc = "save"
        /\ proc'[p].status = "qualification_failed" /\ SameRun(p)
    BY <1>0, <1>3, Known, SavesDoes DEF Status
  <2>2. RunShape(p)'
    BY <1>0, <2>1, Known DEF ControlOf, RunShape, RunPC, SameRun
  <2>3. SwitchPlace(p)' /\ MatrixPlace(p)'
    BY <1>0, <2>1, Known DEF ControlOf, SwitchPlace, MatrixPlace, Switching
  <2>4. Routed(p)' /\ SaveOK(p)'
    BY <1>0, <1>1, <2>1, Known DEF ControlOf, Routed, SaveOK, Before, RunPC, SameRun, Outcomes,
                                   Undone
  <2>. QED  BY <1>0, <2>1, <2>2, <2>3, <2>4, Known DEF ControlTypes, ControlOf
<1>. QED  BY <1>2, <1>3

\* A place where only the run itself has moved on.
LEMMA MoveControl ==
    ASSUME ControlInv, NEW p \in Process,
           UNCHANGED <<slots, last, actions, traffic, dcall, entries, evidence, registry, ccall,
                       releases>>,
           \/ /\ proc[p].pc = "smoke"
              /\ Moves(p, "adapters") \/ Moves(p, "rollback")
           \/ /\ proc[p].pc = "rollback" /\ dcall[p].pc = "idle"
              /\ Saves(p, "rollback_failed")
           \/ /\ proc[p].pc = "switch" /\ dcall[p].pc = "idle"
              /\ Saves(p, "switch_failed") \/ Saves(p, "reconcile_required")
    PROVE  ControlTypes' /\ ControlOf(p)'
<1>1. Active' = Active /\ NoStandby' = NoStandby
  BY SameActive
<1>2. /\ proc' \in [Process -> Call] /\ SameRun(p)
      /\ proc'[p].pc \in {"adapters", "rollback", "save"}
      /\ proc'[p].pc = "save" =>
             proc'[p].status \in {"rollback_failed", "switch_failed", "reconcile_required"}
      /\ proc'[p].pc = "save" /\ proc[p].pc = "rollback" => proc'[p].status = "rollback_failed"
      /\ proc[p].pc = "smoke" <=> proc'[p].pc \in {"adapters", "rollback"}
  BY Known, MovesDoes, SavesDoes DEF PC, Status
<1>3. RunShape(p)'
  BY <1>2, Known DEF ControlOf, RunShape, RunPC, SameRun
<1>4. SwitchPlace(p)' /\ MatrixPlace(p)'
  BY <1>2, Known DEF ControlOf, SwitchPlace, MatrixPlace, Switching, SameRun, Wanted
<1>5. Routed(p)' /\ SaveOK(p)'
  BY <1>1, <1>2, Known DEF ControlOf, Routed, SaveOK, Before, RunPC, SameRun, Outcomes, Undone
<1>. QED  BY <1>2, <1>3, <1>4, <1>5, Known DEF ControlTypes, ControlOf

\* A step of the registry's during which the run stays where it is.
LEMMA CallControl ==
    ASSUME ControlInv, NEW p \in Process,
           UNCHANGED <<proc, releases, entries, evidence, registry, ccall>>,
           SwitchPlace(p)', Routed(p)', proc[p].pc # "save"
    PROVE  ControlTypes' /\ ControlOf(p)'
<1>1. RunShape(p)' /\ MatrixPlace(p)' /\ SaveOK(p)'
  BY Known DEF ControlOf, RunShape, MatrixPlace, SaveOK, Wanted
<1>. QED  BY <1>1, Known DEF ControlTypes, ControlOf

LEMMA ProbeControl ==
    ASSUME OneCaller, ControlInv, NEW p \in Process, run_probe(p)
    PROVE  ControlTypes' /\ ControlOf(p)'
<1>1. /\ proc[p].pc \in {"probe_target", "probe_previous"} /\ dcall'[p].pc = "probing"
      /\ slots' = slots /\ traffic' = traffic
      /\ UNCHANGED <<proc, releases, entries, evidence, registry, ccall>>
  BY Known DEF run_probe, probe_get, SwitchEnters, SwitchTypeOK, SwitchIdle, matrixVars
<1>2. Active' = Active /\ NoStandby' = NoStandby
  BY <1>1, SameActive
<1>3. SwitchPlace(p)' /\ Routed(p)'
  BY <1>1, <1>2, Known DEF ControlOf, SwitchPlace, Routed, Switching, RunPC, Before
<1>. QED  BY <1>1, <1>3, CallControl

LEMMA ProbeStepControl ==
    ASSUME OneCaller, ControlInv, NEW p \in Process, run_probe_step(p), [Next]_vars
    PROVE  ControlTypes' /\ ControlOf(p)'
<1>0. /\ proc[p].pc \in {"probe_target", "probe_previous"}
      /\ UNCHANGED <<traffic, releases, entries, evidence, registry, ccall>>
  BY DEF run_probe_step, matrixVars, probe_deployment, record_health_read, record_health_write
<1>1. Active' = Active /\ (NoStandby => NoStandby')
  <2>1. \/ \A s \in Slot : slots'[s] = [slots[s] EXCEPT !.evidence.fresh = FALSE]
                           \/ slots'[s] = slots[s]
        \/ record_health_write(p)
    BY DEF run_probe_step, probe_deployment, record_health_read
  <2>2. Active' = Active
    BY <2>1, ActiveSame, Known DEF ControlInv
  <2>. QED  BY <2>2, PartsKept
<1>2. dcall'[p].pc \in {"probed", "record", "idle"}
      /\ (dcall'[p].pc = "idle" => dcall'[p] = SwitchIdle)
  <2>1. Returns(p) => dcall'[p] = SwitchIdle
    BY DEF Returns, ControlInv, SwitchTypeOK
  <2>2. ASSUME NEW ok \in BOOLEAN,
               SwitchEnters(p, [dcall[p] EXCEPT !.pc = "probed", !.healthy = ok])
        PROVE  dcall'[p].pc = "probed"
    BY <2>2, Known DEF SwitchEnters, SwitchTypeOK, SwitchCall
  <2>3. record_health_read(p) => dcall'[p].pc = "record"
    BY Known DEF record_health_read, SwitchEnters, SwitchTypeOK, SwitchCall
  <2>. QED  BY <2>1, <2>2, <2>3, Known
            DEF run_probe_step, probe_deployment, record_health_write
<1>3. CASE UNCHANGED proc /\ dcall'[p].pc # "idle"
  <2>1. SwitchPlace(p)' /\ Routed(p)'
    BY <1>0, <1>1, <1>2, <1>3, Known
       DEF ControlOf, SwitchPlace, Routed, Switching, RunPC, Before
  <2>. QED  BY <1>0, <1>3, <2>1, CallControl
<1>4. ASSUME dcall'[p] = SwitchIdle, NEW pc \in {"probe_previous", "switch", "save"},
             proc' \in [Process -> Call], SameRun(p), proc'[p].pc = pc,
             pc = "probe_previous" => proc[p].previous # None,
             pc = "save" => proc'[p].status = "probe_failed"
      PROVE  ControlTypes' /\ ControlOf(p)'
  <2>1. RunShape(p)'
    BY <1>0, <1>4, Known DEF ControlOf, RunShape, RunPC, SameRun
  <2>2. SwitchPlace(p)' /\ MatrixPlace(p)'
    BY <1>0, <1>4, Known DEF ControlOf, SwitchPlace, MatrixPlace, Switching, SameRun, Wanted
  <2>3. Routed(p)' /\ SaveOK(p)'
    BY <1>0, <1>1, <1>4, Known DEF ControlOf, Routed, SaveOK, Before, RunPC, SameRun, Outcomes,
                                   Undone
  <2>. QED  BY <1>0, <1>4, <2>1, <2>2, <2>3, Known DEF ControlTypes, ControlOf
<1>5. CASE dcall'[p] = SwitchIdle /\ Saves(p, "probe_failed")
  BY <1>4, <1>5, SavesDoes, Known DEF Status
<1>6. CASE dcall'[p] = SwitchIdle
           /\ Moves(p, IF proc[p].pc = "probe_target" /\ proc[p].previous # None
                       THEN "probe_previous" ELSE "switch")
  <2>1. CASE Moves(p, "probe_previous") /\ proc[p].previous # None
    BY <1>4, <1>6, <2>1, MovesDoes, Known DEF PC
  <2>2. CASE Moves(p, "switch")
    BY <1>4, <1>6, <2>2, MovesDoes, Known DEF PC
  <2>. QED  BY <1>6, <2>1, <2>2
<1>. QED  BY <1>2, <1>3, <1>5, <1>6, Known DEF run_probe_step, Switched

LEMMA PromoteControl ==
    ASSUME OneCaller, ControlInv, NEW p \in Process, run_promote(p)
    PROVE  ControlTypes' /\ ControlOf(p)'
<1>0. proc[p].pc = "switch" /\ dcall[p].pc = "idle" /\ proc[p].target \in Slot
  BY Known DEF run_promote, ControlOf, RunShape, RunPC
<1>1. CASE promote_check(p, proc[p].target) /\ UNCHANGED proc
  <2>1. /\ dcall'[p].pc = "listing" /\ dcall'[p].slot = proc[p].target
        /\ slots' = slots /\ traffic' = traffic
        /\ UNCHANGED <<proc, releases, entries, evidence, registry, ccall>>
    BY <1>1, Known DEF run_promote, promote_check, SwitchEnters, SwitchTypeOK, SwitchIdle,
                       matrixVars
  <2>2. Active' = Active /\ NoStandby' = NoStandby
    BY <2>1, SameActive
  <2>3. SwitchPlace(p)' /\ Routed(p)'
    BY <1>0, <2>1, <2>2, Known DEF ControlOf, SwitchPlace, Routed, Switching, RunPC, Before
  <2>. QED  BY <1>0, <2>1, <2>3, CallControl
<1>2. CASE UNCHANGED switchVars /\ Saves(p, SwitchFailure)
  <2>1. Saves(p, "switch_failed") \/ Saves(p, "reconcile_required")
    BY <1>2 DEF SwitchFailure
  <2>. QED  BY <1>0, <1>2, <2>1, MoveControl DEF run_promote, switchVars, matrixVars
<1>. QED  BY <1>1, <1>2 DEF run_promote

LEMMA PromoteStepControl ==
    ASSUME OneCaller, ControlInv, NEW p \in Process, run_promote_step(p), [Next]_vars
    PROVE  ControlTypes' /\ ControlOf(p)'
<1>0. /\ proc[p].pc = "switch" /\ SwitchStep(p) /\ SwitchPlace(p) /\ Journal /\ SeenCurrent
      /\ UNCHANGED <<releases, entries, evidence, registry, ccall>>
  BY Known DEF run_promote_step, matrixVars, ControlInv, ControlOf
<1>1. dcall[p].slot = proc[p].target /\ proc[p].target \in Slot /\ dcall[p].pc # "idle"
  BY <1>0, SwitchStepDoes, Known
     DEF ControlOf, RunShape, RunPC, SwitchPlace, Switching
<1>2. proc[p].previous = None => NoStandby
  BY <1>0, Known DEF ControlOf, Routed, RunPC
<1>3. dcall[p].pc # "mark" => Active = Before(p)
  BY <1>0, Known DEF ControlOf, Routed
<1>4. dcall[p].pc = "mark" => Active' = Active
  <2>. SUFFICES ASSUME dcall[p].pc = "mark" PROVE slots' = slots
    BY SameActive
  <2>. QED  BY <1>0 DEF SwitchStep, promote_list, apply, record_action_result, commit_read,
                        commit_write, mark_committed, mark_reconcile_required
<1>5. proc[p].previous = None => NoStandby'
  <2>. SUFFICES ASSUME proc[p].previous = None PROVE NoStandby'
    OBVIOUS
  <2>1. Active = {} \/ Active' = Active
    BY <1>3, <1>4 DEF Before
  <2>. QED  BY <1>2, <2>1, PartsKept
<1>6. CASE UNCHANGED proc /\ dcall'[p].pc # "idle"
  <2>1. /\ dcall[p].pc # "mark" /\ dcall'[p].pc \in Switching /\ dcall'[p].slot = proc[p].target
        /\ HasActuator => dcall'[p].act # 0
        /\ dcall'[p].pc # "mark" => slots' = slots
    BY <1>0, <1>1, <1>6, SwitchStepDoes, Known
  <2>2. SwitchPlace(p)'
    BY <1>0, <1>6, <2>1 DEF SwitchPlace
  <2>3. Routed(p)'
    BY <1>0, <1>3, <1>5, <1>6, <2>1, SameActive DEF Routed, Before, RunPC
  <2>. QED  BY <1>0, <1>6, <2>2, <2>3, CallControl
<1>7. ASSUME dcall'[p] = SwitchIdle, NEW pc \in {"smoke", "save"},
             proc' \in [Process -> Call], SameRun(p), proc'[p].pc = pc,
             pc = "smoke" => Committed(p),
             pc = "save" => ~Committed(p) /\ proc'[p].status \in {"switch_failed", "reconcile_required"}
      PROVE  ControlTypes' /\ ControlOf(p)'
  <2>1. RunShape(p)'
    BY <1>0, <1>7, Known DEF ControlOf, RunShape, RunPC, SameRun
  <2>2. SwitchPlace(p)' /\ MatrixPlace(p)'
    BY <1>0, <1>7, Known DEF ControlOf, SwitchPlace, MatrixPlace, Switching, SameRun, Wanted
  <2>3. CASE pc = "smoke"
    <3>1. Active' = {proc[p].target} /\ (HasActuator => traffic' = proc[p].target)
      BY <1>0, <1>1, <1>7, <2>3, SwitchStepDoes, Known DEF Switching
    <3>. QED  BY <1>0, <1>5, <1>7, <2>1, <2>2, <2>3, <3>1, Known
              DEF ControlTypes, ControlOf, Routed, SaveOK, SameRun, RunPC
  <2>4. CASE pc = "save"
    <3>1. Active' = Before(p)
      BY <1>0, <1>3, <1>7, <2>4, SwitchStepDoes, SameActive, Known DEF Committed, Switching
    <3>. QED  BY <1>0, <1>7, <2>1, <2>2, <2>4, <3>1, Known
              DEF ControlTypes, ControlOf, Routed, SaveOK, SameRun, Before, Outcomes, Undone
  <2>. QED  BY <2>3, <2>4
<1>8. dcall'[p].pc = "idle" => dcall'[p] = SwitchIdle
  BY <1>0, SwitchStepDoes, Known DEF Switching
<1>9. CASE dcall'[p] = SwitchIdle /\ Committed(p) /\ Moves(p, "smoke")
  BY <1>7, <1>9, MovesDoes, Known DEF PC
<1>10. CASE dcall'[p] = SwitchIdle /\ ~Committed(p) /\ Saves(p, SwitchFailure)
  <2>1. PICK status \in {"switch_failed", "reconcile_required"} : Saves(p, status)
    BY <1>10 DEF SwitchFailure
  <2>. QED  BY <1>7, <1>10, <2>1, SavesDoes, Known DEF Status
<1>. QED  BY <1>6, <1>8, <1>9, <1>10, Known DEF run_promote_step, Switched

LEMMA SmokeControl ==
    ASSUME ControlInv, NEW p \in Process, run_smoke(p)
    PROVE  ControlTypes' /\ ControlOf(p)'
<1>1. proc[p].pc = "smoke" /\ (Moves(p, "adapters") \/ Moves(p, "rollback"))
  BY DEF run_smoke, SmokeFailed
<1>. QED  BY <1>1, MoveControl DEF run_smoke, switchVars, matrixVars

\* The set that was qualified is promoted.
LEMMA PromoteAdaptersControl ==
    ASSUME ControlInv, NEW p \in Process, run_promote_adapters(p)
    PROVE  ControlTypes' /\ ControlOf(p)'
<1>0. /\ proc[p].pc = "adapters"
      /\ UNCHANGED <<slots, last, actions, traffic, dcall, entries, evidence, registry, releases,
                     proc>>
  BY DEF run_promote_adapters, promote_many, switchVars
<1>1. /\ ccall'[p].pc = "promote" /\ ccall'[p].op = "promote_many"
      /\ ccall'[p].targets = proc[p].qualified
  BY Known DEF run_promote_adapters, promote_many, MatrixEnters, MatrixInv, MatrixIdle
<1>2. RunShape(p)' /\ SwitchPlace(p)' /\ SaveOK(p)'
  BY <1>0, Known DEF ControlOf, RunShape, SwitchPlace, SaveOK
<1>3. MatrixPlace(p)'
  BY <1>0, <1>1, Known DEF ControlOf, MatrixPlace, Wanted
<1>4. Routed(p)'
  BY <1>0, SameActive, Known DEF ControlOf, Routed, Before
<1>. QED  BY <1>0, <1>2, <1>3, <1>4, Known DEF ControlTypes, ControlOf

\* The promotion of the set has an outcome.
LEMMA AdaptersControl ==
    ASSUME ControlInv, NEW p \in Process, run_adapters(p)
    PROVE  ControlTypes' /\ ControlOf(p)'
<1>0. /\ proc[p].pc = "adapters" /\ ccall[p].pc = "done" /\ ccall'[p] = MatrixIdle
      /\ UNCHANGED <<slots, last, actions, traffic, dcall, entries, evidence, registry, releases>>
  BY Known DEF run_adapters, pipeline_result, MatrixEnters, MatrixInv, switchVars
<1>1. Active' = Active /\ NoStandby' = NoStandby
  BY <1>0, SameActive
<1>2. CASE ccall[p].ok /\ Saves(p, "succeeded")
  <2>1. /\ proc' \in [Process -> Call] /\ proc'[p].pc = "save"
        /\ proc'[p].status = "succeeded" /\ SameRun(p)
    BY <1>2, Known, SavesDoes DEF Status
  <2>2. ASSUME NEW a \in proc[p].adapters
        PROVE  InForce(p, a)
    <3>1. <<a, registry[p][a]>> \in Wanted(p)
      BY DEF Wanted
    <3>2. ccall[p].targets = Wanted(p) /\ NoMock(Wanted(p))
          /\ \A t \in ccall[p].targets : /\ entries[t[1]][t[2]] = "active"
                                         /\ evidence[t[1]][t[2]] = "passed"
      BY <1>0, <1>2, Known DEF ControlOf, MatrixPlace
    <3>. QED  BY <3>1, <3>2 DEF InForce, NoMock
  <2>3. \A a \in proc'[p].adapters : InForce(p, a)'
    BY <1>0, <2>1, <2>2 DEF InForce, SameRun
  <2>4. RunShape(p)'
    BY <1>0, <2>1, Known DEF ControlOf, RunShape, RunPC, SameRun
  <2>5. SwitchPlace(p)' /\ MatrixPlace(p)'
    BY <1>0, <2>1, Known DEF ControlOf, SwitchPlace, MatrixPlace, Switching
  <2>6. Routed(p)' /\ SaveOK(p)'
    BY <1>0, <1>1, <2>1, <2>3, Known DEF ControlOf, Routed, SaveOK, Before, RunPC, SameRun,
                                          Outcomes, Undone
  <2>. QED  BY <1>0, <2>1, <2>4, <2>5, <2>6, Known DEF ControlTypes, ControlOf
<1>3. CASE Moves(p, "rollback")
  <2>1. proc' \in [Process -> Call] /\ proc'[p].pc = "rollback" /\ SameRun(p)
    BY <1>3, Known, MovesDoes DEF PC
  <2>2. RunShape(p)' /\ SaveOK(p)'
    BY <1>0, <2>1, Known DEF ControlOf, RunShape, RunPC, SameRun, SaveOK
  <2>3. SwitchPlace(p)' /\ MatrixPlace(p)'
    BY <1>0, <2>1, Known DEF ControlOf, SwitchPlace, MatrixPlace, Switching
  <2>4. Routed(p)'
    BY <1>0, <1>1, <2>1, Known DEF ControlOf, Routed, RunPC, SameRun
  <2>. QED  BY <1>0, <2>1, <2>2, <2>3, <2>4, Known DEF ControlTypes, ControlOf
<1>. QED  BY <1>2, <1>3 DEF run_adapters, AdaptersFailed

\* A step of the matrix on behalf of the run.
LEMMA MatrixStepControl ==
    ASSUME OneCaller, ControlInv, NEW p \in Process, run_matrix_step(p)
    PROVE  ControlTypes' /\ ControlOf(p)'
<1>0. /\ proc[p].pc \in {"qualify", "adapters"} /\ MatrixStep(p)
      /\ UNCHANGED <<slots, last, actions, traffic, dcall, releases, proc>>
  BY DEF run_matrix_step, switchVars
<1>1. registry' = registry
  BY <1>0 DEF MatrixStep, qualify_check, register_current_read, register_current_commit,
              qualify_adapter, record_read, record_commit, promote_read, promote_commit,
              block_commit
<1>2. ccall[p].pc # "idle"
  BY <1>0 DEF MatrixStep, qualify_check, register_current_read, register_current_commit,
              qualify_adapter, record_read, record_commit, promote_read, promote_commit,
              block_commit
<1>3. Wanted(p)' = Wanted(p)
  BY <1>0, <1>1 DEF Wanted
<1>4. CASE proc[p].pc = "qualify"
  <2>1. /\ ccall'[p].pc \in Qualifying /\ (ccall'[p].ok => ccall[p].ok)
        /\ ccall'[p].op = "qualify_only" /\ ccall'[p].targets = ccall[p].targets
    BY <1>0, <1>4, QualifyStepDoes, Known DEF ControlOf, MatrixPlace
  <2>. QED  BY <1>0, <1>3, <1>4, <2>1, Known, SameActive
            DEF ControlOf, MatrixPlace, RunShape, SwitchPlace, Routed, SaveOK, NoMock, Before,
                Qualifying, ControlTypes
<1>5. CASE proc[p].pc = "adapters"
  <2>1. /\ ccall'[p].pc \in {"promoting", "done"}
        /\ ccall'[p].op = "promote_many" /\ ccall'[p].targets = proc[p].qualified
        /\ ccall'[p].pc = "done" /\ ccall'[p].ok =>
               \A t \in ccall'[p].targets : /\ entries'[t[1]][t[2]] = "active"
                                            /\ evidence'[t[1]][t[2]] = "passed"
    BY <1>0, <1>2, <1>5, PromoteStepDoes, Known DEF ControlOf, MatrixPlace
  <2>. QED  BY <1>0, <1>3, <1>5, <2>1, Known, SameActive
            DEF ControlOf, MatrixPlace, RunShape, SwitchPlace, Routed, SaveOK, NoMock, Before,
                ControlTypes
<1>. QED  BY <1>0, <1>4, <1>5

\* The compensation takes the slot the run found active: there is no other standby.
LEMMA RollbackControl ==
    ASSUME OneCaller, ControlInv, NEW p \in Process, run_rollback(p)
    PROVE  ControlTypes' /\ ControlOf(p)'
<1>0. /\ proc[p].pc = "rollback" /\ dcall[p].pc = "idle" /\ Active = {proc[p].target}
      /\ proc[p].target \in Slot /\ proc[p].previous # proc[p].target
      /\ proc[p].previous = None => NoStandby
      /\ UNCHANGED <<releases, entries, evidence, registry, ccall>>
  BY Known DEF run_rollback, matrixVars, ControlOf, RunShape, Routed, RunPC
<1>1. CASE rollback_list(p) /\ UNCHANGED proc
  <2>1. PICK s \in Slot : slots[s].state = "standby" /\ Pending(p, "rollback", s)
    BY <1>1 DEF rollback_list, Eligible
  <2>2. s = proc[p].previous
    <3>1. s # proc[p].target
      BY <1>0, <2>1 DEF Active
    <3>2. proc[p].previous \in Slot
      BY <1>0, <2>1, Known DEF NoStandby, Call
    <3>. QED  BY <1>0, <2>1, <3>1, <3>2, TwoSlots
  <2>3. /\ dcall'[p].pc \in {"apply", "committing"} /\ dcall'[p].slot = s
        /\ HasActuator => dcall'[p].act # 0
    <3>1. CASE HasActuator
      <4>1. dcall'[p] = [SwitchIdle EXCEPT !.pc = "apply", !.op = "rollback", !.slot = s,
                                           !.act = Len(actions) + 1]
        BY <2>1, <3>1, Known DEF Pending, SwitchEnters, SwitchTypeOK
      <4>2. Len(actions) \in Nat
        BY Known, TablesType
      <4>. QED  BY <4>1, <4>2 DEF SwitchIdle
    <3>2. CASE ~HasActuator
      <4>1. dcall'[p] = [SwitchIdle EXCEPT !.pc = "committing", !.op = "rollback", !.slot = s]
        BY <2>1, <3>2, Known DEF Pending, SwitchEnters, SwitchTypeOK
      <4>. QED  BY <3>2, <4>1 DEF SwitchIdle
    <3>. QED  BY <3>1, <3>2
  <2>4. SwitchPlace(p)'
    BY <1>0, <1>1, <2>2, <2>3, Known DEF SwitchPlace, Switching
  <2>5. Routed(p)'
    <3>1. slots' = slots
      BY <1>1 DEF rollback_list
    <3>. QED  BY <1>0, <1>1, <2>3, <3>1, SameActive DEF Routed
  <2>. QED  BY <1>0, <1>1, <2>4, <2>5, CallControl
<1>2. CASE UNCHANGED switchVars /\ Saves(p, "rollback_failed")
  BY <1>0, <1>2, MoveControl DEF switchVars
<1>. QED  BY <1>1, <1>2 DEF run_rollback

LEMMA RollbackStepControl ==
    ASSUME OneCaller, ControlInv, NEW p \in Process, run_rollback_step(p)
    PROVE  ControlTypes' /\ ControlOf(p)'
<1>0. /\ proc[p].pc = "rollback" /\ SwitchStep(p) /\ SwitchPlace(p) /\ Journal /\ SeenCurrent
      /\ UNCHANGED <<releases, entries, evidence, registry, ccall>>
  BY Known DEF run_rollback_step, matrixVars, ControlInv, ControlOf
<1>1. dcall[p].slot = proc[p].previous /\ dcall[p].pc \in Switching
  BY <1>0, SwitchStepDoes, Known DEF SwitchPlace, Switching
<1>2. proc[p].previous # None
  BY <1>1, Known, ProcType DEF Switching
<1>3. CASE UNCHANGED proc /\ dcall'[p].pc # "idle"
  <2>1. /\ dcall'[p].pc \in Switching /\ dcall'[p].slot = proc[p].previous
        /\ HasActuator => dcall'[p].act # 0
    BY <1>0, <1>1, <1>3, SwitchStepDoes, Known
  <2>2. SwitchPlace(p)' /\ Routed(p)'
    BY <1>0, <1>2, <1>3, <2>1 DEF SwitchPlace, Routed
  <2>. QED  BY <1>0, <1>3, <2>2, CallControl
<1>4. ASSUME dcall'[p] = SwitchIdle, NEW status \in {"rolled_back", "rollback_failed"},
             Saves(p, status), status = "rolled_back" => Committed(p)
      PROVE  ControlTypes' /\ ControlOf(p)'
  <2>1. /\ proc' \in [Process -> Call] /\ proc'[p].pc = "save"
        /\ proc'[p].status = status /\ SameRun(p)
    BY <1>4, Known, SavesDoes DEF Status
  <2>2. status = "rolled_back" => Active' = Before(p)
    BY <1>0, <1>1, <1>2, <1>4, SwitchStepDoes, Known DEF Before, Switching
  <2>3. RunShape(p)'
    BY <1>0, <2>1, Known DEF ControlOf, RunShape, RunPC, SameRun
  <2>4. SwitchPlace(p)' /\ MatrixPlace(p)'
    BY <1>0, <1>4, <2>1, Known DEF ControlOf, SwitchPlace, MatrixPlace, Switching
  <2>5. Routed(p)' /\ SaveOK(p)'
    BY <2>1, <2>2 DEF Routed, SaveOK, Before, SameRun, Outcomes, Undone
  <2>. QED  BY <1>0, <2>1, <2>3, <2>4, <2>5, Known DEF ControlTypes, ControlOf
<1>5. dcall'[p].pc = "idle" => dcall'[p] = SwitchIdle
  BY <1>0, SwitchStepDoes, Known DEF Switching
<1>. QED  BY <1>3, <1>4, <1>5, Known DEF run_rollback_step, Switched

\* A run or reconciliation that is over leaves nothing to say of its process but that
\* the parts are idle.
LEMMA IdleControl ==
    ASSUME ControlInv, NEW p \in Process, proc' \in [Process -> Call], proc'[p].pc = "idle",
           dcall'[p] = SwitchIdle, ccall'[p] = MatrixIdle
    PROVE  ControlOf(p)'
  BY Known DEF ControlOf, RunShape, SwitchPlace, MatrixPlace, Routed, SaveOK, RunPC, Switching

LEMMA SaveControl ==
    ASSUME ControlInv, NEW p \in Process, run_save(p)
    PROVE  ControlTypes' /\ ControlOf(p)'
<1>1. /\ proc[p].pc = "save" /\ dcall' = dcall /\ ccall' = ccall
      /\ dcall[p] = SwitchIdle /\ ccall[p] = MatrixIdle
  BY Known DEF run_save, ControlOf, SwitchPlace, MatrixPlace, switchVars, matrixVars
<1>2. proc' \in [Process -> Call] /\ proc'[p].pc = "idle"
  BY Known, IdleDoes DEF run_save
<1>3. proc[p].release \in DOMAIN releases /\ proc[p].status \in Status
  BY <1>1, Known DEF ControlOf, RunShape, RunPC, Call
<1>4. releases' \in Seq(Row)
  BY <1>3, Known, ReleaseRows DEF run_save
<1>. QED  BY <1>1, <1>2, <1>4, IdleControl DEF ControlTypes

LEMMA ResolveControl ==
    ASSUME ControlInv, NEW p \in Process, reconcile_resolve(p)
    PROVE  ControlTypes' /\ ControlOf(p)'
<1>1. /\ proc[p].pc = "resolve" /\ dcall' = dcall /\ ccall' = ccall
      /\ dcall[p] = SwitchIdle /\ ccall[p] = MatrixIdle
  BY Known DEF reconcile_resolve, ControlOf, SwitchPlace, MatrixPlace, switchVars, matrixVars
<1>2. proc' \in [Process -> Call] /\ proc'[p].pc = "idle"
  BY Known, IdleDoes DEF reconcile_resolve
<1>3. releases' \in Seq(Row)
  <2>1. \A r \in DOMAIN releases : /\ releases[r] \in Row
                                   /\ [releases[r] EXCEPT !.status = "reconciled"] \in Row
    <3>1. ASSUME NEW r \in DOMAIN releases
          PROVE  releases[r] \in Row
      BY Known
    <3>. QED  BY <3>1 DEF Row, Status
  <2>2. DOMAIN releases' = 1 .. Len(releases) /\ Len(releases) \in Nat
    BY Known DEF reconcile_resolve
  <2>3. releases' \in [1 .. Len(releases) -> Row]
    BY <2>1, <2>2 DEF reconcile_resolve
  <2>. QED  BY <2>2, <2>3
<1>. QED  BY <1>1, <1>2, <1>3, IdleControl DEF ControlTypes

\* reconcile: the registry follows the slot that was observed to serve.
LEMMA ReconcileControl ==
    ASSUME ControlInv, NEW p \in Process, observe_stable(p) \/ reconcile_switch(p)
    PROVE  ControlTypes' /\ ControlOf(p)'
<1>0. UNCHANGED <<releases, entries, evidence, registry, ccall>>
  BY DEF observe_stable, reconcile_switch, matrixVars
<1>1. ASSUME NEW pc \in {"observe", "resolve"}, Moves(p, pc), ccall[p].pc = "idle",
             pc = "observe" => dcall'[p].pc \in {"observed", "reconcile"},
             pc = "resolve" => dcall'[p] = SwitchIdle /\ Active' = {traffic'}
      PROVE  ControlTypes' /\ ControlOf(p)'
  <2>1. proc' \in [Process -> Call] /\ proc'[p].pc = pc
    BY <1>1, Known, MovesDoes DEF PC
  <2>2. RunShape(p)' /\ SaveOK(p)'
    BY <2>1 DEF RunShape, RunPC, SaveOK
  <2>3. SwitchPlace(p)'
    BY <1>1, <2>1, Known DEF SwitchPlace, Switching
  <2>4. MatrixPlace(p)'
    BY <1>0, <1>1, <2>1, Known DEF ControlOf, MatrixPlace
  <2>5. Routed(p)'
    BY <1>1, <2>1 DEF Routed, RunPC
  <2>. QED  BY <1>0, <2>1, <2>2, <2>3, <2>4, <2>5, Known DEF ControlTypes, ControlOf
<1>2. CASE observe_stable(p)
  <2>1. dcall'[p].pc = "observed"
    BY <1>2, Known DEF observe_stable, reconcile_observe, SwitchEnters, SwitchTypeOK, SwitchIdle
  <2>. QED  BY <1>1, <1>2, <2>1 DEF observe_stable, Free
<1>3. CASE reconcile_switch(p)
  <2>0. proc[p].pc = "observe" /\ ccall[p].pc = "idle" /\ ccall[p] = MatrixIdle
    BY <1>3, Known DEF reconcile_switch, ControlOf, MatrixPlace
  <2>1. Returns(p) => dcall'[p] = SwitchIdle
    BY Known DEF Returns, SwitchTypeOK
  <2>5. reconcile_read(p) => Returns(p) \/ dcall'[p].pc = "reconcile"
    <3>1. ASSUME NEW i,
                 SwitchEnters(p, [dcall[p] EXCEPT !.pc = "reconcile", !.seen = slots, !.act = i])
          PROVE  dcall'[p].pc = "reconcile"
      BY <3>1, Known DEF SwitchEnters, SwitchTypeOK, SwitchCall
    <3>. QED  BY <3>1 DEF reconcile_read
  <2>2. CASE dcall'[p].pc # "idle" /\ UNCHANGED proc
    <3>1. reconcile_write(p) => Returns(p)
      BY DEF reconcile_write
    <3>2. dcall'[p].pc = "reconcile"
      BY <1>3, <2>1, <2>5, <2>2, <3>1, Known DEF reconcile_switch
    <3>3. SwitchPlace(p)' /\ Routed(p)'
      BY <2>0, <2>2, <3>2, Known DEF SwitchPlace, Routed, RunPC, Switching
    <3>. QED  BY <1>0, <2>0, <2>2, <3>3, CallControl
  <2>3. CASE dcall'[p].pc = "idle" /\ dcall[p].pc = "reconcile" /\ Moves(p, "resolve")
    <3>1. reconcile_write(p)
      BY <1>3, <2>3 DEF reconcile_switch, reconcile_read
    <3>2. Active' = {dcall[p].slot} /\ traffic' = traffic /\ dcall'[p] = SwitchIdle
      <4>1. dcall[p].slot \in Slot
        BY <2>3, Known, ProcType
      <4>. QED  BY <2>1, <2>3, <3>1, <4>1, ActiveTarget, Known
                DEF reconcile_write, ObservedSlot, ControlInv
    <3>3. traffic = dcall[p].slot
      BY <2>3 DEF ControlInv, Journal, JournalBy
    <3>. QED  BY <1>1, <2>0, <2>3, <3>2, <3>3
  <2>4. CASE dcall'[p].pc = "idle" /\ Enters(p, Idle)
    <3>1. proc' \in [Process -> Call] /\ proc'[p].pc = "idle"
      BY <2>4, Known, IdleDoes
    <3>2. dcall'[p] = SwitchIdle
      <4>1. CASE reconcile_write(p)
        BY <2>1, <4>1 DEF reconcile_write
      <4>2. CASE reconcile_read(p)
        BY <2>1, <2>5, <2>4, <4>2
      <4>. QED  BY <1>3, <4>1, <4>2 DEF reconcile_switch
    <3>. QED  BY <1>0, <2>0, <3>1, <3>2, IdleControl, Known DEF ControlTypes
  <2>. QED  BY <1>3, <2>2, <2>3, <2>4 DEF reconcile_switch, Switched, Reconciled
<1>. QED  BY <1>2, <1>3

\* The other endpoints call the registry and nothing else.
LEMMA EndpointControl ==
    ASSUME OneCaller, ControlInv, NEW p \in Process, Endpoint(p)
    PROVE  ControlTypes' /\ ControlOf(p)'
<1>0. /\ proc[p].pc = "idle" /\ SwitchPlace(p)
      /\ UNCHANGED <<proc, releases, entries, evidence, registry, ccall>>
  BY Known DEF Endpoint, ControlOf, matrixVars
<1>1. Returns(p) => dcall'[p] = SwitchIdle
  BY Known DEF Returns, SwitchTypeOK
<1>2. /\ dcall'[p].pc = "idle" => dcall'[p] = SwitchIdle
      /\ HasActuator /\ dcall'[p].pc \in Switching => dcall'[p].act # 0
  <2>1. CASE Register(p)
    <3>1. ASSUME NEW s \in Slot, NEW r \in Release, register_read(p, s, r)
          PROVE  dcall'[p].pc = "register"
      BY <3>1, Known DEF register_read, SwitchEnters, SwitchTypeOK, SwitchIdle
    <3>. QED  BY <1>1, <2>1, <3>1, Known DEF Register, register_write, Switching
  <2>2. CASE Probe(p)
    <3>1. ASSUME NEW s \in Slot, probe_get(p, s)
          PROVE  dcall'[p].pc = "probing"
      BY <3>1, Known DEF probe_get, SwitchEnters, SwitchTypeOK, SwitchIdle
    <3>2. ASSUME NEW ok \in BOOLEAN,
                 SwitchEnters(p, [dcall[p] EXCEPT !.pc = "probed", !.healthy = ok])
          PROVE  dcall'[p].pc = "probed"
      BY <3>2, Known DEF SwitchEnters, SwitchTypeOK, SwitchCall
    <3>3. record_health_read(p) => dcall'[p].pc = "record"
      BY Known DEF record_health_read, SwitchEnters, SwitchTypeOK, SwitchCall
    <3>. QED  BY <1>1, <2>2, <3>1, <3>2, <3>3, Known
              DEF Probe, probe_deployment, record_health_write, Switching
  <2>3. CASE rollback_list(p)
    <3>1. PICK s \in Slot : Pending(p, "rollback", s)
      BY <2>3 DEF rollback_list, Eligible
    <3>2. CASE HasActuator
      <4>1. dcall'[p] = [SwitchIdle EXCEPT !.pc = "apply", !.op = "rollback", !.slot = s,
                                           !.act = Len(actions) + 1]
        BY <3>1, <3>2, Known DEF Pending, SwitchEnters, SwitchTypeOK
      <4>2. Len(actions) \in Nat
        BY Known, TablesType
      <4>. QED  BY <4>1, <4>2 DEF SwitchIdle
    <3>3. CASE ~HasActuator
      <4>1. dcall'[p] = [SwitchIdle EXCEPT !.pc = "committing", !.op = "rollback", !.slot = s]
        BY <3>1, <3>3, Known DEF Pending, SwitchEnters, SwitchTypeOK
      <4>. QED  BY <3>3, <4>1 DEF SwitchIdle
    <3>. QED  BY <3>2, <3>3
  <2>4. CASE SwitchStep(p)
    BY <1>0, <2>4, SwitchStepDoes, Known DEF ControlInv, Switching
  <2>. QED  BY <2>1, <2>2, <2>3, <2>4 DEF Endpoint
<1>3. SwitchPlace(p)' /\ Routed(p)'
  BY <1>0, <1>2 DEF SwitchPlace, Routed, RunPC
<1>. QED  BY <1>0, <1>3, CallControl

\* A session of the registry's that raises ends the call with nothing written; a switch
\* that had committed before has gone through.
LEMMA RaisesControl ==
    ASSUME OneCaller, ControlInv, NEW p \in Process, registry_raises(p)
    PROVE  ControlTypes' /\ ControlOf(p)'
<1>0. /\ UNCHANGED <<slots, actions, traffic, releases, entries, evidence, registry, ccall>>
      /\ dcall[p].pc # "idle" /\ dcall[p].pc \in Unguarded
  BY DEF registry_raises, SwitchRaises, matrixVars, Unguarded
<1>1. dcall'[p] = SwitchIdle
  BY Known DEF registry_raises, SwitchRaises, Returns, SwitchTypeOK
<1>2. Active' = Active /\ NoStandby' = NoStandby /\ Latest' = Latest
  BY <1>0, SameActive DEF Latest
<1>3. ASSUME NEW status \in Outcomes, Saves(p, status), proc[p].pc \in RunPC \ {"save"},
             ccall[p].pc = "idle", proc[p].pc # "create",
             status \in Undone => Active = Before(p) \/ (status = "switch_failed" /\ WentThrough(p)),
             status # "succeeded"
      PROVE  ControlTypes' /\ ControlOf(p)'
  <2>1. /\ proc' \in [Process -> Call] /\ proc'[p].pc = "save"
        /\ proc'[p].status = status /\ SameRun(p)
    BY <1>3, Known, SavesDoes DEF Status, Outcomes
  <2>2. RunShape(p)'
    BY <1>0, <1>3, <2>1, Known DEF ControlOf, RunShape, RunPC, SameRun
  <2>3. SwitchPlace(p)' /\ MatrixPlace(p)'
    BY <1>0, <1>1, <1>3, <2>1, Known DEF ControlOf, SwitchPlace, MatrixPlace, Switching
  <2>4. Routed(p)' /\ SaveOK(p)'
    BY <1>0, <1>2, <1>3, <2>1 DEF Routed, SaveOK, Before, WentThrough, SameRun, RunPC
  <2>. QED  BY <1>0, <2>1, <2>2, <2>3, <2>4, Known DEF ControlTypes, ControlOf
<1>4. CASE proc[p].pc \in {"probe_target", "probe_previous"} /\ Saves(p, "probe_failed")
  <2>1. Active = Before(p) /\ ccall[p].pc = "idle"
    BY <1>4, Known DEF ControlOf, Routed, MatrixPlace
  <2>. QED  BY <1>3, <1>4, <2>1 DEF RunPC, Outcomes
<1>5. CASE proc[p].pc = "switch" /\ Saves(p, SwitchFailure)
  <2>1. ccall[p].pc = "idle"
    BY <1>5, Known DEF ControlOf, MatrixPlace
  <2>2. Active = Before(p) \/ WentThrough(p)
    <3>1. CASE dcall[p].pc # "mark"
      BY <1>5, <3>1, Known DEF ControlOf, Routed
    <3>2. CASE dcall[p].pc = "mark"
      <4>1. dcall[p].slot = proc[p].target /\ (HasActuator => dcall[p].act # 0)
        BY <1>5, <3>2, Known DEF ControlOf, SwitchPlace, Switching
      <4>2. /\ Active = {dcall[p].slot}
            /\ HasActuator => traffic = dcall[p].slot /\ Latest.status = "actuated"
        BY <3>2, <4>1 DEF ControlInv, Journal, JournalBy
      <4>. QED  BY <4>1, <4>2 DEF WentThrough
    <3>. QED  BY <3>1, <3>2
  <2>3. PICK status \in {"switch_failed", "reconcile_required"} : Saves(p, status)
    BY <1>5 DEF SwitchFailure
  <2>. QED  BY <1>3, <1>5, <2>1, <2>2, <2>3 DEF RunPC, Outcomes, Undone
<1>6. CASE proc[p].pc = "rollback" /\ Saves(p, "rollback_failed")
  <2>1. ccall[p].pc = "idle"
    BY <1>6, Known DEF ControlOf, MatrixPlace
  <2>. QED  BY <1>3, <1>6, <2>1 DEF RunPC, Outcomes, Undone
<1>7. CASE proc[p].pc = "observe" /\ Enters(p, Idle)
  <2>1. ccall[p] = MatrixIdle
    BY <1>7, Known DEF ControlOf, MatrixPlace
  <2>2. proc' \in [Process -> Call] /\ proc'[p].pc = "idle"
    BY <1>7, Known, IdleDoes
  <2>. QED  BY <1>0, <1>1, <2>1, <2>2, IdleControl, Known DEF ControlTypes
<1>8. CASE proc[p].pc = "idle" /\ UNCHANGED proc
  <2>1. SwitchPlace(p)' /\ Routed(p)'
    BY <1>1, <1>8, Known DEF SwitchPlace, Routed, RunPC, Switching
  <2>. QED  BY <1>0, <1>8, <2>1, CallControl
<1>. QED  BY <1>4, <1>5, <1>6, <1>7, <1>8 DEF registry_raises

LEMMA CrashControl ==
    ASSUME ControlInv, NEW p \in Process, Crash(p)
    PROVE  ControlTypes' /\ ControlOf(p)'
<1>1. proc' \in [Process -> Call] /\ proc'[p].pc = "idle" /\ releases' = releases
  BY Known, IdleDoes DEF Crash
<1>2. dcall'[p] = SwitchIdle /\ ccall'[p] = MatrixIdle
  BY Known DEF Crash, SwitchTypeOK, MatrixInv
<1>. QED  BY <1>1, <1>2, IdleControl, Known DEF ControlTypes

LEMMA UpgradeControl ==
    ASSUME ControlInv, NEW p \in Process, Upgrade(p)
    PROVE  ControlTypes' /\ ControlOf(p)'
<1>1. /\ proc' = proc /\ releases' = releases /\ dcall' = dcall /\ ccall' = ccall
      /\ proc[p].pc = "idle" /\ dcall[p].pc = "idle" /\ ccall[p].pc = "idle"
  BY DEF Upgrade, MatrixUpgrade, Free, switchVars
<1>2. dcall[p] = SwitchIdle /\ ccall[p] = MatrixIdle
  BY <1>1, Known DEF ControlOf, SwitchPlace, MatrixPlace
<1>. QED  BY <1>1, <1>2, IdleControl, Known DEF ControlTypes

----------------------------------------------------------------------------
(* The invariant of the controller, and what it is for.                    *)

LEMMA ControlInit == Init => ControlInv
<1> SUFFICES ASSUME Init
             PROVE  ControlInv
  OBVIOUS
<1>1. SwitchTypeOK /\ SeenCurrent /\ Journal /\ OneActive
  BY RegistryTypeInit, SerialInit, JournalInit DEF Init
<1>2. MatrixInv
  BY InitMatrix DEF Init
<1>3. Idle \in Call /\ Idle.pc = "idle"
  BY DEF Idle, Call, PC, Status
<1>4. ControlTypes
  BY <1>3 DEF Init, ControlTypes
<1>5. NoStandby
  BY DEF Init, SwitchInit, NoRows, NoRow, NoStandby
<1>6. ASSUME NEW p \in Process
      PROVE  ControlOf(p)
  <2>1. proc[p].pc = "idle" /\ dcall[p] = SwitchIdle /\ ccall[p] = MatrixIdle
    BY <1>3 DEF Init, SwitchInit, MatrixInit
  <2>. QED  BY <2>1 DEF ControlOf, RunShape, SwitchPlace, MatrixPlace, Routed, SaveOK, RunPC,
                        Switching, SwitchIdle, MatrixIdle
<1>. QED  BY <1>1, <1>2, <1>4, <1>5, <1>6 DEF ControlInv

LEMMA ControlStep == OneCaller /\ ControlInv /\ [Next]_vars => ControlInv'
<1> SUFFICES ASSUME OneCaller, ControlInv, [Next]_vars
             PROVE  ControlInv'
  OBVIOUS
<1>1. ASSUME NEW p \in Process, ControlTypes', ControlOf(p)'
      PROVE  ControlInv'
  <2>1. \A q \in Process : q = p
    BY DEF OneCaller
  <2>2. \A q \in Process : ControlOf(q)'
    BY <1>1, <2>1
  <2>. QED  BY <1>1, <2>2, PartsKept DEF ControlInv
<1>2. ASSUME NEW p \in Process, Run(p)
      PROVE  ControlInv'
  BY <1>1, <1>2, CheckControl, CreateControl, QualifiedControl, ProbeControl, ProbeStepControl,
     PromoteControl, PromoteStepControl, SmokeControl, PromoteAdaptersControl, AdaptersControl,
     MatrixStepControl, RollbackControl, RollbackStepControl, SaveControl
     DEF Run
<1>3. ASSUME NEW p \in Process,
             ReconcileRelease(p) \/ Endpoint(p) \/ registry_raises(p) \/ Upgrade(p) \/ Crash(p)
      PROVE  ControlInv'
  BY <1>1, <1>3, ReconcileControl, ResolveControl, EndpointControl, RaisesControl,
     UpgradeControl, CrashControl
     DEF ReconcileRelease
<1>4. CASE UNCHANGED vars
  <2>1. UNCHANGED <<slots, last, actions, traffic, dcall, entries, evidence, registry, ccall,
                    releases, proc>>
    BY <1>4 DEF vars, switchVars, matrixVars
  <2>2. Active' = Active /\ NoStandby' = NoStandby
    BY <2>1, SameActive
  <2>3. ASSUME NEW p \in Process
        PROVE  ControlOf(p)'
    BY <2>1, <2>2, Known
       DEF ControlOf, RunShape, SwitchPlace, MatrixPlace, Routed, SaveOK, Before, Wanted, InForce,
           WentThrough, Latest
  <2>4. ControlTypes'
    BY <2>1 DEF ControlInv, ControlTypes
  <2>. QED  BY <2>3, <2>4, PartsKept DEF ControlInv
<1>. QED  BY <1>2, <1>3, <1>4 DEF Next

\* The rows of the releases change when a run is over and when a reconciliation is.
LEMMA SavedBy ==
    ASSUME ControlInv, Next, NEW r \in DOMAIN releases, Saved(r)
    PROVE  \E p \in Process :
               \/ run_save(p) /\ r = proc[p].release /\ releases'[r].status = proc[p].status
               \/ /\ reconcile_resolve(p) /\ releases'[r].status = "reconciled"
                  /\ releases[r].status = "reconcile_required"
<1>1. ~UNCHANGED releases
  BY DEF Saved
<1>2. PICK p \in Process : run_create(p) \/ run_save(p) \/ reconcile_resolve(p)
  BY <1>1
     DEF Next, Run, ReconcileRelease, Endpoint, registry_raises, Upgrade, Crash, run_check,
         run_qualified, run_probe,
         run_probe_step, run_promote, run_promote_step, run_smoke, run_promote_adapters,
         run_adapters, run_matrix_step, run_rollback, run_rollback_step, observe_stable,
         reconcile_switch
<1>3. releases \in Seq(Row)
  BY Known
<1>4. ~run_create(p)
  <2> SUFFICES ASSUME run_create(p)
               PROVE  FALSE
    OBVIOUS
  <2>1. PICK row : releases' = Append(releases, row)
    BY DEF run_create
  <2>2. releases'[r] = releases[r]
    BY <1>3, <2>1
  <2>. QED  BY <2>2 DEF Saved
<1>5. CASE run_save(p)
  <2>1. releases' = [releases EXCEPT ![proc[p].release].status = proc[p].status]
    BY <1>5 DEF run_save
  <2>2. r = proc[p].release
    BY <1>3, <2>1 DEF Saved
  <2>3. releases[r] \in Row
    BY <1>3
  <2>. QED  BY <1>5, <2>1, <2>2, <2>3 DEF Row
<1>6. CASE reconcile_resolve(p)
  <2>1. r \in Unresolved /\ releases'[r] = [releases[r] EXCEPT !.status = "reconciled"]
    BY <1>6 DEF reconcile_resolve, Saved
  <2>2. releases[r] \in Row
    BY <1>3
  <2>. QED  BY <1>6, <2>1, <2>2 DEF Row, Unresolved
<1>. QED  BY <1>2, <1>4, <1>5, <1>6

\* What a run saves is what its row has been about since it began.
LEMMA SaveIs ==
    ASSUME ControlInv, NEW p \in Process, run_save(p)
    PROVE  /\ SaveOK(p) /\ proc[p].pc = "save" /\ proc[p].status \in Outcomes
           /\ releases[proc[p].release].target = proc[p].target
           /\ releases[proc[p].release].previous = proc[p].previous
           /\ releases[proc[p].release].adapters = proc[p].adapters
           /\ releases[proc[p].release].status = "started"
<1>1. proc[p].pc = "save" /\ RunShape(p) /\ SaveOK(p)
  BY Known DEF run_save, ControlOf
<1>2. releases[proc[p].release] = [target |-> proc[p].target, previous |-> proc[p].previous,
                                   adapters |-> proc[p].adapters, status |-> "started"]
  BY <1>1 DEF RunShape, RunPC
<1>. QED  BY <1>1, <1>2 DEF SaveOK

\* A release that is recorded as succeeded is in force: its slot alone is active and
\* serves the traffic, and its adapters' versions are active on a passing latest
\* qualification; whatever fails on the way, and wherever a process dies.
THEOREM SuccessInForce == OneCaller /\ Spec => SucceededIsInForce
<1>. SUFFICES ASSUME OneCaller PROVE Spec => SucceededIsInForce
  OBVIOUS
<1>. DEFINE A == \A r \in DOMAIN releases : Saved(r) /\ releases'[r].status = "succeeded" =>
                     /\ Active = {releases[r].target}
                     /\ HasActuator => traffic = releases[r].target
                     /\ \E p \in Process : \A a \in releases[r].adapters : InForce(p, a)
<1>1. ControlInv /\ [Next]_vars => [A]_vars
  <2> SUFFICES ASSUME ControlInv, Next, NEW r \in DOMAIN releases, Saved(r),
                      releases'[r].status = "succeeded"
               PROVE  /\ Active = {releases[r].target}
                      /\ HasActuator => traffic = releases[r].target
                      /\ \E p \in Process : \A a \in releases[r].adapters : InForce(p, a)
    OBVIOUS
  <2>1. PICK p \in Process :
            run_save(p) /\ r = proc[p].release /\ releases'[r].status = proc[p].status
    BY SavedBy
  <2>. QED  BY <2>1, SaveIs DEF SaveOK
<1>2. ControlInv /\ [Next]_vars => ControlInv'
  BY ControlStep
<1>3. Spec => [][A]_vars
  BY <1>1, <1>2, ControlInit, PTL DEF Spec
<1>. QED  BY <1>3 DEF SucceededIsInForce

\* A release that failed, and says neither that its rollback did nor that it needs
\* reconciliation, leaves active what was active before it; or its switch had committed
\* when the last session of it raised, and then the target is active and serves, and the
\* journal stops at "actuated".
THEOREM FailureUndone == OneCaller /\ Spec => FailedLeavesPrevious
<1>. SUFFICES ASSUME OneCaller PROVE Spec => FailedLeavesPrevious
  OBVIOUS
<1>. DEFINE A == \A r \in DOMAIN releases :
                     /\ Saved(r)
                     /\ releases'[r].status \in {"qualification_failed", "probe_failed",
                                                "switch_failed", "rolled_back"}
                     => \/ Active = {releases[r].previous} \ {None}
                        \/ releases'[r].status = "switch_failed" /\ SwitchedUnrecorded(r)
<1>1. ControlInv /\ [Next]_vars => [A]_vars
  <2> SUFFICES ASSUME ControlInv, Next, NEW r \in DOMAIN releases, Saved(r),
                      releases'[r].status \in Undone
               PROVE  \/ Active = {releases[r].previous} \ {None}
                      \/ releases'[r].status = "switch_failed" /\ SwitchedUnrecorded(r)
    BY DEF Undone
  <2>1. PICK p \in Process :
            run_save(p) /\ r = proc[p].release /\ releases'[r].status = proc[p].status
    BY SavedBy DEF Undone
  <2>. QED  BY <2>1, SaveIs DEF SaveOK, Before, WentThrough, SwitchedUnrecorded, Latest
<1>2. ControlInv /\ [Next]_vars => ControlInv'
  BY ControlStep
<1>3. Spec => [][A]_vars
  BY <1>1, <1>2, ControlInit, PTL DEF Spec
<1>. QED  BY <1>3 DEF FailedLeavesPrevious

\* The versions of the adapters become active last: while a call is in progress, only
\* with the run's slot active.
THEOREM SlotFirst == OneCaller /\ Spec => AdaptersLast
<1>. SUFFICES ASSUME OneCaller PROVE Spec => AdaptersLast
  OBVIOUS
<1>. DEFINE A == \A p \in Process, a \in Adapter, v \in Version :
                     /\ proc[p].pc # "idle"
                     /\ entries[a][v] # "active"
                     /\ entries'[a][v] = "active"
                     => Active = {proc[p].target}
<1>1. ControlInv /\ [Next]_vars => [A]_vars
  <2> SUFFICES ASSUME ControlInv, Next, NEW p \in Process, NEW a \in Adapter, NEW v \in Version,
                      proc[p].pc # "idle", entries[a][v] # "active", entries'[a][v] = "active"
               PROVE  Active = {proc[p].target}
    OBVIOUS
  <2>1. PICK q \in Process : run_matrix_step(q)
    BY DEF Next, Run, ReconcileRelease, Endpoint, registry_raises, Upgrade, Crash, run_check, run_create,
           run_qualified, run_probe, run_probe_step, run_promote, run_promote_step, run_smoke,
           run_promote_adapters, run_adapters, run_rollback, run_rollback_step, run_save,
           observe_stable, reconcile_switch, reconcile_resolve, pipeline_run, pipeline_result,
           promote_many, MatrixUpgrade, matrixVars
  <2>2. MatrixNext /\ MatrixInv
    BY <2>1, Known DEF run_matrix_step, MatrixNext
  <2>3. PICK c \in Process : promote_commit(c)
    BY <2>2, OnlyPromotionActivates
  <2>4. c = p
    BY DEF OneCaller
  <2>5. ccall[p].pc = "promoting"
    BY <2>3, <2>4 DEF promote_commit
  <2>6. proc[p].pc = "adapters"
    BY <2>5, Known DEF ControlOf, MatrixPlace, Qualifying
  <2>. QED  BY <2>6, Known DEF ControlOf, Routed
<1>2. ControlInv /\ [Next]_vars => ControlInv'
  BY ControlStep
<1>3. Spec => [][A]_vars
  BY <1>1, <1>2, ControlInit, PTL DEF Spec
<1>. QED  BY <1>3 DEF AdaptersLast

\* A release is settled as reconciled only while the registry follows the traffic.
THEOREM SettledAsServed == OneCaller /\ Spec => ReconciledIsServed
<1>. SUFFICES ASSUME OneCaller PROVE Spec => ReconciledIsServed
  OBVIOUS
<1>. DEFINE A == \A r \in DOMAIN releases :
                     Saved(r) /\ releases'[r].status = "reconciled" => Active = {traffic}
<1>1. ControlInv /\ [Next]_vars => [A]_vars
  <2> SUFFICES ASSUME ControlInv, Next, NEW r \in DOMAIN releases, Saved(r),
                      releases'[r].status = "reconciled"
               PROVE  Active = {traffic}
    OBVIOUS
  <2>1. PICK p \in Process : reconcile_resolve(p)
    BY SavedBy, SaveIs DEF Outcomes
  <2>. QED  BY <2>1, Known DEF reconcile_resolve, ControlOf, Routed
<1>2. ControlInv /\ [Next]_vars => ControlInv'
  BY ControlStep
<1>3. Spec => [][A]_vars
  BY <1>1, <1>2, ControlInit, PTL DEF Spec
<1>. QED  BY <1>3 DEF ReconciledIsServed

\* The outcome of a release is recorded once; one that needs reconciliation is settled
\* by it.
THEOREM OneOutcome == OneCaller /\ Spec => OutcomeFinal
<1>. SUFFICES ASSUME OneCaller PROVE Spec => OutcomeFinal
  OBVIOUS
<1>. DEFINE A == \A r \in DOMAIN releases : Saved(r) =>
           \/ releases[r].status = "started"
           \/ releases[r].status = "reconcile_required" /\ releases'[r].status = "reconciled"
<1>1. ControlInv /\ [Next]_vars => [A]_vars
  BY SavedBy, SaveIs
<1>2. ControlInv /\ [Next]_vars => ControlInv'
  BY ControlStep
<1>3. Spec => [][A]_vars
  BY <1>1, <1>2, ControlInit, PTL DEF Spec
<1>. QED  BY <1>3 DEF OutcomeFinal

\* In the composition the registry goes through the states it promises by itself: what
\* is proved of SwitchSpec holds under the controller.
THEOREM RegistryPart == OneCaller /\ Spec => SwitchSpec
<1>. SUFFICES ASSUME OneCaller PROVE Spec => SwitchSpec
  OBVIOUS
<1>1. Init => SwitchInit
  BY DEF Init
<1>2. ControlInv /\ [Next]_vars => [SwitchNext]_switchVars
  BY RegistryStep
<1>3. ControlInv /\ [Next]_vars => ControlInv'
  BY ControlStep
<1>. QED  BY <1>1, <1>2, <1>3, ControlInit, PTL DEF Spec, SwitchSpec

\* The matrix keeps its promises under the controller, which promotes the sets it has
\* qualified.
THEOREM MatrixPart == OneCaller /\ Spec => [](ActiveQualified /\ OneActiveVersion)
<1>. SUFFICES ASSUME OneCaller PROVE Spec => [](ActiveQualified /\ OneActiveVersion)
  OBVIOUS
<1>1. ControlInv => ActiveQualified /\ OneActiveVersion
  BY DEF ControlInv, MatrixInv
<1>2. ControlInv /\ [Next]_vars => ControlInv'
  BY ControlStep
<1>. QED  BY <1>1, <1>2, ControlInit, PTL DEF Spec

----------------------------------------------------------------------------
(* Types of the composition.                                               *)

RowIn == \A p \in Process : proc[p].release \in 0 .. Len(releases)

LEMMA RowInStep ==
    ASSUME ControlInv, RowIn, [Next]_vars, ControlTypes'
    PROVE  RowIn'
<1>0. ControlTypes /\ releases \in Seq(Row) /\ releases' \in Seq(Row)
      /\ Len(releases) \in Nat /\ Len(releases') \in Nat
  BY DEF ControlInv, ControlTypes
<1>1. ASSUME NEW p \in Process, NEW call, Enters(p, call), call.release \in 0 .. Len(releases'),
             Len(releases) <= Len(releases')
      PROVE  RowIn'
  <2>1. \A q \in Process : proc'[q] = IF q = p THEN call ELSE proc[q]
    BY <1>0, <1>1 DEF Enters, ControlTypes
  <2>. QED  BY <1>0, <1>1, <2>1 DEF RowIn
<1>2. ASSUME NEW p \in Process, NEW pc, Moves(p, pc), releases' = releases
      PROVE  RowIn'
  <2>1. \A q \in Process : proc'[q].release = proc[q].release
    BY <1>0, <1>2 DEF Moves, ControlTypes, Call
  <2>. QED  BY <1>2, <2>1 DEF RowIn
<1>3. ASSUME NEW p \in Process, NEW status, Saves(p, status), releases' = releases
      PROVE  RowIn'
  <2>. DEFINE c == [proc[p] EXCEPT !.pc = "save", !.status = status]
  <2>1. c.release = proc[p].release
    BY <1>0 DEF ControlTypes, Call
  <2>2. Enters(p, c)
    BY <1>3 DEF Saves
  <2>3. c.release \in 0 .. Len(releases') /\ Len(releases) <= Len(releases')
    BY <1>0, <1>3, <2>1 DEF RowIn
  <2>. HIDE DEF c
  <2>. QED  BY <1>1, <2>2, <2>3
<1>4. ASSUME UNCHANGED <<proc, releases>>
      PROVE  RowIn'
  BY <1>4 DEF RowIn
<1>5. ASSUME NEW p \in Process, Enters(p, Idle), Len(releases') = Len(releases)
      PROVE  RowIn'
  BY <1>0, <1>1, <1>5 DEF Idle
<1>6. ASSUME NEW p \in Process, NEW s \in Slot, NEW adapters, run_check(p, s, adapters)
      PROVE  RowIn'
  <2>1. PICK previous :
            Enters(p, [Idle EXCEPT !.pc = "create", !.adapters = adapters, !.target = s,
                                   !.previous = previous])
    BY <1>6 DEF run_check
  <2>. DEFINE c == [Idle EXCEPT !.pc = "create", !.adapters = adapters, !.target = s,
                                !.previous = previous]
  <2>2. c.release = 0
    BY DEF Idle
  <2>3. Enters(p, c)
    BY <2>1
  <2>4. releases' = releases
    BY <1>6 DEF run_check
  <2>. HIDE DEF c
  <2>. QED  BY <1>0, <1>1, <2>2, <2>3, <2>4
<1>7. ASSUME NEW p \in Process, run_create(p)
      PROVE  RowIn'
  <2>. DEFINE c == [proc[p] EXCEPT !.pc = "qualify", !.release = Len(releases) + 1]
  <2>1. PICK row : releases' = Append(releases, row)
    BY <1>7 DEF run_create
  <2>2. Len(releases') = Len(releases) + 1
    BY <1>0, <2>1
  <2>3. c.release = Len(releases) + 1
    BY <1>0 DEF ControlTypes, Call
  <2>4. Enters(p, c)
    BY <1>7 DEF run_create
  <2>. HIDE DEF c
  <2>5. c.release \in 0 .. Len(releases') /\ Len(releases) <= Len(releases')
    BY <1>0, <2>2, <2>3
  <2>. QED  BY <1>1, <2>4, <2>5
<1>8. ASSUME NEW p \in Process, run_qualified(p)
      PROVE  RowIn'
  <2>. DEFINE c == [proc[p] EXCEPT !.pc = "probe_target", !.qualified = ccall[p].targets]
  <2>1. c.release = proc[p].release
    BY <1>0 DEF ControlTypes, Call
  <2>2. releases' = releases
    BY <1>8 DEF run_qualified
  <2>3. c.release \in 0 .. Len(releases') /\ Len(releases) <= Len(releases')
    BY <1>0, <2>1, <2>2 DEF RowIn
  <2>4. Enters(p, c) \/ \E status : Saves(p, status)
    BY <1>8 DEF run_qualified
  <2>. HIDE DEF c
  <2>. QED  BY <1>1, <1>3, <2>2, <2>3, <2>4
<1>9. ASSUME NEW p \in Process, run_save(p) \/ reconcile_resolve(p)
      PROVE  RowIn'
  <2>1. DOMAIN releases' = DOMAIN releases
    BY <1>9 DEF run_save, reconcile_resolve
  <2>2. Len(releases') = Len(releases)
    BY <1>0, <2>1
  <2>. QED  BY <1>5, <1>9, <2>2 DEF run_save, reconcile_resolve
<1>10. ASSUME NEW p \in Process,
              run_probe(p) \/ run_promote_adapters(p) \/ run_matrix_step(p) \/ Endpoint(p)
              \/ Upgrade(p)
       PROVE  RowIn'
  BY <1>4, <1>10 DEF run_probe, run_promote_adapters, run_matrix_step, Endpoint, Upgrade
<1>11. ASSUME NEW p \in Process,
              run_probe_step(p) \/ run_promote(p) \/ run_promote_step(p) \/ run_smoke(p)
              \/ run_adapters(p)
       PROVE  RowIn'
  BY <1>2, <1>3, <1>4, <1>11
     DEF run_probe_step, run_promote, run_promote_step, run_smoke, run_adapters, SmokeFailed,
         AdaptersFailed
<1>12. ASSUME NEW p \in Process,
              run_rollback(p) \/ run_rollback_step(p) \/ observe_stable(p)
              \/ reconcile_switch(p) \/ Crash(p)
       PROVE  RowIn'
  BY <1>2, <1>3, <1>4, <1>5, <1>12
     DEF run_rollback, run_rollback_step, observe_stable, reconcile_switch, Crash
<1>13. ASSUME NEW p \in Process, registry_raises(p)
       PROVE  RowIn'
  BY <1>3, <1>4, <1>5, <1>13 DEF registry_raises
<1>14. CASE UNCHANGED vars
  BY <1>4, <1>14 DEF vars
<1>. QED  BY <1>6, <1>7, <1>8, <1>9, <1>10, <1>11, <1>12, <1>13, <1>14
          DEF Next, Run, ReconcileRelease

\* Type correctness of the controller and of the two components under it.
THEOREM TypeCorrect == OneCaller /\ Spec => []TypeOK
<1>. SUFFICES ASSUME OneCaller PROVE Spec => []TypeOK
  OBVIOUS
<1>1. Init => RowIn
  BY DEF Init, RowIn, Idle
<1>2. ControlInv /\ RowIn /\ [Next]_vars => ControlInv' /\ RowIn'
  BY ControlStep, RowInStep DEF ControlInv
<1>3. ControlInv /\ RowIn => TypeOK
  <2> SUFFICES ASSUME ControlInv, RowIn
               PROVE  TypeOK
    OBVIOUS
  <2>1. ASSUME NEW p \in Process,
               ccall[p].pc \in {"register", "registering", "qualify", "probe", "record",
                                "recording", "block"}
        PROVE  Cardinality(ccall[p].at) = 1
    <3>1. PICK a \in Adapter : ccall[p].at = {a}
      BY <2>1 DEF ControlInv, MatrixInv, EntryCallOK, HasAdapter
    <3>. QED  BY <3>1, FS_Singleton
  <2>2. MatrixTypeOK
    BY <2>1 DEF ControlInv, MatrixInv, MatrixTypeOK, MatrixEvidence
  <2>. QED  BY <2>2 DEF TypeOK, ControlInv, ControlTypes, RowIn
<1>. QED  BY <1>1, <1>2, <1>3, ControlInit, PTL DEF Spec

=============================================================================
