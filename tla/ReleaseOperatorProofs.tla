----------------------- MODULE ReleaseOperatorProofs -----------------------
(***************************************************************************)
(* What ReleaseOperator promises for every number of processes, people,    *)
(* requests and approvals.                                                 *)
(***************************************************************************)
EXTENDS ReleaseOperator, TLAPS

----------------------------------------------------------------------------
(* Type correctness.  A table is appended to or has a row replaced.        *)

\* A table after an INSERT.
LEMMA Inserted ==
    ASSUME NEW S, NEW t \in Seq(S), NEW row \in S
    PROVE  /\ Append(t, row) \in Seq(S)
           /\ Len(Append(t, row)) = Len(t) + 1
           /\ DOMAIN Append(t, row) = 1 .. (Len(t) + 1)
           /\ \A i \in 1 .. Len(t) : Append(t, row)[i] = t[i]
           /\ Append(t, row)[Len(t) + 1] = row
  OBVIOUS

\* A table after an UPDATE of any of its rows.
LEMMA Updated ==
    ASSUME NEW S, NEW t \in Seq(S), NEW u \in [DOMAIN t -> S]
    PROVE  /\ u \in Seq(S)
           /\ Len(u) = Len(t)
           /\ DOMAIN u = DOMAIN t
<1>1. DOMAIN t = 1 .. Len(t) /\ Len(t) \in Nat
  OBVIOUS
<1>2. u \in [1 .. Len(t) -> S]
  BY <1>1
<1>. QED  BY <1>1, <1>2

\* A step of process p, told by what it does to the tables.
LEMMA StepType ==
    ASSUME TypeOK,
           twoPerson' = twoPerson, plan' \in Fingerprint, crashes' \in Nat,
           requests' \in Seq(Request), Len(requests') >= Len(requests),
           approvals' \in Seq(Approval), Len(approvals') >= Len(approvals),
           \A i \in DOMAIN approvals' : approvals'[i].request \in 0 .. Len(requests'),
           lease' \in Lease, lease'.release_id \in 0 .. Len(approvals'),
           releases' \in Seq(Release), Len(releases') >= Len(releases),
           \A i \in DOMAIN releases' : releases'[i].approval \in DOMAIN approvals',
           NEW p \in Executor, NEW c, proc' = [proc EXCEPT ![p] = c],
           CallOK(c, Len(requests'), Len(approvals'), Len(releases'))
    PROVE  TypeOK'
<1>1. /\ Len(requests) \in Nat /\ Len(requests') \in Nat
      /\ Len(approvals) \in Nat /\ Len(approvals') \in Nat
      /\ Len(releases) \in Nat /\ Len(releases') \in Nat
  BY DEF TypeOK
<1>2. c \in Call
  BY DEF CallOK
<1>3. proc' \in [Executor -> Call]
  BY <1>2 DEF TypeOK
<1>4. ASSUME NEW q \in Executor
      PROVE  CallOK(proc'[q], Len(requests'), Len(approvals'), Len(releases'))
  <2>1. CASE q = p
    BY <2>1 DEF TypeOK
  <2>2. CASE q # p
    <3>1. proc'[q] = proc[q]
      BY <2>2 DEF TypeOK
    <3>2. CallOK(proc[q], Len(requests), Len(approvals), Len(releases))
      BY DEF TypeOK
    <3>. QED  BY <1>1, <3>1, <3>2 DEF CallOK, Call
  <2>. QED  BY <2>1, <2>2
<1>. QED  BY <1>3, <1>4 DEF TypeOK

\* The calls that are about an approval by somebody, and refer to no release yet
\* or still.
Executing == PC \ {"idle", "decide", "stale", "revoke"}

\* A call that moves on within execute.
LEMMA MoveOK ==
    ASSUME TypeOK, NEW p \in Executor, proc[p].pc \in Executing,
           NEW pc \in Executing, pc # "running"
    PROVE  CallOK([proc[p] EXCEPT !.pc = pc], Len(requests), Len(approvals), Len(releases))
<1>1. proc[p] \in Call
  BY DEF TypeOK
<1>2. CallOK(proc[p], Len(requests), Len(approvals), Len(releases))
  BY DEF TypeOK
<1>. QED  BY <1>1, <1>2 DEF CallOK, Call, Executing

LEMMA IdleOK ==
    /\ Idle \in Call
    /\ Idle.pc = "idle"
    /\ Idle.release = 0
    /\ \A a \in Nat, b \in Nat, c \in Nat : CallOK(Idle, a, b, c)
  BY DEF CallOK, Idle, Call, PC

\* A step that leaves the tables alone.
LEMMA ReadStepType ==
    ASSUME TypeOK, twoPerson' = twoPerson, plan' = plan, crashes' \in Nat,
           UNCHANGED tables, NEW p \in Executor, NEW c, proc' = [proc EXCEPT ![p] = c],
           CallOK(c, Len(requests), Len(approvals), Len(releases))
    PROVE  TypeOK'
<1>1. /\ requests' = requests /\ approvals' = approvals
      /\ lease' = lease /\ releases' = releases
  BY DEF tables
<1>2. /\ Len(requests) \in Nat /\ Len(approvals) \in Nat /\ Len(releases) \in Nat
  BY DEF TypeOK
<1>3. /\ requests' \in Seq(Request) /\ approvals' \in Seq(Approval)
      /\ releases' \in Seq(Release) /\ lease' \in Lease
      /\ \A i \in DOMAIN approvals' : approvals'[i].request \in 0 .. Len(requests')
      /\ lease'.release_id \in 0 .. Len(approvals')
      /\ \A i \in DOMAIN releases' : releases'[i].approval \in DOMAIN approvals'
      /\ plan' \in Fingerprint
  BY <1>1 DEF TypeOK
<1>4. CallOK(c, Len(requests'), Len(approvals'), Len(releases'))
  BY <1>1
<1>5. /\ Len(requests') >= Len(requests)
      /\ Len(approvals') >= Len(approvals)
      /\ Len(releases') >= Len(releases)
  BY <1>1, <1>2
<1>. QED  BY <1>3, <1>4, <1>5, StepType, Zenon

\* Rows with one column changed.
LEMMA RequestColumn ==
    ASSUME NEW row \in Request, NEW s \in RequestStatus
    PROVE  /\ [row EXCEPT !.status = s] \in Request
           /\ [row EXCEPT !.status = s].status = s
           /\ [row EXCEPT !.status = s].by = row.by
           /\ [row EXCEPT !.status = s].fingerprint = row.fingerprint
  BY DEF Request

LEMMA ApprovalColumn ==
    ASSUME NEW row \in Approval
    PROVE  \A new \in {[row EXCEPT !.decision = "revoked"], [row EXCEPT !.consumed = TRUE],
                       [row EXCEPT !.expired = TRUE]} :
               /\ new \in Approval
               /\ new.request = row.request
               /\ new.by = row.by
               /\ new.fingerprint = row.fingerprint
  BY DEF Approval

\* What the requests are after _set_request_status.
LEMMA SetRequestStatusType ==
    ASSUME TypeOK, NEW p \in Executor, NEW s \in RequestStatus,
           requests' = SetRequestStatus(p, s)
    PROVE  /\ requests' \in Seq(Request)
           /\ Len(requests') = Len(requests)
<1>0. \A r \in DOMAIN requests :
          requests[r] \in Request /\ [requests[r] EXCEPT !.status = s] \in Request
  <2>1. \A r \in DOMAIN requests : requests[r] \in Request
    BY DEF TypeOK
  <2>. QED  BY <2>1, RequestColumn
<1>1. SetRequestStatus(p, s) \in [DOMAIN requests -> Request]
  BY <1>0 DEF SetRequestStatus
<1>. QED  BY <1>1, Updated DEF TypeOK

\* An approval is inserted, for a request that exists or for none.
LEMMA NewApprovalType ==
    ASSUME TypeOK, NEW a \in Approval, approvals' = Append(approvals, a),
           a.request \in 0 .. Len(requests)
    PROVE  /\ approvals' \in Seq(Approval)
           /\ Len(approvals') = Len(approvals) + 1
           /\ \A i \in DOMAIN approvals' : approvals'[i].request \in 0 .. Len(requests)
           /\ lease.release_id \in 0 .. Len(approvals')
           /\ \A i \in DOMAIN releases : releases[i].approval \in DOMAIN approvals'
<1>1. approvals \in Seq(Approval) /\ Len(approvals) \in Nat
  BY DEF TypeOK
<1>2. /\ approvals' \in Seq(Approval)
      /\ Len(approvals') = Len(approvals) + 1
      /\ DOMAIN approvals' = 1 .. (Len(approvals) + 1)
      /\ \A i \in 1 .. Len(approvals) : approvals'[i] = approvals[i]
      /\ approvals'[Len(approvals) + 1] = a
  BY <1>1, Inserted
<1>3. \A i \in DOMAIN approvals' : approvals'[i].request \in 0 .. Len(requests)
  BY <1>1, <1>2 DEF TypeOK
<1>4. lease.release_id \in 0 .. Len(approvals')
  BY <1>1, <1>2 DEF TypeOK, Lease
<1>5. \A i \in DOMAIN releases : releases[i].approval \in DOMAIN approvals'
  BY <1>1, <1>2 DEF TypeOK
<1>. QED  BY <1>2, <1>3, <1>4, <1>5

\* Approvals are updated, but not the request they are linked to.
LEMMA UpdatedApprovalType ==
    ASSUME TypeOK, approvals' \in [DOMAIN approvals -> Approval],
           \A i \in DOMAIN approvals : approvals'[i].request = approvals[i].request
    PROVE  /\ approvals' \in Seq(Approval)
           /\ Len(approvals') = Len(approvals)
           /\ DOMAIN approvals' = DOMAIN approvals
           /\ \A i \in DOMAIN approvals' : approvals'[i].request \in 0 .. Len(requests)
<1>1. approvals \in Seq(Approval)
  BY DEF TypeOK
<1>2. approvals' \in Seq(Approval) /\ Len(approvals') = Len(approvals)
      /\ DOMAIN approvals' = DOMAIN approvals
  BY <1>1, Updated
<1>. QED  BY <1>2 DEF TypeOK

----------------------------------------------------------------------------

LEMMA InitType == Init => TypeOK
<1>1. \A p \in Executor : Idle \in Call /\ CallOK(Idle, 0, 0, 0)
  BY IdleOK DEF CallOK
<1>2. SUFFICES ASSUME Init PROVE TypeOK
  OBVIOUS
<1>3. Len(requests) = 0 /\ Len(approvals) = 0 /\ Len(releases) = 0
  BY <1>2 DEF Init
<1>. QED
  BY <1>1, <1>2, <1>3, OperatorAssumption DEF Init, TypeOK, NoLease, Lease

\* Type correctness: statuses are known ones, and every number that a row or a call
\* keeps is the number of a row that exists.
THEOREM TypeCorrect == Spec => []TypeOK
<1>1. TypeOK /\ [Next]_vars => TypeOK'
  <2> SUFFICES ASSUME TypeOK, [Next]_vars
               PROVE  TypeOK'
    OBVIOUS
  <2>. USE OperatorAssumption
  <2>a. /\ Len(requests) \in Nat /\ DOMAIN requests = 1 .. Len(requests)
        /\ Len(approvals) \in Nat /\ DOMAIN approvals = 1 .. Len(approvals)
        /\ Len(releases) \in Nat /\ DOMAIN releases = 1 .. Len(releases)
    BY DEF TypeOK
  <2>b. \A p \in Executor : /\ proc[p] \in Call
                            /\ CallOK(proc[p], Len(requests), Len(approvals), Len(releases))
    BY DEF TypeOK
  <2>1. ASSUME NEW p \in Executor, NEW who \in Identity, request(p, who)
        PROVE  TypeOK'
    <3>1. [by |-> who, fingerprint |-> plan, status |-> "pending"] \in Request
      BY DEF TypeOK, Request, RequestStatus
    <3>2. requests' \in Seq(Request) /\ Len(requests') = Len(requests) + 1
      BY <2>1, <3>1, Inserted DEF request, TypeOK
    <3>3. \A q \in Executor :
              CallOK(proc[q], Len(requests'), Len(approvals), Len(releases))
      BY <2>a, <2>b, <3>2 DEF CallOK
    <3>4. \A i \in DOMAIN approvals : approvals[i].request \in 0 .. Len(requests')
      BY <2>a, <3>2 DEF TypeOK
    <3>. QED  BY <2>1, <3>2, <3>3, <3>4 DEF request, TypeOK
  <2>2. ASSUME NEW p \in Executor, NEW who \in Identity, NEW d \in {"approve", "reject"},
               approve(p, who, d)
        PROVE  TypeOK'
    <3>1. NewApproval(who, d, 0) \in Approval /\ NewApproval(who, d, 0).request = 0
      BY DEF TypeOK, NewApproval, Approval
    <3>2. /\ approvals' \in Seq(Approval)
          /\ Len(approvals') = Len(approvals) + 1
          /\ \A i \in DOMAIN approvals' : approvals'[i].request \in 0 .. Len(requests)
          /\ lease.release_id \in 0 .. Len(approvals')
          /\ \A i \in DOMAIN releases : releases[i].approval \in DOMAIN approvals'
      BY <2>2, <2>a, <3>1, NewApprovalType DEF approve
    <3>3. \A q \in Executor :
              CallOK(proc[q], Len(requests), Len(approvals'), Len(releases))
      BY <2>a, <2>b, <3>2 DEF CallOK
    <3>. QED  BY <2>2, <3>2, <3>3 DEF approve, TypeOK
  <2>3. ASSUME NEW p \in Executor, NEW r \in DOMAIN requests, NEW who \in Identity,
               NEW d \in {"approve", "reject"}, approve_request(p, r, who, d)
        PROVE  TypeOK'
    <3>. DEFINE s == IF plan = requests[r].fingerprint THEN "decide" ELSE "stale"
                c == [Idle EXCEPT !.who = who, !.request = r, !.decision = d, !.pc = s]
    <3>1. CallOK(c, Len(requests), Len(approvals), Len(releases))
      <4>1. s \in {"decide", "stale"}
        OBVIOUS
      <4>. HIDE DEF s
      <4>2. r \in Nat
        BY <2>a
      <4>3. c \in Call
        BY <4>1, <4>2, IdleOK DEF Call, PC
      <4>4. c.pc = s /\ c.who = who /\ c.request = r /\ c.release = 0
        BY IdleOK DEF Call
      <4>. HIDE DEF c
      <4>. QED  BY <4>1, <4>3, <4>4, <2>a DEF CallOK
    <3>2. proc' = [proc EXCEPT ![p] = c]
      BY <2>3 DEF approve_request, Enters
    <3>. HIDE DEF c
    <3>. QED  BY <2>3, <3>1, <3>2, ReadStepType DEF approve_request, TypeOK
  <2>4. ASSUME NEW p \in Executor, mark_stale(p)
        PROVE  TypeOK'
    <3>0. \A r \in DOMAIN requests : requests[r] \in Request
      BY DEF TypeOK
    <3>1. requests' \in [DOMAIN requests -> Request]
      BY <2>4, <3>0 DEF mark_stale, Request, RequestStatus
    <3>2. requests' \in Seq(Request) /\ Len(requests') = Len(requests)
      BY <3>1, Updated DEF TypeOK
    <3>3. \A q \in Executor : CallOK(proc'[q], Len(requests), Len(approvals), Len(releases))
                              /\ proc' \in [Executor -> Call]
      BY <2>4, <2>a, <2>b, IdleOK DEF mark_stale, Returns, Enters, TypeOK, CallOK
    <3>. QED  BY <2>4, <3>2, <3>3 DEF mark_stale, TypeOK
  <2>5. ASSUME NEW p \in Executor, decide(p)
        PROVE  TypeOK'
    <3>. DEFINE r == proc[p].request
                d == proc[p].decision
                s == IF d = "approve" THEN "approved" ELSE "rejected"
                a == [NewApproval(proc[p].who, d, r) EXCEPT !.fingerprint = requests[r].fingerprint]
    <3>1. /\ proc' = [proc EXCEPT ![p] = Idle]
          /\ twoPerson' = twoPerson /\ plan' = plan /\ lease' = lease
          /\ releases' = releases /\ crashes' = crashes
      BY <2>5 DEF decide, Returns, Enters
    <3>2. r \in 1 .. Len(requests) /\ d \in {"approve", "reject"} /\ proc[p].who \in Identity
      BY <2>5, <2>b DEF decide, CallOK, Call
    <3>3. CASE Pending(r)
      <4>1. /\ requests' = [requests EXCEPT ![r].status = s]
            /\ approvals' = Append(approvals, a)
        BY <2>5, <3>3 DEF decide
      <4>2. requests[r] \in Request
        BY <3>2, <2>a DEF TypeOK
      <4>3. a \in Approval /\ a.request = r
        <5>1. requests[r].fingerprint \in Fingerprint /\ plan \in Fingerprint /\ r \in Nat
          BY <3>2, <4>2 DEF Request, TypeOK
        <5>. QED  BY <5>1, <3>2 DEF NewApproval, Approval
      <4>4. [requests[r] EXCEPT !.status = s] \in Request
        BY <4>2, RequestColumn DEF RequestStatus
      <4>5. requests' \in [DOMAIN requests -> Request]
        <5>1. requests' = [k \in DOMAIN requests |->
                              IF k = r THEN [requests[r] EXCEPT !.status = s] ELSE requests[k]]
          BY <4>1, <3>2
        <5>2. \A k \in DOMAIN requests : requests[k] \in Request
          BY DEF TypeOK
        <5>. QED  BY <5>1, <5>2, <4>4
      <4>6. requests' \in Seq(Request) /\ Len(requests') = Len(requests)
        BY <4>5, Updated DEF TypeOK
      <4>. HIDE DEF r, d, s, a
      <4>7. /\ approvals' \in Seq(Approval)
            /\ Len(approvals') = Len(approvals) + 1
            /\ \A i \in DOMAIN approvals' : approvals'[i].request \in 0 .. Len(requests)
            /\ lease.release_id \in 0 .. Len(approvals')
            /\ \A i \in DOMAIN releases : releases[i].approval \in DOMAIN approvals'
        BY <2>a, <3>2, <4>1, <4>3, NewApprovalType
      <4>8. /\ twoPerson' = twoPerson /\ plan' \in Fingerprint /\ crashes' \in Nat
            /\ lease' \in Lease /\ lease'.release_id \in 0 .. Len(approvals')
            /\ \A i \in DOMAIN approvals' : approvals'[i].request \in 0 .. Len(requests')
            /\ releases' \in Seq(Release)
            /\ \A i \in DOMAIN releases' : releases'[i].approval \in DOMAIN approvals'
            /\ Len(requests') >= Len(requests) /\ Len(approvals') >= Len(approvals)
            /\ Len(releases') >= Len(releases)
        BY <2>a, <3>1, <4>6, <4>7 DEF TypeOK
      <4>9. CallOK(Idle, Len(requests'), Len(approvals'), Len(releases'))
        BY <2>a, <3>1, <4>6, <4>7, IdleOK
      <4>. QED
        BY <3>1, <4>6, <4>7, <4>8, <4>9, StepType, Zenon
    <3>4. CASE ~Pending(r)
      <4>1. UNCHANGED <<requests, approvals>>
        BY <2>5, <3>4 DEF decide
      <4>. QED  BY <2>a, <3>1, <4>1, IdleOK, ReadStepType DEF tables, TypeOK
    <3>. QED  BY <3>3, <3>4
  <2>6. ASSUME NEW p \in Executor, NEW i \in DOMAIN approvals, revoke_read(p, i)
        PROVE  TypeOK'
    <3>. DEFINE c == [Idle EXCEPT !.pc = "revoke", !.approval = i]
    <3>1. CallOK(c, Len(requests), Len(approvals), Len(releases))
      <4>1. i \in Nat
        BY <2>a
      <4>2. c \in Call
        BY <4>1, IdleOK DEF Call, PC
      <4>3. c.pc = "revoke" /\ c.approval = i /\ c.release = 0
        BY IdleOK DEF Call
      <4>. HIDE DEF c
      <4>. QED  BY <4>2, <4>3, <2>a DEF CallOK
    <3>2. proc' = [proc EXCEPT ![p] = c]
      BY <2>6 DEF revoke_read, Enters
    <3>. HIDE DEF c
    <3>. QED  BY <2>6, <3>1, <3>2, ReadStepType DEF revoke_read, TypeOK
  <2>7. ASSUME NEW p \in Executor, revoke_commit(p)
        PROVE  TypeOK'
    <3>. DEFINE i == proc[p].approval
    <3>1. i \in 1 .. Len(approvals)
      BY <2>7, <2>b DEF revoke_commit, CallOK
    <3>2. /\ \A r \in DOMAIN requests : [requests[r] EXCEPT !.status = "revoked"] \in Request
          /\ \A r \in DOMAIN requests : requests[r] \in Request
      <4>1. "revoked" \in RequestStatus /\ \A r \in DOMAIN requests : requests[r] \in Request
        BY DEF TypeOK, RequestStatus
      <4>. QED  BY <4>1, RequestColumn
    <3>3. requests' \in [DOMAIN requests -> Request]
      BY <2>7, <3>2 DEF revoke_commit
    <3>4. requests' \in Seq(Request) /\ Len(requests') = Len(requests)
      BY <3>3, Updated DEF TypeOK
    <3>5. /\ approvals[i] \in Approval
          /\ approvals' = [approvals EXCEPT ![i].decision = "revoked"]
      BY <2>7, <2>a, <3>1 DEF TypeOK, revoke_commit
    <3>6. /\ approvals' \in [DOMAIN approvals -> Approval]
          /\ \A k \in DOMAIN approvals : approvals'[k].request = approvals[k].request
      <4>1. \A k \in DOMAIN approvals : approvals[k] \in Approval
        BY DEF TypeOK
      <4>2. approvals' = [k \in DOMAIN approvals |->
                IF k = i THEN [approvals[i] EXCEPT !.decision = "revoked"] ELSE approvals[k]]
        BY <3>5
      <4>. QED  BY <4>1, <4>2, <3>5, ApprovalColumn
    <3>7. /\ approvals' \in Seq(Approval)
          /\ Len(approvals') = Len(approvals)
          /\ DOMAIN approvals' = DOMAIN approvals
          /\ \A k \in DOMAIN approvals' : approvals'[k].request \in 0 .. Len(requests)
      BY <3>6, UpdatedApprovalType
    <3>8. proc' = [proc EXCEPT ![p] = Idle]
      BY <2>7 DEF revoke_commit, Returns, Enters
    <3>9. /\ twoPerson' = twoPerson /\ plan' \in Fingerprint /\ crashes' \in Nat
          /\ lease' \in Lease /\ lease'.release_id \in 0 .. Len(approvals')
          /\ releases' \in Seq(Release) /\ releases' = releases
          /\ \A k \in DOMAIN approvals' : approvals'[k].request \in 0 .. Len(requests')
          /\ \A k \in DOMAIN releases' : releases'[k].approval \in DOMAIN approvals'
          /\ Len(requests') >= Len(requests) /\ Len(approvals') >= Len(approvals)
          /\ Len(releases') >= Len(releases)
      BY <2>7, <2>a, <3>4, <3>7 DEF revoke_commit, TypeOK
    <3>10. CallOK(Idle, Len(requests'), Len(approvals'), Len(releases'))
      BY <2>a, <3>4, <3>7, <3>9, IdleOK
    <3>. HIDE DEF i
    <3>. QED
      BY <3>4, <3>7, <3>8, <3>9, <3>10, StepType, Zenon
  <2>8. ASSUME NEW p \in Executor, NEW i \in DOMAIN approvals, NEW who \in Identity,
               execute_read(p, i, who)
        PROVE  TypeOK'
    <3>. DEFINE c == [Idle EXCEPT !.pc = "plan", !.who = who, !.approval = i]
    <3>1. CallOK(c, Len(requests), Len(approvals), Len(releases))
      <4>1. i \in Nat
        BY <2>a
      <4>2. c \in Call
        BY <4>1, IdleOK DEF Call, PC
      <4>3. c.pc = "plan" /\ c.who = who /\ c.approval = i /\ c.release = 0
        BY IdleOK DEF Call
      <4>. HIDE DEF c
      <4>. QED  BY <4>2, <4>3, <2>a DEF CallOK
    <3>2. proc' = [proc EXCEPT ![p] = c]
      BY <2>8 DEF execute_read, Enters
    <3>. HIDE DEF c
    <3>. QED  BY <2>8, <3>1, <3>2, ReadStepType DEF execute_read, TypeOK
  <2>9. ASSUME NEW p \in Executor, UNCHANGED <<twoPerson, plan, tables, crashes>>,
               proc[p].pc \in Executing,
               \/ Returns(p)
               \/ \E pc \in Executing \ {"running"} : Moves(p, pc)
        PROVE  TypeOK'
    <3>1. CASE Returns(p)
      BY <2>9, <2>a, <3>1, IdleOK, ReadStepType DEF Returns, Enters, TypeOK
    <3>2. ASSUME NEW pc \in Executing \ {"running"}, Moves(p, pc)
          PROVE  TypeOK'
      <4>. DEFINE c == [proc[p] EXCEPT !.pc = pc]
      <4>1. CallOK(c, Len(requests), Len(approvals), Len(releases))
        BY <2>9, <3>2, MoveOK
      <4>2. proc' = [proc EXCEPT ![p] = c]
        BY <3>2 DEF Moves
      <4>. HIDE DEF c
      <4>. QED  BY <2>9, <4>1, <4>2, ReadStepType DEF TypeOK
    <3>. QED  BY <2>9, <3>1, <3>2
  <2>10. ASSUME NEW p \in Executor,
                \/ execute_plan(p) \/ acquire_read(p) \/ consume_read(p) \/ release_read(p)
         PROVE  TypeOK'
    BY <2>9, <2>10
       DEF execute_plan, acquire_read, consume_read, release_read, Executing, PC
  <2>11. ASSUME NEW p \in Executor, acquire_commit(p)
         PROVE  TypeOK'
    <3>1. /\ proc[p].pc \in Executing
          /\ UNCHANGED <<twoPerson, plan, requests, approvals, releases, crashes>>
      BY <2>11 DEF acquire_commit, Executing, PC
    <3>2. CASE Returns(p) /\ UNCHANGED lease
      BY <2>9, <3>1, <3>2 DEF tables
    <3>3. CASE /\ lease' = [release_id |-> proc[p].approval, old |-> FALSE]
               /\ Moves(p, "consume")
      <4>. DEFINE c == [proc[p] EXCEPT !.pc = "consume"]
      <4>1. CallOK(c, Len(requests), Len(approvals), Len(releases))
        BY <3>1, MoveOK DEF Executing, PC
      <4>2. proc' = [proc EXCEPT ![p] = c]
        BY <3>3 DEF Moves
      <4>3. proc[p].approval \in 1 .. Len(approvals)
        BY <2>b, <3>1 DEF CallOK, Executing
      <4>4. lease' \in Lease /\ lease'.release_id \in 0 .. Len(approvals)
        BY <2>a, <3>3, <4>3 DEF Lease
      <4>. HIDE DEF c
      <4>5. /\ requests' \in Seq(Request) /\ approvals' \in Seq(Approval)
            /\ releases' \in Seq(Release) /\ plan' \in Fingerprint /\ crashes' \in Nat
            /\ twoPerson' = twoPerson
            /\ \A i \in DOMAIN approvals' : approvals'[i].request \in 0 .. Len(requests')
            /\ lease'.release_id \in 0 .. Len(approvals')
            /\ \A i \in DOMAIN releases' : releases'[i].approval \in DOMAIN approvals'
            /\ Len(requests') >= Len(requests) /\ Len(approvals') >= Len(approvals)
            /\ Len(releases') >= Len(releases)
        BY <2>a, <3>1, <4>4 DEF TypeOK
      <4>6. CallOK(c, Len(requests'), Len(approvals'), Len(releases'))
        BY <3>1, <4>1
      <4>. QED  BY <4>2, <4>4, <4>5, <4>6, StepType, Zenon
    <3>. QED  BY <2>11, <3>2, <3>3 DEF acquire_commit
  <2>12. ASSUME NEW p \in Executor, consume_commit(p)
         PROVE  TypeOK'
    <3>. DEFINE i == proc[p].approval
                c == [proc[p] EXCEPT !.pc = "executing"]
    <3>1. /\ proc[p].pc \in Executing
          /\ UNCHANGED <<twoPerson, plan, requests, lease, releases, crashes>>
          /\ approvals' = [approvals EXCEPT ![i].consumed = TRUE]
          /\ proc' = [proc EXCEPT ![p] = c]
      BY <2>12 DEF consume_commit, Moves, Executing, PC
    <3>2. CallOK(c, Len(requests), Len(approvals), Len(releases))
      BY <3>1, MoveOK DEF Executing, PC
    <3>3. i \in DOMAIN approvals
      BY <2>a, <2>b, <3>1 DEF CallOK, Executing
    <3>4. /\ approvals' \in [DOMAIN approvals -> Approval]
          /\ \A k \in DOMAIN approvals : approvals'[k].request = approvals[k].request
      <4>1. \A k \in DOMAIN approvals : approvals[k] \in Approval
        BY DEF TypeOK
      <4>2. approvals' = [k \in DOMAIN approvals |->
                IF k = i THEN [approvals[i] EXCEPT !.consumed = TRUE] ELSE approvals[k]]
        BY <3>1
      <4>. QED  BY <4>1, <4>2, <3>3, ApprovalColumn
    <3>. HIDE DEF i, c
    <3>5. /\ approvals' \in Seq(Approval)
          /\ Len(approvals') = Len(approvals)
          /\ DOMAIN approvals' = DOMAIN approvals
          /\ \A k \in DOMAIN approvals' : approvals'[k].request \in 0 .. Len(requests)
      BY <3>4, UpdatedApprovalType
    <3>6. /\ requests' \in Seq(Request) /\ plan' \in Fingerprint /\ crashes' \in Nat
          /\ lease' \in Lease /\ lease'.release_id \in 0 .. Len(approvals')
          /\ releases' \in Seq(Release) /\ twoPerson' = twoPerson
          /\ \A k \in DOMAIN approvals' : approvals'[k].request \in 0 .. Len(requests')
          /\ \A k \in DOMAIN releases' : releases'[k].approval \in DOMAIN approvals'
          /\ Len(requests') >= Len(requests) /\ Len(approvals') >= Len(approvals)
          /\ Len(releases') >= Len(releases)
      BY <2>a, <3>1, <3>5 DEF TypeOK
    <3>7. CallOK(c, Len(requests'), Len(approvals'), Len(releases'))
      BY <3>1, <3>2, <3>5
    <3>. QED  BY <3>1, <3>5, <3>6, <3>7, StepType, Zenon
  <2>13. ASSUME NEW p \in Executor, proc[p].pc \in Executing, NEW s \in RequestStatus,
                requests' = SetRequestStatus(p, s),
                releases' \in Seq(Release), Len(releases') >= Len(releases),
                \A k \in DOMAIN releases' : releases'[k].approval \in DOMAIN approvals,
                plan' \in Fingerprint,
                UNCHANGED <<twoPerson, approvals, lease, crashes>>,
                NEW c, proc' = [proc EXCEPT ![p] = c],
                CallOK(c, Len(requests), Len(approvals), Len(releases'))
         PROVE  TypeOK'
    <3>1. requests' \in Seq(Request) /\ Len(requests') = Len(requests)
      BY <2>13, SetRequestStatusType
    <3>2. /\ approvals' \in Seq(Approval) /\ crashes' \in Nat /\ twoPerson' = twoPerson
          /\ lease' \in Lease /\ lease'.release_id \in 0 .. Len(approvals')
          /\ \A k \in DOMAIN approvals' : approvals'[k].request \in 0 .. Len(requests')
          /\ \A k \in DOMAIN releases' : releases'[k].approval \in DOMAIN approvals'
          /\ Len(requests') >= Len(requests) /\ Len(approvals') >= Len(approvals)
      BY <2>13, <2>a, <3>1 DEF TypeOK
    <3>3. CallOK(c, Len(requests'), Len(approvals'), Len(releases'))
      BY <2>13, <3>1
    <3>. QED  BY <2>13, <3>1, <3>2, <3>3, StepType, Zenon
  <2>14. ASSUME NEW p \in Executor, run_start(p)
         PROVE  TypeOK'
    <3>1. /\ proc[p].pc \in Executing /\ proc[p].pc # "idle" /\ "executing" \in RequestStatus
          /\ requests' = SetRequestStatus(p, "executing")
          /\ UNCHANGED <<twoPerson, plan, approvals, lease, crashes>>
          /\ plan' \in Fingerprint
      BY <2>14 DEF run_start, Executing, PC, RequestStatus, TypeOK
    <3>2. proc[p].approval \in DOMAIN approvals /\ proc[p].who \in Identity
          /\ proc[p].approval \in Nat
      BY <2>a, <2>b, <3>1 DEF CallOK, Executing
    <3>3. CASE Moves(p, "over") /\ UNCHANGED releases
      <4>. DEFINE c == [proc[p] EXCEPT !.pc = "over"]
      <4>1. CallOK(c, Len(requests), Len(approvals), Len(releases))
        BY <3>1, MoveOK DEF Executing, PC
      <4>2. proc' = [proc EXCEPT ![p] = c] /\ releases' = releases
        BY <3>3 DEF Moves
      <4>. HIDE DEF c
      <4>3. /\ releases' \in Seq(Release) /\ Len(releases') >= Len(releases)
            /\ \A k \in DOMAIN releases' : releases'[k].approval \in DOMAIN approvals
            /\ CallOK(c, Len(requests), Len(approvals), Len(releases'))
        BY <2>a, <4>1, <4>2 DEF TypeOK
      <4>. QED  BY <3>1, <4>2, <4>3, <2>13, Zenon
    <3>4. CASE /\ releases' = Append(releases, [approval |-> proc[p].approval,
                                               by |-> proc[p].who, status |-> "started"])
               /\ Enters(p, [proc[p] EXCEPT !.pc = "running", !.release = Len(releases')])
      <4>. DEFINE c == [proc[p] EXCEPT !.pc = "running", !.release = Len(releases')]
                  row == [approval |-> proc[p].approval, by |-> proc[p].who,
                          status |-> "started"]
      <4>1. row \in Release /\ row.approval \in DOMAIN approvals
        BY <3>2 DEF Release
      <4>. HIDE DEF row
      <4>2. /\ releases' \in Seq(Release)
            /\ Len(releases') = Len(releases) + 1
            /\ DOMAIN releases' = 1 .. (Len(releases) + 1)
            /\ \A k \in 1 .. Len(releases) : releases'[k] = releases[k]
            /\ releases'[Len(releases) + 1] = row
        BY <3>4, <4>1, Inserted DEF TypeOK, row
      <4>3. \A k \in DOMAIN releases' : releases'[k].approval \in DOMAIN approvals
        BY <2>a, <4>1, <4>2 DEF TypeOK
      <4>4. c \in Call /\ c.pc = "running" /\ c.who = proc[p].who
            /\ c.approval = proc[p].approval /\ c.release = Len(releases')
        <5>1. proc[p] \in Call /\ Len(releases') \in Nat
          BY <2>a, <2>b, <4>2
        <5>. QED  BY <5>1 DEF Call, PC
      <4>5. proc' = [proc EXCEPT ![p] = c]
        BY <3>4 DEF Enters
      <4>. HIDE DEF c
      <4>6. CallOK(c, Len(requests), Len(approvals), Len(releases'))
        BY <2>a, <3>2, <4>2, <4>4 DEF CallOK
      <4>7. Len(releases') >= Len(releases)
        BY <2>a, <4>2
      <4>. QED  BY <3>1, <4>2, <4>3, <4>5, <4>6, <4>7, <2>13, Zenon
    <3>. QED  BY <2>14, <3>3, <3>4 DEF run_start
  <2>15. ASSUME NEW p \in Executor, run_record(p)
         PROVE  TypeOK'
    <3>. DEFINE c == [proc[p] EXCEPT !.pc = "unlock"]
    <3>1. /\ proc[p].pc \in Executing /\ Outcome(p) \in RequestStatus
          /\ requests' = SetRequestStatus(p, Outcome(p))
          /\ UNCHANGED <<twoPerson, approvals, lease, crashes>>
          /\ plan' \in Fingerprint /\ releases' = releases
          /\ proc' = [proc EXCEPT ![p] = c]
      BY <2>15 DEF run_record, Executing, PC, RequestStatus, TypeOK, Moves, Outcome
    <3>2. CallOK(c, Len(requests), Len(approvals), Len(releases))
      BY <3>1, MoveOK DEF Executing, PC
    <3>. HIDE DEF c
    <3>3. /\ releases' \in Seq(Release) /\ Len(releases') >= Len(releases)
          /\ \A k \in DOMAIN releases' : releases'[k].approval \in DOMAIN approvals
          /\ CallOK(c, Len(requests), Len(approvals), Len(releases'))
      BY <2>a, <3>1, <3>2 DEF TypeOK
    <3>. QED  BY <3>1, <3>3, <2>13, Zenon
  <2>16. ASSUME NEW p \in Executor, run_end(p)
         PROVE  TypeOK'
    <3>1. PICK s \in {"started", "succeeded", "failed"}, raised \in BOOLEAN :
              /\ releases' = [releases EXCEPT ![proc[p].release].status = s]
              /\ Enters(p, [proc[p] EXCEPT !.pc = "over",
                                           !.release = IF raised THEN 0 ELSE @])
      BY <2>16 DEF run_end
    <3>. DEFINE n == IF raised THEN 0 ELSE proc[p].release
                c == [proc[p] EXCEPT !.pc = "over", !.release = n]
    <3>2. /\ proc[p].pc = "running" /\ plan' \in Fingerprint
          /\ UNCHANGED <<twoPerson, requests, approvals, lease, crashes>>
          /\ proc' = [proc EXCEPT ![p] = c]
      BY <2>16, <3>1 DEF run_end, Enters
    <3>3. n \in 0 .. Len(releases)
      BY <2>b, <3>2 DEF CallOK
    <3>. HIDE DEF n
    <3>4. c \in Call /\ c.pc = "over" /\ c.who = proc[p].who
          /\ c.approval = proc[p].approval /\ c.release = n
      <4>1. proc[p] \in Call /\ n \in Nat
        BY <2>a, <2>b, <3>3
      <4>. QED  BY <4>1 DEF Call, PC
    <3>. HIDE DEF c
    <3>5. CallOK(c, Len(requests), Len(approvals), Len(releases))
      BY <2>b, <3>2, <3>3, <3>4 DEF CallOK
    <3>6. /\ releases' \in [DOMAIN releases -> Release]
          /\ \A k \in DOMAIN releases : releases'[k].approval = releases[k].approval
      <4>1. \A k \in DOMAIN releases : releases[k] \in Release
        BY DEF TypeOK
      <4>2. releases' = [k \in DOMAIN releases |-> IF k = proc[p].release
                            THEN [releases[k] EXCEPT !.status = s] ELSE releases[k]]
        BY <3>1
      <4>. QED  BY <4>1, <4>2 DEF Release
    <3>7. /\ releases' \in Seq(Release) /\ Len(releases') = Len(releases)
          /\ DOMAIN releases' = DOMAIN releases
      BY <3>6, Updated DEF TypeOK
    <3>8. /\ requests' \in Seq(Request) /\ approvals' \in Seq(Approval)
          /\ crashes' \in Nat /\ twoPerson' = twoPerson
          /\ lease' \in Lease /\ lease'.release_id \in 0 .. Len(approvals')
          /\ \A k \in DOMAIN approvals' : approvals'[k].request \in 0 .. Len(requests')
          /\ \A k \in DOMAIN releases' : releases'[k].approval \in DOMAIN approvals'
          /\ Len(requests') >= Len(requests) /\ Len(approvals') >= Len(approvals)
          /\ Len(releases') >= Len(releases)
      BY <2>a, <3>2, <3>6, <3>7 DEF TypeOK
    <3>9. CallOK(c, Len(requests'), Len(approvals'), Len(releases'))
      BY <3>2, <3>5, <3>7
    <3>. QED  BY <3>2, <3>7, <3>8, <3>9, StepType, Zenon
  <2>17. ASSUME NEW p \in Executor, release_commit(p)
         PROVE  TypeOK'
    <3>1. /\ lease' = NoLease /\ proc' = [proc EXCEPT ![p] = Idle]
          /\ UNCHANGED <<twoPerson, plan, requests, approvals, releases, crashes>>
      BY <2>17 DEF release_commit, Returns, Enters
    <3>2. lease' \in Lease /\ lease'.release_id \in 0 .. Len(approvals)
      BY <2>a, <3>1 DEF NoLease, Lease
    <3>3. /\ proc' \in [Executor -> Call]
          /\ \A q \in Executor : CallOK(proc'[q], Len(requests), Len(approvals), Len(releases))
      BY <2>a, <2>b, <3>1, IdleOK DEF TypeOK
    <3>. QED  BY <3>1, <3>2, <3>3 DEF TypeOK
  <2>18. ASSUME NEW i \in DOMAIN approvals, ApprovalExpires(i)
         PROVE  TypeOK'
    <3>1. /\ approvals' \in [DOMAIN approvals -> Approval]
          /\ \A k \in DOMAIN approvals : approvals'[k].request = approvals[k].request
      <4>1. \A k \in DOMAIN approvals : approvals[k] \in Approval
        BY DEF TypeOK
      <4>2. approvals' = [k \in DOMAIN approvals |->
                IF k = i THEN [approvals[i] EXCEPT !.expired = TRUE] ELSE approvals[k]]
        BY <2>18 DEF ApprovalExpires
      <4>. QED  BY <4>1, <4>2, ApprovalColumn
    <3>2. /\ approvals' \in Seq(Approval)
          /\ Len(approvals') = Len(approvals)
          /\ DOMAIN approvals' = DOMAIN approvals
          /\ \A k \in DOMAIN approvals' : approvals'[k].request \in 0 .. Len(requests)
      BY <3>1, UpdatedApprovalType
    <3>. QED  BY <2>18, <3>2 DEF ApprovalExpires, TypeOK
  <2>19. CASE LeaseExpires
    <3>1. lease' \in Lease /\ lease'.release_id = lease.release_id
      BY <2>19 DEF LeaseExpires, TypeOK, Lease
    <3>. QED  BY <2>19, <3>1 DEF LeaseExpires, TypeOK
  <2>20. CASE PlanChanges
    BY <2>20 DEF PlanChanges, TypeOK, tables
  <2>21. ASSUME NEW p \in Executor, Crash(p)
         PROVE  TypeOK'
    <3>1. /\ proc' = [proc EXCEPT ![p] = Idle] /\ crashes' \in Nat
          /\ UNCHANGED <<twoPerson, plan, tables>>
      BY <2>21 DEF Crash, Returns, Enters, TypeOK
    <3>. QED  BY <2>a, <3>1, IdleOK, ReadStepType
  <2>22. CASE UNCHANGED vars
    BY <2>22 DEF vars, TypeOK
  <2>. QED
    BY <2>1, <2>2, <2>3, <2>4, <2>5, <2>6, <2>7, <2>8, <2>10, <2>11, <2>12, <2>14, <2>15,
       <2>16, <2>17, <2>18, <2>19, <2>20, <2>21, <2>22
       DEF Next, Decide, Revoke, Execute
<1>. QED  BY <1>1, InitType, PTL DEF Spec

----------------------------------------------------------------------------
(* The lease.  OneReleaseAtATime is not inductive: it needs to know that    *)
(* the row of the lease is there for as long as somebody holds it, that it  *)
(* is the holder's, and that it is not old, so that nobody takes it over.   *)

Holds(p) == proc[p].pc \in Locked

\* The lease is held by one process, or by none and then its row is gone.
LeaseHeld ==
    /\ ~lease.old
    /\ lease.release_id # 0 => \E p \in Executor : Holds(p)
    /\ \A p \in Executor : /\ proc[p].pc # "takeover"
                           /\ Holds(p) => lease.release_id = proc[p].approval
    /\ OneReleaseAtATime

LeaseInv == crashes = 0 => LeaseHeld

\* A step that takes no process into or out of the lease.
LEMMA HoldersKept ==
    ASSUME TypeOK, LeaseHeld, lease' = lease,
           NEW p \in Executor, NEW c, proc' = [proc EXCEPT ![p] = c],
           c.pc # "takeover",
           \/ c.pc \notin Locked /\ ~Holds(p)
           \/ c.pc \in Locked /\ Holds(p) /\ c.approval = proc[p].approval
    PROVE  LeaseHeld'
<1>1. proc'[p] = c /\ \A q \in Executor : q # p => proc'[q] = proc[q]
  BY DEF TypeOK
<1>2. \A q \in Executor : /\ Holds(q)' <=> Holds(q)
                          /\ Holds(q) => proc'[q].approval = proc[q].approval
                          /\ proc'[q].pc # "takeover"
  BY <1>1 DEF Holds, LeaseHeld
<1>. QED  BY <1>2 DEF LeaseHeld, OneReleaseAtATime, Holds

\* The same, for the two ways a call goes on.
LEMMA HoldersMove ==
    ASSUME TypeOK, LeaseHeld, lease' = lease, NEW p \in Executor,
           \/ Returns(p) /\ ~Holds(p)
           \/ \E pc \in PC \ {"takeover"} : Moves(p, pc) /\ (pc \in Locked <=> Holds(p))
    PROVE  LeaseHeld'
<1>1. proc[p] \in Call
  BY DEF TypeOK
<1>2. CASE Returns(p) /\ ~Holds(p)
  <2>1. Idle.pc \notin Locked /\ Idle.pc # "takeover"
    BY IdleOK DEF Locked
  <2>. QED  BY <1>2, <2>1, HoldersKept DEF Returns, Enters
<1>3. ASSUME NEW pc \in PC \ {"takeover"}, Moves(p, pc), pc \in Locked <=> Holds(p)
      PROVE  LeaseHeld'
  <2>. DEFINE c == [proc[p] EXCEPT !.pc = pc]
  <2>1. c.pc = pc /\ c.approval = proc[p].approval
    BY <1>1 DEF Call
  <2>2. proc' = [proc EXCEPT ![p] = c]
    BY <1>3 DEF Moves
  <2>. HIDE DEF c
  <2>. QED  BY <1>3, <2>1, <2>2, HoldersKept
<1>. QED  BY <1>2, <1>3

LEMMA LeaseStep ==
    ASSUME Timely, TypeOK, LeaseInv, [Next]_vars
    PROVE  LeaseInv'
<1>. SUFFICES ASSUME crashes' = 0 PROVE LeaseHeld'
  BY DEF LeaseInv
<1>1. CASE \E p \in Executor : Crash(p)
  BY <1>1 DEF Crash, TypeOK
<1>2. CASE crashes = 0 /\ UNCHANGED <<lease, proc>>
  BY <1>2 DEF LeaseInv, LeaseHeld, OneReleaseAtATime, Holds
<1>3. ASSUME crashes = 0, NEW p \in Executor, lease' = lease,
             \/ Returns(p) /\ ~Holds(p)
             \/ \E pc \in PC \ {"takeover"} : Moves(p, pc) /\ (pc \in Locked <=> Holds(p))
      PROVE  LeaseHeld'
  BY <1>3, HoldersMove DEF LeaseInv
<1>4. ASSUME crashes = 0, NEW p \in Executor, lease' = lease, NEW c,
             proc' = [proc EXCEPT ![p] = c], ~Holds(p),
             c.pc \notin Locked, c.pc # "takeover"
      PROVE  LeaseHeld'
  BY <1>4, HoldersKept DEF LeaseInv
<1>5. ASSUME crashes = 0, NEW p \in Executor, acquire_commit(p)
      PROVE  LeaseHeld'
  <2>. USE <1>5
  <2>1. LeaseHeld /\ proc[p].pc = "insert" /\ ~Holds(p)
    BY DEF LeaseInv, LeaseHeld, acquire_commit, Holds, Locked
  <2>2. CASE LeaseTaken
    BY <2>1, <2>2, <1>3 DEF acquire_commit
  <2>3. CASE ~LeaseTaken
    <3>1. lease.release_id = 0
      BY <2>3 DEF LeaseTaken, NoLease
    <3>2. \A q \in Executor : ~Holds(q)
      <4>1. \A q \in Executor : Holds(q) => proc[q].approval \in 1 .. Len(approvals)
        BY DEF TypeOK, CallOK, Holds, Locked
      <4>2. Len(approvals) \in Nat
        BY DEF TypeOK
      <4>. QED  BY <2>1, <3>1, <4>1, <4>2 DEF LeaseHeld
    <3>3. /\ lease'.release_id = proc[p].approval /\ ~lease'.old
          /\ Moves(p, "consume")
      BY <2>1, <2>3 DEF acquire_commit
    <3>4. /\ proc'[p].pc = "consume" /\ proc'[p].approval = proc[p].approval
          /\ \A q \in Executor : q # p => proc'[q] = proc[q]
      BY <3>3 DEF Moves, TypeOK, Call
    <3>. QED
      BY <2>1, <3>2, <3>3, <3>4 DEF LeaseHeld, OneReleaseAtATime, Holds, Locked
  <2>. QED  BY <2>2, <2>3
<1>6. ASSUME crashes = 0, NEW p \in Executor, acquire_read(p)
      PROVE  LeaseHeld'
  <2>1. ~lease.old /\ ~Holds(p)
    BY <1>6 DEF LeaseInv, LeaseHeld, acquire_read, Holds, Locked
  <2>. QED  BY <1>3, <1>6, <2>1 DEF acquire_read, tables, Locked, PC
<1>7. ASSUME crashes = 0, NEW p \in Executor, release_read(p)
      PROVE  LeaseHeld'
  <2>1. Holds(p) /\ lease.release_id = proc[p].approval
    BY <1>7 DEF LeaseInv, LeaseHeld, release_read, Holds, Locked
  <2>. QED  BY <1>3, <1>7, <2>1 DEF release_read, tables, Locked, PC
<1>8. ASSUME crashes = 0, NEW p \in Executor, release_commit(p)
      PROVE  LeaseHeld'
  <2>1. LeaseHeld /\ Holds(p)
    BY <1>8 DEF LeaseInv, release_commit, Holds, Locked
  <2>2. /\ proc'[p] = Idle /\ lease' = NoLease
        /\ \A q \in Executor : q # p => proc'[q] = proc[q]
    BY <1>8 DEF release_commit, Returns, Enters, TypeOK
  <2>3. \A q \in Executor : ~Holds(q)' /\ proc'[q].pc # "takeover"
    BY <2>1, <2>2 DEF LeaseHeld, OneReleaseAtATime, Holds, Idle, Locked
  <2>. QED  BY <2>2, <2>3 DEF LeaseHeld, OneReleaseAtATime, Holds, NoLease
<1>9. CASE LeaseExpires
  <2>1. crashes = 0 /\ LeaseHeld /\ lease # NoLease /\ \A p \in Executor : ~Holds(p)
    BY <1>9 DEF LeaseExpires, LeaseInv, Holds
  <2>2. lease = [release_id |-> lease.release_id, old |-> lease.old]
    BY DEF TypeOK, Lease
  <2>3. lease.release_id # 0
    BY <2>1, <2>2 DEF LeaseHeld, NoLease, TypeOK, Lease
  <2>. QED  BY <2>1, <2>3 DEF LeaseHeld
<1>10. ASSUME NEW p \in Executor, crashes = 0,
              \/ mark_stale(p) \/ decide(p) \/ revoke_commit(p) \/ execute_plan(p)
              \/ consume_read(p) \/ consume_commit(p) \/ run_record(p)
       PROVE  LeaseHeld'
  BY <1>3, <1>10
     DEF mark_stale, decide, revoke_commit, execute_plan, consume_read, consume_commit,
         run_record, tables, Holds, Locked, PC
<1>11. ASSUME NEW p \in Executor, crashes = 0, NEW c \in Call,
              proc' = [proc EXCEPT ![p] = c], lease' = lease,
              Holds(p), c.pc \in Locked, c.approval = proc[p].approval
       PROVE  LeaseHeld'
  BY <1>11, HoldersKept DEF LeaseInv, Locked
<1>12. ASSUME NEW p \in Executor, crashes = 0, run_start(p) \/ run_end(p)
       PROVE  LeaseHeld'
  <2>1. lease' = lease /\ Holds(p) /\ proc[p] \in Call
    BY <1>12 DEF run_start, run_end, Holds, Locked, TypeOK
  <2>2. CASE Moves(p, "over")
    BY <1>3, <1>12, <2>1, <2>2 DEF Locked, PC
  <2>3. CASE \E c \in Call : /\ proc' = [proc EXCEPT ![p] = c]
                             /\ c.pc \in Locked /\ c.approval = proc[p].approval
    BY <1>11, <1>12, <2>1, <2>3
  <2>4. ASSUME NEW n \in Nat, NEW pc \in {"running", "over"},
               Enters(p, [proc[p] EXCEPT !.pc = pc, !.release = n])
        PROVE  LeaseHeld'
    <3>. DEFINE c == [proc[p] EXCEPT !.pc = pc, !.release = n]
    <3>1. c \in Call /\ c.pc = pc /\ c.approval = proc[p].approval
      BY <2>1, <2>4 DEF Call, PC
    <3>2. proc' = [proc EXCEPT ![p] = c] /\ c.pc \in Locked
      BY <2>4, <3>1 DEF Enters, Locked
    <3>. HIDE DEF c
    <3>. QED  BY <2>3, <3>1, <3>2
  <2>5. CASE run_start(p)
    <3>1. CASE Enters(p, [proc[p] EXCEPT !.pc = "running", !.release = Len(releases')])
               /\ Len(releases') \in Nat
      BY <2>4, <3>1
    <3>2. Len(Append(releases, [approval |-> proc[p].approval, by |-> proc[p].who,
                                status |-> "started"])) \in Nat
      BY DEF TypeOK
    <3>. QED  BY <2>2, <2>5, <3>1, <3>2 DEF run_start
  <2>6. CASE run_end(p)
    <3>1. PICK raised \in BOOLEAN :
              Enters(p, [proc[p] EXCEPT !.pc = "over", !.release = IF raised THEN 0 ELSE @])
      BY <2>6 DEF run_end
    <3>. DEFINE n == IF raised THEN 0 ELSE proc[p].release
    <3>2. n \in Nat
      BY <2>1 DEF Call
    <3>3. Enters(p, [proc[p] EXCEPT !.pc = "over", !.release = n])
      BY <3>1
    <3>. HIDE DEF n
    <3>. QED  BY <2>4, <3>2, <3>3
  <2>. QED  BY <1>12, <2>5, <2>6
<1>13. ASSUME NEW p \in Executor, crashes = 0, ~Holds(p), lease' = lease,
              NEW c, proc' = [proc EXCEPT ![p] = c],
              c.pc \in {"decide", "stale", "revoke", "plan"}
       PROVE  LeaseHeld'
  BY <1>4, <1>13 DEF Locked
<1>14. ASSUME NEW p \in Executor, crashes = 0, NEW r \in DOMAIN requests, NEW who \in Identity,
              NEW d \in {"approve", "reject"}, approve_request(p, r, who, d)
       PROVE  LeaseHeld'
  <2>. DEFINE s == IF plan = requests[r].fingerprint THEN "decide" ELSE "stale"
              c == [Idle EXCEPT !.who = who, !.request = r, !.decision = d, !.pc = s]
  <2>1. s \in {"decide", "stale"}
    OBVIOUS
  <2>2. proc' = [proc EXCEPT ![p] = c] /\ ~Holds(p) /\ lease' = lease
    BY <1>14 DEF approve_request, Enters, Holds, Locked, tables
  <2>. HIDE DEF s
  <2>3. c.pc = s
    BY IdleOK DEF Call
  <2>. HIDE DEF c
  <2>. QED  BY <1>13, <1>14, <2>1, <2>2, <2>3
<1>15. ASSUME NEW p \in Executor, crashes = 0, NEW i \in DOMAIN approvals, revoke_read(p, i)
       PROVE  LeaseHeld'
  <2>. DEFINE c == [Idle EXCEPT !.pc = "revoke", !.approval = i]
  <2>1. proc' = [proc EXCEPT ![p] = c] /\ ~Holds(p) /\ lease' = lease
    BY <1>15 DEF revoke_read, Enters, Holds, Locked, tables
  <2>2. c.pc = "revoke"
    BY IdleOK DEF Call
  <2>. HIDE DEF c
  <2>. QED  BY <1>13, <1>15, <2>1, <2>2
<1>16. ASSUME NEW p \in Executor, crashes = 0, NEW i \in DOMAIN approvals,
              NEW who \in Identity, execute_read(p, i, who)
       PROVE  LeaseHeld'
  <2>. DEFINE c == [Idle EXCEPT !.pc = "plan", !.who = who, !.approval = i]
  <2>1. proc' = [proc EXCEPT ![p] = c] /\ ~Holds(p) /\ lease' = lease
    BY <1>16 DEF execute_read, Enters, Holds, Locked, tables
  <2>2. c.pc = "plan"
    BY IdleOK DEF Call
  <2>. HIDE DEF c
  <2>. QED  BY <1>13, <1>16, <2>1, <2>2
<1>17. crashes = 0 \/ \E p \in Executor : Crash(p)
  BY DEF Next, Decide, Revoke, Execute, request, approve, approve_request, mark_stale,
         decide, revoke_read, revoke_commit, execute_read, execute_plan, acquire_read,
         acquire_commit, consume_read, consume_commit, run_start, run_end, run_record,
         release_read, release_commit, ApprovalExpires, LeaseExpires, PlanChanges, vars
<1>18. CASE \/ \E p \in Executor, who \in Identity : request(p, who)
            \/ \E p \in Executor, who \in Identity, d \in {"approve", "reject"} :
                   approve(p, who, d)
            \/ \E i \in DOMAIN approvals : ApprovalExpires(i)
            \/ PlanChanges \/ UNCHANGED vars
  BY <1>1, <1>2, <1>17, <1>18 DEF request, approve, ApprovalExpires, PlanChanges, vars, tables
<1>. QED
  BY <1>1, <1>5, <1>6, <1>7, <1>8, <1>9, <1>10, <1>12, <1>14, <1>15, <1>16, <1>17, <1>18
     DEF Next, Decide, Revoke, Execute

LEMMA LeaseInit == ASSUME Init PROVE LeaseInv
  BY IdleOK DEF Init, LeaseInv, LeaseHeld, OneReleaseAtATime, Holds, Locked, NoLease

\* One release at a time, for every number of processes and approvals: as long as no
\* process died, and none overruns the age of its lease.
THEOREM Exclusive == Timely /\ Spec => []LeaseExclusive
<1>. SUFFICES ASSUME Timely PROVE Spec => []LeaseExclusive
  OBVIOUS
<1>1. Init => LeaseInv
  BY LeaseInit
<1>2. TypeOK /\ LeaseInv /\ [Next]_vars => LeaseInv'
  BY LeaseStep
<1>3. LeaseInv => LeaseExclusive
  BY DEF LeaseInv, LeaseHeld, LeaseExclusive
<1>. QED  BY <1>1, <1>2, <1>3, TypeCorrect, PTL DEF Spec

----------------------------------------------------------------------------
(* What a row keeps for good: an approval its author, its request and its  *)
(* fingerprint, a request its author and its fingerprint, a release its    *)
(* approval and its executor.                                              *)

LEMMA ApprovalsKept ==
    ASSUME TypeOK, [Next]_vars, NEW i \in DOMAIN approvals
    PROVE  /\ i \in DOMAIN approvals'
           /\ approvals'[i].by = approvals[i].by
           /\ approvals'[i].request = approvals[i].request
           /\ approvals'[i].fingerprint = approvals[i].fingerprint
           /\ \/ approvals'[i].consumed = approvals[i].consumed
              \/ \E p \in Executor : consume_commit(p) /\ i = proc[p].approval
<1>0. approvals \in Seq(Approval) /\ approvals[i] \in Approval
  BY DEF TypeOK
<1>1. CASE approvals' = approvals
  BY <1>1
<1>2. ASSUME NEW a, approvals' = Append(approvals, a)
      PROVE  i \in DOMAIN approvals' /\ approvals'[i] = approvals[i]
  BY <1>0, <1>2
<1>3. ASSUME NEW p \in Executor, NEW who, NEW d, approve(p, who, d)
      PROVE  i \in DOMAIN approvals' /\ approvals'[i] = approvals[i]
  BY <1>2, <1>3 DEF approve
<1>4. ASSUME NEW p \in Executor, decide(p)
      PROVE  i \in DOMAIN approvals' /\ approvals'[i] = approvals[i]
  BY <1>2, <1>4 DEF decide
<1>5. ASSUME NEW k, approvals' = [approvals EXCEPT ![k].decision = "revoked"]
      PROVE  /\ i \in DOMAIN approvals'
             /\ \/ approvals'[i] = approvals[i]
                \/ approvals'[i] = [approvals[i] EXCEPT !.decision = "revoked"]
  BY <1>5
<1>6. ASSUME NEW k, approvals' = [approvals EXCEPT ![k].expired = TRUE]
      PROVE  /\ i \in DOMAIN approvals'
             /\ \/ approvals'[i] = approvals[i]
                \/ approvals'[i] = [approvals[i] EXCEPT !.expired = TRUE]
  BY <1>6
<1>7. ASSUME NEW k, approvals' = [approvals EXCEPT ![k].consumed = TRUE]
      PROVE  /\ i \in DOMAIN approvals'
             /\ \/ approvals'[i] = approvals[i]
                \/ i = k /\ approvals'[i] = [approvals[i] EXCEPT !.consumed = TRUE]
  BY <1>7
<1>8. ASSUME NEW p \in Executor, revoke_commit(p)
      PROVE  i \in DOMAIN approvals' /\ (\/ approvals'[i] = approvals[i]
                \/ approvals'[i] = [approvals[i] EXCEPT !.decision = "revoked"])
  BY <1>5, <1>8 DEF revoke_commit
<1>9. ASSUME NEW k \in DOMAIN approvals, ApprovalExpires(k)
      PROVE  i \in DOMAIN approvals' /\ (\/ approvals'[i] = approvals[i]
                \/ approvals'[i] = [approvals[i] EXCEPT !.expired = TRUE])
  BY <1>6, <1>9 DEF ApprovalExpires
<1>10. ASSUME NEW p \in Executor, consume_commit(p)
       PROVE  i \in DOMAIN approvals' /\ (\/ approvals'[i] = approvals[i]
                \/ /\ i = proc[p].approval
                   /\ approvals'[i] = [approvals[i] EXCEPT !.consumed = TRUE])
  BY <1>7, <1>10 DEF consume_commit
<1>11. ASSUME i \in DOMAIN approvals',
              \/ approvals'[i] = approvals[i]
              \/ approvals'[i] = [approvals[i] EXCEPT !.decision = "revoked"]
              \/ approvals'[i] = [approvals[i] EXCEPT !.expired = TRUE]
       PROVE  /\ approvals'[i].by = approvals[i].by
              /\ approvals'[i].request = approvals[i].request
              /\ approvals'[i].fingerprint = approvals[i].fingerprint
              /\ approvals'[i].consumed = approvals[i].consumed
  BY <1>0, <1>11 DEF Approval
<1>12. ASSUME approvals'[i] = [approvals[i] EXCEPT !.consumed = TRUE]
       PROVE  /\ approvals'[i].by = approvals[i].by
              /\ approvals'[i].request = approvals[i].request
              /\ approvals'[i].fingerprint = approvals[i].fingerprint
  BY <1>0, <1>12 DEF Approval
<1>13. \/ approvals' = approvals
       \/ \E p \in Executor :
              \/ \E who \in Identity, d \in {"approve", "reject"} : approve(p, who, d)
              \/ decide(p) \/ revoke_commit(p) \/ consume_commit(p)
       \/ \E k \in DOMAIN approvals : ApprovalExpires(k)
  BY DEF Next, Decide, Revoke, Execute, request, approve_request, mark_stale,
         revoke_read, execute_read, execute_plan, acquire_read,
         acquire_commit, consume_read, run_start, run_end, run_record,
         release_read, release_commit, LeaseExpires, PlanChanges, Crash, vars, tables
<1>. QED  BY <1>1, <1>3, <1>4, <1>8, <1>9, <1>10, <1>11, <1>12, <1>13

LEMMA RequestsKept ==
    ASSUME TypeOK, [Next]_vars, NEW r \in DOMAIN requests
    PROVE  /\ r \in DOMAIN requests'
           /\ requests'[r].by = requests[r].by
           /\ requests'[r].fingerprint = requests[r].fingerprint
<1>0. requests \in Seq(Request) /\ requests[r] \in Request
  BY DEF TypeOK
<1>1. ASSUME NEW row, requests' = Append(requests, row)
      PROVE  r \in DOMAIN requests' /\ requests'[r] = requests[r]
  BY <1>0, <1>1
<1>2. ASSUME r \in DOMAIN requests',
             \/ requests'[r] = requests[r]
             \/ \E s \in RequestStatus : requests'[r] = [requests[r] EXCEPT !.status = s]
      PROVE  /\ requests'[r].by = requests[r].by
             /\ requests'[r].fingerprint = requests[r].fingerprint
  <2>1. ASSUME NEW s \in RequestStatus, requests'[r] = [requests[r] EXCEPT !.status = s]
        PROVE  /\ requests'[r].by = requests[r].by
               /\ requests'[r].fingerprint = requests[r].fingerprint
    BY <1>0, <2>1, RequestColumn
  <2>. QED  BY <1>2, <2>1
<1>3. ASSUME NEW p \in Executor, NEW who, request(p, who)
      PROVE  r \in DOMAIN requests' /\ requests'[r] = requests[r]
  BY <1>1, <1>3 DEF request
<1>4. ASSUME NEW k, NEW s \in RequestStatus, requests' = [requests EXCEPT ![k].status = s]
      PROVE  /\ r \in DOMAIN requests'
             /\ \/ requests'[r] = requests[r]
                \/ requests'[r] = [requests[r] EXCEPT !.status = s]
  BY <1>4
<1>5. ASSUME NEW k, NEW s \in RequestStatus,
             requests' = [q \in DOMAIN requests |->
                             IF q = k THEN [requests[q] EXCEPT !.status = s] ELSE requests[q]]
      PROVE  /\ r \in DOMAIN requests'
             /\ \/ requests'[r] = requests[r]
                \/ requests'[r] = [requests[r] EXCEPT !.status = s]
  BY <1>5
<1>. DEFINE Kept == /\ r \in DOMAIN requests'
                    /\ \/ requests'[r] = requests[r]
                       \/ \E s \in RequestStatus : requests'[r] = [requests[r] EXCEPT !.status = s]
<1>s. {"approved", "rejected", "revoked", "executing", "completed", "failed"} \subseteq RequestStatus
  BY DEF RequestStatus
<1>6. ASSUME NEW p \in Executor, mark_stale(p)
      PROVE  Kept
  <2>. DEFINE k == proc[p].request
              s == IF requests[k].status = "pending" THEN "stale" ELSE requests[k].status
  <2>1. /\ k \in DOMAIN requests
        /\ requests' = [requests EXCEPT ![k].status = IF @ = "pending" THEN "stale" ELSE @]
    BY <1>6 DEF mark_stale, TypeOK, CallOK
  <2>2. requests[k] \in Request
    BY <2>1 DEF TypeOK
  <2>3. s \in RequestStatus
    BY <2>2 DEF Request, RequestStatus
  <2>4. requests' = [requests EXCEPT ![k].status = s]
    BY <2>1
  <2>. HIDE DEF s, k
  <2>. QED  BY <1>4, <2>3, <2>4
<1>7. ASSUME NEW p \in Executor, decide(p)
      PROVE  Kept
  <2>. DEFINE k == proc[p].request
              s == IF proc[p].decision = "approve" THEN "approved" ELSE "rejected"
  <2>1. CASE Pending(k)
    <3>1. requests' = [requests EXCEPT ![k].status = s] /\ s \in RequestStatus
      BY <1>7, <2>1, <1>s DEF decide
    <3>. HIDE DEF s, k
    <3>. QED  BY <1>4, <3>1
  <2>2. CASE ~Pending(k)
    BY <1>7, <2>2 DEF decide
  <2>. QED  BY <2>1, <2>2
<1>8. ASSUME NEW p \in Executor, revoke_commit(p)
      PROVE  Kept
  BY <1>5, <1>8, <1>s DEF revoke_commit
<1>9. ASSUME NEW p \in Executor, NEW s \in RequestStatus, requests' = SetRequestStatus(p, s)
      PROVE  Kept
  BY <1>5, <1>9 DEF SetRequestStatus
<1>10. ASSUME NEW p \in Executor, run_start(p) \/ run_record(p)
       PROVE  Kept
  BY <1>9, <1>10, <1>s DEF run_start, run_record, Outcome
<1>11. \/ requests' = requests
       \/ \E p \in Executor :
              \/ \E who \in Identity : request(p, who)
              \/ mark_stale(p) \/ decide(p) \/ revoke_commit(p) \/ run_start(p) \/ run_record(p)
  BY DEF Next, Decide, Revoke, Execute, approve, approve_request, revoke_read,
         execute_read, execute_plan, acquire_read, acquire_commit, consume_read,
         consume_commit, run_end, release_read, release_commit, ApprovalExpires,
         LeaseExpires, PlanChanges, Crash, vars, tables
<1>. QED  BY <1>2, <1>3, <1>6, <1>7, <1>8, <1>10, <1>11

LEMMA ReleasesKept ==
    ASSUME TypeOK, [Next]_vars, NEW i \in DOMAIN releases
    PROVE  /\ i \in DOMAIN releases'
           /\ releases'[i].approval = releases[i].approval
           /\ releases'[i].by = releases[i].by
<1>0. releases \in Seq(Release) /\ releases[i] \in Release
  BY DEF TypeOK
<1>1. ASSUME NEW p \in Executor, run_start(p)
      PROVE  i \in DOMAIN releases' /\ releases'[i] = releases[i]
  BY <1>0, <1>1 DEF run_start
<1>2. ASSUME NEW p \in Executor, run_end(p)
      PROVE  /\ i \in DOMAIN releases'
             /\ releases'[i].approval = releases[i].approval
             /\ releases'[i].by = releases[i].by
  BY <1>0, <1>2 DEF run_end, Release
<1>3. releases' = releases \/ \E p \in Executor : run_start(p) \/ run_end(p)
  BY DEF Next, Decide, Revoke, Execute, request, approve, approve_request, mark_stale,
         decide, revoke_read, revoke_commit, execute_read, execute_plan, acquire_read,
         acquire_commit, consume_read, consume_commit, run_record, release_read,
         release_commit, ApprovalExpires, LeaseExpires, PlanChanges, Crash, vars, tables
<1>. QED  BY <1>1, <1>2, <1>3

----------------------------------------------------------------------------
(* An approval is good for one release: the executor that holds the lease   *)
(* is alone between its test of consumed_at and the start of its release,  *)
(* and after that the approval is consumed.                                *)

\* What is known of the approvals that were spent or are being spent.
Spent ==
    /\ \A i \in DOMAIN releases : approvals[releases[i].approval].consumed
    /\ \A i, j \in DOMAIN releases : releases[i].approval = releases[j].approval => i = j
    /\ \A p \in Executor :
           /\ proc[p].pc = "consumed" => ~approvals[proc[p].approval].consumed
           /\ proc[p].pc = "executing" =>
                  /\ approvals[proc[p].approval].consumed
                  /\ \A i \in DOMAIN releases : releases[i].approval # proc[p].approval

SpentInv == crashes = 0 => Spent

\* Where the calls are that spend an approval.
Spending == {"consumed", "executing"}

\* A step that consumes nothing, starts no release and sets out to do neither.
LEMMA SpentKept ==
    ASSUME TypeOK, Spent, [Next]_vars,
           DOMAIN releases' = DOMAIN releases,
           \A p \in Executor : proc'[p].pc \in Spending =>
               proc'[p].pc = proc[p].pc /\ proc'[p].approval = proc[p].approval
    PROVE  Spent'
<1>0. \A p \in Executor : ~consume_commit(p)
  BY DEF consume_commit, Moves, Spending, TypeOK, Call
<1>1. \A i \in DOMAIN approvals : approvals'[i].consumed = approvals[i].consumed
  BY <1>0, ApprovalsKept
<1>2. \A i \in DOMAIN releases : releases'[i].approval = releases[i].approval
  BY ReleasesKept
<1>3. \A i \in DOMAIN releases : releases[i].approval \in DOMAIN approvals
  BY DEF TypeOK
<1>4. \A p \in Executor : proc[p].pc \in Spending => proc[p].approval \in DOMAIN approvals
  BY DEF TypeOK, CallOK, Spending
<1>. QED  BY <1>1, <1>2, <1>3, <1>4 DEF Spent, Spending

\* The same for a step of one process.
LEMMA SpentCall ==
    ASSUME TypeOK, NEW p \in Executor,
           \/ Returns(p)
           \/ \E pc \in PC \ Spending : Moves(p, pc)
           \/ \E c : Enters(p, c) /\ c.pc \notin Spending
    PROVE  \A q \in Executor : proc'[q].pc \in Spending =>
               proc'[q].pc = proc[q].pc /\ proc'[q].approval = proc[q].approval
<1>1. \A q \in Executor : proc[q] \in Call
  BY DEF TypeOK
<1>2. CASE Returns(p)
  BY <1>2, IdleOK DEF Returns, Enters, TypeOK, Spending
<1>3. CASE \E pc \in PC \ Spending : Moves(p, pc)
  BY <1>1, <1>3 DEF Moves, TypeOK, Call
<1>4. CASE \E c : Enters(p, c) /\ c.pc \notin Spending
  BY <1>4 DEF Enters, TypeOK
<1>. QED  BY <1>2, <1>3, <1>4

LEMMA SpentStep ==
    ASSUME Timely, TypeOK, LeaseInv, SpentInv, [Next]_vars
    PROVE  SpentInv'
<1>. SUFFICES ASSUME crashes' = 0 PROVE Spent'
  BY DEF SpentInv
<1>1. CASE \E p \in Executor : Crash(p)
  BY <1>1 DEF Crash, TypeOK
<1>2. CASE ~\E p \in Executor : Crash(p)
  <2>1. crashes = 0
    BY <1>2
       DEF Next, Decide, Revoke, Execute, request, approve, approve_request, mark_stale,
           decide, revoke_read, revoke_commit, execute_read, execute_plan, acquire_read,
           acquire_commit, consume_read, consume_commit, run_start, run_end, run_record,
           release_read, release_commit, ApprovalExpires, LeaseExpires, PlanChanges, vars
  <2>2. Spent /\ LeaseHeld
    BY <2>1 DEF SpentInv, LeaseInv
  <2>3. ASSUME NEW p \in Executor, consume_read(p)
        PROVE  Spent'
    <3>1. /\ UNCHANGED <<approvals, releases>>
          /\ proc[p] \in Call
          /\ \A q \in Executor : q # p => proc'[q] = proc[q]
      BY <2>3 DEF consume_read, Moves, tables, TypeOK
    <3>2. /\ proc'[p].pc \in {"unlock", "consumed"}
          /\ proc'[p].approval = proc[p].approval
          /\ proc'[p].pc = "consumed" => ~approvals[proc[p].approval].consumed
      BY <2>3, <3>1 DEF consume_read, Moves, Consumed, Call, TypeOK
    <3>. QED  BY <2>2, <3>1, <3>2 DEF Spent
  <2>4. ASSUME NEW p \in Executor, consume_commit(p)
        PROVE  Spent'
    <3>. DEFINE i == proc[p].approval
    <3>1. /\ proc[p].pc = "consumed" /\ releases' = releases /\ proc[p] \in Call
          /\ approvals' = [approvals EXCEPT ![i].consumed = TRUE]
          /\ Moves(p, "executing")
          /\ i \in DOMAIN approvals
      BY <2>4 DEF consume_commit, TypeOK, CallOK
    <3>2. /\ proc'[p].pc = "executing" /\ proc'[p].approval = i
          /\ \A q \in Executor : q # p => proc'[q] = proc[q]
      BY <3>1 DEF Moves, Call, TypeOK
    <3>3. \A q \in Executor : q # p => proc[q].pc \notin Spending
      BY <2>2, <3>1 DEF LeaseHeld, OneReleaseAtATime, Spending, Locked
    <3>4. approvals[i] \in Approval /\ ~approvals[i].consumed
      BY <2>2, <3>1 DEF TypeOK, Spent
    <3>5. /\ approvals'[i].consumed
          /\ \A k \in DOMAIN approvals : k # i => approvals'[k] = approvals[k]
      BY <3>1, <3>4 DEF Approval
    <3>6. \A k \in DOMAIN releases : releases[k].approval \in DOMAIN approvals
                                   /\ releases[k].approval # i
      BY <2>2, <3>4 DEF TypeOK, Spent
    <3>. HIDE DEF i
    <3>. QED  BY <2>2, <3>1, <3>2, <3>3, <3>5, <3>6 DEF Spent, Spending
  <2>5. ASSUME NEW p \in Executor, run_start(p), ~Moves(p, "over")
        PROVE  Spent'
    <3>. DEFINE i == proc[p].approval
                row == [approval |-> i, by |-> proc[p].who, status |-> "started"]
    <3>1. /\ proc[p].pc = "executing" /\ approvals' = approvals /\ proc[p] \in Call
          /\ releases' = Append(releases, row)
          /\ Enters(p, [proc[p] EXCEPT !.pc = "running", !.release = Len(releases')])
          /\ i \in DOMAIN approvals
      BY <2>5 DEF run_start, TypeOK, CallOK
    <3>2. /\ proc'[p].pc = "running"
          /\ \A q \in Executor : q # p => proc'[q] = proc[q]
      BY <3>1 DEF Enters, Call, TypeOK
    <3>3. \A q \in Executor : q # p => proc[q].pc \notin Spending
      BY <2>2, <3>1 DEF LeaseHeld, OneReleaseAtATime, Spending, Locked
    <3>4. /\ approvals[i].consumed
          /\ \A k \in DOMAIN releases : releases[k].approval # i
      BY <2>2, <3>1 DEF Spent
    <3>5. row.approval = i
      OBVIOUS
    <3>. HIDE DEF row
    <3>6. /\ DOMAIN releases' = DOMAIN releases \cup {Len(releases) + 1}
          /\ \A k \in DOMAIN releases : releases'[k] = releases[k]
          /\ releases'[Len(releases) + 1].approval = i
      BY <3>1, <3>5 DEF TypeOK
    <3>. HIDE DEF i
    <3>. QED  BY <2>2, <3>1, <3>2, <3>3, <3>4, <3>6 DEF Spent, Spending
  <2>6. ASSUME DOMAIN releases' = DOMAIN releases,
               \/ proc' = proc
               \/ \E p \in Executor :
                     \/ Returns(p)
                     \/ \E pc \in PC \ Spending : Moves(p, pc)
                     \/ \E c : Enters(p, c) /\ c.pc \notin Spending
        PROVE  Spent'
    BY <2>2, <2>6, SpentCall, SpentKept
  <2>7. ASSUME NEW p \in Executor, NEW who \in Identity, NEW d \in {"approve", "reject"},
               NEW r \in DOMAIN requests, approve_request(p, r, who, d)
        PROVE  Spent'
    <3>. DEFINE s == IF plan = requests[r].fingerprint THEN "decide" ELSE "stale"
                c == [Idle EXCEPT !.who = who, !.request = r, !.decision = d, !.pc = s]
    <3>1. c.pc = s /\ s \notin Spending
      BY IdleOK DEF Call, Spending
    <3>2. Enters(p, c) /\ releases' = releases
      BY <2>7 DEF approve_request, tables
    <3>. HIDE DEF s, c
    <3>. QED  BY <2>6, <3>1, <3>2
  <2>8. ASSUME NEW p \in Executor, NEW i \in DOMAIN approvals, revoke_read(p, i)
        PROVE  Spent'
    <3>. DEFINE c == [Idle EXCEPT !.pc = "revoke", !.approval = i]
    <3>1. c.pc = "revoke"
      BY IdleOK DEF Call
    <3>2. Enters(p, c) /\ releases' = releases
      BY <2>8 DEF revoke_read, tables
    <3>. HIDE DEF c
    <3>. QED  BY <2>6, <3>1, <3>2 DEF Spending
  <2>9. ASSUME NEW p \in Executor, NEW i \in DOMAIN approvals, NEW who \in Identity,
               execute_read(p, i, who)
        PROVE  Spent'
    <3>. DEFINE c == [Idle EXCEPT !.pc = "plan", !.who = who, !.approval = i]
    <3>1. c.pc = "plan"
      BY IdleOK DEF Call
    <3>2. Enters(p, c) /\ releases' = releases
      BY <2>9 DEF execute_read, tables
    <3>. HIDE DEF c
    <3>. QED  BY <2>6, <3>1, <3>2 DEF Spending
  <2>10. ASSUME NEW p \in Executor, run_end(p)
         PROVE  Spent'
    <3>1. PICK raised \in BOOLEAN :
              Enters(p, [proc[p] EXCEPT !.pc = "over", !.release = IF raised THEN 0 ELSE @])
      BY <2>10 DEF run_end
    <3>. DEFINE c == [proc[p] EXCEPT !.pc = "over", !.release = IF raised THEN 0 ELSE @]
    <3>2. proc[p] \in Call
      BY DEF TypeOK
    <3>3. c.pc = "over"
      BY <3>2 DEF Call
    <3>4. DOMAIN releases' = DOMAIN releases
      BY <2>10 DEF run_end
    <3>. HIDE DEF c
    <3>. QED  BY <2>6, <3>1, <3>3, <3>4 DEF Spending, c
  <2>11. ASSUME NEW p \in Executor,
                \/ mark_stale(p) \/ decide(p) \/ revoke_commit(p)
                \/ execute_plan(p) \/ acquire_read(p) \/ acquire_commit(p)
                \/ (run_start(p) /\ Moves(p, "over")) \/ run_record(p)
                \/ release_read(p) \/ release_commit(p)
         PROVE  Spent'
    <3>1. \/ Returns(p)
          \/ \E pc \in {"acquire", "insert", "takeover", "consume", "over", "unlock", "delete"} :
                 Moves(p, pc)
      BY <2>11
         DEF mark_stale, decide, revoke_commit, execute_plan, acquire_read, acquire_commit,
             run_record, release_read, release_commit
    <3>2. DOMAIN releases' = DOMAIN releases
      <4>1. CASE run_start(p) /\ Moves(p, "over")
        <5>. DEFINE c == [proc[p] EXCEPT !.pc = "running", !.release = Len(releases')]
        <5>0. proc[p] \in Call
          BY DEF TypeOK
        <5>1. proc'[p].pc = "over"
          BY <4>1, <5>0 DEF Moves, TypeOK, Call
        <5>2. c.pc = "running"
          BY <5>0 DEF Call
        <5>. HIDE DEF c
        <5>3. ~Enters(p, c)
          BY <5>1, <5>2 DEF Enters, TypeOK
        <5>. QED  BY <4>1, <5>3 DEF run_start, c
      <4>. QED
        BY <2>11, <4>1
           DEF mark_stale, decide, revoke_commit, execute_plan, acquire_read, acquire_commit,
               run_record, release_read, release_commit, tables
    <3>3. \A pc \in {"acquire", "insert", "takeover", "consume", "over", "unlock", "delete"} :
              pc \in PC \ Spending
      BY DEF PC, Spending
    <3>. QED  BY <2>6, <3>1, <3>2, <3>3
  <2>12. \/ proc' = proc /\ releases' = releases
         \/ \E p \in Executor :
                \/ \E r \in DOMAIN requests, who \in Identity, d \in {"approve", "reject"} :
                       approve_request(p, r, who, d)
                \/ \E i \in DOMAIN approvals : revoke_read(p, i)
                \/ \E i \in DOMAIN approvals, who \in Identity : execute_read(p, i, who)
                \/ run_start(p) \/ run_end(p) \/ consume_read(p) \/ consume_commit(p)
                \/ mark_stale(p) \/ decide(p) \/ revoke_commit(p)
                \/ execute_plan(p) \/ acquire_read(p) \/ acquire_commit(p)
                \/ run_record(p) \/ release_read(p) \/ release_commit(p)
    BY <1>2 DEF Next, Decide, Revoke, Execute, request, approve, ApprovalExpires,
                LeaseExpires, PlanChanges, vars, tables
  <2>. QED  BY <2>3, <2>4, <2>5, <2>6, <2>7, <2>8, <2>9, <2>10, <2>11, <2>12
<1>. QED  BY <1>1, <1>2

LEMMA SpentInit == Init => SpentInv
  BY DEF Init, SpentInv, Spent, Idle

\* SingleUse: no approval has two production releases, while no process died with
\* the lease in its hands and none overruns the lease's age.
THEOREM Single == Timely /\ Spec => []SingleUse
<1>. SUFFICES ASSUME Timely PROVE Spec => []SingleUse
  OBVIOUS
<1>1. Init => LeaseInv /\ SpentInv
  BY LeaseInit, SpentInit
<1>2. TypeOK /\ LeaseInv /\ SpentInv /\ [Next]_vars => LeaseInv' /\ SpentInv'
  BY LeaseStep, SpentStep
<1>3. SpentInv => SingleUse
  BY DEF SpentInv, Spent, SingleUse
<1>. QED  BY <1>1, <1>2, <1>3, TypeCorrect, PTL DEF Spec

----------------------------------------------------------------------------
(* The two together: the abstract lock (ReleaseLock) is the row of the     *)
(* lease, and what ran under it are the rows of production_releases.       *)

Lock == INSTANCE ReleaseLock
            WITH holder <- lease.release_id,
                 ran <- {releases[i].approval : i \in DOMAIN releases}

\* The calls that reach the two rows of the lease and of a new release.
LEMMA LockTouched ==
    ASSUME TypeOK, [Next]_vars
    PROVE  \/ \E p \in Executor : acquire_commit(p) \/ release_commit(p) \/ run_start(p)
           \/ /\ lease'.release_id = lease.release_id
              /\ DOMAIN releases' = DOMAIN releases
<1>1. ASSUME LeaseExpires
      PROVE  lease'.release_id = lease.release_id /\ releases' = releases
  BY <1>1 DEF LeaseExpires, TypeOK, Lease
<1>2. ASSUME NEW p \in Executor, run_end(p)
      PROVE  lease' = lease /\ DOMAIN releases' = DOMAIN releases
  BY <1>2 DEF run_end
<1>3. \/ lease' = lease /\ releases' = releases
      \/ LeaseExpires
      \/ \E p \in Executor : run_end(p) \/ acquire_commit(p) \/ release_commit(p) \/ run_start(p)
  BY DEF Next, Decide, Revoke, Execute, request, approve, approve_request, mark_stale,
         decide, revoke_read, revoke_commit, execute_read, execute_plan, acquire_read,
         consume_read, consume_commit, run_record, release_read, ApprovalExpires,
         PlanChanges, Crash, vars, tables
<1>. QED  BY <1>1, <1>2, <1>3

\* A call with the lease is for the approval the row names, and that is the number
\* of an approval.
LEMMA HolderNamed ==
    ASSUME TypeOK, LeaseHeld, NEW p \in Executor, Holds(p)
    PROVE  lease.release_id = proc[p].approval /\ proc[p].approval \in Nat \ {0}
<1>1. Len(approvals) \in Nat /\ proc[p].approval \in 1 .. Len(approvals)
  BY DEF TypeOK, CallOK, Holds, Locked
<1>. QED  BY <1>1 DEF LeaseHeld

\* A step that nobody dies in, or died before, is one of the lock's.
LEMMA LockStep ==
    ASSUME Timely, TypeOK, LeaseInv, SpentInv, crashes = 0, [Next]_vars
    PROVE  [Lock!Next]_<<lease.release_id, {releases[i].approval : i \in DOMAIN releases}>>
<1>. DEFINE ran == {releases[i].approval : i \in DOMAIN releases}
<1>0. LeaseHeld /\ Spent
  BY DEF LeaseInv, SpentInv
<1>1. ASSUME NEW p \in Executor, acquire_commit(p)
      PROVE  Lock!Take \/ UNCHANGED <<lease.release_id, ran>>
  <2>1. proc[p].pc = "insert" /\ releases' = releases
    BY <1>0, <1>1 DEF acquire_commit, LeaseHeld
  <2>2. CASE LeaseTaken
    BY <1>1, <2>1, <2>2 DEF acquire_commit
  <2>3. CASE ~LeaseTaken
    <3>1. lease.release_id = 0
      BY <2>3 DEF LeaseTaken, NoLease
    <3>2. lease'.release_id = proc[p].approval
      BY <1>1, <2>1, <2>3 DEF acquire_commit
    <3>3. Len(approvals) \in Nat /\ proc[p].approval \in 1 .. Len(approvals)
      BY <2>1 DEF TypeOK, CallOK
    <3>. QED  BY <2>1, <3>1, <3>2, <3>3 DEF Lock!Take
  <2>. QED  BY <2>2, <2>3
<1>2. ASSUME NEW p \in Executor, release_commit(p)
      PROVE  Lock!Give
  <2>1. Holds(p) /\ lease'.release_id = 0 /\ releases' = releases
    BY <1>2 DEF release_commit, NoLease, Holds, Locked
  <2>2. lease.release_id # 0
    BY <1>0, <2>1, HolderNamed
  <2>. QED  BY <2>1, <2>2 DEF Lock!Give
<1>3. ASSUME NEW p \in Executor, run_start(p)
      PROVE  Lock!Run \/ UNCHANGED <<lease.release_id, ran>>
  <2>. DEFINE row == [approval |-> proc[p].approval, by |-> proc[p].who, status |-> "started"]
  <2>1. lease' = lease /\ (releases' = releases \/ releases' = Append(releases, row))
    BY <1>3 DEF run_start
  <2>2. CASE releases' = Append(releases, row)
    <3>1. Holds(p) /\ proc[p].pc = "executing"
      BY <1>3 DEF run_start, Holds, Locked
    <3>2. lease.release_id = proc[p].approval /\ lease.release_id # 0
      BY <1>0, <3>1, HolderNamed
    <3>3. lease.release_id \notin ran
      BY <1>0, <3>1, <3>2 DEF Spent
    <3>4. row.approval = proc[p].approval
      OBVIOUS
    <3>. HIDE DEF row
    <3>5. /\ DOMAIN releases' = DOMAIN releases \cup {Len(releases) + 1}
          /\ \A k \in DOMAIN releases : releases'[k] = releases[k]
          /\ releases'[Len(releases) + 1].approval = proc[p].approval
      BY <2>2, <3>4 DEF TypeOK
    <3>6. ran' = ran \cup {lease.release_id}
      BY <3>2, <3>5
    <3>. QED  BY <2>1, <3>2, <3>3, <3>6 DEF Lock!Run
  <2>. QED  BY <2>1, <2>2
<1>4. CASE lease'.release_id = lease.release_id /\ DOMAIN releases' = DOMAIN releases
  <2>1. \A i \in DOMAIN releases : releases'[i].approval = releases[i].approval
    BY ReleasesKept
  <2>2. ran' = ran
    BY <1>4, <2>1
  <2>. QED  BY <1>4, <2>2
<1>. QED  BY <1>1, <1>2, <1>3, <1>4, LockTouched DEF Lock!Next

\* While nobody dies, execute implements the abstract lock: one release has it at a
\* time, and the controller runs for the release that has it, once for each approval.
THEOREM ImplementsLock == Timely /\ Spec /\ [](crashes = 0) => Lock!Spec
<1>. SUFFICES ASSUME Timely PROVE Spec /\ [](crashes = 0) => Lock!Spec
  OBVIOUS
<1>1. Init => LeaseInv /\ SpentInv
  BY LeaseInit, SpentInit
<1>2. TypeOK /\ LeaseInv /\ SpentInv /\ [Next]_vars => LeaseInv' /\ SpentInv'
  BY LeaseStep, SpentStep
<1>3. Init => Lock!Init
  BY DEF Init, Lock!Init, NoLease
<1>4. TypeOK /\ LeaseInv /\ SpentInv /\ crashes = 0 /\ [Next]_vars
      => [Lock!Next]_<<lease.release_id, {releases[i].approval : i \in DOMAIN releases}>>
  BY LockStep
<1>. QED  BY <1>1, <1>2, <1>3, <1>4, TypeCorrect, PTL DEF Spec, Lock!Spec

----------------------------------------------------------------------------
(* Requests and their approvals, however many decide at the same time.     *)

\* What UPDATE ... WHERE status = 'pending' tells apart.
Undecided == {"pending", "stale"}

\* Nothing makes a decided request undecided again.
LEMMA StaysDecided ==
    ASSUME TypeOK, [Next]_vars, NEW r \in DOMAIN requests, requests[r].status \notin Undecided
    PROVE  requests'[r].status \notin Undecided
<1>0. requests \in Seq(Request) /\ requests[r] \in Request
  BY DEF TypeOK
<1>1. ASSUME NEW k, NEW s \in RequestStatus \ Undecided,
             \/ requests' = [requests EXCEPT ![k].status = s]
             \/ requests' = [q \in DOMAIN requests |->
                                IF q = k THEN [requests[q] EXCEPT !.status = s] ELSE requests[q]]
      PROVE  requests'[r].status \notin Undecided
  <2>1. requests'[r] = requests[r] \/ requests'[r] = [requests[r] EXCEPT !.status = s]
    BY <1>1
  <2>2. [requests[r] EXCEPT !.status = s].status = s
    BY <1>0, RequestColumn
  <2>. QED  BY <2>1, <2>2
<1>s. {"approved", "rejected", "revoked", "executing", "completed", "failed"}
          \subseteq RequestStatus \ Undecided
  BY DEF RequestStatus, Undecided
<1>2. ASSUME NEW p \in Executor, mark_stale(p)
      PROVE  requests'[r].status \notin Undecided
  <2>1. requests'[r].status = requests[r].status
    BY <1>0, <1>2 DEF mark_stale, Undecided
  <2>. QED  BY <2>1
<1>3. ASSUME NEW p \in Executor, decide(p)
      PROVE  requests'[r].status \notin Undecided
  <2>. DEFINE k == proc[p].request
              s == IF proc[p].decision = "approve" THEN "approved" ELSE "rejected"
  <2>1. CASE Pending(k)
    <3>1. requests' = [requests EXCEPT ![k].status = s] /\ s \in RequestStatus \ Undecided
      BY <1>3, <2>1, <1>s DEF decide
    <3>. HIDE DEF s, k
    <3>. QED  BY <1>1, <3>1
  <2>2. CASE ~Pending(k)
    BY <1>3, <2>2 DEF decide
  <2>. QED  BY <2>1, <2>2
<1>4. ASSUME NEW p \in Executor, revoke_commit(p)
      PROVE  requests'[r].status \notin Undecided
  BY <1>1, <1>4, <1>s DEF revoke_commit
<1>5. ASSUME NEW p \in Executor, run_start(p) \/ run_record(p)
      PROVE  requests'[r].status \notin Undecided
  BY <1>1, <1>5, <1>s DEF run_start, run_record, SetRequestStatus, Outcome
<1>6. ASSUME NEW p \in Executor, NEW who, request(p, who)
      PROVE  requests'[r].status \notin Undecided
  BY <1>0, <1>6 DEF request
<1>7. \/ requests' = requests
      \/ \E p \in Executor :
             \/ \E who \in Identity : request(p, who)
             \/ mark_stale(p) \/ decide(p) \/ revoke_commit(p) \/ run_start(p) \/ run_record(p)
  BY DEF Next, Decide, Revoke, Execute, approve, approve_request, revoke_read,
         execute_read, execute_plan, acquire_read, acquire_commit, consume_read,
         consume_commit, run_end, release_read, release_commit, ApprovalExpires,
         LeaseExpires, PlanChanges, Crash, vars, tables
<1>. QED  BY <1>2, <1>3, <1>4, <1>5, <1>6, <1>7

\* An approval that a step adds is a direct one, or decides a pending request and
\* binds the plan that was requested.
LEMMA AddedApproval ==
    ASSUME TypeOK, [Next]_vars, NEW i \in DOMAIN approvals' \ DOMAIN approvals
    PROVE  /\ i = Len(approvals) + 1
           /\ \/ approvals'[i].request = 0
              \/ \E r \in DOMAIN requests :
                     /\ Pending(r)
                     /\ requests'[r].status \notin Undecided
                     /\ approvals'[i].request = r
                     /\ approvals'[i].fingerprint = requests[r].fingerprint
<1>0. approvals \in Seq(Approval)
  BY DEF TypeOK
<1>1. ASSUME NEW a, approvals' = Append(approvals, a)
      PROVE  i = Len(approvals) + 1 /\ approvals'[i] = a
  BY <1>0, <1>1
<1>2. ASSUME NEW p \in Executor, NEW who, NEW d, approve(p, who, d)
      PROVE  i = Len(approvals) + 1 /\ approvals'[i].request = 0
  BY <1>1, <1>2 DEF approve, NewApproval
<1>3. ASSUME NEW p \in Executor, decide(p)
      PROVE  /\ i = Len(approvals) + 1
             /\ \E r \in DOMAIN requests :
                    /\ Pending(r)
                    /\ requests'[r].status \notin Undecided
                    /\ approvals'[i].request = r
                    /\ approvals'[i].fingerprint = requests[r].fingerprint
  <2>. DEFINE r == proc[p].request
              s == IF proc[p].decision = "approve" THEN "approved" ELSE "rejected"
              a == [NewApproval(proc[p].who, proc[p].decision, r) EXCEPT
                       !.fingerprint = requests[r].fingerprint]
  <2>1. /\ Pending(r)
        /\ requests' = [requests EXCEPT ![r].status = s]
        /\ approvals' = Append(approvals, a)
    BY <1>3 DEF decide
  <2>2. r \in DOMAIN requests /\ requests[r] \in Request
    BY <1>3 DEF decide, TypeOK, CallOK
  <2>3. requests'[r].status = s /\ s \notin Undecided
    BY <2>1, <2>2 DEF Request, Undecided
  <2>4. a.request = r /\ a.fingerprint = requests[r].fingerprint
    BY DEF NewApproval
  <2>5. i = Len(approvals) + 1 /\ approvals'[i] = a
    BY <1>1, <2>1
  <2>. HIDE DEF r, s, a
  <2>. QED  BY <2>1, <2>2, <2>3, <2>4, <2>5
<1>4. ASSUME NEW p \in Executor, revoke_commit(p) \/ consume_commit(p)
      PROVE  DOMAIN approvals' = DOMAIN approvals
  BY <1>4 DEF revoke_commit, consume_commit
<1>5. \/ approvals' = approvals
      \/ \E p \in Executor :
             \/ \E who \in Identity, d \in {"approve", "reject"} : approve(p, who, d)
             \/ decide(p) \/ revoke_commit(p) \/ consume_commit(p)
      \/ \E k \in DOMAIN approvals : ApprovalExpires(k)
  BY DEF Next, Decide, Revoke, Execute, request, approve_request, mark_stale,
         revoke_read, execute_read, execute_plan, acquire_read,
         acquire_commit, consume_read, run_start, run_end, run_record,
         release_read, release_commit, LeaseExpires, PlanChanges, Crash, vars, tables
<1>6. ASSUME NEW k, ApprovalExpires(k)
      PROVE  DOMAIN approvals' = DOMAIN approvals
  BY <1>6 DEF ApprovalExpires
<1>. QED  BY <1>2, <1>3, <1>4, <1>5, <1>6

LEMMA DecidedStep ==
    ASSUME TypeOK, DecidedOnce, [Next]_vars
    PROVE  DecidedOnce'
<1>. DEFINE Decided(i) ==
         LET r == approvals[i].request
         IN  r # 0 => /\ requests[r].status \notin Undecided
                      /\ approvals[i].fingerprint = requests[r].fingerprint
<1>0. /\ \A i \in DOMAIN approvals : Decided(i)
      /\ \A i, j \in DOMAIN approvals :
             approvals[i].request # 0 /\ approvals[j].request = approvals[i].request => i = j
      /\ \A i \in DOMAIN approvals : approvals[i].request # 0 =>
             approvals[i].request \in DOMAIN requests
  BY DEF DecidedOnce, Undecided, TypeOK
<1>1. ASSUME NEW i \in DOMAIN approvals
      PROVE  Decided(i)'
  <2>1. CASE approvals[i].request = 0
    BY <2>1, ApprovalsKept
  <2>2. CASE approvals[i].request # 0
    <3>1. approvals[i].request \in DOMAIN requests /\ Decided(i)
      BY <1>0, <2>2
    <3>. QED  BY <2>2, <3>1, ApprovalsKept, RequestsKept, StaysDecided
  <2>. QED  BY <2>1, <2>2
<1>2. ASSUME NEW i \in DOMAIN approvals' \ DOMAIN approvals, approvals'[i].request # 0
      PROVE  /\ Decided(i)'
             /\ \A j \in DOMAIN approvals : approvals'[j].request # approvals'[i].request
  <2>1. PICK r \in DOMAIN requests :
            /\ Pending(r)
            /\ requests'[r].status \notin Undecided
            /\ approvals'[i].request = r
            /\ approvals'[i].fingerprint = requests[r].fingerprint
    BY <1>2, AddedApproval
  <2>2. Decided(i)'
    BY <2>1, RequestsKept
  <2>3. ASSUME NEW j \in DOMAIN approvals, approvals'[j].request = r
        PROVE  FALSE
    <3>1. approvals[j].request = r
      BY <2>3, ApprovalsKept
    <3>2. r # 0
      BY <1>2, <2>1
    <3>. QED  BY <1>0, <2>1, <3>1, <3>2 DEF Pending, Undecided
  <2>. QED  BY <2>1, <2>2, <2>3
<1>3. \A i \in DOMAIN approvals' : Decided(i)'
  BY <1>1, <1>2
<1>4. ASSUME NEW i \in DOMAIN approvals', NEW j \in DOMAIN approvals',
             approvals'[i].request # 0, approvals'[j].request = approvals'[i].request
      PROVE  i = j
  <2>1. CASE i \in DOMAIN approvals /\ j \in DOMAIN approvals
    BY <1>0, <1>4, <2>1, ApprovalsKept
  <2>2. CASE i \notin DOMAIN approvals /\ j \notin DOMAIN approvals
    BY <2>2, AddedApproval
  <2>. QED  BY <1>2, <1>4, <2>1, <2>2
<1>. QED  BY <1>3, <1>4 DEF DecidedOnce, Undecided

\* A request is decided once, and for the plan that was requested, whoever decides
\* it at the same time, and whatever crashes or expires.
THEOREM OneDecision == Spec => []DecidedOnce
<1>1. Init => DecidedOnce
  BY DEF Init, DecidedOnce
<1>2. TypeOK /\ DecidedOnce /\ [Next]_vars => DecidedOnce'
  BY DecidedStep
<1>. QED  BY <1>1, <1>2, TypeCorrect, PTL DEF Spec

----------------------------------------------------------------------------
(* A call of execute from the test of the approval to the end.             *)

\* The places between the test of an approval and the run on it, and during it.
Preparing == {"plan", "acquire", "insert", "takeover", "consume", "consumed", "executing"}
Afterwards == {"unlock", "delete"}

\* One step of a call: it stands, it is over or about something else, it passes the
\* test, or it goes on about the same approval.
LEMMA CallStep ==
    ASSUME TypeOK, [Next]_vars, NEW p \in Executor
    PROVE  \/ proc'[p] = proc[p]
           \/ proc'[p].pc \notin Executing
           \/ /\ proc'[p].pc = "plan" /\ proc'[p].release = 0
              /\ proc'[p].approval \in DOMAIN approvals
              /\ Executable(proc'[p].approval, proc'[p].who)
           \/ /\ proc[p].pc \in Executing
              /\ proc'[p].approval = proc[p].approval
              /\ proc'[p].who = proc[p].who
              /\ \/ /\ proc[p].pc \in Preparing
                    /\ proc'[p].pc \in Preparing \ {"plan", "executing"}
                    /\ proc'[p].release = proc[p].release
                 \/ /\ consume_commit(p)
                    /\ proc'[p].pc = "executing" /\ proc'[p].release = proc[p].release
                 \/ /\ run_start(p)
                    /\ \/ proc'[p].pc = "over" /\ proc'[p].release = proc[p].release
                       \/ proc'[p].pc = "running"
                 \/ run_end(p) /\ proc'[p].pc = "over"
                 \/ proc'[p].pc \in Afterwards
<1>0. proc[p] \in Call
  BY DEF TypeOK
<1>1. ASSUME NEW q \in Executor \ {p}, NEW c, proc' = [proc EXCEPT ![q] = c]
      PROVE  proc'[p] = proc[p]
  BY <1>1
<1>2. ASSUME NEW q \in Executor \ {p}, NEW pc, Moves(q, pc)
      PROVE  proc'[p] = proc[p]
  BY <1>2 DEF Moves
<1>3. ASSUME NEW q \in Executor \ {p},
             (\E who \in Identity : request(q, who)) \/ Decide(q) \/ Revoke(q)
             \/ Execute(q) \/ Crash(q)
      PROVE  proc'[p] = proc[p]
  BY <1>1, <1>2, <1>3
     DEF Decide, Revoke, Execute, request, approve, approve_request, mark_stale, decide,
         revoke_read, revoke_commit, execute_read, execute_plan, acquire_read,
         acquire_commit, consume_read, consume_commit, run_start, run_end, run_record,
         release_read, release_commit, Crash, Enters, Returns
<1>4. CASE Returns(p)
  BY <1>4, IdleOK DEF Returns, Enters, Executing, TypeOK
<1>5. ASSUME NEW pc, Moves(p, pc)
      PROVE  /\ proc'[p].pc = pc /\ proc'[p].approval = proc[p].approval
             /\ proc'[p].who = proc[p].who /\ proc'[p].release = proc[p].release
  BY <1>0, <1>5 DEF Moves, Call, TypeOK
<1>6. ASSUME NEW r \in DOMAIN requests, NEW who \in Identity, NEW d \in {"approve", "reject"},
             approve_request(p, r, who, d)
      PROVE  proc'[p].pc \notin Executing
  <2>1. proc'[p].pc \in {"decide", "stale"}
    BY <1>6 DEF approve_request, Enters, Idle, TypeOK
  <2>. QED  BY <2>1 DEF Executing
<1>7. ASSUME NEW i \in DOMAIN approvals, revoke_read(p, i)
      PROVE  proc'[p].pc \notin Executing
  <2>1. proc'[p].pc = "revoke"
    BY <1>7 DEF revoke_read, Enters, Idle, TypeOK
  <2>. QED  BY <2>1 DEF Executing
<1>8. ASSUME NEW i \in DOMAIN approvals, NEW who \in Identity, execute_read(p, i, who)
      PROVE  /\ proc'[p].pc = "plan" /\ proc'[p].release = 0
             /\ proc'[p].approval \in DOMAIN approvals
             /\ Executable(proc'[p].approval, proc'[p].who)
  <2>1. /\ proc'[p].pc = "plan" /\ proc'[p].release = 0
        /\ proc'[p].approval = i /\ proc'[p].who = who
    BY <1>8 DEF execute_read, Enters, Idle, TypeOK
  <2>. QED  BY <1>8, <2>1 DEF execute_read
<1>9. ASSUME execute_plan(p) \/ acquire_read(p) \/ acquire_commit(p) \/ consume_read(p)
      PROVE  \/ Returns(p)
             \/ /\ proc[p].pc \in Preparing
                /\ \E pc \in (Preparing \ {"plan", "executing"}) \cup Afterwards : Moves(p, pc)
  BY <1>9 DEF execute_plan, acquire_read, acquire_commit, consume_read, Preparing, Afterwards
<1>10. ASSUME run_record(p) \/ release_read(p) \/ release_commit(p)
       PROVE  \/ Returns(p)
              \/ proc[p].pc \in Executing /\ \E pc \in Afterwards : Moves(p, pc)
  BY <1>10 DEF run_record, release_read, release_commit, Afterwards, Executing, PC
<1>11. ASSUME run_end(p)
       PROVE  /\ proc'[p].pc = "over" /\ proc'[p].approval = proc[p].approval
              /\ proc'[p].who = proc[p].who /\ proc[p].pc \in Executing
  BY <1>0, <1>11 DEF run_end, Enters, Call, TypeOK, Executing, PC
<1>12. ASSUME run_start(p)
       PROVE  /\ proc'[p].approval = proc[p].approval /\ proc'[p].who = proc[p].who
              /\ proc[p].pc \in Executing
              /\ \/ proc'[p].pc = "over" /\ proc'[p].release = proc[p].release
                 \/ proc'[p].pc = "running"
  BY <1>0, <1>5, <1>12 DEF run_start, Enters, Call, TypeOK, Executing, PC
<1>13. ASSUME consume_commit(p)
       PROVE  /\ proc'[p].pc = "executing" /\ proc'[p].approval = proc[p].approval
              /\ proc'[p].who = proc[p].who /\ proc'[p].release = proc[p].release
              /\ proc[p].pc \in Executing
  BY <1>5, <1>13 DEF consume_commit, Executing, PC
<1>14. \/ proc' = proc
       \/ \E q \in Executor : Decide(q) \/ Revoke(q) \/ Execute(q) \/ Crash(q)
  BY DEF Next, request, ApprovalExpires, LeaseExpires, PlanChanges, vars
<1>15. CASE Crash(p) \/ mark_stale(p) \/ decide(p) \/ revoke_commit(p)
  BY <1>4, <1>15 DEF Crash, mark_stale, decide, revoke_commit
<1>16. ASSUME NEW who \in Identity, NEW d \in {"approve", "reject"}, approve(p, who, d)
       PROVE  proc'[p] = proc[p]
  BY <1>16 DEF approve
<1>17. Preparing \subseteq Executing
  BY DEF Preparing, Executing, PC
<1>18. CASE Decide(p)
  BY <1>6, <1>15, <1>16, <1>18 DEF Decide
<1>19. CASE Revoke(p)
  BY <1>7, <1>15, <1>19 DEF Revoke
<1>20. CASE Execute(p)
  <2>1. CASE execute_plan(p) \/ acquire_read(p) \/ acquire_commit(p) \/ consume_read(p)
    BY <1>4, <1>5, <1>9, <1>17, <2>1
  <2>2. CASE run_record(p) \/ release_read(p) \/ release_commit(p)
    BY <1>4, <1>5, <1>10, <2>2
  <2>. QED  BY <1>8, <1>11, <1>12, <1>13, <1>20, <2>1, <2>2 DEF Execute
<1>. QED  BY <1>3, <1>14, <1>15, <1>18, <1>19, <1>20

\* A release that a step adds is that of a call that was about to start it.
LEMMA AddedRelease ==
    ASSUME TypeOK, [Next]_vars, NEW i \in DOMAIN releases' \ DOMAIN releases
    PROVE  \E p \in Executor :
               /\ run_start(p)
               /\ proc[p].pc = "executing"
               /\ i = Len(releases) + 1
               /\ releases'[i] = [approval |-> proc[p].approval, by |-> proc[p].who,
                                  status |-> "started"]
               /\ proc'[p].pc = "running"
               /\ proc'[p].release = i
               /\ \A q \in Executor \ {p} : proc'[q] = proc[q]
<1>0. releases \in Seq(Release) /\ \A p \in Executor : proc[p] \in Call
  BY DEF TypeOK
<1>1. PICK p \in Executor : run_start(p)
  <2>1. ASSUME NEW p \in Executor, run_end(p)
        PROVE  DOMAIN releases' = DOMAIN releases
    BY <2>1 DEF run_end
  <2>2. releases' = releases \/ \E p \in Executor : run_start(p) \/ run_end(p)
    BY DEF Next, Decide, Revoke, Execute, request, approve, approve_request, mark_stale,
           decide, revoke_read, revoke_commit, execute_read, execute_plan, acquire_read,
           acquire_commit, consume_read, consume_commit, run_record, release_read,
           release_commit, ApprovalExpires, LeaseExpires, PlanChanges, Crash, vars, tables
  <2>. QED  BY <2>1, <2>2
<1>. DEFINE row == [approval |-> proc[p].approval, by |-> proc[p].who, status |-> "started"]
<1>2. /\ proc[p].pc = "executing"
      /\ releases' = Append(releases, row)
      /\ Enters(p, [proc[p] EXCEPT !.pc = "running", !.release = Len(releases')])
  BY <1>1 DEF run_start
<1>3. i = Len(releases) + 1 /\ releases'[i] = row /\ Len(releases') = Len(releases) + 1
  <2>. HIDE DEF row
  <2>. QED  BY <1>0, <1>2
<1>4. /\ proc'[p].pc = "running" /\ proc'[p].release = Len(releases')
      /\ \A q \in Executor \ {p} : proc'[q] = proc[q]
  BY <1>0, <1>2 DEF Enters, Call, TypeOK
<1>. QED  BY <1>1, <1>2, <1>3, <1>4

----------------------------------------------------------------------------
(* Two persons.  The test of execute is made once, by a read that is long  *)
(* past when the release starts; TwoPersons holds because nothing it        *)
(* looked at can change: no row ever changes its author or its request.     *)

\* Approval i goes back to a request of somebody else, and who is not its approver, or the
\* approver's stored name is not the approver's.
Independent(i, who) ==
    /\ approvals[i].request # 0
    /\ approvals[i].by # requests[approvals[i].request].by
    /\ Stored[approvals[i].by] = approvals[i].by => approvals[i].by # who

TwoInv ==
    twoPerson =>
        /\ \A p \in Executor :
               proc[p].pc \in Executing => Independent(proc[p].approval, proc[p].who)
        /\ \A i \in DOMAIN releases : Independent(releases[i].approval, releases[i].by)

LEMMA IndependentKept ==
    ASSUME TypeOK, [Next]_vars, NEW i \in DOMAIN approvals, NEW who, Independent(i, who)
    PROVE  /\ approvals'[i].request # 0
           /\ approvals'[i].by # requests'[approvals'[i].request].by
           /\ Stored[approvals'[i].by] = approvals'[i].by => approvals'[i].by # who
<1>1. approvals[i].request \in DOMAIN requests
  BY DEF TypeOK, Independent
<1>. QED  BY <1>1, ApprovalsKept, RequestsKept DEF Independent

LEMMA TwoStep ==
    ASSUME TypeOK, TwoInv, [Next]_vars
    PROVE  TwoInv'
<1>0. twoPerson' = twoPerson
  BY DEF Next, Decide, Revoke, Execute, request, approve, approve_request, mark_stale,
         decide, revoke_read, revoke_commit, execute_read, execute_plan, acquire_read,
         acquire_commit, consume_read, consume_commit, run_start, run_end, run_record,
         release_read, release_commit, ApprovalExpires, LeaseExpires, PlanChanges, Crash, vars
<1>. SUFFICES ASSUME twoPerson
              PROVE  /\ \A p \in Executor : proc'[p].pc \in Executing =>
                                                Independent(proc[p].approval, proc[p].who)'
                     /\ \A i \in DOMAIN releases' :
                            Independent(releases[i].approval, releases[i].by)'
  BY <1>0 DEF TwoInv
<1>1. ASSUME NEW p \in Executor, proc[p].pc \in Executing
      PROVE  /\ proc[p].approval \in DOMAIN approvals
             /\ Independent(proc[p].approval, proc[p].who)
  BY <1>1 DEF TwoInv, TypeOK, CallOK, Executing
<1>2. ASSUME NEW p \in Executor, proc'[p].pc \in Executing
      PROVE  Independent(proc[p].approval, proc[p].who)'
  <2>1. CASE proc'[p] = proc[p]
    BY <1>1, <1>2, <2>1, IndependentKept DEF Independent
  <2>2. CASE /\ proc[p].pc \in Executing
             /\ proc'[p].approval = proc[p].approval /\ proc'[p].who = proc[p].who
    BY <1>1, <2>2, IndependentKept DEF Independent
  <2>3. CASE /\ proc'[p].approval \in DOMAIN approvals
             /\ Executable(proc'[p].approval, proc'[p].who)
    <3>1. Independent(proc'[p].approval, proc'[p].who)
      <4>. DEFINE i == proc'[p].approval
                  who == proc'[p].who
      <4>1. /\ approvals[i].request # 0
            /\ Stored[requests[approvals[i].request].by] # Stored[approvals[i].by]
            /\ who # Stored[approvals[i].by]
        BY <2>3 DEF Executable
      <4>. QED  BY <4>1 DEF Independent
    <3>. QED  BY <2>3, <3>1, IndependentKept DEF Independent
  <2>. QED  BY <1>2, <2>1, <2>2, <2>3, CallStep
<1>3. ASSUME NEW i \in DOMAIN releases
      PROVE  Independent(releases[i].approval, releases[i].by)'
  <2>1. releases[i].approval \in DOMAIN approvals
        /\ Independent(releases[i].approval, releases[i].by)
    BY DEF TwoInv, TypeOK
  <2>. QED  BY <2>1, IndependentKept, ReleasesKept DEF Independent
<1>4. ASSUME NEW i \in DOMAIN releases' \ DOMAIN releases
      PROVE  Independent(releases[i].approval, releases[i].by)'
  <2>1. PICK p \in Executor :
            /\ proc[p].pc = "executing"
            /\ releases'[i] = [approval |-> proc[p].approval, by |-> proc[p].who,
                               status |-> "started"]
    BY AddedRelease
  <2>2. proc[p].pc \in Executing
    BY <2>1 DEF Executing, PC
  <2>3. proc[p].approval \in DOMAIN approvals /\ Independent(proc[p].approval, proc[p].who)
    BY <1>1, <2>2
  <2>4. releases'[i].approval = proc[p].approval /\ releases'[i].by = proc[p].who
    BY <2>1
  <2>. QED  BY <2>3, <2>4, IndependentKept DEF Independent
<1>. QED  BY <1>2, <1>3, <1>4

\* In two-person mode no release goes back to a request by its approver, whatever the rows
\* keep of names: two that are stored differently are of two people.  An approver whose
\* name is stored as it is has not run the release either; of one whose name is redacted
\* or cut that cannot be said, for execute compares the name it is called with.  Neither
\* the age of the lease nor crashes matter.
THEOREM NeverAlone == Spec => []TwoPersons
<1>1. Init => TwoInv
  BY DEF Init, TwoInv, Idle, Executing
<1>2. TypeOK /\ TwoInv /\ [Next]_vars => TwoInv'
  BY TwoStep
<1>3. TwoInv => TwoPersons
  BY DEF TwoInv, TwoPersons, Independent
<1>. QED  BY <1>1, <1>2, <1>3, TypeCorrect, PTL DEF Spec

----------------------------------------------------------------------------
(* What is said of a finished request.                                     *)

\* The calls own their releases: the controller's row is written by the call that
\* started it, and a release is over only when that call says so.
OwnRelease ==
    /\ \A i \in DOMAIN releases : approvals[releases[i].approval].consumed
    /\ \A p \in Executor :
           /\ proc[p].pc \in {"executing", "running", "over"} =>
                  approvals[proc[p].approval].consumed
           /\ proc[p].pc \in Preparing => proc[p].release = 0
           /\ proc[p].pc \in {"running", "over"} /\ proc[p].release # 0 =>
                  releases[proc[p].release].approval = proc[p].approval
           /\ proc[p].pc = "running" => releases[proc[p].release].status = "started"
    /\ \A p, q \in Executor :
           /\ proc[p].pc = "running" /\ proc[q].pc = "running"
           /\ proc[p].release = proc[q].release
           => p = q

LEMMA ConsumedKept ==
    ASSUME TypeOK, [Next]_vars, NEW i \in DOMAIN approvals
    PROVE  /\ approvals[i].consumed => approvals'[i].consumed
           /\ \A p \in Executor : consume_commit(p) /\ i = proc[p].approval =>
                  approvals'[i].consumed
<1>1. ASSUME NEW p \in Executor, consume_commit(p), i = proc[p].approval
      PROVE  approvals'[i].consumed
  <2>1. approvals[i] \in Approval
    BY DEF TypeOK
  <2>. QED  BY <1>1, <2>1 DEF consume_commit, Approval
<1>. QED  BY <1>1, ApprovalsKept

\* A release's outcome is written by the call that runs it.
LEMMA OutcomeStep ==
    ASSUME TypeOK, [Next]_vars, NEW i \in DOMAIN releases
    PROVE  \/ releases'[i] = releases[i]
           \/ \E p \in Executor : proc[p].pc = "running" /\ proc[p].release = i /\ run_end(p)
<1>0. releases \in Seq(Release)
  BY DEF TypeOK
<1>1. ASSUME NEW p \in Executor, run_start(p)
      PROVE  releases'[i] = releases[i]
  BY <1>0, <1>1 DEF run_start
<1>2. ASSUME NEW p \in Executor, run_end(p)
      PROVE  proc[p].pc = "running" /\ (proc[p].release = i \/ releases'[i] = releases[i])
  BY <1>0, <1>2 DEF run_end
<1>3. releases' = releases \/ \E p \in Executor : run_start(p) \/ run_end(p)
  BY DEF Next, Decide, Revoke, Execute, request, approve, approve_request, mark_stale,
         decide, revoke_read, revoke_commit, execute_read, execute_plan, acquire_read,
         acquire_commit, consume_read, consume_commit, run_record, release_read,
         release_commit, ApprovalExpires, LeaseExpires, PlanChanges, Crash, vars, tables
<1>. QED  BY <1>1, <1>2, <1>3

\* Only the call whose release succeeded says that a request is completed.
LEMMA CompletedStep ==
    ASSUME TypeOK, [Next]_vars, NEW r \in DOMAIN requests',
           requests'[r].status = "completed"
    PROVE  \/ r \in DOMAIN requests /\ requests[r].status = "completed"
           \/ \E p \in Executor : /\ run_record(p)
                                  /\ proc[p].pc = "over"
                                  /\ proc[p].release # 0
                                  /\ releases[proc[p].release].status = "succeeded"
                                  /\ r = approvals[proc[p].approval].request
<1>0. requests \in Seq(Request) /\ \A k \in DOMAIN requests : requests[k] \in Request
  BY DEF TypeOK
<1>s. {"approved", "rejected", "revoked", "executing", "completed", "failed"} \subseteq RequestStatus
  BY DEF RequestStatus
<1>1. ASSUME NEW k, NEW s \in RequestStatus,
             \/ requests' = [requests EXCEPT ![k].status = s]
             \/ requests' = [q \in DOMAIN requests |->
                                IF q = k THEN [requests[q] EXCEPT !.status = s] ELSE requests[q]]
      PROVE  /\ r \in DOMAIN requests
             /\ requests[r].status = "completed" \/ (r = k /\ s = "completed")
  <2>1. /\ r \in DOMAIN requests
        /\ \/ requests'[r] = requests[r]
           \/ r = k /\ requests'[r] = [requests[r] EXCEPT !.status = s]
    BY <1>1
  <2>2. [requests[r] EXCEPT !.status = s].status = s
    BY <1>0, <2>1, RequestColumn
  <2>. QED  BY <2>1, <2>2
<1>2. ASSUME NEW p \in Executor, mark_stale(p)
      PROVE  r \in DOMAIN requests /\ requests[r].status = "completed"
  <2>. DEFINE k == proc[p].request
  <2>1. /\ r \in DOMAIN requests /\ requests[r] \in Request
        /\ requests' = [requests EXCEPT ![k].status = IF @ = "pending" THEN "stale" ELSE @]
    BY <1>0, <1>2 DEF mark_stale
  <2>. QED  BY <1>0, <2>1 DEF Request
<1>3. ASSUME NEW p \in Executor, decide(p)
      PROVE  r \in DOMAIN requests /\ requests[r].status = "completed"
  <2>. DEFINE k == proc[p].request
              s == IF proc[p].decision = "approve" THEN "approved" ELSE "rejected"
  <2>1. CASE Pending(k)
    <3>1. requests' = [requests EXCEPT ![k].status = s] /\ s \in RequestStatus /\ s # "completed"
      BY <1>3, <2>1, <1>s DEF decide
    <3>. HIDE DEF s, k
    <3>. QED  BY <1>1, <3>1
  <2>2. CASE ~Pending(k)
    BY <1>3, <2>2 DEF decide
  <2>. QED  BY <2>1, <2>2
<1>4. ASSUME NEW p \in Executor, revoke_commit(p)
      PROVE  r \in DOMAIN requests /\ requests[r].status = "completed"
  BY <1>1, <1>4, <1>s DEF revoke_commit
<1>5. ASSUME NEW p \in Executor, run_start(p)
      PROVE  r \in DOMAIN requests /\ requests[r].status = "completed"
  BY <1>1, <1>5, <1>s DEF run_start, SetRequestStatus
<1>6. ASSUME NEW p \in Executor, run_record(p)
      PROVE  \/ r \in DOMAIN requests /\ requests[r].status = "completed"
             \/ /\ proc[p].pc = "over" /\ proc[p].release # 0
                /\ releases[proc[p].release].status = "succeeded"
                /\ r = approvals[proc[p].approval].request
  <2>1. /\ proc[p].pc = "over" /\ Outcome(p) \in RequestStatus
        /\ requests' = SetRequestStatus(p, Outcome(p))
    BY <1>6, <1>s DEF run_record, Outcome
  <2>2. \/ r \in DOMAIN requests /\ requests[r].status = "completed"
        \/ r = approvals[proc[p].approval].request /\ Outcome(p) = "completed"
    BY <1>1, <2>1 DEF SetRequestStatus
  <2>. QED  BY <2>1, <2>2 DEF Outcome
<1>7. ASSUME NEW p \in Executor, NEW who, request(p, who)
      PROVE  r \in DOMAIN requests /\ requests[r].status = "completed"
  <2>. DEFINE row == [by |-> who, fingerprint |-> plan, status |-> "pending"]
  <2>1. requests' = Append(requests, row) /\ row.status # "completed"
    BY <1>7 DEF request
  <2>. HIDE DEF row
  <2>. QED  BY <1>0, <2>1
<1>8. \/ requests' = requests
      \/ \E p \in Executor :
             \/ \E who \in Identity : request(p, who)
             \/ mark_stale(p) \/ decide(p) \/ revoke_commit(p) \/ run_start(p) \/ run_record(p)
  BY DEF Next, Decide, Revoke, Execute, approve, approve_request, revoke_read,
         execute_read, execute_plan, acquire_read, acquire_commit, consume_read,
         consume_commit, run_end, release_read, release_commit, ApprovalExpires,
         LeaseExpires, PlanChanges, Crash, vars, tables
<1>. QED  BY <1>2, <1>3, <1>4, <1>5, <1>6, <1>7, <1>8
\* A call that starts its release is the only one to do so, and it owns the new row.
LEMMA StartedRelease ==
    ASSUME TypeOK, [Next]_vars, NEW p \in Executor, run_start(p), proc'[p].pc = "running"
    PROVE  /\ proc'[p].release = Len(releases) + 1
           /\ proc'[p].release \in DOMAIN releases'
           /\ releases'[proc'[p].release].approval = proc'[p].approval
           /\ releases'[proc'[p].release].status = "started"
           /\ \A q \in Executor \ {p} : proc'[q] = proc[q]
<1>0. releases \in Seq(Release) /\ proc[p] \in Call /\ proc[p].pc = "executing"
  BY DEF TypeOK, run_start
<1>. DEFINE row == [approval |-> proc[p].approval, by |-> proc[p].who, status |-> "started"]
<1>1. releases' = Append(releases, row)
  <2>1. Moves(p, "over") => proc'[p].pc # "running"
    BY <1>0 DEF Moves, Call, TypeOK
  <2>. QED  BY <2>1 DEF run_start
<1>2. Enters(p, [proc[p] EXCEPT !.pc = "running", !.release = Len(releases')])
      \/ Moves(p, "over")
  BY DEF run_start
<1>3. /\ Len(releases') = Len(releases) + 1
      /\ Len(releases') \in DOMAIN releases'
      /\ releases'[Len(releases')] = row
  <2>. HIDE DEF row
  <2>. QED  BY <1>0, <1>1
<1>4. /\ proc'[p].release = Len(releases') /\ proc'[p].approval = proc[p].approval
      /\ \A q \in Executor \ {p} : proc'[q] = proc[q]
  <2>1. Moves(p, "over") => proc'[p].pc # "running"
    BY <1>0 DEF Moves, Call, TypeOK
  <2>. QED  BY <1>0, <1>2, <2>1 DEF Enters, Call, TypeOK
<1>. QED  BY <1>3, <1>4

\* A row that has succeeded stays as it is.
LEMMA SucceededKept ==
    ASSUME TypeOK, OwnRelease, [Next]_vars, NEW i \in DOMAIN releases,
           releases[i].status # "started"
    PROVE  releases'[i] = releases[i]
BY OutcomeStep DEF OwnRelease

\* What call p knows of its approval and its release.
OwnCall(p) ==
    /\ proc[p].pc \in {"executing", "running", "over"} => approvals[proc[p].approval].consumed
    /\ proc[p].pc \in Preparing => proc[p].release = 0
    /\ proc[p].pc \in {"running", "over"} /\ proc[p].release # 0 =>
           releases[proc[p].release].approval = proc[p].approval
    /\ proc[p].pc = "running" => releases[proc[p].release].status = "started"

LEMMA OwnCallStep ==
    ASSUME TypeOK, OwnRelease, [Next]_vars, NEW p \in Executor
    PROVE  OwnCall(p)'
<1>0. OwnCall(p)
  BY DEF OwnRelease, OwnCall
<1>1. /\ proc[p].pc \in Executing => proc[p].approval \in DOMAIN approvals
      /\ proc[p].release # 0 => proc[p].release \in DOMAIN releases
      /\ proc[p].pc = "running" => proc[p].release # 0
  BY DEF TypeOK, CallOK, Executing, Call
<1>2. {"executing", "running", "over"} \subseteq Executing /\ Preparing \subseteq Executing
  BY DEF Executing, PC, Preparing
<1>3. CASE proc'[p] = proc[p]
  <2>1. proc[p].pc \in {"executing", "running", "over"} => approvals'[proc[p].approval].consumed
    BY <1>0, <1>1, <1>2, ConsumedKept DEF OwnCall
  <2>2. proc[p].pc \in {"running", "over"} /\ proc[p].release # 0 =>
            releases'[proc[p].release].approval = proc[p].approval
    BY <1>0, <1>1, ReleasesKept DEF OwnCall
  <2>3. ASSUME proc[p].pc = "running"
        PROVE  releases'[proc[p].release].status = "started"
    <3>1. ~ run_end(p)
      <4>. SUFFICES ASSUME run_end(p) PROVE proc'[p].pc = "over"
        BY <1>3, <2>3
      <4>1. PICK rel : Enters(p, [proc[p] EXCEPT !.pc = "over", !.release = rel])
        BY DEF run_end
      <4>2. proc[p] \in Call /\ proc'[p] = [proc[p] EXCEPT !.pc = "over", !.release = rel]
        BY <4>1 DEF Enters, TypeOK
      <4>. QED  BY <4>2 DEF Call
    <3>2. releases'[proc[p].release] = releases[proc[p].release]
      BY <1>1, <2>3, <3>1, OutcomeStep DEF OwnRelease
    <3>. QED  BY <1>0, <2>3, <3>2 DEF OwnCall
  <2>. QED  BY <1>0, <1>3, <2>1, <2>2, <2>3 DEF OwnCall
<1>4. CASE proc'[p].pc \notin Executing
  BY <1>2, <1>4 DEF OwnCall
<1>5. CASE proc'[p].pc = "plan" /\ proc'[p].release = 0
  BY <1>5 DEF OwnCall
<1>6. CASE /\ proc[p].pc \in Preparing
           /\ proc'[p].pc \in Preparing \ {"plan", "executing"}
           /\ proc'[p].release = proc[p].release
  BY <1>0, <1>6 DEF OwnCall, Preparing
<1>7. CASE /\ consume_commit(p) /\ proc'[p].approval = proc[p].approval
           /\ proc'[p].pc = "executing" /\ proc'[p].release = proc[p].release
  <2>1. proc[p].pc = "consumed"
    BY <1>7 DEF consume_commit
  <2>2. proc[p].pc \in Executing /\ proc[p].pc \in Preparing
    BY <2>1 DEF Executing, PC, Preparing
  <2>3. approvals'[proc[p].approval].consumed
    BY <1>1, <1>7, <2>2, ConsumedKept
  <2>. QED  BY <1>0, <1>7, <2>2, <2>3 DEF OwnCall, Preparing
<1>8. CASE run_start(p) /\ proc'[p].approval = proc[p].approval
  <2>1. proc[p].pc = "executing"
    BY <1>8 DEF run_start
  <2>2. /\ proc[p].release = 0
        /\ approvals'[proc[p].approval].consumed
    BY <1>0, <1>1, <1>2, <2>1, ConsumedKept DEF OwnCall, Preparing
  <2>3. CASE proc'[p].pc = "over" /\ proc'[p].release = proc[p].release
    BY <1>8, <2>2, <2>3 DEF OwnCall, Preparing
  <2>4. CASE proc'[p].pc = "running"
    BY <1>8, <2>2, <2>4, StartedRelease DEF OwnCall, Preparing
  <2>5. proc[p] \in Call
    BY DEF TypeOK
  <2>6. \/ proc'[p].pc = "over" /\ proc'[p].release = proc[p].release
        \/ proc'[p].pc = "running"
    BY <1>8, <2>5 DEF run_start, Enters, Moves, Call, TypeOK
  <2>. QED  BY <2>3, <2>4, <2>6
<1>9. CASE run_end(p) /\ proc'[p].pc = "over" /\ proc'[p].approval = proc[p].approval
  <2>1. proc[p].pc = "running" /\ proc[p] \in Call
    BY <1>9 DEF run_end, TypeOK
  <2>2. proc'[p].release \in {0, proc[p].release}
    BY <1>9, <2>1 DEF run_end, Enters, Call, TypeOK
  <2>3. /\ approvals'[proc[p].approval].consumed
        /\ proc[p].release # 0 => releases'[proc[p].release].approval = proc[p].approval
    BY <1>0, <1>1, <1>2, <2>1, ConsumedKept, ReleasesKept DEF OwnCall
  <2>. QED  BY <1>9, <2>2, <2>3 DEF OwnCall, Preparing
<1>10. CASE proc'[p].pc \in Afterwards
  BY <1>10 DEF OwnCall, Preparing, Afterwards
<1>. QED  BY <1>3, <1>4, <1>5, <1>6, <1>7, <1>8, <1>9, <1>10, CallStep

LEMMA OwnStep ==
    ASSUME TypeOK, OwnRelease, [Next]_vars
    PROVE  OwnRelease'
<1>1. ASSUME NEW i \in DOMAIN releases
      PROVE  approvals'[releases'[i].approval].consumed
  <2>1. releases[i].approval \in DOMAIN approvals /\ approvals[releases[i].approval].consumed
    BY DEF TypeOK, OwnRelease
  <2>. QED  BY <2>1, ReleasesKept, ConsumedKept
<1>2. ASSUME NEW i \in DOMAIN releases' \ DOMAIN releases
      PROVE  approvals'[releases'[i].approval].consumed
  <2>1. PICK p \in Executor :
            /\ proc[p].pc = "executing"
            /\ releases'[i] = [approval |-> proc[p].approval, by |-> proc[p].who,
                               status |-> "started"]
    BY AddedRelease
  <2>2. proc[p].approval \in DOMAIN approvals /\ approvals[proc[p].approval].consumed
    BY <2>1 DEF TypeOK, CallOK, OwnRelease
  <2>. QED  BY <2>1, <2>2, ConsumedKept
<1>3. \A p \in Executor : OwnCall(p)'
  BY OwnCallStep
<1>4. ASSUME NEW p \in Executor, NEW q \in Executor, p # q,
             proc'[p].pc = "running", proc'[q].pc = "running"
      PROVE  proc'[p].release # proc'[q].release
  <2>1. ASSUME NEW o \in Executor, proc'[o].pc = "running"
        PROVE  proc'[o] = proc[o] \/ run_start(o)
    <3>. HIDE DEF OwnRelease
    <3>. QED  BY <2>1, CallStep DEF Executing, PC, Preparing, Afterwards
  <2>2. ASSUME NEW o \in Executor, proc[o].pc = "running"
        PROVE  proc[o].release \in 1 .. Len(releases)
    BY <2>2 DEF TypeOK, CallOK, Call
  <2>3. CASE proc'[p] = proc[p] /\ proc'[q] = proc[q]
    BY <1>4, <2>3 DEF OwnRelease
  <2>4. CASE run_start(p)
    BY <1>4, <2>2, <2>4, StartedRelease DEF TypeOK
  <2>5. CASE run_start(q)
    BY <1>4, <2>2, <2>5, StartedRelease DEF TypeOK
  <2>. QED  BY <1>4, <2>1, <2>3, <2>4, <2>5
<1>. QED  BY <1>1, <1>2, <1>3, <1>4 DEF OwnRelease, OwnCall

LEMMA CompletedStays ==
    ASSUME TypeOK, OwnRelease, CompletedIsReleased, [Next]_vars
    PROVE  CompletedIsReleased'
<1>1. ASSUME NEW r, NEW i \in DOMAIN releases,
             /\ releases[i].status = "succeeded"
             /\ approvals[releases[i].approval].request = r
             /\ approvals[releases[i].approval].consumed
      PROVE  /\ i \in DOMAIN releases'
             /\ releases'[i].status = "succeeded"
             /\ approvals'[releases'[i].approval].request = r
             /\ approvals'[releases'[i].approval].consumed
  <2>1. releases[i].approval \in DOMAIN approvals
    BY DEF TypeOK
  <2>2. releases'[i] = releases[i] /\ i \in DOMAIN releases'
    BY <1>1, SucceededKept, ReleasesKept
  <2>. QED  BY <1>1, <2>1, <2>2, ApprovalsKept, ConsumedKept
<1>2. ASSUME NEW r \in DOMAIN requests', requests'[r].status = "completed"
      PROVE  \E i \in DOMAIN releases :
                 /\ releases[i].status = "succeeded"
                 /\ approvals[releases[i].approval].request = r
                 /\ approvals[releases[i].approval].consumed
  <2>1. CASE r \in DOMAIN requests /\ requests[r].status = "completed"
    BY <2>1 DEF CompletedIsReleased
  <2>2. ASSUME NEW p \in Executor, proc[p].pc = "over", proc[p].release # 0,
               releases[proc[p].release].status = "succeeded",
               r = approvals[proc[p].approval].request
        PROVE  /\ proc[p].release \in DOMAIN releases
               /\ approvals[releases[proc[p].release].approval].request = r
               /\ approvals[releases[proc[p].release].approval].consumed
    BY <2>2 DEF TypeOK, CallOK, Call, OwnRelease
  <2>. QED  BY <1>2, <2>1, <2>2, CompletedStep
<1>. QED  BY <1>1, <1>2 DEF CompletedIsReleased

\* A request that reads completed has a release that succeeded on its own approval,
\* which is spent: neither a crash nor an overrun lease makes it say so wrongly.
THEOREM CompletedTruly == Spec => []CompletedIsReleased
<1>1. Init => OwnRelease /\ CompletedIsReleased
  BY DEF Init, OwnRelease, CompletedIsReleased, Idle, Preparing
<1>2. TypeOK /\ OwnRelease /\ [Next]_vars => OwnRelease'
  BY OwnStep
<1>3. TypeOK /\ OwnRelease /\ CompletedIsReleased /\ [Next]_vars => CompletedIsReleased'
  BY CompletedStays
<1>. QED  BY <1>1, <1>2, <1>3, TypeCorrect, PTL DEF Spec
============================================================================
