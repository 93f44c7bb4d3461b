-------------------------- MODULE ReleaseOperator --------------------------
(***************************************************************************)
(* The approval-gated release operator (release_operator.py): requests,    *)
(* their approvals, the release lease, and execute, which spends an        *)
(* approval on one run of the production release controller.               *)
(*                                                                         *)
(* A method is several database sessions, and a session that decides on    *)
(* what it read is two steps, the read and the commit.  approve_request    *)
(* alone decides by a conditional UPDATE.  Rows are deleted by primary     *)
(* key, whatever they hold by then.  What the plan is made of (slots,      *)
(* versions, adapters) is one value, the fingerprint, which other          *)
(* operations on the registry and the releases themselves change.  The     *)
(* controller is reduced to the row it creates and its outcome.            *)
(***************************************************************************)
EXTENDS Naturals, Sequences, FiniteSets

CONSTANTS
    Identity,       \* actors and owners, as the callers name them
    Stored,         \* what a row keeps of a name: redact_text(name)[:200]
    Executor,       \* processes that call the operator
    Fingerprint,    \* values of plan(...).fingerprint
    Modes,          \* settings of two_person_required
    Revocable,      \* TRUE: revoke is called
    Timely,         \* TRUE: no process holds the lease past its age
    MaxCrashes,     \* bound on the number of processes that die
    MaxRequests,    \* bound on the rows of release_requests
    MaxDirect,      \* bound on the rows of release_approvals without a request
    None            \* no requester, no lease

ASSUME OperatorAssumption ==
    /\ DOMAIN Stored = Identity
    /\ Modes \subseteq BOOLEAN
    /\ Revocable \in BOOLEAN
    /\ Timely \in BOOLEAN
    /\ MaxCrashes \in Nat
    /\ MaxRequests \in Nat
    /\ MaxDirect \in Nat
    /\ None \notin Identity

VARIABLES
    twoPerson,  \* the setting two_person_required
    plan,       \* the fingerprint of the plan that would be made now
    requests,   \* the table release_requests
    approvals,  \* the table release_approvals
    lease,      \* the row of release_leases
    releases,   \* the table production_releases
    proc,       \* the method call each process is in
    crashes     \* processes that died so far

vars == <<twoPerson, plan, requests, approvals, lease, releases, proc, crashes>>
tables == <<requests, approvals, lease, releases>>

RequestStatus == {"pending", "stale", "approved", "rejected", "revoked",
                  "executing", "completed", "failed"}
\* by is who made the row, in requests, approvals and releases: a history.  The code has
\* only Stored[by].
Request == [by : Identity, fingerprint : Fingerprint, status : RequestStatus]

\* request is the number of the linked request, 0 for a direct approval.
Approval == [by : Identity, decision : {"approve", "reject", "revoked"}, request : Nat,
             fingerprint : Fingerprint, consumed : BOOLEAN, expired : BOOLEAN]

\* status "failed" stands for every status of the controller but "succeeded".
Release == [approval : Nat, by : Identity, status : {"started", "succeeded", "failed"}]

\* release_id is the number of an approval, 0 when there is no row; old says that
\* the row is past lease_max_age_seconds.
Lease == [release_id : Nat, old : BOOLEAN]

PC == {"idle", "decide", "stale", "revoke", "plan", "acquire", "insert", "takeover",
       "consume", "consumed", "executing", "running", "over", "unlock", "delete"}

\* A call in progress: who makes it, the request, approval and release it is about
\* (0: none, or the controller raised), and the decision on a request.
Call == [pc : PC, who : Identity \cup {None}, request : Nat, approval : Nat,
         release : Nat, decision : {"approve", "reject"}]

NoLease == [release_id |-> 0, old |-> FALSE]
Idle == [pc |-> "idle", who |-> None, request |-> 0, approval |-> 0,
         release |-> 0, decision |-> "approve"]

\* The calls between an acquired lease and its release.
Locked == {"consume", "consumed", "executing", "running", "over", "unlock", "delete"}

\* A call and the numbers of requests, approvals and releases there are: the rows
\* it is about exist.
CallOK(c, nRequests, nApprovals, nReleases) ==
    /\ c \in Call
    /\ c.pc \notin {"idle", "revoke"} => c.who \in Identity
    /\ c.pc \in {"decide", "stale"} => c.request \in 1 .. nRequests
    /\ c.pc \notin {"idle", "decide", "stale"} => c.approval \in 1 .. nApprovals
    /\ c.release \in 0 .. nReleases
    /\ c.pc = "running" => c.release # 0

TypeOK ==
    /\ twoPerson \in BOOLEAN
    /\ plan \in Fingerprint
    /\ requests \in Seq(Request)
    /\ approvals \in Seq(Approval)
    /\ \A i \in DOMAIN approvals : approvals[i].request \in 0 .. Len(requests)
    /\ lease \in Lease
    /\ lease.release_id \in 0 .. Len(approvals)
    /\ releases \in Seq(Release)
    /\ \A i \in DOMAIN releases : releases[i].approval \in DOMAIN approvals
    /\ proc \in [Executor -> Call]
    /\ \A p \in Executor :
           CallOK(proc[p], Len(requests), Len(approvals), Len(releases))
    /\ crashes \in Nat

Init ==
    /\ twoPerson \in Modes
    /\ plan \in Fingerprint
    /\ requests = <<>>
    /\ approvals = <<>>
    /\ lease = NoLease
    /\ releases = <<>>
    /\ proc = [p \in Executor |-> Idle]
    /\ crashes = 0

Enters(p, call) == proc' = [proc EXCEPT ![p] = call]
Moves(p, pc) == proc' = [proc EXCEPT ![p].pc = pc]
Returns(p) == Enters(p, Idle)

----------------------------------------------------------------------------
(* Requests and approvals.                                                 *)

\* The plan is made just before; a change in between is a change just after.
request(p, who) ==
    /\ proc[p].pc = "idle"
    /\ Len(requests) < MaxRequests
    /\ requests' = Append(requests, [by |-> who, fingerprint |-> plan, status |-> "pending"])
    /\ UNCHANGED <<twoPerson, plan, approvals, lease, releases, proc, crashes>>

\* Mutant: the status of the request is stored as the decision.
NewApproval_Status(who, d, r) ==
    [by |-> who, decision |-> IF d = "approve" THEN "approved" ELSE "rejected",
     request |-> r, fingerprint |-> plan, consumed |-> FALSE, expired |-> FALSE]

NewApproval(who, d, r) == [by |-> who, decision |-> d, request |-> r, fingerprint |-> plan,
                           consumed |-> FALSE, expired |-> FALSE]

\* The direct path, closed in two-person mode.
approve(p, who, d) ==
    /\ proc[p].pc = "idle"
    /\ ~twoPerson
    /\ Cardinality({i \in DOMAIN approvals : approvals[i].request = 0}) < MaxDirect
    /\ approvals' = Append(approvals, NewApproval(who, d, 0))
    /\ UNCHANGED <<twoPerson, plan, requests, lease, releases, proc, crashes>>

\* The name of the caller is compared as it comes with the stored one of the requester.
approve_request(p, r, who, d) ==
    /\ proc[p].pc = "idle"
    /\ requests[r].status = "pending"
    /\ who # Stored[requests[r].by]
    /\ Enters(p, [Idle EXCEPT !.who = who, !.request = r, !.decision = d,
                  !.pc = IF plan = requests[r].fingerprint THEN "decide" ELSE "stale"])
    /\ UNCHANGED <<twoPerson, plan, tables, crashes>>

\* UPDATE ... WHERE status = 'pending'.
mark_stale(p) ==
    /\ proc[p].pc = "stale"
    /\ requests' = [requests EXCEPT ![proc[p].request].status =
                       IF @ = "pending" THEN "stale" ELSE @]
    /\ Returns(p)
    /\ UNCHANGED <<twoPerson, plan, approvals, lease, releases, crashes>>

\* Mutant: the UPDATE does not ask for a pending request.
Pending_Any(r) == r \in DOMAIN requests

\* The condition of the UPDATE.
Pending(r) == requests[r].status = "pending"

\* The approval carries the fingerprint that was found equal to the request's.
decide(p) ==
    LET r == proc[p].request
        d == proc[p].decision
    IN  /\ proc[p].pc = "decide"
        /\ IF Pending(r)
           THEN /\ requests' = [requests EXCEPT ![r].status =
                                   IF d = "approve" THEN "approved" ELSE "rejected"]
                /\ approvals' = Append(approvals,
                       [NewApproval(proc[p].who, d, r) EXCEPT
                           !.fingerprint = requests[r].fingerprint])
           ELSE UNCHANGED <<requests, approvals>>
        /\ Returns(p)
        /\ UNCHANGED <<twoPerson, plan, lease, releases, crashes>>

revoke_read(p, i) ==
    /\ Revocable
    /\ proc[p].pc = "idle"
    /\ ~approvals[i].consumed
    /\ approvals[i].decision = "approve"
    /\ Enters(p, [Idle EXCEPT !.pc = "revoke", !.approval = i])
    /\ UNCHANGED <<twoPerson, plan, tables, crashes>>

revoke_commit(p) ==
    LET i == proc[p].approval
    IN  /\ proc[p].pc = "revoke"
        /\ approvals' = [approvals EXCEPT ![i].decision = "revoked"]
        /\ requests' = [r \in DOMAIN requests |->
                           IF r = approvals[i].request
                           THEN [requests[r] EXCEPT !.status = "revoked"] ELSE requests[r]]
        /\ Returns(p)
        /\ UNCHANGED <<twoPerson, plan, lease, releases, crashes>>

----------------------------------------------------------------------------
(* execute: check the approval, then the plan; take the lease; spend the   *)
(* approval; run the controller; give the lease back.                      *)

\* Mutant: the approver may execute.
Executable_ByApprover(i, who) ==
    /\ approvals[i].decision = "approve"
    /\ ~approvals[i].consumed
    /\ ~approvals[i].expired

\* The tests of execute on the approval it read: the stored names of requester and
\* approver, and the name of the caller as it comes.
Executable(i, who) ==
    /\ approvals[i].decision = "approve"
    /\ ~approvals[i].consumed
    /\ ~approvals[i].expired
    /\ twoPerson => /\ approvals[i].request # 0
                    /\ Stored[requests[approvals[i].request].by] # Stored[approvals[i].by]
                    /\ who # Stored[approvals[i].by]

execute_read(p, i, who) ==
    /\ proc[p].pc = "idle"
    /\ Executable(i, who)
    /\ Enters(p, [Idle EXCEPT !.pc = "plan", !.who = who, !.approval = i])
    /\ UNCHANGED <<twoPerson, plan, tables, crashes>>

execute_plan(p) ==
    /\ proc[p].pc = "plan"
    /\ IF plan = approvals[proc[p].approval].fingerprint
       THEN Moves(p, "acquire") ELSE Returns(p)
    /\ UNCHANGED <<twoPerson, plan, tables, crashes>>

acquire_read(p) ==
    /\ proc[p].pc = "acquire"
    /\ \/ lease = NoLease /\ Moves(p, "insert")
       \/ lease.old /\ Moves(p, "takeover")
       \/ lease # NoLease /\ ~lease.old /\ Returns(p)
    /\ UNCHANGED <<twoPerson, plan, tables, crashes>>

\* Mutant: an INSERT that replaces the row of another release.
LeaseTaken_Never == FALSE

\* The primary key refuses a second row.
LeaseTaken == lease # NoLease

\* A takeover deletes the row by its key before it inserts.
acquire_commit(p) ==
    /\ proc[p].pc \in {"insert", "takeover"}
    /\ IF proc[p].pc = "insert" /\ LeaseTaken
       THEN Returns(p) /\ UNCHANGED lease
       ELSE /\ lease' = [release_id |-> proc[p].approval, old |-> FALSE]
            /\ Moves(p, "consume")
    /\ UNCHANGED <<twoPerson, plan, requests, approvals, releases, crashes>>

\* Mutant: the lease is thought to be enough.
Consumed_Never(i) == FALSE

Consumed(i) == approvals[i].consumed

consume_read(p) ==
    /\ proc[p].pc = "consume"
    /\ Moves(p, IF Consumed(proc[p].approval) THEN "unlock" ELSE "consumed")
    /\ UNCHANGED <<twoPerson, plan, tables, crashes>>

consume_commit(p) ==
    /\ proc[p].pc = "consumed"
    /\ approvals' = [approvals EXCEPT ![proc[p].approval].consumed = TRUE]
    /\ Moves(p, "executing")
    /\ UNCHANGED <<twoPerson, plan, requests, lease, releases, crashes>>

\* The requests after _set_request_status for the approval of call p.
SetRequestStatus(p, status) ==
    [r \in DOMAIN requests |->
        IF r = approvals[proc[p].approval].request
        THEN [requests[r] EXCEPT !.status = status] ELSE requests[r]]

\* "executing", then the controller creates its row, unless it raises first.
run_start(p) ==
    /\ proc[p].pc = "executing"
    /\ requests' = SetRequestStatus(p, "executing")
    /\ \/ /\ releases' = Append(releases, [approval |-> proc[p].approval,
                                           by |-> proc[p].who, status |-> "started"])
          /\ Enters(p, [proc[p] EXCEPT !.pc = "running", !.release = Len(releases')])
       \/ Moves(p, "over") /\ UNCHANGED releases
    /\ UNCHANGED <<twoPerson, plan, approvals, lease, crashes>>

\* The controller records the outcome and returns it, or raises before or after that.
run_end(p) ==
    /\ proc[p].pc = "running"
    /\ plan' \in Fingerprint
    /\ \E status \in {"started", "succeeded", "failed"}, raised \in BOOLEAN :
           /\ status = "started" => raised
           /\ releases' = [releases EXCEPT ![proc[p].release].status = status]
           /\ Enters(p, [proc[p] EXCEPT !.pc = "over",
                                        !.release = IF raised THEN 0 ELSE @])
    /\ UNCHANGED <<twoPerson, requests, approvals, lease, crashes>>

\* Mutant: a controller that returned is taken for one that succeeded.
Outcome_Returned(p) == IF proc[p].release # 0 THEN "completed" ELSE "failed"

Outcome(p) ==
    IF proc[p].release # 0 /\ releases[proc[p].release].status = "succeeded"
    THEN "completed" ELSE "failed"

run_record(p) ==
    /\ proc[p].pc = "over"
    /\ requests' = SetRequestStatus(p, Outcome(p))
    /\ Moves(p, "unlock")
    /\ UNCHANGED <<twoPerson, plan, approvals, lease, releases, crashes>>

\* _release deletes the row it read as its own.
release_read(p) ==
    /\ proc[p].pc = "unlock"
    /\ IF lease.release_id = proc[p].approval THEN Moves(p, "delete") ELSE Returns(p)
    /\ UNCHANGED <<twoPerson, plan, tables, crashes>>

release_commit(p) ==
    /\ proc[p].pc = "delete"
    /\ lease' = NoLease
    /\ Returns(p)
    /\ UNCHANGED <<twoPerson, plan, requests, approvals, releases, crashes>>

----------------------------------------------------------------------------
(* The environment.                                                        *)

\* approval_max_age_seconds pass.
ApprovalExpires(i) ==
    /\ ~approvals[i].expired
    /\ approvals' = [approvals EXCEPT ![i].expired = TRUE]
    /\ UNCHANGED <<twoPerson, plan, requests, lease, releases, proc, crashes>>

\* lease_max_age_seconds pass.  With Timely, not while a live process has the lease.
LeaseExpires ==
    /\ lease # NoLease
    /\ ~lease.old
    /\ Timely => \A p \in Executor : proc[p].pc \notin Locked
    /\ lease' = [lease EXCEPT !.old = TRUE]
    /\ UNCHANGED <<twoPerson, plan, requests, approvals, releases, proc, crashes>>

\* Something the fingerprint binds is changed by other operations.
PlanChanges ==
    /\ plan' \in Fingerprint \ {plan}
    /\ UNCHANGED <<twoPerson, tables, proc, crashes>>

\* A call that dies before it has the lease has written nothing: it is as if it had
\* not been made.
Crash(p) ==
    /\ crashes < MaxCrashes
    /\ proc[p].pc \in Locked
    /\ Returns(p)
    /\ crashes' = crashes + 1
    /\ UNCHANGED <<twoPerson, plan, tables>>

Decide(p) ==
    \/ \E who \in Identity, d \in {"approve", "reject"} :
           \/ approve(p, who, d)
           \/ \E r \in DOMAIN requests : approve_request(p, r, who, d)
    \/ mark_stale(p)
    \/ decide(p)

Revoke(p) ==
    \/ \E i \in DOMAIN approvals : revoke_read(p, i)
    \/ revoke_commit(p)

Execute(p) ==
    \/ \E i \in DOMAIN approvals, who \in Identity : execute_read(p, i, who)
    \/ execute_plan(p)
    \/ acquire_read(p) \/ acquire_commit(p)
    \/ consume_read(p) \/ consume_commit(p)
    \/ run_start(p) \/ run_end(p) \/ run_record(p)
    \/ release_read(p) \/ release_commit(p)

Next ==
    \/ \E p \in Executor :
           \/ \E who \in Identity : request(p, who)
           \/ Decide(p) \/ Revoke(p) \/ Execute(p) \/ Crash(p)
    \/ \E i \in DOMAIN approvals : ApprovalExpires(i)
    \/ LeaseExpires
    \/ PlanChanges

Spec == Init /\ [][Next]_vars

----------------------------------------------------------------------------
(* Properties.                                                             *)

\* At most one release operation is between taking the lease and giving it back
\* (_acquire, _release): "a database lease allows only one OpenClaw release
\* operation at a time".
OneReleaseAtATime ==
    \A p, q \in Executor : proc[p].pc \in Locked /\ proc[q].pc \in Locked => p = q

\* That much holds as long as no process died with the lease in its hands, if none
\* overruns its age.
LeaseExclusive == crashes = 0 => OneReleaseAtATime

\* An approval is good for one release: the controller never runs twice on it, as
\* long as no process died (execute's test before the lease and the one after it).
SingleUse ==
    crashes = 0 =>
        \A i, j \in DOMAIN releases : releases[i].approval = releases[j].approval => i = j

\* A request is decided once, whoever decides it at the same time, and for the plan
\* that was requested (approve_request).
DecidedOnce ==
    \A i \in DOMAIN approvals :
        approvals[i].request # 0 =>
            /\ requests[approvals[i].request].status \notin {"pending", "stale"}
            /\ approvals[i].fingerprint = requests[approvals[i].request].fingerprint
            /\ \A j \in DOMAIN approvals :
                   approvals[j].request = approvals[i].request => i = j

\* In two-person mode every release goes back to a request by somebody other than its
\* approver, whatever the rows keep of their names, and was executed by somebody other
\* than its approver, if the approver's name is stored as it is (approve_request,
\* execute).
TwoPersons ==
    twoPerson =>
        \A i \in DOMAIN releases :
            LET a == approvals[releases[i].approval]
            IN  /\ a.request # 0
                /\ a.by # requests[a.request].by
                /\ Stored[a.by] = a.by => a.by # releases[i].by

\* What is said of a finished request is what happened: a completed one has a release
\* that succeeded, and its approval is spent.
CompletedIsReleased ==
    \A r \in DOMAIN requests :
        requests[r].status = "completed" =>
            \E i \in DOMAIN releases :
                /\ releases[i].status = "succeeded"
                /\ approvals[releases[i].approval].request = r
                /\ approvals[releases[i].approval].consumed

\* A release is started only on an approval that stands: one that was revoked before
\* the release started is not executed (revoke, execute).
RevokedNotExecuted ==
    [][\A i \in DOMAIN releases' \ DOMAIN releases :
          approvals[releases'[i].approval].decision = "approve"]_vars
============================================================================
