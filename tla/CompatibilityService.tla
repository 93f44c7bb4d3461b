------------------------ MODULE CompatibilityService ------------------------
(***************************************************************************)
(* The adapter compatibility matrix (compatibility_service.py), the        *)
(* qualification of an adapter (qualification.py) and the release set      *)
(* pipeline over both (release_pipeline.py).                               *)
(*                                                                         *)
(* A process holds a registry: the version of each adapter it was started  *)
(* with.  The read and the commit of a session are two steps.  Between the *)
(* sessions of qualify_current the adapter itself is called.               *)
(***************************************************************************)
EXTENDS Naturals, FiniteSets, UnitOfWork

CONSTANTS
    Adapter,            \* adapter ids
    Version,            \* versions of an adapter
    Offered,            \* the versions an adapter can be configured with
    Mock                \* the versions whose name starts with "mock-"

ASSUME CompatibilityAssumption ==
    /\ Offered \in [Adapter -> SUBSET Version]
    /\ Mock \subseteq Version

VARIABLES
    entries,    \* the table compatibility_entries
    evidence,   \* passed, of the latest row of adapter_qualifications
    registry,   \* the version of each adapter in each process
    ccall       \* the method call each process is in

matrixVars == <<entries, evidence, registry, ccall>>

EntryState == {"absent", "candidate", "active", "blocked"}
Matrix == [Adapter -> [Version -> EntryState]]
Ops == {"register", "qualify", "promote", "block", "release", "qualify_only", "promote_many"}
MatrixPC == {"idle", "register", "registering", "qualify", "probe", "record", "recording",
             "promote", "promoting", "block", "done"}

\* A call in progress: its operation and its set of (adapter, version) pairs, the
\* adapter at hand and those still to be qualified, the matrix its session read,
\* whether everything has passed so far, and the verdict to be recorded.
MatrixCall == [pc : MatrixPC, op : Ops, targets : SUBSET (Adapter \X Version),
               todo : SUBSET Adapter, at : SUBSET Adapter, seen : Matrix, ok : BOOLEAN, verdict : BOOLEAN]

NoEntries == [a \in Adapter |-> [v \in Version |-> "absent"]]
MatrixIdle == [pc |-> "idle", op |-> "register", targets |-> {}, todo |-> {}, at |-> {},
               seen |-> NoEntries, ok |-> FALSE, verdict |-> FALSE]

MatrixTypeOK ==
    /\ entries \in Matrix
    /\ evidence \in [Adapter -> [Version -> {"none", "passed", "failed"}]]
    /\ registry \in [Process -> [Adapter -> Version]]
    /\ ccall \in [Process -> MatrixCall]
    /\ \A p \in Process :
           ccall[p].pc \in {"register", "registering", "qualify", "probe", "record",
                            "recording", "block"} => Cardinality(ccall[p].at) = 1

MatrixInit ==
    /\ entries = NoEntries
    /\ evidence = [a \in Adapter |-> [v \in Version |-> "none"]]
    /\ registry \in [Process -> [Adapter -> Version]]
    /\ \A p \in Process, a \in Adapter : registry[p][a] \in Offered[a]
    /\ ccall = [p \in Process |-> MatrixIdle]

MatrixEnters(p, c) == ccall' = [ccall EXCEPT ![p] = c]
MatrixMoves(p, pc) == ccall' = [ccall EXCEPT ![p].pc = pc]

\* The adapter at hand, and its version.
This(p) == CHOOSE a \in Adapter : ccall[p].at = {a}
Ver(p) == registry[p][This(p)]
Entry(p) == entries[This(p)][Ver(p)]

\* A method returned or raised: the pipeline and the production controller look at
\* the outcome, an HTTP caller does not.
Ends(p, ok) ==
    IF ccall[p].op \in {"release", "qualify_only", "promote_many"}
    THEN MatrixEnters(p, [ccall[p] EXCEPT !.pc = "done", !.at = {}, !.seen = NoEntries,
                                          !.ok = ok])
    ELSE MatrixEnters(p, MatrixIdle)

----------------------------------------------------------------------------
(* register_current, qualify_current.                                      *)

register_current(p, a) ==
    /\ ccall[p].pc = "idle"
    /\ MatrixEnters(p, [MatrixIdle EXCEPT !.pc = "register", !.op = "register", !.at = {a}])
    /\ UNCHANGED <<entries, evidence, registry>>

qualify_current(p, a) ==
    /\ ccall[p].pc = "idle"
    /\ MatrixEnters(p, [MatrixIdle EXCEPT !.pc = "qualify", !.op = "qualify", !.at = {a}])
    /\ UNCHANGED <<entries, evidence, registry>>

\* The pipeline after one adapter: the next one, the promotion of the whole set,
\* or the result.
Qualified(p, passed) ==
    LET c == [ccall[p] EXCEPT !.ok = @ /\ passed, !.seen = NoEntries, !.verdict = FALSE]
    IN  CASE c.op = "qualify" -> MatrixEnters(p, MatrixIdle)
          [] c.op # "qualify" /\ c.todo # {} ->
                 \E a \in c.todo : MatrixEnters(p, [c EXCEPT !.pc = "qualify", !.at = {a},
                                                             !.todo = @ \ {a}])
          [] c.op = "release" /\ c.todo = {} /\ c.ok ->
                 MatrixEnters(p, [c EXCEPT !.pc = "promote", !.at = {}])
          [] OTHER -> Ends(p, c.ok)

\* A mock or a blocked version is refused.
qualify_check(p) ==
    /\ ccall[p].pc = "qualify"
    /\ IF Ver(p) \in Mock \/ Entry(p) = "blocked"
       THEN Qualified(p, FALSE)
       ELSE MatrixMoves(p, "register")
    /\ UNCHANGED <<entries, evidence, registry>>

register_current_read(p) ==
    /\ ccall[p].pc = "register"
    /\ MatrixEnters(p, [ccall[p] EXCEPT !.pc = "registering", !.seen = entries])
    /\ UNCHANGED <<entries, evidence, registry>>

\* A new row, or a blocked one reopened; a second INSERT of the row raises.
register_current_commit(p) ==
    LET a == This(p)
        v == Ver(p)
        old == ccall[p].seen[a][v]
        raises == old = "absent" /\ entries[a][v] # "absent"
        rest == IF ccall[p].op = "register"
                THEN MatrixEnters(p, MatrixIdle) ELSE MatrixMoves(p, "probe")
    IN  /\ ccall[p].pc = "registering"
        /\ \/ /\ ~raises
              /\ entries' = [entries EXCEPT ![a][v] =
                                IF old \in {"absent", "blocked"} THEN "candidate" ELSE @]
              /\ rest
           \/ /\ raises \/ CommitMayFail
              /\ IF ccall[p].op = "register"
                 THEN MatrixEnters(p, MatrixIdle) ELSE Qualified(p, FALSE)
              /\ UNCHANGED entries
    /\ UNCHANGED <<evidence, registry>>

\* The adapter is asked for its health and runs the fixture; asking may raise.
qualify_adapter(p) ==
    /\ ccall[p].pc = "probe"
    /\ \/ \E passed \in BOOLEAN :
              MatrixEnters(p, [ccall[p] EXCEPT !.pc = "record", !.verdict = passed])
       \/ Qualified(p, FALSE)
    /\ UNCHANGED <<entries, evidence, registry>>

record_read(p) ==
    /\ ccall[p].pc = "record"
    /\ MatrixEnters(p, [ccall[p] EXCEPT !.pc = "recording", !.seen = entries])
    /\ UNCHANGED <<entries, evidence, registry>>

\* Mutant: a state the matrix does not know.
RecordedState_Failed(old, current, passed) == IF passed THEN current ELSE "failed"

\* Mutant: a failed qualification is recorded and the row keeps its state.
RecordedState_Kept(old, current, passed) == current

\* The row of the qualified version: a failure blocks it, whatever its state was.
RecordedState(old, current, passed) ==
    IF passed \/ old = "absent" THEN current ELSE Assign(old, current, "blocked")

record_commit(p) ==
    LET a == This(p)
        v == Ver(p)
        passed == ccall[p].verdict
    IN  /\ ccall[p].pc = "recording"
        /\ \/ /\ evidence' = [evidence EXCEPT ![a][v] = IF passed THEN "passed" ELSE "failed"]
              /\ entries' = [entries EXCEPT ![a][v] =
                                RecordedState(ccall[p].seen[a][v], @, passed)]
              /\ Qualified(p, passed)
           \/ /\ CommitMayFail
              /\ Qualified(p, FALSE)
              /\ UNCHANGED <<entries, evidence>>
        /\ UNCHANGED registry

----------------------------------------------------------------------------
(* promote, promote_many, block.                                           *)

promote(p, a, v) ==
    /\ ccall[p].pc = "idle"
    /\ v \in Offered[a]
    /\ MatrixEnters(p, [MatrixIdle EXCEPT !.pc = "promote", !.op = "promote",
                                          !.targets = {<<a, v>>}])
    /\ UNCHANGED <<entries, evidence, registry>>

\* Called by the production controller with what the pipeline qualified.
promote_many(p, targets) ==
    /\ ccall[p].pc = "idle"
    /\ MatrixEnters(p, [MatrixIdle EXCEPT !.pc = "promote", !.op = "promote_many",
                                          !.targets = targets])
    /\ UNCHANGED <<entries, evidence, registry>>

\* Mutant: the latest qualification is not looked at.
Promotable_Unqualified(op, t) ==
    /\ entries[t[1]][t[2]] # "absent"
    /\ op = "promote" => entries[t[1]][t[2]] # "active"

\* The row exists and its latest qualification passed; only promote refuses a row
\* that is active already.  A blocked row may be promoted.
Promotable(op, t) ==
    /\ entries[t[1]][t[2]] # "absent"
    /\ op = "promote" => entries[t[1]][t[2]] # "active"
    /\ evidence[t[1]][t[2]] = "passed"

promote_read(p) ==
    /\ ccall[p].pc = "promote"
    /\ IF \A t \in ccall[p].targets : Promotable(ccall[p].op, t)
       THEN MatrixEnters(p, [ccall[p] EXCEPT !.pc = "promoting", !.seen = entries])
       ELSE Ends(p, FALSE)
    /\ UNCHANGED <<entries, evidence, registry>>

\* Mutant: one adapter of the set is promoted.
Promoted_One(targets, old) ==
    LET t == CHOOSE u \in targets : TRUE
    IN  [entries EXCEPT ![t[1]] = [v \in Version |->
            CASE v = t[2] -> "active"
              [] v # t[2] /\ old[t[1]][v] = "active" -> "candidate"
              [] OTHER -> @[v]]]

\* Mutant: the version that was active stays active.
Promoted_NoDemotion(targets, old) ==
    [a \in Adapter |-> [v \in Version |->
        IF <<a, v>> \in targets THEN Assign(old[a][v], entries[a][v], "active")
        ELSE entries[a][v]]]

\* The targets become active and the versions read as active make room.
Promoted(targets, old) ==
    [a \in Adapter |-> [v \in Version |->
        CASE <<a, v>> \in targets -> Assign(old[a][v], entries[a][v], "active")
          [] <<a, v>> \notin targets /\ old[a][v] = "active" /\ (\E t \in targets : t[1] = a) ->
                 "candidate"
          [] OTHER -> entries[a][v]]]

promote_commit(p) ==
    /\ ccall[p].pc = "promoting"
    /\ \/ entries' = Promoted(ccall[p].targets, ccall[p].seen) /\ Ends(p, TRUE)
       \/ CommitMayFail /\ Ends(p, FALSE) /\ UNCHANGED entries
    /\ UNCHANGED <<evidence, registry>>

\* The row is looked up and assigned; raises when there is none.
block_read(p, a, v) ==
    /\ ccall[p].pc = "idle"
    /\ entries[a][v] # "absent"
    /\ MatrixEnters(p, [MatrixIdle EXCEPT !.pc = "block", !.op = "block", !.at = {a},
                                          !.targets = {<<a, v>>}, !.seen = entries])
    /\ UNCHANGED <<entries, evidence, registry>>

block_commit(p) ==
    /\ ccall[p].pc = "block"
    /\ entries' = [a \in Adapter |-> [v \in Version |->
                      IF <<a, v>> \in ccall[p].targets
                      THEN Assign(ccall[p].seen[a][v], entries[a][v], "blocked")
                      ELSE entries[a][v]]]
    /\ MatrixEnters(p, MatrixIdle)
    /\ UNCHANGED <<evidence, registry>>

----------------------------------------------------------------------------
(* AdapterReleasePipeline.run.                                             *)

\* Preflight refuses the set when one of it is a mock, else every adapter is
\* qualified in turn, also after one has failed.
pipeline_run(p, requested, promoting) ==
    LET targets == {<<a, registry[p][a]>> : a \in requested}
        c == [MatrixIdle EXCEPT !.op = IF promoting THEN "release" ELSE "qualify_only",
                                !.targets = targets, !.ok = TRUE]
    IN  /\ ccall[p].pc = "idle"
        /\ IF \E t \in targets : t[2] \in Mock
           THEN MatrixEnters(p, [c EXCEPT !.pc = "done", !.ok = FALSE, !.targets = {}])
           ELSE \E a \in requested :
                    MatrixEnters(p, [c EXCEPT !.pc = "qualify", !.at = {a},
                                              !.todo = requested \ {a}])
        /\ UNCHANGED <<entries, evidence, registry>>

\* The result goes to the caller.
pipeline_result(p) ==
    /\ ccall[p].pc = "done"
    /\ MatrixEnters(p, MatrixIdle)
    /\ UNCHANGED <<entries, evidence, registry>>

\* What require_active_registry asks of every adapter of a process before it may start
\* in strict mode.
InForce(p, a) ==
    /\ registry[p][a] \notin Mock
    /\ entries[a][registry[p][a]] = "active"
    /\ evidence[a][registry[p][a]] = "passed"

----------------------------------------------------------------------------

\* A process is started again with another version of an adapter.
MatrixUpgrade(p, a, v) ==
    /\ ccall[p].pc = "idle"
    /\ v \in Offered[a] \ {registry[p][a]}
    /\ registry' = [registry EXCEPT ![p][a] = v]
    /\ UNCHANGED <<entries, evidence, ccall>>

MatrixCrash(p) ==
    /\ MayCrash
    /\ ccall[p].pc # "idle"
    /\ MatrixEnters(p, MatrixIdle)
    /\ UNCHANGED <<entries, evidence, registry>>

\* The HTTP endpoints and the release-adapters command.
MatrixRequest(p) ==
    \/ \E a \in Adapter : register_current(p, a) \/ qualify_current(p, a)
    \/ \E a \in Adapter, v \in Version : promote(p, a, v) \/ block_read(p, a, v)
    \/ \E requested \in (SUBSET Adapter) \ {{}}, promoting \in BOOLEAN :
           pipeline_run(p, requested, promoting)

MatrixStep(p) ==
    \/ qualify_check(p)
    \/ register_current_read(p) \/ register_current_commit(p)
    \/ qualify_adapter(p)
    \/ record_read(p) \/ record_commit(p)
    \/ promote_read(p) \/ promote_commit(p)
    \/ block_commit(p)

MatrixNext ==
    \E p \in Process :
        \/ MatrixRequest(p)
        \/ MatrixStep(p)
        \/ pipeline_result(p)
        \/ \E a \in Adapter, v \in Version : MatrixUpgrade(p, a, v)
        \/ MatrixCrash(p)

MatrixSpec == MatrixInit /\ [][MatrixNext]_matrixVars

----------------------------------------------------------------------------
(* Properties.                                                             *)

\* An active version has a passing latest qualification (qualify_current, promote,
\* promote_many); for calls that do not overlap.
ActiveQualified ==
    \A a \in Adapter, v \in Version : entries[a][v] = "active" => evidence[a][v] = "passed"

\* At most one version of an adapter is active; for calls that do not overlap.
OneActiveVersion ==
    \A a \in Adapter, v, w \in Version :
        entries[a][v] = "active" /\ entries[a][w] = "active" => v = w

\* A release set becomes active as a whole: what promotes one of its adapters leaves
\* all of them active (promote_many).
PromotedTogether ==
    [][\A p \in Process : \A t \in ccall[p].targets :
           /\ ccall[p].op \in {"release", "promote_many"}
           /\ entries[t[1]][t[2]] # "active"
           /\ entries'[t[1]][t[2]] = "active"
           => \A u \in ccall[p].targets : entries'[u[1]][u[2]] = "active"]_matrixVars

\* Evidence is collected without changing which versions are active (--qualify-only).
QualifyOnlyKeepsActive ==
    [][\A p \in Process : ccall[p].op = "qualify_only" /\ ccall[p].pc # "idle" =>
           \A a \in Adapter, v \in Version :
               entries[a][v] = "active" <=> entries'[a][v] = "active"]_matrixVars
=============================================================================
