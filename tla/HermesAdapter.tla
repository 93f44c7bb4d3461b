---------------------------- MODULE HermesAdapter ----------------------------
(***************************************************************************)
(* HermesCommandAdapter.execute (adapters/hermes.py): a disposable         *)
(* workspace (workers/workspace.py), the sandbox the command is put in     *)
(* (workers/sandbox.py), the supervised run, and the outputs read from the *)
(* workspace and validated (adapters/validation.py).  Composes             *)
(* WorkerSupervisor.                                                       *)
(***************************************************************************)
EXTENDS Naturals, Sequences, FiniteSets

CONSTANTS
    Kid, OutBudget, ByteBudget, FileBudget, ScanLimit, MaxOut, Usage, Stuck, DrainsInTime, None,
    Backend,            \* what probe_strong_sandbox may find: "bubblewrap", "seatbelt", "none"
    RequireSandbox,     \* require_strong_sandbox
    Manifest,           \* outputs/result.json: None, or the outputs it lists (<<>>: not readable)
    InputsMayFail       \* TRUE: an input artifact may be missing or damaged

VARIABLES
    main, code, kids, pipe, contained, out, usage, reader, counted, late, sup,
    backend,    \* what the probe finds
    workspace,  \* the job's directory exists
    manifest,   \* outputs/result.json with the files it lists
    left,       \* history: manifest as the command left it
    exec        \* execute: where it is, and the outputs it returned

S == INSTANCE WorkerSupervisor

ASSUME HermesAssumption ==
    /\ {OutBudget, ByteBudget, FileBudget, ScanLimit, MaxOut} \subseteq Nat
    /\ Usage \subseteq [bytes : Nat, files : Nat, unseen : Nat, readable : BOOLEAN]
    /\ None \notin S!Reason \cup S!Code
    /\ None \in Manifest
    /\ Backend \subseteq {"bubblewrap", "seatbelt", "none"}
    /\ {Stuck, DrainsInTime, RequireSandbox, InputsMayFail} \subseteq BOOLEAN

supervisorVars == <<main, code, kids, pipe, contained, out, usage, reader, counted, late, sup>>
vars == <<supervisorVars, backend, workspace, manifest, left, exec>>

ExecPC == {"idle", "open", "run", "load", "returned", "raised"}

TypeOK ==
    /\ S!TypeOK
    /\ backend \in Backend
    /\ workspace \in BOOLEAN
    /\ {manifest, left} \subseteq Manifest
    /\ exec \in [pc : ExecPC, result : Manifest]
    \* the workspace lasts as long as the call needs it, and the supervisor runs only in it
    /\ workspace <=> exec.pc \in {"open", "run", "load"}
    /\ sup.pc # "idle" => exec.pc \in {"run", "load", "returned", "raised"}

\* bubblewrap unshares the pid namespace (--unshare-all); seatbelt only confines.
Contained == RequireSandbox /\ backend = "bubblewrap"

Init ==
    /\ S!Init
    /\ backend \in Backend
    \* a new workspace holds the inputs only
    /\ \A u \in Usage :
           usage.bytes <= u.bytes /\ usage.files <= u.files /\ usage.unseen <= u.unseen
    /\ usage.readable
    /\ contained = Contained
    /\ workspace = FALSE
    /\ manifest = None
    /\ left = None
    /\ exec = [pc |-> "idle", result |-> None]

Goto(pc) == exec' = [exec EXCEPT !.pc = pc]

\* Mutant: the workspace of a failed job is kept.
Leave_Kept(pc) == Goto(pc) /\ workspace' = (pc = "raised")

\* The context manager removes the workspace however the call ends.
Leave(pc) == Goto(pc) /\ workspace' = FALSE

----------------------------------------------------------------------------
(* execute.                                                                *)

\* The probe fails closed; then the workspace is made.
execute ==
    /\ exec.pc = "idle"
    /\ IF RequireSandbox /\ backend = "none"
       THEN Goto("raised") /\ UNCHANGED workspace
       ELSE Goto("open") /\ workspace' = TRUE
    /\ UNCHANGED <<supervisorVars, backend, manifest, left>>

\* _materialize_inputs, the request, the sandboxed command line.
prepare ==
    /\ exec.pc = "open"
    /\ \/ Goto("run") /\ UNCHANGED workspace
       \/ InputsMayFail /\ Leave("raised")
    /\ UNCHANGED <<supervisorVars, backend, manifest, left>>

runner ==
    /\ exec.pc = "run"
    /\ S!Popen(S!Scan)
    /\ UNCHANGED <<backend, workspace, manifest, left, exec>>

\* Mutant: the exit code is not looked at, the outputs speak for themselves.
ProcessFailed_Never == FALSE

ProcessFailed == sup.rc # "0"

\* run_supervised returned or raised.
run_ended ==
    /\ exec.pc = "run"
    /\ S!Ended
    /\ IF sup.pc = "raised" \/ ProcessFailed
       THEN Leave("raised") ELSE Goto("load") /\ UNCHANGED workspace
    /\ UNCHANGED <<supervisorVars, backend, manifest, left>>

\* _load_outputs: a manifest that lists something, of known kinds, at files of its own.
Loadable(m) ==
    /\ m # None /\ m # <<>>
    /\ \A i \in DOMAIN m : m[i].kind \in {"code", "test_report"} /\ m[i].path = "inside"

\* validate_adapter_outputs for a kind: every output is well formed, one is of the kind.
Valid(m, kind) ==
    /\ \A i \in DOMAIN m : m[i].content = "valid"
    /\ \A i, j \in DOMAIN m : m[i].file = m[j].file => i = j
    /\ \E i \in DOMAIN m : m[i].kind = kind

load ==
    /\ exec.pc = "load"
    /\ IF Loadable(manifest) /\ \A kind \in {"code", "test_report"} : Valid(manifest, kind)
       THEN exec' = [pc |-> "returned", result |-> manifest] /\ workspace' = FALSE
       ELSE Leave("raised")
    /\ UNCHANGED <<supervisorVars, backend, manifest, left>>

----------------------------------------------------------------------------
(* The run.                                                                *)

Running == exec.pc \in {"run", "load", "returned", "raised"}

\* Whatever can still run may write to outputs, while there is a workspace.
WriteOutputs ==
    /\ workspace /\ S!Active
    /\ manifest' \in Manifest
    /\ UNCHANGED <<supervisorVars, backend, workspace, left, exec>>

\* The supervisor's and the command's steps.
SupervisorStep(step) ==
    /\ step
    /\ left' = IF main \in {"alive", "killed"} /\ main' = "dead" THEN manifest ELSE left
    /\ UNCHANGED <<backend, workspace, manifest, exec>>

Next ==
    \/ execute \/ prepare \/ runner \/ run_ended \/ load \/ WriteOutputs
    \/ SupervisorStep(S!Output) \/ SupervisorStep(S!Write)
    \/ \E k \in Kid : SupervisorStep(S!Spawn(k)) \/ SupervisorStep(S!KidStep(k))
    \/ \E c \in {"0", "1"} : SupervisorStep(S!Exit(c))
    \/ SupervisorStep(S!Dies) \/ SupervisorStep(S!reader_read)
    \/ SupervisorStep(S!SupStep) \/ SupervisorStep(S!wait_expired) \/ SupervisorStep(S!Tick)
    \/ SupervisorStep(S!close_early)

Spec == Init /\ [][Next]_vars

\* The adapter's threads run on, time passes, and what was killed dies; nothing is
\* asked of the command.
FairSpec ==
    /\ Spec
    /\ WF_vars(execute \/ prepare \/ runner \/ run_ended \/ load)
    /\ WF_vars(SupervisorStep(S!SupStep \/ S!wait_expired))
    /\ WF_vars(SupervisorStep(S!reader_read))
    /\ WF_vars(SupervisorStep(S!Tick))
    /\ WF_vars(SupervisorStep(S!Dies))

----------------------------------------------------------------------------
(* Properties.                                                             *)

\* What execute returns is what a command that finished by itself left: never what a
\* killed one had written so far, and in a pid namespace never touched by a process that
\* outlived the command (hermes.py:334, supervisor.py:217).
AcceptedIsLeft ==
    exec.pc = "returned" => /\ code = "0"
                            /\ contained => exec.result = left

\* A result is accepted only if everything the command printed, and everything it left
\* where the supervisor measures, is within the budgets, also what came after the last
\* turn of the monitor (supervisor.py:242).  Not measured are the root's .git and files
\* that cannot be examined (unseen), and a workspace that cannot be listed or has more
\* than ScanLimit files.
AcceptedWithinBudget ==
    exec.pc \in {"load", "returned"} /\ contained =>
        /\ DrainsInTime => out <= OutBudget
        /\ S!Measurable => S!Exceeds(S!Seen) = None

\* Nothing survives the run: in a pid namespace no process at all, elsewhere none of the
\* process group of a command that was killed (_kill_tree).
TreeGone ==
    /\ S!Ended /\ contained /\ main = "reaped" => ~S!Active
    /\ S!Ended /\ code = "signal" => \A k \in Kid : kids[k] # "group"

\* The call ends after the deadline at the latest, whatever the command does, unless a
\* process outside the sandbox holds on to the output pipe (supervisor.py:175, :227).
EndsInTime ==
    exec.pc = "run" ~> \/ exec.pc \in {"returned", "raised"}
                       \/ ~contained /\ main \in {"dead", "reaped"} /\ pipe # {}
=============================================================================
