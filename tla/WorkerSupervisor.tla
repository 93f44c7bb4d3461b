-------------------------- MODULE WorkerSupervisor --------------------------
(***************************************************************************)
(* run_supervised (workers/supervisor.py): a command and the processes it  *)
(* starts, the thread that drains their output, and the loop that watches  *)
(* the clock, the output and the workspace and kills the process group.    *)
(*                                                                         *)
(* Output is counted in reads of the drain thread; the workspace is the    *)
(* bytes and files a scan counts, what it passes over (the root's .git and *)
(* files it cannot examine), and whether all its directories can be listed.*)
(* All are small numbers: the budgets are constants.                       *)
(***************************************************************************)
EXTENDS Naturals

CONSTANTS
    Kid,                                    \* processes the command may start
    OutBudget, ByteBudget, FileBudget,      \* SupervisorPolicy
    ScanLimit,                              \* MAX_SCAN_FILES
    MaxOut, Usage,                          \* bounds: output; sizes of a workspace
    Stuck,                                  \* TRUE: a killed process may take long to die
    DrainsInTime,                           \* TRUE: the drain thread reaches an end of the
                                            \* output that is there before drain gives up
    None

VARIABLES
    main,       \* the command's process
    code,       \* what it exited with
    kids,       \* the processes it started
    pipe,       \* those of them that hold the output pipe open
    contained,  \* the command is the first process of its own pid namespace
    out,        \* reads' worth of output written to the pipe
    usage,      \* the workspace: [bytes, files, unseen, readable]
    reader,     \* the drain thread
    counted,    \* output_total
    late,       \* the deadline has passed
    sup         \* run_supervised itself

procVars == <<main, code, kids, pipe, contained, out, usage>>
supVars == <<reader, counted, late, sup>>
vars == <<procVars, supVars>>

Reason == {"timeout", "output_budget_exceeded", "workspace_growth_budget_exceeded",
           "workspace_file_budget_exceeded"}
SupPC == {"idle", "monitor", "kill", "wait", "wait_again", "drain", "close", "check",
          "returned", "raised"}
Code == {"0", "1", "signal", "124", "125"}
IdleSup == [pc |-> "idle", reason |-> None, base |-> None, raising |-> FALSE, rc |-> None]

\* What a scan returns.
Measure == [bytes : Nat, files : Nat]

TypeOK ==
    /\ main \in {"none", "alive", "killed", "dead", "reaped"}
    /\ code \in {"0", "1", "signal", None}
    /\ kids \in [Kid -> {"none", "group", "session", "killed", "gone"}]
    /\ pipe \subseteq {k \in Kid : kids[k] \in {"group", "session", "killed"}}
    /\ contained \in BOOLEAN
    /\ out \in 0 .. MaxOut /\ counted \in 0 .. out
    /\ usage \in Usage
    /\ reader \in {"none", "reading", "done"}
    /\ late \in BOOLEAN
    /\ sup \in [pc : SupPC, reason : Reason \cup {None}, base : Measure \cup {None},
                raising : BOOLEAN, rc : Code \cup {None}]
    \* the exit code is there once the process is, and the process is reaped in the end
    /\ (code # None) <=> main \in {"dead", "reaped"}
    /\ sup.pc \in {"check", "returned"} => main = "reaped" /\ reader = "done"

Init ==
    /\ main = "none" /\ code = None
    /\ kids = [k \in Kid |-> "none"] /\ pipe = {}
    /\ contained \in BOOLEAN
    /\ out = 0
    /\ usage \in Usage
    /\ reader = "none" /\ counted = 0
    /\ late = FALSE
    /\ sup = IdleSup

Running(k) == kids[k] \in {"group", "session"}
Active == main = "alive" \/ \E k \in Kid : Running(k)

----------------------------------------------------------------------------
(* The command: anything a program does that matters to its supervisor.    *)

\* A write to a pipe that was closed at the other end fails.
Output ==
    /\ out < MaxOut /\ reader = "reading"
    /\ main = "alive" \/ \E k \in pipe : Running(k)
    /\ out' = out + 1
    /\ UNCHANGED <<main, code, kids, pipe, contained, usage, supVars>>

Write ==
    /\ Active
    /\ \E u \in Usage : usage' = u
    /\ UNCHANGED <<main, code, kids, pipe, contained, out, supVars>>

Spawn(k) ==
    /\ main = "alive" /\ kids[k] = "none"
    /\ kids' = [kids EXCEPT ![k] = "group"]
    /\ pipe' = pipe \cup {k}
    /\ UNCHANGED <<main, code, contained, out, usage, supVars>>

\* setsid, a redirection, or exit.
KidStep(k) ==
    /\ Running(k)
    /\ \/ kids[k] = "group" /\ kids' = [kids EXCEPT ![k] = "session"] /\ UNCHANGED pipe
       \/ k \in pipe /\ pipe' = pipe \ {k} /\ UNCHANGED kids
       \/ kids' = [kids EXCEPT ![k] = "gone"] /\ pipe' = pipe \ {k}
    /\ UNCHANGED <<main, code, contained, out, usage, supVars>>

\* With its first process a pid namespace loses all others.
MainEnds(c) ==
    /\ main' = "dead"
    /\ code' = c
    /\ IF contained
       THEN kids' = [k \in Kid |-> IF kids[k] = "none" THEN "none" ELSE "gone"] /\ pipe' = {}
       ELSE UNCHANGED <<kids, pipe>>
    /\ UNCHANGED <<contained, out, usage, supVars>>

Exit(c) == main = "alive" /\ MainEnds(c)

\* What SIGKILL was sent to is gone once the kernel gets to it.
MainDies == main = "killed" /\ MainEnds("signal")

KidDies(k) ==
    /\ kids[k] = "killed"
    /\ kids' = [kids EXCEPT ![k] = "gone"]
    /\ pipe' = pipe \ {k}
    /\ UNCHANGED <<main, code, contained, out, usage, supVars>>

Dies == MainDies \/ \E k \in Kid : KidDies(k)

----------------------------------------------------------------------------
(* The drain thread.                                                       *)

reader_read ==
    /\ reader = "reading"
    /\ \/ counted < out /\ counted' = counted + 1 /\ UNCHANGED reader
       \* end of file: nobody holds the other end
       \/ /\ counted = out /\ main \in {"dead", "reaped"} /\ pipe = {}
          /\ reader' = "done" /\ UNCHANGED counted
    /\ UNCHANGED <<procVars, late, sup>>

----------------------------------------------------------------------------
(* run_supervised.                                                         *)

Tick == late' = (sup.pc # "idle") /\ UNCHANGED <<procVars, reader, counted, sup>>

\* Symbolic links are passed over: what they lead to is elsewhere, or counted there.
Seen == [bytes |-> usage.bytes, files |-> usage.files]

Measurable == usage.readable /\ usage.files <= ScanLimit

\* _workspace_usage: None where there are too many files or a directory cannot be listed,
\* and when one disappears under the scan.
Scan == {IF Measurable THEN Seen ELSE None} \cup IF Active THEN {None} ELSE {}

Popen(usages) ==
    /\ sup.pc = "idle"
    /\ main' = "alive"
    /\ reader' = "reading"
    /\ \E b \in usages : sup' = [sup EXCEPT !.pc = "monitor", !.base = b]
    /\ UNCHANGED <<code, kids, pipe, contained, out, usage, counted, late>>

Goto(pc) == sup' = [sup EXCEPT !.pc = pc]

\* max(0, current - baseline) against the policy, the first budget first.
Exceeds(now) ==
    IF sup.base = None \/ now = None THEN None
    ELSE IF now.bytes > sup.base.bytes + ByteBudget THEN "workspace_growth_budget_exceeded"
    ELSE IF now.files > sup.base.files + FileBudget THEN "workspace_file_budget_exceeded"
    ELSE None

\* One turn of the loop: poll, the deadline, the output, and when a scan is due the
\* workspace.
monitor ==
    /\ sup.pc = "monitor"
    /\ IF main = "dead"
       THEN Goto("wait") /\ main' = "reaped"
       ELSE /\ \E now \in Scan \cup {None} :
                   LET reason == IF late THEN "timeout"
                                 ELSE IF counted > OutBudget THEN "output_budget_exceeded"
                                 ELSE Exceeds(now)
                   IN sup' = [sup EXCEPT !.pc = IF reason = None THEN "monitor" ELSE "kill",
                                         !.reason = reason]
            /\ UNCHANGED main
    /\ UNCHANGED <<code, kids, pipe, contained, out, usage, reader, counted, late>>

\* Mutant: the signal goes to the process instead of its group.
Killed_MainOnly(k) == kids[k]

\* killpg reaches what is still in the command's process group.
Killed(k) == IF kids[k] = "group" THEN "killed" ELSE kids[k]

\* Mutant: SIGTERM alone, which the command may ignore.
MainKilled_TermOnly == main

MainKilled == IF main = "alive" THEN "killed" ELSE main

_kill_tree ==
    /\ main' = MainKilled
    /\ kids' = [k \in Kid |-> Killed(k)]
    /\ UNCHANGED <<code, pipe, contained, out, usage>>

kill == sup.pc = "kill" /\ _kill_tree /\ Goto("wait") /\ UNCHANGED <<reader, counted, late>>

\* process.wait(timeout=2), a second kill, process.wait(timeout=2) again.
wait ==
    /\ sup.pc \in {"wait", "wait_again"}
    /\ main \in {"dead", "reaped"}
    /\ main' = "reaped"
    /\ sup' = [sup EXCEPT !.pc = "drain", !.rc = code]
    /\ UNCHANGED <<code, kids, pipe, contained, out, usage, reader, counted, late>>

wait_expired ==
    /\ main \in {"alive", "killed"}
    /\ main = "killed" => Stuck
    /\ \/ sup.pc = "wait" /\ _kill_tree /\ Goto("wait_again")
       \/ /\ sup.pc = "wait_again"
          /\ sup' = [sup EXCEPT !.pc = "drain", !.raising = TRUE]
          /\ UNCHANGED procVars
    /\ UNCHANGED <<reader, counted, late>>

\* done.wait and thread.join, each up to a second.
drain == sup.pc = "drain" /\ Goto("close") /\ UNCHANGED <<procVars, reader, counted, late>>

Closed == Goto(IF sup.raising THEN "raised" ELSE "check")

\* stdout.close() waits for the buffer's lock, which the drain thread holds as long as
\* it is in read: until the output has ended,
close ==
    /\ sup.pc = "close"
    /\ reader = "done"
    /\ Closed
    /\ UNCHANGED <<procVars, reader, counted, late>>

\* or until a read is complete and the lock is free for a moment.  The next read fails,
\* what is left in the pipe is lost, and what was just read may be counted too late.
close_early ==
    /\ sup.pc = "close"
    /\ reader = "reading" /\ counted < out
    /\ DrainsInTime => ~(main \in {"dead", "reaped"} /\ pipe = {})
    /\ reader' = "done"
    /\ counted' \in {counted, counted + 1}
    /\ Closed
    /\ UNCHANGED <<procVars, late>>

\* Mutant: only what the loop saw counts.
FinalReason_LoopOnly(now) == sup.reason

\* The checks after the process has ended, for what the loop did not see.
FinalReason(now) ==
    IF sup.reason # None THEN sup.reason
    ELSE IF counted > OutBudget THEN "output_budget_exceeded"
    ELSE Exceeds(now)

check ==
    /\ sup.pc = "check"
    /\ \E now \in Scan :
           LET reason == FinalReason(now)
           IN sup' = [sup EXCEPT !.pc = "returned", !.reason = reason,
                                 !.rc = IF reason = None THEN @
                                        ELSE IF reason = "timeout" THEN "124" ELSE "125"]
    /\ UNCHANGED <<procVars, reader, counted, late>>

SupStep == monitor \/ kill \/ wait \/ drain \/ close \/ check

Command == Output \/ Write \/ (\E k \in Kid : Spawn(k) \/ KidStep(k)) \/ \E c \in {"0", "1"} : Exit(c)

Step == Command \/ Dies \/ reader_read \/ SupStep \/ close_early \/ wait_expired \/ Tick

Ended == sup.pc \in {"returned", "raised"}
=============================================================================
