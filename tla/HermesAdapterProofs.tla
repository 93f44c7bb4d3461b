------------------------ MODULE HermesAdapterProofs ------------------------
(***************************************************************************)
(* What HermesAdapter promises for every set of processes the command may  *)
(* start, every size of a workspace and every budget, whatever the command *)
(* does and in whatever order its processes, the drain thread and the      *)
(* supervisor take their steps.                                            *)
(***************************************************************************)
EXTENDS HermesAdapter, TLAPS

----------------------------------------------------------------------------
(* The inductive invariant.                                                *)

Over == main \in {"dead", "reaped"}

\* The command runs from Popen on.
Launched == sup.pc = "idle" <=> main = "none"

\* Past the wait, a supervisor that does not raise has reaped the command and holds its
\* exit code.
Collected ==
    /\ sup.pc \in {"drain", "close", "check"} /\ ~sup.raising => main = "reaped" /\ sup.rc = code
    /\ sup.raising => sup.pc \in {"drain", "close", "raised"}

\* What run_supervised returns is the command's own code, or one of its own that no
\* command of the model exits with.
Reported == sup.pc = "returned" => sup.rc = code \/ sup.rc \in {"124", "125"}

\* A pid namespace whose first process has ended is empty, and nobody writes any more.
Emptied ==
    contained /\ Over =>
        /\ \A k \in Kid : kids[k] \in {"none", "gone"}
        /\ pipe = {}
        /\ left = manifest

\* The kill of the group left nobody in it, and who is not alive starts nobody.
GroupGone == main = "killed" \/ code = "signal" => \A k \in Kid : kids[k] # "group"

\* In a pid namespace a drain thread in time reads to the end of all the output there will
\* be, unless the command would not die.
Drained ==
    DrainsInTime /\ contained /\ reader = "done" /\ ~sup.raising => Over /\ counted = out

\* A code of the command's own is returned only after the last checks passed.
Measured ==
    sup.pc = "returned" /\ sup.rc = code /\ contained =>
        /\ DrainsInTime => out <= OutBudget
        /\ S!Measurable => S!Exceeds(S!Seen) = None

\* The outputs are read after a run that returned 0, and accepted as they were read.
Accepting ==
    /\ exec.pc \in {"load", "returned"} => sup.pc = "returned" /\ sup.rc = "0"
    /\ exec.pc = "returned" /\ contained => exec.result = manifest

HermesInv ==
    /\ TypeOK
    /\ Launched
    /\ Collected
    /\ Reported
    /\ Emptied
    /\ GroupGone
    /\ Drained
    /\ Measured
    /\ Accepting

LEMMA InvParts ==
    ASSUME HermesInv
    PROVE  /\ main \in {"none", "alive", "killed", "dead", "reaped"}
           /\ code \in {"0", "1", "signal", None}
           /\ kids \in [Kid -> {"none", "group", "session", "killed", "gone"}]
           /\ pipe \subseteq {k \in Kid : kids[k] \in {"group", "session", "killed"}}
           /\ contained \in BOOLEAN /\ out \in 0 .. MaxOut /\ counted \in 0 .. out
           /\ MaxOut \in Nat /\ out \in Nat /\ counted \in Nat
           /\ usage \in Usage /\ S!Seen \in S!Measure
           /\ reader \in {"none", "reading", "done"} /\ late \in BOOLEAN
           /\ sup.pc \in S!SupPC /\ sup.reason \in S!Reason \cup {None}
           /\ sup.base \in S!Measure \cup {None} /\ sup.raising \in BOOLEAN
           /\ sup.rc \in S!Code \cup {None}
           /\ code # None <=> Over
           /\ sup.pc \in {"check", "returned"} => main = "reaped" /\ reader = "done"
           /\ exec.pc \in ExecPC /\ exec.result \in Manifest
BY HermesAssumption DEF HermesInv, TypeOK, S!TypeOK, Over, S!Seen, S!Measure

----------------------------------------------------------------------------
(* The command's processes.                                                *)

LEMMA InitInv == Init => HermesInv
<1>. SUFFICES ASSUME Init PROVE HermesInv
  OBVIOUS
<1>. USE DEF Init, S!Init
<1>1. sup \in [pc : S!SupPC, reason : S!Reason \cup {None}, base : S!Measure \cup {None},
               raising : BOOLEAN, rc : S!Code \cup {None}]
  BY DEF S!IdleSup, S!SupPC
<1>2. sup.pc = "idle" /\ sup.raising = FALSE
  BY DEF S!IdleSup
<1>3. contained \in BOOLEAN
  BY HermesAssumption DEF Contained
<1>4. exec \in [pc : ExecPC, result : Manifest] /\ exec.pc = "idle"
  BY HermesAssumption DEF ExecPC
<1>5. MaxOut \in Nat /\ None \in Manifest
  BY HermesAssumption
<1>6. S!TypeOK
  <2>1. /\ kids \in [Kid -> {"none", "group", "session", "killed", "gone"}]
        /\ pipe = {} /\ usage \in Usage /\ out \in 0 .. MaxOut /\ counted \in 0 .. out
    BY <1>5
  <2>. QED  BY <1>1, <1>2, <1>3, <2>1 DEF S!TypeOK
<1>7. TypeOK
  BY <1>2, <1>4, <1>5, <1>6 DEF TypeOK
<1>. QED
  BY <1>2, <1>4, <1>7, HermesAssumption
     DEF HermesInv, Launched, Collected, Reported, Emptied, GroupGone, Drained, Measured,
         Accepting, Over, S!Code

\* Output and writes of what still runs.
LEMMA ActiveKeeps ==
    ASSUME HermesInv, SupervisorStep(S!Output) \/ SupervisorStep(S!Write)
    PROVE  HermesInv'
<1>. USE InvParts DEF HermesInv
<1>1. /\ UNCHANGED <<main, code, kids, pipe, contained, reader, counted, late, sup, left>>
      /\ UNCHANGED <<backend, workspace, manifest, exec>>
      /\ ~(Over /\ contained)
      /\ out' \in 0 .. MaxOut /\ counted \in 0 .. out' /\ usage' \in Usage
  BY HermesAssumption
     DEF SupervisorStep, S!Output, S!Write, S!Active, S!Running, S!supVars, Emptied, Over
<1>2. TypeOK'
  BY <1>1 DEF TypeOK, S!TypeOK
<1>3. Launched' /\ Collected' /\ Reported' /\ Emptied' /\ GroupGone' /\ Drained'
  BY <1>1 DEF Launched, Collected, Reported, Emptied, GroupGone, Drained, Over
<1>4. Measured' /\ Accepting'
  BY <1>1 DEF Measured, Accepting, Over
<1>. QED  BY <1>2, <1>3, <1>4

\* A process is started, leaves the group, lets go of the pipe or ends.
LEMMA KidKeeps ==
    ASSUME HermesInv, NEW k \in Kid,
           \/ SupervisorStep(S!Spawn(k)) \/ SupervisorStep(S!KidStep(k))
           \/ SupervisorStep(S!KidDies(k))
    PROVE  HermesInv'
<1>. USE InvParts DEF HermesInv
<1>1. /\ UNCHANGED <<main, code, contained, out, usage, reader, counted, late, sup, left>>
      /\ UNCHANGED <<backend, workspace, manifest, exec>>
  BY DEF SupervisorStep, S!Spawn, S!KidStep, S!KidDies, S!supVars
<1>2. \E to \in {"group", "session", "killed", "gone"} : kids' = [kids EXCEPT ![k] = to]
  BY DEF SupervisorStep, S!Spawn, S!KidStep, S!KidDies, S!Running
<1>3. /\ kids' \in [Kid -> {"none", "group", "session", "killed", "gone"}]
      /\ \A j \in Kid \ {k} : kids'[j] = kids[j]
  BY <1>2
<1>4. /\ pipe' \subseteq pipe \cup {k}
      /\ k \in pipe' => kids'[k] \in {"group", "session", "killed"}
      /\ kids'[k] = "group" => kids[k] = "group" \/ main = "alive"
      /\ kids[k] \in {"none", "gone"} => main = "alive"
  BY DEF SupervisorStep, S!Spawn, S!KidStep, S!KidDies, S!Running
<1>5. TypeOK'
  BY <1>1, <1>3, <1>4 DEF TypeOK, S!TypeOK
<1>6. Emptied' /\ GroupGone'
  BY <1>1, <1>3, <1>4, HermesAssumption DEF Emptied, GroupGone, Over, S!Code
<1>7. /\ Launched' /\ Collected' /\ Reported' /\ Drained' /\ Accepting'
  BY <1>1 DEF Launched, Collected, Reported, Drained, Accepting, Over
<1>8. Measured'
  BY <1>1 DEF Measured, S!Exceeds, S!Seen, S!Measurable
<1>. QED  BY <1>5, <1>6, <1>7, <1>8

\* The command ends, by itself or killed; in a pid namespace so do all it started.
LEMMA MainKeeps ==
    ASSUME HermesInv,
           \/ \E c \in {"0", "1"} : SupervisorStep(S!Exit(c))
           \/ SupervisorStep(S!MainDies)
    PROVE  HermesInv'
<1>. USE InvParts DEF HermesInv
<1>1. PICK c \in {"0", "1", "signal"} : /\ S!MainEnds(c) /\ main \in {"alive", "killed"}
                                        /\ c = "signal" => main = "killed"
  BY DEF SupervisorStep, S!Exit, S!MainDies
<1>2. /\ UNCHANGED <<contained, out, usage, reader, counted, late, sup>>
      /\ UNCHANGED <<backend, workspace, manifest, exec>>
      /\ main' = "dead" /\ code' = c /\ left' = manifest
  BY <1>1 DEF SupervisorStep, S!MainEnds, S!supVars
<1>3. /\ kids' \in [Kid -> {"none", "group", "session", "killed", "gone"}]
      /\ pipe' \subseteq {k \in Kid : kids'[k] \in {"group", "session", "killed"}}
      /\ contained => pipe' = {} /\ \A k \in Kid : kids'[k] \in {"none", "gone"}
      /\ \A k \in Kid : kids'[k] = "group" => kids[k] = "group"
  <2>1. CASE contained
    <3>1. pipe' = {} /\ kids' = [k \in Kid |-> IF kids[k] = "none" THEN "none" ELSE "gone"]
      BY <1>1, <2>1 DEF S!MainEnds
    <3>. QED  BY <3>1
  <2>2. CASE ~contained
    BY <1>1, <2>2 DEF S!MainEnds
  <2>. QED  BY <2>1, <2>2
<1>4. TypeOK'
  BY <1>1, <1>2, <1>3, HermesAssumption DEF TypeOK, S!TypeOK, S!Code, Over
<1>5. Emptied' /\ GroupGone'
  BY <1>1, <1>2, <1>3 DEF Emptied, GroupGone, Over
<1>6. Launched' /\ Collected' /\ Reported' /\ Drained' /\ Accepting' /\ Measured'
  BY <1>1, <1>2 DEF Launched, Collected, Reported, Drained, Accepting, Measured, Over
<1>. QED  BY <1>4, <1>5, <1>6

----------------------------------------------------------------------------
(* The drain thread and the supervisor.                                    *)

LEMMA ReaderKeeps ==
    ASSUME HermesInv, SupervisorStep(S!reader_read) \/ SupervisorStep(S!Tick)
    PROVE  HermesInv'
<1>. USE InvParts DEF HermesInv
<1>1. /\ UNCHANGED <<main, code, kids, pipe, contained, out, usage, sup, left>>
      /\ UNCHANGED <<backend, workspace, manifest, exec>>
      /\ late' \in BOOLEAN /\ counted' \in 0 .. out
      /\ reader' = reader \/ (reader' = "done" /\ Over)
      /\ reader' = "done" => counted' = counted /\ (reader = "done" \/ counted = out)
  <2>1. CASE SupervisorStep(S!Tick)
    BY <2>1 DEF SupervisorStep, S!Tick, S!procVars, Over
  <2>2. CASE SupervisorStep(S!reader_read)
    BY <2>2 DEF SupervisorStep, S!reader_read, S!procVars, Over
  <2>. QED  BY <2>1, <2>2
<1>2. TypeOK'
  BY <1>1 DEF TypeOK, S!TypeOK
<1>3. /\ Launched' /\ Collected' /\ Reported' /\ Emptied' /\ GroupGone' /\ Drained' /\ Accepting'
  BY <1>1 DEF Launched, Collected, Reported, Emptied, GroupGone, Drained, Accepting, Over
<1>4. Measured'
  BY <1>1 DEF Measured, S!Exceeds, S!Seen, S!Measurable
<1>. QED  BY <1>2, <1>3, <1>4

\* The supervisor's record.
SupType == [pc : S!SupPC, reason : S!Reason \cup {None}, base : S!Measure \cup {None},
            raising : BOOLEAN, rc : S!Code \cup {None}]

LEMMA ReasonType ==
    ASSUME NEW now
    PROVE  S!Exceeds(now) \in S!Reason \cup {None} /\ S!FinalReason(now) \in S!Reason \cup {sup.reason, None}
BY DEF S!Exceeds, S!FinalReason, S!Reason

\* A step of the supervisor that touches none of the processes but to reap the command,
\* and stays short of its result.
LEMMA SupKeeps ==
    ASSUME HermesInv, sup' \in SupType, sup.pc # "idle", sup'.pc # "idle",
           sup.pc # "returned", sup'.pc # "returned", sup.raising => sup'.raising,
           main' = main \/ (main = "dead" /\ main' = "reaped"),
           UNCHANGED <<code, kids, pipe, contained, out, usage, reader, counted, late, left>>,
           UNCHANGED <<backend, workspace, manifest, exec>>,
           sup'.pc = "check" => main' = "reaped" /\ reader = "done",
           Collected'
    PROVE  HermesInv'
<1>. USE InvParts DEF HermesInv
<1>1. TypeOK'
  BY DEF TypeOK, S!TypeOK, SupType
<1>2. Launched' /\ Reported' /\ Emptied' /\ GroupGone' /\ Drained' /\ Measured' /\ Accepting'
  BY DEF Launched, Reported, Emptied, GroupGone, Drained, Measured, Accepting, Over
<1>. QED  BY <1>1, <1>2

\* A turn of the loop.
LEMMA MonitorKeeps ==
    ASSUME HermesInv, SupervisorStep(S!monitor)
    PROVE  HermesInv'
<1>. USE InvParts DEF HermesInv
<1>1. sup \in SupType /\ sup.pc = "monitor" /\ sup.raising = FALSE
  BY DEF TypeOK, S!TypeOK, SupType, SupervisorStep, S!monitor, Collected
<1>2. CASE main = "dead"
  <2>1. main' = "reaped" /\ sup' = [sup EXCEPT !.pc = "wait"]
    BY <1>2 DEF SupervisorStep, S!monitor, S!Goto
  <2>2. sup' \in SupType /\ sup'.pc = "wait" /\ sup'.raising = FALSE
    BY <1>1, <2>1 DEF SupType, S!SupPC
  <2>. QED
    BY <1>1, <1>2, <2>1, <2>2, SupKeeps DEF SupervisorStep, S!monitor, Collected
<1>3. CASE main # "dead"
  <2>1. PICK reason \in S!Reason \cup {None} :
            /\ main' = main
            /\ sup' = [sup EXCEPT !.pc = IF reason = None THEN "monitor" ELSE "kill",
                                  !.reason = reason]
    <3>1. PICK now :
              LET reason == IF late THEN "timeout"
                            ELSE IF counted > OutBudget THEN "output_budget_exceeded"
                            ELSE S!Exceeds(now)
              IN sup' = [sup EXCEPT !.pc = IF reason = None THEN "monitor" ELSE "kill",
                                    !.reason = reason]
      BY <1>3 DEF SupervisorStep, S!monitor
    <3>. DEFINE reason == IF late THEN "timeout"
                          ELSE IF counted > OutBudget THEN "output_budget_exceeded"
                          ELSE S!Exceeds(now)
    <3>2. reason \in S!Reason \cup {None}
      BY ReasonType DEF S!Reason
    <3>3. main' = main /\ sup' = [sup EXCEPT !.pc = IF reason = None THEN "monitor" ELSE "kill",
                                             !.reason = reason]
      BY <1>3, <3>1 DEF SupervisorStep, S!monitor
    <3>. HIDE DEF reason
    <3>. QED  BY <3>2, <3>3
  <2>. DEFINE pc == IF reason = None THEN "monitor" ELSE "kill"
  <2>2. pc \in {"monitor", "kill"} /\ sup' = [sup EXCEPT !.pc = pc, !.reason = reason]
    BY <2>1
  <2>. HIDE DEF pc
  <2>3. sup' \in SupType /\ sup'.pc = pc /\ sup'.raising = FALSE
    BY <1>1, <2>2 DEF SupType, S!SupPC
  <2>. QED
    BY <1>1, <1>3, <2>1, <2>2, <2>3, SupKeeps DEF SupervisorStep, S!monitor, Collected
<1>. QED  BY <1>2, <1>3

\* The group is killed: by the loop, or by a wait that expired.
LEMMA KillKeeps ==
    ASSUME HermesInv,
           SupervisorStep(S!kill) \/ (SupervisorStep(S!wait_expired) /\ sup.pc = "wait")
    PROVE  HermesInv'
<1>. USE InvParts DEF HermesInv
<1>1. PICK pc \in {"wait", "wait_again"} : S!_kill_tree /\ sup' = [sup EXCEPT !.pc = pc]
  BY DEF SupervisorStep, S!kill, S!wait_expired, S!Goto
<1>2. /\ UNCHANGED <<code, pipe, contained, out, usage, reader, counted, late>>
      /\ UNCHANGED <<backend, workspace, manifest, exec>>
      /\ sup.pc \in {"kill", "wait"}
      /\ main' = IF main = "alive" THEN "killed" ELSE main
      /\ kids' = [k \in Kid |-> IF kids[k] = "group" THEN "killed" ELSE kids[k]]
  BY <1>1 DEF SupervisorStep, S!kill, S!wait_expired, S!_kill_tree, S!MainKilled, S!Killed
<1>3. left' = left
  BY <1>2 DEF SupervisorStep
<1>4. sup \in SupType /\ sup.raising = FALSE
  BY <1>2 DEF TypeOK, S!TypeOK, SupType, Collected
<1>5. sup' \in SupType /\ sup'.pc = pc /\ sup'.raising = FALSE
  BY <1>1, <1>4 DEF SupType, S!SupPC
<1>6. /\ kids' \in [Kid -> {"none", "group", "session", "killed", "gone"}]
      /\ \A k \in Kid : kids'[k] # "group"
      /\ \A k \in Kid : kids[k] # "group" => kids'[k] = kids[k]
      /\ pipe \subseteq {k \in Kid : kids'[k] \in {"group", "session", "killed"}}
  BY <1>2
<1>7. TypeOK'
  BY <1>2, <1>3, <1>5, <1>6 DEF TypeOK, S!TypeOK, SupType, Over
<1>8. Emptied' /\ GroupGone' /\ Drained'
  BY <1>2, <1>3, <1>4, <1>5, <1>6 DEF Emptied, GroupGone, Drained, Over
<1>9. Launched' /\ Collected' /\ Reported' /\ Measured' /\ Accepting'
  BY <1>2, <1>3, <1>5 DEF Launched, Collected, Reported, Measured, Accepting
<1>. QED  BY <1>7, <1>8, <1>9

\* The waits, and the end of the drain.
LEMMA WaitKeeps ==
    ASSUME HermesInv,
           \/ SupervisorStep(S!wait) \/ (SupervisorStep(S!wait_expired) /\ sup.pc = "wait_again")
           \/ SupervisorStep(S!drain) \/ SupervisorStep(S!close)
    PROVE  HermesInv'
<1>. USE InvParts DEF HermesInv
<1>0. sup \in SupType
  BY DEF TypeOK, S!TypeOK, SupType
<1>1. CASE SupervisorStep(S!wait)
  <2>1. /\ sup.pc \in {"wait", "wait_again"} /\ sup.raising = FALSE /\ main' = "reaped"
        /\ main \in {"dead", "reaped"} /\ left' = left
        /\ UNCHANGED <<code, kids, pipe, contained, out, usage, reader, counted, late>>
        /\ UNCHANGED <<backend, workspace, manifest, exec>>
        /\ sup' = [sup EXCEPT !.pc = "drain", !.rc = code]
    BY <1>1 DEF SupervisorStep, S!wait, Collected
  <2>2. sup' \in SupType /\ sup'.pc = "drain" /\ sup'.raising = FALSE /\ sup'.rc = code
    BY <1>0, <2>1 DEF SupType, S!SupPC, S!Code
  <2>. QED  BY <2>1, <2>2, SupKeeps DEF Collected
<1>2. CASE SupervisorStep(S!wait_expired) /\ sup.pc = "wait_again"
  <2>1. /\ UNCHANGED S!procVars /\ UNCHANGED <<reader, counted, late>> /\ left' = left
        /\ UNCHANGED <<backend, workspace, manifest, exec>>
        /\ sup' = [sup EXCEPT !.pc = "drain", !.raising = TRUE]
    BY <1>2 DEF SupervisorStep, S!wait_expired, S!procVars
  <2>2. sup' \in SupType /\ sup'.pc = "drain" /\ sup'.raising = TRUE
    BY <1>0, <2>1 DEF SupType, S!SupPC
  <2>. QED  BY <1>2, <2>1, <2>2, SupKeeps DEF Collected, S!procVars
<1>3. CASE SupervisorStep(S!drain)
  <2>1. /\ sup.pc = "drain" /\ UNCHANGED S!procVars /\ UNCHANGED <<reader, counted, late>>
        /\ left' = left /\ UNCHANGED <<backend, workspace, manifest, exec>>
        /\ sup' = [sup EXCEPT !.pc = "close"]
    BY <1>3 DEF SupervisorStep, S!drain, S!Goto, S!procVars
  <2>2. sup' \in SupType /\ sup'.pc = "close" /\ sup'.raising = sup.raising /\ sup'.rc = sup.rc
    BY <1>0, <2>1 DEF SupType, S!SupPC
  <2>. QED  BY <2>1, <2>2, SupKeeps DEF Collected, S!procVars
<1>4. CASE SupervisorStep(S!close)
  <2>. DEFINE pc == IF sup.raising THEN "raised" ELSE "check"
  <2>1. /\ sup.pc = "close" /\ reader = "done"
        /\ UNCHANGED S!procVars /\ UNCHANGED <<reader, counted, late>>
        /\ left' = left /\ UNCHANGED <<backend, workspace, manifest, exec>>
        /\ sup' = [sup EXCEPT !.pc = pc]
    BY <1>4 DEF SupervisorStep, S!close, S!Closed, S!Goto, S!procVars
  <2>2. sup' \in SupType /\ sup'.pc = pc /\ sup'.raising = sup.raising /\ sup'.rc = sup.rc
    BY <1>0, <2>1 DEF SupType, S!SupPC
  <2>. QED  BY <2>1, <2>2, SupKeeps DEF Collected, S!procVars
<1>. QED  BY <1>1, <1>2, <1>3, <1>4

\* The pipe is closed under a drain thread that goes on reading: not, in time, in a pid
\* namespace that is empty.
LEMMA CloseKeeps ==
    ASSUME HermesInv, SupervisorStep(S!close_early)
    PROVE  HermesInv'
<1>. USE InvParts DEF HermesInv
<1>. DEFINE pc == IF sup.raising THEN "raised" ELSE "check"
<1>1. /\ sup.pc = "close" /\ reader = "reading" /\ reader' = "done" /\ counted < out
      /\ counted' \in {counted, counted + 1} /\ UNCHANGED S!procVars /\ UNCHANGED late
      /\ left' = left /\ UNCHANGED <<backend, workspace, manifest, exec>>
      /\ sup' = [sup EXCEPT !.pc = pc]
      /\ DrainsInTime => ~(Over /\ pipe = {})
  BY DEF SupervisorStep, S!close_early, S!Closed, S!Goto, S!procVars, Over
<1>2. sup \in SupType
  BY DEF TypeOK, S!TypeOK, SupType
<1>3. sup' \in SupType /\ sup'.pc = pc /\ sup'.raising = sup.raising /\ sup'.rc = sup.rc
  BY <1>1, <1>2 DEF SupType, S!SupPC
<1>4. ~sup.raising => main = "reaped" /\ sup.rc = code
  BY <1>1 DEF Collected
<1>5. DrainsInTime /\ contained => sup.raising
  BY <1>1, <1>4 DEF Emptied, Over
<1>6. TypeOK'
  <2>1. counted' \in 0 .. out
    BY <1>1
  <2>. QED  BY <1>1, <1>3, <1>4, <2>1 DEF TypeOK, S!TypeOK, SupType, S!procVars
<1>7. Launched' /\ Collected' /\ Reported' /\ Measured' /\ Accepting'
  BY <1>1, <1>3, <1>4
     DEF Launched, Collected, Reported, Measured, Accepting, Over, S!procVars
<1>8. Emptied' /\ GroupGone' /\ Drained'
  BY <1>1, <1>3, <1>5 DEF Emptied, GroupGone, Drained, Over, S!procVars
<1>. QED  BY <1>6, <1>7, <1>8

\* The last checks.  In a pid namespace nothing is active any more, so that the scan shows
\* the workspace as it stays, and a drain thread in time has counted all output.
LEMMA CheckKeeps ==
    ASSUME HermesInv, SupervisorStep(S!check)
    PROVE  HermesInv'
<1>. USE InvParts DEF HermesInv
<1>1. /\ sup.pc = "check" /\ main = "reaped" /\ reader = "done"
      /\ UNCHANGED S!procVars /\ UNCHANGED <<reader, counted, late>>
      /\ left' = left /\ UNCHANGED <<backend, workspace, manifest, exec>>
  BY DEF SupervisorStep, S!check, S!procVars
<1>2. sup \in SupType /\ sup.raising = FALSE /\ sup.rc = code
  BY <1>1 DEF TypeOK, S!TypeOK, SupType, Collected
<1>3. PICK now \in S!Scan :
          sup' = [sup EXCEPT !.pc = "returned", !.reason = S!FinalReason(now),
                             !.rc = IF S!FinalReason(now) = None THEN @
                                    ELSE IF S!FinalReason(now) = "timeout" THEN "124" ELSE "125"]
  BY DEF SupervisorStep, S!check
<1>. DEFINE reason == S!FinalReason(now)
            rc == IF reason = None THEN sup.rc ELSE IF reason = "timeout" THEN "124" ELSE "125"
<1>4. reason \in S!Reason \cup {None}
  BY ReasonType
<1>5. rc \in S!Code \cup {None} /\ (rc = code \/ rc \in {"124", "125"})
  BY <1>2 DEF S!Code
<1>6. rc = code /\ contained =>
          /\ DrainsInTime => out <= OutBudget
          /\ S!Measurable => S!Exceeds(S!Seen) = None
  <2>. SUFFICES ASSUME rc = code, contained
                PROVE  /\ DrainsInTime => out <= OutBudget
                       /\ S!Measurable => S!Exceeds(S!Seen) = None
    OBVIOUS
  <2>1. reason = None
    <3>1. None # "124" /\ None # "125"
      BY HermesAssumption DEF S!Code
    <3>. QED  BY <3>1
  <2>2. ~S!Active /\ (DrainsInTime => counted = out)
    BY <1>1, <1>2 DEF Emptied, Drained, Over, S!Active, S!Running
  <2>3. now = IF S!Measurable THEN S!Seen ELSE None
    BY <2>2 DEF S!Scan
  <2>4. ~(counted > OutBudget) /\ S!Exceeds(now) = None
    <3>1. None # "output_budget_exceeded"
      BY HermesAssumption DEF S!Reason
    <3>. QED  BY <2>1, <3>1 DEF S!FinalReason
  <2>5. OutBudget \in Nat /\ ScanLimit \in Nat
    BY HermesAssumption
  <2>. QED  BY <2>2, <2>3, <2>4, <2>5
<1>7. sup' \in SupType /\ sup'.pc = "returned" /\ sup'.raising = FALSE /\ sup'.rc = rc
      /\ sup'.base = sup.base
  <2>1. sup' = [sup EXCEPT !.pc = "returned", !.reason = reason, !.rc = rc]
    BY <1>2, <1>3 DEF SupType
  <2>. HIDE DEF reason, rc
  <2>. QED  BY <1>2, <1>4, <1>5, <2>1 DEF SupType, S!SupPC
<1>. HIDE DEF reason, rc
<1>8. TypeOK'
  BY <1>1, <1>7 DEF TypeOK, S!TypeOK, SupType, S!procVars
<1>9. Measured'
  BY <1>1, <1>6, <1>7 DEF Measured, S!Exceeds, S!Seen, S!Measurable, S!procVars
<1>10. /\ Launched' /\ Collected' /\ Reported' /\ Emptied' /\ GroupGone' /\ Drained'
       /\ Accepting'
  BY <1>1, <1>5, <1>7
     DEF Launched, Collected, Reported, Emptied, GroupGone, Drained, Accepting, Over, S!procVars
<1>. QED  BY <1>8, <1>9, <1>10

LEMMA SupervisorKeeps ==
    ASSUME HermesInv,
           \/ SupervisorStep(S!SupStep) \/ SupervisorStep(S!wait_expired)
           \/ SupervisorStep(S!reader_read) \/ SupervisorStep(S!Tick)
           \/ SupervisorStep(S!close_early)
    PROVE  HermesInv'
<1>1. CASE SupervisorStep(S!SupStep)
  <2>1. \/ SupervisorStep(S!monitor) \/ SupervisorStep(S!kill) \/ SupervisorStep(S!wait)
        \/ SupervisorStep(S!drain) \/ SupervisorStep(S!close) \/ SupervisorStep(S!check)
    BY <1>1 DEF SupervisorStep, S!SupStep
  <2>. QED  BY <2>1, MonitorKeeps, KillKeeps, WaitKeeps, CheckKeeps
<1>2. CASE SupervisorStep(S!wait_expired)
  <2>1. sup.pc \in {"wait", "wait_again"}
    BY <1>2 DEF SupervisorStep, S!wait_expired
  <2>. QED  BY <1>2, <2>1, KillKeeps, WaitKeeps
<1>. QED  BY <1>1, <1>2, ReaderKeeps, CloseKeeps

----------------------------------------------------------------------------
(* The adapter.                                                            *)

\* The command is started, in a workspace that was measured before it.
LEMMA RunnerKeeps ==
    ASSUME HermesInv, runner
    PROVE  HermesInv'
<1>. USE InvParts DEF HermesInv
<1>1. /\ sup.pc = "idle" /\ exec.pc = "run" /\ main' = "alive" /\ reader' = "reading"
      /\ UNCHANGED <<code, kids, pipe, contained, out, usage, counted, late>>
      /\ UNCHANGED <<backend, workspace, manifest, left, exec>>
  BY DEF runner, S!Popen
<1>2. main = "none" /\ sup.raising = FALSE
  BY <1>1 DEF Launched, Collected
<1>3. PICK b \in S!Scan : sup' = [sup EXCEPT !.pc = "monitor", !.base = b]
  BY DEF runner, S!Popen
<1>4. b \in S!Measure \cup {None}
  BY DEF S!Scan, S!Seen, S!Measure
<1>5. sup' \in SupType /\ sup'.pc = "monitor" /\ sup'.raising = FALSE
  <2>1. sup \in SupType
    BY DEF TypeOK, S!TypeOK, SupType
  <2>. QED  BY <1>2, <1>3, <1>4, <2>1 DEF SupType, S!SupPC
<1>6. TypeOK'
  BY <1>1, <1>2, <1>5 DEF TypeOK, S!TypeOK, SupType, Over
<1>7. /\ Launched' /\ Collected' /\ Reported' /\ Emptied' /\ GroupGone' /\ Drained'
      /\ Measured' /\ Accepting'
  BY <1>1, <1>2, <1>5
     DEF Launched, Collected, Reported, Emptied, GroupGone, Drained, Measured, Accepting, Over
<1>. QED  BY <1>6, <1>7

\* The steps of execute that leave the run alone.
LEMMA ExecKeeps ==
    ASSUME HermesInv, execute \/ prepare \/ run_ended \/ load
    PROVE  HermesInv'
<1>. USE InvParts DEF HermesInv
<1>1. UNCHANGED <<supervisorVars, backend, manifest, left>>
  BY DEF execute, prepare, run_ended, load
<1>2. exec \in [pc : ExecPC, result : Manifest] /\ manifest \in Manifest
  BY DEF TypeOK
<1>3. /\ exec' \in [pc : ExecPC, result : Manifest] /\ workspace' \in BOOLEAN
      /\ workspace' <=> exec'.pc \in {"open", "run", "load"}
      /\ sup.pc # "idle" => exec'.pc \in {"run", "load", "returned", "raised"}
      /\ exec'.pc \in {"load", "returned"} => sup.pc = "returned" /\ sup.rc = "0"
      /\ exec'.pc = "returned" => exec'.result = manifest
  <2>1. CASE execute
    BY <1>2, <2>1 DEF execute, Goto, ExecPC, TypeOK
  <2>2. CASE prepare
    BY <1>2, <2>2 DEF prepare, Goto, Leave, ExecPC, TypeOK
  <2>3. CASE run_ended
    BY <1>2, <2>3 DEF run_ended, Goto, Leave, ProcessFailed, S!Ended, ExecPC, TypeOK
  <2>4. CASE load
    <3>1. CASE exec' = [pc |-> "returned", result |-> manifest] /\ workspace' = FALSE
      BY <1>2, <2>4, <3>1 DEF load, ExecPC, Accepting
    <3>2. CASE Leave("raised")
      BY <1>2, <2>4, <3>2 DEF load, Leave, Goto, ExecPC
    <3>. QED  BY <2>4, <3>1, <3>2 DEF load
  <2>. QED  BY <2>1, <2>2, <2>3, <2>4
<1>4. TypeOK'
  BY <1>1, <1>3 DEF TypeOK, S!TypeOK, supervisorVars
<1>5. Accepting'
  BY <1>1, <1>3 DEF Accepting, supervisorVars
<1>6. /\ Launched' /\ Collected' /\ Reported' /\ Emptied' /\ GroupGone' /\ Drained'
      /\ Measured'
  BY <1>1 DEF Launched, Collected, Reported, Emptied, GroupGone, Drained, Measured, S!Exceeds, S!Seen, S!Measurable, Over,
              supervisorVars
<1>. QED  BY <1>4, <1>5, <1>6

\* Whoever writes an output is still active, so that in a pid namespace the command is not
\* over: no accepted result changes any more.
LEMMA WriteKeeps ==
    ASSUME HermesInv, WriteOutputs
    PROVE  HermesInv'
<1>. USE InvParts DEF HermesInv
<1>1. /\ UNCHANGED <<supervisorVars, backend, workspace, left, exec>> /\ manifest' \in Manifest
      /\ ~(contained /\ Over)
  BY DEF WriteOutputs, S!Active, S!Running, Emptied, Over
<1>2. TypeOK'
  BY <1>1 DEF TypeOK, S!TypeOK, supervisorVars
<1>3. Emptied' /\ Accepting'
  BY <1>1 DEF Emptied, Accepting, Over, supervisorVars
<1>4. Launched' /\ Collected' /\ Reported' /\ GroupGone' /\ Drained' /\ Measured'
  BY <1>1 DEF Launched, Collected, Reported, GroupGone, Drained, Measured, S!Exceeds, S!Seen, S!Measurable, Over,
              supervisorVars
<1>. QED  BY <1>2, <1>3, <1>4

LEMMA NextInv == HermesInv /\ [Next]_vars => HermesInv'
<1>. SUFFICES ASSUME HermesInv, [Next]_vars
              PROVE  HermesInv'
  OBVIOUS
<1>1. CASE execute \/ prepare \/ run_ended \/ load \/ runner \/ WriteOutputs
  BY <1>1, ExecKeeps, RunnerKeeps, WriteKeeps
<1>2. CASE SupervisorStep(S!Output) \/ SupervisorStep(S!Write)
  BY <1>2, ActiveKeeps
<1>3. ASSUME NEW k \in Kid, SupervisorStep(S!Spawn(k)) \/ SupervisorStep(S!KidStep(k))
      PROVE  HermesInv'
  BY <1>3, KidKeeps
<1>4. CASE \E c \in {"0", "1"} : SupervisorStep(S!Exit(c))
  BY <1>4, MainKeeps
<1>5. CASE SupervisorStep(S!Dies)
  <2>1. SupervisorStep(S!MainDies) \/ \E k \in Kid : SupervisorStep(S!KidDies(k))
    BY <1>5 DEF SupervisorStep, S!Dies
  <2>. QED  BY <2>1, MainKeeps, KidKeeps
<1>6. CASE \/ SupervisorStep(S!reader_read) \/ SupervisorStep(S!SupStep)
           \/ SupervisorStep(S!wait_expired) \/ SupervisorStep(S!Tick)
           \/ SupervisorStep(S!close_early)
  BY <1>6, SupervisorKeeps
<1>7. CASE UNCHANGED vars
  BY <1>7 DEF vars, supervisorVars, HermesInv, TypeOK, S!TypeOK, Launched, Collected, Reported,
              Emptied, GroupGone, Drained, Measured, Accepting, S!Exceeds, S!Seen, S!Measurable, Over
<1>. QED  BY <1>1, <1>2, <1>3, <1>4, <1>5, <1>6, <1>7 DEF Next

LEMMA HermesInvariant == Spec => []HermesInv
  BY InitInv, NextInv, PTL DEF Spec

----------------------------------------------------------------------------
(* The properties.                                                         *)

\* Every variable is of its type; the job's workspace exists exactly while the call needs
\* it, and is gone however the call ended.
THEOREM TypeCorrect == Spec => []TypeOK
  BY HermesInvariant, PTL DEF HermesInv

\* What execute returns is what a command that finished by itself left, never what a
\* killed one had written so far; in a pid namespace nobody has touched it since
\* (hermes.py:334, supervisor.py:217).
THEOREM ResultIsLeft == Spec => []AcceptedIsLeft
<1>1. HermesInv => AcceptedIsLeft
  <2>. SUFFICES ASSUME HermesInv, exec.pc = "returned"
                PROVE  code = "0" /\ (contained => exec.result = left)
    BY DEF AcceptedIsLeft
  <2>1. sup.pc = "returned" /\ sup.rc = "0" /\ main = "reaped"
    BY InvParts DEF HermesInv, Accepting
  <2>. QED  BY <2>1 DEF HermesInv, Accepting, Reported, Emptied, Over
<1>. QED  BY <1>1, HermesInvariant, PTL

\* A result is accepted only if all that the command printed, given a drain thread in
\* time, and all that it left where the supervisor measures is within the budgets, also
\* what came after the last turn of the monitor (supervisor.py:242): everything but the
\* root's .git and what cannot be examined, in a workspace that can be listed and counted.
THEOREM ResultWithinBudget == Spec => []AcceptedWithinBudget
<1>1. HermesInv => AcceptedWithinBudget
  <2>. SUFFICES ASSUME HermesInv, exec.pc \in {"load", "returned"}, contained
                PROVE  /\ DrainsInTime => out <= OutBudget
                       /\ S!Measurable => S!Exceeds(S!Seen) = None
    BY DEF AcceptedWithinBudget
  <2>1. sup.pc = "returned" /\ sup.rc = "0"
    BY DEF HermesInv, Accepting
  <2>. QED  BY <2>1 DEF HermesInv, Reported, Measured
<1>. QED  BY <1>1, HermesInvariant, PTL

\* Nothing survives the run: in a pid namespace no process at all, elsewhere none of the
\* group of a command that was killed (_kill_tree).
THEOREM NothingSurvives == Spec => []TreeGone
<1>1. HermesInv => TreeGone
  BY DEF HermesInv, TreeGone, Emptied, GroupGone, Over, S!Active, S!Running
<1>. QED  BY <1>1, HermesInvariant, PTL
\* What the supervisor measured and execute loads stays as it is: once a contained
\* command has been reaped, nothing prints, writes to the workspace or changes its
\* manifest, between the last scan and the reading of the outputs and after that
\* (supervisor.py:242, hermes.py:334).
THEOREM SettledForGood ==
    Spec => [][S!Ended /\ contained /\ main = "reaped"
                   => UNCHANGED <<main, kids, out, usage, manifest, left>>]_vars
<1>. DEFINE Settled == S!Ended /\ contained /\ main = "reaped"
                           => UNCHANGED <<main, kids, out, usage, manifest, left>>
<1>1. HermesInv /\ [Next]_vars => [Settled]_vars
  <2>. SUFFICES ASSUME HermesInv, Next, S!Ended, contained, main = "reaped"
                PROVE  UNCHANGED <<main, kids, out, usage, manifest, left>>
    OBVIOUS
  <2>1. ~S!Active
    BY DEF HermesInv, Emptied, Over, S!Active, S!Running
  <2>2. /\ main # "alive" /\ sup.pc \in {"returned", "raised"}
        /\ \A k \in Kid : ~S!Running(k) /\ kids[k] # "killed"
    BY <2>1 DEF S!Active, S!Ended, HermesInv, Emptied, Over
  <2>3. CASE execute \/ prepare \/ runner \/ run_ended \/ load \/ WriteOutputs
    BY <2>1, <2>2, <2>3 DEF execute, prepare, runner, run_ended, load, WriteOutputs,
                            supervisorVars, S!Popen
  <2>4. ASSUME \/ S!Output \/ S!Write \/ S!Dies \/ S!reader_read \/ S!Tick
               \/ \E k \in Kid : S!Spawn(k) \/ S!KidStep(k)
               \/ \E c \in {"0", "1"} : S!Exit(c)
        PROVE  UNCHANGED <<main, kids, out, usage>>
    <3>1. ~S!Output /\ ~S!Write /\ ~S!Dies
      BY <2>1, <2>2, InvParts DEF S!Output, S!Write, S!Dies, S!MainDies, S!KidDies
    <3>2. \A k \in Kid : ~S!Spawn(k) /\ ~S!KidStep(k)
      BY <2>2 DEF S!Spawn, S!KidStep
    <3>3. \A c : ~S!Exit(c)
      BY <2>2 DEF S!Exit
    <3>. QED  BY <2>4, <3>1, <3>2, <3>3 DEF S!reader_read, S!Tick, S!procVars
  <2>5. ~S!SupStep /\ ~S!wait_expired /\ ~S!close_early
    BY <2>2 DEF S!SupStep, S!monitor, S!kill, S!wait, S!drain, S!close, S!check, S!wait_expired,
                S!close_early
  <2>6. CASE \/ SupervisorStep(S!Output) \/ SupervisorStep(S!Write)
             \/ \E k \in Kid : SupervisorStep(S!Spawn(k)) \/ SupervisorStep(S!KidStep(k))
             \/ \E c \in {"0", "1"} : SupervisorStep(S!Exit(c))
             \/ SupervisorStep(S!Dies) \/ SupervisorStep(S!reader_read)
             \/ SupervisorStep(S!Tick)
    BY <2>4, <2>6 DEF SupervisorStep
  <2>. QED  BY <2>3, <2>5, <2>6 DEF Next, SupervisorStep
<1>. QED  BY <1>1, HermesInvariant, PTL DEF Spec
=============================================================================
