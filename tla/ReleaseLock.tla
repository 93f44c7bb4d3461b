---------------------------- MODULE ReleaseLock ----------------------------
(***************************************************************************)
(* What the release lease and the approvals that are spent promise         *)
(* together: a lock that one release has at a time, and a controller that  *)
(* runs only for the release that has the lock, once for each approval.    *)
(***************************************************************************)
EXTENDS Naturals

VARIABLES
    holder,     \* the approval whose release has the lock, 0 for none
    ran         \* the approvals the controller has run on

Init ==
    /\ holder = 0
    /\ ran = {}

Take ==
    /\ holder = 0
    /\ holder' \in Nat \ {0}
    /\ UNCHANGED ran

\* It may give the lock back without having run.
Run ==
    /\ holder \notin ran \cup {0}
    /\ ran' = ran \cup {holder}
    /\ UNCHANGED holder

Give ==
    /\ holder # 0
    /\ holder' = 0
    /\ UNCHANGED ran

Next == Take \/ Run \/ Give

Spec == Init /\ [][Next]_<<holder, ran>>
============================================================================
