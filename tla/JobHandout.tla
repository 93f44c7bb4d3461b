----------------------------- MODULE JobHandout -----------------------------
(***************************************************************************)
(* What the job queue promises whoever submits to it and whoever works for *)
(* it: a job that waits is handed to one worker, which is the only one to  *)
(* settle it; a job nobody has, because it is new or its worker died, is   *)
(* offered again; a settled one only when it was recalled.  WorkerQueue    *)
(* implements it, where claims do not go stale under their workers.        *)
(***************************************************************************)
CONSTANTS Job, Worker,
    None            \* no job

VARIABLES
    waiting,        \* the jobs to be handed out
    holds,          \* the job each worker has, or None
    settled,        \* the jobs that were settled and not offered since
    recalled        \* settled jobs that somebody wants done again

vars == <<waiting, holds, settled, recalled>>

Init ==
    /\ waiting = {}
    /\ holds = [w \in Worker |-> None]
    /\ settled = {}
    /\ recalled = {}

\* The jobs that are nowhere.
Free == Job \ (waiting \cup settled \cup {holds[w] : w \in Worker})

Offer ==
    /\ \E S \in SUBSET Free : waiting' = waiting \cup S
    /\ UNCHANGED <<holds, settled, recalled>>

Take(w, j) ==
    /\ holds[w] = None
    /\ j \in waiting
    /\ waiting' = waiting \ {j}
    /\ holds' = [holds EXCEPT ![w] = j]
    /\ UNCHANGED <<settled, recalled>>

Settle(w) ==
    /\ holds[w] # None
    /\ settled' = settled \cup {holds[w]}
    /\ holds' = [holds EXCEPT ![w] = None]
    /\ UNCHANGED <<waiting, recalled>>

\* The worker dies.
Abandon(w) ==
    /\ holds[w] # None
    /\ holds' = [holds EXCEPT ![w] = None]
    /\ UNCHANGED <<waiting, settled, recalled>>

Recall(j) ==
    /\ j \in settled
    /\ recalled' = recalled \cup {j}
    /\ UNCHANGED <<waiting, holds, settled>>

\* Whoever recalled it gives up, or dies.
Forget(j) ==
    /\ j \in recalled
    /\ recalled' = recalled \ {j}
    /\ UNCHANGED <<waiting, holds, settled>>

Repeat(j) ==
    /\ j \in settled \cap recalled
    /\ waiting' = waiting \cup {j}
    /\ settled' = settled \ {j}
    /\ recalled' = recalled \ {j}
    /\ UNCHANGED holds

Next ==
    \/ Offer
    \/ \E w \in Worker : Settle(w) \/ Abandon(w) \/ \E j \in Job : Take(w, j)
    \/ \E j \in Job : Recall(j) \/ Forget(j) \/ Repeat(j)

Spec == Init /\ [][Next]_vars
=============================================================================
