----------------------------- MODULE UnitOfWork -----------------------------
(***************************************************************************)
(* What the release components have in common: the processes that call     *)
(* them and the database sessions they work in (db.py).  A session is a    *)
(* unit of work: it reads, the method decides, and the flush writes the    *)
(* columns that were assigned a value other than the one read.             *)
(***************************************************************************)

CONSTANTS
    Process,            \* processes that call the components
    CommitMayFail,      \* TRUE: the commit of a session may raise
    MayCrash            \* TRUE: a process may die inside a method

ASSUME SessionAssumption ==
    /\ CommitMayFail \in BOOLEAN
    /\ MayCrash \in BOOLEAN

\* The value a column has after a session that read old and assigned new.
Assign(old, current, new) == IF old = new THEN current ELSE new

\* The environment in which the calls do not overlap, as under the release lease.
OneCaller == \A p, q \in Process : p = q
=============================================================================
