------------------------- MODULE MCReleaseOperator -------------------------
(***************************************************************************)
(* ReleaseOperator for TLC.                                                *)
(***************************************************************************)
EXTENDS ReleaseOperator, TLC

Plain == CHOOSE who \in Identity : TRUE

\* One name is stored as it is, the others are redacted or cut.
StoredNames == [who \in Identity |-> IF who = Plain THEN who ELSE "redacted"]

\* Nothing distinguishes two processes or two fingerprints.
Symmetry == Permutations(Executor) \cup Permutations(Fingerprint)

\* A bound: with a dead process behind them, the others contend for one approval.
CrashWithOneApproval == crashes > 0 => Len(approvals) <= 1

\* A bound: without the two-person rule nobody asks who executes, or approves directly.
NamesThatMatter ==
    ~twoPerson =>
        /\ \A p \in Executor : proc[p].approval # 0 => proc[p].who \in {Plain, None}
        /\ \A i \in DOMAIN approvals : approvals[i].request = 0 => approvals[i].by = Plain
============================================================================
