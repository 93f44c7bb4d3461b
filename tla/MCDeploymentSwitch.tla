------------------------- MODULE MCDeploymentSwitch -------------------------
(* Instances of DeploymentSwitch for TLC.                                   *)
EXTENDS DeploymentSwitch, TLC

\* The slots are interchangeable, and so are the releases: no definition names one.
Symmetry == Permutations(Slot) \cup Permutations(Release)

\* A bound: a longer journal is only followed while both slots run one release and
\* no probe found one of them unhealthy.
LongJournal ==
    Len(actions) > 2 => \A s, t \in Slot : /\ slots[s].release = slots[t].release
                                          /\ slots[s].health = "healthy"
=============================================================================
