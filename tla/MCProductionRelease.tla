------------------------ MODULE MCProductionRelease ------------------------
(* ProductionRelease for TLC. *)
EXTENDS ProductionRelease, TLC

AllVersions == [a \in Adapter |-> Version]

\* Nothing distinguishes the two slots or two versions of an adapter.
Symmetry == Permutations(Slot) \cup Permutations(Version)
============================================================================
