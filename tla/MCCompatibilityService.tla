----------------------- MODULE MCCompatibilityService -----------------------
(* CompatibilityService for TLC. *)
EXTENDS CompatibilityService, TLC

CONSTANTS a1, a2, v1, v2, v3, m1

\* One adapter with two real versions, one with a real and a mock version.
Versions == (a1 :> {v1, v2}) @@ (a2 :> {v3, m1})

\* Nothing distinguishes the two real versions of the first adapter.
Symmetry == Permutations({v1, v2})
============================================================================
