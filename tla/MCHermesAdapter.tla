--------------------------- MODULE MCHermesAdapter ---------------------------
(* Instances of HermesAdapter for TLC.                                     *)
EXTENDS HermesAdapter

Size(bytes, files) == [bytes |-> bytes, files |-> files, unseen |-> 0, readable |-> TRUE]

\* A new workspace, one over each budget, one beyond what a scan counts; one whose growth
\* is all in .git, one over a budget that cannot be listed.
Sizes == {Size(1, 1), Size(3, 1), Size(1, 3), Size(1, 5),
          [Size(1, 1) EXCEPT !.unseen = 3], [Size(3, 1) EXCEPT !.readable = FALSE]}

Item(kind, file, content) ==
    [kind |-> kind, file |-> file, path |-> "inside", content |-> content]

\* Nothing, a half-written manifest, and one that lists all that is asked for.
Manifests == {None, <<Item("code", "a", "valid")>>,
              <<Item("code", "a", "valid"), Item("test_report", "b", "valid")>>}
=============================================================================
