---------------------------- MODULE AppendOnlyLog ----------------------------
(***************************************************************************)
(* What the audit trail promises whoever reads it later: a sequence of     *)
(* events that only ever grows at its end.  AuditLog implements it with    *)
(* the lines that have reached the disk.                                   *)
(***************************************************************************)
EXTENDS Naturals, Sequences

CONSTANT Event

VARIABLE log

Init == log = <<>>

\* Some events are added after those already there.
Next ==
    /\ log' \in Seq(Event)
    /\ Len(log') >= Len(log)
    /\ SubSeq(log', 1, Len(log)) = log

Spec == Init /\ [][Next]_log
=============================================================================
