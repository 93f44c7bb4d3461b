---------------------------- MODULE MCLineChannel ----------------------------
(* Instances of LineChannel for TLC.                                       *)
EXTENDS LineChannel

Posted(type, group, task) ==
    [type |-> type, source |-> [group |-> group, user |-> "U1"], task |-> task]

\* A text of a group and a direct question for a status; a blank text.
Bodies == [d \in Delivery |->
    IF d = CHOOSE x \in Delivery : TRUE
    THEN <<Posted("other", "G1", 0), Posted("text", "G1", 0), Posted("status", None, 1)>>
    ELSE <<Posted("blank", None, 0)>>]
=============================================================================
