-------------------------- MODULE MCDurableService --------------------------
(* Instances of DurableService for TLC.                                    *)
EXTENDS DurableService

TwoKinds == <<"content", "code">>
Writers == Runner \cup Caller
Events == [type : EventType, art : 0 .. MaxArtifacts]
Routes == [content |-> "flowise", code |-> "hermes"]
=============================================================================
