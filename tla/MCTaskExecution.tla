-------------------------- MODULE MCTaskExecution --------------------------
(* Instances of TaskExecution for TLC.                                     *)
EXTENDS TaskExecution

OneKind == <<"content">>
TwoKinds == <<"content", "code">>
Routes == [content |-> "flowise", code |-> "hermes"]
============================================================================
