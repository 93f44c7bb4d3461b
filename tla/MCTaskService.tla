--------------------------- MODULE MCTaskService ---------------------------
(* Instances of TaskService for TLC.                                       *)
EXTENDS TaskService

OneKind == <<"content">>
TwoKinds == <<"content", "code">>
ThreeKinds == <<"content", "code", "test_report">>

\* service.py, OUTPUT_ADAPTER: hermes produces code and test_report together.
Routes == [content |-> "flowise", design |-> "open_design",
           code |-> "hermes", test_report |-> "hermes"]
============================================================================
