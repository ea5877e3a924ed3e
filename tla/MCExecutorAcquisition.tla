----------------------- MODULE MCExecutorAcquisition -----------------------
(***************************************************************************)
(* Every request Research Executor can build, over the four families of    *)
(* the enum, all with a service and one tool each, as retrieval_provider   *)
(* wires them.                                                             *)
(***************************************************************************)
EXTENDS ExecutorAcquisition

CONSTANTS recall, docs, web, paper

MCFamily == {recall, docs, web, paper}
MCMultiTool == {}
=============================================================================
