------------------------- MODULE MCResearchExecutor -------------------------
(***************************************************************************)
(* Stages of up to three iterations over two coverage targets, with every  *)
(* combination of families, latency and findings carried in.               *)
(***************************************************************************)
EXTENDS ResearchExecutor

MCStageInput ==
    [budget: 0..3, families: {"none", "unusable", "some"}, tight: BOOLEAN,
     findings: BOOLEAN]
=============================================================================
