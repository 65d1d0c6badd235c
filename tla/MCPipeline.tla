------------------------------ MODULE MCPipeline ------------------------------
(***************************************************************************)
(* Instances of Pipeline for TLC.                                          *)
(***************************************************************************)
EXTENDS Pipeline, TLC

\* A file whose first batch has another shape than the rest.
MCShapeOf == [b \in Batches |-> IF b = 1 THEN "wide" ELSE "narrow"]
================================================================================
