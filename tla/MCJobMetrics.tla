----------------------------- MODULE MCJobMetrics -----------------------------
(***************************************************************************)
(* Instances of JobMetrics for TLC.                                        *)
(***************************************************************************)
EXTENDS JobMetrics, FaultSets, TLC

=============================================================================
