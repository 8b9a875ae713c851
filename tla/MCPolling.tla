------------------------------ MODULE MCPolling ------------------------------
(***************************************************************************)
(* Instances of Polling for TLC.                                           *)
(***************************************************************************)
EXTENDS Polling, FaultSets, TLC

WorkerSymmetry == Permutations(Workers)

=============================================================================
