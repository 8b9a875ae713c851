----------------------------- MODULE MCMediaJobs -----------------------------
(***************************************************************************)
(* Instances of MediaJobs for TLC.  Workers are interchangeable; the runs  *)
(* that check liveness do not use the symmetry.                            *)
(***************************************************************************)
EXTENDS MediaJobs, FaultSets, TLC

WorkerSymmetry == Permutations(Workers)

=============================================================================
