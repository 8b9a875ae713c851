------------------------------ MODULE FaultSets ------------------------------
(***************************************************************************)
(* Values for the constants of the instances: the failures a run allows    *)
(* and the number of outputs of its jobs.                                  *)
(***************************************************************************)
EXTENDS Bucket

\* Every job uploads its result only (an image).
OneOutput == [j \in Jobs |-> 1]

\* Every job uploads its result and a thumbnail (a video).
TwoOutputs == [j \in Jobs |-> 2]

\* Everything that may go wrong, but for a dispatch that is repeated after it
\* was sent: it doubles every run of a job, and is among SurvivableFaults.
SingleDispatchFaults == FaultKinds \ {"api_broker_dup"}

\* No failure that loses a task or a write: what remains are the failures
\* that retries, redelivery and late acknowledgement are there for, and a
\* soft time limit reached while on_failure is still to come.
SurvivableFaults ==
    {"s3", "api_broker", "api_broker_dup", "processing", "source_deleted",
     "soft_limit", "crash", "api_crash"}

\* No failure that makes a task run twice either.
OrderlyFaults ==
    {"s3", "api_broker", "processing", "source_deleted", "api_crash"}

OnlySourceDeleted == {"source_deleted"}

OnlyCrash == {"crash"}

OnlyRedis == {"redis"}

OnlyProcessing == {"processing"}

\* What cuts on_failure short: Redis is away, or the soft time limit is reached.
CutShortFaults == {"redis", "late_soft_limit"}

=============================================================================
