---- MODULE Failures ----
\* The jobs of the service, and the failures of its infrastructure that an
\* instance of the model allows, grouped by the part that fails.

CONSTANTS
    Jobs,    \* job ids, one per accepted or refused POST /jobs
    Faults   \* the kinds of failure that may happen

\* A command ("redis") or a request ("s3") raises, with or without effect;
\* the source object disappears from the bucket.
StoreFaults == {"redis", "s3", "source_deleted"}

\* The API's publish raises, with nothing enqueued ("api_broker") or although
\* the message was ("api_broker_dup"); the publish of a retry raises, with
\* nothing enqueued ("worker_broker"); a publish returns, with nothing enqueued
\* ("broker_loss"); a delivery not yet acknowledged goes back ("disconnect").
BrokerFaults ==
    {"api_broker", "api_broker_dup", "worker_broker", "broker_loss", "disconnect"}

\* Corrupt media, invalid operations or no FFmpeg ("processing");
\* SoftTimeLimitExceeded is raised in the pipeline ("soft_limit") or in what
\* follows it, the retry and on_failure ("late_soft_limit"); the task is killed.
TaskFaults == {"processing", "soft_limit", "late_soft_limit", "hard_limit"}

\* The worker dies and is replaced; the API dies in the middle of a request.
ProcessFaults == {"crash", "api_crash"}

FaultKinds == StoreFaults \union BrokerFaults \union TaskFaults \union ProcessFaults

ASSUME FaultsAssumption == Faults \subseteq FaultKinds
====
