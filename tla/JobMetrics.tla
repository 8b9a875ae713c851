------------------------------ MODULE JobMetrics ------------------------------
(***************************************************************************)
(* app/services/metrics.py: the metrics the handler of POST /jobs and the  *)
(* worker task leave beside the machinery of MediaJobs.                    *)
(*                                                                         *)
(* A counter is kept per job here, so that its total can be compared with  *)
(* what became of the jobs; a process adds to its own registry only.  The  *)
(* histograms, the counts of S3 operations and of upload URLs are left out.*)
(***************************************************************************)
EXTENDS MediaJobs

VARIABLES
    submitted,  \* JOBS_SUBMITTED
    completed,  \* JOBS_COMPLETED
    failed,     \* JOBS_FAILED, whatever the reason
    gauge       \* gauge[w]: JOBS_IN_PROGRESS in the registry of worker w

countVars == <<submitted, completed, failed, gauge>>

metricsVars == <<vars, countVars>>

MetricsInit ==
    /\ Init
    /\ submitted = [j \in Jobs |-> 0]
    /\ completed = [j \in Jobs |-> 0]
    /\ failed = [j \in Jobs |-> 0]
    /\ gauge = [w \in Workers |-> 0]

Increment(counter, j, n) == IF n = 0 THEN counter ELSE [counter EXCEPT ![j] = @ + n]

One(happens) == IF happens THEN 1 ELSE 0

\* Registered: submitted.  Marked failed and explained: failed, "dispatch_error".
CountRequest(j) ==
    /\ submitted' = Increment(submitted, j,
         One(request[j] = "create_job" /\ request'[j] = "dispatch"))
    /\ failed' = Increment(failed, j,
         One(request[j] = "record_error" /\ request'[j] = "unavailable"))
    /\ UNCHANGED <<completed, gauge>>

\* The part of the task between try and finally.
Try == Pipeline \ {"mark_processing"}

Moves(w, from, to) == pc[w] = from /\ pc'[w] = to

\* Mutant: the gauge goes down on success only.
GaugeAfterSuccess(w) ==
    IF Moves(w, "idle", "mark_processing") THEN gauge[w] + 1
    ELSE IF Moves(w, "observe", "ack") THEN gauge[w] - 1
    ELSE gauge[w]

\* Up before the first write of the status, down in the finally clause.
GaugeAfter(w) ==
    IF Moves(w, "idle", "mark_processing") THEN gauge[w] + 1
    ELSE IF pc[w] \in Try /\ pc'[w] \notin Try THEN gauge[w] - 1
    ELSE gauge[w]

\* Mutant: a job counts as completed when its media are processed.
CompletedWithTransforms(w) == Moves(w, "process", "upload")

\* Counted on the return of the inner pipeline, before the latency is taken.
Completes(w) == Moves(w, "mark_completed", "observe")

\* What is not retried is counted in the except clause, and on_failure
\* counts every failure it has recorded.  The step that gives up storing the
\* message looks like the one that stores it with the last repetition, and
\* the soft time limit may strike between the storing and the counting.
FailuresCounted(w) ==
    IF Moves(w, "process", "mark_failed") THEN {1}
    ELSE IF ~Moves(w, "record_error", "ack") THEN {0}
    ELSE IF \/ "redis" \in Faults /\ tries[w] = CallRetries
            \/ "late_soft_limit" \in Faults
         THEN {0, 1} ELSE {1}

CountStep(w) ==
    /\ gauge' = [gauge EXCEPT ![w] = GaugeAfter(w)]
    /\ completed' = Increment(completed, Job(w), One(Completes(w)))
    /\ \E n \in FailuresCounted(w) : failed' = Increment(failed, Job(w), n)

\* A new process has a new registry.  The soft time limit is an error that
\* is not retried, unless it is raised before the try.
CountInterruption(w) ==
    /\ gauge' = [gauge EXCEPT ![w] =
         IF pc'[w] = "idle" THEN 0 ELSE GaugeAfter(w)]
    /\ failed' = Increment(failed, Job(w), One(pc[w] \in Try /\ pc'[w] = "mark_failed"))
    /\ UNCHANGED completed

WorkerMove(w) ==
    \/ WorkerStep(w) /\ CountStep(w)
    \/ Interruption(w) /\ CountInterruption(w)

Uncounted ==
    \/ \E j \in Jobs : ClientUpload(j) \/ SourceDisappears(j) \/ Submit(j) \/ ApiCrash(j)
    \/ Rest

MetricsNext ==
    \/ \E j \in Jobs : RequestStep(j) /\ CountRequest(j)
    \/ \E w \in Workers : WorkerMove(w) /\ UNCHANGED submitted
    \/ Uncounted /\ UNCHANGED countVars

MetricsSpec == MetricsInit /\ [][MetricsNext]_metricsVars /\ Fairness

-----------------------------------------------------------------------------
(***************************************************************************)
(* metrics.py: jobs "processed successfully" and jobs "that failed         *)
(* permanently".  Once nothing of an answered job is under way, the        *)
(* counters tell what its record tells, however many retries it took: it   *)
(* was submitted once, and either completed once or failed.                *)
(***************************************************************************)
CountsMatchOutcome ==
    \A j \in Jobs :
        request[j] \in {"accepted", "unavailable"} /\ ~Waiting(j) /\ ~WorkedOn(j)
            /\ status[j] # "absent" =>
                /\ submitted[j] = 1
                /\ completed[j] = One(status[j] = "completed")
                /\ failed[j] > 0 <=> status[j] = "failed"

(***************************************************************************)
(* metrics.py: "Number of jobs currently being processed by workers".  A   *)
(* retry, a failure or a success leaves no trace in the gauge of a worker, *)
(* so long as Redis answers the first write of the status (before the try).*)
(***************************************************************************)
InProgressIsExact ==
    \A w \in Workers : gauge[w] = One(pc[w] \in Pipeline)

(***************************************************************************)
(* celery_worker.py: "Permanent failures are counted here; transient ones  *)
(* [...] counted only when retries are exhausted, in                       *)
(* MediaProcessingTask.on_failure".  on_failure runs for both kinds.       *)
(***************************************************************************)
FailedCountedOnce == \A j \in Jobs : failed[j] <= 1

=============================================================================
