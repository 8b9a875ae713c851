------------------------------ MODULE MediaJobs ------------------------------
(***************************************************************************)
(* The life of media jobs: the API's POST /jobs handler                    *)
(* (app/routers/job.py), the Celery workers (app/workers/celery_worker.py  *)
(* under the policy of app/services/celery_service.py), and the Redis      *)
(* record, bucket and queue they share.                                    *)
(*                                                                         *)
(* A request and a task are sequences of calls over the network.  Each     *)
(* attempt of such a call is one step, taken atomically with the code up   *)
(* to the next one, and everything else may happen between two steps.      *)
(***************************************************************************)
EXTENDS FiniteSets, Retries, JobStore, Bucket, TaskQueue

CONSTANTS
    Workers,          \* the worker processes
    MaxRedeliveries,  \* bound: crashes and disconnections in a behaviour
    NoMsg             \* what an idle worker holds

ASSUME MediaJobsAssumption ==
    /\ MaxRedeliveries \in Nat
    /\ NoMsg \notin Message

VARIABLES
    request,      \* request[j]: where the handler of POST /jobs for j is
    apiTries,     \* request[j]'s repetitions of its current call
    pc,           \* pc[w]: the next call of worker w
    msg,          \* msg[w]: the task message w works on
    held,         \* held[w]: that delivery is still w's to acknowledge
    tries,        \* tries[w]: w's repetitions of its current call
    outputs,      \* outputs[w]: keys the run has uploaded
    redeliveries  \* crashes and disconnections so far

requestVars == <<request, apiTries>>

workerVars == <<pc, msg, held, tries, outputs>>

vars == <<storeVars, bucketVars, queueVars, requestVars, workerVars, redeliveries>>

(***************************************************************************)
(* The positions of a request and of a worker.                             *)
(***************************************************************************)
Replied == {"accepted", "unavailable", "not_found", "internal_error", "aborted"}

InRequest == {"create_job", "dispatch", "mark_failed", "record_error"}

RequestPlace == {"none"} \union InRequest \union Replied

\* Inside run_job_pipeline.
Pipeline ==
    {"mark_processing", "download", "process", "upload", "store_result",
     "mark_completed", "observe"}

\* Inside the task: the pipeline, the retry and on_failure.
InTask == Pipeline \union {"retry", "mark_failed", "record_error"}

WorkerPlace == InTask \union {"idle", "ack"}

Job(w) == msg[w].job

Init ==
    /\ StoreInit
    /\ BucketInit
    /\ QueueInit
    /\ request = [j \in Jobs |-> "none"]
    /\ apiTries = [j \in Jobs |-> 0]
    /\ pc = [w \in Workers |-> "idle"]
    /\ msg = [w \in Workers |-> NoMsg]
    /\ held = [w \in Workers |-> FALSE]
    /\ tries = [w \in Workers |-> 0]
    /\ outputs = [w \in Workers |-> {}]
    /\ redeliveries = 0

-----------------------------------------------------------------------------
(***************************************************************************)
(* The client and the bucket's owner.                                      *)
(***************************************************************************)
ClientUpload(j) ==
    /\ PutSource(j)
    /\ UNCHANGED <<storeVars, queueVars, requestVars, workerVars, redeliveries>>

SourceDisappears(j) ==
    /\ DeleteSource(j)
    /\ UNCHANGED <<storeVars, queueVars, requestVars, workerVars, redeliveries>>

-----------------------------------------------------------------------------
(***************************************************************************)
(* POST /jobs.                                                             *)
(***************************************************************************)
RequestAttempt(j, replied, done, raised) ==
    /\ request' = [request EXCEPT
         ![j] = AfterAttempt(apiTries[j], replied, @, done, raised)]
    /\ apiTries' = [apiTries EXCEPT ![j] = TriesAfter(@, replied)]

\* The source is looked up first: 404 without it, 503 if S3 does not answer.
Submit(j) ==
    /\ request[j] = "none"
    /\ \/ request' = [request EXCEPT
            ![j] = IF FileExists(j) THEN "create_job" ELSE "not_found"]
       \/ /\ "s3" \in Faults
          /\ request' = [request EXCEPT ![j] = "unavailable"]
    /\ UNCHANGED <<storeVars, bucketVars, queueVars, apiTries, workerVars, redeliveries>>

\* Mutant: the job is dispatched although it could not be registered.
RegisterJobBestEffort(j) ==
    /\ request[j] = "create_job"
    /\ \E applied, replied \in BOOLEAN :
         /\ RedisAttempt(applied, replied)
         /\ CreateJob(j, applied)
         /\ RequestAttempt(j, replied, "dispatch", "dispatch")
    /\ UNCHANGED <<bucketVars, queueVars, workerVars, redeliveries>>

\* An error of Redis is not handled: the client is answered 500.
RegisterJob(j) ==
    /\ request[j] = "create_job"
    /\ \E applied, replied \in BOOLEAN :
         /\ RedisAttempt(applied, replied)
         /\ CreateJob(j, applied)
         /\ RequestAttempt(j, replied, "dispatch", "internal_error")
    /\ UNCHANGED <<bucketVars, queueVars, workerVars, redeliveries>>

\* Mutant: a job that cannot be dispatched is not marked failed.
DispatchUnmarked(j) ==
    /\ request[j] = "dispatch"
    /\ \E sent, returned \in BOOLEAN :
         /\ PublishAttempt(sent, returned)
         /\ Publish([job |-> j, retries |-> 0], sent)
         /\ RequestAttempt(j, returned, "accepted", "unavailable")
    /\ UNCHANGED <<storeVars, bucketVars, workerVars, redeliveries>>

\* Each attempt of dispatch_task publishes a message of its own.
Dispatch(j) ==
    /\ request[j] = "dispatch"
    /\ \E sent, returned \in BOOLEAN :
         /\ PublishAttempt(sent, returned)
         /\ Publish([job |-> j, retries |-> 0], sent)
         /\ RequestAttempt(j, returned, "accepted", "mark_failed")
    /\ UNCHANGED <<storeVars, bucketVars, workerVars, redeliveries>>

MarkDispatchFailed(j) ==
    /\ request[j] = "mark_failed"
    /\ \E applied, replied \in BOOLEAN :
         /\ RedisAttempt(applied, replied)
         /\ UpdateStatus(j, "failed", applied)
         /\ RequestAttempt(j, replied, "record_error", "internal_error")
    /\ UNCHANGED <<bucketVars, queueVars, workerVars, redeliveries>>

RecordDispatchError(j) ==
    /\ request[j] = "record_error"
    /\ \E applied, replied \in BOOLEAN :
         /\ RedisAttempt(applied, replied)
         /\ SetError(j, applied)
         /\ RequestAttempt(j, replied, "unavailable", "internal_error")
    /\ UNCHANGED <<bucketVars, queueVars, workerVars, redeliveries>>

ApiCrash(j) ==
    /\ "api_crash" \in Faults
    /\ request[j] \in InRequest
    /\ request' = [request EXCEPT ![j] = "aborted"]
    /\ apiTries' = [apiTries EXCEPT ![j] = 0]
    /\ UNCHANGED <<storeVars, bucketVars, queueVars, workerVars, redeliveries>>

RequestStep(j) ==
    RegisterJob(j) \/ Dispatch(j) \/ MarkDispatchFailed(j) \/ RecordDispatchError(j)

-----------------------------------------------------------------------------
(***************************************************************************)
(* The task, run by a worker process.                                      *)
(***************************************************************************)
TaskAttempt(w, replied, done, raised) ==
    /\ pc' = [pc EXCEPT ![w] = AfterAttempt(tries[w], replied, @, done, raised)]
    /\ tries' = [tries EXCEPT ![w] = TriesAfter(@, replied)]

\* Mutant: exhausted retries end the task without on_failure.
OnTransientSilent(w) == IF msg[w].retries < MaxRetries THEN "retry" ELSE "ack"

\* A transient error: autoretry while the task has retries left, else on_failure.
OnTransient(w) == IF msg[w].retries < MaxRetries THEN "retry" ELSE "mark_failed"

Release(w) ==
    /\ pc' = [pc EXCEPT ![w] = "idle"]
    /\ msg' = [msg EXCEPT ![w] = NoMsg]
    /\ held' = [held EXCEPT ![w] = FALSE]
    /\ tries' = [tries EXCEPT ![w] = 0]
    /\ outputs' = [outputs EXCEPT ![w] = {}]

\* Mutant: the delivery is acknowledged on receipt.
ReceiveAcksEarly(w) ==
    /\ pc[w] = "idle"
    /\ \E m \in Message :
         /\ Deliver(m)
         /\ msg' = [msg EXCEPT ![w] = m]
    /\ pc' = [pc EXCEPT ![w] = "mark_processing"]
    /\ UNCHANGED <<storeVars, bucketVars, requestVars, held, tries, outputs, redeliveries>>

Receive(w) ==
    /\ pc[w] = "idle"
    /\ \E m \in Message :
         /\ Deliver(m)
         /\ msg' = [msg EXCEPT ![w] = m]
    /\ pc' = [pc EXCEPT ![w] = "mark_processing"]
    /\ held' = [held EXCEPT ![w] = TRUE]
    /\ UNCHANGED <<storeVars, bucketVars, requestVars, tries, outputs, redeliveries>>

\* Mutant: a new run withdraws the result of an earlier one.
MarkProcessingClearsResult(w) ==
    /\ pc[w] = "mark_processing"
    /\ \E applied, replied \in BOOLEAN :
         /\ RedisAttempt(applied, replied)
         /\ status' = IF applied THEN [status EXCEPT ![Job(w)] = "processing"] ELSE status
         /\ result' = IF applied THEN [result EXCEPT ![Job(w)] = {}] ELSE result
         /\ TaskAttempt(w, replied, "download", OnTransient(w))
    /\ UNCHANGED <<error, bucketVars, queueVars, requestVars, msg, held, outputs,
                   redeliveries>>

MarkProcessing(w) ==
    /\ pc[w] = "mark_processing"
    /\ \E applied, replied \in BOOLEAN :
         /\ RedisAttempt(applied, replied)
         /\ UpdateStatus(Job(w), "processing", applied)
         /\ TaskAttempt(w, replied, "download", OnTransient(w))
    /\ UNCHANGED <<bucketVars, queueVars, requestVars, msg, held, outputs, redeliveries>>

\* A missing source raises S3Error, like a failure of the request.
Download(w) ==
    /\ pc[w] = "download"
    /\ \/ /\ FileExists(Job(w))
          /\ pc' = [pc EXCEPT ![w] = "process"]
       \/ /\ ~FileExists(Job(w)) \/ "s3" \in Faults
          /\ pc' = [pc EXCEPT ![w] = OnTransient(w)]
    /\ UNCHANGED <<storeVars, bucketVars, queueVars, requestVars, msg, held, tries,
                   outputs, redeliveries>>

\* The media transforms.  Their errors are permanent and go to on_failure.
Process(w) ==
    /\ pc[w] = "process"
    /\ \/ pc' = [pc EXCEPT ![w] = "upload"]
       \/ /\ "processing" \in Faults
          /\ pc' = [pc EXCEPT ![w] = "mark_failed"]
    /\ UNCHANGED <<storeVars, bucketVars, queueVars, requestVars, msg, held, tries,
                   outputs, redeliveries>>

\* Mutant: an upload that fails is skipped.
UploadSkipsFailure(w) ==
    LET j == Job(w)
        uploaded == outputs[w] \union {FreshKey(j)}
    IN  /\ pc[w] = "upload"
        /\ \E applied, replied \in BOOLEAN :
             /\ S3Attempt(applied, replied)
             /\ UploadFile(j, applied)
             /\ outputs' = [outputs EXCEPT ![w] = IF replied THEN uploaded ELSE @]
             /\ pc' = [pc EXCEPT
                  ![w] = IF replied /\ Cardinality(uploaded) < Outputs[j] THEN @
                         ELSE "store_result"]
        /\ UNCHANGED <<storeVars, queueVars, requestVars, msg, held, tries, redeliveries>>

\* One object at a time, the result first.  An error forgets those uploaded.
Upload(w) ==
    LET j == Job(w)
        uploaded == outputs[w] \union {FreshKey(j)}
    IN  /\ pc[w] = "upload"
        /\ \E applied, replied \in BOOLEAN :
             /\ S3Attempt(applied, replied)
             /\ UploadFile(j, applied)
             /\ outputs' = [outputs EXCEPT ![w] = IF replied THEN uploaded ELSE {}]
             /\ pc' = [pc EXCEPT
                  ![w] = IF ~replied THEN OnTransient(w)
                         ELSE IF Cardinality(uploaded) < Outputs[j] THEN @
                         ELSE "store_result"]
        /\ UNCHANGED <<storeVars, queueVars, requestVars, msg, held, tries, redeliveries>>

\* Mutant: a result that cannot be stored does not fail the task.
StoreResultBestEffort(w) ==
    /\ pc[w] = "store_result"
    /\ \E applied, replied \in BOOLEAN :
         /\ RedisAttempt(applied, replied)
         /\ SetResult(Job(w), outputs[w], applied)
         /\ TaskAttempt(w, replied, "mark_completed", "mark_completed")
         /\ outputs' = [outputs EXCEPT
              ![w] = IF pc'[w] = "store_result" THEN @ ELSE {}]
    /\ UNCHANGED <<bucketVars, queueVars, requestVars, msg, held, redeliveries>>

StoreResult(w) ==
    /\ pc[w] = "store_result"
    /\ \E applied, replied \in BOOLEAN :
         /\ RedisAttempt(applied, replied)
         /\ SetResult(Job(w), outputs[w], applied)
         /\ TaskAttempt(w, replied, "mark_completed", OnTransient(w))
         /\ outputs' = [outputs EXCEPT
              ![w] = IF pc'[w] = "store_result" THEN @ ELSE {}]
    /\ UNCHANGED <<bucketVars, queueVars, requestVars, msg, held, redeliveries>>

MarkCompleted(w) ==
    /\ pc[w] = "mark_completed"
    /\ \E applied, replied \in BOOLEAN :
         /\ RedisAttempt(applied, replied)
         /\ UpdateStatus(Job(w), "completed", applied)
         /\ TaskAttempt(w, replied, "observe", OnTransient(w))
    /\ UNCHANGED <<bucketVars, queueVars, requestVars, msg, held, outputs, redeliveries>>

\* The latency metric reads the creation time of the finished job from
\* Redis, and an error of that read is a transient error of the task.
ObserveEndToEnd(w) ==
    /\ pc[w] = "observe"
    /\ \E replied \in BOOLEAN :
         /\ RedisAttempt(TRUE, replied)
         /\ TaskAttempt(w, replied, "ack", OnTransient(w))
    /\ UNCHANGED <<storeVars, bucketVars, queueVars, requestVars, msg, held, outputs,
                   redeliveries>>

\* Mutant: the retry does not count itself.
ScheduleRetryUncounted(w) ==
    /\ pc[w] = "retry"
    /\ \E sent \in BOOLEAN :
         /\ RetryPublishAttempt(sent)
         /\ Publish(msg[w], sent)
    /\ pc' = [pc EXCEPT ![w] = "ack"]
    /\ UNCHANGED <<storeVars, bucketVars, requestVars, msg, held, tries, outputs,
                   redeliveries>>

\* Celery's retry publishes the message again before the old one is settled.
ScheduleRetry(w) ==
    /\ pc[w] = "retry"
    /\ \E sent \in BOOLEAN :
         /\ RetryPublishAttempt(sent)
         /\ Publish([msg[w] EXCEPT !.retries = @ + 1], sent)
    /\ pc' = [pc EXCEPT ![w] = "ack"]
    /\ UNCHANGED <<storeVars, bucketVars, requestVars, msg, held, tries, outputs,
                   redeliveries>>

\* Mutant: the failure is recorded without its message.
MarkFailedOnly(w) ==
    /\ pc[w] = "mark_failed"
    /\ \E applied, replied \in BOOLEAN :
         /\ RedisAttempt(applied, replied)
         /\ UpdateStatus(Job(w), "failed", applied)
         /\ TaskAttempt(w, replied, "ack", "ack")
    /\ UNCHANGED <<bucketVars, queueVars, requestVars, msg, held, outputs, redeliveries>>

\* on_failure: both writes are given up if Redis does not answer.
MarkFailed(w) ==
    /\ pc[w] = "mark_failed"
    /\ \E applied, replied \in BOOLEAN :
         /\ RedisAttempt(applied, replied)
         /\ UpdateStatus(Job(w), "failed", applied)
         /\ TaskAttempt(w, replied, "record_error", "ack")
    /\ UNCHANGED <<bucketVars, queueVars, requestVars, msg, held, outputs, redeliveries>>

RecordError(w) ==
    /\ pc[w] = "record_error"
    /\ \E applied, replied \in BOOLEAN :
         /\ RedisAttempt(applied, replied)
         /\ SetError(Job(w), applied)
         /\ TaskAttempt(w, replied, "ack", "ack")
    /\ UNCHANGED <<bucketVars, queueVars, requestVars, msg, held, outputs, redeliveries>>

\* Mutant: the delivery goes back to the queue when the task has ended.
AcknowledgeRequeues(w) ==
    /\ pc[w] = "ack"
    /\ Enqueue(msg[w])
    /\ Release(w)
    /\ UNCHANGED <<storeVars, bucketVars, requestVars, redeliveries>>

\* The delivery is settled for good, whatever the outcome of the task was.
Acknowledge(w) ==
    /\ pc[w] = "ack"
    /\ Release(w)
    /\ UNCHANGED <<storeVars, bucketVars, queueVars, requestVars, redeliveries>>

WorkerStep(w) ==
    \/ Receive(w) \/ MarkProcessing(w) \/ Download(w) \/ Process(w) \/ Upload(w)
    \/ StoreResult(w) \/ MarkCompleted(w) \/ ObserveEndToEnd(w) \/ ScheduleRetry(w)
    \/ MarkFailed(w) \/ RecordError(w) \/ Acknowledge(w)

-----------------------------------------------------------------------------
(***************************************************************************)
(* What interrupts a task.                                                 *)
(***************************************************************************)
\* A worker process dies: a delivery it holds is put back into the queue.
WorkerCrash(w) ==
    /\ "crash" \in Faults
    /\ redeliveries < MaxRedeliveries
    /\ pc[w] # "idle"
    /\ IF held[w] THEN Enqueue(msg[w]) ELSE UNCHANGED ready
    /\ Release(w)
    /\ redeliveries' = redeliveries + 1
    /\ UNCHANGED <<storeVars, bucketVars, requestVars>>

\* The connection to the broker drops: the delivery is put back into the
\* queue while the worker goes on with the task it can no longer settle.
Disconnect(w) ==
    /\ "disconnect" \in Faults
    /\ redeliveries < MaxRedeliveries
    /\ held[w]
    /\ Enqueue(msg[w])
    /\ held' = [held EXCEPT ![w] = FALSE]
    /\ redeliveries' = redeliveries + 1
    /\ UNCHANGED <<storeVars, bucketVars, requestVars, pc, msg, tries, outputs>>

\* Mutant: the time limit ends the task without on_failure.
LimitInPipelineSilent(w) ==
    /\ "soft_limit" \in Faults
    /\ pc[w] \in Pipeline
    /\ pc' = [pc EXCEPT ![w] = "ack"]
    /\ tries' = [tries EXCEPT ![w] = 0]
    /\ outputs' = [outputs EXCEPT ![w] = {}]
    /\ UNCHANGED <<storeVars, bucketVars, queueVars, requestVars, msg, held, redeliveries>>

\* SoftTimeLimitExceeded is not one of the errors that are retried, so the
\* task fails.
LimitInPipeline(w) ==
    /\ "soft_limit" \in Faults
    /\ pc[w] \in Pipeline
    /\ pc' = [pc EXCEPT ![w] = "mark_failed"]
    /\ tries' = [tries EXCEPT ![w] = 0]
    /\ outputs' = [outputs EXCEPT ![w] = {}]
    /\ UNCHANGED <<storeVars, bucketVars, queueVars, requestVars, msg, held, redeliveries>>

\* In the publish of the retry it is an error like any other, and Celery
\* rejects the delivery; before or after the publish it fails the task.
LimitInRetry(w) ==
    /\ "late_soft_limit" \in Faults
    /\ pc[w] = "retry"
    /\ \E sent \in BOOLEAN : Publish([msg[w] EXCEPT !.retries = @ + 1], sent)
    /\ \E next \in {"ack", "mark_failed"} : pc' = [pc EXCEPT ![w] = next]
    /\ UNCHANGED <<storeVars, bucketVars, requestVars, msg, held, tries, outputs,
                   redeliveries>>

\* on_failure catches errors of Redis only.  The task is over, and the
\* delivery is acknowledged without the writes still to come.
LimitInOnFailure(w) ==
    /\ "late_soft_limit" \in Faults
    /\ pc[w] \in {"mark_failed", "record_error"}
    /\ pc' = [pc EXCEPT ![w] = "ack"]
    /\ tries' = [tries EXCEPT ![w] = 0]
    /\ UNCHANGED <<storeVars, bucketVars, queueVars, requestVars, msg, held, outputs,
                   redeliveries>>

\* The limit is armed from the start of a task to its end.
SoftTimeLimit(w) == LimitInPipeline(w) \/ LimitInRetry(w) \/ LimitInOnFailure(w)

\* The process is killed and the delivery settled: on_failure does not run.
HardTimeLimit(w) ==
    /\ "hard_limit" \in Faults
    /\ pc[w] \in InTask
    /\ Release(w)
    /\ UNCHANGED <<storeVars, bucketVars, queueVars, requestVars, redeliveries>>

Interruption(w) ==
    WorkerCrash(w) \/ Disconnect(w) \/ SoftTimeLimit(w) \/ HardTimeLimit(w)

\* Every request has been answered and every message worked off.
Quiet ==
    /\ \A j \in Jobs : request[j] \in Replied \union {"none"}
    /\ \A m \in Message : ready[m] = 0
    /\ \A w \in Workers : pc[w] = "idle"

Rest == Quiet /\ UNCHANGED vars

Next ==
    \/ \E j \in Jobs : ClientUpload(j)
    \/ \E j \in Jobs : SourceDisappears(j)
    \/ \E j \in Jobs : Submit(j)
    \/ \E j \in Jobs : RequestStep(j)
    \/ \E j \in Jobs : ApiCrash(j)
    \/ \E w \in Workers : WorkerStep(w)
    \/ \E w \in Workers : Interruption(w)
    \/ Rest

(***************************************************************************)
(* A request handler and a worker process keep running until something     *)
(* kills them; nobody has to upload or to submit.                          *)
(***************************************************************************)
Fairness ==
    /\ \A j \in Jobs : WF_vars(RequestStep(j))
    /\ \A w \in Workers : WF_vars(WorkerStep(w))

Spec == Init /\ [][Next]_vars /\ Fairness

-----------------------------------------------------------------------------
(***************************************************************************)
(* Type correctness of the record, the bucket, the queue, the requests and *)
(* the workers.  In particular no call is repeated more than CallRetries   *)
(* times (retries.py) and no task more than MaxRetries times               *)
(* (celery_service.py).                                                    *)
(***************************************************************************)
TypeOK ==
    /\ status \in [Jobs -> JobStatus \union {"absent"}]
    /\ error \in [Jobs -> BOOLEAN]
    /\ result \in [Jobs -> SUBSET (Nat \ {0})]
    /\ source \in SUBSET Jobs
    /\ objects \in [Jobs -> Nat]
    /\ ready \in [Message -> Nat]
    /\ request \in [Jobs -> RequestPlace]
    /\ apiTries \in [Jobs -> 0..CallRetries]
    /\ pc \in [Workers -> WorkerPlace]
    /\ msg \in [Workers -> Message \union {NoMsg}]
    /\ \A w \in Workers : msg[w] = NoMsg <=> pc[w] = "idle"
    /\ held \in [Workers -> BOOLEAN]
    /\ tries \in [Workers -> 0..CallRetries]
    /\ outputs \in [Workers -> SUBSET (Nat \ {0})]
    /\ redeliveries \in 0..MaxRedeliveries

\* keys name all outputs of a run of j, each of them in the bucket.
AllOutputs(j, keys) ==
    /\ keys \subseteq 1..objects[j]
    /\ Cardinality(keys) = Outputs[j]

(***************************************************************************)
(* A job is shown as completed only with a stored result that names all of *)
(* its outputs, each of them in the bucket: upload, then set_result, then  *)
(* update_status, in every interleaving of runs of the same job.           *)
(***************************************************************************)
CompletedIsReported ==
    \A j \in Jobs : status[j] = "completed" => AllOutputs(j, result[j])

Waiting(j) == \E m \in Message : m.job = j /\ ready[m] > 0

WorkedOn(j) == \E w \in Workers : pc[w] # "idle" /\ Job(w) = j

(***************************************************************************)
(* No worker ever sees a job that create_job has not recorded: POST /jobs  *)
(* registers before it dispatches and does not dispatch after an error.    *)
(***************************************************************************)
WorkIsRegistered ==
    \A j \in Jobs : Waiting(j) \/ WorkedOn(j) => status[j] # "absent"

\* Where a task has still to write the status the job ends with.
Undecided == InTask \ {"observe", "record_error"}

DecisionPending(j) ==
    Waiting(j) \/ \E w \in Workers : pc[w] \in Undecided /\ Job(w) = j

(***************************************************************************)
(* Late acknowledgement (celery_service.py: "so a worker crash does not    *)
(* drop a job"): an accepted job that has not ended is in the queue or     *)
(* with a worker that has still to end it, so long as nothing cuts the     *)
(* retry or on_failure short.                                              *)
(***************************************************************************)
NoJobForgotten ==
    \A j \in Jobs :
        request[j] = "accepted" /\ status[j] \notin Terminal => DecisionPending(j)

(***************************************************************************)
(* MediaProcessingTask: "the job is marked failed (with the error          *)
(* message)".  A job the client was told about that is left failed, with   *)
(* nothing about it under way, has the message on_failure stores after the *)
(* status, so long as nothing cuts on_failure short.                       *)
(***************************************************************************)
FailureExplained ==
    \A j \in Jobs :
        request[j] = "accepted" /\ status[j] = "failed" /\ ~Waiting(j) /\ ~WorkedOn(j)
            => error[j]

(***************************************************************************)
(* A job is run by one worker at a time, also while the retry of a task is *)
(* already queued and the task not yet acknowledged.                       *)
(***************************************************************************)
SingleRun ==
    \A v, w \in Workers :
        pc[v] \in InTask /\ pc[w] \in InTask /\ Job(v) = Job(w) => v = w

(***************************************************************************)
(* The retries of a job leave at most one set of outputs per attempt in    *)
(* the bucket, however many uploads fail half-way or after the effect.     *)
(***************************************************************************)
ObjectBudget ==
    \A j \in Jobs : objects[j] <= (MaxRetries + 1) * Outputs[j]

(***************************************************************************)
(* A submission answered 503 has no work behind it: nothing was recorded,  *)
(* or the job is failed ("clients are not left polling a job that will     *)
(* never run"), and no worker will take it up.                             *)
(***************************************************************************)
RefusedNeverRuns ==
    \A j \in Jobs : request[j] = "unavailable" =>
        /\ status[j] \in {"absent", "failed"}
        /\ ~Waiting(j) /\ ~WorkedOn(j)

(***************************************************************************)
(* A job the client was told about ends, and stays ended: although a       *)
(* redelivered task takes a finished job back to "processing".  That holds *)
(* so long as nothing cuts the retry or on_failure short (else see         *)
(* NotStuckProcessing).                                                    *)
(***************************************************************************)
Settles ==
    \A j \in Jobs : request[j] = "accepted" ~> [](status[j] \in Terminal)

(***************************************************************************)
(* The lifecycle of JobContract, read off the status key and the answer.   *)
(***************************************************************************)
Contract == INSTANCE JobContract WITH
    phase <- status,
    promised <- {j \in Jobs : request[j] = "accepted"}

KeepsContract == Contract!ContractSpec

(***************************************************************************)
(* What the comments and documents of the repository say, and the code     *)
(* does not do (each is refuted by a run of its own).                      *)
(***************************************************************************)
\* celery_worker.py: "Permanent failures (corrupt media, invalid
\* operations, missing objects) are not retried".  Without a failing
\* network there is nothing else to retry.
MissingSourceNotRetried ==
    \A m \in Message : m.retries > 0 => ready[m] = 0

\* load_test.py: "Poll until terminal status", which takes the first
\* "completed" or "failed" for the end of the job.
TerminalIsFinal ==
    [][\A j \in Jobs : status[j] \in Terminal => status'[j] = status[j]]_status

\* celery_worker.py, MediaProcessingTask: once retries are exhausted the
\* job is marked failed "rather than leaving the job stuck as processing".
\* Refuted by an outage of Redis, and by a time limit reached in on_failure.
NotStuckProcessing ==
    \A j \in Jobs : status[j] = "processing" ~> status[j] \in Terminal

\* celery_worker.py: "metrics must never break the job".  A task that has
\* marked its job completed and goes on to the metrics does not come back.
MetricsNeverBreakJob ==
    [][\A w \in Workers : pc[w] = "observe" => pc'[w] \in {"observe", "ack"}]_pc

=============================================================================
