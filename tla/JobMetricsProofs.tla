--------------------------- MODULE JobMetricsProofs ---------------------------
(***************************************************************************)
(* Proofs about JobMetrics.  The metrics only watch: every step is one of  *)
(* MediaJobs, so that what is proved of the machinery may be used here.    *)
(***************************************************************************)
EXTENDS JobMetrics, ContractProofs

(***************************************************************************)
(* A step with its counting is a step of MediaJobs, or none of it.         *)
(***************************************************************************)
LEMMA MetricsWatch == [MetricsNext]_metricsVars => [Next]_vars
  BY DEF MetricsNext, WorkerMove, Uncounted, Next, metricsVars

(***************************************************************************)
(* The jobs with their metrics behave as the jobs without: what holds of   *)
(* MediaJobs, its liveness included, holds with the metrics.               *)
(***************************************************************************)
LEMMA MetricsChangeNothing == MetricsSpec => Spec
<1>1. MetricsInit => Init
  BY DEF MetricsInit
<1> QED
  BY <1>1, MetricsWatch, PTL DEF MetricsSpec, Spec

-----------------------------------------------------------------------------
(***************************************************************************)
(* The gauge of jobs in progress.  The failures assumed away are the two   *)
(* that leave the task before its try: an error of the first write of the  *)
(* status, and a soft time limit during it.                                *)
(***************************************************************************)
EntersTheTry == Faults \intersect {"redis", "soft_limit"} = {}

GaugeInv ==
    /\ TypeOK
    /\ gauge \in [Workers -> {0, 1}]
    /\ InProgressIsExact

(***************************************************************************)
(* The gauge of a worker moves with the worker, through the try or by its  *)
(* death.                                                                  *)
(***************************************************************************)
LEMMA GaugeMoves ==
    ASSUME GaugeInv, NEW w \in Workers, NEW to \in WorkerPlace,
           pc' = [pc EXCEPT ![w] = to],
           \/ to = "idle" /\ gauge' = [gauge EXCEPT ![w] = 0]
           \/ /\ gauge' = [gauge EXCEPT ![w] = GaugeAfter(w)]
              /\ pc[w] = "idle" => to \in {"idle", "mark_processing"}
              /\ pc[w] = "mark_processing" => to \in {"mark_processing", "download"}
              /\ pc[w] \in Try => to # "mark_processing"
              /\ pc[w] \notin Pipeline \union {"idle"} => to \notin Pipeline
    PROVE  gauge' \in [Workers -> {0, 1}] /\ InProgressIsExact'
<1>1. /\ pc \in [Workers -> WorkerPlace]
      /\ gauge \in [Workers -> {0, 1}]
      /\ \A v \in Workers : gauge[v] = One(pc[v] \in Pipeline)
  BY DEF GaugeInv, TypeOK, InProgressIsExact
<1>2. CASE to = "idle" /\ gauge' = [gauge EXCEPT ![w] = 0]
  BY <1>1, <1>2 DEF InProgressIsExact, One, Pipeline
<1>3. CASE ~(to = "idle" /\ gauge' = [gauge EXCEPT ![w] = 0])
  <2>1. pc'[w] = to
    BY <1>1
  <2>2. GaugeAfter(w) = One(to \in Pipeline)
    <3>1. CASE pc[w] = "idle"
      BY <1>1, <1>3, <2>1, <3>1 DEF GaugeAfter, Moves, Try, One, Pipeline
    <3>2. CASE pc[w] = "mark_processing"
      BY <1>1, <1>3, <2>1, <3>2 DEF GaugeAfter, Moves, Try, One, Pipeline
    <3>3. CASE pc[w] \in Try
      BY <1>1, <1>3, <2>1, <3>3 DEF GaugeAfter, Moves, Try, One, Pipeline
    <3>4. CASE pc[w] \notin Pipeline \union {"idle"}
      BY <1>1, <1>3, <2>1, <3>4 DEF GaugeAfter, Moves, Try, One, Pipeline
    <3> QED
      BY <3>1, <3>2, <3>3, <3>4 DEF Try
  <2>3. One(to \in Pipeline) \in {0, 1}
    BY DEF One
  <2> QED
    BY <1>1, <1>3, <2>1, <2>2, <2>3 DEF InProgressIsExact
<1> QED
  BY <1>2, <1>3

(***************************************************************************)
(* The steps that leave the gauges and the positions alone, then those of  *)
(* each worker.                                                            *)
(***************************************************************************)
LEMMA GaugeStep ==
    EntersTheTry /\ GaugeInv /\ [MetricsNext]_metricsVars => GaugeInv'
<1> SUFFICES ASSUME EntersTheTry, GaugeInv, [MetricsNext]_metricsVars
             PROVE  GaugeInv'
  OBVIOUS
<1> USE DEF workerVars
<1>1. /\ TypeOK /\ TypeOK'
      /\ pc \in [Workers -> WorkerPlace]
  BY MetricsWatch, TypeStep DEF GaugeInv, TypeOK
<1>2. ASSUME UNCHANGED <<pc, gauge>>
      PROVE  GaugeInv'
  BY <1>1, <1>2 DEF GaugeInv, InProgressIsExact
<1>3. ASSUME NEW j \in Jobs, RequestStep(j), CountRequest(j)
      PROVE  GaugeInv'
  BY <1>2, <1>3
  DEF RequestStep, RegisterJob, Dispatch, MarkDispatchFailed, RecordDispatchError,
      CountRequest
<1>4. CASE Uncounted /\ UNCHANGED countVars
  BY <1>2, <1>4
  DEF Uncounted, ClientUpload, SourceDisappears, Submit, ApiCrash, Rest, vars, countVars
<1>5. CASE UNCHANGED metricsVars
  BY <1>2, <1>5 DEF metricsVars, vars, countVars
<1>6. ASSUME NEW w \in Workers, NEW to \in WorkerPlace, pc' = [pc EXCEPT ![w] = to],
             gauge' = [gauge EXCEPT ![w] = GaugeAfter(w)],
             pc[w] = "idle" => to \in {"idle", "mark_processing"},
             pc[w] = "mark_processing" => to \in {"mark_processing", "download"},
             pc[w] \in Try => to # "mark_processing",
             pc[w] \notin Pipeline \union {"idle"} => to \notin Pipeline
      PROVE  GaugeInv'
  BY <1>1, <1>6, GaugeMoves DEF GaugeInv
<1>7. ASSUME NEW w \in Workers, NEW to, pc' = [pc EXCEPT ![w] = to]
      PROVE  to \in WorkerPlace
  <2>1. pc'[w] = to /\ pc'[w] \in WorkerPlace
    BY <1>1, <1>7 DEF TypeOK
  <2> QED
    BY <2>1
<1>8. ASSUME NEW w \in Workers
      PROVE  OnTransient(w) \in {"retry", "mark_failed"}
  BY DEF OnTransient
<1>9. ASSUME NEW w \in Workers, WorkerStep(w), CountStep(w)
      PROVE  GaugeInv'
  <2>1. gauge' = [gauge EXCEPT ![w] = GaugeAfter(w)]
    BY <1>9 DEF CountStep
  <2>2. CASE Receive(w)
    <3>1. pc' = [pc EXCEPT ![w] = "mark_processing"] /\ pc[w] = "idle"
      BY <2>2 DEF Receive
    <3> QED
      BY <1>6, <1>7, <2>1, <3>1 DEF Try, Pipeline
  <2>3. CASE MarkProcessing(w)
    <3>1. pc' = [pc EXCEPT ![w] = "download"] /\ pc[w] = "mark_processing"
      BY <2>3 DEF MarkProcessing, TaskAttempt, AfterAttempt, RedisAttempt, EntersTheTry
    <3> QED
      BY <1>6, <1>7, <2>1, <3>1 DEF Try, Pipeline
  <2>4. CASE Download(w) \/ Process(w) \/ Upload(w) \/ StoreResult(w)
               \/ MarkCompleted(w) \/ ObserveEndToEnd(w)
    <3>1. pc[w] \in Try
      BY <2>4
      DEF Download, Process, Upload, StoreResult, MarkCompleted, ObserveEndToEnd, Try,
          Pipeline
    <3>2. PICK to : pc' = [pc EXCEPT ![w] = to] /\ to # "mark_processing"
      BY <1>8, <2>4
      DEF Download, Process, Upload, StoreResult, MarkCompleted, ObserveEndToEnd,
          TaskAttempt, AfterAttempt
    <3> QED
      BY <1>6, <1>7, <2>1, <3>1, <3>2 DEF Try, Pipeline
  <2>5. CASE ScheduleRetry(w) \/ MarkFailed(w) \/ RecordError(w) \/ Acknowledge(w)
    <3>1. pc[w] \notin Pipeline \union {"idle"}
      BY <2>5 DEF ScheduleRetry, MarkFailed, RecordError, Acknowledge, Pipeline
    <3>2. PICK to : pc' = [pc EXCEPT ![w] = to] /\ to \notin Pipeline
      BY <2>5
      DEF ScheduleRetry, MarkFailed, RecordError, Acknowledge, Release, TaskAttempt,
          AfterAttempt, Pipeline
    <3> QED
      BY <1>6, <1>7, <2>1, <3>1, <3>2 DEF Try, Pipeline
  <2> QED
    BY <1>9, <2>2, <2>3, <2>4, <2>5 DEF WorkerStep
<1>10. ASSUME NEW w \in Workers, Interruption(w), CountInterruption(w)
       PROVE  GaugeInv'
  <2>1. ~LimitInPipeline(w)
    BY DEF EntersTheTry, LimitInPipeline
  <2>2. CASE WorkerCrash(w) \/ HardTimeLimit(w)
    <3>1. pc' = [pc EXCEPT ![w] = "idle"]
      BY <2>2 DEF WorkerCrash, HardTimeLimit, Release
    <3>2. gauge' = [gauge EXCEPT ![w] = 0]
      BY <1>1, <1>10, <3>1 DEF CountInterruption
    <3> QED
      BY <1>1, <1>7, <3>1, <3>2, GaugeMoves DEF GaugeInv
  <2>3. CASE Disconnect(w)
    <3>1. pc' = pc
      BY <2>3 DEF Disconnect
    <3>2. GaugeAfter(w) = gauge[w]
      BY <3>1 DEF GaugeAfter, Moves
    <3>3. pc[w] = "idle" => gauge[w] = 0
      BY DEF GaugeInv, InProgressIsExact, One, Pipeline
    <3>4. gauge' = gauge
      BY <1>10, <3>1, <3>2, <3>3 DEF CountInterruption, GaugeInv
    <3> QED
      BY <1>2, <3>1, <3>4
  <2>4. CASE LimitInRetry(w) \/ LimitInOnFailure(w)
    <3>1. PICK to \in {"ack", "mark_failed"} : pc' = [pc EXCEPT ![w] = to]
      BY <2>4 DEF LimitInRetry, LimitInOnFailure
    <3>2. pc'[w] # "idle" /\ to \notin Pipeline /\ pc[w] \notin Pipeline \union {"idle"}
      BY <1>1, <2>4, <3>1 DEF LimitInRetry, LimitInOnFailure, Pipeline
    <3>3. gauge' = [gauge EXCEPT ![w] = GaugeAfter(w)]
      BY <1>10, <3>2 DEF CountInterruption
    <3> QED
      BY <1>6, <1>7, <3>1, <3>2, <3>3 DEF Try, Pipeline
  <2> QED
    BY <1>10, <2>1, <2>2, <2>3, <2>4 DEF Interruption, SoftTimeLimit
<1> QED
  BY <1>3, <1>4, <1>5, <1>9, <1>10 DEF MetricsNext, WorkerMove

(***************************************************************************)
(* The gauge of every worker tells whether it is inside the pipeline, for  *)
(* any number of retries, failures, crashes and kills: the finally clause  *)
(* of the task misses no way out of the try (celery_worker.py).            *)
(***************************************************************************)
THEOREM GaugeIsExact ==
    ASSUME EntersTheTry
    PROVE  MetricsSpec => []InProgressIsExact
<1>1. MetricsInit => GaugeInv
  BY TypeInit DEF MetricsInit, Init, GaugeInv, InProgressIsExact, One, Pipeline
<1>2. GaugeInv /\ [MetricsNext]_metricsVars => GaugeInv'
  BY GaugeStep
<1>3. GaugeInv => InProgressIsExact
  BY DEF GaugeInv
<1> QED
  BY <1>1, <1>2, <1>3, PTL DEF MetricsSpec

-----------------------------------------------------------------------------
(***************************************************************************)
(* The counters.  Beside what breaks the lifecycle (Orderly), the failure  *)
(* assumed away is the hard time limit, which kills a task between the     *)
(* writes of its failure and the counting.                                 *)
(***************************************************************************)
Counted == Orderly /\ "hard_limit" \notin Faults

\* What the counter of submissions says at each place of the request.
SubmittedRight(j) ==
    /\ request[j] \in {"none", "create_job"} => submitted[j] = 0
    /\ request[j] \in {"dispatch", "accepted", "mark_failed", "record_error"} =>
         submitted[j] = 1
    /\ request[j] = "unavailable" /\ status[j] # "absent" => submitted[j] = 1

\* A failure is counted before or after it is recorded, but not without it.
FailedRight(j) ==
    /\ failed[j] > 0 =>
         status[j] = "failed" \/ \E w \in Workers : pc[w] = "mark_failed" /\ Job(w) = j
    /\ status[j] = "failed" /\ failed[j] = 0 =>
         \/ request[j] \in {"record_error", "aborted", "internal_error"}
         \/ \E w \in Workers : pc[w] = "record_error" /\ Job(w) = j

CountersRight(j) ==
    /\ SubmittedRight(j)
    /\ completed[j] = One(status[j] = "completed")
    /\ FailedRight(j)

CountsInv ==
    /\ ContractInv
    /\ RefusedInv
    /\ submitted \in [Jobs -> Nat]
    /\ completed \in [Jobs -> Nat]
    /\ failed \in [Jobs -> Nat]
    /\ \A j \in Jobs : CountersRight(j)

(***************************************************************************)
(* A request changes nothing of the tasks, and the counters of its own job *)
(* only.                                                                   *)
(***************************************************************************)
LEMMA RequestCounts ==
    ASSUME CountsInv, NEW j \in Jobs, UNCHANGED <<pc, msg>>,
           \A i \in Jobs : i # j =>
               /\ request'[i] = request[i] /\ status'[i] = status[i]
               /\ submitted'[i] = submitted[i] /\ completed'[i] = completed[i]
               /\ failed'[i] = failed[i],
           CountersRight(j)'
    PROVE  \A i \in Jobs : CountersRight(i)'
<1>1. ASSUME NEW i \in Jobs, i # j
      PROVE  CountersRight(i)'
  <2>1. CountersRight(i)
    BY DEF CountsInv
  <2> QED
    BY <1>1, <2>1 DEF CountersRight, SubmittedRight, FailedRight, Job
<1> QED
  BY <1>1

(***************************************************************************)
(* A task changes the counters of its own job only, which it was accepted  *)
(* for.                                                                    *)
(***************************************************************************)
LEMMA TaskCounts ==
    ASSUME CountsInv, NEW w \in Workers, UNCHANGED <<request, submitted>>,
           \A v \in Workers : v # w => pc'[v] = pc[v] /\ msg'[v] = msg[v],
           pc[w] # "idle", NEW j \in Jobs, Job(w) = j,
           \A i \in Jobs : i # j =>
               /\ status'[i] = status[i] /\ completed'[i] = completed[i]
               /\ failed'[i] = failed[i],
           completed'[j] = One(status'[j] = "completed"),
           FailedRight(j)'
    PROVE  \A i \in Jobs : CountersRight(i)'
<1>1. request[j] = "accepted"
  BY DEF CountsInv, RefusedInv, Underway, WorkedOn
<1>2. ASSUME NEW i \in Jobs
      PROVE  CountersRight(i)'
  <2>1. CountersRight(i)
    BY DEF CountsInv
  <2>2. CASE i = j
    <3>1. SubmittedRight(i)'
      BY <1>1, <2>1, <2>2 DEF CountersRight, SubmittedRight
    <3> QED
      BY <2>2, <3>1 DEF CountersRight
  <2>3. CASE i # j
    <3>1. SubmittedRight(i)' /\ completed'[i] = One(status'[i] = "completed")
      BY <2>1, <2>3 DEF CountersRight, SubmittedRight
    <3>2. \A v \in Workers : Job(v) = i => pc'[v] = pc[v] /\ Job(v)' = i
      BY <2>3 DEF Job
    <3>3. FailedRight(i) /\ status'[i] = status[i] /\ failed'[i] = failed[i]
      BY <2>1, <2>3 DEF CountersRight
    <3>4. FailedRight(i)'
      BY <3>2, <3>3 DEF FailedRight
    <3> QED
      BY <3>1, <3>4 DEF CountersRight
  <2> QED
    BY <2>2, <2>3
<1> QED
  BY <1>2

(***************************************************************************)
(* The steps of a request, with what they count.                           *)
(***************************************************************************)
LEMMA RequestStepCounts ==
    ASSUME Counted, CountsInv, [Next]_vars, NEW j \in Jobs,
           RequestStep(j), CountRequest(j)
    PROVE  \A i \in Jobs : CountersRight(i)'
<1> USE DEF storeVars, queueVars, requestVars, workerVars
<1>1. /\ request \in [Jobs -> RequestPlace]
      /\ status \in [Jobs -> JobStatus \union {"absent"}]
      /\ submitted \in [Jobs -> Nat] /\ completed \in [Jobs -> Nat]
      /\ failed \in [Jobs -> Nat]
  BY DEF CountsInv, RefusedInv, TypeOK
<1>2. PICK s \in Nat, f \in Nat :
        /\ s = IF request[j] = "create_job" /\ request'[j] = "dispatch" THEN 1 ELSE 0
        /\ f = IF request[j] = "record_error" /\ request'[j] = "unavailable" THEN 1 ELSE 0
        /\ submitted' = Increment(submitted, j, s)
        /\ failed' = Increment(failed, j, f)
        /\ UNCHANGED completed
  BY DEF CountRequest, One
<1>3. /\ submitted'[j] = submitted[j] + s /\ failed'[j] = failed[j] + f
      /\ \A i \in Jobs : i # j => submitted'[i] = submitted[i] /\ failed'[i] = failed[i]
  <2>1. /\ submitted'[j] = submitted[j] + s
        /\ \A i \in Jobs : i # j => submitted'[i] = submitted[i]
    BY <1>1, <1>2 DEF Increment
  <2>2. /\ failed'[j] = failed[j] + f
        /\ \A i \in Jobs : i # j => failed'[i] = failed[i]
    BY <1>1, <1>2 DEF Increment
  <2> QED
    BY <2>1, <2>2
<1>4. CountersRight(j) /\ SubmittedRight(j) /\ FailedRight(j)
  BY DEF CountsInv, CountersRight
<1>5. UNCHANGED <<pc, msg>>
  BY DEF RequestStep, RegisterJob, Dispatch, MarkDispatchFailed, RecordDispatchError
<1>6. \A i \in Jobs : i # j =>
        /\ request'[i] = request[i] /\ status'[i] = status[i]
        /\ submitted'[i] = submitted[i] /\ completed'[i] = completed[i]
        /\ failed'[i] = failed[i]
  <2>1. \A i \in Jobs : i # j => request'[i] = request[i] /\ status'[i] = status[i]
    BY <1>1
    DEF RequestStep, RegisterJob, Dispatch, MarkDispatchFailed, RecordDispatchError,
        CreateJob, UpdateStatus, SetError, RequestAttempt
  <2> QED
    BY <1>2, <1>3, <2>1
<1>7. ASSUME NEW applied \in BOOLEAN, NEW replied \in BOOLEAN,
             RedisAttempt(applied, replied)
      PROVE  applied /\ replied
  BY <1>7, CommandReplies DEF Counted
<1>8. SUFFICES CountersRight(j)'
  BY <1>5, <1>6, RequestCounts
<1>9. CASE RegisterJob(j)
  <2>1. /\ request' = [request EXCEPT ![j] = "dispatch"]
        /\ status' = [status EXCEPT ![j] = "pending"]
        /\ request[j] = "create_job"
    BY <1>7, <1>9 DEF RegisterJob, CreateJob, RequestAttempt, AfterAttempt
  <2>2. request'[j] = "dispatch" /\ status'[j] = "pending" /\ status[j] = "absent"
    BY <1>1, <2>1 DEF CountsInv, ContractInv
  <2>3. submitted'[j] = submitted[j] + 1 /\ failed'[j] = failed[j]
    BY <1>1, <1>2, <1>3, <2>1, <2>2
  <2>4. submitted'[j] = 1
    BY <1>4, <2>1, <2>3 DEF SubmittedRight
  <2>5. FailedRight(j)'
    <3>1. failed[j] = 0
      <4>1. ~ \E w \in Workers : pc[w] = "mark_failed" /\ Job(w) = j
        BY <2>1 DEF CountsInv, RefusedInv, Underway, WorkedOn
      <4> QED
        BY <1>1, <1>4, <2>2, <4>1 DEF FailedRight
    <3> QED
      BY <2>2, <2>3, <3>1 DEF FailedRight
  <2> QED
    BY <1>2, <1>4, <2>2, <2>4, <2>5 DEF CountersRight, SubmittedRight, One
<1>10. CASE Dispatch(j)
  <2>1. /\ UNCHANGED status /\ request[j] = "dispatch"
        /\ request'[j] \in {"dispatch", "accepted", "mark_failed"}
    BY <1>1, <1>10 DEF Dispatch, RequestAttempt, AfterAttempt
  <2>2. submitted'[j] = submitted[j] /\ failed'[j] = failed[j]
    BY <1>1, <1>2, <1>3, <2>1
  <2> QED
    BY <1>2, <1>4, <1>5, <2>1, <2>2
    DEF CountersRight, SubmittedRight, FailedRight, Job
<1>11. CASE MarkDispatchFailed(j)
  <2>1. /\ request' = [request EXCEPT ![j] = "record_error"]
        /\ status' = [status EXCEPT ![j] = "failed"]
        /\ request[j] = "mark_failed"
    BY <1>7, <1>11 DEF MarkDispatchFailed, UpdateStatus, RequestAttempt, AfterAttempt
  <2>2. request'[j] = "record_error" /\ status'[j] = "failed" /\ status[j] = "pending"
    BY <1>1, <2>1 DEF CountsInv, ContractInv
  <2>3. submitted'[j] = submitted[j] /\ failed'[j] = failed[j]
    BY <1>1, <1>2, <1>3, <2>1
  <2> QED
    BY <1>2, <1>4, <2>1, <2>2, <2>3
    DEF CountersRight, SubmittedRight, FailedRight, One
<1>12. CASE RecordDispatchError(j)
  <2>1. /\ request' = [request EXCEPT ![j] = "unavailable"]
        /\ UNCHANGED status
        /\ request[j] = "record_error"
    BY <1>7, <1>12 DEF RecordDispatchError, SetError, RequestAttempt, AfterAttempt
  <2>2. request'[j] = "unavailable" /\ status[j] = "failed"
    BY <1>1, <2>1 DEF CountsInv, RefusedInv
  <2>3. submitted'[j] = submitted[j] /\ failed'[j] = failed[j] + 1
    BY <1>1, <1>2, <1>3, <2>1, <2>2
  <2>4. failed'[j] > 0
    BY <1>1, <2>3
  <2> QED
    BY <1>2, <1>4, <2>1, <2>2, <2>3, <2>4
    DEF CountersRight, SubmittedRight, FailedRight
<1> QED
  BY <1>9, <1>10, <1>11, <1>12 DEF RequestStep

(***************************************************************************)
(* The steps of a task, with what they count.  One that counts nothing and *)
(* writes no status only must not pass the two places of on_failure.       *)
(***************************************************************************)
LEMMA QuietTaskCounts ==
    ASSUME CountsInv, NEW w \in Workers, pc[w] \notin {"idle", "mark_failed", "record_error"},
           UNCHANGED <<request, status, submitted, completed, failed>>,
           \A v \in Workers : v # w => pc'[v] = pc[v] /\ msg'[v] = msg[v]
    PROVE  \A i \in Jobs : CountersRight(i)'
<1>1. PICK j \in Jobs : Job(w) = j
  BY BusyHasMessage DEF CountsInv, RefusedInv
<1>2. CountersRight(j) /\ FailedRight(j)
  BY DEF CountsInv, CountersRight
<1>3. FailedRight(j)'
  <2>1. \A v \in Workers : pc[v] \in {"mark_failed", "record_error"} =>
          pc'[v] = pc[v] /\ Job(v)' = Job(v)
    BY DEF Job
  <2> QED
    BY <1>2, <2>1 DEF FailedRight
<1> QED
  BY <1>1, <1>2, <1>3, TaskCounts DEF CountersRight

\* A step of a worker counts what it does to its job, and no other one.
LEMMA WorkerStepCounts ==
    ASSUME Counted, CountsInv, [Next]_vars, NEW w \in Workers,
           WorkerStep(w), CountStep(w), UNCHANGED submitted
    PROVE  \A i \in Jobs : CountersRight(i)'
<1> USE DEF storeVars, queueVars, requestVars, workerVars
<1>1. /\ TypeOK
      /\ pc \in [Workers -> WorkerPlace]
      /\ msg \in [Workers -> Message \union {NoMsg}]
      /\ status \in [Jobs -> JobStatus \union {"absent"}]
      /\ completed \in [Jobs -> Nat] /\ failed \in [Jobs -> Nat]
  BY DEF CountsInv, RefusedInv, TypeOK
<1>2. PICK c \in Nat, f \in Nat :
        /\ c = IF Completes(w) THEN 1 ELSE 0
        /\ f \in FailuresCounted(w)
        /\ completed' = Increment(completed, Job(w), c)
        /\ failed' = Increment(failed, Job(w), f)
  BY DEF CountStep, FailuresCounted, One
<1>3. ASSUME NEW applied \in BOOLEAN, NEW replied \in BOOLEAN,
             RedisAttempt(applied, replied)
      PROVE  applied /\ replied
  BY <1>3, CommandReplies DEF Counted
<1>4. CASE Receive(w)
  <2>1. /\ pc[w] = "idle" /\ UNCHANGED <<status, request>>
        /\ pc' = [pc EXCEPT ![w] = "mark_processing"]
        /\ \A v \in Workers : v # w => msg'[v] = msg[v]
    BY <1>1, <1>4 DEF Receive
  <2>2. UNCHANGED <<completed, failed>>
    BY <1>2, <2>1 DEF Completes, FailuresCounted, Moves, Increment
  <2>3. \A v \in Workers : pc[v] # "idle" => pc'[v] = pc[v] /\ Job(v)' = Job(v)
    BY <1>1, <2>1 DEF Job
  <2>4. ASSUME NEW j \in Jobs
        PROVE  CountersRight(j)'
    <3>1. CountersRight(j)
      BY DEF CountsInv
    <3> QED
      BY <2>1, <2>2, <2>3, <3>1 DEF CountersRight, SubmittedRight, FailedRight
  <2> QED
    BY <2>4
<1>5. CASE ~Receive(w)
  <2>1. /\ \A v \in Workers : v # w => pc'[v] = pc[v] /\ msg'[v] = msg[v]
        /\ UNCHANGED request
    BY <1>1, <1>5, OwnMessage
  <2>2. pc[w] # "idle"
    BY <1>5
    DEF WorkerStep, MarkProcessing, Download, Process, Upload, StoreResult,
        MarkCompleted, ObserveEndToEnd, ScheduleRetry, MarkFailed, RecordError,
        Acknowledge
  <2>3. PICK j \in Jobs : Job(w) = j
    BY <1>1, <2>2, BusyHasMessage
  <2>4. /\ completed'[j] = completed[j] + c /\ failed'[j] = failed[j] + f
        /\ \A i \in Jobs : i # j => completed'[i] = completed[i] /\ failed'[i] = failed[i]
    <3>1. /\ completed'[j] = completed[j] + c
          /\ \A i \in Jobs : i # j => completed'[i] = completed[i]
      BY <1>1, <1>2, <2>3 DEF Increment
    <3>2. /\ failed'[j] = failed[j] + f
          /\ \A i \in Jobs : i # j => failed'[i] = failed[i]
      BY <1>1, <1>2, <2>3 DEF Increment
    <3> QED
      BY <3>1, <3>2
  <2>5. CountersRight(j) /\ FailedRight(j)
    BY DEF CountsInv, CountersRight
  <2>6. pc[w] \in InTask => status[j] \in StatusAt(pc[w])
    BY <2>3 DEF CountsInv, ContractInv
  <2>7. CASE MarkProcessing(w) \/ MarkCompleted(w) \/ MarkFailed(w)
    <3>1. PICK new \in JobStatus, to \in {"download", "observe", "record_error"} :
            /\ status' = [status EXCEPT ![j] = new]
            /\ pc' = [pc EXCEPT ![w] = to]
            /\ \/ pc[w] = "mark_processing" /\ new = "processing" /\ to = "download"
               \/ pc[w] = "mark_completed" /\ new = "completed" /\ to = "observe"
               \/ pc[w] = "mark_failed" /\ new = "failed" /\ to = "record_error"
      BY <1>3, <2>3, <2>7
      DEF MarkProcessing, MarkCompleted, MarkFailed, UpdateStatus, TaskAttempt,
          AfterAttempt, JobStatus
    <3>2. /\ status'[j] = new /\ pc'[w] = to /\ UNCHANGED msg
          /\ \A i \in Jobs : i # j => status'[i] = status[i]
      BY <1>1, <2>7, <3>1 DEF MarkProcessing, MarkCompleted, MarkFailed
    <3>3. f = 0 /\ c = IF new = "completed" THEN 1 ELSE 0
      BY <1>2, <3>1, <3>2 DEF FailuresCounted, Completes, Moves
    <3>4. completed[j] = 0 /\ status[j] \in {"pending", "processing"}
      BY <2>5, <2>6, <3>1 DEF CountersRight, StatusAt, One, InTask, Pipeline
    <3>5. completed'[j] = One(status'[j] = "completed")
      BY <2>4, <3>2, <3>3, <3>4 DEF One
    <3>6. \A v \in Workers : v # w /\ pc[v] \in InTask => Job(v) # j
      BY <2>3, <3>1 DEF CountsInv, ContractInv, TokenInv, SingleRun, InTask, Pipeline
    <3>7. failed[j] > 0 => pc[w] = "mark_failed"
      BY <2>5, <3>4, <3>6 DEF FailedRight, InTask
    <3>8. FailedRight(j)'
      BY <1>1, <2>3, <2>4, <3>1, <3>2, <3>3, <3>7 DEF FailedRight, Job
    <3> QED
      BY <2>1, <2>2, <2>3, <2>4, <3>2, <3>5, <3>8, TaskCounts
  <2>8. CASE Process(w)
    <3>1. /\ UNCHANGED <<status, msg>> /\ pc[w] = "process"
          /\ \/ pc' = [pc EXCEPT ![w] = "upload"]
             \/ pc' = [pc EXCEPT ![w] = "mark_failed"]
      BY <2>8 DEF Process
    <3>2. c = 0
      BY <1>2, <3>1 DEF Completes, Moves
    <3>3. CASE pc' = [pc EXCEPT ![w] = "upload"]
      <4>1. f = 0
        BY <1>1, <1>2, <3>1, <3>3 DEF FailuresCounted, Moves
      <4>2. UNCHANGED <<completed, failed>>
        BY <1>2, <3>2, <4>1 DEF Increment
      <4> QED
        BY <2>1, <3>1, <4>2, QuietTaskCounts
    <3>4. CASE pc' = [pc EXCEPT ![w] = "mark_failed"]
      <4>1. pc'[w] = "mark_failed" /\ f = 1
        BY <1>1, <1>2, <3>1, <3>4 DEF FailuresCounted, Moves
      <4>2. failed'[j] > 0
        BY <1>1, <2>4, <4>1
      <4>3. FailedRight(j)'
        BY <2>3, <3>1, <4>1, <4>2 DEF FailedRight, Job
      <4>4. completed'[j] = One(status'[j] = "completed")
        BY <1>1, <2>4, <2>5, <3>1, <3>2 DEF CountersRight
      <4> QED
        BY <2>1, <2>2, <2>3, <2>4, <3>1, <4>3, <4>4, TaskCounts
    <3> QED
      BY <3>1, <3>3, <3>4
  <2>9. CASE RecordError(w)
    <3>1. /\ UNCHANGED <<status, msg>> /\ pc[w] = "record_error"
          /\ pc' = [pc EXCEPT ![w] = "ack"]
      BY <1>3, <2>9 DEF RecordError, SetError, TaskAttempt, AfterAttempt
    <3>2. c = 0 /\ f = 1
      BY <1>1, <1>2, <3>1
      DEF Completes, FailuresCounted, Moves, Counted, Orderly, RunsOnce
    <3>3. failed'[j] > 0 /\ status'[j] = "failed"
      BY <1>1, <2>4, <2>6, <3>1, <3>2 DEF StatusAt, InTask
    <3>4. FailedRight(j)' /\ completed'[j] = One(status'[j] = "completed")
      BY <1>1, <2>4, <2>5, <3>1, <3>2, <3>3 DEF FailedRight, CountersRight
    <3> QED
      BY <2>1, <2>2, <2>3, <2>4, <3>1, <3>4, TaskCounts
  <2>10. CASE Download(w) \/ Upload(w) \/ StoreResult(w) \/ ObserveEndToEnd(w)
                \/ ScheduleRetry(w) \/ Acknowledge(w)
    <3>1. /\ UNCHANGED status
          /\ pc[w] \in {"download", "upload", "store_result", "observe", "retry", "ack"}
      BY <2>10
      DEF Download, Upload, StoreResult, SetResult, ObserveEndToEnd, ScheduleRetry,
          Acknowledge
    <3>2. c = 0 /\ f = 0
      BY <1>2, <3>1 DEF Completes, FailuresCounted, Moves
    <3>3. UNCHANGED <<completed, failed>>
      BY <1>2, <3>2 DEF Increment
    <3> QED
      BY <2>1, <3>1, <3>3, QuietTaskCounts
  <2> QED
    BY <1>5, <2>7, <2>8, <2>9, <2>10 DEF WorkerStep
<1> QED
  BY <1>4, <1>5

(***************************************************************************)
(* Every step: those of clients and owners count nothing, and no task is   *)
(* interrupted by the failures that remain.                                *)
(***************************************************************************)
LEMMA CountsStep ==
    Counted /\ CountsInv /\ [MetricsNext]_metricsVars => CountsInv'
<1> SUFFICES ASSUME Counted, CountsInv, [MetricsNext]_metricsVars
             PROVE  CountsInv'
  OBVIOUS
<1> USE DEF storeVars, bucketVars, queueVars, requestVars, workerVars
<1>1. [Next]_vars
  BY MetricsWatch
<1>2. ContractInv' /\ RefusedInv'
  BY <1>1, ContractStep, RefusedStep
  DEF Counted, Orderly, RunsOnce, RaisedIsUnsent, CountsInv
<1>3. /\ TypeOK
      /\ request \in [Jobs -> RequestPlace]
      /\ submitted \in [Jobs -> Nat] /\ completed \in [Jobs -> Nat]
      /\ failed \in [Jobs -> Nat]
  BY DEF CountsInv, RefusedInv, TypeOK
<1>4. ASSUME NEW j \in Jobs, RequestStep(j), CountRequest(j)
      PROVE  CountsInv'
  <2>1. /\ submitted' \in [Jobs -> Nat] /\ completed' \in [Jobs -> Nat]
        /\ failed' \in [Jobs -> Nat]
    BY <1>3, <1>4 DEF CountRequest, Increment, One
  <2> QED
    BY <1>1, <1>2, <1>4, <2>1, RequestStepCounts DEF CountsInv
<1>5. ASSUME NEW w \in Workers, WorkerStep(w), CountStep(w), UNCHANGED submitted
      PROVE  CountsInv'
  <2>1. PICK c \in {0, 1} : completed' = Increment(completed, Job(w), c)
    BY <1>5 DEF CountStep, One
  <2>2. PICK f \in {0, 1} : failed' = Increment(failed, Job(w), f)
    BY <1>5 DEF CountStep, FailuresCounted
  <2>3. completed' \in [Jobs -> Nat]
    <3>1. CASE Job(w) \in Jobs
      BY <1>3, <2>1, <3>1 DEF Increment
    <3>2. CASE Job(w) \notin Jobs
      BY <1>3, <2>1, <3>2 DEF Increment
    <3> QED
      BY <3>1, <3>2
  <2>4. failed' \in [Jobs -> Nat]
    <3>1. CASE Job(w) \in Jobs
      BY <1>3, <2>2, <3>1 DEF Increment
    <3>2. CASE Job(w) \notin Jobs
      BY <1>3, <2>2, <3>2 DEF Increment
    <3> QED
      BY <3>1, <3>2
  <2> QED
    BY <1>1, <1>2, <1>3, <1>5, <2>3, <2>4, WorkerStepCounts DEF CountsInv
<1>6. ASSUME NEW w \in Workers
      PROVE  ~Interruption(w)
  BY DEF Counted, Orderly, RunsOnce, Interruption, WorkerCrash, Disconnect,
         SoftTimeLimit, LimitInPipeline, LimitInRetry, LimitInOnFailure, HardTimeLimit
<1>7. ASSUME UNCHANGED <<status, pc, msg, countVars>>,
             \A i \in Jobs :
                 \/ request'[i] = request[i]
                 \/ request[i] = "none" /\ request'[i] \in {"create_job", "not_found"}
                 \/ request[i] = "none" /\ request'[i] = "unavailable"
                 \/ request'[i] = "aborted"
      PROVE  CountsInv'
  <2>1. ASSUME NEW i \in Jobs
        PROVE  CountersRight(i)'
    <3>1. CountersRight(i) /\ (request[i] = "none" => status[i] = "absent")
      BY DEF CountsInv, RefusedInv
    <3>2. SubmittedRight(i)'
      BY <1>7, <3>1 DEF CountersRight, SubmittedRight, countVars
    <3>3. FailedRight(i)'
      BY <1>7, <3>1 DEF CountersRight, FailedRight, countVars, Job
    <3> QED
      BY <1>7, <3>1, <3>2, <3>3 DEF CountersRight, countVars
  <2> QED
    BY <1>2, <1>3, <1>7, <2>1 DEF CountsInv, countVars
<1>8. CASE Uncounted /\ UNCHANGED countVars
  <2>1. ASSUME NEW j \in Jobs,
               ClientUpload(j) \/ SourceDisappears(j) \/ Submit(j) \/ ApiCrash(j)
        PROVE  CountsInv'
    <3>1. UNCHANGED <<status, pc, msg>>
      BY <2>1 DEF ClientUpload, SourceDisappears, Submit, ApiCrash
    <3>2. \A i \in Jobs :
                 \/ request'[i] = request[i]
                 \/ request[i] = "none" /\ request'[i] \in {"create_job", "not_found"}
                 \/ request[i] = "none" /\ request'[i] = "unavailable"
                 \/ request'[i] = "aborted"
      BY <1>3, <2>1 DEF ClientUpload, SourceDisappears, Submit, ApiCrash
    <3> QED
      BY <1>7, <1>8, <3>1, <3>2
  <2>2. CASE Rest
    BY <1>7, <1>8, <2>2 DEF Rest, vars
  <2> QED
    BY <1>8, <2>1, <2>2 DEF Uncounted
<1>9. CASE UNCHANGED metricsVars
  BY <1>7, <1>9 DEF metricsVars, vars
<1> QED
  BY <1>4, <1>5, <1>6, <1>8, <1>9 DEF MetricsNext, WorkerMove

(***************************************************************************)
(* Once nothing of an answered job is under way, it has been counted as    *)
(* submitted once, as completed once if and only if it is completed, and   *)
(* as failed if and only if it is failed (metrics.py), for any numbers of  *)
(* jobs, workers and retries, and any loss of messages.                    *)
(***************************************************************************)
THEOREM CountersTellTheOutcome ==
    ASSUME Counted
    PROVE  MetricsSpec => []CountsMatchOutcome
<1>1. MetricsInit => CountsInv
  <2> SUFFICES ASSUME MetricsInit
               PROVE  CountsInv
    OBVIOUS
  <2>1. ContractInv /\ TypeOK
    BY ContractInitially, TypeInit DEF MetricsInit
  <2>2. RefusedInv
    BY <2>1
    DEF MetricsInit, Init, StoreInit, QueueInit, RefusedInv, Underway, Waiting, WorkedOn
  <2> QED
    BY <2>1, <2>2
    DEF MetricsInit, Init, StoreInit, CountsInv, CountersRight, SubmittedRight,
        FailedRight, One
<1>2. CountsInv /\ [MetricsNext]_metricsVars => CountsInv'
  BY CountsStep
<1>3. CountsInv => CountsMatchOutcome
  <2> SUFFICES ASSUME CountsInv, NEW j \in Jobs,
                      request[j] \in {"accepted", "unavailable"},
                      ~Waiting(j), ~WorkedOn(j), status[j] # "absent"
               PROVE  /\ submitted[j] = 1
                      /\ completed[j] = One(status[j] = "completed")
                      /\ failed[j] > 0 <=> status[j] = "failed"
    BY DEF CountsMatchOutcome
  <2>1. CountersRight(j) /\ failed[j] \in Nat
    BY DEF CountsInv
  <2>2. \A w \in Workers : pc[w] \in {"mark_failed", "record_error"} => Job(w) # j
    BY DEF WorkedOn
  <2> QED
    BY <2>1, <2>2 DEF CountersRight, SubmittedRight, FailedRight
<1> QED
  BY <1>1, <1>2, <1>3, PTL DEF MetricsSpec

=============================================================================
