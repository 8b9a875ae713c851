--------------------------- MODULE MediaJobsProofs ---------------------------
(***************************************************************************)
(* Proofs about MediaJobs, for any jobs, workers, outputs and bounds.      *)
(* Fairness plays no part in them: each is an invariance argument over     *)
(* Init and Next.                                                          *)
(***************************************************************************)
EXTENDS MediaJobs, FiniteSetTheorems, TLAPS

(***************************************************************************)
(* The retry loop counts no further than its bound (retries.py).           *)
(***************************************************************************)
LEMMA TriesBounded ==
    ASSUME NEW n \in 0..CallRetries, NEW replied \in BOOLEAN
    PROVE  TriesAfter(n, replied) \in 0..CallRetries
  BY RetriesAssumption DEF TriesAfter

(***************************************************************************)
(* A request and a worker stay at the places the code has.                 *)
(***************************************************************************)
LEMMA RequestTyped ==
    ASSUME TypeOK, NEW j \in Jobs, NEW replied \in BOOLEAN,
           NEW done \in RequestPlace, NEW raised \in RequestPlace,
           RequestAttempt(j, replied, done, raised)
    PROVE  /\ request' \in [Jobs -> RequestPlace]
           /\ apiTries' \in [Jobs -> 0..CallRetries]
  <1>1. apiTries[j] \in 0..CallRetries
    BY DEF TypeOK
  <1>2. TriesAfter(apiTries[j], replied) \in 0..CallRetries
    BY <1>1, TriesBounded
  <1>3. AfterAttempt(apiTries[j], replied, request[j], done, raised) \in RequestPlace
    BY DEF TypeOK, AfterAttempt
  <1> QED
    BY <1>2, <1>3 DEF RequestAttempt, TypeOK

\* One attempt of a call of a task leaves its worker at a place of the task.
LEMMA TaskTyped ==
    ASSUME TypeOK, NEW w \in Workers, NEW replied \in BOOLEAN, pc[w] # "idle",
           NEW done \in WorkerPlace \ {"idle"}, NEW raised \in WorkerPlace \ {"idle"},
           TaskAttempt(w, replied, done, raised)
    PROVE  /\ pc' \in [Workers -> WorkerPlace]
           /\ tries' \in [Workers -> 0..CallRetries]
           /\ \A v \in Workers : pc'[v] = "idle" <=> pc[v] = "idle"
  <1>1. tries[w] \in 0..CallRetries
    BY DEF TypeOK
  <1>2. TriesAfter(tries[w], replied) \in 0..CallRetries
    BY <1>1, TriesBounded
  <1>3. AfterAttempt(tries[w], replied, pc[w], done, raised) \in WorkerPlace \ {"idle"}
    BY DEF TypeOK, AfterAttempt
  <1> QED
    BY <1>2, <1>3 DEF TaskAttempt, TypeOK

(***************************************************************************)
(* A worker that is not idle works on a message.                           *)
(***************************************************************************)
LEMMA BusyHasMessage ==
    ASSUME TypeOK, NEW w \in Workers, pc[w] # "idle"
    PROVE  /\ msg[w] \in Message
           /\ Job(w) \in Jobs
           /\ OnTransient(w) \in WorkerPlace \ {"idle"}
  <1>1. msg[w] \in Message
    BY DEF TypeOK
  <1> QED
    BY <1>1 DEF Message, Job, OnTransient, WorkerPlace, InTask
-----------------------------------------------------------------------------
(***************************************************************************)
(* Type correctness, one step per action.                                  *)
(***************************************************************************)
LEMMA TypeInit == Init => TypeOK
  BY MaxRetriesAssumption, RetriesAssumption, MediaJobsAssumption
  DEF Init, StoreInit, BucketInit, QueueInit, TypeOK, RequestPlace, WorkerPlace

\* Every step keeps the types.
LEMMA TypeStep == TypeOK /\ [Next]_vars => TypeOK'
<1> SUFFICES ASSUME TypeOK, [Next]_vars
             PROVE  TypeOK'
  OBVIOUS
<1> USE DEF storeVars, bucketVars, queueVars, requestVars, workerVars
<1>1. ASSUME NEW j \in Jobs, ClientUpload(j)
      PROVE  TypeOK'
  BY <1>1 DEF ClientUpload, PutSource, TypeOK
<1>2. ASSUME NEW j \in Jobs, SourceDisappears(j)
      PROVE  TypeOK'
  BY <1>2 DEF SourceDisappears, DeleteSource, TypeOK
<1>3. ASSUME NEW j \in Jobs, Submit(j)
      PROVE  TypeOK'
  BY <1>3 DEF Submit, TypeOK, RequestPlace, InRequest, Replied
<1>4. ASSUME NEW j \in Jobs, RegisterJob(j)
      PROVE  TypeOK'
  <2> PICK applied \in BOOLEAN, replied \in BOOLEAN :
             /\ CreateJob(j, applied)
             /\ RequestAttempt(j, replied, "dispatch", "internal_error")
    BY <1>4 DEF RegisterJob
  <2>1. /\ request' \in [Jobs -> RequestPlace]
        /\ apiTries' \in [Jobs -> 0..CallRetries]
    BY RequestTyped DEF RequestPlace, InRequest, Replied
  <2>2. status' \in [Jobs -> JobStatus \union {"absent"}]
    BY DEF CreateJob, TypeOK, JobStatus
  <2> QED
    BY <1>4, <2>1, <2>2 DEF RegisterJob, CreateJob, TypeOK
<1>5. ASSUME NEW j \in Jobs, Dispatch(j)
      PROVE  TypeOK'
  <2> PICK sent \in BOOLEAN, returned \in BOOLEAN :
             /\ Publish([job |-> j, retries |-> 0], sent)
             /\ RequestAttempt(j, returned, "accepted", "mark_failed")
    BY <1>5 DEF Dispatch
  <2>1. /\ request' \in [Jobs -> RequestPlace]
        /\ apiTries' \in [Jobs -> 0..CallRetries]
    BY RequestTyped DEF RequestPlace, InRequest, Replied
  <2>2. ready' \in [Message -> Nat]
    BY DEF TypeOK, Publish, Enqueue
  <2> QED
    BY <1>5, <2>1, <2>2 DEF Dispatch, TypeOK
<1>6. ASSUME NEW j \in Jobs, MarkDispatchFailed(j)
      PROVE  TypeOK'
  <2> PICK applied \in BOOLEAN, replied \in BOOLEAN :
             /\ UpdateStatus(j, "failed", applied)
             /\ RequestAttempt(j, replied, "record_error", "internal_error")
    BY <1>6 DEF MarkDispatchFailed
  <2>1. /\ request' \in [Jobs -> RequestPlace]
        /\ apiTries' \in [Jobs -> 0..CallRetries]
    BY RequestTyped DEF RequestPlace, InRequest, Replied
  <2>2. status' \in [Jobs -> JobStatus \union {"absent"}]
    BY DEF UpdateStatus, TypeOK, JobStatus
  <2> QED
    BY <1>6, <2>1, <2>2 DEF MarkDispatchFailed, UpdateStatus, TypeOK
<1>7. ASSUME NEW j \in Jobs, RecordDispatchError(j)
      PROVE  TypeOK'
  <2> PICK applied \in BOOLEAN, replied \in BOOLEAN :
             /\ SetError(j, applied)
             /\ RequestAttempt(j, replied, "unavailable", "internal_error")
    BY <1>7 DEF RecordDispatchError
  <2>1. /\ request' \in [Jobs -> RequestPlace]
        /\ apiTries' \in [Jobs -> 0..CallRetries]
    BY RequestTyped DEF RequestPlace, InRequest, Replied
  <2> QED
    BY <1>7, <2>1 DEF RecordDispatchError, SetError, TypeOK
<1>8. ASSUME NEW j \in Jobs, ApiCrash(j)
      PROVE  TypeOK'
  BY <1>8, RetriesAssumption DEF ApiCrash, TypeOK, RequestPlace, Replied
<1>9. ASSUME NEW w \in Workers, WorkerStep(w)
      PROVE  TypeOK'
  <2>1. CASE Receive(w)
    <3> PICK m \in Message : Deliver(m) /\ msg' = [msg EXCEPT ![w] = m]
      BY <2>1 DEF Receive
    <3>1. ready' \in [Message -> Nat]
      BY DEF TypeOK, Deliver
    <3>2. "mark_processing" \in WorkerPlace
      BY DEF WorkerPlace, InTask, Pipeline
    <3> QED
      BY <2>1, <3>1, <3>2, MediaJobsAssumption DEF Receive, TypeOK
  <2>2. CASE Acknowledge(w)
    BY <2>2, RetriesAssumption DEF Acknowledge, Release, TypeOK, WorkerPlace
  <2>3. ASSUME pc[w] # "idle" PROVE
          /\ Job(w) \in Jobs
          /\ msg[w] \in Message
          /\ OnTransient(w) \in WorkerPlace \ {"idle"}
    BY <2>3, BusyHasMessage
  <2>4. Pipeline \union {"retry", "mark_failed", "record_error", "ack"}
          \subseteq WorkerPlace \ {"idle"}
    BY DEF WorkerPlace, InTask, Pipeline
  <2>5. CASE MarkProcessing(w)
    <3> PICK applied \in BOOLEAN, replied \in BOOLEAN :
               /\ UpdateStatus(Job(w), "processing", applied)
               /\ TaskAttempt(w, replied, "download", OnTransient(w))
      BY <2>5 DEF MarkProcessing
    <3>1. /\ pc' \in [Workers -> WorkerPlace]
          /\ tries' \in [Workers -> 0..CallRetries]
          /\ \A v \in Workers : pc'[v] = "idle" <=> pc[v] = "idle"
      BY <2>3, <2>4, <2>5, TaskTyped DEF MarkProcessing, Pipeline
    <3>2. status' \in [Jobs -> JobStatus \union {"absent"}]
      BY DEF UpdateStatus, TypeOK, JobStatus
    <3> QED
      BY <2>5, <3>1, <3>2 DEF MarkProcessing, UpdateStatus, TypeOK
  <2>6. CASE Download(w)
    BY <2>3, <2>4, <2>6 DEF Download, TypeOK, Pipeline
  <2>7. CASE Process(w)
    BY <2>4, <2>7 DEF Process, TypeOK, Pipeline
  <2>8. CASE Upload(w)
    <3> DEFINE uploaded == outputs[w] \union {FreshKey(Job(w))}
    <3>1. PICK applied \in BOOLEAN, replied \in BOOLEAN :
               /\ UploadFile(Job(w), applied)
               /\ outputs' = [outputs EXCEPT ![w] = IF replied THEN uploaded ELSE {}]
               /\ pc' = [pc EXCEPT
                    ![w] = IF ~replied THEN OnTransient(w)
                           ELSE IF Cardinality(uploaded) < Outputs[Job(w)] THEN @
                           ELSE "store_result"]
      BY <2>8 DEF Upload
    <3>2. objects' \in [Jobs -> Nat] /\ source' = source
      <4>1. Job(w) \in Jobs
        BY <2>3, <2>8 DEF Upload
      <4>2. FreshKey(Job(w)) \in Nat
        BY <4>1 DEF FreshKey, TypeOK
      <4> QED
        BY <3>1, <4>1, <4>2 DEF UploadFile, TypeOK
    <3>3. uploaded \in SUBSET (Nat \ {0})
      BY <2>3, <2>8 DEF Upload, TypeOK, FreshKey
    <3>4. pc[w] = "upload" /\ "store_result" \in WorkerPlace /\ "upload" \in WorkerPlace
      BY <2>4, <2>8 DEF Upload, Pipeline
    <3>5. pc' \in [Workers -> WorkerPlace] /\ \A v \in Workers : pc'[v] = "idle" <=> pc[v] = "idle"
      BY <2>3, <3>1, <3>4 DEF TypeOK
    <3>6. outputs' \in [Workers -> SUBSET (Nat \ {0})]
      BY <3>1, <3>3 DEF TypeOK
    <3> QED
      BY <2>8, <3>2, <3>5, <3>6 DEF Upload, TypeOK
  <2>9. CASE StoreResult(w)
    <3> PICK applied \in BOOLEAN, replied \in BOOLEAN :
               /\ SetResult(Job(w), outputs[w], applied)
               /\ TaskAttempt(w, replied, "mark_completed", OnTransient(w))
               /\ outputs' = [outputs EXCEPT
                    ![w] = IF pc'[w] = "store_result" THEN @ ELSE {}]
      BY <2>9 DEF StoreResult
    <3>1. /\ pc' \in [Workers -> WorkerPlace]
          /\ tries' \in [Workers -> 0..CallRetries]
          /\ \A v \in Workers : pc'[v] = "idle" <=> pc[v] = "idle"
      BY <2>3, <2>4, <2>9, TaskTyped DEF StoreResult, Pipeline
    <3>2. result' \in [Jobs -> SUBSET (Nat \ {0})]
      BY DEF SetResult, TypeOK
    <3> QED
      BY <2>9, <3>1, <3>2 DEF StoreResult, SetResult, TypeOK
  <2>10. CASE MarkCompleted(w)
    <3> PICK applied \in BOOLEAN, replied \in BOOLEAN :
               /\ UpdateStatus(Job(w), "completed", applied)
               /\ TaskAttempt(w, replied, "observe", OnTransient(w))
      BY <2>10 DEF MarkCompleted
    <3>1. /\ pc' \in [Workers -> WorkerPlace]
          /\ tries' \in [Workers -> 0..CallRetries]
          /\ \A v \in Workers : pc'[v] = "idle" <=> pc[v] = "idle"
      BY <2>3, <2>4, <2>10, TaskTyped DEF MarkCompleted, Pipeline
    <3>2. status' \in [Jobs -> JobStatus \union {"absent"}]
      BY DEF UpdateStatus, TypeOK, JobStatus
    <3> QED
      BY <2>10, <3>1, <3>2 DEF MarkCompleted, UpdateStatus, TypeOK
  <2>11. CASE ObserveEndToEnd(w)
    <3> PICK replied \in BOOLEAN : TaskAttempt(w, replied, "ack", OnTransient(w))
      BY <2>11 DEF ObserveEndToEnd
    <3>1. /\ pc' \in [Workers -> WorkerPlace]
          /\ tries' \in [Workers -> 0..CallRetries]
          /\ \A v \in Workers : pc'[v] = "idle" <=> pc[v] = "idle"
      BY <2>3, <2>4, <2>11, TaskTyped DEF ObserveEndToEnd
    <3> QED
      BY <2>11, <3>1 DEF ObserveEndToEnd, TypeOK
  <2>12. CASE ScheduleRetry(w)
    <3> PICK sent \in BOOLEAN : Publish([msg[w] EXCEPT !.retries = @ + 1], sent)
      BY <2>12 DEF ScheduleRetry
    <3>1. ready' \in [Message -> Nat]
      BY DEF TypeOK, Publish, Enqueue
    <3> QED
      BY <2>4, <2>12, <3>1 DEF ScheduleRetry, TypeOK
  <2>13. CASE MarkFailed(w)
    <3> PICK applied \in BOOLEAN, replied \in BOOLEAN :
               /\ UpdateStatus(Job(w), "failed", applied)
               /\ TaskAttempt(w, replied, "record_error", "ack")
      BY <2>13 DEF MarkFailed
    <3>1. /\ pc' \in [Workers -> WorkerPlace]
          /\ tries' \in [Workers -> 0..CallRetries]
          /\ \A v \in Workers : pc'[v] = "idle" <=> pc[v] = "idle"
      BY <2>4, <2>13, TaskTyped DEF MarkFailed
    <3>2. status' \in [Jobs -> JobStatus \union {"absent"}]
      BY DEF UpdateStatus, TypeOK, JobStatus
    <3> QED
      BY <2>13, <3>1, <3>2 DEF MarkFailed, UpdateStatus, TypeOK
  <2>14. CASE RecordError(w)
    <3> PICK applied \in BOOLEAN, replied \in BOOLEAN :
               /\ SetError(Job(w), applied)
               /\ TaskAttempt(w, replied, "ack", "ack")
      BY <2>14 DEF RecordError
    <3>1. /\ pc' \in [Workers -> WorkerPlace]
          /\ tries' \in [Workers -> 0..CallRetries]
          /\ \A v \in Workers : pc'[v] = "idle" <=> pc[v] = "idle"
      BY <2>4, <2>14, TaskTyped DEF RecordError
    <3> QED
      BY <2>14, <3>1 DEF RecordError, SetError, TypeOK
  <2> QED
    BY <1>9, <2>1, <2>2, <2>5, <2>6, <2>7, <2>8, <2>9, <2>10, <2>11, <2>12, <2>13,
       <2>14 DEF WorkerStep
<1>10. ASSUME NEW w \in Workers, Interruption(w)
       PROVE  TypeOK'
  <2>1. CASE WorkerCrash(w)
    BY <2>1, RetriesAssumption, MediaJobsAssumption
    DEF WorkerCrash, Release, Enqueue, TypeOK, WorkerPlace
  <2>2. CASE Disconnect(w)
    <3>1. ready' \in [Message -> Nat]
      <4>1. CASE msg[w] \in Message
        <5>1. ready[msg[w]] + 1 \in Nat
          BY <4>1 DEF TypeOK
        <5> QED
          BY <2>2, <5>1 DEF Disconnect, Enqueue, TypeOK
      <4>2. CASE msg[w] \notin Message
        <5>1. ready' = ready
          BY <2>2, <4>2 DEF Disconnect, Enqueue, TypeOK
        <5> QED
          BY <5>1 DEF TypeOK
      <4> QED
        BY <4>1, <4>2
    <3>2. redeliveries' \in 0..MaxRedeliveries
      BY <2>2, MediaJobsAssumption DEF Disconnect, TypeOK
    <3> QED
      BY <2>2, <3>1, <3>2 DEF Disconnect, TypeOK
  <2>3. CASE LimitInPipeline(w) \/ LimitInOnFailure(w)
    BY <2>3, RetriesAssumption
    DEF LimitInPipeline, LimitInOnFailure, TypeOK, WorkerPlace, InTask, Pipeline
  <2>5. CASE LimitInRetry(w)
    <3>1. PICK sent \in BOOLEAN : Publish([msg[w] EXCEPT !.retries = @ + 1], sent)
      BY <2>5 DEF LimitInRetry
    <3>2. ready' \in [Message -> Nat]
      BY <3>1 DEF Publish, Enqueue, TypeOK
    <3>3. pc' \in [Workers -> WorkerPlace] /\ pc'[w] # "idle" /\ pc[w] # "idle"
      BY <2>5 DEF LimitInRetry, TypeOK, WorkerPlace, InTask
    <3> QED
      BY <2>5, <3>2, <3>3 DEF LimitInRetry, TypeOK
  <2>4. CASE HardTimeLimit(w)
    BY <2>4, RetriesAssumption DEF HardTimeLimit, Release, TypeOK, WorkerPlace
  <2> QED
    BY <1>10, <2>1, <2>2, <2>3, <2>4, <2>5 DEF Interruption, SoftTimeLimit
<1>11. CASE Rest
  BY <1>11 DEF Rest, vars, TypeOK
<1>12. CASE UNCHANGED vars
  BY <1>12 DEF vars, TypeOK
<1> QED
  BY <1>1, <1>2, <1>3, <1>4, <1>5, <1>6, <1>7, <1>8, <1>9, <1>10, <1>11, <1>12
  DEF Next, RequestStep

(***************************************************************************)
(* The state stays well-typed, the bounds of the two retry loops included. *)
(***************************************************************************)
THEOREM TypeCorrect == Spec => []TypeOK
  BY TypeInit, TypeStep, PTL DEF Spec
-----------------------------------------------------------------------------
(***************************************************************************)
(* Late acknowledgement.  The failures assumed away are those that take a  *)
(* delivery from a worker other than by its death, lose a published        *)
(* message, or keep on_failure from reaching Redis or from its end;        *)
(* crashes, errors of S3, of the media and of the dispatch, and a soft     *)
(* time limit reached in the pipeline remain.                              *)
(***************************************************************************)
NothingLost ==
    Faults \intersect
        {"redis", "broker_loss", "worker_broker", "late_soft_limit", "hard_limit",
         "disconnect"} = {}

\* A busy worker holds its delivery, so that its death gives the job back;
\* and a retry is only scheduled while the message type has room for it.
DeliveryInv ==
    /\ TypeOK
    /\ \A w \in Workers : pc[w] # "idle" => held[w]
    /\ \A w \in Workers : pc[w] = "retry" => msg[w].retries < MaxRetries
    /\ NoJobForgotten

\* With Redis up every call is applied and answered.
LEMMA RedisReplies ==
    ASSUME NothingLost, NEW applied \in BOOLEAN, NEW replied \in BOOLEAN,
           RedisAttempt(applied, replied)
    PROVE  applied /\ replied
  BY DEF NothingLost, RedisAttempt

(***************************************************************************)
(* A step of w that leaves the queue's messages there keeps every decision *)
(* pending that w does not drop.                                           *)
(***************************************************************************)
LEMMA PendingKept ==
    ASSUME TypeOK, NEW w \in Workers, NEW j \in Jobs, DecisionPending(j),
           \A v \in Workers : v # w => pc'[v] = pc[v] /\ msg'[v] = msg[v],
           \A m \in Message : ready[m] > 0 => ready'[m] > 0,
           pc[w] \in Undecided /\ Job(w) = j =>
               \/ pc'[w] \in Undecided /\ msg'[w] = msg[w]
               \/ Waiting(j)'
    PROVE  DecisionPending(j)'
  <1>1. CASE Waiting(j)
    BY <1>1 DEF Waiting, DecisionPending
  <1>2. ASSUME NEW v \in Workers, pc[v] \in Undecided, Job(v) = j
        PROVE  DecisionPending(j)'
    <2>1. CASE v = w
      BY <1>2, <2>1 DEF DecisionPending, Job
    <2>2. CASE v # w
      BY <1>2, <2>2 DEF DecisionPending, Job
    <2> QED
      BY <2>1, <2>2
  <1> QED
    BY <1>1, <1>2 DEF DecisionPending

(***************************************************************************)
(* The same for a step of the task that writes no status and no message.   *)
(***************************************************************************)
LEMMA QuietTaskStep ==
    ASSUME DeliveryInv, NEW w \in Workers, pc[w] \in InTask,
           UNCHANGED <<status, ready, request, msg, held>>,
           NEW to \in WorkerPlace \ {"idle"}, pc' = [pc EXCEPT ![w] = to],
           pc[w] \in Undecided => to \in Undecided,
           to = "retry" => msg[w].retries < MaxRetries
    PROVE  /\ \A v \in Workers : pc'[v] # "idle" => held'[v]
           /\ \A v \in Workers : pc'[v] = "retry" => msg'[v].retries < MaxRetries
           /\ NoJobForgotten'
  <1>1. TypeOK /\ pc \in [Workers -> WorkerPlace] /\ pc[w] # "idle"
    BY DEF DeliveryInv, TypeOK, InTask, Pipeline
  <1>2. ASSUME NEW j \in Jobs, request'[j] = "accepted", status'[j] \notin Terminal
        PROVE  DecisionPending(j)'
    <2>1. DecisionPending(j)
      BY <1>2 DEF DeliveryInv, NoJobForgotten
    <2> QED
      BY <1>1, <2>1, PendingKept
  <1> QED
    BY <1>1, <1>2 DEF DeliveryInv, NoJobForgotten

(***************************************************************************)
(* And for a step of the task that decides or starts its job: it writes a  *)
(* status that is final, or goes on to a place where one is still due.     *)
(***************************************************************************)
LEMMA StatusTaskStep ==
    ASSUME DeliveryInv, NEW w \in Workers, pc[w] \in InTask,
           UNCHANGED <<ready, request, msg, held>>,
           NEW to \in WorkerPlace \ {"idle", "retry"}, pc' = [pc EXCEPT ![w] = to],
           NEW new \in JobStatus, status' = [status EXCEPT ![Job(w)] = new],
           new \in Terminal \/ to \in Undecided
    PROVE  /\ \A v \in Workers : pc'[v] # "idle" => held'[v]
           /\ \A v \in Workers : pc'[v] = "retry" => msg'[v].retries < MaxRetries
           /\ NoJobForgotten'
  <1>1. /\ TypeOK /\ pc \in [Workers -> WorkerPlace] /\ pc[w] # "idle"
        /\ status \in [Jobs -> JobStatus \union {"absent"}]
    BY DEF DeliveryInv, TypeOK, InTask, Pipeline
  <1>2. Job(w) \in Jobs
    BY <1>1, BusyHasMessage
  <1>3. ASSUME NEW j \in Jobs, request'[j] = "accepted", status'[j] \notin Terminal
        PROVE  DecisionPending(j)'
    <2>1. CASE j = Job(w)
      <3>1. to \in Undecided
        BY <1>1, <1>2, <1>3, <2>1
      <3> QED
        BY <1>1, <2>1, <3>1 DEF DecisionPending, Job
    <2>2. CASE j # Job(w)
      <3>1. DecisionPending(j)
        BY <1>3, <2>2 DEF DeliveryInv, NoJobForgotten
      <3> QED
        BY <1>1, <2>2, <3>1, PendingKept
    <2> QED
      BY <2>1, <2>2
  <1> QED
    BY <1>1, <1>3 DEF DeliveryInv, NoJobForgotten

(***************************************************************************)
(* The steps of a request change no worker and take nothing from the       *)
(* queue, so that only the job itself need be looked at.                   *)
(***************************************************************************)
LEMMA RequestKeepsDelivery ==
    ASSUME DeliveryInv, NEW j \in Jobs, UNCHANGED workerVars,
           \A m \in Message : ready[m] > 0 => ready'[m] > 0,
           \A i \in Jobs : i # j => request'[i] = request[i] /\ status'[i] = status[i],
           request'[j] = "accepted" /\ status'[j] \notin Terminal => DecisionPending(j)'
    PROVE  /\ \A v \in Workers : pc'[v] # "idle" => held'[v]
           /\ \A v \in Workers : pc'[v] = "retry" => msg'[v].retries < MaxRetries
           /\ NoJobForgotten'
  <1>1. ASSUME NEW i \in Jobs, DecisionPending(i)
        PROVE  DecisionPending(i)'
    BY <1>1 DEF DecisionPending, Waiting, Job, workerVars
  <1> QED
    BY <1>1 DEF DeliveryInv, NoJobForgotten, workerVars

\* Every step leaves an accepted job decided or still to be decided.
LEMMA DeliveryStep == NothingLost /\ DeliveryInv /\ [Next]_vars => DeliveryInv'
<1> SUFFICES ASSUME NothingLost, DeliveryInv, [Next]_vars
             PROVE  DeliveryInv'
  OBVIOUS
<1> DEFINE Kept == /\ \A v \in Workers : pc'[v] # "idle" => held'[v]
                   /\ \A v \in Workers : pc'[v] = "retry" => msg'[v].retries < MaxRetries
                   /\ NoJobForgotten'
<1>1. TypeOK /\ TypeOK'
  BY TypeStep DEF DeliveryInv
<1>2. SUFFICES Kept
  BY <1>1 DEF DeliveryInv
<1>3. ASSUME NEW j \in Jobs, ClientUpload(j) \/ SourceDisappears(j) \/ Submit(j) \/ ApiCrash(j)
      PROVE  Kept
  <2>1. /\ UNCHANGED workerVars /\ UNCHANGED <<ready, status>>
        /\ \A i \in Jobs : request'[i] = "accepted" => request[i] = "accepted"
    BY <1>1, <1>3
    DEF ClientUpload, PutSource, SourceDisappears, DeleteSource, Submit, ApiCrash,
        TypeOK, workerVars, queueVars, storeVars, requestVars
  <2>2. ASSUME NEW i \in Jobs, DecisionPending(i)
        PROVE  DecisionPending(i)'
    BY <2>1, <2>2 DEF DecisionPending, Waiting, Job, workerVars
  <2> QED
    BY <2>1, <2>2 DEF DeliveryInv, NoJobForgotten, workerVars
<1>4. ASSUME NEW j \in Jobs, RegisterJob(j)
      PROVE  Kept
  <2>1. /\ request' = [request EXCEPT ![j] = "dispatch"]
        /\ status' = [status EXCEPT ![j] = "pending"]
        /\ UNCHANGED <<workerVars, ready>>
    BY <1>4, RedisReplies
    DEF RegisterJob, CreateJob, RequestAttempt, AfterAttempt, queueVars
  <2>2. /\ \A i \in Jobs : i # j => request'[i] = request[i] /\ status'[i] = status[i]
        /\ request'[j] = "dispatch"
    BY <1>1, <2>1 DEF TypeOK
  <2> QED
    BY <2>1, <2>2, RequestKeepsDelivery
<1>5. ASSUME NEW j \in Jobs, Dispatch(j)
      PROVE  Kept
  <2> DEFINE m == [job |-> j, retries |-> 0]
  <2>0. m \in Message
    BY MaxRetriesAssumption DEF Message
  <2>1. PICK sent \in BOOLEAN, returned \in BOOLEAN :
          /\ returned => sent
          /\ Publish(m, sent)
          /\ RequestAttempt(j, returned, "accepted", "mark_failed")
    BY <1>5 DEF Dispatch, PublishAttempt, NothingLost
  <2>2. /\ UNCHANGED <<workerVars, status>>
        /\ request[j] = "dispatch"
        /\ \A i \in Jobs : i # j => request'[i] = request[i]
    BY <1>1, <1>5, <2>1 DEF Dispatch, storeVars, RequestAttempt, TypeOK
  <2>3. \A n \in Message : ready[n] > 0 => ready'[n] > 0
    BY <1>1, <2>0, <2>1 DEF Publish, Enqueue, TypeOK
  <2>4. request'[j] = "accepted" => returned
    BY <1>1, <2>1, <2>2 DEF RequestAttempt, AfterAttempt, TypeOK
  <2>5. sent => ready'[m] > 0
    BY <1>1, <2>0, <2>1 DEF Publish, Enqueue, TypeOK
  <2>6. sent => Waiting(j)'
    BY <2>0, <2>5 DEF Waiting
  <2>7. request'[j] = "accepted" => DecisionPending(j)'
    BY <2>1, <2>4, <2>6 DEF DecisionPending
  <2> QED
    BY <2>2, <2>3, <2>7, RequestKeepsDelivery
<1>6. ASSUME NEW j \in Jobs, MarkDispatchFailed(j)
      PROVE  Kept
  <2>1. /\ request' = [request EXCEPT ![j] = "record_error"]
        /\ status' = [status EXCEPT ![j] = "failed"]
        /\ UNCHANGED <<workerVars, ready>>
    BY <1>6, RedisReplies
    DEF MarkDispatchFailed, UpdateStatus, RequestAttempt, AfterAttempt, queueVars
  <2>2. /\ \A i \in Jobs : i # j => request'[i] = request[i] /\ status'[i] = status[i]
        /\ request'[j] = "record_error"
    BY <1>1, <2>1 DEF TypeOK
  <2> QED
    BY <2>1, <2>2, RequestKeepsDelivery
<1>7. ASSUME NEW j \in Jobs, RecordDispatchError(j)
      PROVE  Kept
  <2>1. /\ request' = [request EXCEPT ![j] = "unavailable"]
        /\ UNCHANGED <<workerVars, ready, status>>
    BY <1>7, RedisReplies
    DEF RecordDispatchError, SetError, RequestAttempt, AfterAttempt, queueVars
  <2>2. /\ \A i \in Jobs : i # j => request'[i] = request[i] /\ status'[i] = status[i]
        /\ request'[j] = "unavailable"
    BY <1>1, <2>1 DEF TypeOK
  <2> QED
    BY <2>1, <2>2, RequestKeepsDelivery
<1>8. ASSUME NEW w \in Workers, WorkerStep(w)
      PROVE  Kept
  <2> USE DEF storeVars, queueVars, requestVars
  <2>1. CASE Receive(w)
    <3>1. PICK m \in Message : Deliver(m) /\ msg' = [msg EXCEPT ![w] = m]
      BY <2>1 DEF Receive
    <3>2. /\ pc' = [pc EXCEPT ![w] = "mark_processing"]
          /\ held' = [held EXCEPT ![w] = TRUE]
          /\ UNCHANGED <<status, request>>
          /\ pc[w] = "idle"
      BY <2>1 DEF Receive
    <3>3. ASSUME NEW j \in Jobs, DecisionPending(j)
          PROVE  DecisionPending(j)'
      <4>1. pc'[w] \in Undecided /\ msg'[w] = m
        BY <1>1, <3>1, <3>2 DEF TypeOK, Undecided, InTask, Pipeline
      <4>2. CASE j = m.job
        BY <4>1, <4>2 DEF DecisionPending, Job
      <4>3. CASE j # m.job /\ Waiting(j)
        <5>1. PICK n \in Message : n.job = j /\ ready[n] > 0
          BY <4>3 DEF Waiting
        <5>2. ready'[n] > 0
          BY <1>1, <3>1, <4>3, <5>1 DEF Deliver, TypeOK
        <5> QED
          BY <5>1, <5>2 DEF DecisionPending, Waiting
      <4>4. ASSUME NEW v \in Workers, pc[v] \in Undecided, Job(v) = j
            PROVE  DecisionPending(j)'
        <5>1. v # w
          BY <3>2, <4>4 DEF Undecided, InTask, Pipeline
        <5>2. pc'[v] = pc[v] /\ msg'[v] = msg[v]
          BY <1>1, <3>1, <3>2, <5>1 DEF TypeOK
        <5> QED
          BY <4>4, <5>2 DEF DecisionPending, Job
      <4> QED
        BY <3>3, <4>2, <4>3, <4>4 DEF DecisionPending
    <3>4. NoJobForgotten'
      BY <3>2, <3>3 DEF DeliveryInv, NoJobForgotten
    <3>5. \A v \in Workers : pc'[v] # "idle" => held'[v]
      BY <1>1, <3>2 DEF DeliveryInv, TypeOK
    <3>6. \A v \in Workers : pc'[v] = "retry" => msg'[v].retries < MaxRetries
      BY <1>1, <3>1, <3>2 DEF DeliveryInv, TypeOK
    <3> QED
      BY <3>4, <3>5, <3>6
  <2>2. CASE Acknowledge(w)
    <3>1. /\ pc' = [pc EXCEPT ![w] = "idle"]
          /\ held' = [held EXCEPT ![w] = FALSE]
          /\ msg' = [msg EXCEPT ![w] = NoMsg]
          /\ UNCHANGED <<status, request, ready>>
          /\ pc[w] = "ack"
      BY <2>2 DEF Acknowledge, Release
    <3>2. pc[w] \notin Undecided
      BY <3>1 DEF Undecided, InTask, Pipeline
    <3>3. \A v \in Workers : v # w => pc'[v] = pc[v] /\ msg'[v] = msg[v] /\ held'[v] = held[v]
      BY <1>1, <3>1 DEF TypeOK
    <3>4. NoJobForgotten'
      BY <1>1, <3>1, <3>2, <3>3, PendingKept DEF DeliveryInv, NoJobForgotten
    <3> QED
      BY <1>1, <3>1, <3>3, <3>4 DEF DeliveryInv, TypeOK
  <2>3. /\ \A p \in InTask \union {"ack"} : p \in WorkerPlace \ {"idle"}
        /\ pc[w] # "idle" => OnTransient(w) \in Undecided \intersect (WorkerPlace \ {"idle"})
        /\ OnTransient(w) = "retry" => msg[w].retries < MaxRetries
    BY DEF WorkerPlace, InTask, Pipeline, Undecided, OnTransient
  <2>4. /\ Pipeline \ {"observe"} \subseteq Undecided
        /\ Pipeline \subseteq InTask
        /\ "mark_failed" \in Undecided \intersect InTask
        /\ "record_error" \in InTask \ Undecided
        /\ "observe" \notin Undecided
        /\ "ack" \notin Undecided
    BY DEF Undecided, InTask, Pipeline
  <2>5. CASE MarkProcessing(w)
    <3>1. /\ status' = [status EXCEPT ![Job(w)] = "processing"]
          /\ pc' = [pc EXCEPT ![w] = "download"]
          /\ UNCHANGED <<ready, request, msg, held>>
          /\ pc[w] = "mark_processing"
      BY <2>5, RedisReplies DEF MarkProcessing, UpdateStatus, TaskAttempt, AfterAttempt
    <3>2. /\ "download" \in WorkerPlace \ {"idle", "retry"}
          /\ "download" \in Undecided
          /\ "processing" \in JobStatus
          /\ pc[w] \in InTask
      BY <3>1 DEF WorkerPlace, InTask, Pipeline, Undecided, JobStatus
    <3> QED
      BY <3>1, <3>2, StatusTaskStep
  <2>6. CASE Download(w)
    <3>1. PICK to \in {"process", OnTransient(w)} : pc' = [pc EXCEPT ![w] = to]
      BY <2>6 DEF Download
    <3>2. UNCHANGED <<status, ready, request, msg, held>> /\ pc[w] = "download"
      BY <2>6 DEF Download
    <3>3. "process" \in Undecided \intersect InTask
      BY DEF Undecided, InTask, Pipeline
    <3>4. to \in Undecided /\ to \in WorkerPlace \ {"idle"}
      BY <2>3, <3>1, <3>2, <3>3
    <3>5. to = "retry" => msg[w].retries < MaxRetries
      BY <2>3, <3>1
    <3>6. pc[w] \in InTask
      BY <3>2 DEF InTask, Pipeline
    <3> QED
      BY <3>1, <3>2, <3>4, <3>5, <3>6, QuietTaskStep
  <2>7. CASE Process(w)
    <3>1. PICK to \in {"upload", "mark_failed"} : pc' = [pc EXCEPT ![w] = to]
      BY <2>7 DEF Process
    <3>2. UNCHANGED <<status, ready, request, msg, held>> /\ pc[w] \in InTask
      BY <2>7 DEF Process, InTask, Pipeline
    <3>3. to \in Undecided /\ to \in WorkerPlace \ {"idle"} /\ to # "retry"
      BY <3>1 DEF Undecided, WorkerPlace, InTask, Pipeline
    <3> QED
      BY <3>1, <3>2, <3>3, QuietTaskStep
  <2>8. CASE Upload(w)
    <3>1. PICK to \in {"upload", "store_result", OnTransient(w)} : pc' = [pc EXCEPT ![w] = to]
      BY <2>8 DEF Upload
    <3>2. UNCHANGED <<status, ready, request, msg, held>> /\ pc[w] = "upload"
      BY <2>8 DEF Upload
    <3>3. {"upload", "store_result"} \subseteq Undecided \intersect InTask
      BY DEF Undecided, InTask, Pipeline
    <3>4. to \in Undecided /\ to \in WorkerPlace \ {"idle"}
      BY <2>3, <3>1, <3>2, <3>3
    <3>5. to = "retry" => msg[w].retries < MaxRetries
      BY <2>3, <3>1
    <3>6. pc[w] \in InTask
      BY <3>2 DEF InTask, Pipeline
    <3> QED
      BY <3>1, <3>2, <3>4, <3>5, <3>6, QuietTaskStep
  <2>9. CASE StoreResult(w)
    <3>1. /\ pc' = [pc EXCEPT ![w] = "mark_completed"]
          /\ UNCHANGED <<status, ready, request, msg, held>>
          /\ pc[w] \in InTask
      BY <2>9, RedisReplies
      DEF StoreResult, SetResult, TaskAttempt, AfterAttempt, InTask, Pipeline
    <3>2. /\ "mark_completed" \in WorkerPlace \ {"idle"}
          /\ "mark_completed" \in Undecided
      BY DEF WorkerPlace, InTask, Pipeline, Undecided
    <3> QED
      BY <3>1, <3>2, QuietTaskStep
  <2>10. CASE MarkCompleted(w)
    <3>1. /\ status' = [status EXCEPT ![Job(w)] = "completed"]
          /\ pc' = [pc EXCEPT ![w] = "observe"]
          /\ UNCHANGED <<ready, request, msg, held>>
          /\ pc[w] = "mark_completed"
      BY <2>10, RedisReplies DEF MarkCompleted, UpdateStatus, TaskAttempt, AfterAttempt
    <3>2. /\ "observe" \in WorkerPlace \ {"idle", "retry"}
          /\ "completed" \in JobStatus \intersect Terminal
          /\ pc[w] \in InTask
      BY <3>1 DEF WorkerPlace, InTask, Pipeline, JobStatus, Terminal
    <3> QED
      BY <3>1, <3>2, StatusTaskStep
  <2>11. CASE ObserveEndToEnd(w)
    <3>1. /\ pc' = [pc EXCEPT ![w] = "ack"]
          /\ UNCHANGED <<status, ready, request, msg, held>>
          /\ pc[w] = "observe"
      BY <2>11, RedisReplies DEF ObserveEndToEnd, TaskAttempt, AfterAttempt
    <3>2. "ack" \in WorkerPlace \ {"idle"} /\ pc[w] \in InTask
      BY <3>1 DEF WorkerPlace, InTask, Pipeline
    <3> QED
      BY <2>4, <3>1, <3>2, QuietTaskStep
  <2>12. CASE ScheduleRetry(w)
    <3>1. /\ Publish([msg[w] EXCEPT !.retries = @ + 1], TRUE)
          /\ pc' = [pc EXCEPT ![w] = "ack"]
          /\ UNCHANGED <<status, request, msg, held>>
          /\ pc[w] = "retry"
      BY <2>12 DEF ScheduleRetry, RetryPublishAttempt, NothingLost
    <3>2. PICK m \in Message : Publish(m, TRUE) /\ m.job = Job(w)
      <4>1. msg[w] \in Message /\ msg[w].retries < MaxRetries
        BY <1>1, <3>1, BusyHasMessage DEF DeliveryInv
      <4>2. /\ [msg[w] EXCEPT !.retries = @ + 1] \in Message
            /\ [msg[w] EXCEPT !.retries = @ + 1].job = Job(w)
        BY <4>1, MaxRetriesAssumption DEF Message, Job
      <4> QED
        BY <3>1, <4>2
    <3>3. ready'[m] > 0 /\ \A n \in Message : ready[n] > 0 => ready'[n] > 0
      <4>1. ready \in [Message -> Nat] /\ ready' = [ready EXCEPT ![m] = @ + 1]
        BY <1>1, <3>2 DEF Publish, Enqueue, TypeOK
      <4> QED
        BY <4>1
    <3>4. \A i \in Jobs : i = Job(w) => Waiting(i)'
      BY <3>2, <3>3 DEF Waiting
    <3>5. \A v \in Workers : v # w => pc'[v] = pc[v] /\ msg'[v] = msg[v]
      BY <1>1, <3>1 DEF TypeOK
    <3>6. ASSUME NEW j \in Jobs, DecisionPending(j)
          PROVE  DecisionPending(j)'
      BY <1>1, <3>3, <3>4, <3>5, <3>6, PendingKept
    <3>7. NoJobForgotten'
      BY <3>1, <3>6 DEF DeliveryInv, NoJobForgotten
    <3> QED
      BY <1>1, <3>1, <3>7 DEF DeliveryInv, TypeOK
  <2>13. CASE MarkFailed(w)
    <3>1. /\ status' = [status EXCEPT ![Job(w)] = "failed"]
          /\ pc' = [pc EXCEPT ![w] = "record_error"]
          /\ UNCHANGED <<ready, request, msg, held>>
          /\ pc[w] = "mark_failed"
      BY <2>13, RedisReplies DEF MarkFailed, UpdateStatus, TaskAttempt, AfterAttempt
    <3>2. /\ "record_error" \in WorkerPlace \ {"idle", "retry"}
          /\ "failed" \in JobStatus \intersect Terminal
          /\ pc[w] \in InTask
      BY <3>1 DEF WorkerPlace, InTask, Pipeline, JobStatus, Terminal
    <3> QED
      BY <3>1, <3>2, StatusTaskStep
  <2>14. CASE RecordError(w)
    <3>1. /\ pc' = [pc EXCEPT ![w] = "ack"]
          /\ UNCHANGED <<status, ready, request, msg, held>>
          /\ pc[w] = "record_error"
      BY <2>14, RedisReplies DEF RecordError, SetError, TaskAttempt, AfterAttempt
    <3>2. "ack" \in WorkerPlace \ {"idle"} /\ pc[w] \in InTask
      BY <3>1 DEF WorkerPlace, InTask, Pipeline
    <3> QED
      BY <2>4, <3>1, <3>2, QuietTaskStep
  <2> QED
    BY <1>8, <2>1, <2>2, <2>5, <2>6, <2>7, <2>8, <2>9, <2>10, <2>11, <2>12, <2>13,
       <2>14 DEF WorkerStep
<1>9. ASSUME NEW w \in Workers, WorkerCrash(w)
      PROVE  Kept
  <2>1. /\ Enqueue(msg[w]) /\ Release(w) /\ pc[w] # "idle"
        /\ UNCHANGED <<status, request>>
    BY <1>9 DEF WorkerCrash, DeliveryInv, storeVars, requestVars
  <2>2. msg[w] \in Message
    BY <1>1, <2>1, BusyHasMessage
  <2>3. ready'[msg[w]] > 0 /\ \A n \in Message : ready[n] > 0 => ready'[n] > 0
    BY <1>1, <2>1, <2>2 DEF Enqueue, TypeOK
  <2>4. \A i \in Jobs : i = Job(w) => Waiting(i)'
    BY <2>2, <2>3 DEF Waiting, Job
  <2>5. \A v \in Workers : v # w => pc'[v] = pc[v] /\ msg'[v] = msg[v] /\ held'[v] = held[v]
    BY <1>1, <2>1 DEF Release, TypeOK
  <2>6. ASSUME NEW j \in Jobs, DecisionPending(j)
        PROVE  DecisionPending(j)'
    BY <1>1, <2>3, <2>4, <2>5, <2>6, PendingKept
  <2>7. NoJobForgotten'
    BY <2>1, <2>6 DEF DeliveryInv, NoJobForgotten
  <2>8. pc'[w] = "idle"
    BY <1>1, <2>1 DEF Release, TypeOK
  <2> QED
    BY <2>5, <2>7, <2>8 DEF DeliveryInv
<1>10. ASSUME NEW w \in Workers, LimitInPipeline(w)
       PROVE  Kept
  <2>1. /\ pc' = [pc EXCEPT ![w] = "mark_failed"]
        /\ UNCHANGED <<status, ready, request, msg, held>>
        /\ pc[w] \in InTask
    BY <1>10 DEF LimitInPipeline, storeVars, queueVars, requestVars, InTask
  <2>2. "mark_failed" \in WorkerPlace \ {"idle"} /\ "mark_failed" \in Undecided
    BY DEF WorkerPlace, InTask, Undecided
  <2> QED
    BY <2>1, <2>2, QuietTaskStep
<1>11. ASSUME NEW w \in Workers
       PROVE  /\ ~Disconnect(w) /\ ~HardTimeLimit(w)
              /\ ~LimitInRetry(w) /\ ~LimitInOnFailure(w)
  BY DEF NothingLost, Disconnect, HardTimeLimit, LimitInRetry, LimitInOnFailure
<1>12. CASE UNCHANGED vars
  <2>1. ASSUME NEW j \in Jobs, DecisionPending(j)
        PROVE  DecisionPending(j)'
    BY <1>12, <2>1 DEF vars, DecisionPending, Waiting, Job, workerVars, queueVars
  <2> QED
    BY <1>12, <2>1 DEF DeliveryInv, NoJobForgotten, vars, workerVars, storeVars, requestVars
<1> QED
  BY <1>3, <1>4, <1>5, <1>6, <1>7, <1>8, <1>9, <1>10, <1>11, <1>12
  DEF Next, RequestStep, Interruption, SoftTimeLimit, Rest

(***************************************************************************)
(* While nothing is lost, an accepted job that has not ended is in the     *)
(* queue or with a worker that has still to end it, for any number of      *)
(* jobs, workers, retries and crashes (task_acks_late and                  *)
(* task_reject_on_worker_lost in celery_service.py).                       *)
(***************************************************************************)
THEOREM LateAcknowledgement ==
    ASSUME NothingLost
    PROVE  Spec => []NoJobForgotten
<1>1. Init => DeliveryInv
  BY TypeInit DEF Init, DeliveryInv, NoJobForgotten
<1>2. DeliveryInv /\ [Next]_vars => DeliveryInv'
  BY DeliveryStep
<1>3. DeliveryInv => NoJobForgotten
  BY DEF DeliveryInv
<1> QED
  BY <1>1, <1>2, <1>3, PTL DEF Spec

-----------------------------------------------------------------------------
(***************************************************************************)
(* Upload, then set_result, then update_status.  Nothing is assumed of the *)
(* failures: commands may be lost, repeated or executed without a reply,   *)
(* and several workers may run the same job.                               *)
(***************************************************************************)

\* What a worker knows of the objects and the result of its job at each
\* place: the uploads it counts are in the bucket and not yet complete; what
\* it stores is complete; and it completes a job whose result is complete.
Reportable(w) ==
    /\ pc[w] = "upload" =>
         /\ outputs[w] \subseteq 1..objects[Job(w)]
         /\ Cardinality(outputs[w]) < Outputs[Job(w)]
    /\ pc[w] = "store_result" => AllOutputs(Job(w), outputs[w])
    /\ pc[w] = "mark_completed" => AllOutputs(Job(w), result[Job(w)])
    /\ pc[w] \notin {"upload", "store_result"} => outputs[w] = {}

ReportInv ==
    /\ TypeOK
    /\ \A w \in Workers : Reportable(w)
    /\ CompletedIsReported

(***************************************************************************)
(* A fresh key adds one object to those a worker has uploaded.             *)
(***************************************************************************)
LEMMA FreshKeyCounts ==
    ASSUME NEW n \in Nat, NEW keys, keys \subseteq 1..n
    PROVE  /\ Cardinality(keys) \in Nat
           /\ keys \union {n + 1} \subseteq 1..(n + 1)
           /\ Cardinality(keys \union {n + 1}) = Cardinality(keys) + 1
  <1>1. IsFiniteSet(1..n)
    BY FS_Interval
  <1>2. IsFiniteSet(keys)
    BY <1>1, FS_Subset
  <1>3. n + 1 \notin keys
    OBVIOUS
  <1>4. Cardinality(keys) \in Nat
    BY <1>2, FS_CardinalityType
  <1>5. keys \union {n + 1} \subseteq 1..(n + 1)
    OBVIOUS
  <1>6. Cardinality(keys \union {n + 1}) = Cardinality(keys) + 1
    BY <1>2, <1>3, FS_AddElement
  <1> QED
    BY <1>4, <1>5, <1>6

(***************************************************************************)
(* Objects are never deleted, so that what is complete stays complete.     *)
(***************************************************************************)
LEMMA AllOutputsKept ==
    ASSUME TypeOK, TypeOK', NEW j \in Jobs, objects'[j] >= objects[j],
           NEW keys, AllOutputs(j, keys)
    PROVE  keys \subseteq 1..objects'[j] /\ Cardinality(keys) = Outputs[j]
  BY DEF AllOutputs, TypeOK

(***************************************************************************)
(* A step preserves the invariant if it deletes no object, stores complete *)
(* results only, completes jobs with a complete result only, and leaves    *)
(* every worker as it was or at a place it may be at.                      *)
(***************************************************************************)
LEMMA ReportKept ==
    ASSUME ReportInv, TypeOK',
           \A i \in Jobs : objects'[i] >= objects[i],
           \A i \in Jobs : result'[i] = result[i] \/ AllOutputs(i, result'[i]),
           \A i \in Jobs : status'[i] = "completed" =>
               status[i] = "completed" \/ AllOutputs(i, result[i]),
           \A v \in Workers :
               \/ pc'[v] = pc[v] /\ msg'[v] = msg[v] /\ outputs'[v] = outputs[v]
               \/ Reportable(v)'
    PROVE  ReportInv'
<1>1. TypeOK
  BY DEF ReportInv
<1>2. ASSUME NEW i \in Jobs, AllOutputs(i, result[i])
      PROVE  AllOutputs(i, result[i])'
  <2>1. CASE result'[i] = result[i]
    BY <1>1, <1>2, <2>1, AllOutputsKept DEF AllOutputs
  <2>2. CASE AllOutputs(i, result'[i])
    BY <1>1, <2>2, AllOutputsKept DEF AllOutputs
  <2> QED
    BY <2>1, <2>2
<1>3. CompletedIsReported'
  BY <1>2 DEF ReportInv, CompletedIsReported
<1>4. ASSUME NEW v \in Workers, pc'[v] = pc[v], msg'[v] = msg[v], outputs'[v] = outputs[v]
      PROVE  Reportable(v)'
  <2>1. Reportable(v)
    BY DEF ReportInv
  <2>2. CASE pc[v] = "upload"
    <3>1. Job(v) \in Jobs
      BY <1>1, <2>2, BusyHasMessage
    <3>2. /\ objects[Job(v)] \in Nat /\ objects'[Job(v)] \in Nat
          /\ objects'[Job(v)] >= objects[Job(v)]
      BY <1>1, <3>1 DEF TypeOK
    <3>3. outputs[v] \subseteq 1..objects'[Job(v)]
      BY <2>1, <2>2, <3>2 DEF Reportable
    <3> QED
      BY <1>4, <2>1, <2>2, <3>3 DEF Reportable, Job
  <2>3. CASE pc[v] = "store_result"
    <3>1. Job(v) \in Jobs
      BY <1>1, <2>3, BusyHasMessage
    <3>2. AllOutputs(Job(v), outputs[v])
      BY <2>1, <2>3 DEF Reportable
    <3>3. /\ outputs[v] \subseteq 1..objects'[Job(v)]
          /\ Cardinality(outputs[v]) = Outputs[Job(v)]
      BY <1>1, <3>1, <3>2, AllOutputsKept
    <3> QED
      BY <1>4, <2>3, <3>3 DEF Reportable, AllOutputs, Job
  <2>4. CASE pc[v] = "mark_completed"
    <3>1. Job(v) \in Jobs
      BY <1>1, <2>4, BusyHasMessage
    <3>2. AllOutputs(Job(v), result[Job(v)])
      BY <2>1, <2>4 DEF Reportable
    <3>3. \A i \in Jobs : i = Job(v) => AllOutputs(i, result[i])'
      BY <1>2, <3>2
    <3>4. Job(v)' = Job(v)
      BY <1>4 DEF Job
    <3>5. AllOutputs(Job(v), result[Job(v)])'
      BY <3>1, <3>3, <3>4 DEF AllOutputs
    <3> QED
      BY <1>4, <2>1, <2>4, <3>5 DEF Reportable
  <2>5. CASE pc[v] \notin {"upload", "store_result", "mark_completed"}
    BY <1>4, <2>1, <2>5 DEF Reportable
  <2> QED
    BY <2>2, <2>3, <2>4, <2>5
<1> QED
  BY <1>3, <1>4 DEF ReportInv

(***************************************************************************)
(* The two ordinary kinds of step: one that leaves the bucket, the results *)
(* and the workers alone, and one that takes a worker to a place with no   *)
(* uploads to remember.                                                    *)
(***************************************************************************)
LEMMA RequestReports ==
    ASSUME ReportInv, TypeOK', UNCHANGED <<objects, result, workerVars>>,
           \A i \in Jobs : status'[i] = "completed" => status[i] = "completed"
    PROVE  ReportInv'
  <1>1. \A i \in Jobs : objects'[i] >= objects[i]
    BY DEF ReportInv, TypeOK
  <1> QED
    BY <1>1, ReportKept DEF workerVars

\* A step that takes a worker out of its uploads has no keys to account for.
LEMMA ForgettingReports ==
    ASSUME ReportInv, TypeOK', UNCHANGED <<objects, result>>, NEW w \in Workers,
           \A i \in Jobs : status'[i] = "completed" => status[i] = "completed",
           \A v \in Workers : v # w =>
               pc'[v] = pc[v] /\ msg'[v] = msg[v] /\ outputs'[v] = outputs[v],
           pc'[w] \notin {"upload", "store_result", "mark_completed"},
           outputs'[w] = {}
    PROVE  ReportInv'
  <1>1. \A i \in Jobs : objects'[i] >= objects[i]
    BY DEF ReportInv, TypeOK
  <1>2. Reportable(w)'
    BY DEF Reportable
  <1> QED
    BY <1>1, <1>2, ReportKept

\* Every step keeps the keys a task reports those of its own uploads.
LEMMA ReportStep == ReportInv /\ [Next]_vars => ReportInv'
<1> SUFFICES ASSUME ReportInv, [Next]_vars
             PROVE  ReportInv'
  OBVIOUS
<1>1. TypeOK /\ TypeOK'
  BY TypeStep DEF ReportInv
<1>2. /\ status \in [Jobs -> JobStatus \union {"absent"}]
      /\ result \in [Jobs -> SUBSET (Nat \ {0})]
      /\ objects \in [Jobs -> Nat]
      /\ pc \in [Workers -> WorkerPlace]
      /\ msg \in [Workers -> Message \union {NoMsg}]
      /\ outputs \in [Workers -> SUBSET (Nat \ {0})]
  BY <1>1 DEF TypeOK
<1>3. \A i \in Jobs : objects[i] >= objects[i]
  BY <1>2
<1>4. ASSUME NEW j \in Jobs,
             \/ ClientUpload(j) \/ SourceDisappears(j) \/ Submit(j) \/ ApiCrash(j)
             \/ RequestStep(j)
      PROVE  ReportInv'
  <2>1. UNCHANGED <<objects, result, workerVars>>
    BY <1>4
    DEF ClientUpload, PutSource, SourceDisappears, DeleteSource, Submit, ApiCrash,
        RequestStep, RegisterJob, CreateJob, Dispatch, MarkDispatchFailed, UpdateStatus,
        RecordDispatchError, SetError, storeVars, bucketVars
  <2>2. \A i \in Jobs : status'[i] = "completed" => status[i] = "completed"
    BY <1>2, <1>4
    DEF ClientUpload, PutSource, SourceDisappears, DeleteSource, Submit, ApiCrash,
        RequestStep, RegisterJob, CreateJob, Dispatch, MarkDispatchFailed, UpdateStatus,
        RecordDispatchError, SetError, storeVars
  <2> QED
    BY <1>1, <2>1, <2>2, RequestReports
<1>5. ASSUME NEW w \in Workers, WorkerStep(w)
      PROVE  ReportInv'
  <2> USE DEF storeVars, bucketVars
  <2>1. Reportable(w)
    BY DEF ReportInv
  <2>2. OnTransient(w) \in {"retry", "mark_failed"}
    BY DEF OnTransient
  <2>3. CASE Receive(w)
    <3>1. /\ pc' = [pc EXCEPT ![w] = "mark_processing"]
          /\ outputs[w] = {}
          /\ UNCHANGED <<status, objects, result, outputs>>
          /\ \A v \in Workers : v # w => msg'[v] = msg[v]
      BY <1>2, <2>1, <2>3 DEF Receive, Reportable
    <3> QED
      BY <1>1, <1>2, <3>1, ForgettingReports
  <2>4. CASE MarkProcessing(w)
    <3>1. /\ \E to \in {"mark_processing", "download", OnTransient(w)} :
               pc' = [pc EXCEPT ![w] = to]
          /\ outputs[w] = {}
          /\ UNCHANGED <<objects, result, outputs, msg>>
      BY <1>2, <2>1, <2>4
      DEF MarkProcessing, UpdateStatus, TaskAttempt, AfterAttempt, Reportable
    <3>2. \A i \in Jobs : status'[i] = "completed" => status[i] = "completed"
      BY <1>2, <2>4 DEF MarkProcessing, UpdateStatus
    <3> QED
      BY <1>1, <1>2, <2>2, <3>1, <3>2, ForgettingReports
  <2>5. CASE Download(w)
    <3>1. /\ \E to \in {"process", OnTransient(w)} : pc' = [pc EXCEPT ![w] = to]
          /\ outputs[w] = {}
          /\ UNCHANGED <<status, objects, result, outputs, msg>>
      BY <2>1, <2>5 DEF Download, Reportable
    <3> QED
      BY <1>1, <1>2, <2>2, <3>1, ForgettingReports
  <2>6. CASE Process(w)
    <3>1. /\ \E to \in {"upload", "mark_failed"} : pc' = [pc EXCEPT ![w] = to]
          /\ outputs[w] = {}
          /\ UNCHANGED <<status, objects, result, outputs, msg>>
          /\ pc[w] = "process"
      BY <2>1, <2>6 DEF Process, Reportable
    <3>2. CASE pc'[w] = "upload"
      <4>1. Job(w)' = Job(w) /\ Job(w) \in Jobs
        BY <1>1, <3>1, BusyHasMessage DEF Job
      <4>2. Cardinality({}) < Outputs[Job(w)]
        BY <4>1, OutputsAssumption, FS_EmptySet
      <4>3. Reportable(w)'
        BY <3>1, <3>2, <4>1, <4>2 DEF Reportable
      <4> QED
        BY <1>1, <1>2, <1>3, <3>1, <4>3, ReportKept
    <3>3. CASE pc'[w] # "upload"
      BY <1>1, <1>2, <3>1, <3>3, ForgettingReports
    <3> QED
      BY <3>2, <3>3
  <2>7. CASE Upload(w)
    <3> DEFINE j == Job(w)
               n == objects[j]
               uploaded == outputs[w] \union {n + 1}
    <3>1. PICK applied \in BOOLEAN, replied \in BOOLEAN :
            /\ replied => applied
            /\ objects' = IF applied THEN [objects EXCEPT ![j] = n + 1] ELSE objects
            /\ outputs' = [outputs EXCEPT ![w] = IF replied THEN uploaded ELSE {}]
            /\ pc' = [pc EXCEPT
                 ![w] = IF ~replied THEN OnTransient(w)
                        ELSE IF Cardinality(uploaded) < Outputs[j] THEN @
                        ELSE "store_result"]
      BY <2>7 DEF Upload, S3Attempt, UploadFile, FreshKey
    <3>2. /\ UNCHANGED <<status, result, msg>>
          /\ pc[w] = "upload"
          /\ Job(w)' = j
      BY <2>7 DEF Upload, Job
    <3>3. j \in Jobs /\ n \in Nat /\ Outputs[j] \in Nat
      BY <1>1, <1>2, <3>2, OutputsAssumption, BusyHasMessage
    <3>4. \A i \in Jobs : objects'[i] >= objects[i]
      BY <1>2, <3>1, <3>3
    <3>5. /\ outputs[w] \subseteq 1..n
          /\ Cardinality(outputs[w]) < Outputs[j]
      BY <2>1, <3>2 DEF Reportable
    <3>6. /\ uploaded \subseteq 1..(n + 1)
          /\ Cardinality(uploaded) \in Nat
          /\ Cardinality(uploaded) <= Outputs[j]
      BY <3>3, <3>5, FreshKeyCounts
    <3>7. replied => objects'[j] = n + 1 /\ outputs'[w] = uploaded
      BY <1>2, <3>1, <3>3
    <3> HIDE DEF uploaded, n, j
    <3>8. Reportable(w)'
      <4>1. CASE ~replied
        BY <1>2, <2>2, <3>1, <4>1 DEF Reportable
      <4>2. CASE replied /\ Cardinality(uploaded) < Outputs[j]
        <5>1. pc'[w] = "upload"
          BY <1>2, <3>1, <3>2, <4>2
        <5> QED
          BY <3>2, <3>6, <3>7, <4>2, <5>1 DEF Reportable
      <4>3. CASE replied /\ ~(Cardinality(uploaded) < Outputs[j])
        <5>1. pc'[w] = "store_result"
          BY <1>2, <3>1, <4>3
        <5>2. Cardinality(uploaded) = Outputs[j]
          BY <3>3, <3>6, <4>3
        <5> QED
          BY <3>2, <3>6, <3>7, <4>3, <5>1, <5>2 DEF Reportable, AllOutputs
      <4> QED
        BY <4>1, <4>2, <4>3
    <3>9. \A v \in Workers : v # w =>
            pc'[v] = pc[v] /\ msg'[v] = msg[v] /\ outputs'[v] = outputs[v]
      BY <1>2, <3>1, <3>2
    <3> QED
      BY <1>1, <3>2, <3>4, <3>8, <3>9, ReportKept
  <2>8. CASE StoreResult(w)
    <3>1. PICK applied \in BOOLEAN, replied \in BOOLEAN :
            /\ replied => applied
            /\ result' = IF applied THEN [result EXCEPT ![Job(w)] = outputs[w]] ELSE result
            /\ \/ replied /\ pc' = [pc EXCEPT ![w] = "mark_completed"]
               \/ \E to \in {"store_result", OnTransient(w)} : pc' = [pc EXCEPT ![w] = to]
            /\ outputs' = [outputs EXCEPT ![w] = IF pc'[w] = "store_result" THEN @ ELSE {}]
      BY <1>2, <2>8 DEF StoreResult, RedisAttempt, SetResult, TaskAttempt, AfterAttempt
    <3>2. /\ UNCHANGED <<status, objects, msg>>
          /\ pc[w] = "store_result"
          /\ Job(w)' = Job(w)
      BY <2>8 DEF StoreResult, SetResult, Job
    <3>3. Job(w) \in Jobs
      BY <1>1, <3>2, BusyHasMessage
    <3>4. AllOutputs(Job(w), outputs[w])
      BY <2>1, <3>2 DEF Reportable
    <3>5. \A i \in Jobs : result'[i] = result[i] \/ AllOutputs(i, result'[i])
      BY <1>2, <3>1, <3>3, <3>4
    <3>6. Reportable(w)'
      <4>1. CASE pc'[w] = "store_result"
        <5>1. outputs'[w] = outputs[w]
          BY <1>2, <3>1, <4>1
        <5> QED
          BY <3>2, <3>4, <4>1, <5>1 DEF Reportable, AllOutputs
      <4>2. CASE pc'[w] = "mark_completed"
        <5>1. replied
          BY <1>2, <2>2, <3>1, <4>2
        <5>2. result'[Job(w)] = outputs[w] /\ outputs'[w] = {}
          BY <1>2, <3>1, <3>3, <4>2, <5>1
        <5> QED
          BY <3>2, <3>4, <4>2, <5>2 DEF Reportable, AllOutputs
      <4>3. CASE pc'[w] \notin {"store_result", "mark_completed"}
        <5>1. pc'[w] # "upload" /\ outputs'[w] = {}
          BY <1>2, <2>2, <3>1, <4>3
        <5> QED
          BY <4>3, <5>1 DEF Reportable
      <4> QED
        BY <4>1, <4>2, <4>3
    <3>7. \A v \in Workers : v # w =>
            pc'[v] = pc[v] /\ msg'[v] = msg[v] /\ outputs'[v] = outputs[v]
      BY <1>2, <3>1, <3>2
    <3> QED
      BY <1>1, <1>3, <3>2, <3>5, <3>6, <3>7, ReportKept
  <2>9. CASE MarkCompleted(w)
    <3>1. PICK to \in {"mark_completed", "observe", OnTransient(w)} : pc' = [pc EXCEPT ![w] = to]
      BY <1>2, <2>9 DEF MarkCompleted, TaskAttempt, AfterAttempt
    <3>2. /\ UNCHANGED <<objects, result, outputs, msg>>
          /\ pc[w] = "mark_completed"
      BY <2>9 DEF MarkCompleted, UpdateStatus
    <3>3. AllOutputs(Job(w), result[Job(w)]) /\ outputs[w] = {}
      BY <2>1, <3>2 DEF Reportable
    <3>4. \A i \in Jobs : status'[i] = "completed" =>
            status[i] = "completed" \/ AllOutputs(i, result[i])
      BY <1>2, <2>9, <3>3 DEF MarkCompleted, UpdateStatus
    <3>5. \/ pc'[w] = pc[w]
          \/ pc'[w] \notin {"upload", "store_result", "mark_completed"}
      BY <1>2, <2>2, <3>1, <3>2
    <3>6. \/ pc'[w] = pc[w] /\ msg'[w] = msg[w] /\ outputs'[w] = outputs[w]
          \/ Reportable(w)'
      BY <3>2, <3>3, <3>5 DEF Reportable
    <3>7. \A v \in Workers : v # w =>
            pc'[v] = pc[v] /\ msg'[v] = msg[v] /\ outputs'[v] = outputs[v]
      BY <1>2, <3>1, <3>2
    <3> QED
      BY <1>1, <1>3, <3>2, <3>4, <3>6, <3>7, ReportKept
  <2>10. CASE ObserveEndToEnd(w)
    <3>1. /\ \E to \in {"observe", "ack", OnTransient(w)} : pc' = [pc EXCEPT ![w] = to]
          /\ outputs[w] = {}
          /\ UNCHANGED <<status, objects, result, outputs, msg>>
      BY <2>1, <2>10 DEF ObserveEndToEnd, TaskAttempt, AfterAttempt, Reportable
    <3> QED
      BY <1>1, <1>2, <2>2, <3>1, ForgettingReports
  <2>11. CASE ScheduleRetry(w)
    <3>1. /\ pc' = [pc EXCEPT ![w] = "ack"]
          /\ outputs[w] = {}
          /\ UNCHANGED <<status, objects, result, outputs, msg>>
      BY <2>1, <2>11 DEF ScheduleRetry, Reportable
    <3> QED
      BY <1>1, <1>2, <3>1, ForgettingReports
  <2>12. CASE MarkFailed(w)
    <3>1. /\ \E to \in {"mark_failed", "record_error", "ack"} : pc' = [pc EXCEPT ![w] = to]
          /\ outputs[w] = {}
          /\ UNCHANGED <<objects, result, outputs, msg>>
      BY <2>1, <2>12 DEF MarkFailed, UpdateStatus, TaskAttempt, AfterAttempt, Reportable
    <3>2. \A i \in Jobs : status'[i] = "completed" => status[i] = "completed"
      BY <1>2, <2>12 DEF MarkFailed, UpdateStatus
    <3> QED
      BY <1>1, <1>2, <3>1, <3>2, ForgettingReports
  <2>13. CASE RecordError(w)
    <3>1. /\ \E to \in {"record_error", "ack"} : pc' = [pc EXCEPT ![w] = to]
          /\ outputs[w] = {}
          /\ UNCHANGED <<status, objects, result, outputs, msg>>
      BY <2>1, <2>13 DEF RecordError, SetError, TaskAttempt, AfterAttempt, Reportable
    <3> QED
      BY <1>1, <1>2, <3>1, ForgettingReports
  <2>14. CASE Acknowledge(w)
    <3>1. Release(w) /\ UNCHANGED <<status, objects, result>>
      BY <2>14 DEF Acknowledge
    <3>2. pc'[w] = "idle" /\ outputs'[w] = {}
      BY <1>2, <3>1 DEF Release
    <3> QED
      BY <1>1, <1>2, <3>1, <3>2, ForgettingReports DEF Release
  <2> QED
    BY <1>5, <2>3, <2>4, <2>5, <2>6, <2>7, <2>8, <2>9, <2>10, <2>11, <2>12, <2>13,
       <2>14 DEF WorkerStep
<1>6. ASSUME NEW w \in Workers, WorkerCrash(w) \/ HardTimeLimit(w)
      PROVE  ReportInv'
  <2>1. Release(w) /\ UNCHANGED <<status, objects, result>>
    BY <1>6 DEF WorkerCrash, HardTimeLimit, storeVars, bucketVars
  <2>2. pc'[w] = "idle" /\ outputs'[w] = {}
    BY <1>2, <2>1 DEF Release
  <2> QED
    BY <1>1, <1>2, <2>1, <2>2, ForgettingReports DEF Release
<1>7. ASSUME NEW w \in Workers, Disconnect(w)
      PROVE  ReportInv'
  <2>1. UNCHANGED <<status, objects, result, pc, msg, outputs>>
    BY <1>7 DEF Disconnect, storeVars, bucketVars
  <2> QED
    BY <1>1, <1>3, <2>1, ReportKept
<1>8. ASSUME NEW w \in Workers, LimitInPipeline(w)
      PROVE  ReportInv'
  <2>1. /\ pc' = [pc EXCEPT ![w] = "mark_failed"]
        /\ outputs' = [outputs EXCEPT ![w] = {}]
        /\ UNCHANGED <<status, objects, result, msg>>
    BY <1>8 DEF LimitInPipeline, storeVars, bucketVars
  <2> QED
    BY <1>1, <1>2, <2>1, ForgettingReports
<1>10. ASSUME NEW w \in Workers, LimitInRetry(w) \/ LimitInOnFailure(w)
       PROVE  ReportInv'
  <2>1. PICK to \in {"ack", "mark_failed"} : pc' = [pc EXCEPT ![w] = to]
    BY <1>10 DEF LimitInRetry, LimitInOnFailure
  <2>2. UNCHANGED <<status, objects, result, msg, outputs>>
    BY <1>10 DEF LimitInRetry, LimitInOnFailure, storeVars, bucketVars
  <2>3. outputs[w] = {}
    BY <1>10 DEF LimitInRetry, LimitInOnFailure, ReportInv, Reportable
  <2> QED
    BY <1>1, <1>2, <2>1, <2>2, <2>3, ForgettingReports
<1>9. CASE UNCHANGED vars
  BY <1>1, <1>9, RequestReports DEF vars, storeVars, bucketVars
<1> QED
  BY <1>4, <1>5, <1>6, <1>7, <1>8, <1>9, <1>10 DEF Next, Interruption, SoftTimeLimit, Rest

(***************************************************************************)
(* A job is shown as completed only with a stored result that names all of *)
(* its outputs, each in the bucket: for any number of jobs, workers,       *)
(* outputs and retries, and whatever fails.                                *)
(***************************************************************************)
THEOREM CompletedHasResult == Spec => []CompletedIsReported
<1>1. Init => ReportInv
  BY TypeInit
  DEF Init, StoreInit, ReportInv, Reportable, CompletedIsReported
<1>2. ReportInv /\ [Next]_vars => ReportInv'
  BY ReportStep
<1>3. ReportInv => CompletedIsReported
  BY DEF ReportInv
<1> QED
  BY <1>1, <1>2, <1>3, PTL DEF Spec

-----------------------------------------------------------------------------
(***************************************************************************)
(* Registered, then dispatched.  A job that a request is about to dispatch *)
(* counts as engaged, or the property would not survive the dispatch.      *)
(***************************************************************************)
Engaged(j) == request[j] = "dispatch" \/ Waiting(j) \/ WorkedOn(j)

RegisteredInv ==
    /\ TypeOK
    /\ \A j \in Jobs : Engaged(j) => status[j] # "absent"

(***************************************************************************)
(* A record is never taken away.                                           *)
(***************************************************************************)
LEMMA RecordsStay ==
    ASSUME TypeOK, [Next]_vars, NEW j \in Jobs, status[j] # "absent"
    PROVE  status'[j] # "absent"
<1> USE DEF storeVars
<1>1. status \in [Jobs -> JobStatus \union {"absent"}]
  BY DEF TypeOK
<1>2. ASSUME NEW i \in Jobs,
             \/ ClientUpload(i) \/ SourceDisappears(i) \/ Submit(i) \/ ApiCrash(i)
             \/ RequestStep(i)
      PROVE  status'[j] # "absent"
  BY <1>1, <1>2
  DEF ClientUpload, SourceDisappears, Submit, ApiCrash, RequestStep, RegisterJob,
      CreateJob, Dispatch, MarkDispatchFailed, UpdateStatus, RecordDispatchError, SetError
<1>3. ASSUME NEW w \in Workers, WorkerStep(w)
      PROVE  status'[j] # "absent"
  BY <1>1, <1>3
  DEF WorkerStep, Receive, MarkProcessing, Download, Process, Upload, StoreResult,
      MarkCompleted, ObserveEndToEnd, ScheduleRetry, MarkFailed, RecordError,
      Acknowledge, UpdateStatus, SetResult, SetError
<1>4. ASSUME NEW w \in Workers, Interruption(w)
      PROVE  status'[j] # "absent"
  BY <1>4
  DEF Interruption, WorkerCrash, Disconnect, SoftTimeLimit, LimitInPipeline, LimitInRetry,
      LimitInOnFailure, HardTimeLimit
<1>5. CASE UNCHANGED vars
  BY <1>5 DEF vars
<1> QED
  BY <1>2, <1>3, <1>4, <1>5 DEF Next, Rest

(***************************************************************************)
(* A step that engages no job anew keeps every engaged job registered.     *)
(***************************************************************************)
LEMMA NobodyEngaged ==
    ASSUME RegisteredInv, [Next]_vars,
           \A i \in Jobs : request'[i] = "dispatch" => request[i] = "dispatch",
           \A m \in Message : ready'[m] > 0 => ready[m] > 0 \/ Engaged(m.job),
           \A v \in Workers : pc'[v] # "idle" => Engaged(msg'[v].job)
    PROVE  RegisteredInv'
  <1>1. TypeOK /\ TypeOK'
    BY TypeStep DEF RegisteredInv
  <1>2. ASSUME NEW j \in Jobs, Engaged(j)'
        PROVE  Engaged(j)
    BY <1>2 DEF Engaged, Waiting, WorkedOn, Job
  <1> QED
    BY <1>1, <1>2, RecordsStay DEF RegisteredInv

(***************************************************************************)
(* A step of a worker on its own message, which may be queued again.       *)
(***************************************************************************)
LEMMA WorkEngagesNobody ==
    ASSUME RegisteredInv, [Next]_vars, NEW w \in Workers, pc[w] # "idle",
           UNCHANGED request,
           \A v \in Workers : v # w => pc'[v] = pc[v] /\ msg'[v] = msg[v],
           pc'[w] = "idle" \/ msg'[w] = msg[w],
           \A m \in Message : ready'[m] > 0 => ready[m] > 0 \/ m.job = Job(w)
    PROVE  RegisteredInv'
  <1>1. \A v \in Workers : pc[v] # "idle" => Engaged(Job(v))
    BY DEF Engaged, WorkedOn, Job
  <1>2. \A v \in Workers : pc'[v] # "idle" => Engaged(msg'[v].job)
    BY <1>1 DEF Job
  <1>3. \A m \in Message : ready'[m] > 0 => ready[m] > 0 \/ Engaged(m.job)
    BY <1>1
  <1> QED
    BY <1>2, <1>3, NobodyEngaged

\* Every step keeps work and answers for registered jobs only.
LEMMA RegisteredStep == RegisteredInv /\ [Next]_vars => RegisteredInv'
<1> SUFFICES ASSUME RegisteredInv, [Next]_vars
             PROVE  RegisteredInv'
  OBVIOUS
<1> USE DEF storeVars, bucketVars, queueVars, requestVars, workerVars
<1>1. TypeOK /\ TypeOK'
  BY TypeStep DEF RegisteredInv
<1>2. /\ status \in [Jobs -> JobStatus \union {"absent"}]
      /\ request \in [Jobs -> RequestPlace]
      /\ ready \in [Message -> Nat]
      /\ pc \in [Workers -> WorkerPlace]
      /\ msg \in [Workers -> Message \union {NoMsg}]
  BY <1>1 DEF TypeOK
<1>3. /\ \A v \in Workers : pc[v] # "idle" => Engaged(msg[v].job)
      /\ \A m \in Message : ready[m] > 0 => Engaged(m.job)
  BY DEF Engaged, WorkedOn, Waiting, Job, Message
<1>4. ASSUME NEW j \in Jobs,
             \/ ClientUpload(j) \/ SourceDisappears(j) \/ Submit(j) \/ ApiCrash(j)
             \/ MarkDispatchFailed(j) \/ RecordDispatchError(j)
      PROVE  RegisteredInv'
  <2>1. UNCHANGED <<ready, pc, msg>>
    BY <1>4 DEF ClientUpload, SourceDisappears, Submit, ApiCrash, MarkDispatchFailed,
                RecordDispatchError
  <2>2. \A i \in Jobs : request'[i] = "dispatch" => request[i] = "dispatch"
    BY <1>2, <1>4
    DEF ClientUpload, SourceDisappears, Submit, ApiCrash, MarkDispatchFailed,
        RecordDispatchError, RequestAttempt, AfterAttempt
  <2> QED
    BY <1>3, <2>1, <2>2, NobodyEngaged
<1>5. ASSUME NEW j \in Jobs, RegisterJob(j)
      PROVE  RegisteredInv'
  <2> PICK applied \in BOOLEAN, replied \in BOOLEAN :
             /\ RedisAttempt(applied, replied)
             /\ CreateJob(j, applied)
             /\ RequestAttempt(j, replied, "dispatch", "internal_error")
    BY <1>5 DEF RegisterJob
  <2>1. UNCHANGED <<ready, pc, msg>> /\ request[j] = "create_job"
    BY <1>5 DEF RegisterJob
  <2>2. \A i \in Jobs : i # j => request'[i] = request[i]
    BY <1>2 DEF RequestAttempt
  <2>3. request'[j] = "dispatch" => status'[j] # "absent"
    BY <1>2, <2>1 DEF RequestAttempt, AfterAttempt, RedisAttempt, CreateJob
  <2>4. ASSUME NEW i \in Jobs, Engaged(i)', ~(i = j /\ request'[j] = "dispatch")
        PROVE  Engaged(i)
    BY <2>1, <2>2, <2>4 DEF Engaged, Waiting, WorkedOn, Job
  <2> QED
    BY <1>1, <2>3, <2>4, RecordsStay DEF RegisteredInv
<1>6. ASSUME NEW j \in Jobs, Dispatch(j)
      PROVE  RegisteredInv'
  <2> PICK sent \in BOOLEAN, returned \in BOOLEAN :
             /\ Publish([job |-> j, retries |-> 0], sent)
             /\ RequestAttempt(j, returned, "accepted", "mark_failed")
    BY <1>6 DEF Dispatch
  <2>1. UNCHANGED <<pc, msg>> /\ request[j] = "dispatch"
    BY <1>6 DEF Dispatch
  <2>2. \A i \in Jobs : request'[i] = "dispatch" => request[i] = "dispatch"
    BY <1>2, <2>1 DEF RequestAttempt
  <2>3. \A m \in Message : ready'[m] > 0 => ready[m] > 0 \/ m.job = j
    BY <1>2 DEF Publish, Enqueue
  <2>4. Engaged(j)
    BY <2>1 DEF Engaged
  <2> QED
    BY <1>3, <2>1, <2>2, <2>3, <2>4, NobodyEngaged
<1>7. ASSUME NEW w \in Workers, Receive(w)
      PROVE  RegisteredInv'
  <2> PICK m \in Message : Deliver(m) /\ msg' = [msg EXCEPT ![w] = m]
    BY <1>7 DEF Receive
  <2>1. UNCHANGED request /\ pc' = [pc EXCEPT ![w] = "mark_processing"]
    BY <1>7 DEF Receive
  <2>2. ready[m] > 0 /\ \A n \in Message : ready'[n] > 0 => ready[n] > 0
    BY <1>2 DEF Deliver
  <2>3. \A v \in Workers : pc'[v] # "idle" => Engaged(msg'[v].job)
    BY <1>2, <1>3, <2>1, <2>2
  <2> QED
    BY <2>1, <2>2, <2>3, NobodyEngaged
<1>8. ASSUME NEW w \in Workers,
             \/ MarkProcessing(w) \/ Download(w) \/ Process(w) \/ Upload(w)
             \/ StoreResult(w) \/ MarkCompleted(w) \/ ObserveEndToEnd(w)
             \/ MarkFailed(w) \/ RecordError(w) \/ LimitInPipeline(w)
             \/ LimitInOnFailure(w)
      PROVE  RegisteredInv'
  <2>1. UNCHANGED <<request, ready, msg>> /\ pc[w] # "idle"
    BY <1>8
    DEF MarkProcessing, Download, Process, Upload, StoreResult, MarkCompleted,
        ObserveEndToEnd, MarkFailed, RecordError, LimitInPipeline, LimitInOnFailure,
        Pipeline
  <2>2. \A v \in Workers : v # w => pc'[v] = pc[v]
    BY <1>2, <1>8
    DEF MarkProcessing, Download, Process, Upload, StoreResult, MarkCompleted,
        ObserveEndToEnd, MarkFailed, RecordError, LimitInPipeline, LimitInOnFailure,
        TaskAttempt
  <2> QED
    BY <2>1, <2>2, WorkEngagesNobody
<1>9. ASSUME NEW w \in Workers, ScheduleRetry(w) \/ LimitInRetry(w)
      PROVE  RegisteredInv'
  <2>1. /\ UNCHANGED <<request, msg>> /\ pc[w] = "retry"
        /\ \E to \in {"ack", "mark_failed"} : pc' = [pc EXCEPT ![w] = to]
    BY <1>9 DEF ScheduleRetry, LimitInRetry
  <2>2. msg[w] \in Message
    BY <1>1, <2>1, BusyHasMessage
  <2>3. [msg[w] EXCEPT !.retries = @ + 1].job = Job(w)
    BY <2>2 DEF Message, Job
  <2>4. \A m \in Message : ready'[m] > 0 => ready[m] > 0 \/ m.job = Job(w)
    BY <1>2, <1>9, <2>3 DEF ScheduleRetry, LimitInRetry, Publish, Enqueue
  <2> QED
    BY <1>2, <2>1, <2>4, WorkEngagesNobody
<1>10. ASSUME NEW w \in Workers, Acknowledge(w) \/ WorkerCrash(w) \/ HardTimeLimit(w)
       PROVE  RegisteredInv'
  <2>1. Release(w) /\ UNCHANGED request /\ pc[w] # "idle"
    BY <1>10 DEF Acknowledge, WorkerCrash, HardTimeLimit, InTask, Pipeline
  <2>2. \A m \in Message : ready'[m] > 0 => ready[m] > 0 \/ m.job = Job(w)
    BY <1>2, <1>10 DEF Acknowledge, WorkerCrash, HardTimeLimit, Enqueue, Job
  <2> QED
    BY <1>2, <2>1, <2>2, WorkEngagesNobody DEF Release
<1>11. ASSUME NEW w \in Workers, Disconnect(w)
       PROVE  RegisteredInv'
  <2>1. UNCHANGED <<request, pc, msg>>
    BY <1>11 DEF Disconnect
  <2>2. CASE pc[w] = "idle"
    <3>1. msg[w] = NoMsg /\ msg[w] \notin Message
      BY <1>1, <2>2, MediaJobsAssumption DEF TypeOK
    <3>2. ready' = ready
      BY <1>2, <1>11, <3>1 DEF Disconnect, Enqueue
    <3> QED
      BY <1>3, <2>1, <3>2, NobodyEngaged
  <2>3. CASE pc[w] # "idle"
    <3>1. \A m \in Message : ready'[m] > 0 => ready[m] > 0 \/ m.job = Job(w)
      BY <1>2, <1>11 DEF Disconnect, Enqueue, Job
    <3> QED
      BY <2>1, <2>3, <3>1, WorkEngagesNobody
  <2> QED
    BY <2>2, <2>3
<1>12. CASE UNCHANGED vars
  BY <1>3, <1>12, NobodyEngaged DEF vars
<1> QED
  BY <1>4, <1>5, <1>6, <1>7, <1>8, <1>9, <1>10, <1>11, <1>12
  DEF Next, RequestStep, WorkerStep, Interruption, SoftTimeLimit, Rest

(***************************************************************************)
(* No worker ever sees a job that POST /jobs has not recorded in Redis,    *)
(* whatever fails, for any number of jobs, workers and repeated calls.     *)
(***************************************************************************)
THEOREM RegisteredFirst == Spec => []WorkIsRegistered
<1>1. Init => RegisteredInv
  BY TypeInit
  DEF Init, RegisteredInv, Engaged, Waiting, WorkedOn, QueueInit
<1>2. RegisteredInv /\ [Next]_vars => RegisteredInv'
  BY RegisteredStep
<1>3. RegisteredInv => WorkIsRegistered
  BY DEF RegisteredInv, Engaged, WorkIsRegistered
<1> QED
  BY <1>1, <1>2, <1>3, PTL DEF Spec

=============================================================================
