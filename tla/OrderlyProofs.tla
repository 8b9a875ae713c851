---------------------------- MODULE OrderlyProofs ----------------------------
(***************************************************************************)
(* Proofs about MediaJobs when some kinds of failure are absent.  Each     *)
(* theorem assumes away only the failures that break it, and the others    *)
(* may happen in any number and order.                                     *)
(***************************************************************************)
EXTENDS MediaJobsProofs

\* Something of j is in the queue or with a worker.
Underway(j) == Waiting(j) \/ WorkedOn(j)

-----------------------------------------------------------------------------
(***************************************************************************)
(* Who may do what to a job.                                               *)
(***************************************************************************)

(***************************************************************************)
(* An answered request is answered for good.                               *)
(***************************************************************************)
LEMMA AnswersStay ==
    ASSUME TypeOK, [Next]_vars, NEW j \in Jobs, request[j] \in Replied
    PROVE  request'[j] = request[j]
<1> USE DEF requestVars
<1>1. request \in [Jobs -> RequestPlace]
  BY DEF TypeOK
<1>2. ASSUME NEW i \in Jobs,
             \/ ClientUpload(i) \/ SourceDisappears(i) \/ Submit(i) \/ ApiCrash(i)
             \/ RequestStep(i)
      PROVE  request'[j] = request[j]
  BY <1>1, <1>2
  DEF ClientUpload, SourceDisappears, Submit, ApiCrash, RequestStep, RegisterJob, Dispatch,
      MarkDispatchFailed, RecordDispatchError, RequestAttempt, Replied, InRequest
<1>3. ASSUME NEW w \in Workers, WorkerStep(w) \/ Interruption(w)
      PROVE  request' = request
  BY <1>3
  DEF WorkerStep, Receive, MarkProcessing, Download, Process, Upload, StoreResult,
      MarkCompleted, ObserveEndToEnd, ScheduleRetry, MarkFailed, RecordError,
      Acknowledge, Interruption, WorkerCrash, Disconnect, SoftTimeLimit,
      LimitInPipeline, LimitInRetry, LimitInOnFailure, HardTimeLimit
<1>4. CASE UNCHANGED vars
  BY <1>4 DEF vars
<1> QED
  BY <1>2, <1>3, <1>4 DEF Next, Rest

(***************************************************************************)
(* The status of a job is written by its own request and its own runs.     *)
(***************************************************************************)
LEMMA StatusHasWriter ==
    ASSUME TypeOK, [Next]_vars, NEW j \in Jobs, status'[j] # status[j]
    PROVE  \/ RegisterJob(j) \/ MarkDispatchFailed(j)
           \/ \E w \in Workers : pc[w] \in InTask /\ Job(w) = j /\ UNCHANGED request
<1> USE DEF storeVars, requestVars
<1>1. status \in [Jobs -> JobStatus \union {"absent"}]
  BY DEF TypeOK
<1>2. ASSUME NEW i \in Jobs,
             \/ ClientUpload(i) \/ SourceDisappears(i) \/ Submit(i) \/ ApiCrash(i)
             \/ Dispatch(i) \/ RecordDispatchError(i)
      PROVE  FALSE
  BY <1>2
  DEF ClientUpload, SourceDisappears, Submit, ApiCrash, Dispatch, RecordDispatchError,
      SetError
<1>3. ASSUME NEW i \in Jobs, RegisterJob(i) \/ MarkDispatchFailed(i)
      PROVE  i = j
  BY <1>1, <1>3 DEF RegisterJob, CreateJob, MarkDispatchFailed, UpdateStatus
<1>4. ASSUME NEW w \in Workers, WorkerStep(w)
      PROVE  pc[w] \in InTask /\ Job(w) = j /\ UNCHANGED request
  <2>1. MarkProcessing(w) \/ MarkCompleted(w) \/ MarkFailed(w)
    BY <1>4
    DEF WorkerStep, Receive, Download, Process, Upload, StoreResult, ObserveEndToEnd,
        ScheduleRetry, RecordError, Acknowledge, SetError, SetResult
  <2> QED
    BY <1>1, <2>1
    DEF MarkProcessing, MarkCompleted, MarkFailed, UpdateStatus, InTask, Pipeline
<1>5. ASSUME NEW w \in Workers, Interruption(w)
      PROVE  FALSE
  BY <1>5
  DEF Interruption, WorkerCrash, Disconnect, SoftTimeLimit, LimitInPipeline, LimitInRetry,
      LimitInOnFailure, HardTimeLimit
<1>6. CASE UNCHANGED vars
  BY <1>6 DEF vars
<1> QED
  BY <1>2, <1>3, <1>4, <1>5, <1>6 DEF Next, Rest, RequestStep

(***************************************************************************)
(* A worker's step on its own message leaves the other workers alone.      *)
(***************************************************************************)
LEMMA OwnMessage ==
    ASSUME TypeOK, NEW w \in Workers, WorkerStep(w) \/ Interruption(w), ~Receive(w)
    PROVE  /\ \A v \in Workers : v # w => pc'[v] = pc[v] /\ msg'[v] = msg[v]
           /\ pc'[w] = "idle" \/ msg'[w] = msg[w]
           /\ pc[w] = "idle" => pc'[w] = "idle" /\ UNCHANGED ready
           /\ UNCHANGED request
<1> USE DEF requestVars, queueVars
<1>1. /\ pc \in [Workers -> WorkerPlace]
      /\ msg \in [Workers -> Message \union {NoMsg}]
      /\ ready \in [Message -> Nat]
      /\ pc[w] = "idle" <=> msg[w] = NoMsg
  BY DEF TypeOK
<1>2. ASSUME MarkProcessing(w) \/ Download(w) \/ Process(w) \/ Upload(w) \/ StoreResult(w)
               \/ MarkCompleted(w) \/ ObserveEndToEnd(w) \/ ScheduleRetry(w)
               \/ MarkFailed(w) \/ RecordError(w) \/ SoftTimeLimit(w)
      PROVE  /\ UNCHANGED <<msg, request>> /\ pc[w] # "idle"
             /\ \A v \in Workers : v # w => pc'[v] = pc[v]
  BY <1>1, <1>2
  DEF MarkProcessing, Download, Process, Upload, StoreResult, MarkCompleted,
      ObserveEndToEnd, ScheduleRetry, MarkFailed, RecordError, SoftTimeLimit,
      LimitInPipeline, LimitInRetry, LimitInOnFailure, TaskAttempt, Pipeline
<1>3. ASSUME Acknowledge(w) \/ WorkerCrash(w) \/ HardTimeLimit(w)
      PROVE  /\ UNCHANGED request /\ pc[w] # "idle" /\ pc'[w] = "idle"
             /\ \A v \in Workers : v # w => pc'[v] = pc[v] /\ msg'[v] = msg[v]
  BY <1>1, <1>3
  DEF Acknowledge, WorkerCrash, HardTimeLimit, Release, InTask, Pipeline
<1>4. ASSUME Disconnect(w)
      PROVE  UNCHANGED <<request, pc, msg>> /\ (pc[w] = "idle" => UNCHANGED ready)
  <2>1. NoMsg \notin Message
    BY MediaJobsAssumption
  <2> QED
    BY <1>1, <1>4, <2>1 DEF Disconnect, Enqueue
<1> QED
  BY <1>2, <1>3, <1>4 DEF WorkerStep, Interruption

(***************************************************************************)
(* What it puts into the queue is its own message or the retry of it.      *)
(***************************************************************************)
LEMMA OwnJobQueued ==
    ASSUME TypeOK, NEW w \in Workers, WorkerStep(w) \/ Interruption(w), ~Receive(w),
           NEW m \in Message, ready'[m] > 0
    PROVE  ready[m] > 0 \/ (pc[w] # "idle" /\ m.job = Job(w))
<1> USE DEF queueVars
<1>1. ready \in [Message -> Nat]
  BY DEF TypeOK
<1>2. CASE pc[w] = "idle"
  BY <1>2, OwnMessage
<1>3. CASE pc[w] # "idle"
  <2>1. msg[w] \in Message
    BY <1>3, BusyHasMessage
  <2>2. [msg[w] EXCEPT !.retries = @ + 1].job = Job(w)
    BY <2>1 DEF Message, Job
  <2>3. \/ UNCHANGED ready \/ Enqueue(msg[w])
        \/ Enqueue([msg[w] EXCEPT !.retries = @ + 1])
    BY DEF WorkerStep, MarkProcessing, Download, Process, Upload, StoreResult,
           MarkCompleted, ObserveEndToEnd, ScheduleRetry, MarkFailed, RecordError,
           Acknowledge, Interruption, WorkerCrash, Disconnect, SoftTimeLimit,
           LimitInPipeline, LimitInRetry, LimitInOnFailure, HardTimeLimit, Publish
  <2> QED
    BY <1>1, <1>3, <2>2, <2>3 DEF Enqueue, Job
<1> QED
  BY <1>2, <1>3

-----------------------------------------------------------------------------
(***************************************************************************)
(* A refused submission.  The one failure assumed away is a publish that   *)
(* raises although the message was enqueued: then the request is refused   *)
(* and the job runs all the same.                                          *)
(***************************************************************************)
RaisedIsUnsent == "api_broker_dup" \notin Faults

\* What POST /jobs knows of its job at each place: no work is under way
\* before the answer 202, and a 503 follows the recorded failure or nothing.
RefusedInv ==
    /\ TypeOK
    /\ \A j \in Jobs : request[j] # "accepted" => ~Underway(j)
    /\ \A j \in Jobs : request[j] = "none" => status[j] = "absent"
    /\ \A j \in Jobs : request[j] = "record_error" => status[j] = "failed"
    /\ \A j \in Jobs : request[j] = "unavailable" => status[j] \in {"absent", "failed"}

(***************************************************************************)
(* Work on a job begins with the publish that has it answered 202.         *)
(***************************************************************************)
LEMMA WorkIsAccepted ==
    ASSUME RaisedIsUnsent, TypeOK, [Next]_vars, NEW j \in Jobs, Underway(j)'
    PROVE  Underway(j) \/ request'[j] = "accepted"
<1> USE DEF queueVars, workerVars
<1>1. /\ request \in [Jobs -> RequestPlace] /\ ready \in [Message -> Nat]
      /\ pc \in [Workers -> WorkerPlace]
      /\ msg \in [Workers -> Message \union {NoMsg}]
  BY DEF TypeOK
<1>2. ASSUME UNCHANGED <<ready, pc, msg>>
      PROVE  Underway(j)
  BY <1>2 DEF Underway, Waiting, WorkedOn, Job
<1>3. ASSUME NEW i \in Jobs,
             \/ ClientUpload(i) \/ SourceDisappears(i) \/ Submit(i) \/ ApiCrash(i)
             \/ RegisterJob(i) \/ MarkDispatchFailed(i) \/ RecordDispatchError(i)
      PROVE  Underway(j)
  BY <1>2, <1>3
  DEF ClientUpload, SourceDisappears, Submit, ApiCrash, RegisterJob, MarkDispatchFailed,
      RecordDispatchError
<1>4. ASSUME NEW i \in Jobs, Dispatch(i)
      PROVE  Underway(j) \/ request'[j] = "accepted"
  <2>1. PICK sent \in BOOLEAN, returned \in BOOLEAN :
          /\ sent => returned
          /\ Publish([job |-> i, retries |-> 0], sent)
          /\ RequestAttempt(i, returned, "accepted", "mark_failed")
    BY <1>4 DEF Dispatch, PublishAttempt, RaisedIsUnsent
  <2>2. UNCHANGED <<pc, msg>>
    BY <1>4 DEF Dispatch
  <2>3. CASE ~sent
    BY <1>2, <2>1, <2>2, <2>3 DEF Publish
  <2>4. CASE sent
    <3>1. request'[i] = "accepted"
      BY <1>1, <2>1, <2>4 DEF RequestAttempt, AfterAttempt
    <3>2. \A m \in Message : ready'[m] > 0 => ready[m] > 0 \/ m.job = i
      BY <1>1, <2>1, <2>4 DEF Publish, Enqueue
    <3>3. Underway(j) \/ j = i
      BY <2>2, <3>2 DEF Underway, Waiting, WorkedOn, Job
    <3> QED
      BY <3>1, <3>3
  <2> QED
    BY <2>3, <2>4
<1>5. ASSUME NEW w \in Workers, Receive(w)
      PROVE  Underway(j)
  <2>1. PICK m \in Message : Deliver(m) /\ msg' = [msg EXCEPT ![w] = m]
    BY <1>5 DEF Receive
  <2>2. pc' = [pc EXCEPT ![w] = "mark_processing"]
    BY <1>5 DEF Receive
  <2>3. ready[m] > 0 /\ \A n \in Message : ready'[n] > 0 => ready[n] > 0
    BY <1>1, <2>1 DEF Deliver
  <2>4. CASE Waiting(j)'
    BY <2>3, <2>4 DEF Underway, Waiting
  <2>5. ASSUME NEW v \in Workers, pc'[v] # "idle", msg'[v].job = j
        PROVE  Underway(j)
    BY <1>1, <2>1, <2>2, <2>3, <2>5 DEF Underway, Waiting, WorkedOn, Job
  <2> QED
    BY <2>4, <2>5 DEF Underway, WorkedOn, Job
<1>6. ASSUME NEW w \in Workers, WorkerStep(w) \/ Interruption(w), ~Receive(w)
      PROVE  Underway(j)
  <2>1. CASE Waiting(j)'
    BY <1>6, <2>1, OwnJobQueued DEF Underway, Waiting, WorkedOn
  <2>2. ASSUME NEW v \in Workers, pc'[v] # "idle", msg'[v].job = j
        PROVE  pc[v] # "idle" /\ msg[v].job = j
    BY <1>6, <2>2, OwnMessage
  <2> QED
    BY <2>1, <2>2 DEF Underway, WorkedOn, Job
<1>7. CASE UNCHANGED vars
  BY <1>2, <1>7 DEF vars
<1> QED
  BY <1>3, <1>4, <1>5, <1>6, <1>7 DEF Next, Rest, RequestStep

\* Every step leaves a refused job with neither message nor worker.
LEMMA RefusedStep == RaisedIsUnsent /\ RefusedInv /\ [Next]_vars => RefusedInv'
<1> SUFFICES ASSUME RaisedIsUnsent, RefusedInv, [Next]_vars
             PROVE  RefusedInv'
  OBVIOUS
<1>1. /\ TypeOK /\ TypeOK'
      /\ request \in [Jobs -> RequestPlace]
      /\ status \in [Jobs -> JobStatus \union {"absent"}]
  BY TypeStep DEF RefusedInv, TypeOK
<1>2. ASSUME NEW j \in Jobs, request'[j] # "accepted"
      PROVE  request[j] # "accepted" /\ ~Underway(j) /\ ~Underway(j)'
  <2>1. request[j] # "accepted"
    BY <1>1, <1>2, AnswersStay DEF Replied
  <2> QED
    BY <1>1, <1>2, <2>1, WorkIsAccepted DEF RefusedInv
<1>3. ASSUME NEW j \in Jobs, request'[j] # "accepted", status'[j] # status[j]
      PROVE  RegisterJob(j) \/ MarkDispatchFailed(j)
  <2>1. ~ \E w \in Workers : pc[w] \in InTask /\ Job(w) = j
    BY <1>2, <1>3 DEF Underway, WorkedOn, InTask, Pipeline
  <2> QED
    BY <1>1, <1>3, <2>1, StatusHasWriter
<1>4. ASSUME NEW j \in Jobs, request'[j] # request[j]
      PROVE  Submit(j) \/ RequestStep(j) \/ ApiCrash(j)
  <2> USE DEF requestVars
  <2>1. ASSUME NEW i \in Jobs, Submit(i) \/ RequestStep(i) \/ ApiCrash(i)
        PROVE  i = j
    BY <1>1, <1>4, <2>1
    DEF Submit, RequestStep, RegisterJob, Dispatch, MarkDispatchFailed,
        RecordDispatchError, RequestAttempt, ApiCrash
  <2>2. ASSUME NEW i \in Jobs, ClientUpload(i) \/ SourceDisappears(i)
        PROVE  FALSE
    BY <1>4, <2>2 DEF ClientUpload, SourceDisappears
  <2>3. ASSUME NEW w \in Workers, WorkerStep(w) \/ Interruption(w)
        PROVE  FALSE
    BY <1>4, <2>3
    DEF WorkerStep, Receive, MarkProcessing, Download, Process, Upload, StoreResult,
        MarkCompleted, ObserveEndToEnd, ScheduleRetry, MarkFailed, RecordError,
        Acknowledge, Interruption, WorkerCrash, Disconnect, SoftTimeLimit,
        LimitInPipeline, LimitInRetry, LimitInOnFailure, HardTimeLimit
  <2>4. ~UNCHANGED vars
    BY <1>4 DEF vars
  <2> QED
    BY <2>1, <2>2, <2>3, <2>4 DEF Next, Rest
<1>5. ASSUME NEW j \in Jobs, request'[j] = "none"
      PROVE  status'[j] = "absent"
  <2>1. request[j] = "none"
    BY <1>1, <1>4, <1>5
    DEF Submit, RequestStep, RegisterJob, Dispatch, MarkDispatchFailed,
        RecordDispatchError, RequestAttempt, AfterAttempt, ApiCrash
  <2> QED
    BY <1>3, <1>5, <2>1 DEF RefusedInv, RegisterJob, MarkDispatchFailed
<1>6. ASSUME NEW j \in Jobs, request'[j] = "record_error"
      PROVE  status'[j] = "failed"
  <2>1. CASE request[j] = "record_error"
    BY <1>3, <1>6, <2>1 DEF RefusedInv, RegisterJob, MarkDispatchFailed
  <2>2. CASE request[j] # "record_error"
    <3>1. MarkDispatchFailed(j)
      BY <1>1, <1>4, <1>6, <2>2
      DEF Submit, RequestStep, RegisterJob, Dispatch, RecordDispatchError,
          RequestAttempt, AfterAttempt, ApiCrash
    <3>2. PICK applied \in BOOLEAN, replied \in BOOLEAN :
            /\ RedisAttempt(applied, replied)
            /\ UpdateStatus(j, "failed", applied)
            /\ RequestAttempt(j, replied, "record_error", "internal_error")
      BY <3>1 DEF MarkDispatchFailed
    <3>3. request[j] = "mark_failed"
      BY <3>1 DEF MarkDispatchFailed
    <3>4. replied /\ applied
      BY <1>1, <1>6, <3>2, <3>3 DEF RequestAttempt, AfterAttempt, RedisAttempt
    <3> QED
      BY <1>1, <3>2, <3>4 DEF UpdateStatus
  <2> QED
    BY <2>1, <2>2
<1>7. ASSUME NEW j \in Jobs, request'[j] = "unavailable"
      PROVE  status'[j] \in {"absent", "failed"}
  <2>1. request[j] \in {"unavailable", "record_error", "none"}
    BY <1>1, <1>4, <1>7
    DEF Submit, RequestStep, RegisterJob, Dispatch, MarkDispatchFailed,
        RecordDispatchError, RequestAttempt, AfterAttempt, ApiCrash
  <2> QED
    BY <1>3, <1>7, <2>1 DEF RefusedInv, RegisterJob, MarkDispatchFailed
<1> QED
  BY <1>1, <1>2, <1>5, <1>6, <1>7 DEF RefusedInv

(***************************************************************************)
(* A submission answered 503 has no work behind it, and what Redis tells a *)
(* poll is that the job failed or is not known, whatever else fails.       *)
(***************************************************************************)
THEOREM RefusedIsOver ==
    ASSUME RaisedIsUnsent
    PROVE  Spec => []RefusedNeverRuns
<1>1. Init => RefusedInv
  BY TypeInit
  DEF Init, StoreInit, QueueInit, RefusedInv, Underway, Waiting, WorkedOn
<1>2. RefusedInv /\ [Next]_vars => RefusedInv'
  BY RefusedStep
<1>3. RefusedInv => RefusedNeverRuns
  BY DEF RefusedInv, RefusedNeverRuns, Underway
<1> QED
  BY <1>1, <1>2, <1>3, PTL DEF Spec

-----------------------------------------------------------------------------
(***************************************************************************)
(* One run at a time.  A job is run twice at once only if its message is   *)
(* duplicated: by a publish that is repeated after it was sent, or by a    *)
(* delivery that is given back while its task goes on or has retried; or   *)
(* if a task that has retried goes on, to record that it was too slow.     *)
(***************************************************************************)
RunsOnce ==
    Faults \intersect {"api_broker_dup", "late_soft_limit", "crash", "disconnect"} = {}

\* A job is in one place: with its request, in one message, or in one task.
TokenInv ==
    /\ TypeOK
    /\ \A j \in Jobs : request[j] # "accepted" => ~Underway(j)
    /\ \A m, n \in Message :
         ready[m] > 0 /\ ready[n] > 0 /\ m.job = n.job => m = n /\ ready[m] = 1
    /\ \A m \in Message, w \in Workers :
         ready[m] > 0 /\ pc[w] \in InTask => Job(w) # m.job
    /\ SingleRun

(***************************************************************************)
(* The part of the invariant about the requests needs no new argument.     *)
(***************************************************************************)
LEMMA RequestHoldsToken ==
    ASSUME RunsOnce, TokenInv, [Next]_vars, NEW j \in Jobs, request'[j] # "accepted"
    PROVE  request[j] # "accepted" /\ ~Underway(j)'
<1>1. request[j] # "accepted"
  BY AnswersStay DEF TokenInv, Replied
<1> QED
  BY <1>1, WorkIsAccepted DEF TokenInv, RunsOnce, RaisedIsUnsent

(***************************************************************************)
(* A step that queues nothing and starts no task keeps the token.          *)
(***************************************************************************)
LEMMA TokenStays ==
    ASSUME RunsOnce, TokenInv, [Next]_vars, UNCHANGED ready,
           \A w \in Workers : pc'[w] \in InTask => pc[w] \in InTask /\ msg'[w] = msg[w]
    PROVE  TokenInv'
<1>1. TypeOK'
  BY TypeStep DEF TokenInv
<1>2. \A w \in Workers : pc'[w] \in InTask => Job(w)' = Job(w)
  BY DEF Job
<1> QED
  BY <1>1, <1>2, RequestHoldsToken DEF TokenInv, SingleRun

\* Every step leaves a job at most one token: its message or its worker.
LEMMA TokenStep == RunsOnce /\ TokenInv /\ [Next]_vars => TokenInv'
<1> SUFFICES ASSUME RunsOnce, TokenInv, [Next]_vars
             PROVE  TokenInv'
  OBVIOUS
<1> USE DEF queueVars, workerVars
<1>1. /\ TypeOK /\ TypeOK'
      /\ ready \in [Message -> Nat]
      /\ pc \in [Workers -> WorkerPlace]
      /\ msg \in [Workers -> Message \union {NoMsg}]
  BY TypeStep DEF TokenInv, TypeOK
<1>2. \A j \in Jobs : request'[j] # "accepted" => ~Underway(j)'
  BY RequestHoldsToken
<1>3. ASSUME NEW j \in Jobs,
             \/ ClientUpload(j) \/ SourceDisappears(j) \/ Submit(j) \/ ApiCrash(j)
             \/ RegisterJob(j) \/ MarkDispatchFailed(j) \/ RecordDispatchError(j)
      PROVE  TokenInv'
  <2>1. UNCHANGED <<ready, pc, msg>>
    BY <1>3
    DEF ClientUpload, SourceDisappears, Submit, ApiCrash, RegisterJob,
        MarkDispatchFailed, RecordDispatchError
  <2> QED
    BY <2>1, TokenStays
<1>4. ASSUME NEW j \in Jobs, Dispatch(j)
      PROVE  TokenInv'
  <2> DEFINE m == [job |-> j, retries |-> 0]
  <2>1. PICK sent \in BOOLEAN : Publish(m, sent)
    BY <1>4 DEF Dispatch
  <2>2. UNCHANGED <<pc, msg>> /\ request[j] = "dispatch"
    BY <1>4 DEF Dispatch
  <2>3. m \in Message /\ m.job = j
    BY MaxRetriesAssumption DEF Message
  <2>4. CASE ~sent
    BY <2>1, <2>2, <2>4, TokenStays DEF Publish
  <2>5. CASE sent
    <3>1. ~Underway(j)
      BY <2>2 DEF TokenInv
    <3>2. /\ \A n \in Message : ready[n] > 0 => n.job # j
          /\ \A w \in Workers : pc[w] \in InTask => Job(w) # j
      BY <3>1 DEF Underway, Waiting, WorkedOn, InTask, Pipeline
    <3>3. ready[m] = 0
      BY <1>1, <2>3, <3>2
    <3>4. /\ ready'[m] = 1
          /\ \A n \in Message : n # m => ready'[n] = ready[n]
      BY <1>1, <2>1, <2>3, <2>5, <3>3 DEF Publish, Enqueue
    <3>5. \A n \in Message, o \in Message :
            ready'[n] > 0 /\ ready'[o] > 0 /\ n.job = o.job => n = o /\ ready'[n] = 1
      BY <2>3, <3>2, <3>4 DEF TokenInv
    <3>6. \A n \in Message, w \in Workers :
            ready'[n] > 0 /\ pc'[w] \in InTask => Job(w)' # n.job
      BY <2>2, <2>3, <3>2, <3>4 DEF TokenInv, Job
    <3>7. SingleRun'
      BY <2>2 DEF TokenInv, SingleRun, Job
    <3> QED
      BY <1>1, <1>2, <3>5, <3>6, <3>7 DEF TokenInv
  <2> QED
    BY <2>4, <2>5
<1>5. ASSUME NEW w \in Workers, Receive(w)
      PROVE  TokenInv'
  <2>1. PICK m \in Message : Deliver(m) /\ msg' = [msg EXCEPT ![w] = m]
    BY <1>5 DEF Receive
  <2>2. /\ pc' = [pc EXCEPT ![w] = "mark_processing"]
        /\ \A v \in Workers : v # w => pc'[v] = pc[v] /\ msg'[v] = msg[v]
        /\ msg'[w] = m
    BY <1>1, <1>5, <2>1 DEF Receive
  <2>3. /\ ready[m] = 1 /\ ready'[m] = 0
        /\ \A n \in Message : n # m => ready'[n] = ready[n]
    <3>1. ready[m] > 0 /\ ready' = [ready EXCEPT ![m] = @ - 1]
      BY <2>1 DEF Deliver
    <3>2. ready[m] = 1
      BY <3>1 DEF TokenInv
    <3> QED
      BY <1>1, <3>1, <3>2
  <2>4. /\ \A n \in Message : n.job = m.job => ready'[n] = 0
        /\ \A v \in Workers : v # w /\ pc'[v] \in InTask => Job(v) # m.job
    BY <1>1, <2>2, <2>3 DEF TokenInv
  <2>5. \A n \in Message, o \in Message :
          ready'[n] > 0 /\ ready'[o] > 0 /\ n.job = o.job => n = o /\ ready'[n] = 1
    BY <1>1, <2>3 DEF TokenInv
  <2>6. \A n \in Message, v \in Workers :
          ready'[n] > 0 /\ pc'[v] \in InTask => Job(v)' # n.job
    BY <1>1, <2>2, <2>3, <2>4 DEF TokenInv, Job
  <2>7. SingleRun'
    BY <2>2, <2>4 DEF TokenInv, SingleRun, Job
  <2> QED
    BY <1>1, <1>2, <2>5, <2>6, <2>7 DEF TokenInv
<1>6. ASSUME NEW w \in Workers, ScheduleRetry(w)
      PROVE  TokenInv'
  <2> DEFINE m == [msg[w] EXCEPT !.retries = @ + 1]
  <2>1. PICK sent \in BOOLEAN : Publish(m, sent)
    BY <1>6 DEF ScheduleRetry
  <2>2. /\ UNCHANGED msg /\ pc[w] = "retry" /\ pc' = [pc EXCEPT ![w] = "ack"]
        /\ "retry" \in InTask /\ "ack" \notin InTask
    BY <1>6 DEF ScheduleRetry, InTask, Pipeline
  <2>3. m.job = Job(w)
    BY <1>1, <2>2, BusyHasMessage DEF Message, Job
  <2> HIDE DEF m
  <2>4. CASE ~sent \/ m \notin Message
    <3>1. UNCHANGED ready
      BY <1>1, <2>1, <2>4 DEF Publish, Enqueue
    <3> QED
      BY <1>1, <2>2, <3>1, TokenStays
  <2>5. CASE sent /\ m \in Message
    <3>1. /\ \A n \in Message : ready[n] > 0 => n.job # m.job
          /\ \A v \in Workers : pc'[v] \in InTask => pc[v] \in InTask /\ Job(v) # m.job
      BY <1>1, <2>2, <2>3 DEF TokenInv, SingleRun
    <3>2. /\ ready'[m] = 1
          /\ \A n \in Message : n # m => ready'[n] = ready[n]
      BY <1>1, <2>1, <2>5, <3>1 DEF Publish, Enqueue
    <3>3. \A n \in Message, o \in Message :
            ready'[n] > 0 /\ ready'[o] > 0 /\ n.job = o.job => n = o /\ ready'[n] = 1
      BY <2>5, <3>1, <3>2 DEF TokenInv
    <3>4. \A n \in Message, v \in Workers :
            ready'[n] > 0 /\ pc'[v] \in InTask => Job(v)' # n.job
      BY <2>2, <2>5, <3>1, <3>2 DEF TokenInv, Job
    <3>5. SingleRun'
      BY <2>2, <3>1 DEF TokenInv, SingleRun, Job
    <3> QED
      BY <1>1, <1>2, <3>3, <3>4, <3>5 DEF TokenInv
  <2> QED
    BY <2>4, <2>5
<1>7. ASSUME NEW w \in Workers,
             \/ MarkProcessing(w) \/ Download(w) \/ Process(w) \/ Upload(w)
             \/ StoreResult(w) \/ MarkCompleted(w) \/ ObserveEndToEnd(w)
             \/ MarkFailed(w) \/ RecordError(w) \/ LimitInPipeline(w)
      PROVE  TokenInv'
  <2>1. UNCHANGED <<ready, msg>> /\ pc[w] \in InTask
    BY <1>7
    DEF MarkProcessing, Download, Process, Upload, StoreResult, MarkCompleted,
        ObserveEndToEnd, MarkFailed, RecordError, LimitInPipeline, InTask, Pipeline
  <2>2. \A v \in Workers : v # w => pc'[v] = pc[v]
    BY <1>1, <1>7
    DEF MarkProcessing, Download, Process, Upload, StoreResult, MarkCompleted,
        ObserveEndToEnd, MarkFailed, RecordError, LimitInPipeline, TaskAttempt
  <2> QED
    BY <2>1, <2>2, TokenStays
<1>8. ASSUME NEW w \in Workers, Acknowledge(w) \/ HardTimeLimit(w)
      PROVE  TokenInv'
  <2>1. Release(w) /\ UNCHANGED ready
    BY <1>8 DEF Acknowledge, HardTimeLimit
  <2>2. "idle" \notin InTask
    BY DEF InTask, Pipeline
  <2> QED
    BY <1>1, <2>1, <2>2, TokenStays DEF Release
<1>9. ASSUME NEW w \in Workers
      PROVE  /\ ~WorkerCrash(w) /\ ~Disconnect(w)
             /\ ~LimitInRetry(w) /\ ~LimitInOnFailure(w)
  BY DEF RunsOnce, WorkerCrash, Disconnect, LimitInRetry, LimitInOnFailure
<1>10. CASE UNCHANGED vars
  BY <1>10, TokenStays DEF vars
<1> QED
  BY <1>3, <1>4, <1>5, <1>6, <1>7, <1>8, <1>9, <1>10
  DEF Next, RequestStep, WorkerStep, Interruption, SoftTimeLimit, Rest

\* No job has a token at first.
LEMMA TokenInitially == Init => TokenInv
  BY TypeInit
  DEF Init, QueueInit, TokenInv, Underway, Waiting, WorkedOn, SingleRun, InTask, Pipeline

(***************************************************************************)
(* No two workers run one job at the same time, also while the retry of a  *)
(* task waits in the queue and the task is not yet acknowledged: for any   *)
(* number of workers and retries, lost publishes, lost replies of Redis    *)
(* and S3, time limits and crashes of the API included.                    *)
(***************************************************************************)
THEOREM OneRunAtATime ==
    ASSUME RunsOnce
    PROVE  Spec => []SingleRun
<1>1. TokenInv /\ [Next]_vars => TokenInv'
  BY TokenStep
<1>2. TokenInv => SingleRun
  BY DEF TokenInv
<1> QED
  BY <1>1, <1>2, TokenInitially, PTL DEF Spec

-----------------------------------------------------------------------------
(***************************************************************************)
(* The objects of a job.  Only the run of the job adds to them, so that    *)
(* every attempt can be charged with what it has uploaded so far.          *)
(***************************************************************************)
BeforeUpload == {"mark_processing", "download", "process"}

\* What the attempts before the one of w may have left behind.
Earlier(w) == msg[w].retries * Outputs[Job(w)]

\* What the attempt of w itself may have added.
Added(w) ==
    IF pc[w] \in BeforeUpload THEN 0
    ELSE IF pc[w] = "upload" THEN Cardinality(outputs[w])
    ELSE Outputs[Job(w)]

BudgetInv ==
    /\ TokenInv
    /\ ReportInv
    /\ \A j \in Jobs : request[j] # "accepted" => objects[j] = 0
    /\ \A m \in Message : ready[m] > 0 => objects[m.job] <= m.retries * Outputs[m.job]
    /\ \A w \in Workers : pc[w] \in InTask => objects[Job(w)] <= Earlier(w) + Added(w)
    /\ ObjectBudget

(***************************************************************************)
(* A set of outputs more per retry, and no more than MaxRetries of them.   *)
(***************************************************************************)
LEMMA AttemptsAddUp ==
    ASSUME NEW r \in 0..MaxRetries, NEW n \in Nat
    PROVE  /\ r * n \in Nat
           /\ (r + 1) * n = r * n + n
           /\ r * n + n <= (MaxRetries + 1) * n
<1>1. MaxRetries \in Nat /\ r \in Nat /\ r <= MaxRetries
  BY MaxRetriesAssumption
<1>2. PICK d \in Nat : MaxRetries = r + d
  BY <1>1, MaxRetries - r \in Nat
<1>3. d * n \in Nat /\ (r + 1) * n = r * n + n /\ r * n \in Nat
  BY <1>1
<1>4. (MaxRetries + 1) * n = (r * n + n) + d * n
  BY <1>1, <1>2
<1> QED
  BY <1>3, <1>4

\* The objects of the attempts before the one in hand, and of this one.
LEMMA AttemptOfWorker ==
    ASSUME ReportInv, NEW w \in Workers, pc[w] \in InTask
    PROVE  /\ Job(w) \in Jobs
           /\ Outputs[Job(w)] \in Nat \ {0}
           /\ objects[Job(w)] \in Nat
           /\ Earlier(w) \in Nat
           /\ (msg[w].retries + 1) * Outputs[Job(w)] = Earlier(w) + Outputs[Job(w)]
           /\ Earlier(w) + Outputs[Job(w)] <= (MaxRetries + 1) * Outputs[Job(w)]
           /\ Added(w) \in 0..Outputs[Job(w)]
           /\ pc[w] = "upload" =>
                Cardinality(outputs[w]) \in Nat /\ Added(w) < Outputs[Job(w)]
<1>1. TypeOK /\ pc[w] # "idle" /\ Reportable(w)
  BY DEF ReportInv, InTask, Pipeline
<1>2. msg[w] \in Message /\ Job(w) \in Jobs /\ msg[w].retries \in 0..MaxRetries
  BY <1>1, BusyHasMessage DEF Message
<1>3. Outputs[Job(w)] \in Nat \ {0} /\ objects[Job(w)] \in Nat
  BY <1>1, <1>2, OutputsAssumption DEF TypeOK
<1>4. /\ Earlier(w) \in Nat
      /\ (msg[w].retries + 1) * Outputs[Job(w)] = Earlier(w) + Outputs[Job(w)]
      /\ Earlier(w) + Outputs[Job(w)] <= (MaxRetries + 1) * Outputs[Job(w)]
  <2> HIDE DEF Job
  <2> QED
    BY <1>2, <1>3, AttemptsAddUp DEF Earlier
<1>5. CASE pc[w] = "upload"
  <2>1. outputs[w] \subseteq 1..objects[Job(w)] /\ Cardinality(outputs[w]) < Outputs[Job(w)]
    BY <1>1, <1>5 DEF Reportable
  <2>2. Cardinality(outputs[w]) \in Nat
    BY <1>3, <2>1, FreshKeyCounts
  <2>3. Added(w) = Cardinality(outputs[w])
    BY <1>5 DEF Added, BeforeUpload
  <2>4. Added(w) \in 0..Outputs[Job(w)] /\ Added(w) < Outputs[Job(w)]
    BY <1>3, <2>1, <2>2, <2>3
  <2> QED
    BY <1>2, <1>3, <1>4, <2>2, <2>4
<1>6. CASE pc[w] # "upload"
  <2>1. Added(w) \in 0..Outputs[Job(w)]
    BY <1>3, <1>6 DEF Added
  <2> QED
    BY <1>2, <1>3, <1>4, <1>6, <2>1
<1> QED
  BY <1>5, <1>6

(***************************************************************************)
(* A step that uploads nothing keeps the budget, if what it queues and     *)
(* what it lets workers go on with is within their share.                  *)
(***************************************************************************)
LEMMA BudgetKept ==
    ASSUME RunsOnce, BudgetInv, [Next]_vars, UNCHANGED objects,
           \A m \in Message : ready'[m] > 0 =>
               ready[m] > 0 \/ objects[m.job] <= m.retries * Outputs[m.job],
           \A w \in Workers : pc'[w] \in InTask =>
               objects[Job(w)'] <= Earlier(w)' + Added(w)'
    PROVE  BudgetInv'
<1>1. TokenInv' /\ ReportInv'
  BY TokenStep, ReportStep DEF BudgetInv
<1>2. \A j \in Jobs : request'[j] # "accepted" => objects'[j] = 0
  BY RequestHoldsToken DEF BudgetInv
<1> QED
  BY <1>1, <1>2 DEF BudgetInv, ObjectBudget

(***************************************************************************)
(* A task that goes on without uploading, and is not at the upload, has at *)
(* least the share it had.                                                 *)
(***************************************************************************)
LEMMA ShareGrows ==
    ASSUME RunsOnce, BudgetInv, [Next]_vars, UNCHANGED <<objects, ready>>,
           NEW w \in Workers, pc[w] \in InTask, msg'[w] = msg[w],
           \A v \in Workers : v # w =>
               pc'[v] = pc[v] /\ msg'[v] = msg[v] /\ outputs'[v] = outputs[v],
           \/ pc'[w] \notin BeforeUpload \union {"upload"}
           \/ pc[w] \in BeforeUpload /\ pc'[w] \in BeforeUpload
           \/ pc[w] \in BeforeUpload /\ pc'[w] = "upload" /\ outputs'[w] = {}
    PROVE  BudgetInv'
<1>1. ASSUME NEW v \in Workers, v # w, pc'[v] \in InTask
      PROVE  objects[Job(v)'] <= Earlier(v)' + Added(v)'
  <2>1. /\ Job(v)' = Job(v) /\ Earlier(v)' = Earlier(v) /\ Added(v)' = Added(v)
        /\ pc[v] \in InTask
    BY <1>1 DEF Job, Earlier, Added
  <2> QED
    BY <2>1 DEF BudgetInv
<1>2. objects[Job(w)'] <= Earlier(w)' + Added(w)'
  <2>1. Job(w)' = Job(w) /\ Earlier(w)' = Earlier(w)
    BY DEF Job, Earlier
  <2>2. /\ objects[Job(w)] <= Earlier(w) + Added(w)
        /\ objects[Job(w)] \in Nat /\ Earlier(w) \in Nat
        /\ Outputs[Job(w)] \in Nat /\ Added(w) \in 0..Outputs[Job(w)]
    BY AttemptOfWorker DEF BudgetInv
  <2>3. Added(w)' \in Nat /\ Added(w)' >= Added(w)
    <3>1. CASE pc'[w] \notin BeforeUpload \union {"upload"}
      <4>1. Added(w)' = Outputs[Job(w)]
        BY <2>1, <3>1 DEF Added
      <4> QED
        BY <2>2, <4>1
    <3>2. CASE pc[w] \in BeforeUpload /\ pc'[w] \in BeforeUpload
      BY <3>2 DEF Added
    <3>3. CASE pc[w] \in BeforeUpload /\ pc'[w] = "upload" /\ outputs'[w] = {}
      BY <3>3, FS_EmptySet DEF Added, BeforeUpload
    <3> QED
      BY <3>1, <3>2, <3>3
  <2> HIDE DEF Job, Earlier, Added
  <2> QED
    BY <2>1, <2>2, <2>3
<1> QED
  BY <1>1, <1>2, BudgetKept

(***************************************************************************)
(* An upload is charged to the attempt of the one worker that runs the     *)
(* job, also the upload whose reply is lost and which ends the attempt.    *)
(***************************************************************************)
LEMMA UploadIsCharged ==
    ASSUME RunsOnce, BudgetInv, [Next]_vars, NEW w \in Workers, Upload(w)
    PROVE  BudgetInv'
<1> DEFINE j == Job(w)
           n == objects[j]
           uploaded == outputs[w] \union {n + 1}
<1>1. PICK applied \in BOOLEAN, replied \in BOOLEAN :
        /\ replied => applied
        /\ objects' = IF applied THEN [objects EXCEPT ![j] = n + 1] ELSE objects
        /\ outputs' = [outputs EXCEPT ![w] = IF replied THEN uploaded ELSE {}]
        /\ pc' = [pc EXCEPT
             ![w] = IF ~replied THEN OnTransient(w)
                    ELSE IF Cardinality(uploaded) < Outputs[j] THEN @
                    ELSE "store_result"]
  BY DEF Upload, S3Attempt, UploadFile, FreshKey
<1>2. /\ UNCHANGED <<msg, ready, request>>
      /\ pc[w] = "upload" /\ pc[w] \in InTask
      /\ Job(w)' = j /\ Earlier(w)' = Earlier(w)
  BY DEF Upload, Job, Earlier, InTask, Pipeline, queueVars, requestVars
<1>3. /\ pc \in [Workers -> WorkerPlace]
      /\ outputs \in [Workers -> SUBSET (Nat \ {0})]
      /\ objects \in [Jobs -> Nat]
      /\ OnTransient(w) \notin BeforeUpload \union {"upload"}
  BY DEF BudgetInv, TokenInv, TypeOK, OnTransient, BeforeUpload
<1>4. /\ j \in Jobs /\ n \in Nat /\ Outputs[j] \in Nat \ {0} /\ Earlier(w) \in Nat
      /\ Earlier(w) + Outputs[j] <= (MaxRetries + 1) * Outputs[j]
      /\ Cardinality(outputs[w]) \in Nat /\ Cardinality(outputs[w]) < Outputs[j]
      /\ n <= Earlier(w) + Cardinality(outputs[w])
  <2>1. Added(w) = Cardinality(outputs[w])
    BY <1>2 DEF Added, BeforeUpload
  <2>2. n <= Earlier(w) + Added(w)
    BY <1>2 DEF BudgetInv
  <2> QED
    BY <1>2, <2>1, <2>2, AttemptOfWorker DEF BudgetInv
<1>5. /\ uploaded \subseteq 1..(n + 1)
      /\ Cardinality(uploaded) = Cardinality(outputs[w]) + 1
  <2>1. outputs[w] \subseteq 1..n
    BY <1>2 DEF BudgetInv, ReportInv, Reportable
  <2> QED
    BY <1>4, <2>1, FreshKeyCounts
<1>6. /\ objects'[j] \in Nat /\ objects'[j] <= n + 1
      /\ \A i \in Jobs : i # j => objects'[i] = objects[i]
      /\ outputs'[w] = IF replied THEN uploaded ELSE {}
      /\ \A v \in Workers : v # w => pc'[v] = pc[v] /\ outputs'[v] = outputs[v]
  BY <1>1, <1>3, <1>4
<1> HIDE DEF uploaded, n, j
<1>7. objects'[j] <= Earlier(w) + Added(w)'
  <2>1. CASE replied /\ Cardinality(uploaded) < Outputs[j]
    <3>1. pc'[w] = "upload"
      BY <1>1, <1>2, <1>3, <2>1
    <3>2. Added(w)' = Cardinality(uploaded)
      BY <1>6, <2>1, <3>1 DEF Added, BeforeUpload
    <3> QED
      BY <1>4, <1>5, <1>6, <3>2
  <2>2. CASE ~(replied /\ Cardinality(uploaded) < Outputs[j])
    <3>1. pc'[w] \in {"store_result", OnTransient(w)}
      BY <1>1, <1>3, <2>2
    <3>2. Added(w)' = Outputs[j]
      BY <1>2, <1>3, <3>1 DEF Added, BeforeUpload
    <3> QED
      BY <1>4, <1>6, <3>2
  <2> QED
    BY <2>1, <2>2
<1>8. TokenInv' /\ ReportInv'
  BY TokenStep, ReportStep DEF BudgetInv
<1>9. \A i \in Jobs : request'[i] # "accepted" => i # j /\ objects'[i] = 0
  <2>1. request[j] = "accepted"
    BY <1>2, <1>4 DEF BudgetInv, TokenInv, Underway, WorkedOn, InTask, Pipeline, j
  <2> QED
    BY <1>2, <1>6, <2>1 DEF BudgetInv
<1>10. \A m \in Message : ready'[m] > 0 => objects'[m.job] <= m.retries * Outputs[m.job]
  <2>1. \A m \in Message : ready[m] > 0 => m.job # j /\ m.job \in Jobs
    BY <1>2 DEF BudgetInv, TokenInv, Message, j
  <2> QED
    BY <1>2, <1>6, <2>1 DEF BudgetInv
<1>11. ASSUME NEW v \in Workers, pc'[v] \in InTask
       PROVE  objects'[Job(v)'] <= Earlier(v)' + Added(v)'
  <2>1. CASE v = w
    BY <1>2, <1>7, <2>1
  <2>2. CASE v # w
    <3>1. /\ pc[v] \in InTask /\ Job(v)' = Job(v)
          /\ Earlier(v)' = Earlier(v) /\ Added(v)' = Added(v)
      BY <1>2, <1>6, <1>11, <2>2 DEF Job, Earlier, Added
    <3>2. Job(v) # j /\ Job(v) \in Jobs
      BY <1>2, <2>2, <3>1, AttemptOfWorker DEF BudgetInv, TokenInv, SingleRun, j
    <3>3. objects[Job(v)] <= Earlier(v) + Added(v)
      BY <3>1 DEF BudgetInv
    <3> QED
      BY <1>6, <3>1, <3>2, <3>3
  <2> QED
    BY <2>1, <2>2
<1>12. ObjectBudget'
  <2>1. objects'[j] <= (MaxRetries + 1) * Outputs[j]
    <3>1. objects'[j] <= Earlier(w) + Outputs[j]
      BY <1>4, <1>6
    <3>2. (MaxRetries + 1) * Outputs[j] \in Int
      BY <1>4, MaxRetriesAssumption
    <3> QED
      BY <1>4, <1>6, <3>1, <3>2
  <2> QED
    BY <1>6, <2>1 DEF BudgetInv, ObjectBudget
<1> QED
  BY <1>8, <1>9, <1>10, <1>11, <1>12 DEF BudgetInv

\* Every step leaves the objects of a job within those of its attempts so far.
LEMMA BudgetStep == RunsOnce /\ BudgetInv /\ [Next]_vars => BudgetInv'
<1> SUFFICES ASSUME RunsOnce, BudgetInv, [Next]_vars
             PROVE  BudgetInv'
  OBVIOUS
<1> USE DEF bucketVars, queueVars, workerVars
<1>1. /\ TypeOK /\ ReportInv /\ TokenInv
      /\ ready \in [Message -> Nat]
      /\ pc \in [Workers -> WorkerPlace]
      /\ msg \in [Workers -> Message \union {NoMsg}]
      /\ outputs \in [Workers -> SUBSET (Nat \ {0})]
      /\ objects \in [Jobs -> Nat]
  BY DEF BudgetInv, TokenInv, TypeOK
<1>2. \A w \in Workers : OnTransient(w) \in {"retry", "mark_failed"}
  BY DEF OnTransient
<1>3. ASSUME UNCHANGED <<objects, pc, msg, outputs>>,
             \A m \in Message : ready'[m] > 0 =>
                 ready[m] > 0 \/ objects[m.job] <= m.retries * Outputs[m.job]
      PROVE  BudgetInv'
  <2>1. ASSUME NEW w \in Workers, pc'[w] \in InTask
        PROVE  objects[Job(w)'] <= Earlier(w)' + Added(w)'
    <3>1. /\ pc[w] \in InTask /\ Job(w)' = Job(w)
          /\ Earlier(w)' = Earlier(w) /\ Added(w)' = Added(w)
      BY <1>3, <2>1 DEF Job, Earlier, Added
    <3> QED
      BY <3>1 DEF BudgetInv
  <2> QED
    BY <1>3, <2>1, BudgetKept
<1>4. ASSUME NEW j \in Jobs,
             \/ ClientUpload(j) \/ SourceDisappears(j) \/ Submit(j) \/ ApiCrash(j)
             \/ RegisterJob(j) \/ MarkDispatchFailed(j) \/ RecordDispatchError(j)
      PROVE  BudgetInv'
  <2>1. UNCHANGED <<objects, ready, pc, msg, outputs>>
    BY <1>4
    DEF ClientUpload, PutSource, SourceDisappears, DeleteSource, Submit, ApiCrash,
        RegisterJob, MarkDispatchFailed, RecordDispatchError
  <2> QED
    BY <1>3, <2>1
<1>5. ASSUME NEW j \in Jobs, Dispatch(j)
      PROVE  BudgetInv'
  <2> DEFINE m == [job |-> j, retries |-> 0]
  <2>1. PICK sent \in BOOLEAN : Publish(m, sent)
    BY <1>5 DEF Dispatch
  <2>2. UNCHANGED <<objects, pc, msg, outputs>> /\ request[j] = "dispatch"
    BY <1>5 DEF Dispatch
  <2>3. m \in Message /\ m.job = j /\ m.retries = 0
    BY MaxRetriesAssumption DEF Message
  <2>4. objects[m.job] <= m.retries * Outputs[m.job]
    <3>1. objects[j] = 0 /\ Outputs[j] \in Nat
      BY <2>2, OutputsAssumption DEF BudgetInv
    <3> QED
      BY <2>3, <3>1
  <2> HIDE DEF m
  <2>5. \A n \in Message : ready'[n] > 0 => ready[n] > 0 \/ n = m
    BY <1>1, <2>1, <2>3 DEF Publish, Enqueue
  <2> QED
    BY <1>3, <2>2, <2>4, <2>5
<1>6. ASSUME NEW w \in Workers, Receive(w)
      PROVE  BudgetInv'
  <2>1. PICK m \in Message : Deliver(m) /\ msg' = [msg EXCEPT ![w] = m]
    BY <1>6 DEF Receive
  <2>2. /\ pc' = [pc EXCEPT ![w] = "mark_processing"]
        /\ UNCHANGED <<objects, outputs>>
    BY <1>6 DEF Receive
  <2>3. ready[m] > 0 /\ \A n \in Message : ready'[n] > 0 => ready[n] > 0
    BY <1>1, <2>1 DEF Deliver
  <2>4. ASSUME NEW v \in Workers, pc'[v] \in InTask
        PROVE  objects[Job(v)'] <= Earlier(v)' + Added(v)'
    <3>1. CASE v = w
      <4>1. Job(v)' = m.job /\ Earlier(v)' = m.retries * Outputs[m.job] /\ Added(v)' = 0
        BY <1>1, <2>1, <2>2, <3>1 DEF Job, Earlier, Added, BeforeUpload
      <4>2. objects[m.job] <= m.retries * Outputs[m.job] + 0
        <5>1. /\ objects[m.job] <= m.retries * Outputs[m.job]
              /\ m.retries \in 0..MaxRetries /\ Outputs[m.job] \in Nat
          BY <2>3, OutputsAssumption DEF BudgetInv, Message
        <5>2. m.retries * Outputs[m.job] \in Nat
          BY <5>1, AttemptsAddUp
        <5> QED
          BY <5>1, <5>2
      <4> QED
        BY <4>1, <4>2
    <3>2. CASE v # w
      <4>1. /\ pc[v] \in InTask /\ Job(v)' = Job(v)
            /\ Earlier(v)' = Earlier(v) /\ Added(v)' = Added(v)
        BY <1>1, <2>1, <2>2, <2>4, <3>2 DEF Job, Earlier, Added
      <4> QED
        BY <4>1 DEF BudgetInv
    <3> QED
      BY <3>1, <3>2
  <2> QED
    BY <2>2, <2>3, <2>4, BudgetKept
<1>7. ASSUME NEW w \in Workers, pc[w] \in InTask,
             UNCHANGED <<objects, ready, msg>>,
             NEW to, pc' = [pc EXCEPT ![w] = to],
             \/ UNCHANGED outputs \/ outputs' = [outputs EXCEPT ![w] = {}],
             \/ to \notin BeforeUpload \union {"upload"}
             \/ pc[w] \in BeforeUpload /\ to \in BeforeUpload \union {"upload"}
      PROVE  BudgetInv'
  <2>1. /\ pc'[w] = to
        /\ \A v \in Workers : v # w =>
             pc'[v] = pc[v] /\ msg'[v] = msg[v] /\ outputs'[v] = outputs[v]
    BY <1>1, <1>7
  <2>2. pc[w] \in BeforeUpload => outputs'[w] = {}
    BY <1>1, <1>7 DEF ReportInv, Reportable, BeforeUpload
  <2> QED
    BY <1>7, <2>1, <2>2, ShareGrows
<1>8. ASSUME NEW w \in Workers, MarkProcessing(w)
      PROVE  BudgetInv'
  <2>1. PICK to \in {"mark_processing", "download", OnTransient(w)} : pc' = [pc EXCEPT ![w] = to]
    BY <1>8 DEF MarkProcessing, TaskAttempt, AfterAttempt
  <2>2. UNCHANGED <<objects, ready, msg, outputs>> /\ pc[w] = "mark_processing"
    BY <1>8 DEF MarkProcessing
  <2> QED
    BY <1>2, <1>7, <2>1, <2>2 DEF BeforeUpload, InTask, Pipeline
<1>9. ASSUME NEW w \in Workers, Download(w)
      PROVE  BudgetInv'
  <2>1. PICK to \in {"process", OnTransient(w)} : pc' = [pc EXCEPT ![w] = to]
    BY <1>9 DEF Download
  <2>2. UNCHANGED <<objects, ready, msg, outputs>> /\ pc[w] = "download"
    BY <1>9 DEF Download
  <2> QED
    BY <1>2, <1>7, <2>1, <2>2 DEF BeforeUpload, InTask, Pipeline
<1>10. ASSUME NEW w \in Workers, Process(w)
       PROVE  BudgetInv'
  <2>1. PICK to \in {"upload", "mark_failed"} : pc' = [pc EXCEPT ![w] = to]
    BY <1>10 DEF Process
  <2>2. UNCHANGED <<objects, ready, msg, outputs>> /\ pc[w] = "process"
    BY <1>10 DEF Process
  <2> QED
    BY <1>7, <2>1, <2>2 DEF BeforeUpload, InTask, Pipeline
<1>11. ASSUME NEW w \in Workers,
              \/ StoreResult(w) \/ MarkCompleted(w) \/ ObserveEndToEnd(w)
              \/ MarkFailed(w) \/ RecordError(w) \/ LimitInPipeline(w)
       PROVE  BudgetInv'
  <2>1. /\ UNCHANGED <<objects, ready, msg>> /\ pc[w] \in InTask
        /\ UNCHANGED outputs \/ outputs' = [outputs EXCEPT ![w] = {}]
    BY <1>1, <1>11
    DEF StoreResult, MarkCompleted, ObserveEndToEnd, MarkFailed, RecordError,
        LimitInPipeline, InTask, Pipeline
  <2>2. \E to \in {"store_result", "mark_completed", "observe", "ack", "mark_failed",
                   "record_error", OnTransient(w)} : pc' = [pc EXCEPT ![w] = to]
    BY <1>11
    DEF StoreResult, MarkCompleted, ObserveEndToEnd, MarkFailed, RecordError,
        LimitInPipeline, TaskAttempt, AfterAttempt
  <2> QED
    BY <1>2, <1>7, <2>1, <2>2 DEF BeforeUpload
<1>12. ASSUME NEW w \in Workers, ScheduleRetry(w)
       PROVE  BudgetInv'
  <2> DEFINE m == [msg[w] EXCEPT !.retries = @ + 1]
  <2>1. PICK sent \in BOOLEAN : Publish(m, sent)
    BY <1>12 DEF ScheduleRetry
  <2>2. /\ UNCHANGED <<objects, msg, outputs>> /\ pc[w] = "retry"
        /\ pc' = [pc EXCEPT ![w] = "ack"]
        /\ pc[w] \in InTask /\ "ack" \notin InTask
    BY <1>12 DEF ScheduleRetry, InTask, Pipeline
  <2>3. m.job = Job(w) /\ m.retries = msg[w].retries + 1
    BY <1>1, <2>2, BusyHasMessage DEF Message, Job
  <2>4. objects[m.job] <= m.retries * Outputs[m.job]
    <3>1. Added(w) = Outputs[Job(w)]
      BY <2>2 DEF Added, BeforeUpload
    <3>2. objects[Job(w)] <= Earlier(w) + Added(w)
      BY <2>2 DEF BudgetInv
    <3>3. objects[Job(w)] <= (msg[w].retries + 1) * Outputs[Job(w)]
      BY <1>1, <2>2, <3>1, <3>2, AttemptOfWorker
    <3> QED
      BY <2>3, <3>3
  <2> HIDE DEF m
  <2>5. \A n \in Message : ready'[n] > 0 => ready[n] > 0 \/ n = m
    BY <1>1, <2>1 DEF Publish, Enqueue
  <2>6. ASSUME NEW v \in Workers, pc'[v] \in InTask
        PROVE  objects[Job(v)'] <= Earlier(v)' + Added(v)'
    <3>1. /\ pc[v] \in InTask /\ Job(v)' = Job(v)
          /\ Earlier(v)' = Earlier(v) /\ Added(v)' = Added(v)
      BY <1>1, <2>2, <2>6 DEF Job, Earlier, Added
    <3> QED
      BY <3>1 DEF BudgetInv
  <2> QED
    BY <2>2, <2>4, <2>5, <2>6, BudgetKept
<1>13. ASSUME NEW w \in Workers, Acknowledge(w) \/ HardTimeLimit(w)
       PROVE  BudgetInv'
  <2>1. Release(w) /\ UNCHANGED <<objects, ready>>
    BY <1>13 DEF Acknowledge, HardTimeLimit
  <2>2. ASSUME NEW v \in Workers, pc'[v] \in InTask
        PROVE  objects[Job(v)'] <= Earlier(v)' + Added(v)'
    <3>1. v # w
      BY <1>1, <2>1, <2>2 DEF Release, InTask, Pipeline
    <3>2. /\ pc[v] \in InTask /\ Job(v)' = Job(v)
          /\ Earlier(v)' = Earlier(v) /\ Added(v)' = Added(v)
      BY <1>1, <2>1, <2>2, <3>1 DEF Release, Job, Earlier, Added
    <3> QED
      BY <3>2 DEF BudgetInv
  <2> QED
    BY <2>1, <2>2, BudgetKept
<1>14. ASSUME NEW w \in Workers
       PROVE  /\ ~WorkerCrash(w) /\ ~Disconnect(w)
             /\ ~LimitInRetry(w) /\ ~LimitInOnFailure(w)
  BY DEF RunsOnce, WorkerCrash, Disconnect, LimitInRetry, LimitInOnFailure
<1>15. CASE UNCHANGED vars
  BY <1>3, <1>15 DEF vars
<1> QED
  BY <1>4, <1>5, <1>6, <1>8, <1>9, <1>10, <1>11, <1>12, <1>13, <1>14, <1>15,
     UploadIsCharged
  DEF Next, RequestStep, WorkerStep, Interruption, SoftTimeLimit, Rest

(***************************************************************************)
(* A job leaves at most one set of outputs per attempt in the bucket, for  *)
(* any numbers of outputs and retries, however many uploads fail half-way  *)
(* or without a reply, and whatever interrupts the attempts.               *)
(***************************************************************************)
THEOREM ObjectsAreBounded ==
    ASSUME RunsOnce
    PROVE  Spec => []ObjectBudget
<1>1. Init => BudgetInv
  <2> SUFFICES ASSUME Init
               PROVE  BudgetInv
    OBVIOUS
  <2>1. TokenInv /\ TypeOK
    BY TokenInitially, TypeInit
  <2>2. ReportInv
    BY <2>1 DEF Init, StoreInit, ReportInv, Reportable, CompletedIsReported
  <2>3. /\ \A j \in Jobs : objects[j] = 0
        /\ \A m \in Message : ready[m] = 0
        /\ \A w \in Workers : pc[w] \notin InTask
    BY DEF Init, BucketInit, QueueInit, InTask, Pipeline
  <2>4. ObjectBudget
    <3>1. \A j \in Jobs : (MaxRetries + 1) * Outputs[j] >= 0
      BY MaxRetriesAssumption, OutputsAssumption
    <3> QED
      BY <2>3, <3>1 DEF ObjectBudget
  <2> QED
    BY <2>1, <2>2, <2>3, <2>4 DEF BudgetInv
<1>2. BudgetInv /\ [Next]_vars => BudgetInv'
  BY BudgetStep
<1>3. BudgetInv => ObjectBudget
  BY DEF BudgetInv
<1> QED
  BY <1>1, <1>2, <1>3, PTL DEF Spec

-----------------------------------------------------------------------------
(***************************************************************************)
(* The error message behind a failed job.  The failures assumed away are   *)
(* those that end a task between its two last writes, or lose one of them; *)
(* messages may be lost or duplicated, and workers may die.                *)
(***************************************************************************)
FailuresAreTold ==
    Faults \intersect {"redis", "late_soft_limit", "hard_limit", "disconnect"} = {}

\* A failed job of an accepted or pending submission, without a message.
Unexplained(j) ==
    request[j] \in {"dispatch", "accepted"} /\ status[j] = "failed" /\ ~error[j]

\* Where a task has still to take the status back or to write the message.
ToExplain == {"mark_processing", "mark_failed", "record_error"}

ExplanationDue(j) ==
    Waiting(j) \/ \E w \in Workers : pc[w] \in ToExplain /\ Job(w) = j

\* A worker that dies on the way gives its delivery back.
ToldInv ==
    /\ TypeOK
    /\ \A w \in Workers : pc[w] # "idle" => held[w]
    /\ \A j \in Jobs : Unexplained(j) => ExplanationDue(j)

(***************************************************************************)
(* A step of w that takes no message and leaves its job explained later.   *)
(***************************************************************************)
LEMMA StillDue ==
    ASSUME TypeOK, NEW w \in Workers, NEW j \in Jobs, ExplanationDue(j),
           \A v \in Workers : v # w => pc'[v] = pc[v] /\ msg'[v] = msg[v],
           \A m \in Message : ready[m] > 0 => ready'[m] > 0,
           pc[w] \in ToExplain /\ Job(w) = j =>
               (pc'[w] \in ToExplain /\ msg'[w] = msg[w]) \/ Waiting(j)'
    PROVE  ExplanationDue(j)'
<1>1. CASE Waiting(j)
  BY <1>1 DEF Waiting, ExplanationDue
<1>2. ASSUME NEW v \in Workers, pc[v] \in ToExplain, Job(v) = j
      PROVE  ExplanationDue(j)'
  <2>1. CASE v = w
    BY <1>2, <2>1 DEF ExplanationDue, Job
  <2>2. CASE v # w
    BY <1>2, <2>2 DEF ExplanationDue, Job
  <2> QED
    BY <2>1, <2>2
<1> QED
  BY <1>1, <1>2 DEF ExplanationDue

(***************************************************************************)
(* Each failed job without a message has it still coming after any step.   *)
(***************************************************************************)
LEMMA ToldStep == FailuresAreTold /\ ToldInv /\ [Next]_vars => ToldInv'
<1> SUFFICES ASSUME FailuresAreTold, ToldInv, [Next]_vars
             PROVE  ToldInv'
  OBVIOUS
<1> USE DEF storeVars, bucketVars, queueVars, requestVars, workerVars
<1> DEFINE Told == /\ \A w \in Workers : pc'[w] # "idle" => held'[w]
                   /\ \A j \in Jobs : Unexplained(j)' => ExplanationDue(j)'
<1>1. /\ TypeOK /\ TypeOK'
      /\ ready \in [Message -> Nat]
      /\ request \in [Jobs -> RequestPlace]
      /\ status \in [Jobs -> JobStatus \union {"absent"}]
      /\ error \in [Jobs -> BOOLEAN]
      /\ pc \in [Workers -> WorkerPlace]
      /\ msg \in [Workers -> Message \union {NoMsg}]
      /\ held \in [Workers -> BOOLEAN]
  BY TypeStep DEF ToldInv, TypeOK
<1>2. SUFFICES Told
  BY <1>1 DEF ToldInv
<1>3. ASSUME NEW applied \in BOOLEAN, NEW replied \in BOOLEAN,
             RedisAttempt(applied, replied)
      PROVE  applied /\ replied
  BY <1>3 DEF FailuresAreTold, RedisAttempt
<1>4. ASSUME UNCHANGED workerVars,
             \A m \in Message : ready[m] > 0 => ready'[m] > 0,
             \A j \in Jobs : Unexplained(j)' => Unexplained(j)
      PROVE  Told
  <2>1. ASSUME NEW j \in Jobs, ExplanationDue(j)
        PROVE  ExplanationDue(j)'
    BY <1>4, <2>1 DEF ExplanationDue, Waiting, Job
  <2> QED
    BY <1>4, <2>1 DEF ToldInv
<1>5. ASSUME NEW j \in Jobs,
             \/ ClientUpload(j) \/ SourceDisappears(j) \/ Submit(j) \/ ApiCrash(j)
      PROVE  Told
  <2>1. UNCHANGED <<workerVars, ready, status, error>>
    BY <1>5 DEF ClientUpload, SourceDisappears, Submit, ApiCrash
  <2>2. \A i \in Jobs : request'[i] \in {"dispatch", "accepted"} => request'[i] = request[i]
    BY <1>1, <1>5 DEF ClientUpload, SourceDisappears, Submit, ApiCrash
  <2> QED
    BY <1>4, <2>1, <2>2 DEF Unexplained
<1>6. ASSUME NEW j \in Jobs, RegisterJob(j)
      PROVE  Told
  <2>1. /\ status' = [status EXCEPT ![j] = "pending"]
        /\ request' = [request EXCEPT ![j] = "dispatch"]
        /\ UNCHANGED <<workerVars, ready, error>>
    BY <1>3, <1>6 DEF RegisterJob, CreateJob, RequestAttempt, AfterAttempt
  <2>2. \A i \in Jobs : i # j => request'[i] = request[i] /\ status'[i] = status[i]
    BY <1>1, <2>1
  <2>3. status'[j] = "pending"
    BY <1>1, <2>1
  <2> QED
    BY <1>4, <2>1, <2>2, <2>3 DEF Unexplained
<1>7. ASSUME NEW j \in Jobs, Dispatch(j)
      PROVE  Told
  <2>1. PICK sent \in BOOLEAN, returned \in BOOLEAN :
          /\ Publish([job |-> j, retries |-> 0], sent)
          /\ RequestAttempt(j, returned, "accepted", "mark_failed")
    BY <1>7 DEF Dispatch
  <2>2. UNCHANGED <<workerVars, status, error>> /\ request[j] = "dispatch"
    BY <1>7 DEF Dispatch
  <2>3. \A i \in Jobs : i # j => request'[i] = request[i]
    BY <1>1, <2>1 DEF RequestAttempt
  <2>4. \A m \in Message : ready[m] > 0 => ready'[m] > 0
    BY <1>1, <2>1 DEF Publish, Enqueue
  <2> QED
    BY <1>4, <2>2, <2>3, <2>4 DEF Unexplained
<1>8. ASSUME NEW j \in Jobs, MarkDispatchFailed(j) \/ RecordDispatchError(j)
      PROVE  Told
  <2>1. /\ UNCHANGED <<workerVars, ready>>
        /\ \A i \in Jobs : i # j =>
             request'[i] = request[i] /\ status'[i] = status[i] /\ error'[i] = error[i]
    BY <1>1, <1>8
    DEF MarkDispatchFailed, RecordDispatchError, UpdateStatus, SetError, RequestAttempt
  <2>2. request'[j] \in {"record_error", "unavailable"}
    BY <1>1, <1>3, <1>8
    DEF MarkDispatchFailed, RecordDispatchError, RequestAttempt, AfterAttempt
  <2> QED
    BY <1>4, <2>1, <2>2 DEF Unexplained
<1>9. ASSUME NEW w \in Workers, Receive(w)
      PROVE  Told
  <2>1. PICK m \in Message : Deliver(m) /\ msg' = [msg EXCEPT ![w] = m]
    BY <1>9 DEF Receive
  <2>2. /\ pc[w] = "idle" /\ UNCHANGED <<status, error, request>>
        /\ pc' = [pc EXCEPT ![w] = "mark_processing"]
        /\ held' = [held EXCEPT ![w] = TRUE]
    BY <1>9 DEF Receive
  <2>3. ASSUME NEW j \in Jobs, ExplanationDue(j)
        PROVE  ExplanationDue(j)'
    <3>1. pc'[w] \in ToExplain /\ msg'[w] = m
      BY <1>1, <2>1, <2>2 DEF ToExplain
    <3>2. CASE j = m.job
      BY <3>1, <3>2 DEF ExplanationDue, Job
    <3>3. CASE j # m.job /\ Waiting(j)
      <4>1. PICK n \in Message : n.job = j /\ ready[n] > 0
        BY <3>3 DEF Waiting
      <4>2. ready'[n] > 0
        BY <1>1, <2>1, <3>3, <4>1 DEF Deliver
      <4> QED
        BY <4>1, <4>2 DEF ExplanationDue, Waiting
    <3>4. ASSUME NEW v \in Workers, pc[v] \in ToExplain, Job(v) = j
          PROVE  ExplanationDue(j)'
      <4>1. pc'[v] = pc[v] /\ msg'[v] = msg[v]
        BY <1>1, <2>1, <2>2, <3>4 DEF ToExplain
      <4> QED
        BY <3>4, <4>1 DEF ExplanationDue, Job
    <3> QED
      BY <2>3, <3>2, <3>3, <3>4 DEF ExplanationDue
  <2>4. \A v \in Workers : pc'[v] # "idle" => held'[v]
    BY <1>1, <2>2 DEF ToldInv
  <2> QED
    BY <2>2, <2>3, <2>4 DEF ToldInv, Unexplained
<1>10. ASSUME NEW w \in Workers, NEW to, pc' = [pc EXCEPT ![w] = to],
              pc[w] # "idle", UNCHANGED <<msg, held, request>>,
              \A m \in Message : ready[m] > 0 => ready'[m] > 0,
              \A j \in Jobs : j # Job(w) => status'[j] = status[j] /\ error'[j] = error[j],
              \/ to \in ToExplain
              \/ status'[Job(w)] # "failed"
              \/ error'[Job(w)]
              \/ pc[w] \notin ToExplain /\ UNCHANGED <<status, error>>
       PROVE  Told
  <2>1. \A v \in Workers : v # w => pc'[v] = pc[v] /\ msg'[v] = msg[v]
    BY <1>1, <1>10
  <2>2. pc'[w] = to /\ msg'[w] = msg[w]
    BY <1>1, <1>10
  <2>3. \A v \in Workers : pc'[v] # "idle" => held'[v]
    BY <1>10, <2>1 DEF ToldInv
  <2>4. ASSUME NEW j \in Jobs, Unexplained(j)'
        PROVE  ExplanationDue(j)'
    <3>1. CASE to \in ToExplain /\ Job(w) = j
      BY <2>2, <3>1 DEF ExplanationDue, Job
    <3>2. CASE ~(to \in ToExplain /\ Job(w) = j)
      <4>1. Unexplained(j) /\ (pc[w] \in ToExplain => Job(w) # j)
        BY <1>10, <2>4, <3>2 DEF Unexplained
      <4>2. ExplanationDue(j)
        BY <4>1 DEF ToldInv
      <4> QED
        BY <1>1, <1>10, <2>1, <4>1, <4>2, StillDue
    <3> QED
      BY <3>1, <3>2
  <2> QED
    BY <2>3, <2>4
<1>11. ASSUME NEW w \in Workers, MarkProcessing(w) \/ MarkCompleted(w)
       PROVE  Told
  <2>1. PICK new \in {"processing", "completed"}, to \in {"download", "observe"} :
          /\ status' = [status EXCEPT ![Job(w)] = new]
          /\ pc' = [pc EXCEPT ![w] = to]
    BY <1>3, <1>11
    DEF MarkProcessing, MarkCompleted, UpdateStatus, TaskAttempt, AfterAttempt
  <2>2. UNCHANGED <<ready, request, msg, held, error>> /\ pc[w] # "idle"
    BY <1>11 DEF MarkProcessing, MarkCompleted, UpdateStatus
  <2>3. Job(w) \in Jobs
    BY <1>1, <2>2, BusyHasMessage
  <2> QED
    BY <1>1, <1>10, <2>1, <2>2, <2>3
<1>12. ASSUME NEW w \in Workers, MarkFailed(w)
       PROVE  Told
  <2>1. /\ status' = [status EXCEPT ![Job(w)] = "failed"]
        /\ pc' = [pc EXCEPT ![w] = "record_error"]
        /\ UNCHANGED <<ready, request, msg, held, error>> /\ pc[w] # "idle"
    BY <1>3, <1>12 DEF MarkFailed, UpdateStatus, TaskAttempt, AfterAttempt
  <2> QED
    BY <1>1, <1>10, <2>1 DEF ToExplain
<1>13. ASSUME NEW w \in Workers, RecordError(w)
       PROVE  Told
  <2>1. /\ error' = [error EXCEPT ![Job(w)] = TRUE]
        /\ pc' = [pc EXCEPT ![w] = "ack"]
        /\ UNCHANGED <<ready, request, msg, held, status>> /\ pc[w] # "idle"
    BY <1>3, <1>13 DEF RecordError, SetError, TaskAttempt, AfterAttempt
  <2>2. Job(w) \in Jobs
    BY <1>1, <2>1, BusyHasMessage
  <2> QED
    BY <1>1, <1>10, <2>1, <2>2
<1>14. ASSUME NEW w \in Workers,
              \/ Download(w) \/ Process(w) \/ Upload(w) \/ StoreResult(w)
              \/ ObserveEndToEnd(w) \/ ScheduleRetry(w) \/ LimitInPipeline(w)
       PROVE  Told
  <2>1. /\ UNCHANGED <<status, error, request, msg, held>> /\ pc[w] # "idle"
        /\ pc[w] \notin ToExplain \/ LimitInPipeline(w)
    BY <1>14
    DEF Download, Process, Upload, StoreResult, SetResult, ObserveEndToEnd,
        ScheduleRetry, LimitInPipeline, ToExplain, Pipeline
  <2>2. PICK to : pc' = [pc EXCEPT ![w] = to]
    BY <1>14
    DEF Download, Process, Upload, StoreResult, ObserveEndToEnd, ScheduleRetry,
        LimitInPipeline, TaskAttempt
  <2>3. LimitInPipeline(w) => to \in ToExplain
    BY <1>1, <2>2 DEF LimitInPipeline, ToExplain
  <2>4. \A m \in Message : ready[m] > 0 => ready'[m] > 0
    <3>1. UNCHANGED ready \/ \E n : Enqueue(n)
      BY <1>14
      DEF Download, Process, Upload, StoreResult, ObserveEndToEnd, ScheduleRetry,
          LimitInPipeline, Publish
    <3> QED
      BY <1>1, <3>1 DEF Enqueue
  <2> QED
    BY <1>10, <2>1, <2>2, <2>3, <2>4
<1>15. ASSUME NEW w \in Workers, Acknowledge(w) \/ WorkerCrash(w)
       PROVE  Told
  <2>1. Release(w) /\ UNCHANGED <<status, error, request>> /\ pc[w] # "idle"
    BY <1>15 DEF Acknowledge, WorkerCrash
  <2>2. /\ pc'[w] = "idle"
        /\ \A v \in Workers : v # w =>
             pc'[v] = pc[v] /\ msg'[v] = msg[v] /\ held'[v] = held[v]
    BY <1>1, <2>1 DEF Release
  <2>3. msg[w] \in Message
    BY <1>1, <2>1, BusyHasMessage
  <2>4. Acknowledge(w) \/ Enqueue(msg[w])
    BY <1>15, <2>1 DEF WorkerCrash, ToldInv
  <2>5. \A m \in Message : ready[m] > 0 => ready'[m] > 0
    BY <1>1, <2>4 DEF Acknowledge, Enqueue
  <2>6. Enqueue(msg[w]) => ready'[msg[w]] > 0
    BY <1>1, <2>3 DEF Enqueue
  <2>7. \A j \in Jobs : pc[w] \in ToExplain /\ Job(w) = j => Waiting(j)'
    BY <2>3, <2>4, <2>6 DEF Acknowledge, ToExplain, Waiting, Job
  <2>8. ASSUME NEW j \in Jobs, ExplanationDue(j)
        PROVE  ExplanationDue(j)'
    BY <1>1, <2>2, <2>5, <2>7, <2>8, StillDue
  <2> QED
    BY <2>1, <2>2, <2>8 DEF ToldInv, Unexplained
<1>16. ASSUME NEW w \in Workers
       PROVE  /\ ~Disconnect(w) /\ ~HardTimeLimit(w)
              /\ ~LimitInRetry(w) /\ ~LimitInOnFailure(w)
  BY DEF FailuresAreTold, Disconnect, HardTimeLimit, LimitInRetry, LimitInOnFailure
<1>17. CASE UNCHANGED vars
  BY <1>4, <1>17 DEF vars, Unexplained
<1> QED
  BY <1>5, <1>6, <1>7, <1>8, <1>9, <1>11, <1>12, <1>13, <1>14, <1>15, <1>16, <1>17
  DEF Next, RequestStep, WorkerStep, Interruption, SoftTimeLimit, Rest

(***************************************************************************)
(* A job the client was told about that is left failed has its error       *)
(* message (on_failure in celery_worker.py), whatever becomes of messages, *)
(* S3, the media and the workers, and also if the soft time limit ends its *)
(* pipeline; not if the limit is reached in on_failure itself.             *)
(***************************************************************************)
THEOREM FailureIsExplained ==
    ASSUME FailuresAreTold
    PROVE  Spec => []FailureExplained
<1>1. Init => ToldInv
  BY TypeInit DEF Init, StoreInit, ToldInv, Unexplained
<1>2. ToldInv /\ [Next]_vars => ToldInv'
  BY ToldStep
<1>3. ToldInv => FailureExplained
  BY DEF ToldInv, FailureExplained, Unexplained, ExplanationDue, ToExplain, WorkedOn
<1> QED
  BY <1>1, <1>2, <1>3, PTL DEF Spec

=============================================================================
