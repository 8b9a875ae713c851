---------------------------- MODULE ContractProofs ----------------------------
(***************************************************************************)
(* MediaJobs implements the safety part of JobContract: every step of the  *)
(* system, seen through the status key and the answer to the submission,   *)
(* is a step of the lifecycle or changes neither.                          *)
(***************************************************************************)
EXTENDS OrderlyProofs

(***************************************************************************)
(* The failures assumed away are those that break the lifecycle: a second  *)
(* run of a job (RunsOnce) takes a finished job back to processing, and so *)
(* do a lost reply to the write of "completed" and a time limit during the *)
(* metrics.  Lost publishes, hard limits and crashes of the API leave the  *)
(* lifecycle unfinished but not broken.                                    *)
(***************************************************************************)
Orderly == RunsOnce /\ Faults \intersect {"redis", "soft_limit"} = {}

\* The status of the job of a task at each place.
StatusAt(p) ==
    IF p = "mark_processing" THEN {"pending", "processing"}
    ELSE IF p = "observe" THEN {"completed"}
    ELSE IF p = "record_error" THEN {"failed"}
    ELSE {"processing"}

\* Whoever has the job, its request, a message or a worker, knows its status.
ContractInv ==
    /\ TokenInv
    /\ \A j \in Jobs : request[j] \in {"none", "create_job"} => status[j] = "absent"
    /\ \A j \in Jobs : request[j] \in {"dispatch", "mark_failed"} => status[j] = "pending"
    /\ \A m \in Message : ready[m] > 0 => status[m.job] \in StatusAt("mark_processing")
    /\ \A w \in Workers : pc[w] \in InTask => status[Job(w)] \in StatusAt(pc[w])

\* A step of the lifecycle, or none.
LifecycleStep == [Contract!ContractNext]_(Contract!contractVars)

(***************************************************************************)
(* Without failures of Redis, a command is executed and replies.           *)
(***************************************************************************)
LEMMA CommandReplies ==
    ASSUME Orderly, NEW applied \in BOOLEAN, NEW replied \in BOOLEAN,
           RedisAttempt(applied, replied)
    PROVE  applied /\ replied
  BY DEF Orderly, RedisAttempt

(***************************************************************************)
(* The mapping: what the lifecycle shows of a step.                        *)
(***************************************************************************)
LEMMA NothingShown ==
    ASSUME UNCHANGED status,
           \A i \in Jobs : request'[i] = "accepted" <=> request[i] = "accepted"
    PROVE  LifecycleStep
<1>1. {i \in Jobs : request'[i] = "accepted"} = {i \in Jobs : request[i] = "accepted"}
  OBVIOUS
<1> QED
  BY <1>1 DEF LifecycleStep, Contract!contractVars

\* A status that moves along the lifecycle is a step of it.
LEMMA MoveShown ==
    ASSUME NEW j \in Jobs,
           \A i \in Jobs : request'[i] = "accepted" <=> request[i] = "accepted",
           NEW new, status' = [status EXCEPT ![j] = new],
           \/ status[j] = "absent" /\ new = "pending"
           \/ status[j] = "pending" /\ new \in {"processing", "failed"}
           \/ status[j] = "processing" /\ new \in {"completed", "failed"}
    PROVE  LifecycleStep
<1>1. {i \in Jobs : request'[i] = "accepted"} = {i \in Jobs : request[i] = "accepted"}
  OBVIOUS
<1>2. Contract!Register(j) \/ Contract!Progress(j)
  BY <1>1
  DEF Contract!Register, Contract!Progress, Contract!Start, Contract!Complete,
      Contract!Fail, Contract!Move
<1> QED
  BY <1>2 DEF LifecycleStep, Contract!ContractNext

(***************************************************************************)
(* A step that writes no status: tasks go on where the status is right,    *)
(* what is queued is undecided, and the request knows what it knew.        *)
(***************************************************************************)
LEMMA StatusStaysRight ==
    ASSUME Orderly, ContractInv, [Next]_vars, UNCHANGED status,
           \A j \in Jobs : \/ request'[j] = request[j]
                           \/ request'[j] \notin {"none", "create_job", "dispatch", "mark_failed"}
                           \/ request[j] = "none" /\ request'[j] = "create_job"
                           \/ request[j] = "dispatch" /\ request'[j] = "mark_failed",
           \A m \in Message : ready'[m] > 0 =>
               ready[m] > 0 \/ status[m.job] \in StatusAt("mark_processing"),
           \A w \in Workers : pc'[w] \in InTask => status[Job(w)'] \in StatusAt(pc'[w])
    PROVE  ContractInv'
  BY TokenStep DEF ContractInv, Orderly

(***************************************************************************)
(* A task that writes the status of its job, of which it is the only one.  *)
(***************************************************************************)
LEMMA StatusWrittenRight ==
    ASSUME Orderly, ContractInv, [Next]_vars, NEW w \in Workers, pc[w] \in InTask,
           UNCHANGED <<ready, request, msg>>,
           NEW to \in InTask, pc' = [pc EXCEPT ![w] = to],
           NEW new \in StatusAt(to), status' = [status EXCEPT ![Job(w)] = new]
    PROVE  ContractInv'
<1>1. /\ TokenInv /\ TokenInv' /\ TypeOK
      /\ pc \in [Workers -> WorkerPlace]
      /\ status \in [Jobs -> JobStatus \union {"absent"}]
  BY TokenStep DEF ContractInv, Orderly, TokenInv, TypeOK
<1>2. /\ Job(w) \in Jobs /\ request[Job(w)] = "accepted"
      /\ \A v \in Workers : Job(v)' = Job(v)
  <2>1. pc[w] # "idle"
    BY DEF InTask, Pipeline
  <2>2. Job(w) \in Jobs
    BY <1>1, <2>1, BusyHasMessage
  <2> QED
    BY <1>1, <2>1, <2>2 DEF TokenInv, Underway, WorkedOn, Job
<1>3. /\ status'[Job(w)] = new
      /\ \A j \in Jobs : j # Job(w) => status'[j] = status[j]
  BY <1>1, <1>2
<1>4. \A m \in Message : ready[m] > 0 => m.job # Job(w) /\ m.job \in Jobs
  BY <1>1 DEF TokenInv, Message
<1>5. ASSUME NEW v \in Workers, pc'[v] \in InTask
      PROVE  status'[Job(v)'] \in StatusAt(pc'[v])
  <2>1. CASE v = w
    BY <1>1, <1>2, <1>3, <2>1
  <2>2. CASE v # w
    <3>1. pc'[v] = pc[v] /\ Job(v) # Job(w) /\ Job(v) \in Jobs
      <4>1. pc'[v] = pc[v] /\ pc[v] # "idle"
        BY <1>1, <1>5, <2>2 DEF InTask, Pipeline
      <4> QED
        BY <1>1, <1>5, <2>2, <4>1, BusyHasMessage DEF TokenInv, SingleRun
    <3> QED
      BY <1>2, <1>3, <1>5, <3>1 DEF ContractInv
  <2> QED
    BY <2>1, <2>2
<1> QED
  BY <1>1, <1>2, <1>3, <1>4, <1>5 DEF ContractInv

(***************************************************************************)
(* A request that writes the status of its job, on which no work is under  *)
(* way.                                                                    *)
(***************************************************************************)
LEMMA RequestWritesRight ==
    ASSUME Orderly, ContractInv, [Next]_vars, NEW j \in Jobs,
           request[j] # "accepted", UNCHANGED <<ready, pc, msg>>,
           NEW to \in RequestPlace, request' = [request EXCEPT ![j] = to],
           NEW new, status' = [status EXCEPT ![j] = new],
           \/ to = "dispatch" /\ new = "pending"
           \/ to = "record_error" /\ new = "failed"
    PROVE  ContractInv'
<1>1. /\ TokenInv /\ TokenInv' /\ TypeOK
      /\ status \in [Jobs -> JobStatus \union {"absent"}]
      /\ request \in [Jobs -> RequestPlace]
  BY TokenStep DEF ContractInv, Orderly, TokenInv, TypeOK
<1>2. /\ status'[j] = new /\ request'[j] = to
      /\ \A i \in Jobs : i # j => status'[i] = status[i] /\ request'[i] = request[i]
  BY <1>1
<1>3. ~Underway(j)
  BY <1>1 DEF TokenInv
<1>4. \A m \in Message : ready[m] > 0 => m.job # j /\ m.job \in Jobs
  BY <1>3 DEF Underway, Waiting, Message
<1>5. \A w \in Workers : pc[w] \in InTask => Job(w) # j /\ Job(w) \in Jobs /\ Job(w)' = Job(w)
  BY <1>1, <1>3, BusyHasMessage DEF Underway, WorkedOn, InTask, Pipeline, Job
<1> QED
  BY <1>1, <1>2, <1>4, <1>5 DEF ContractInv

\* Every step keeps the invariant, and is a step of the lifecycle or shows none.
LEMMA ContractStep ==
    Orderly /\ ContractInv /\ [Next]_vars => ContractInv' /\ LifecycleStep
<1> SUFFICES ASSUME Orderly, ContractInv, [Next]_vars
             PROVE  ContractInv' /\ LifecycleStep
  OBVIOUS
<1> USE DEF storeVars, bucketVars, queueVars, requestVars, workerVars
<1>1. /\ TypeOK /\ TokenInv
      /\ ready \in [Message -> Nat]
      /\ request \in [Jobs -> RequestPlace]
      /\ pc \in [Workers -> WorkerPlace]
      /\ msg \in [Workers -> Message \union {NoMsg}]
      /\ status \in [Jobs -> JobStatus \union {"absent"}]
  BY DEF ContractInv, TokenInv, TypeOK
<1>2. \A w \in Workers : OnTransient(w) \in {"retry", "mark_failed"}
  BY DEF OnTransient
<1>3. /\ Pipeline \union {"retry", "mark_failed", "record_error"} = InTask
      /\ "ack" \notin InTask /\ "idle" \notin InTask
  BY DEF InTask, Pipeline
<1>4. ASSUME UNCHANGED <<status, pc, msg>>, NEW j \in Jobs,
             \A i \in Jobs : i # j => request'[i] = request[i],
             \/ request'[j] = request[j]
             \/ request'[j] \notin {"none", "create_job", "dispatch", "mark_failed"}
             \/ request[j] = "none" /\ request'[j] = "create_job"
             \/ request[j] = "dispatch" /\ request'[j] = "mark_failed",
             \A m \in Message : ready'[m] > 0 =>
                 ready[m] > 0 \/ status[m.job] \in StatusAt("mark_processing")
      PROVE  ContractInv'
  <2>1. \A w \in Workers : pc'[w] \in InTask => status[Job(w)'] \in StatusAt(pc'[w])
    BY <1>4 DEF ContractInv, Job
  <2> QED
    BY <1>4, <2>1, StatusStaysRight
<1>5. ASSUME NEW j \in Jobs,
             \/ ClientUpload(j) \/ SourceDisappears(j) \/ Submit(j) \/ ApiCrash(j)
      PROVE  ContractInv' /\ LifecycleStep
  <2>1. UNCHANGED <<status, ready, pc, msg>>
    BY <1>5 DEF ClientUpload, SourceDisappears, Submit, ApiCrash
  <2>2. /\ \A i \in Jobs : i # j => request'[i] = request[i]
        /\ \/ request'[j] = request[j]
           \/ request'[j] \in {"not_found", "unavailable", "aborted"}
                /\ request[j] # "accepted"
           \/ request[j] = "none" /\ request'[j] = "create_job"
    BY <1>1, <1>5 DEF ClientUpload, SourceDisappears, Submit, ApiCrash, InRequest
  <2> QED
    BY <1>4, <2>1, <2>2, NothingShown
<1>6. ASSUME NEW j \in Jobs, RegisterJob(j)
      PROVE  ContractInv' /\ LifecycleStep
  <2>1. /\ request' = [request EXCEPT ![j] = "dispatch"]
        /\ status' = [status EXCEPT ![j] = "pending"]
        /\ UNCHANGED <<ready, pc, msg>> /\ request[j] = "create_job"
    BY <1>6, CommandReplies DEF RegisterJob, CreateJob, RequestAttempt, AfterAttempt
  <2>2. status[j] = "absent"
    BY <2>1 DEF ContractInv
  <2>3. ContractInv'
    BY <2>1, RequestWritesRight DEF RequestPlace, InRequest
  <2>4. \A i \in Jobs : request'[i] = "accepted" <=> request[i] = "accepted"
    BY <1>1, <2>1
  <2> QED
    BY <2>1, <2>2, <2>3, <2>4, MoveShown
<1>7. ASSUME NEW j \in Jobs, Dispatch(j)
      PROVE  ContractInv' /\ LifecycleStep
  <2> DEFINE m == [job |-> j, retries |-> 0]
  <2>1. PICK sent \in BOOLEAN, returned \in BOOLEAN :
          Publish(m, sent) /\ RequestAttempt(j, returned, "accepted", "mark_failed")
    BY <1>7 DEF Dispatch
  <2>2. UNCHANGED <<status, pc, msg>> /\ request[j] = "dispatch"
    BY <1>7 DEF Dispatch
  <2>3. status[j] = "pending"
    BY <2>2 DEF ContractInv
  <2>4. /\ request'[j] \in {"dispatch", "accepted", "mark_failed"}
        /\ \A i \in Jobs : i # j => request'[i] = request[i]
    BY <1>1, <2>1, <2>2 DEF RequestAttempt, AfterAttempt
  <2>5. m.job = j
    OBVIOUS
  <2> HIDE DEF m
  <2>6. \A n \in Message : ready'[n] > 0 => ready[n] > 0 \/ n = m
    BY <1>1, <2>1 DEF Publish, Enqueue
  <2>7. ContractInv'
    BY <1>4, <2>2, <2>3, <2>4, <2>5, <2>6 DEF StatusAt
  <2>8. LifecycleStep
    <3>1. CASE request'[j] # "accepted"
      BY <2>2, <2>4, <3>1, NothingShown
    <3>2. CASE request'[j] = "accepted"
      <4>1. {i \in Jobs : request'[i] = "accepted"}
              = {i \in Jobs : request[i] = "accepted"} \union {j}
        BY <2>4, <3>2
      <4>2. Contract!Promise(j)
        BY <2>2, <2>3, <4>1 DEF Contract!Promise
      <4> QED
        BY <4>2 DEF LifecycleStep, Contract!ContractNext
    <3> QED
      BY <3>1, <3>2
  <2> QED
    BY <2>7, <2>8
<1>8. ASSUME NEW j \in Jobs, MarkDispatchFailed(j)
      PROVE  ContractInv' /\ LifecycleStep
  <2>1. /\ request' = [request EXCEPT ![j] = "record_error"]
        /\ status' = [status EXCEPT ![j] = "failed"]
        /\ UNCHANGED <<ready, pc, msg>> /\ request[j] = "mark_failed"
    BY <1>8, CommandReplies DEF MarkDispatchFailed, UpdateStatus, RequestAttempt, AfterAttempt
  <2>2. status[j] = "pending"
    BY <2>1 DEF ContractInv
  <2>3. ContractInv'
    BY <2>1, RequestWritesRight DEF RequestPlace, InRequest
  <2>4. \A i \in Jobs : request'[i] = "accepted" <=> request[i] = "accepted"
    BY <1>1, <2>1
  <2> QED
    BY <2>1, <2>2, <2>3, <2>4, MoveShown
<1>9. ASSUME NEW j \in Jobs, RecordDispatchError(j)
      PROVE  ContractInv' /\ LifecycleStep
  <2>1. /\ request' = [request EXCEPT ![j] = "unavailable"]
        /\ UNCHANGED <<status, ready, pc, msg>> /\ request[j] = "record_error"
    BY <1>9, CommandReplies DEF RecordDispatchError, SetError, RequestAttempt, AfterAttempt
  <2>2. /\ request'[j] = "unavailable"
        /\ \A i \in Jobs : i # j => request'[i] = request[i]
    BY <1>1, <2>1
  <2> QED
    BY <1>4, <2>1, <2>2, NothingShown
<1>10. ASSUME NEW w \in Workers, Receive(w)
       PROVE  ContractInv' /\ LifecycleStep
  <2>1. PICK m \in Message : Deliver(m) /\ msg' = [msg EXCEPT ![w] = m]
    BY <1>10 DEF Receive
  <2>2. /\ pc' = [pc EXCEPT ![w] = "mark_processing"]
        /\ UNCHANGED <<status, request>>
    BY <1>10 DEF Receive
  <2>3. ready[m] > 0 /\ \A n \in Message : ready'[n] > 0 => ready[n] > 0
    BY <1>1, <2>1 DEF Deliver
  <2>4. \A v \in Workers : pc'[v] \in InTask => status[Job(v)'] \in StatusAt(pc'[v])
    BY <1>1, <2>1, <2>2, <2>3 DEF ContractInv, Job
  <2> QED
    BY <2>2, <2>3, <2>4, StatusStaysRight, NothingShown
<1>11. ASSUME NEW w \in Workers, UNCHANGED <<status, request, msg>>,
              NEW to, pc' = [pc EXCEPT ![w] = to],
              to \in InTask => pc[w] \in InTask /\ StatusAt(pc[w]) \subseteq StatusAt(to),
              \A m \in Message : ready'[m] > 0 =>
                  ready[m] > 0 \/ status[m.job] \in StatusAt("mark_processing")
       PROVE  ContractInv' /\ LifecycleStep
  <2>1. \A v \in Workers : pc'[v] \in InTask => status[Job(v)'] \in StatusAt(pc'[v])
    BY <1>1, <1>11 DEF ContractInv, Job
  <2> QED
    BY <1>11, <2>1, StatusStaysRight, NothingShown
<1>12. ASSUME NEW w \in Workers, MarkProcessing(w)
       PROVE  ContractInv' /\ LifecycleStep
  <2>1. /\ status' = [status EXCEPT ![Job(w)] = "processing"]
        /\ pc' = [pc EXCEPT ![w] = "download"]
        /\ UNCHANGED <<ready, request, msg>>
        /\ pc[w] = "mark_processing"
    BY <1>12, CommandReplies DEF MarkProcessing, UpdateStatus, TaskAttempt, AfterAttempt
  <2>2. pc[w] \in InTask /\ "download" \in InTask /\ "processing" \in StatusAt("download")
    BY <2>1 DEF InTask, Pipeline, StatusAt
  <2>3. ContractInv'
    BY <2>1, <2>2, StatusWrittenRight
  <2>4. Job(w) \in Jobs /\ status[Job(w)] \in {"pending", "processing"}
    BY <1>1, <2>1, <2>2, BusyHasMessage DEF ContractInv, StatusAt
  <2>5. CASE status[Job(w)] = "pending"
    BY <2>1, <2>3, <2>4, <2>5, MoveShown
  <2>6. CASE status[Job(w)] = "processing"
    <3>1. status' = status
      BY <1>1, <2>1, <2>6
    <3> QED
      BY <2>1, <2>3, <3>1, NothingShown
  <2> QED
    BY <2>4, <2>5, <2>6
<1>13. ASSUME NEW w \in Workers, MarkCompleted(w)
       PROVE  ContractInv' /\ LifecycleStep
  <2>1. /\ status' = [status EXCEPT ![Job(w)] = "completed"]
        /\ pc' = [pc EXCEPT ![w] = "observe"]
        /\ UNCHANGED <<ready, request, msg>>
        /\ pc[w] = "mark_completed"
    BY <1>13, CommandReplies DEF MarkCompleted, UpdateStatus, TaskAttempt, AfterAttempt
  <2>2. pc[w] \in InTask /\ "observe" \in InTask /\ "completed" \in StatusAt("observe")
    BY <2>1 DEF InTask, Pipeline, StatusAt
  <2>3. Job(w) \in Jobs /\ status[Job(w)] = "processing"
    BY <1>1, <2>1, <2>2, BusyHasMessage DEF ContractInv, StatusAt
  <2> QED
    BY <2>1, <2>2, <2>3, StatusWrittenRight, MoveShown
<1>14. ASSUME NEW w \in Workers, MarkFailed(w)
       PROVE  ContractInv' /\ LifecycleStep
  <2>1. /\ status' = [status EXCEPT ![Job(w)] = "failed"]
        /\ pc' = [pc EXCEPT ![w] = "record_error"]
        /\ UNCHANGED <<ready, request, msg>>
        /\ pc[w] = "mark_failed"
    BY <1>14, CommandReplies DEF MarkFailed, UpdateStatus, TaskAttempt, AfterAttempt
  <2>2. /\ pc[w] \in InTask /\ "record_error" \in InTask
        /\ "failed" \in StatusAt("record_error")
    BY <2>1 DEF InTask, StatusAt
  <2>3. Job(w) \in Jobs /\ status[Job(w)] = "processing"
    BY <1>1, <2>1, <2>2, BusyHasMessage DEF ContractInv, StatusAt
  <2> QED
    BY <2>1, <2>2, <2>3, StatusWrittenRight, MoveShown
<1>15. ASSUME NEW w \in Workers, Download(w) \/ Process(w) \/ Upload(w)
       PROVE  ContractInv' /\ LifecycleStep
  <2>1. /\ UNCHANGED <<status, ready, request, msg>>
        /\ pc[w] \in {"download", "process", "upload"}
    BY <1>15 DEF Download, Process, Upload
  <2>2. PICK to \in {"process", "upload", "store_result", "mark_failed", OnTransient(w)} :
          pc' = [pc EXCEPT ![w] = to]
    BY <1>15, <2>1 DEF Download, Process, Upload
  <2>3. pc[w] \in InTask /\ StatusAt(pc[w]) \subseteq StatusAt(to)
    BY <1>2, <2>1, <2>2 DEF StatusAt, InTask, Pipeline
  <2> QED
    BY <1>11, <2>1, <2>2, <2>3
<1>16. ASSUME NEW w \in Workers, StoreResult(w)
       PROVE  ContractInv' /\ LifecycleStep
  <2>1. /\ pc' = [pc EXCEPT ![w] = "mark_completed"]
        /\ UNCHANGED <<status, ready, request, msg>>
        /\ pc[w] = "store_result"
    BY <1>16, CommandReplies DEF StoreResult, SetResult, TaskAttempt, AfterAttempt
  <2> QED
    BY <1>11, <2>1 DEF StatusAt, InTask, Pipeline
<1>17. ASSUME NEW w \in Workers, ObserveEndToEnd(w) \/ RecordError(w)
       PROVE  ContractInv' /\ LifecycleStep
  <2>1. /\ pc' = [pc EXCEPT ![w] = "ack"]
        /\ UNCHANGED <<status, ready, request, msg>>
    BY <1>17, CommandReplies
    DEF ObserveEndToEnd, RecordError, SetError, TaskAttempt, AfterAttempt
  <2> QED
    BY <1>3, <1>11, <2>1
<1>18. ASSUME NEW w \in Workers, ScheduleRetry(w)
       PROVE  ContractInv' /\ LifecycleStep
  <2> DEFINE m == [msg[w] EXCEPT !.retries = @ + 1]
  <2>1. PICK sent \in BOOLEAN : Publish(m, sent)
    BY <1>18 DEF ScheduleRetry
  <2>2. /\ UNCHANGED <<status, request, msg>> /\ pc[w] = "retry"
        /\ pc' = [pc EXCEPT ![w] = "ack"]
    BY <1>18 DEF ScheduleRetry
  <2>3. m.job = Job(w) /\ status[Job(w)] = "processing"
    BY <1>1, <1>3, <2>2, BusyHasMessage DEF ContractInv, StatusAt, Message, Job
  <2> HIDE DEF m
  <2>4. \A n \in Message : ready'[n] > 0 => ready[n] > 0 \/ n = m
    BY <1>1, <2>1 DEF Publish, Enqueue
  <2>5. \A n \in Message : ready'[n] > 0 =>
          ready[n] > 0 \/ status[n.job] \in StatusAt("mark_processing")
    BY <2>3, <2>4 DEF StatusAt
  <2> QED
    BY <1>3, <1>11, <2>2, <2>5
<1>19. ASSUME NEW w \in Workers, Acknowledge(w) \/ HardTimeLimit(w)
       PROVE  ContractInv' /\ LifecycleStep
  <2>1. Release(w) /\ UNCHANGED <<status, ready, request>>
    BY <1>19 DEF Acknowledge, HardTimeLimit
  <2>2. \A v \in Workers : pc'[v] \in InTask => status[Job(v)'] \in StatusAt(pc'[v])
    BY <1>1, <1>3, <2>1 DEF Release, ContractInv, Job
  <2> QED
    BY <2>1, <2>2, StatusStaysRight, NothingShown
<1>20. ASSUME NEW w \in Workers
       PROVE  ~WorkerCrash(w) /\ ~Disconnect(w) /\ ~SoftTimeLimit(w)
  BY DEF Orderly, RunsOnce, WorkerCrash, Disconnect, SoftTimeLimit, LimitInPipeline,
         LimitInRetry, LimitInOnFailure
<1>21. CASE UNCHANGED vars
  <2>1. \A v \in Workers : pc'[v] \in InTask => status[Job(v)'] \in StatusAt(pc'[v])
    BY <1>21 DEF vars, ContractInv, Job
  <2> QED
    BY <1>21, <2>1, StatusStaysRight, NothingShown DEF vars
<1> QED
  BY <1>5, <1>6, <1>7, <1>8, <1>9, <1>10, <1>12, <1>13, <1>14, <1>15, <1>16, <1>17,
     <1>18, <1>19, <1>20, <1>21
  DEF Next, RequestStep, WorkerStep, Interruption, Rest

\* Nothing is under way at first.
LEMMA ContractInitially == Init => ContractInv
<1> SUFFICES ASSUME Init
             PROVE  ContractInv
  OBVIOUS
<1>1. TokenInv
  BY TokenInitially
<1> QED
  BY <1>1 DEF Init, StoreInit, QueueInit, ContractInv, InTask, Pipeline

(***************************************************************************)
(* The status of a job moves through the lifecycle of README.md only: it   *)
(* begins absent, is registered as pending, taken up, and ends completed   *)
(* or failed once and for all, and a 202 is answered for registered jobs   *)
(* only.  This is the safety part of KeepsContract.                        *)
(***************************************************************************)
ContractSafety ==
    Contract!ContractInit /\ [][Contract!ContractNext]_(Contract!contractVars)

\* The machinery implements the lifecycle, as far as safety goes.
THEOREM LifecycleIsKept ==
    ASSUME Orderly
    PROVE  Spec => ContractSafety
<1>1. Init => Contract!ContractInit
  BY DEF Init, StoreInit, Contract!ContractInit
<1>2. ContractInv /\ [Next]_vars => ContractInv'
  BY ContractStep
<1>3. ContractInv /\ [Next]_vars => [Contract!ContractNext]_(Contract!contractVars)
  BY ContractStep DEF LifecycleStep
<1> QED
  BY <1>1, <1>2, <1>3, ContractInitially, PTL DEF Spec, ContractSafety

=============================================================================
