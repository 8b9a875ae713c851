---------------------------- MODULE PollingProofs ----------------------------
(***************************************************************************)
(* Proofs about Polling: what a client reads key by key while the worker   *)
(* writes agrees with the order the worker writes in.  They rest on the    *)
(* invariant ReportInv of MediaJobsProofs, and nothing is assumed of the   *)
(* failures.                                                               *)
(***************************************************************************)
EXTENDS Polling, MediaJobsProofs

(***************************************************************************)
(* The service deletes no processed object (Bucket).                       *)
(***************************************************************************)
LEMMA ObjectsStay ==
    ASSUME TypeOK, [Next]_vars, NEW j \in Jobs
    PROVE  objects'[j] >= objects[j]
<1> USE DEF bucketVars
<1>1. objects \in [Jobs -> Nat]
  BY DEF TypeOK
<1>2. ASSUME NEW i \in Jobs,
             \/ ClientUpload(i) \/ SourceDisappears(i) \/ Submit(i) \/ ApiCrash(i)
             \/ RequestStep(i)
      PROVE  objects' = objects
  BY <1>2
  DEF ClientUpload, PutSource, SourceDisappears, DeleteSource, Submit, ApiCrash,
      RequestStep, RegisterJob, Dispatch, MarkDispatchFailed, RecordDispatchError
<1>3. ASSUME NEW w \in Workers, WorkerStep(w)
      PROVE  objects' = objects \/ objects' = [objects EXCEPT ![Job(w)] = objects[Job(w)] + 1]
  BY <1>3
  DEF WorkerStep, Receive, MarkProcessing, Download, Process, Upload, StoreResult,
      MarkCompleted, ObserveEndToEnd, ScheduleRetry, MarkFailed, RecordError,
      Acknowledge, UploadFile, FreshKey
<1>4. ASSUME NEW w \in Workers, Interruption(w)
      PROVE  objects' = objects
  BY <1>4
  DEF Interruption, WorkerCrash, Disconnect, SoftTimeLimit, LimitInPipeline, LimitInRetry,
      LimitInOnFailure, HardTimeLimit
<1>5. CASE UNCHANGED vars
  BY <1>1, <1>5 DEF vars
<1> QED
  BY <1>1, <1>2, <1>3, <1>4, <1>5 DEF Next, Rest

(***************************************************************************)
(* A stored result is replaced by complete results only: set_result is     *)
(* called when every output of the run has been uploaded.                  *)
(***************************************************************************)
LEMMA ResultsComplete ==
    ASSUME ReportInv, [Next]_vars, NEW j \in Jobs
    PROVE  result'[j] = result[j] \/ AllOutputs(j, result'[j])
<1> USE DEF storeVars
<1>1. TypeOK /\ result \in [Jobs -> SUBSET (Nat \ {0})]
  BY DEF ReportInv, TypeOK
<1>2. ASSUME NEW i \in Jobs,
             \/ ClientUpload(i) \/ SourceDisappears(i) \/ Submit(i) \/ ApiCrash(i)
             \/ RequestStep(i)
      PROVE  result' = result
  BY <1>2
  DEF ClientUpload, SourceDisappears, Submit, ApiCrash, RequestStep, RegisterJob,
      CreateJob, Dispatch, MarkDispatchFailed, UpdateStatus, RecordDispatchError, SetError
<1>3. ASSUME NEW w \in Workers, WorkerStep(w)
      PROVE  result'[j] = result[j] \/ AllOutputs(j, result'[j])
  <2>1. CASE StoreResult(w)
    <3>1. /\ AllOutputs(Job(w), outputs[w])
          /\ \/ result' = result
             \/ result' = [result EXCEPT ![Job(w)] = outputs[w]]
      BY <2>1 DEF StoreResult, SetResult, ReportInv, Reportable
    <3> QED
      BY <1>1, <3>1
  <2>2. CASE ~StoreResult(w)
    BY <1>3, <2>2
    DEF WorkerStep, Receive, MarkProcessing, Download, Process, Upload, MarkCompleted,
        ObserveEndToEnd, ScheduleRetry, MarkFailed, RecordError, Acknowledge,
        UpdateStatus, SetError
  <2> QED
    BY <2>1, <2>2
<1>4. ASSUME NEW w \in Workers, Interruption(w)
      PROVE  result' = result
  BY <1>4
  DEF Interruption, WorkerCrash, Disconnect, SoftTimeLimit, LimitInPipeline, LimitInRetry,
      LimitInOnFailure, HardTimeLimit
<1>5. CASE UNCHANGED vars
  BY <1>5 DEF vars
<1> QED
  BY <1>2, <1>3, <1>4, <1>5 DEF Next, Rest

(***************************************************************************)
(* Keys that are all outputs of a job stay so, and so does a stored result *)
(* that is complete, whatever reruns of the job do to it.                  *)
(***************************************************************************)
LEMMA KeysStayComplete ==
    ASSUME ReportInv, [Next]_vars, NEW j \in Jobs, NEW keys, AllOutputs(j, keys)
    PROVE  keys \subseteq 1..objects'[j] /\ Cardinality(keys) = Outputs[j]
  BY TypeStep, ObjectsStay, AllOutputsKept DEF ReportInv

\* The same of the result in the record.
LEMMA ResultStaysComplete ==
    ASSUME ReportInv, [Next]_vars, NEW j \in Jobs, AllOutputs(j, result[j])
    PROVE  AllOutputs(j, result[j])'
  <1>1. AllOutputs(j, result'[j])
    BY ResultsComplete
  <1>2. /\ result'[j] \subseteq 1..objects'[j]
        /\ Cardinality(result'[j]) = Outputs[j]
    BY <1>1, KeysStayComplete
  <1> QED
    BY <1>2 DEF AllOutputs

(***************************************************************************)
(* All outputs of a job are at least one, the result itself.               *)
(***************************************************************************)
LEMMA SomeOutput ==
    ASSUME NEW j \in Jobs, NEW keys, AllOutputs(j, keys)
    PROVE  keys # {}
  BY OutputsAssumption, FS_EmptySet DEF AllOutputs

-----------------------------------------------------------------------------
\* What a poll knows at each of its places.  Once it has seen "completed",
\* the result that it has still to read, and the one it has read, are whole.
PollKnows ==
    /\ poll.at # "idle" => poll.job \in Jobs
    /\ poll.at = "read_result" /\ poll.status = "completed"
         => AllOutputs(poll.job, result[poll.job])
    /\ poll.at \in {"read_error", "job"} /\ poll.status = "completed"
         => AllOutputs(poll.job, poll.result)
    /\ poll.at = "read_key" => AllOutputs(poll.job, result[poll.job])
    /\ poll.at = "link" => AllOutputs(poll.job, poll.result)
    /\ poll.at # "no_result"

PollInv == ReportInv /\ PollKnows

\* Nothing has been polled at first.
LEMMA PollInitially == Init /\ PollInit => PollInv
<1> SUFFICES ASSUME Init, PollInit
             PROVE  PollInv
  OBVIOUS
<1>1. ReportInv
  BY TypeInit DEF Init, StoreInit, ReportInv, Reportable, CompletedIsReported
<1>2. poll.at = "idle"
  BY DEF PollInit, NoPoll
<1> QED
  BY <1>1, <1>2 DEF PollInv, PollKnows

(***************************************************************************)
(* The machinery goes on between two reads of a poll.                      *)
(***************************************************************************)
LEMMA MachineryKeepsPolls ==
    ASSUME PollInv, [Next]_vars, UNCHANGED poll
    PROVE  PollInv'
<1>1. ReportInv /\ PollKnows /\ ReportInv'
  BY ReportStep DEF PollInv
<1>2. ASSUME poll.at \in {"read_result", "read_key"}, AllOutputs(poll.job, result[poll.job])
      PROVE  AllOutputs(poll.job, result[poll.job])'
  <2>1. \A j \in Jobs : AllOutputs(j, result[j]) => AllOutputs(j, result[j])'
    BY <1>1, ResultStaysComplete
  <2> QED
    BY <1>1, <1>2, <2>1 DEF PollKnows, AllOutputs
<1>3. ASSUME poll.at \in {"read_error", "job", "link"}, AllOutputs(poll.job, poll.result)
      PROVE  AllOutputs(poll.job, poll.result)'
  <2>1. /\ poll.result \subseteq 1..objects'[poll.job]
        /\ Cardinality(poll.result) = Outputs[poll.job]
    BY <1>1, <1>3, KeysStayComplete DEF PollKnows
  <2> QED
    BY <2>1 DEF AllOutputs
<1> QED
  BY <1>1, <1>2, <1>3 DEF PollInv, PollKnows

(***************************************************************************)
(* One read of a poll, one step per read.                                  *)
(***************************************************************************)
LEMMA ReadsAgree ==
    ASSUME PollInv, PollStep, UNCHANGED vars
    PROVE  PollInv'
<1>1. ReportInv /\ PollKnows /\ ReportInv'
  <2>1. ReportInv /\ ReportInv'
    BY ReportStep DEF PollInv
  <2> QED
    BY <2>1 DEF PollInv
<1>2. UNCHANGED <<status, result, objects>>
  BY DEF vars, storeVars, bucketVars
<1>3. SUFFICES PollKnows'
  BY <1>1 DEF PollInv
<1>4. \A j \in Jobs : status[j] = "completed" => AllOutputs(j, result[j])
  BY <1>1 DEF ReportInv, CompletedIsReported
<1>5. ASSUME poll' = NoPoll
      PROVE  PollKnows'
  BY <1>5 DEF NoPoll, PollKnows
<1>6. ASSUME NEW j \in Jobs, GetJob(j)
      PROVE  PollKnows'
  <2>1. CASE poll' = [at |-> "read_result", job |-> j, status |-> status[j]]
    BY <1>2, <1>4, <2>1 DEF PollKnows, AllOutputs
  <2> QED
    BY <1>5, <1>6, <2>1 DEF GetJob
<1>7. CASE ReadResult
  BY <1>1, <1>2, <1>7 DEF ReadResult, PollKnows, AllOutputs
<1>8. CASE ReadError
  BY <1>1, <1>2, <1>8 DEF ReadError, PollKnows, AllOutputs
<1>9. ASSUME NEW j \in Jobs, GetDownloadUrl(j)
      PROVE  PollKnows'
  <2>1. CASE status[j] = "completed" /\ poll' = [at |-> "read_key", job |-> j]
    BY <1>2, <1>4, <2>1 DEF PollKnows, AllOutputs
  <2> QED
    BY <1>5, <1>9, <2>1 DEF GetDownloadUrl
<1>10. CASE ReadKey
  <2>1. poll.job \in Jobs /\ AllOutputs(poll.job, result[poll.job])
    BY <1>1, <1>10 DEF ReadKey, PollKnows
  <2>2. poll' = [at |-> "link", job |-> poll.job, result |-> result[poll.job]]
    BY <1>10, <2>1, SomeOutput DEF ReadKey
  <2> QED
    BY <1>2, <2>1, <2>2 DEF PollKnows, AllOutputs
<1>11. CASE PollFails
  BY <1>5, <1>11 DEF PollFails
<1> QED
  BY <1>6, <1>7, <1>8, <1>9, <1>10, <1>11 DEF PollStep

\* What a client knows stays true of the record, in every behaviour.
LEMMA PollInvariant == PollingSpec => []PollInv
<1>1. PollInv /\ [PollingNext]_pollVars => PollInv'
  <2> SUFFICES ASSUME PollInv, [PollingNext]_pollVars
               PROVE  PollInv'
    OBVIOUS
  <2>1. CASE Next /\ UNCHANGED poll
    BY <2>1, MachineryKeepsPolls
  <2>2. CASE PollStep /\ UNCHANGED vars
    BY <2>2, ReadsAgree
  <2>3. CASE UNCHANGED pollVars
    BY <2>3, MachineryKeepsPolls DEF pollVars
  <2> QED
    BY <2>1, <2>2, <2>3 DEF PollingNext
<1> QED
  BY <1>1, PollInitially, PTL DEF PollingSpec

(***************************************************************************)
(* GET /jobs/{id} reads the status, the result and the error one after the *)
(* other while workers rewrite them.  An answer that says "completed"      *)
(* names all outputs of the job, each of them in the bucket.               *)
(***************************************************************************)
THEOREM CompletedPollIsWhole == PollingSpec => []CompletedPollHasResult
<1>1. PollInv => CompletedPollHasResult
  BY DEF PollInv, PollKnows, CompletedPollHasResult
<1> QED
  BY <1>1, PollInvariant, PTL

(***************************************************************************)
(* GET /jobs/{id}/download-url reads the status and then the result key:   *)
(* between the two the key neither goes away nor loses its objects, so     *)
(* that "No result stored" is never answered for a completed job.          *)
(***************************************************************************)
THEOREM LinkIsGood == PollingSpec => []LinkLeadsSomewhere
<1>1. PollInv => LinkLeadsSomewhere
  BY DEF PollInv, PollKnows, LinkLeadsSomewhere
<1> QED
  BY <1>1, PollInvariant, PTL

=============================================================================
