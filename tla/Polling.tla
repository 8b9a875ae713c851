------------------------------- MODULE Polling -------------------------------
(***************************************************************************)
(* A client that polls: GET /jobs/{id} and GET /jobs/{id}/download-url     *)
(* (app/routers/job.py) beside the machinery of MediaJobs.                 *)
(*                                                                         *)
(* An answer is put together from one GET per Redis key, and the worker    *)
(* writes between them.  The payload and the times do not vary and are not *)
(* read here.  Polls only read, so that one client at a time stands for    *)
(* any number of them.                                                     *)
(***************************************************************************)
EXTENDS MediaJobs

VARIABLE poll   \* the request under way, or the last one answered

pollVars == <<vars, poll>>

Answered == {"job", "link", "no_result"}

PollPlace == {"idle", "read_result", "read_error", "read_key"} \union Answered

NoPoll == [at |-> "idle"]

PollInit == poll = NoPoll

Between == poll.at \in {"idle"} \union Answered

\* 404 for an unknown job is an answer of no interest, and so is 409.
GetJob(j) ==
    /\ Between
    /\ poll' = IF status[j] = "absent" THEN NoPoll
               ELSE [at |-> "read_result", job |-> j, status |-> status[j]]

ReadResult ==
    /\ poll.at = "read_result"
    /\ poll' = [at |-> "read_error", job |-> poll.job, status |-> poll.status,
                result |-> result[poll.job]]

ReadError ==
    /\ poll.at = "read_error"
    /\ poll' = [at |-> "job", job |-> poll.job, status |-> poll.status,
                result |-> poll.result, error |-> error[poll.job]]

GetDownloadUrl(j) ==
    /\ Between
    /\ poll' = IF status[j] # "completed" THEN NoPoll
               ELSE [at |-> "read_key", job |-> j]

ReadKey ==
    /\ poll.at = "read_key"
    /\ poll' = IF result[poll.job] = {} THEN [at |-> "no_result", job |-> poll.job]
               ELSE [at |-> "link", job |-> poll.job, result |-> result[poll.job]]

\* Redis does not answer (500), or the signing of the link fails (503).
PollFails ==
    /\ ~Between
    /\ {"redis", "s3"} \intersect Faults # {}
    /\ poll' = NoPoll

PollStep ==
    \/ \E j \in Jobs : GetJob(j)
    \/ \E j \in Jobs : GetDownloadUrl(j)
    \/ ReadResult \/ ReadError \/ ReadKey \/ PollFails

PollingNext ==
    \/ Next /\ UNCHANGED poll
    \/ PollStep /\ UNCHANGED vars

PollingSpec == Init /\ PollInit /\ [][PollingNext]_pollVars

-----------------------------------------------------------------------------
(***************************************************************************)
(* README.md: a poll "returns completed with the result_key".  The status  *)
(* is read first, the worker writes it last and a rerun of the job leaves  *)
(* the old result in place: an answer that says completed always carries   *)
(* the keys of all outputs, each of them in the bucket.                    *)
(***************************************************************************)
CompletedPollHasResult ==
    poll.at = "job" /\ poll.status = "completed" => AllOutputs(poll.job, poll.result)

(***************************************************************************)
(* GET /download-url of a completed job never answers "No result stored",  *)
(* and the link it signs leads to objects that exist.                      *)
(***************************************************************************)
LinkLeadsSomewhere ==
    /\ poll.at # "no_result"
    /\ poll.at = "link" => AllOutputs(poll.job, poll.result)

=============================================================================
