------------------------------ MODULE JobStore ------------------------------
(***************************************************************************)
(* app/services/redis_service.py: the record of a job in Redis.            *)
(*                                                                         *)
(* A job owns a status key, an error key and a result key.  The payload    *)
(* and the creation time are written in the same transaction as the first  *)
(* status and never again, and the update time follows each status, so     *)
(* none of the three is a variable.  Every write takes the flag "applied": *)
(* FALSE is an attempt whose command did not reach Redis.  The expiry of   *)
(* the keys is left out.                                                   *)
(***************************************************************************)
EXTENDS Failures

VARIABLES
    status,   \* jobs:{job_id}:status, "absent" while there is no such key
    error,    \* TRUE once jobs:{job_id}:error is set
    result    \* the object keys named by jobs:{job_id}:result, {} if unset

storeVars == <<status, error, result>>

JobStatus == {"pending", "processing", "completed", "failed"}

Terminal == {"completed", "failed"}

StoreInit ==
    /\ status = [j \in Jobs |-> "absent"]
    /\ error = [j \in Jobs |-> FALSE]
    /\ result = [j \in Jobs |-> {}]

\* A command that replies was executed; one that raises may have been.
RedisAttempt(applied, replied) ==
    IF replied THEN applied ELSE "redis" \in Faults

CreateJob(j, applied) ==
    /\ status' = IF applied THEN [status EXCEPT ![j] = "pending"] ELSE status
    /\ UNCHANGED <<error, result>>

\* update_status is two SETs, of the status and of the update time.  The
\* second one failing is, for this model, a first one without a reply.
UpdateStatus(j, s, applied) ==
    /\ status' = IF applied THEN [status EXCEPT ![j] = s] ELSE status
    /\ UNCHANGED <<error, result>>

SetError(j, applied) ==
    /\ error' = IF applied THEN [error EXCEPT ![j] = TRUE] ELSE error
    /\ UNCHANGED <<status, result>>

SetResult(j, keys, applied) ==
    /\ result' = IF applied THEN [result EXCEPT ![j] = keys] ELSE result
    /\ UNCHANGED <<status, error>>

=============================================================================
