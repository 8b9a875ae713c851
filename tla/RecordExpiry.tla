----------------------------- MODULE RecordExpiry -----------------------------
(***************************************************************************)
(* app/services/redis_service.py: the keys of one job's record and their   *)
(* time to live.  Every SET of a key gives that key, and no other, the     *)
(* full REDIS_JOB_TTL again, so that the parts of a record expire one by   *)
(* one.                                                                    *)
(*                                                                         *)
(* The writers are the request that creates the job and the runs of its    *)
(* task (retries, redeliveries), which may overlap.  A command that fails  *)
(* is a writer that stops, before or after the command.  How long a task   *)
(* waits in the queue has no bound; how long a writer takes has one.       *)
(***************************************************************************)
EXTENDS Naturals

CONSTANTS
    TTL,    \* REDIS_JOB_TTL
    Limit,  \* task_time_limit, which also bounds the request
    Runs,   \* the runs of the task in a behaviour
    Api     \* the request

ASSUME ExpiryAssumption ==
    /\ TTL \in Nat /\ Limit \in Nat /\ Limit < TTL
    /\ Api \notin Runs

Keys == {"status", "payload", "created_at", "updated_at", "result", "error"}

Writers == Runs \union {Api}

VARIABLES
    left,     \* left[k]: what is left of the life of key k, 0 if it is gone
    value,    \* the value of the status key
    at,       \* at[p]: the next write of p
    elapsed   \* elapsed[p]: how long p has been writing

expiryVars == <<left, value, at, elapsed>>

Forever == TTL + 1   \* a key that was set without a time to live

ExpiryInit ==
    /\ left = [k \in Keys |-> 0]
    /\ value = "none"
    /\ at = [p \in Writers |-> "none"]
    /\ elapsed = [p \in Writers |-> 0]

Active(p) == at[p] \notin {"none", "over"}

Set(keys) == left' = [k \in Keys |-> IF k \in keys THEN TTL ELSE left[k]]

Go(p, place) == at' = [at EXCEPT ![p] = place]

-----------------------------------------------------------------------------
\* Mutant: one command per key, and the request may die between two.
CreateKeyByKey ==
    /\ at[Api] = "none"
    /\ \E keys \in {{"status"}, {"status", "payload"}} : Set(keys)
    /\ value' = "pending"
    /\ \E place \in {"over", "mark_failed"} : Go(Api, place)
    /\ UNCHANGED elapsed

\* One transaction.  The request is done with it, or has to mark the job
\* failed because the dispatch failed.
Create ==
    /\ at[Api] = "none"
    /\ Set({"status", "payload", "created_at", "updated_at"})
    /\ value' = "pending"
    /\ \E place \in {"over", "mark_failed"} : Go(Api, place)
    /\ UNCHANGED elapsed

\* Mutant: a status that is overwritten keeps its time to live.
SetStatusKeepingTTL(s) ==
    /\ left' = [left EXCEPT !["status"] = IF @ = 0 THEN TTL ELSE @]
    /\ value' = s

SetStatus(s) == Set({"status"}) /\ value' = s

\* update_status: the status, and in a command of its own the update time.
MarkProcessing(r) ==
    /\ at[r] = "none" /\ at[Api] # "none"
    /\ SetStatus("processing")
    /\ Go(r, "touch_processing")
    /\ UNCHANGED elapsed

MarkCompleted(r) ==
    /\ at[r] = "mark_completed"
    /\ SetStatus("completed")
    /\ Go(r, "touch_ended")
    /\ UNCHANGED elapsed

MarkFailed(p) ==
    /\ at[p] = "mark_failed"
    /\ SetStatus("failed")
    /\ Go(p, "touch_failed")
    /\ UNCHANGED elapsed

AfterTouch == [touch_processing |-> "work", touch_ended |-> "over", touch_failed |-> "set_error"]

Touch(p) ==
    /\ at[p] \in DOMAIN AfterTouch
    /\ Set({"updated_at"})
    /\ Go(p, AfterTouch[at[p]])
    /\ UNCHANGED <<value, elapsed>>

\* Mutant: the result is not stored if there is one from an earlier run.
SetResultOnce(r) ==
    /\ at[r] = "work"
    /\ IF left["result"] = 0 THEN Set({"result"}) ELSE UNCHANGED left
    /\ Go(r, "mark_completed")
    /\ UNCHANGED <<value, elapsed>>

SetResult(r) ==
    /\ at[r] = "work"
    /\ Set({"result"})
    /\ Go(r, "mark_completed")
    /\ UNCHANGED <<value, elapsed>>

\* The task fails, before or after its result was stored.
Fail(r) ==
    /\ at[r] \in {"touch_processing", "work", "mark_completed", "touch_ended"}
    /\ Go(r, "mark_failed")
    /\ UNCHANGED <<left, value, elapsed>>

\* Mutant: the message is stored without a time to live.
SetErrorForever(p) ==
    /\ at[p] = "set_error"
    /\ left' = [left EXCEPT !["error"] = Forever]
    /\ Go(p, "over")
    /\ UNCHANGED <<value, elapsed>>

SetError(p) ==
    /\ at[p] = "set_error"
    /\ Set({"error"})
    /\ Go(p, "over")
    /\ UNCHANGED <<value, elapsed>>

\* A crash, the hard time limit, or an error that nothing handles.
Stop(p) ==
    /\ Active(p)
    /\ Go(p, "over")
    /\ UNCHANGED <<left, value, elapsed>>

Progress(p) ==
    MarkCompleted(p) \/ MarkFailed(p) \/ Touch(p) \/ SetResult(p) \/ SetError(p) \/ Stop(p)

\* Time passes for the keys, and for the writers that are at work.
Tick ==
    /\ \A p \in Writers : Active(p) => elapsed[p] < Limit
    /\ \/ \E k \in Keys : left[k] \in 1..TTL
       \/ \E p \in Writers : Active(p)
    /\ left' = [k \in Keys |-> IF left[k] \in 1..TTL THEN left[k] - 1 ELSE left[k]]
    /\ elapsed' = [p \in Writers |-> IF Active(p) THEN elapsed[p] + 1 ELSE elapsed[p]]
    /\ UNCHANGED <<value, at>>

ExpiryNext ==
    \/ Create
    \/ \E r \in Runs : MarkProcessing(r) \/ Fail(r)
    \/ \E p \in Writers : Progress(p)
    \/ Tick

(***************************************************************************)
(* Time passes, and a writer that has begun writes on or stops.            *)
(***************************************************************************)
ExpirySpec ==
    /\ ExpiryInit /\ [][ExpiryNext]_expiryVars
    /\ WF_expiryVars(Tick)
    /\ \A p \in Writers : WF_expiryVars(Progress(p))

-----------------------------------------------------------------------------
Present(k) == left[k] > 0

(***************************************************************************)
(* create_job: "a crash between writes can never leave a pending job       *)
(* without its payload", and expiry does not either: a poll that answers   *)
(* pending has the operations and the creation time to answer with.        *)
(***************************************************************************)
PendingHasPayload ==
    Present("status") /\ value = "pending" => Present("payload") /\ Present("created_at")

(***************************************************************************)
(* A job that is being run is not unknown to GET /jobs/{id}, however long  *)
(* it waited before: the run revives the status and ends before it expires.*)
(***************************************************************************)
RunningIsVisible == \A r \in Runs : Active(r) => Present("status")

(***************************************************************************)
(* The result is stored before the status that announces it, and expires   *)
(* before it, but by no more than a run may take: for the rest of its life *)
(* a completed job has the result the download link is made from, whatever *)
(* earlier or overlapping runs wrote.                                      *)
(***************************************************************************)
ResultLastsWithStatus ==
    value = "completed" => left["status"] <= left["result"] + Limit

(***************************************************************************)
(* config.py: the TTL is there so that jobs "are garbage-collected instead *)
(* of accumulating forever".  Once the runs of a job are over, no key of   *)
(* it stays, also of one recreated after it had expired.                   *)
(***************************************************************************)
Collected == <>[](\A k \in Keys : ~Present(k))

=============================================================================
