-------------------------- MODULE RecordExpiryProofs --------------------------
(***************************************************************************)
(* Proofs about RecordExpiry, for any time to live, any number of runs and *)
(* any limit on a run that is shorter than the time to live (task limits   *)
(* in celery_service.py against REDIS_JOB_TTL in config.py).               *)
(***************************************************************************)
EXTENDS RecordExpiry, TLAPS

WriterPlace ==
    {"none", "over", "touch_processing", "work", "mark_completed", "touch_ended",
     "mark_failed", "touch_failed", "set_error"}

ExpiryTypeOK ==
    /\ left \in [Keys -> 0..TTL]
    /\ at \in [Writers -> WriterPlace]
    /\ elapsed \in [Writers -> 0..Limit]

(***************************************************************************)
(* The three properties speak of what is left of a key, and a key loses    *)
(* its life at the pace at which its writer spends its own: what a writer  *)
(* has set since it began lasts TTL less the time it has been writing.     *)
(***************************************************************************)
\* The keys of the first transaction expire together until a status follows.
PendingIsWhole ==
    value = "pending" =>
        left["payload"] = left["status"] /\ left["created_at"] = left["status"]

\* A run begins with the status, and its time begins then.
RunKeepsStatus ==
    /\ \A r \in Runs : at[r] = "none" => elapsed[r] = 0
    /\ \A r \in Runs : Active(r) => left["status"] + elapsed[r] >= TTL

\* Who is about to announce a result has stored it.
ResultIsFresh ==
    \A p \in Writers : at[p] = "mark_completed" => left["result"] + elapsed[p] >= TTL

ExpiryInv ==
    /\ ExpiryTypeOK
    /\ PendingIsWhole
    /\ RunKeepsStatus
    /\ ResultIsFresh
    /\ ResultLastsWithStatus

\* There is no record at first.
LEMMA ExpiryInitially == ExpiryInit => ExpiryInv
<1> SUFFICES ASSUME ExpiryInit
             PROVE  ExpiryInv
  OBVIOUS
<1>1. /\ left = [k \in Keys |-> 0] /\ elapsed = [p \in Writers |-> 0]
      /\ at = [p \in Writers |-> "none"] /\ value = "none"
  BY DEF ExpiryInit
<1>2. ExpiryTypeOK
  BY <1>1, ExpiryAssumption DEF ExpiryTypeOK, WriterPlace
<1>3. \A p \in Writers : ~Active(p) /\ at[p] = "none" /\ elapsed[p] = 0
  BY <1>1 DEF Active
<1> QED
  BY <1>1, <1>2, <1>3
  DEF ExpiryInv, PendingIsWhole, RunKeepsStatus, ResultIsFresh, ResultLastsWithStatus,
      Writers

(***************************************************************************)
(* A SET gives its keys the full time to live and leaves the others alone. *)
(***************************************************************************)
LEMMA SetRenews ==
    ASSUME ExpiryTypeOK, NEW keys \in SUBSET Keys, Set(keys)
    PROVE  /\ left' \in [Keys -> 0..TTL]
           /\ \A k \in keys : left'[k] = TTL
           /\ \A k \in Keys \ keys : left'[k] = left[k]
           /\ \A k \in Keys : left'[k] >= left[k]
  BY ExpiryAssumption DEF ExpiryTypeOK, Set

(***************************************************************************)
(* A write by p takes no time.  It may touch any keys but those of the     *)
(* first transaction without a new status, and p does not go on to write a *)
(* result's status unless it has just stored the result.                   *)
(***************************************************************************)
LEMMA WriteKeepsExpiry ==
    ASSUME ExpiryInv, NEW p \in Writers, NEW place \in WriterPlace \ {"none"},
           Active(p), Go(p, place), UNCHANGED elapsed,
           left' \in [Keys -> 0..TTL],
           \A k \in Keys : left'[k] >= left[k],
           value' = "pending" => UNCHANGED <<value, left["payload"], left["status"],
                                             left["created_at"]>>,
           place = "mark_completed" => left'["result"] = TTL,
           ResultLastsWithStatus'
    PROVE  ExpiryInv'
<1>1. /\ at \in [Writers -> WriterPlace] /\ elapsed \in [Writers -> 0..Limit]
      /\ left \in [Keys -> 0..TTL]
      /\ {"status", "payload", "created_at", "result"} \subseteq Keys
      /\ Limit \in Nat /\ TTL \in Nat
  BY ExpiryAssumption DEF ExpiryInv, ExpiryTypeOK, Keys
<1>2. /\ at' \in [Writers -> WriterPlace]
      /\ at'[p] = place
      /\ \A q \in Writers : q # p => at'[q] = at[q]
  BY <1>1 DEF Go
<1>3. ExpiryTypeOK'
  BY <1>1, <1>2 DEF ExpiryTypeOK
<1>4. PendingIsWhole'
  BY DEF ExpiryInv, PendingIsWhole
<1>5. RunKeepsStatus'
  <2>1. ASSUME NEW r \in Runs, at'[r] = "none"
        PROVE  elapsed'[r] = 0
    BY <1>2, <2>1 DEF ExpiryInv, RunKeepsStatus, Writers
  <2>2. ASSUME NEW r \in Runs, Active(r)'
        PROVE  left'["status"] + elapsed'[r] >= TTL
    <3>1. Active(r) /\ r \in Writers
      BY <1>2, <2>2 DEF Active, Writers
    <3>2. left["status"] + elapsed[r] >= TTL
      BY <3>1 DEF ExpiryInv, RunKeepsStatus
    <3>3. left'["status"] >= left["status"] /\ elapsed'[r] = elapsed[r]
      BY <1>1
    <3> QED
      BY <1>1, <3>1, <3>2, <3>3
  <2> QED
    BY <2>1, <2>2 DEF RunKeepsStatus
<1>6. ResultIsFresh'
  <2> SUFFICES ASSUME NEW q \in Writers, at'[q] = "mark_completed"
               PROVE  left'["result"] + elapsed'[q] >= TTL
    BY DEF ResultIsFresh
  <2>1. /\ left["result"] \in 0..TTL /\ left'["result"] \in 0..TTL
        /\ left'["result"] >= left["result"]
        /\ elapsed'[q] = elapsed[q] /\ elapsed[q] \in 0..Limit
    BY <1>1
  <2>2. CASE q = p
    BY <1>1, <1>2, <2>1, <2>2
  <2>3. CASE q # p
    <3>1. left["result"] + elapsed[q] >= TTL
      BY <1>2, <2>3 DEF ExpiryInv, ResultIsFresh
    <3> QED
      BY <1>1, <2>1, <3>1
  <2> QED
    BY <2>2, <2>3
<1> QED
  BY <1>3, <1>4, <1>5, <1>6 DEF ExpiryInv

\* Every step, the passing of time included, keeps the order of the lives.
LEMMA ExpiryStep == ExpiryInv /\ [ExpiryNext]_expiryVars => ExpiryInv'
<1> SUFFICES ASSUME ExpiryInv, [ExpiryNext]_expiryVars
             PROVE  ExpiryInv'
  OBVIOUS
<1> DEFINE First == {"status", "payload", "created_at", "updated_at"}
<1>1. /\ at \in [Writers -> WriterPlace] /\ elapsed \in [Writers -> 0..Limit]
      /\ left \in [Keys -> 0..TTL] /\ ExpiryTypeOK
  BY DEF ExpiryInv, ExpiryTypeOK
<1>2. /\ Limit \in Nat /\ TTL \in Nat /\ Limit < TTL
      /\ Runs \subseteq Writers /\ Api \in Writers \ Runs
  BY ExpiryAssumption DEF Writers
<1>3. First \union {"result", "error"} \subseteq Keys
  BY DEF Keys
<1>4. CASE Create
  <2>1. /\ Set(First) /\ value' = "pending" /\ UNCHANGED elapsed /\ at[Api] = "none"
    BY <1>4 DEF Create
  <2>2. PICK place \in {"over", "mark_failed"} : Go(Api, place)
    BY <1>4 DEF Create
  <2>3. /\ left' \in [Keys -> 0..TTL]
        /\ left'["status"] = TTL /\ left'["payload"] = TTL /\ left'["created_at"] = TTL
        /\ left'["result"] = left["result"]
    BY <1>1, <1>3, <2>1, SetRenews
  <2>4. /\ at' \in [Writers -> WriterPlace]
        /\ \A p \in Writers : p # Api => at'[p] = at[p]
        /\ at'[Api] # "mark_completed"
    BY <1>1, <1>2, <2>2 DEF Go, WriterPlace
  <2>5. RunKeepsStatus'
    BY <1>1, <1>2, <2>1, <2>3, <2>4 DEF ExpiryInv, RunKeepsStatus, Active
  <2>6. ResultIsFresh'
    BY <1>1, <1>2, <2>1, <2>3, <2>4 DEF ExpiryInv, ResultIsFresh
  <2> QED
    BY <1>1, <2>1, <2>3, <2>4, <2>5, <2>6
    DEF ExpiryInv, ExpiryTypeOK, PendingIsWhole, ResultLastsWithStatus
<1>5. ASSUME NEW r \in Runs, MarkProcessing(r)
      PROVE  ExpiryInv'
  <2>1. /\ Set({"status"}) /\ value' = "processing" /\ at[r] = "none" /\ UNCHANGED elapsed
        /\ Go(r, "touch_processing")
    BY <1>5 DEF MarkProcessing, SetStatus
  <2>2. /\ left' \in [Keys -> 0..TTL] /\ left'["status"] = TTL
        /\ left'["result"] = left["result"]
    BY <1>1, <1>3, <2>1, SetRenews
  <2>3. /\ at' \in [Writers -> WriterPlace]
        /\ \A p \in Writers : p # r => at'[p] = at[p]
        /\ at'[r] = "touch_processing"
    BY <1>1, <1>2, <2>1 DEF Go, WriterPlace
  <2>4. RunKeepsStatus'
    BY <1>1, <1>2, <2>1, <2>2, <2>3 DEF ExpiryInv, RunKeepsStatus, Active
  <2>5. ResultIsFresh'
    BY <1>1, <1>2, <2>1, <2>2, <2>3 DEF ExpiryInv, ResultIsFresh
  <2> QED
    BY <1>1, <2>1, <2>2, <2>3, <2>4, <2>5
    DEF ExpiryInv, ExpiryTypeOK, PendingIsWhole, ResultLastsWithStatus
<1>6. ASSUME NEW p \in Writers, NEW place \in WriterPlace \ {"none", "mark_completed"},
             Active(p), Go(p, place), UNCHANGED <<left, value, elapsed>>
      PROVE  ExpiryInv'
  <2>1. /\ left' \in [Keys -> 0..TTL]
        /\ \A k \in Keys : left'[k] >= left[k]
    BY <1>1, <1>2, <1>6
  <2>2. ResultLastsWithStatus'
    BY <1>6 DEF ExpiryInv, ResultLastsWithStatus
  <2> QED
    BY <1>6, <2>1, <2>2, WriteKeepsExpiry
<1>7. ASSUME NEW r \in Runs, Fail(r)
      PROVE  ExpiryInv'
  BY <1>2, <1>6, <1>7 DEF Fail, Active, WriterPlace
<1>8. ASSUME NEW p \in Writers, MarkCompleted(p)
      PROVE  ExpiryInv'
  <2>1. /\ Set({"status"}) /\ value' = "completed" /\ at[p] = "mark_completed"
        /\ UNCHANGED elapsed /\ Go(p, "touch_ended")
    BY <1>8 DEF MarkCompleted, SetStatus
  <2>2. /\ left' \in [Keys -> 0..TTL] /\ left'["status"] = TTL
        /\ left'["result"] = left["result"]
        /\ \A k \in Keys : left'[k] >= left[k]
    BY <1>1, <1>3, <2>1, SetRenews
  <2>3. left["result"] + elapsed[p] >= TTL
    BY <2>1 DEF ExpiryInv, ResultIsFresh
  <2>4. ResultLastsWithStatus'
    BY <1>1, <1>2, <1>3, <2>2, <2>3 DEF ResultLastsWithStatus
  <2> QED
    BY <2>1, <2>2, <2>4, WriteKeepsExpiry DEF Active, WriterPlace
<1>9. ASSUME NEW p \in Writers, MarkFailed(p)
      PROVE  ExpiryInv'
  <2>1. /\ Set({"status"}) /\ value' = "failed" /\ at[p] = "mark_failed"
        /\ UNCHANGED elapsed /\ Go(p, "touch_failed")
    BY <1>9 DEF MarkFailed, SetStatus
  <2>2. left' \in [Keys -> 0..TTL] /\ \A k \in Keys : left'[k] >= left[k]
    BY <1>1, <1>3, <2>1, SetRenews
  <2>3. ResultLastsWithStatus'
    BY <2>1 DEF ResultLastsWithStatus
  <2> QED
    BY <2>1, <2>2, <2>3, WriteKeepsExpiry DEF Active, WriterPlace
<1>10. ASSUME NEW p \in Writers, NEW key \in {"updated_at", "result", "error"},
              NEW place \in WriterPlace \ {"none"}, Active(p), Go(p, place), Set({key}),
              UNCHANGED <<value, elapsed>>, place = "mark_completed" => key = "result"
       PROVE  ExpiryInv'
  <2>1. /\ left' \in [Keys -> 0..TTL] /\ \A k \in Keys : left'[k] >= left[k]
        /\ left'["status"] = left["status"] /\ left'["payload"] = left["payload"]
        /\ left'["created_at"] = left["created_at"]
        /\ left'[key] = TTL
    BY <1>1, <1>3, <1>10, SetRenews
  <2>2. ResultLastsWithStatus'
    BY <1>1, <1>2, <1>3, <1>10, <2>1 DEF ExpiryInv, ResultLastsWithStatus
  <2> QED
    BY <1>10, <2>1, <2>2, WriteKeepsExpiry
<1>11. ASSUME NEW p \in Writers, Touch(p)
       PROVE  ExpiryInv'
  <2>1. /\ at[p] \in {"touch_processing", "touch_ended", "touch_failed"}
        /\ AfterTouch[at[p]] \in {"work", "over", "set_error"}
    BY <1>11 DEF Touch, AfterTouch
  <2> QED
    BY <1>10, <1>11, <2>1 DEF Touch, Active, WriterPlace
<1>12. ASSUME NEW p \in Writers, SetResult(p)
       PROVE  ExpiryInv'
  BY <1>10, <1>12 DEF SetResult, Active, WriterPlace
<1>13. ASSUME NEW p \in Writers, SetError(p)
       PROVE  ExpiryInv'
  BY <1>10, <1>13 DEF SetError, Active, WriterPlace
<1>14. ASSUME NEW p \in Writers, Stop(p)
       PROVE  ExpiryInv'
  BY <1>6, <1>14 DEF Stop, WriterPlace
<1>15. CASE Tick
  <2>1. /\ \A p \in Writers : Active(p) => elapsed[p] < Limit
        /\ left' = [k \in Keys |-> IF left[k] \in 1..TTL THEN left[k] - 1 ELSE left[k]]
        /\ elapsed' = [p \in Writers |-> IF Active(p) THEN elapsed[p] + 1 ELSE elapsed[p]]
        /\ UNCHANGED <<value, at>>
    BY <1>15 DEF Tick
  <2>2. \A k \in Keys : /\ left[k] = 0 => left'[k] = 0
                        /\ left[k] > 0 => left'[k] = left[k] - 1
    BY <1>1, <1>2, <2>1
  <2>3. left' \in [Keys -> 0..TTL] /\ elapsed' \in [Writers -> 0..Limit]
    BY <1>1, <1>2, <2>1
  <2>4. ASSUME NEW p \in Writers, Active(p)
        PROVE  Active(p)' /\ elapsed'[p] = elapsed[p] + 1
    BY <2>1, <2>4 DEF Active
  <2>5. PendingIsWhole'
    BY <1>1, <1>2, <1>3, <2>1, <2>2 DEF ExpiryInv, PendingIsWhole
  <2>6. RunKeepsStatus'
    <3>1. ASSUME NEW r \in Runs, at'[r] = "none"
          PROVE  elapsed'[r] = 0
      BY <1>2, <2>1, <3>1 DEF ExpiryInv, RunKeepsStatus, Active
    <3>2. ASSUME NEW r \in Runs, Active(r)'
          PROVE  left'["status"] + elapsed'[r] >= TTL
      <4>1. Active(r)
        BY <2>1, <3>2 DEF Active
      <4>2. left["status"] + elapsed[r] >= TTL /\ elapsed'[r] = elapsed[r] + 1
        BY <1>2, <2>4, <4>1 DEF ExpiryInv, RunKeepsStatus
      <4> QED
        BY <1>1, <1>2, <1>3, <2>2, <4>2
    <3> QED
      BY <3>1, <3>2 DEF RunKeepsStatus
  <2>7. ResultIsFresh'
    <3> SUFFICES ASSUME NEW p \in Writers, at'[p] = "mark_completed"
                 PROVE  left'["result"] + elapsed'[p] >= TTL
      BY DEF ResultIsFresh
    <3>1. at[p] = "mark_completed" /\ Active(p)
      BY <2>1 DEF Active
    <3>2. left["result"] + elapsed[p] >= TTL /\ elapsed'[p] = elapsed[p] + 1
      BY <2>4, <3>1 DEF ExpiryInv, ResultIsFresh
    <3> QED
      BY <1>1, <1>2, <1>3, <2>2, <3>2
  <2>8. ResultLastsWithStatus'
    BY <1>1, <1>2, <1>3, <2>1, <2>2 DEF ExpiryInv, ResultLastsWithStatus
  <2> QED
    BY <1>1, <2>1, <2>3, <2>5, <2>6, <2>7, <2>8 DEF ExpiryInv, ExpiryTypeOK
<1>16. CASE UNCHANGED expiryVars
  BY <1>16
  DEF expiryVars, ExpiryInv, ExpiryTypeOK, PendingIsWhole, RunKeepsStatus, ResultIsFresh,
      ResultLastsWithStatus, Active
<1> QED
  BY <1>4, <1>5, <1>7, <1>8, <1>9, <1>11, <1>12, <1>13, <1>14, <1>15, <1>16
  DEF ExpiryNext, Progress

\* And so it holds in every behaviour.
LEMMA ExpiryInvariant == ExpirySpec => []ExpiryInv
  BY ExpiryInitially, ExpiryStep, PTL DEF ExpirySpec

-----------------------------------------------------------------------------
(***************************************************************************)
(* A pending job that has not expired has the payload and the creation     *)
(* time that GET /jobs/{id} answers with: create_job writes them with the  *)
(* status, and they expire with it.                                        *)
(***************************************************************************)
THEOREM PendingIsAnswerable == ExpirySpec => []PendingHasPayload
<1>1. ExpiryInv => PendingHasPayload
  BY DEF ExpiryInv, PendingIsWhole, PendingHasPayload, Present
<1> QED
  BY <1>1, ExpiryInvariant, PTL

(***************************************************************************)
(* A job is not unknown to GET /jobs/{id} while one of its runs writes,    *)
(* since a run is over before the status it began with expires.            *)
(***************************************************************************)
THEOREM RunsAreVisible == ExpirySpec => []RunningIsVisible
<1>1. ExpiryInv => RunningIsVisible
  <2> SUFFICES ASSUME ExpiryInv, NEW r \in Runs, Active(r)
               PROVE  left["status"] > 0
    BY DEF RunningIsVisible, Present
  <2>1. left["status"] + elapsed[r] >= TTL
    BY DEF ExpiryInv, RunKeepsStatus
  <2>2. left["status"] \in 0..TTL /\ elapsed[r] \in 0..Limit
    BY DEF ExpiryInv, ExpiryTypeOK, Keys, Writers
  <2> QED
    BY <2>1, <2>2, ExpiryAssumption
<1> QED
  BY <1>1, ExpiryInvariant, PTL

(***************************************************************************)
(* The result of a completed job expires at most one run's length before   *)
(* the status, whatever earlier and overlapping runs wrote and whenever    *)
(* they stopped.                                                           *)
(***************************************************************************)
THEOREM ResultOutlastsPolls == ExpirySpec => []ResultLastsWithStatus
<1>1. ExpiryInv => ResultLastsWithStatus
  BY DEF ExpiryInv
<1> QED
  BY <1>1, ExpiryInvariant, PTL

=============================================================================
