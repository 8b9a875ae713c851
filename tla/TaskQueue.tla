------------------------------ MODULE TaskQueue ------------------------------
(***************************************************************************)
(* app/services/celery_service.py: the queue between the API and the       *)
(* workers (RabbitMQ, driven through Celery).                              *)
(*                                                                         *)
(* A task message names its job and the number of retries behind it.  The  *)
(* queue is a bag: several consumers, redelivery and the countdown of a    *)
(* retry make the order of delivery arbitrary.  A delivered message leaves *)
(* "ready" and is held by the worker until acknowledged, which, with late  *)
(* acknowledgement, is after the task has ended.                           *)
(***************************************************************************)
EXTENDS Naturals, Failures

CONSTANT
    MaxRetries   \* WORKER_MAX_RETRIES

ASSUME MaxRetriesAssumption == MaxRetries \in Nat

Message == [job : Jobs, retries : 0..MaxRetries]

VARIABLE ready   \* ready[m]: the copies of m waiting for a worker

queueVars == <<ready>>

QueueInit == ready = [m \in Message |-> 0]

Enqueue(m) == ready' = [ready EXCEPT ![m] = @ + 1]

\* Messages are published without publisher confirms.
PublishAttempt(sent, returned) ==
    IF returned THEN sent \/ "broker_loss" \in Faults
    ELSE IF sent THEN "api_broker_dup" \in Faults
    ELSE "api_broker" \in Faults

\* The publish of a retry is not repeated: its failure rejects the task.
RetryPublishAttempt(sent) ==
    sent \/ {"worker_broker", "broker_loss"} \intersect Faults # {}

Publish(m, sent) == IF sent THEN Enqueue(m) ELSE UNCHANGED ready

Deliver(m) ==
    /\ ready[m] > 0
    /\ ready' = [ready EXCEPT ![m] = @ - 1]

=============================================================================
