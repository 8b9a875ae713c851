------------------------------- MODULE Retries -------------------------------
(***************************************************************************)
(* app/services/retries.py: the loop every Redis command and every task    *)
(* dispatch runs in.                                                       *)
(*                                                                         *)
(* A call over the network is a series of attempts.  An attempt either     *)
(* replies or raises a retryable error, and an attempt that raises may     *)
(* have taken effect all the same (a lost reply).  The loop repeats the    *)
(* attempt until it replies or CallRetries repetitions have been spent.    *)
(* Each attempt is one step of the caller, so that other processes run     *)
(* between two attempts of one call; the back-off delay is not modelled.   *)
(***************************************************************************)
EXTENDS Naturals, Failures

CONSTANT CallRetries  \* DEFAULT_MAX_RETRIES: repetitions after the first try

ASSUME RetriesAssumption == CallRetries \in Nat

(***************************************************************************)
(* One turn of the loop: a reply leaves it, an error repeats the attempt   *)
(* while retries are left and otherwise propagates to the caller.          *)
(***************************************************************************)
AfterAttempt(tries, replied, again, done, raised) ==
    IF replied THEN done
    ELSE IF tries < CallRetries THEN again ELSE raised

\* Mutant: the count also goes on after the last attempt.
TriesAfterUnbounded(tries, replied) ==
    IF ~replied THEN tries + 1 ELSE 0

TriesAfter(tries, replied) ==
    IF ~replied /\ tries < CallRetries THEN tries + 1 ELSE 0

=============================================================================
