----------------------------- MODULE Readiness -----------------------------
(***************************************************************************)
(* The check that the dashboard makes when it starts,                      *)
(* frontend/src/main.tsx: GET /ready, with a limit on each request and on  *)
(* the number of attempts.  The request timer runs from the request to the *)
(* end of the attempt.  A check can only be started again once it has      *)
(* failed, because the button is not there before: the run counter and     *)
(* the abort of an older run serve the end of the page, which is left out. *)
(*                                                                         *)
(* An operator whose comment starts with DEFECT is a plausible mistake in  *)
(* the operator after it, which the specification does not use.            *)
(***************************************************************************)
EXTENDS Naturals

CONSTANT MaxAttempts  \* READINESS_MAX_ATTEMPTS

ASSUME ReadinessAssumption == MaxAttempts \in Nat \ {0}

VARIABLES
  backendReadiness,  \* what the dashboard shows
  attempt,           \* the argument of check
  request,           \* "none", or what the attempt is waiting for
  retry              \* whether the retry timer is running

readinessVars == <<backendReadiness, attempt, request, retry>>

ReadinessTypeOK ==
  /\ backendReadiness \in {"checking", "ready", "failed"}
  /\ attempt \in 1..MaxAttempts
  /\ request \in {"none", "response", "body"}
  /\ retry \in BOOLEAN

\* The effect that runs when the page has been rendered.
ReadinessInit ==
  /\ backendReadiness = "checking"
  /\ attempt = 1 /\ request = "response" /\ retry = FALSE

\* DEFECT: one attempt too many.
AttemptFailsLate ==
  /\ request' = "none"
  /\ IF attempt > MaxAttempts
     THEN backendReadiness' = "failed" /\ UNCHANGED retry
     ELSE retry' = TRUE /\ UNCHANGED backendReadiness
  /\ UNCHANGED attempt

\* catch and finally of an attempt.
AttemptFails ==
  /\ request' = "none"
  /\ IF attempt >= MaxAttempts
     THEN backendReadiness' = "failed" /\ UNCHANGED retry
     ELSE retry' = TRUE /\ UNCHANGED backendReadiness
  /\ UNCHANGED attempt

\* The response is there: its body is read if its status is a success.
Responds ==
  /\ request = "response"
  /\ \/ request' = "body" /\ UNCHANGED <<backendReadiness, attempt, retry>>
     \/ AttemptFails

\* The body is there: it may not be what /ready promises.
BodyRead ==
  /\ request = "body"
  /\ \/ /\ backendReadiness' = "ready" /\ request' = "none"
        /\ UNCHANGED <<attempt, retry>>
     \/ AttemptFails

\* DEFECT: the timer is stopped when the response arrives.
TimesOutEarly ==
  request = "response" /\ AttemptFails

\* The request timer: the promise is rejected, or the body aborted.
TimesOut ==
  request # "none" /\ AttemptFails

Retry ==
  /\ retry
  /\ retry' = FALSE /\ attempt' = attempt + 1 /\ request' = "response"
  /\ UNCHANGED backendReadiness

\* startReadinessCheck, from the button.
TryAgain ==
  /\ backendReadiness = "failed"
  /\ backendReadiness' = "checking"
  /\ attempt' = 1 /\ request' = "response" /\ retry' = FALSE

ReadinessNext == Responds \/ BodyRead \/ TimesOut \/ Retry \/ TryAgain

\* Timers run down.  Nothing is assumed of the network and the backend.
ReadinessFairness ==
  WF_readinessVars(TimesOut) /\ WF_readinessVars(Retry)

\* Every check comes to an end, whatever the backend does or fails to do.
CheckSettles ==
  backendReadiness = "checking" ~> backendReadiness # "checking"
=============================================================================
