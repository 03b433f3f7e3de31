------------------------------ MODULE TwinClient ------------------------------
(***************************************************************************)
(* ImprovedGRPCDigitalTwinClient, through which the reasoner asks the      *)
(* digital twin of module DigitalTwin: a connection that is tested when it *)
(* is made, requests that are tried again after growing delays, and a      *)
(* circuit breaker around each request. There is one caller at a time.     *)
(*                                                                         *)
(* A twin that serves may answer too late; one that does not serve is not  *)
(* reached. Time passes in ticks.                                          *)
(***************************************************************************)
EXTENDS DigitalTwin

CONSTANTS
    MaxRetries,                \* max_retries
    FailureThreshold,          \* failure_threshold of the breaker
    RecoveryTicks              \* recovery_timeout

ASSUME ClientAssumption ==
    /\ MaxRetries \in Nat /\ FailureThreshold \in Nat \ {0} /\ RecoveryTicks \in Nat \ {0}

VARIABLES
    stub,             \* there is a connection
    breaker,          \* state, failure_count, ticks since last_failure_time
    call,             \* the call in progress: where, which attempt, ticks to sleep
    answer,           \* what the call has brought, until it is taken
    streak            \* history: requests failed in a row, ticks since the last of them

clientVars == <<stub, breaker, call, answer, streak>>

(* The delay after an attempt: retry_delay * retry_backoff_factor^attempt, *)
(* a second and twice as much each time.                                   *)
Delay[n \in 0..MaxRetries] == IF n = 0 THEN 1 ELSE 2 * Delay[n - 1]

ClientTypeOK ==
    /\ stub \in BOOLEAN
    /\ breaker \in [state : {"closed", "open", "half_open"}, failures : Nat, age : 0..RecoveryTicks]
    /\ call \in [at : {"idle", "tool_connect", "attempt", "connect", "request", "sleep"},
                attempt : 0..MaxRetries, sleep : 0..Delay[MaxRetries]]
    /\ answer \in {"none", "reply", "failed"}
    /\ streak \in [failures : 0..FailureThreshold, age : 0..RecoveryTicks]

Idle == [at |-> "idle", attempt |-> 0, sleep |-> 0]

ClientInit ==
    /\ stub = FALSE /\ call = Idle /\ answer = "none"
    /\ breaker = [state |-> "closed", failures |-> 0, age |-> RecoveryTicks]
    /\ streak = [failures |-> 0, age |-> RecoveryTicks]

-----------------------------------------------------------------------------
(* CircuitBreaker                                                          *)

(* _should_attempt_reset                                                   *)
ShouldAttemptReset == breaker.age >= RecoveryTicks

(* call: whether the request goes out, and the state it goes out in        *)
Admits == breaker.state # "open" \/ ShouldAttemptReset
Admitted(b) == IF b.state = "open" THEN [b EXCEPT !.state = "half_open"] ELSE b

(* _on_success                                                             *)
OnSuccess(b) == [b EXCEPT !.state = "closed", !.failures = 0]

(* _on_failure                                                             *)
BugOnFailure(b) ==
    IF b.state = "half_open" THEN [b EXCEPT !.state = "open"]
    ELSE [b EXCEPT !.failures = @ + 1, !.age = 0,
                   !.state = IF b.failures + 1 >= FailureThreshold THEN "open" ELSE @]
OnFailure(b) ==
    [b EXCEPT !.failures = Min({@ + 1, FailureThreshold}), !.age = 0,
              !.state = IF b.failures + 1 >= FailureThreshold THEN "open" ELSE @]

(* A request the breaker turns away leaves it as it is.                    *)
BugTurnedAway(b) == [b EXCEPT !.age = 0]
TurnedAway(b) == b

-----------------------------------------------------------------------------
(* _execute_with_retry                                                     *)

(* The attempt has raised an error: one that shows an unreachable twin     *)
(* closes the connection, unless it was the last attempt.                  *)
AttemptFails(unreachable) ==
    IF call.attempt = MaxRetries
    THEN call' = Idle /\ answer' = "failed" /\ UNCHANGED stub
    ELSE /\ call' = [at |-> "sleep", attempt |-> call.attempt, sleep |-> Delay[call.attempt]]
         /\ stub' = (stub /\ ~unreachable)
         /\ UNCHANGED answer

(* The tool connects first if there is no connection; its failure is an    *)
(* answer to the reasoner at once.                                         *)
BeginCall ==
    /\ call' = [Idle EXCEPT !.at = IF stub THEN "attempt" ELSE "tool_connect"]
    /\ answer' = "none"
    /\ UNCHANGED <<stub, breaker, streak>>

(* connect: the connection is tested by a health_check, which the twin     *)
(* answers if it serves; and so before an attempt without a connection.    *)
NeedsConnection ==
    /\ call.at = "attempt" /\ ~stub /\ call' = [call EXCEPT !.at = "connect"]
    /\ UNCHANGED <<stub, breaker, answer, streak>>

Connected ==
    /\ call.at \in {"tool_connect", "connect"} /\ serving
    /\ stub' = TRUE /\ call' = [call EXCEPT !.at = "attempt"]
    /\ UNCHANGED <<breaker, answer, streak>>

ConnectionFails ==
    /\ \/ call.at = "connect" /\ AttemptFails(TRUE)
       \/ call.at = "tool_connect" /\ call' = Idle /\ answer' = "failed" /\ UNCHANGED stub
    /\ UNCHANGED <<breaker, streak>>

(* The breaker admits the request or turns it away.                        *)
Request ==
    /\ call.at = "attempt" /\ stub /\ Admits
    /\ call' = [call EXCEPT !.at = "request"] /\ breaker' = Admitted(breaker)
    /\ UNCHANGED <<stub, answer, streak>>

TurnAway ==
    /\ call.at = "attempt" /\ stub /\ ~Admits
    /\ AttemptFails(FALSE) /\ breaker' = TurnedAway(breaker)
    /\ UNCHANGED streak

(* DigitalTwinService answers every request it gets, an error included.    *)
Answered ==
    /\ call.at = "request" /\ serving
    /\ call' = Idle /\ answer' = "reply" /\ breaker' = OnSuccess(breaker)
    /\ streak' = [streak EXCEPT !.failures = 0]
    /\ UNCHANGED stub

(* The twin does not serve, or the answer does not come in time.           *)
RequestFails ==
    /\ call.at = "request"
    /\ \E unreachable \in BOOLEAN : unreachable = ~serving /\ AttemptFails(unreachable)
    /\ breaker' = OnFailure(breaker)
    /\ streak' = [failures |-> Min({streak.failures + 1, FailureThreshold}), age |-> 0]

(* The delay has passed and the next attempt begins.                       *)
Retry ==
    /\ call.at = "sleep" /\ call.sleep = 0
    /\ call' = [call EXCEPT !.at = "attempt", !.attempt = @ + 1]
    /\ UNCHANGED <<stub, breaker, answer, streak>>

ClientStep ==
    \/ NeedsConnection \/ Connected \/ ConnectionFails \/ Request \/ TurnAway
    \/ Answered \/ RequestFails \/ Retry

(* A tick of time for the client                                           *)
Older(age) == Min({age + 1, RecoveryTicks})
ClientTick ==
    /\ breaker' = [breaker EXCEPT !.age = Older(@)]
    /\ streak' = [streak EXCEPT !.age = Older(@)]
    /\ call' = [call EXCEPT !.sleep = IF @ = 0 THEN 0 ELSE @ - 1]
    /\ UNCHANGED <<stub, answer>>

-----------------------------------------------------------------------------
(* Properties.                                                             *)

(* When as many requests as the threshold have failed in a row, the twin   *)
(* gets no further one before the recovery time has passed since the last  *)
(* of them, through as many calls and recoveries as there may be. (The     *)
(* connection test is no request in this sense: it passes the breaker by.) *)
FailingTwinIsSpared ==
    [][(call.at # "request" /\ call'.at = "request" /\ streak.failures >= FailureThreshold)
          => streak.age >= RecoveryTicks]_<<twinVars, clientVars>>

(* A twin that is up for good is reached again, if it is asked again and   *)
(* again, whatever state the breaker and the connection were left in.      *)
ReachedAgain ==
    (<>[](phase = "up") /\ []<>(call.at # "idle")) => []<>(answer = "reply")
=============================================================================
