--------------------------- MODULE CircuitBreaker ---------------------------
(***************************************************************************)
(* CircuitBreaker: the state of one breaker as a record and its operations *)
(* as functions of that record.  The transition from OPEN to HALF_OPEN is  *)
(* lazy: it is made by whichever call reads the state first after the      *)
(* recovery time-out (`cooled`).                                           *)
(***************************************************************************)
EXTENDS Integers

CONSTANTS
  FailureThreshold,   (* circuit_breaker.failure_threshold                    *)
  SuccessThreshold,   (* circuit_breaker.success_threshold                    *)
  HalfOpenMaxCalls    (* circuit_breaker.half_open_max_calls                  *)

ASSUME BreakerAssumption ==
  /\ FailureThreshold \in Nat \ {0}
  /\ SuccessThreshold \in Nat \ {0}
  /\ HalfOpenMaxCalls \in Nat \ {0}

CircuitState == {"closed", "open", "half_open"}

Breaker ==
  [state : CircuitState, failures : Nat, successes : Nat, calls : Nat]

Counters(state) == [state |-> state, failures |-> 0, successes |-> 0, calls |-> 0]

Closed == Counters("closed")
Open   == Counters("open")

(* The property `state`. *)
Seen(b, cooled) ==
  IF b.state = "open" /\ cooled
  THEN [b EXCEPT !.state = "half_open", !.successes = 0, !.calls = 0]
  ELSE b

AllowsRequest(b) ==
  \/ b.state = "closed"
  \/ b.state = "half_open" /\ b.calls < HalfOpenMaxCalls

OnRequestStarted(b) ==
  IF b.state = "half_open" THEN [b EXCEPT !.calls = @ + 1] ELSE b

OnSuccess(b) ==
  IF b.state # "half_open" THEN [b EXCEPT !.failures = 0]
  ELSE IF b.successes + 1 >= SuccessThreshold THEN Closed
  ELSE [b EXCEPT !.successes = @ + 1]

OnFailure(b) ==
  IF b.state = "half_open" \/ b.failures + 1 >= FailureThreshold THEN Open
  ELSE [b EXCEPT !.failures = @ + 1]
=============================================================================
