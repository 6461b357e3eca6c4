---------------------------- MODULE HealthMonitor -----------------------------
(***************************************************************************)
(* services/health/monitor.py: what the process knows of its providers.    *)
(* The adapters are wrapped by HealthTrackingAdapter, so every request of  *)
(* Level 1 and Level 2 is an observation; the start-up probes them once.   *)
(* The components are set to HEALTHY by the start-up and stay so while the *)
(* scheduler loop runs: they never lead to a message and are left out.     *)
(***************************************************************************)
EXTENDS Integers, ProviderRequests

CONSTANTS
    Providers,          \* the providers with an adapter
    DegradedThreshold,  \* health.provider_degraded_threshold
    FailureThreshold,   \* health.provider_failure_threshold
    RecoveryThreshold   \* health.provider_recovery_threshold

ASSUME ThresholdsAssumption ==
    /\ DegradedThreshold \in Nat \ {0}
    /\ FailureThreshold \in Nat \ {0}
    /\ RecoveryThreshold \in Nat \ {0}
    /\ DegradedThreshold <= FailureThreshold

ASSUME ProvidersAssumption == Providers \subseteq {"oneinch", "zero_x", "velora", "uniswap"}

VARIABLE
    health   \* _providers: None until the provider is observed

ProviderStatus == {"unknown", "healthy", "degraded", "unavailable", "recovering"}

Observations ==
    [status : ProviderStatus, failures : 0 .. FailureThreshold, successes : 0 .. RecoveryThreshold]

HealthInit == health = [p \in Providers |-> None]

(* provider(): without an observation a provider is unknown.               *)
Known(p) == IF health[p] = None
            THEN [status |-> "unknown", failures |-> 0, successes |-> 0]
            ELSE health[p]

StatusAfterFailure(current, failures) ==
    IF failures >= FailureThreshold THEN "unavailable"
    ELSE IF failures >= DegradedThreshold THEN "degraded"
    ELSE current

StatusAfterSuccess(current, successes) ==
    IF successes >= RecoveryThreshold THEN "healthy"
    ELSE IF current \in {"unavailable", "unknown"} THEN "recovering"
    ELSE current

(* The counters are compared with their thresholds only, and are kept at   *)
(* most there.                                                             *)
CountedTo(threshold, n) == IF n > threshold THEN threshold ELSE n

RecordProviderSuccess(p) ==
    LET successes == CountedTo(RecoveryThreshold, Known(p).successes + 1)
    IN  health' = [health EXCEPT ![p] =
            [status |-> StatusAfterSuccess(Known(p).status, successes),
             failures |-> 0, successes |-> successes]]

RecordProviderFailure(p) ==
    LET failures == CountedTo(FailureThreshold, Known(p).failures + 1)
    IN  health' = [health EXCEPT ![p] =
            [status |-> StatusAfterFailure(Known(p).status, failures),
             failures |-> failures, successes |-> 0]]

(* _PROBE_STATUSES; an error that health_check raises counts as a failure. *)
ProbeStatus == [ready |-> "healthy", degraded |-> "degraded", raised |-> "unavailable"]

(* A probe passes no threshold.                                            *)
Probed(status) ==
    [status |-> status,
     failures |-> IF status = "healthy" THEN 0 ELSE 1,
     successes |-> IF status = "healthy" THEN 1 ELSE 0]

(* probe_providers, one provider after the other.                          *)
ProbeProviders(settings) ==
    \E reached \in [Providers -> BOOLEAN] :
        health' = [p \in Providers |-> Probed(ProbeStatus[HealthCheck(p, settings, reached[p])])]

(* HealthTrackingAdapter._observe: an answer, or an error other than       *)
(* UnsupportedError, which is not recorded.                                *)
Observe(p) == RecordProviderSuccess(p) \/ RecordProviderFailure(p)
================================================================================
