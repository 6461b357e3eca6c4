------------------------------- MODULE FeeService -------------------------------
(***************************************************************************)
(* services/fees: the fee snapshot of one leg of a route.  A snapshot of   *)
(* the cache is used while it is fresh; otherwise one build per key is     *)
(* under way.  The build writes the cache before it saves the snapshot.    *)
(***************************************************************************)
EXTENDS InFlightRegistry

CONSTANTS
    Policies,         \* providers with a registered QuoteInclusiveFeePolicy
    FreshFor          \* fees.freshness_seconds

ASSUME FeeAssumption == FreshFor \in Nat

VARIABLE
    feeCache          \* _cache: when the snapshot of the key was created

FeeInit == registry = EmptyRegistry /\ feeCache = [k \in Keys |-> None]

(* The cache key leaves out the amount: a policy whose fee depends on it   *)
(* would be answered with the fee of another amount.  The application      *)
(* registers none.                                                         *)
FeeKey(route, input, output) ==
    [provider |-> route.provider, input |-> input, output |-> output,
     mode |-> route.mode, sources |-> route.sources]

(* QuoteInclusiveFeePolicy: nothing is left to subtract.                  *)
QuoteInclusive(key) ==
    <<[known |-> TRUE, amount |-> 0, currency |-> key.output,
       kind |-> "aggregator", inclusion |-> "included_in_quote"]>>

(* UnknownFeePolicy, for a provider without rules: not known is not zero.  *)
UnknownFee ==
    <<[known |-> FALSE, amount |-> None, currency |-> None,
       kind |-> "aggregator", inclusion |-> "unknown"]>>

Components(key) == IF key.provider \in Policies THEN QuoteInclusive(key) ELSE UnknownFee

IsFresh(key, now) == feeCache[key] # None /\ now - feeCache[key] <= FreshFor

(* _build_snapshot up to its await.                                        *)
BuildSnapshot(c, now) ==
    /\ TaskStarts(c)
    /\ feeCache' = [feeCache EXCEPT ![registry.task[c].key] = now]

(* repository.save: the snapshot is returned, or a DatabaseError reaches   *)
(* every caller while the cache keeps the snapshot.                        *)
SaveSnapshot(c) ==
    /\ \E result \in {"ok", "error"} : TaskEnds(c, result)
    /\ UNCHANGED feeCache
================================================================================
