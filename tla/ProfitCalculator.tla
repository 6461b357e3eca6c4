---------------------------- MODULE ProfitCalculator ----------------------------
(***************************************************************************)
(* services/calculator: the profit of one amount and the decision on the   *)
(* threshold.  Amounts are integers in a common unit; what cannot be known *)
(* is None and is never taken for zero.                                    *)
(*                                                                         *)
(* The threshold is a percentage, or an amount for the metric net_profit.  *)
(***************************************************************************)
EXTENDS DomainRecords, FiniteSets, Folds

CONSTANT
    Metric            \* "gross_roi", "net_roi" or "net_profit"

FormulaVersion == 1

CostSensitiveMetrics == {"net_roi", "net_profit"}

(* Mutant: a rate does not expire.                                         *)
FreshForEver(rate, now) == rate # None

(* RateBook: a rate that expired does not exist; equal currencies need none.*)
Fresh(rate, now) == now < rate.expires

Convert(amount, source, target, rates, now) ==
    LET usable == {r \in rates : r.from = source /\ r.to = target /\ Fresh(r, now)}
    IN  IF source = target THEN amount
        ELSE IF usable = {} THEN None
        ELSE amount * (CHOOSE r \in usable : TRUE).value

-----------------------------------------------------------------------------
(* aggregate_costs: a component is left out of the sum when it is already  *)
(* part of the quote, and when its value is unknown; in the second case,   *)
(* and when it may be part of the quote, the costs are not fully known.    *)
Counted(fee) == fee.known /\ fee.inclusion # "included_in_quote"

Value(fee, currency, rates, now) ==
    IF Counted(fee) THEN Convert(fee.amount, fee.currency, currency, rates, now) ELSE None

FeeIsUnknown(fee, currency, rates, now) ==
    \/ ~fee.known
    \/ Counted(fee) /\ Value(fee, currency, rates, now) = None
    \/ Counted(fee) /\ fee.inclusion = "unknown"

Account(fee) ==
    CASE fee.kind = "rebate" -> "rebates"
      [] fee.kind = "other" -> "other"
      [] OTHER -> "fees"

SumOf(account, fees, currency, rates, now) ==
    LET priced == {i \in DOMAIN fees : /\ Account(fees[i]) = account
                                       /\ Value(fees[i], currency, rates, now) # None}
    IN  MapThenFoldSet(+, 0, LAMBDA i : Value(fees[i], currency, rates, now),
                       LAMBDA S : CHOOSE i \in S : TRUE, priced)

GasCost(gas, currency, rates, now) ==
    IF gas = None \/ gas.inclusion = "included_in_quote" \/ ~gas.known THEN None
    ELSE Convert(gas.cost, gas.token, currency, rates, now)

GasIsUnknown(gas, currency, rates, now) ==
    \/ gas = None
    \/ /\ gas.inclusion # "included_in_quote"
       /\ \/ GasCost(gas, currency, rates, now) = None
          \/ gas.inclusion = "unknown"

Costs(data, now) ==
    LET gas == GasCost(data.gas, data.inputToken, data.rates, now)
        Sum(account) == SumOf(account, data.fees, data.inputToken, data.rates, now)
    IN  [fees |-> Sum("fees"), other |-> Sum("other"), rebates |-> Sum("rebates"),
         gas |-> IF gas = None THEN 0 ELSE gas,
         unknown |-> \/ GasIsUnknown(data.gas, data.inputToken, data.rates, now)
                     \/ \E i \in DOMAIN data.fees :
                           FeeIsUnknown(data.fees[i], data.inputToken, data.rates, now)]

-----------------------------------------------------------------------------
(* evaluate_threshold: passed at equality, never with an unknown cost that *)
(* the metric depends on.  ROI is compared without division.               *)
Reaches(gross, net, input, threshold) ==
    CASE Metric = "gross_roi" -> 100 * gross >= threshold * input
      [] Metric = "net_roi" -> 100 * net >= threshold * input
      [] Metric = "net_profit" -> net >= threshold

Evaluate(gross, net, data, unknown) ==
    LET blocked == unknown /\ Metric \in CostSensitiveMetrics
    IN  [blocked |-> blocked,
         passed  |-> ~blocked /\ Reaches(gross, net, data.input, data.threshold)]

(* _invalid_reason: contradictory data are refused, not repaired.          *)
Contradictory(data) ==
    \/ data.version # FormulaVersion
    \/ data.buyOutput <= 0 \/ data.sellOutput <= 0
    \/ \E i \in DOMAIN data.fees : data.fees[i].currency \notin data.network \union {None}
    \/ data.gas # None /\ data.gas.token \notin data.network \union {None}

NoResult(status) ==
    [status |-> status, net |-> None, outcome |-> None, unknown |-> FALSE, costs |-> None]

Calculate(data, now) ==
    LET final == Convert(data.sellOutput, data.outputToken, data.inputToken, data.rates, now)
        costs == Costs(data, now)
        gross == final - data.input
        net == gross - TotalCosts(costs)
    IN  IF Contradictory(data) THEN NoResult("invalid")
        ELSE IF final = None THEN NoResult("unknown")
        ELSE [status |-> IF costs.unknown THEN "partial" ELSE "complete",
              net |-> net, costs |-> costs, unknown |-> costs.unknown,
              outcome |-> Evaluate(gross, net, data, costs.unknown)]

(* Every record of the calculation is accepted.                            *)
CalculationIsConsistent(data, result) ==
    /\ InputIsConsistent(data)
    /\ \A i \in DOMAIN data.fees : FeeIsConsistent(data.fees[i])
    /\ data.gas # None => GasIsConsistent(data.gas)
    /\ result.costs # None => BreakdownIsConsistent(result.costs)
    /\ result.outcome # None => OutcomeIsConsistent(result.outcome)
    /\ ResultIsConsistent(result)
================================================================================
