------------------------------ MODULE DomainRecords ------------------------------
(***************************************************************************)
(* domain/models: what the immutable records of an evaluation are, and     *)
(* what they refuse to hold.  A refusal is a ValidationError of pydantic:  *)
(* no MonikError, so that it leaves the job that builds the record.        *)
(*                                                                         *)
(* A route is [provider, mode, sources], a quote [route, input, output,    *)
(* gas, at], a fee [known, amount, currency, kind, inclusion], gas [known, *)
(* cost, token, inclusion], a rate [from, to, value, expires].  The fields *)
(* that name the network and the operation are left out: one network and   *)
(* one round trip are modelled.                                            *)
(***************************************************************************)
EXTENDS Integers

CONSTANT None

(* Routes with equal fingerprints are equal: the fingerprint leaves out    *)
(* nothing that a route record has.                                        *)
Fingerprint(route) == <<route.provider, route.mode, route.sources>>

Matches(route, other) == Fingerprint(route) = Fingerprint(other)

HasUsableOutput(quote) == quote.output # 0

(* Nothing sets expires_at of a quote.                                     *)
QuoteIsFresh(quote, now, maxAge) == now - quote.at <= maxAge

(* A known cost has its amount, an unknown one has none, and not zero.     *)
FeeIsConsistent(fee) ==
    IF fee.known THEN fee.amount # None /\ fee.currency # None ELSE fee.amount = None

GasIsConsistent(gas) ==
    IF gas.known THEN gas.cost # None /\ gas.token # None ELSE gas.cost = None

RateIsConsistent(rate, now) ==
    rate.from # rate.to /\ rate.value > 0 /\ now < rate.expires

InputIsConsistent(data) == data.input > 0

(* Costs are summed by kind; rebates have a field of their own.            *)
BreakdownIsConsistent(costs) ==
    costs.fees >= 0 /\ costs.gas >= 0 /\ costs.other >= 0 /\ costs.rebates >= 0

TotalCosts(costs) == costs.fees + costs.gas + costs.other - costs.rebates

(* A threshold is not passed while a cost it depends on is unknown.        *)
OutcomeIsConsistent(outcome) == ~(outcome.blocked /\ outcome.passed)

(* COMPLETE needs every value and no unknown cost.                         *)
ResultIsConsistent(result) ==
    result.status = "complete" =>
        result.net # None /\ result.outcome # None /\ ~result.unknown

IsProfitable(result) ==
    result.status = "complete" /\ result.outcome # None /\ result.outcome.passed

(* A verified amount rests on both quotes and a calculation, the sell      *)
(* quote is for what the buy quote returns, and only a complete            *)
(* calculation above the threshold is profitable.                          *)
AmountIsConsistent(status, buy, sell, result) ==
    /\ status \in {"profitable", "unprofitable"} => None \notin {buy, sell, result}
    /\ status = "profitable" => IsProfitable(result)
    /\ sell # None /\ buy # None => sell.input = buy.output
================================================================================
