------------------------------- MODULE CostSources -------------------------------
(***************************************************************************)
(* services/gas and services/prices: where the price of gas and the rate   *)
(* of the native token come from.  A source ends with an outcome [error,   *)
(* value]; the value None is a price that is not available.  The sources   *)
(* of gas raise their errors, those of rates answer None instead.          *)
(*                                                                         *)
(* A reply of the RPC node or of the price service is a number, None when  *)
(* the field is missing, Bad when it cannot be read, or Lost when the      *)
(* request fails with a MonikError.                                        *)
(***************************************************************************)
EXTENDS ProviderAdapters, FiniteSetsExt

CONSTANTS
    Lost,
    StaticPrice,      \* gas.static_wei_per_gas of the network, or None
    PriorityFee,      \* priority_fee_wei
    GasReplies,       \* replies to eth_gasPrice
    FeeReplies,       \* replies to eth_feeHistory
    PriceAdapter,     \* the adapter that quotes the native token
    ProbeAmount,      \* what it is asked for
    ProbeAnswers,     \* its answers
    PriceReplies      \* replies of the price service

Found(value) == [error |-> None, value |-> value]
Raised(error) == [error |-> error, value |-> None]
Unavailable == Found(None)

(* The first source that has a price or raises; the ones after it are not  *)
(* asked.                                                                  *)
FirstAvailable(outcomes) ==
    LET ended == {i \in DOMAIN outcomes : outcomes[i] # Unavailable}
    IN  IF ended = {} THEN Unavailable ELSE outcomes[Min(ended)]

StaticGasPrice == Found(StaticPrice)

(* _parse_hex: what is no number is a DataError, like a lost request.      *)
Unreadable(reply) == reply \in {Bad, Lost}

(* Only a network with a base fee answers the second request with one.     *)
BaseFee(reply) == IF Unreadable(reply) THEN Raised("data") ELSE Found(reply)

RpcGasPrice(legacy, history) ==
    LET base == BaseFee(history)
    IN  IF Unreadable(legacy) THEN Raised("data")
        ELSE IF legacy = None THEN Unavailable
        ELSE IF base.error # None THEN base
        ELSE IF base.value = None THEN Found(legacy) ELSE Found(base.value + PriorityFee)

GasPrices ==
    {FirstAvailable(<<StaticGasPrice, RpcGasPrice(legacy, history)>>) :
        legacy \in GasReplies, history \in FeeReplies}

(* A quote of nothing is no rate.                                          *)
QuotedRate(result) ==
    IF result.error = Raw THEN Raised(Raw)
    ELSE IF result.error # None \/ result.quote.output = 0 THEN Unavailable
    ELSE Found(result.quote.output \div ProbeAmount)

(* Decimal(str(raw)) is inside the request but its error is no MonikError. *)
HttpRate(reply) ==
    IF reply = Bad THEN Raised(Raw)
    ELSE IF reply \in {Lost, None} \/ reply <= 0 THEN Unavailable
    ELSE Found(reply)

Quotations(now) ==
    {FirstAvailable(<<QuotedRate(GetQuote(PriceAdapter, ProbeAmount, answer, now)),
                      HttpRate(reply)>>) :
        answer \in ProbeAnswers, reply \in PriceReplies}
================================================================================
