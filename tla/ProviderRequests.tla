---------------------------- MODULE ProviderRequests ----------------------------
(***************************************************************************)
(* infrastructure/providers: what an adapter asks for, before any answer.  *)
(* The settings of an adapter are the options of its section of the        *)
(* configuration; only Uniswap has some, and what is wrong with them shows *)
(* at a request and not when the application is built.                     *)
(***************************************************************************)
CONSTANT None

(* The endpoints of every adapter name the same network.                   *)
SupportedNetworks == {"polygon"}

(* _require_chain_id, the first step of get_quote.                         *)
OneInchRefuses(network) == network \notin SupportedNetworks
ZeroXRefuses(network) == network \notin SupportedNetworks
VeloraRefuses(network) == network \notin SupportedNetworks
UniswapRefuses(network) == network \notin SupportedNetworks

(***************************************************************************)
(* The options of Uniswap.                                                 *)
(***************************************************************************)
UniswapSettings ==
    [swapper : {"address", None}, preference : {None, "known", "unknown"},
     auto : BOOLEAN, tolerance : {None, "number", "text"}]

HasSwapper(settings) == settings.swapper # None

HasRoutingPreference(settings) == settings.preference # "unknown"

(* No request of the application carries a slippage of its own, and        *)
(* auto_slippage leaves the tolerance unread.                              *)
HasSlippage(settings) == settings.auto \/ settings.tolerance # "text"

(* The body of a quote request can be built; a ConfigurationError if not.  *)
HasQuoteBody(settings) ==
    HasSwapper(settings) /\ HasRoutingPreference(settings) /\ HasSlippage(settings)

(***************************************************************************)
(* health_check: one request to an endpoint of the adapter, whose errors   *)
(* are an answer.  Uniswap has to ask for a quote: a missing swapper is an *)
(* answer too, the other options are read outside its try and raise.       *)
(***************************************************************************)
OneInchHealth(reached) == IF reached THEN "ready" ELSE "degraded"
ZeroXHealth(reached) == IF reached THEN "ready" ELSE "degraded"
VeloraHealth(reached) == IF reached THEN "ready" ELSE "degraded"

UniswapHealth(settings, reached) ==
    IF ~HasSwapper(settings) THEN "degraded"
    ELSE IF ~HasQuoteBody(settings) THEN "raised"
    ELSE IF reached THEN "ready" ELSE "degraded"

HealthCheck(provider, settings, reached) ==
    CASE provider = "oneinch" -> OneInchHealth(reached)
      [] provider = "zero_x" -> ZeroXHealth(reached)
      [] provider = "velora" -> VeloraHealth(reached)
      [] provider = "uniswap" -> UniswapHealth(settings, reached)
================================================================================
