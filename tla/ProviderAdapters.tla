---------------------------- MODULE ProviderAdapters ----------------------------
(***************************************************************************)
(* infrastructure/providers and infrastructure/http: what the answer of an *)
(* aggregator becomes.  An answer is [http, mode, out, echo, gas, impact,  *)
(* sources]: the fate of the HTTP request and the fields the adapters      *)
(* read; None is a field that is missing, Bad one that cannot be parsed.   *)
(* A route is [provider, mode, sources], a quote [route, input, output,    *)
(* gas, at].                                                               *)
(***************************************************************************)
EXTENDS Integers, FiniteSets, ProviderRequests

CONSTANTS
    Bad,
    Adapters,         \* providers with an enabled adapter
    Network,          \* scanner.base_network, the network of every route
    Settings,         \* the options of Uniswap
    PathLimit         \* sources whose joined names fit RouteStep.protocol

LOCAL INSTANCE DomainRecords

(* Errors of the classes of monik.errors, and what is none of them.        *)
Raw == "raw"

(* HttpClient.send and classify_response; "refused" stands for the errors  *)
(* of the resource manager, which sends nothing.                           *)
Transport == [refused |-> "resource", timeout |-> "timeout", transport |-> "network",
              redirects |-> "data", too_large |-> "data", rate_limited |-> "rate_limit",
              rejected |-> "authentication", server_error |-> "provider",
              client_error |-> "data", not_json |-> "data"]

ErrorOf(http) == IF http = "ok" THEN None ELSE Transport[http]

Failed(error) == [error |-> error, quote |-> None]

Unparsed(value) == value = Bad
Missing(value) == value \in {None, Bad}

(* RouteStep.protocol takes 128 characters for the joined names of the     *)
(* sources; its ValidationError is raised outside the try of build_quote.  *)
Normalized(route, input, answer, now) ==
    IF Cardinality(route.sources) > PathLimit THEN Failed(Raw)
    ELSE [error |-> None, quote |-> [route |-> route, input |-> input, output |-> answer.out,
                                     gas |-> answer.gas, at |-> now]]

(* A route is the set of its sources: their order and shares do not count, *)
(* and a route that is not disclosed is the empty set.                     *)
OneInchRoute(answer) == [provider |-> "oneinch", mode |-> "classic", sources |-> answer.sources]
ZeroXRoute(answer) == [provider |-> "zero_x", mode |-> "classic", sources |-> answer.sources]
VeloraRoute(answer) == [provider |-> "velora", mode |-> "classic", sources |-> answer.sources]
UniswapRoute(answer) == [provider |-> "uniswap", mode |-> answer.mode, sources |-> answer.sources]

(* Only 1inch reports a price impact; it is parsed after the route.        *)
OneInchQuote(input, answer, now) ==
    IF Missing(answer.out) \/ Unparsed(answer.gas) THEN Failed("data")
    ELSE LET result == Normalized(OneInchRoute(answer), input, answer, now)
         IN  IF result.error = None /\ Unparsed(answer.impact) THEN Failed("data") ELSE result

(* The amount that 0x and Velora echo is compared when it is there.        *)
ZeroXEchoDiffers(answer, input) == answer.echo \notin {None, input}

ZeroXQuote(input, answer, now) ==
    IF Missing(answer.out) \/ ZeroXEchoDiffers(answer, input) \/ Unparsed(answer.gas)
    THEN Failed("data")
    ELSE Normalized(ZeroXRoute(answer), input, answer, now)

VeloraEchoDiffers(answer, input) == answer.echo \notin {None, input}

VeloraQuote(input, answer, now) ==
    IF Missing(answer.out) \/ VeloraEchoDiffers(answer, input) \/ Unparsed(answer.gas)
    THEN Failed("data")
    ELSE Normalized(VeloraRoute(answer), input, answer, now)

(* The mode of a Uniswap route is what the answer says, if it is known.    *)
UniswapQuote(input, answer, now) ==
    IF Missing(answer.mode) \/ Missing(answer.out) \/ Unparsed(answer.gas) THEN Failed("data")
    ELSE Normalized(UniswapRoute(answer), input, answer, now)

(* get_quote: refused before the request, by the request, or by the answer.*)
Sent(answer, result) == IF answer.http # "ok" THEN Failed(ErrorOf(answer.http)) ELSE result

OneInchGetQuote(input, answer, now) ==
    IF OneInchRefuses(Network) THEN Failed("unsupported")
    ELSE Sent(answer, OneInchQuote(input, answer, now))

ZeroXGetQuote(input, answer, now) ==
    IF ZeroXRefuses(Network) THEN Failed("unsupported")
    ELSE Sent(answer, ZeroXQuote(input, answer, now))

VeloraGetQuote(input, answer, now) ==
    IF VeloraRefuses(Network) THEN Failed("unsupported")
    ELSE Sent(answer, VeloraQuote(input, answer, now))

UniswapGetQuote(input, answer, now) ==
    IF UniswapRefuses(Network) THEN Failed("unsupported")
    ELSE IF ~HasQuoteBody(Settings) THEN Failed("configuration")
    ELSE Sent(answer, UniswapQuote(input, answer, now))

GetQuote(provider, input, answer, now) ==
    CASE provider = "oneinch" -> OneInchGetQuote(input, answer, now)
      [] provider = "zero_x" -> ZeroXGetQuote(input, answer, now)
      [] provider = "velora" -> VeloraGetQuote(input, answer, now)
      [] provider = "uniswap" -> UniswapGetQuote(input, answer, now)

(* validate_fixed_route: no aggregator takes a route as an input, so a     *)
(* fresh quote is compared with the fixed one; another route is refused    *)
(* together with its quote.                                                *)
Compared(route, result) ==
    IF result.error # None THEN [outcome |-> "error", error |-> result.error, quote |-> None]
    ELSE IF Matches(result.quote.route, route)
         THEN [outcome |-> "reproduced", error |-> None, quote |-> result.quote]
         ELSE [outcome |-> "mismatch", error |-> None, quote |-> None]

OneInchValidates(route, input, answer, now) ==
    Compared(route, OneInchGetQuote(input, answer, now))
ZeroXValidates(route, input, answer, now) ==
    Compared(route, ZeroXGetQuote(input, answer, now))
VeloraValidates(route, input, answer, now) ==
    Compared(route, VeloraGetQuote(input, answer, now))
UniswapValidates(route, input, answer, now) ==
    Compared(route, UniswapGetQuote(input, answer, now))

ValidateFixedRoute(route, input, answer, now) ==
    CASE route.provider = "oneinch" -> OneInchValidates(route, input, answer, now)
      [] route.provider = "zero_x" -> ZeroXValidates(route, input, answer, now)
      [] route.provider = "velora" -> VeloraValidates(route, input, answer, now)
      [] route.provider = "uniswap" -> UniswapValidates(route, input, answer, now)
================================================================================
