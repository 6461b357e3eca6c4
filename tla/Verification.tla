------------------------------ MODULE Verification ------------------------------
(***************************************************************************)
(* The financial evaluation of a round trip.  Level 2 (AmountVerifier,     *)
(* RouteVerifier, Level2Financials) verifies the amounts of a job one      *)
(* after the other: a fresh quote of the fixed buy route, a quote of the   *)
(* fixed sell route for what the buy returns now, fees, gas, rate, profit. *)
(* Level 1 (PreliminaryEvaluator) evaluates two quotes it already has, and *)
(* asks for the rate before the gas.  Both share the fee service and the   *)
(* cache of rates.                                                         *)
(*                                                                         *)
(* A step reaches from one await of the code to the next.                  *)
(***************************************************************************)
EXTENDS FeeService, Sequences

CONSTANTS
    Bad, Adapters, Network, Settings, PathLimit, Metric,
    Lost, StaticPrice, PriorityFee, GasReplies, FeeReplies,
    PriceAdapter, ProbeAmount, ProbeAnswers, PriceReplies,
    Verifications,    \* Level 2 jobs
    Evaluations,      \* preliminary evaluations of Level 1
    Orders,           \* what a caller may be given: [buy, sell, amounts], the two
                      \* routes and the sequence of input amounts
    Given(_),         \* the two quotes of an order that Level 1 evaluates
    Answers,          \* what a provider may answer
    Blocked,          \* providers whose fixed routes are known as unsupported
    RateTtl,          \* prices.freshness_seconds
    QuoteMaxAge,      \* level2.quote_max_age_seconds
    Threshold,        \* of the preliminary and of the final decision
    Limit,            \* confirmation_timeout_seconds, and the limit of a scan
    MaxTime           \* bound of the clock

ASSUME CallerAssumption == Callers = Verifications \union Evaluations
ASSUME AdaptersAssumption == Adapters \subseteq {"oneinch", "zero_x", "velora", "uniswap"}
ASSUME KeysAssumption ==
    \A c \in Callers : \A order \in Orders[c] :
        {FeeKey(order.buy, "base", "mid"), FeeKey(order.sell, "mid", "base")} \subseteq Keys
ASSUME LimitAssumption ==
    Limit \in Nat \ {0} /\ MaxTime \in Nat /\ MaxTime >= Limit /\ RateTtl \in Nat \ {0}

VARIABLES
    clock,
    rateCache,        \* ConversionService._cache: native token to base token
    run               \* the progress of every caller

vars == <<registry, feeCache, clock, rateCache, run>>

INSTANCE CostSources
INSTANCE ProfitCalculator

(* Routes, quotes and calculations as they may occur.                      *)
Modes == {"classic"} \union {a.mode : a \in UNION {Answers[p] : p \in Adapters}}
Sources == UNION {a.sources : a \in UNION {Answers[p] : p \in Adapters}}
RouteRecords == [provider : Adapters, mode : Modes, sources : SUBSET Sources]
QuoteRecords ==
    [route : RouteRecords, input : Nat, output : Nat, gas : Nat \union {None}, at : Nat]
BreakdownRecords == [fees : Nat, other : Nat, rebates : Nat, gas : Nat, unknown : BOOLEAN]
OutcomeRecords == [blocked : BOOLEAN, passed : BOOLEAN]
ResultRecords ==
    [status : {"partial", "complete"}, net : Int, costs : BreakdownRecords, unknown : BOOLEAN,
     outcome : OutcomeRecords]

ASSUME NoneAssumption ==
    None \notin Int \union {"base", "mid", "native"}
                    \union QuoteRecords \union OutcomeRecords \union ResultRecords
                    \union {Raw, "data", "unsupported", "configuration"} \union Range(Transport)

(* What a request returns, field by field; a fresh rate is not rounded to  *)
(* nothing in the units of the model.                                      *)
Amount == Nat \union {None, Bad}
ASSUME RepliesAssumption ==
    /\ \A a \in (UNION {Answers[p] : p \in Adapters}) \union ProbeAnswers :
          /\ a.http \in DOMAIN Transport \union {"ok"}
          /\ a.out \in Amount /\ a.gas \in Amount
    /\ PriceAdapter \in Adapters /\ ProbeAmount \in Nat \ {0}
    /\ \A a \in ProbeAnswers : a.out \in Nat => a.out = 0 \/ a.out >= ProbeAmount
    /\ StaticPrice \in Nat \union {None} /\ PriorityFee \in Nat
    /\ GasReplies \union FeeReplies \subseteq Amount \union {Lost}
    /\ PriceReplies \subseteq Int \union {None, Bad, Lost}
ASSUME OrdersAssumption ==
    \A c \in Callers : \A order \in Orders[c] :
        /\ order.amounts \in Seq(Nat \ {0}) /\ order.amounts # <<>>
        /\ \A route \in {order.buy, order.sell} :
              route = [provider |-> route.provider, mode |-> route.mode, sources |-> route.sources]
        /\ c \in Evaluations =>
              LET given == Given(order)
              IN  /\ Len(order.amounts) = 1
                  /\ given.buy.route = order.buy /\ given.sell.route = order.sell
                  /\ given.buy.input = order.amounts[1] /\ given.sell.input = given.buy.output
                  /\ given.buy.output \in Nat /\ given.sell.output \in Nat
                  /\ {given.buy.gas, given.sell.gas} \subseteq Nat \union {None}
ASSUME MetricAssumption ==
    Metric \in {"gross_roi", "net_roi", "net_profit"} /\ Threshold \in Int

Level2(c) == c \in Verifications

Waiting == {"buy", "sell", "fees_buy", "fees_sell", "gas", "rate"}
Ended == {"finished", "cancelled", "error", "broken", "refused"}

Idle == [pc |-> "idle", order |-> None, index |-> 1, buy |-> None, sell |-> None, gas |-> None,
         rate |-> None, started |-> None, results |-> <<>>, last |-> None]

Init ==
    /\ FeeInit
    /\ clock = 0 /\ rateCache = None
    /\ run = [c \in Callers |-> Idle]

-----------------------------------------------------------------------------
(* One amount.                                                             *)
BuyKey(r) == FeeKey(r.order.buy, "base", "mid")
SellKey(r) == FeeKey(r.order.sell, "mid", "base")

Data(c, r) ==
    [version |-> FormulaVersion, threshold |-> Threshold, network |-> {"base", "mid", "native"},
     input |-> r.order.amounts[r.index], inputToken |-> "base", outputToken |-> "base",
     buyOutput |-> r.buy.output, sellOutput |-> r.sell.output,
     fees |-> Components(BuyKey(r)) \o Components(SellKey(r)),
     gas |-> r.gas, rates |-> IF r.rate = None THEN {} ELSE {r.rate}]

StatusFor(result) ==
    CASE result.status = "complete" ->
            IF IsProfitable(result) THEN "profitable" ELSE "unprofitable"
      [] result.status = "invalid" -> "failed"
      [] OTHER -> "unknown"

(* The result of an amount; the next amount follows, or the job is done.   *)
(* The evidence of a result is kept until the next amount is verified.     *)
Settle(c, r, status, evidence) ==
    LET s == [r EXCEPT !.results = Append(@, status), !.last = evidence, !.buy = None,
                       !.sell = None, !.gas = None, !.rate = None]
    IN  IF r.index = Len(r.order.amounts) THEN [s EXCEPT !.pc = "finished", !.started = None]
        ELSE [s EXCEPT !.pc = "buy", !.index = @ + 1]

(* A coroutine that ends without a result takes its variables with it.     *)
Aborted(r, pc) == [Idle EXCEPT !.pc = pc, !.order = r.order]

(* The decision; a record that refuses its data ends the coroutine.        *)
Judge(c, r) ==
    LET data == Data(c, r)
        result == Calculate(data, clock)
        status == StatusFor(result)
    IN  IF /\ CalculationIsConsistent(data, result)
           /\ Level2(c) => AmountIsConsistent(status, r.buy, r.sell, result)
        THEN Settle(c, r, status,
                    [buy |-> r.buy, sell |-> r.sell, gas |-> r.gas, rate |-> r.rate, at |-> clock])
        ELSE Aborted(r, "refused")

GasUnits(r) ==
    IF r.buy.gas = None \/ r.sell.gas = None THEN None ELSE r.buy.gas + r.sell.gas

Gas(r, price) ==
    IF price = None \/ GasUnits(r) = None
    THEN [known |-> FALSE, cost |-> None, token |-> None, inclusion |-> "not_included"]
    ELSE [known |-> TRUE, cost |-> GasUnits(r) * price, token |-> "native",
          inclusion |-> "not_included"]

(* GasEstimator.estimate sends nothing when the units are unknown, and     *)
(* ConversionService.rate nothing when the cached rate has not expired.    *)
(* Gas is paid in a known token other than the base token, so that a rate  *)
(* is needed.                                                              *)
AskGas(r) ==
    IF GasUnits(r) = None THEN [r EXCEPT !.pc = "known", !.gas = Gas(r, None)]
    ELSE [r EXCEPT !.pc = "gas"]

AskRate(r) ==
    IF rateCache # None /\ Fresh(rateCache, clock) THEN [r EXCEPT !.pc = "known", !.rate = rateCache]
    ELSE [r EXCEPT !.pc = "rate"]

JudgeIfKnown(c, r) == IF r.pc = "known" THEN Judge(c, r) ELSE r

(* Level 2 asks for the gas and then for the rate, Level 1 the other way.  *)
AfterGas(c, r) == IF Level2(c) THEN JudgeIfKnown(c, AskRate(r)) ELSE Judge(c, r)
AfterRate(c, r) == IF Level2(c) THEN Judge(c, r) ELSE JudgeIfKnown(c, AskGas(r))

AfterFees(c, r) ==
    LET asked == IF Level2(c) THEN AskGas(r) ELSE AskRate(r)
    IN  IF asked.pc # "known" THEN asked
        ELSE IF Level2(c) THEN AfterGas(c, asked) ELSE AfterRate(c, asked)

(* snapshot_for of the two legs, from a registry g; a fresh snapshot is    *)
(* used at once.                                                           *)
SellFees(c, r, g) ==
    IF IsFresh(SellKey(r), clock) THEN [run |-> AfterFees(c, r), registry |-> g]
    ELSE [run |-> [r EXCEPT !.pc = "fees_sell"], registry |-> Run(g, c, SellKey(r))]

BuyFees(c, r, g) ==
    IF IsFresh(BuyKey(r), clock) THEN SellFees(c, r, g)
    ELSE [run |-> [r EXCEPT !.pc = "fees_buy"], registry |-> Run(g, c, BuyKey(r))]

Become(c, r) == run' = [run EXCEPT ![c] = r]

Continue(c, s) == Become(c, s.run) /\ registry' = s.registry

-----------------------------------------------------------------------------
(* RouteVerifier.verify: nothing is sent without an adapter or against a   *)
(* known capability; the quote must be on the route, fresh and usable.     *)
RouteMismatch(quote, route) == ~Matches(quote.route, route)

CheckQuote(check, route, input) ==
    IF check.outcome # "reproduced" THEN check
    ELSE IF RouteMismatch(check.quote, route) THEN [check EXCEPT !.outcome = "mismatch"]
    ELSE IF ~QuoteIsFresh(check.quote, clock, QuoteMaxAge) \/ ~HasUsableOutput(check.quote)
         THEN [check EXCEPT !.outcome = "unsupported"]
    ELSE IF check.quote.input # input THEN [check EXCEPT !.outcome = "mismatch"]
    ELSE check

Verify(route, input) ==
    IF route.provider \notin Adapters \ Blocked
    THEN {[outcome |-> "unsupported", error |-> None, quote |-> None]}
    ELSE {CheckQuote(ValidateFixedRoute(route, input, answer, clock), route, input) :
             answer \in Answers[route.provider]}

(* An error that is no MonikError leaves the verification; every other     *)
(* check that does not reproduce the route settles the amount.             *)
Unconfirmed(c, check) ==
    IF check.error = Raw THEN Aborted(run[c], "broken")
    ELSE Settle(c, run[c], "route_unavailable", None)

Start(c) ==
    /\ run[c].pc = "idle" /\ clock + Limit <= MaxTime
    /\ \E order \in Orders[c] :
          LET r == [Idle EXCEPT !.started = clock, !.order = order]
              given == Given(order)
          IN  IF Level2(c)
              THEN Become(c, [r EXCEPT !.pc = "buy"]) /\ UNCHANGED registry
              ELSE Continue(c, BuyFees(c, [r EXCEPT !.buy = given.buy, !.sell = given.sell],
                                       registry))
    /\ UNCHANGED <<feeCache, clock, rateCache>>

VerifyBuy(c) ==
    /\ run[c].pc = "buy"
    /\ \E check \in Verify(run[c].order.buy, run[c].order.amounts[run[c].index]) :
          IF check.outcome = "reproduced"
          THEN Become(c, [run[c] EXCEPT !.pc = "sell", !.buy = check.quote, !.last = None])
          ELSE Become(c, Unconfirmed(c, check))
    /\ UNCHANGED <<registry, feeCache, clock, rateCache>>

(* The sell leg is asked for what the buy leg returns now.                 *)
VerifySell(c) ==
    /\ run[c].pc = "sell"
    /\ \E check \in Verify(run[c].order.sell, run[c].buy.output) :
          IF check.outcome = "reproduced"
          THEN Continue(c, BuyFees(c, [run[c] EXCEPT !.sell = check.quote], registry))
          ELSE Become(c, Unconfirmed(c, check)) /\ UNCHANGED registry
    /\ UNCHANGED <<feeCache, clock, rateCache>>

FeesArrive(c) ==
    /\ registry.answer[c] # None
    /\ LET g == Leave(registry, c)
       IN  \/ /\ registry.answer[c] = "error"
              /\ Continue(c, [run |-> Aborted(run[c], "error"), registry |-> g])
           \/ /\ registry.answer[c] = "ok" /\ run[c].pc = "fees_buy"
              /\ Continue(c, SellFees(c, run[c], g))
           \/ /\ registry.answer[c] = "ok" /\ run[c].pc = "fees_sell"
              /\ Continue(c, [run |-> AfterFees(c, run[c]), registry |-> g])
    /\ UNCHANGED <<feeCache, clock, rateCache>>

(* An error of the RPC source is raised through estimate: neither a next   *)
(* source nor an unknown gas follows.                                      *)
GasArrives(c) ==
    /\ run[c].pc = "gas"
    /\ \E price \in GasPrices :
          IF price.error # None THEN Become(c, Aborted(run[c], "error"))
          ELSE Become(c, AfterGas(c, [run[c] EXCEPT !.gas = Gas(run[c], price.value)]))
    /\ UNCHANGED <<registry, feeCache, clock, rateCache>>

(* A source of prices answers None instead of a MonikError; what is no     *)
(* MonikError (an unreadable number, a route too long) is raised.          *)
RateArrives(c) ==
    /\ run[c].pc = "rate"
    /\ \E quoted \in Quotations(clock) :
          LET rate == [from |-> "native", to |-> "base", value |-> quoted.value,
                       expires |-> clock + RateTtl]
          IN  \/ /\ quoted.error # None
                 /\ Become(c, Aborted(run[c], "broken")) /\ UNCHANGED rateCache
              \/ /\ quoted = Unavailable
                 /\ Become(c, AfterRate(c, run[c])) /\ UNCHANGED rateCache
              \/ /\ quoted.value # None
                 /\ Become(c, IF RateIsConsistent(rate, clock)
                              THEN AfterRate(c, [run[c] EXCEPT !.rate = rate])
                              ELSE Aborted(run[c], "refused"))
                 /\ rateCache' = IF RateIsConsistent(rate, clock) THEN rate ELSE rateCache
    /\ UNCHANGED <<registry, feeCache, clock>>

(* Mutant: the time limit covers the quotes only.                          *)
OverdueWhileQuoting(c) == run[c].pc \in {"buy", "sell"} /\ clock - run[c].started >= Limit

Overdue(c) == run[c].pc \in Waiting /\ clock - run[c].started >= Limit

(* asyncio.timeout: every amount of the job has failed, those with a       *)
(* result included.  The limit of a scan cancels the evaluation.           *)
TimeOut(c) ==
    /\ Overdue(c)
    /\ Continue(c, [registry |-> Leave(registry, c),
                    run |-> IF Level2(c)
                            THEN [Aborted(run[c], "finished") EXCEPT
                                      !.results = [i \in DOMAIN run[c].order.amounts |-> "failed"]]
                            ELSE Aborted(run[c], "cancelled")])
    /\ UNCHANGED <<feeCache, clock, rateCache>>

(* A shutdown, or the failure of another part of the scan.                 *)
Cancel(c) ==
    /\ run[c].pc \in Waiting
    /\ Continue(c, [registry |-> Leave(registry, c), run |-> Aborted(run[c], "cancelled")])
    /\ UNCHANGED <<feeCache, clock, rateCache>>

Build(c) == BuildSnapshot(c, clock) /\ UNCHANGED <<clock, rateCache, run>>
Save(c) == SaveSnapshot(c) /\ UNCHANGED <<clock, rateCache, run>>

Tick ==
    /\ clock < MaxTime
    /\ clock' = clock + 1
    /\ UNCHANGED <<registry, feeCache, rateCache, run>>

Next ==
    \/ \E c \in Callers :
          \/ Start(c) \/ VerifyBuy(c) \/ VerifySell(c) \/ FeesArrive(c) \/ GasArrives(c)
          \/ RateArrives(c) \/ TimeOut(c) \/ Cancel(c) \/ Build(c) \/ Save(c)
    \/ Tick

(* The clock goes on and time limits are kept; no provider, RPC node or     *)
(* price service has to answer, and no snapshot has to be saved.           *)
Fairness == WF_vars(Tick) /\ \A c \in Callers : WF_vars(TimeOut(c))

Spec == Init /\ [][Next]_vars /\ Fairness

-----------------------------------------------------------------------------
(* Types, and: a caller awaits fees exactly while its entry says so, and   *)
(* an ended job has no more results than amounts.                          *)
TypeOK ==
    /\ clock \in 0..MaxTime
    /\ \A k \in Keys : feeCache[k] \in (0..MaxTime) \union {None}
    /\ \A c \in Callers :
          /\ run[c].pc \in Waiting \union Ended \union {"idle"}
          /\ run[c].pc # "idle" =>
                /\ run[c].order \in Orders[c] /\ run[c].index \in DOMAIN run[c].order.amounts
                /\ DOMAIN run[c].results \subseteq DOMAIN run[c].order.amounts
                /\ run[c].pc = "finished" => DOMAIN run[c].results = DOMAIN run[c].order.amounts
          /\ (registry.awaiting[c] # None) <=> run[c].pc \in {"fees_buy", "fees_sell"}

(* What a decision needs to know: both legs disclose their gas, its price  *)
(* and a rate that holds at that moment are known, and so are the fees.    *)
FullyKnown(e) ==
    /\ {e.buy.route.provider, e.sell.route.provider} \subseteq Policies
    /\ e.buy.gas # None /\ e.sell.gas # None
    /\ e.gas.known
    /\ e.rate # None /\ e.at < e.rate.expires

Gain(e) == e.sell.output - e.buy.input
Margin(e) == Gain(e) - e.gas.cost * e.rate.value

MeetsThreshold(e) ==
    CASE Metric = "gross_roi" -> 100 * Gain(e) >= Threshold * e.buy.input
      [] Metric = "net_roi" -> 100 * Margin(e) >= Threshold * e.buy.input
      [] Metric = "net_profit" -> Margin(e) >= Threshold

(* An amount is called profitable or unprofitable only on evidence: both   *)
(* quotes are on the routes that Level 1 fixed, the sell quote is for what *)
(* the buy quote returns, every cost is known at that moment, and the      *)
(* margin is on the right side of the threshold.  No error, missing field  *)
(* or expired rate ever counts as a loss or as a profit, and no record     *)
(* refuses what the checks before it let pass, which would leave the job   *)
(* running without an error of its own (AmountVerifier, Level2Financials,  *)
(* PreliminaryEvaluator, ProfitCalculator.calculate, domain/models).       *)
VerdictsAreProven ==
    \A c \in Callers :
      /\ run[c].pc # "refused"
      /\ LET r == run[c]
             e == r.last
             i == Len(r.results)
         IN  e # None /\ r.results[i] \in {"profitable", "unprofitable"} =>
                /\ e.buy.route = r.order.buy /\ e.sell.route = r.order.sell
                /\ e.buy.input = r.order.amounts[i] /\ e.sell.input = e.buy.output
                /\ FullyKnown(e)
                /\ (r.results[i] = "profitable") <=> MeetsThreshold(e)

(* Whatever the services answer or fail to answer, a verification and an   *)
(* evaluation that started end, by their time limit at the latest.         *)
EveryVerificationEnds ==
    \A c \in Callers : run[c].pc \in Waiting ~> run[c].pc \in Ended

(* False of the code: the documentation of the gas sources says that a     *)
(* price which is not available is None, and gas unknown (providers.py:38, *)
(* estimator.py:7); RpcGasPriceProvider raises, and the whole job ends     *)
(* with the error of the source.                                           *)
UnavailableGasIsUnknown ==
    [][\A c \in Callers : run[c].pc = "gas" => run'[c].pc # "error"]_vars

(* False of the code: the quotes are fresh when they arrive and nobody     *)
(* looks at their age again, although fees, gas and rate are awaited       *)
(* before the decision and further amounts after it.                       *)
ConfirmedIsActual ==
    \A c \in Verifications :
        LET e == run[c].last
        IN  e # None /\ run[c].results[Len(run[c].results)] = "profitable" =>
                e.at - e.buy.at <= QuoteMaxAge /\ e.at - e.sell.at <= QuoteMaxAge

(* False of the code: a route with many sources raises a ValidationError   *)
(* that is no MonikError, and the job stays RUNNING until a restart.       *)
ErrorsAreNormalized == \A c \in Callers : run[c].pc # "broken"
================================================================================
