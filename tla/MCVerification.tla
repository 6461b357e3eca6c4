----------------------------- MODULE MCVerification -----------------------------
(***************************************************************************)
(* A job of Level 2 (two amounts on 1inch - Uniswap, one on 0x - Velora,   *)
(* or two with a sell leg that has no adapter) and an evaluation of Level  *)
(* 1 on the first of these routes.                                         *)
(***************************************************************************)
EXTENDS Verification

CONSTANTS job, scan, none, bad, lost

MCCallers == {job, scan}
MCVerifications == {job}
MCEvaluations == {scan}

MCSettings == [swapper |-> "address", preference |-> none, auto |-> TRUE, tolerance |-> none]

Route(provider, mode, sources) == [provider |-> provider, mode |-> mode, sources |-> sources]

Order1 == [buy |-> Route("oneinch", "classic", {"curve"}),
           sell |-> Route("uniswap", "classic", {"pool"}), amounts |-> <<100, 200>>]
Order2 == [buy |-> Route("zero_x", "classic", {"curve"}),
           sell |-> Route("velora", "classic", {"balancer"}), amounts |-> <<100>>]
Order3 == [Order1 EXCEPT !.sell.provider = "paused"]

(* Level 1 evaluates one amount.                                           *)
MCOrders == [c \in MCCallers |-> IF c = job THEN {Order1, Order2, Order3}
                                 ELSE {[Order1 EXCEPT !.amounts = <<100>>]}]

MCKeys == UNION {{FeeKey(order.buy, "base", "mid"), FeeKey(order.sell, "mid", "base")} :
                    order \in {Order1, Order2, Order3}}

MCGiven(order) ==
    [buy |-> [route |-> order.buy, input |-> 100, output |-> 50, gas |-> 1, at |-> 0],
     sell |-> [route |-> order.sell, input |-> 50, output |-> 103, gas |-> 1, at |-> 0]]

Answer(out, echo, gas, sources) ==
    [http |-> "ok", mode |-> "classic", out |-> out, echo |-> echo, gas |-> gas,
     impact |-> none, sources |-> sources]

(* What the native token is worth; more than two sources are too many.     *)
MCProbeAnswers ==
    {Answer(1, none, 1, {"curve"}), Answer(0, none, 1, {"curve"}),
     Answer(1, none, 1, {"curve", "pool", "pool2"}),
     [Answer(1, none, 1, {"curve"}) EXCEPT !.http = "timeout"]}

(* With gas for 2, the threshold of one percent is met exactly by 103 for  *)
(* 100 and missed by 102.  A second source fits in a route, a third does   *)
(* not.                                                                    *)
MCAnswers ==
    [oneinch |-> {Answer(50, none, 1, {"curve"}),
                  [Answer(50, none, 1, {"curve"}) EXCEPT !.impact = bad],
                  [Answer(50, none, 1, {"curve"}) EXCEPT !.http = "timeout"]},
     uniswap |-> {Answer(103, none, 1, {"pool"}), Answer(103, none, 1, {"pool", "pool2"}),
                  Answer(103, none, 1, {"pool", "pool2", "pool3"}),
                  [Answer(103, none, 1, {"pool"}) EXCEPT !.mode = bad]},
     zero_x |-> {Answer(60, 100, 1, {"curve"}), Answer(60, 200, 1, {"curve"}),
                 Answer(0, none, 1, {"curve"}),
                 [Answer(60, none, 1, {"curve"}) EXCEPT !.http = "rate_limited"]},
     velora |-> {Answer(102, 60, 1, {"balancer"}), Answer(102, none, none, {"balancer"})}]
================================================================================
