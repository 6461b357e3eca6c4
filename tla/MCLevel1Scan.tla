---------------------------- MODULE MCLevel1Scan ----------------------------
(* Two providers that may only be paired with each other.  Nobody may be   *)
(* asked to buy the token u, and of the token t only the second provider   *)
(* to sell it, by one of two routes.                                       *)
EXTENDS Level1Scan

MCPairs == {<<1, 2>>, <<2, 1>>}
MCRefused == {<<"buy", "u", 1>>, <<"buy", "u", 2>>, <<"sell", "t", 1>>}
MCQuotes == [buy |-> {<<1, "p">>, <<2, "p">>}, sell |-> {<<1, "p">>, <<1, "q">>}]
MCResults == {[roi |-> 1, profit |-> 2, passes |-> TRUE],
              [roi |-> 2, profit |-> 1, passes |-> TRUE]}
=============================================================================
