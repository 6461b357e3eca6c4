--------------------------- MODULE MCConfiguration ----------------------------
(***************************************************************************)
(* Two networks, four providers and four tokens; every combination of some *)
(* provider lists, route policies, sources and notification sections, and  *)
(* documents that break one rule each.                                     *)
(***************************************************************************)
EXTENDS CompositionRoot

CONSTANT none

Url(host) == [https |-> TRUE, host |-> host, credentials |-> FALSE]

MCDefaultUrl == [oneinch |-> Url("api.1inch"), zero_x |-> Url("api.0x"),
                 velora |-> Url("api.velora"), uniswap |-> Url("api.uniswap")]

ProviderEntry(id, networks) ==
    [id |-> id, enabled |-> TRUE, url |-> none, key |-> none, networks |-> networks,
     roundTrip |-> FALSE]

TokenEntry(address, symbol, rank) ==
    [network |-> "eth", address |-> address, enabled |-> TRUE, decimals |-> 6,
     symbol |-> symbol, rank |-> rank]

Off(entry) == [entry EXCEPT !.enabled = FALSE]

OneInch == [ProviderEntry("oneinch", {"eth"}) EXCEPT !.key = "KEY_1", !.roundTrip = TRUE]
ZeroX   == [ProviderEntry("zero_x", {"eth", "bsc"}) EXCEPT !.key = "KEY_2", !.url = Url("proxy")]
Velora  == ProviderEntry("velora", {"bsc"})
Uniswap == [ProviderEntry("uniswap", {"eth"}) EXCEPT !.url = [Url("mirror") EXCEPT !.credentials = TRUE]]

Base ==
    [application   |-> [production |-> FALSE, debug |-> FALSE],
     networks      |-> <<[id |-> "eth", enabled |-> TRUE, rpc |-> Url("rpc.eth")],
                         [id |-> "bsc", enabled |-> TRUE, rpc |-> none]>>,
     providers     |-> <<OneInch, ZeroX, Off(Uniswap)>>,
     tokens        |-> <<TokenEntry("usdc", 1, none), TokenEntry("link", 2, none),
                         TokenEntry("weth", 3, 1), Off(TokenEntry("dai", 4, 2))>>,
     routes        |-> [sameProvider |-> FALSE, pairs |-> <<>>],
     scanner       |-> [network |-> "eth", token |-> "usdc",
                        amounts |-> <<[value |-> 1, digits |-> 0], [value |-> 15, digits |-> 1]>>],
     level1        |-> [interval |-> 300, timeout |-> 240, top |-> 2],
     gas           |-> [sources |-> <<"adapter_estimate", "rpc">>, staticPrice |-> none,
                        unknownAsZero |-> FALSE],
     prices        |-> [sources |-> <<"aggregator_quote">>, endpoint |-> none],
     http          |-> [extra |-> {"cdn"}, normalized |-> TRUE, verifyTls |-> TRUE,
                        follow |-> FALSE, redirects |-> 0],
     capabilities  |-> [unknownAsSupported |-> FALSE],
     fees          |-> [unknownAsZero |-> FALSE],
     profitability |-> [preliminary |-> 1, final |-> 1, unknownBlocks |-> TRUE],
     level2        |-> [ttl |-> 120, timeout |-> 60, requireRoute |-> TRUE],
     retry         |-> [initial |-> 1, max |-> 30, respectRetryAfter |-> TRUE],
     notifications |-> [enabled |-> FALSE, initial |-> 2, max |-> 300],
     telegram      |-> [enabled |-> FALSE, token |-> "BOT", chat |-> "CHAT",
                        url |-> Url("api.telegram"), commands |-> TRUE],
     system        |-> [enabled |-> TRUE],
     health        |-> [interval |-> 60, degraded |-> 2, failure |-> 4],
     database      |-> [integrity |-> TRUE, foreignKeys |-> TRUE, backup |-> FALSE,
                        directory |-> none, traverses |-> FALSE],
     tasks         |-> [level1_scan |-> [enabled |-> TRUE, mode |-> "interval", seconds |-> 60,
                                         time |-> none, zone |-> none]]]

ProviderLists ==
    {<<OneInch, ZeroX, Off(Uniswap)>>, <<Velora, OneInch, Uniswap>>, <<Velora, Off(OneInch)>>,
     <<Velora, ZeroX>>, <<ZeroX, Off(OneInch)>>, <<OneInch>>}

Routes ==
    {[sameProvider |-> FALSE, pairs |-> <<>>], [sameProvider |-> TRUE, pairs |-> <<>>],
     [sameProvider |-> FALSE, pairs |-> <<<<"oneinch", "zero_x">>>>]}

Sources ==
    {<<Base.gas, Base.prices>>,
     <<[Base.gas EXCEPT !.sources = <<"static">>, !.staticPrice = 5],
       [sources |-> <<"http">>, endpoint |-> Url("prices")]>>,
     <<[Base.gas EXCEPT !.sources = <<"adapter_estimate">>], Base.prices>>,
     <<Base.gas, [sources |-> <<"static">>, endpoint |-> none]>>}

Channels == {<<a, b, c>> : a \in BOOLEAN, b \in BOOLEAN, c \in BOOLEAN}

Combined ==
    {[Base EXCEPT !.providers = p, !.routes = r, !.gas = s[1], !.prices = s[2],
                  !.notifications.enabled = c[1], !.telegram.enabled = c[2],
                  !.system.enabled = c[3]] :
        p \in ProviderLists, r \in Routes, s \in Sources, c \in Channels}

(* One rule broken, or met at its boundary, in each. *)
Special ==
    {[Base EXCEPT !.networks[1].rpc.https = FALSE],
     [Base EXCEPT !.networks[1].enabled = FALSE],
     [Base EXCEPT !.networks[2].enabled = FALSE, !.networks[2].rpc = Url("rpc.bsc")],
     [Base EXCEPT !.networks[2].enabled = FALSE, !.networks[2].rpc = Url("rpc.eth")],
     [Base EXCEPT !.networks[2].id = "eth"],
     [Base EXCEPT !.networks[1].rpc.host = "localhost"],
     [Base EXCEPT !.providers[1].networks = {}],
     [Base EXCEPT !.providers[2].networks = {"eth", "avax"}],
     [Base EXCEPT !.tokens[2].network = "avax"],
     [Base EXCEPT !.tokens[1].enabled = FALSE],
     [Base EXCEPT !.tokens[1].decimals = 0],
     [Base EXCEPT !.tokens[2].enabled = FALSE, !.tokens[3].enabled = FALSE],
     [Base EXCEPT !.tokens[3].address = "link"],
     [Base EXCEPT !.routes.pairs = <<<<"oneinch", "oneinch">>>>],
     [Base EXCEPT !.routes.pairs = <<<<"oneinch", "uniswap">>>>],
     [Base EXCEPT !.level1.top = 0],
     [Base EXCEPT !.telegram.token = "KEY_1"],
     [Base EXCEPT !.level1.timeout = 300],
     [Base EXCEPT !.level1.timeout = 301],
     [Base EXCEPT !.capabilities.unknownAsSupported = TRUE],
     [Base EXCEPT !.fees.unknownAsZero = TRUE],
     [Base EXCEPT !.http.redirects = 1],
     [Base EXCEPT !.http.redirects = 1, !.http.follow = TRUE],
     [Base EXCEPT !.database.backup = TRUE],
     [Base EXCEPT !.health.degraded = 4],
     [Base EXCEPT !.health.degraded = 5],
     [Base EXCEPT !.profitability.preliminary = 2],
     [Base EXCEPT !.level2.timeout = 121],
     [Base EXCEPT !.level2.requireRoute = FALSE],
     [Base EXCEPT !.retry.max = 1],
     [Base EXCEPT !.retry.max = 0],
     [Base EXCEPT !.notifications.max = 2],
     [Base EXCEPT !.notifications.max = 1],
     [Base EXCEPT !.gas.sources = <<"rpc", "rpc">>],
     [Base EXCEPT !.gas.sources = <<"static">>],
     [Base EXCEPT !.prices.sources = <<"http">>],
     [Base EXCEPT !.tasks.level1_scan.seconds = none],
     [Base EXCEPT !.tasks.level1_scan.enabled = FALSE],
     [Base EXCEPT !.application.production = TRUE],
     [Base EXCEPT !.application.production = TRUE, !.application.debug = TRUE],
     [Base EXCEPT !.application.production = TRUE, !.database.integrity = FALSE],
     [Base EXCEPT !.application.production = TRUE, !.providers[1].key = none]}

MCDocuments == Combined \union Special

Variable(section, key, value) == [section |-> section, key |-> key, value |-> value]

AllSecrets == {"KEY_1", "KEY_2", "BOT", "CHAT"}

MCEnvironments ==
    {[secrets |-> AllSecrets, overrides |-> o] :
        o \in {{}, {Variable("notifications", "enabled", TRUE)},
               {Variable("notifications", "enabled", FALSE), Variable("level1", "top", 1)},
               {Variable("telegram", "enabled", FALSE), Variable("telegram", "commands", FALSE)},
               {Variable("providers", "enabled", FALSE)},
               {Variable("level2", "ttl", 60), Variable("health", "failure", 2)},
               {Variable("level2", "ttl", 30)},
               {Variable("telegram", "token_ref", "BOT")}}}
        \union {[secrets |-> s, overrides |-> {}] : s \in {{"KEY_1", "KEY_2"}, {"BOT", "CHAT"}}}
================================================================================
