--------------------------- MODULE CompositionRoot ----------------------------
(***************************************************************************)
(* app/main.py, config/loader.py and app/container.py: one process after   *)
(* another reads a configuration file and its environment, validates them, *)
(* resolves the secrets, opens the database and builds the parts of the    *)
(* application.  What is built is kept in the record parts; what the built *)
(* application then does is in the other modules, but for the scope of a   *)
(* scan, which is computed from the configuration again at every cycle.    *)
(***************************************************************************)
EXTENDS ConfigurationSchema

CONSTANTS
    Documents,    \* what the file may hold; None: it cannot be read or parsed
    Environments, \* records [secrets, overrides]: the secrets that are set and
                  \* not blank, and the MONIK__ variables
    DefaultUrl,   \* the endpoints.DEFAULT_BASE_URL of each known provider
    SpecialHosts  \* localhost and addresses that are not public

ASSUME DocumentsAssumption == \A d \in Documents : IsDocument(d)

(* Of two variables with the same path the last one by name is meant.      *)
ASSUME EnvironmentsAssumption ==
    \A e \in Environments : \A o, p \in e.overrides :
        o.section = p.section /\ o.key = p.key => o = p

ASSUME DefaultUrlAssumption == \A id \in ProviderIds : DefaultUrl[id].https

VARIABLES
    stage,        \* how far the process is
    document,     \* the file as it was read
    environment,  \* the environment of the process
    check,        \* --check-config
    config,       \* LoadedConfiguration.config
    secrets,      \* LoadedConfiguration.secrets: the names that are resolved
    database,     \* whether the connection is open
    parts,        \* the container and the tasks, or None
    scope,        \* the scope and the pairs of the last scan, or None
    exit          \* the exit code, or None while the process runs

rootVars == <<stage, document, environment, check, config, secrets, database, parts, scope, exit>>

RootInit ==
    /\ stage = "ended" /\ exit = 0
    /\ document = None /\ environment = None /\ check = FALSE
    /\ config = None /\ secrets = {} /\ database = "closed"
    /\ parts = None /\ scope = None

(***************************************************************************)
(* Loading.                                                                *)
(***************************************************************************)

(* _collect_secret_refs. *)
SecretRefs(c) ==
    ({p.key : p \in EnabledProviders(c)} \ {None})
        \union (IF c.telegram.enabled THEN {c.telegram.token, c.telegram.chat} ELSE {})

(* _apply_env_overrides, model_validate and the resolver, in this order.   *)
Loads ==
    /\ document # None
    /\ ~CannotDescend(environment.overrides)
    /\ ~Unknown(document, environment.overrides)
    /\ LET c == Overridden(document, environment.overrides)
       IN  IsValid(c) /\ SecretRefs(c) \subseteq environment.secrets

LoadConfiguration ==
    /\ stage = "starting" /\ Loads
    /\ stage' = "loaded"
    /\ config' = Overridden(document, environment.overrides)
    /\ secrets' = SecretRefs(config')
    /\ UNCHANGED <<document, environment, check, database, parts, scope, exit>>

(* The process ends with an exit code; its memory is gone.                 *)
Ends(code, connection) ==
    /\ stage' = "ended" /\ exit' = code /\ database' = connection
    /\ document' = None /\ environment' = None /\ check' = FALSE
    /\ config' = None /\ secrets' = {} /\ parts' = None /\ scope' = None

RefuseConfiguration == stage = "starting" /\ ~Loads /\ Ends(1, database)

(***************************************************************************)
(* The parts of the container, each a function of the configuration.       *)
(***************************************************************************)
BaseUrl(p) == IF p.url # None THEN p.url ELSE DefaultUrl[p.id]

(* Mutant: only the addresses that the configuration spells out.           *)
AllowedHostsAsWritten(c) ==
    c.http.extra
        \union {p.url.host : p \in {p \in EnabledProviders(c) : p.url # None}}
        \union {n.rpc.host : n \in {n \in EnabledNetworks(c) : n.rpc # None}}
        \union (IF c.prices.endpoint # None THEN {c.prices.endpoint.host} ELSE {})
        \union (IF c.telegram.enabled THEN {c.telegram.url.host} ELSE {})

AllowedHosts(c) ==
    c.http.extra
        \union {BaseUrl(p).host : p \in EnabledProviders(c)}
        \union {n.rpc.host : n \in {n \in EnabledNetworks(c) : n.rpc # None}}
        \union (IF c.prices.endpoint # None THEN {c.prices.endpoint.host} ELSE {})
        \union (IF c.telegram.enabled THEN {c.telegram.url.host} ELSE {})

(* UrlPolicy.validate. *)
Permits(hosts, url) ==
    /\ url.https /\ ~url.credentials
    /\ url.host \notin SpecialHosts
    /\ url.host \in hosts

(* _build_adapters: the endpoint and the secret of every adapter.          *)
Adapters(c) ==
    [id \in Ids(EnabledProviders(c)) |->
        [url |-> BaseUrl(Provider(c, id)), key |-> Provider(c, id).key]]

FeePolicies(c) == Ids(EnabledProviders(c))

(* _gas_providers: the source adapter_estimate builds nothing.  rpc asks    *)
(* the networks that give a url.                                           *)
RpcUrls(c) ==
    [id \in Ids({n \in EnabledNetworks(c) : n.rpc # None}) |-> Network(c, id).rpc]

GasProviders(c) ==
    (IF "static" \in ToSet(c.gas.sources) THEN {[kind |-> "static", urls |-> <<>>]} ELSE {})
        \union (IF "rpc" \in ToSet(c.gas.sources) /\ DOMAIN RpcUrls(c) # {}
                THEN {[kind |-> "rpc", urls |-> RpcUrls(c)]} ELSE {})

(* _price_providers: the source static builds nothing.  The quotes come    *)
(* from the adapter of the first enabled provider.                         *)
FirstProvider(c) ==
    c.providers[CHOOSE i \in DOMAIN c.providers :
                    /\ c.providers[i].enabled
                    /\ \A j \in 1..(i - 1) : ~c.providers[j].enabled]

PriceProviders(c) ==
    (IF "aggregator_quote" \in ToSet(c.prices.sources)
     THEN {[kind |-> "quote", source |-> FirstProvider(c).id]} ELSE {})
        \union (IF "http" \in ToSet(c.prices.sources)
                THEN {[kind |-> "http", source |-> c.prices.endpoint]} ELSE {})

HasTelegram(c) == c.telegram.enabled /\ c.telegram.token # None /\ c.telegram.chat # None

(* Mutant: a chat is a destination even when notifications are off.        *)
DestinationsOfTelegram(c) ==
    IF c.telegram.enabled /\ c.telegram.chat # None THEN {c.telegram.chat} ELSE {}

Destinations(c) ==
    IF c.notifications.enabled /\ c.telegram.enabled /\ c.telegram.chat # None
    THEN {c.telegram.chat} ELSE {}

HasNotifier(c) == HasTelegram(c) /\ c.system.enabled /\ Destinations(c) # {}
HasCommands(c) == HasTelegram(c) /\ c.telegram.commands /\ Destinations(c) # {}

(* build_application: the registered tasks and their schedules; one that   *)
(* the configuration gives replaces the default.                           *)
RegisteredTasks(c) ==
    {"capability_load", "level1_scan", "notification_delivery"}
        \union (IF HasNotifier(c) THEN {"system_health_notifications"} ELSE {})
        \union (IF HasCommands(c) THEN {"telegram_commands"} ELSE {})

DefaultSeconds(c) ==
    [capability_load |-> None, level1_scan |-> 300, notification_delivery |-> 10,
     system_health_notifications |-> c.health.interval, telegram_commands |-> 5]

TaskSchedules(c) ==
    [id \in RegisteredTasks(c) |->
        IF id \in DOMAIN c.tasks
        THEN [enabled |-> c.tasks[id].enabled, seconds |-> c.tasks[id].seconds]
        ELSE [enabled |-> TRUE, seconds |-> DefaultSeconds(c)[id]]]

Container(c) ==
    [adapters     |-> Adapters(c),
     hosts        |-> AllowedHosts(c),
     fees         |-> FeePolicies(c),
     gas          |-> GasProviders(c),
     prices       |-> PriceProviders(c),
     telegram     |-> IF HasTelegram(c) THEN c.telegram.url ELSE None,
     destinations |-> Destinations(c),
     notifier     |-> HasNotifier(c),
     commands     |-> HasCommands(c),
     tasks        |-> TaskSchedules(c)]

Buildable(c) == GasProviders(c) # {} /\ PriceProviders(c) # {}

(***************************************************************************)
(* The steps of _run.                                                      *)
(***************************************************************************)

(* main with its arguments; the operator may have edited the file and the  *)
(* environment since the last process.                                     *)
Start ==
    /\ stage = "ended"
    /\ stage' = "starting" /\ exit' = None
    /\ document' \in Documents \union {None}
    /\ environment' \in Environments
    /\ check' \in BOOLEAN
    /\ database' = "closed"
    /\ UNCHANGED <<config, secrets, parts, scope>>

CheckOnly == stage = "loaded" /\ check /\ Ends(0, database)

(* Database.connect and MigrationRunner.upgrade.  When the pragmas or a    *)
(* migration fail the connection is left open.                             *)
Connect ==
    /\ stage = "loaded" /\ ~check
    /\ \/ /\ stage' = "connected" /\ database' = "open"
          /\ UNCHANGED <<document, environment, check, config, secrets, parts, scope, exit>>
       \/ \E connection \in {"closed", "open"} : Ends(1, connection)

Build ==
    /\ stage = "connected" /\ Buildable(config)
    /\ stage' = "running"
    /\ parts' = Container(config)
    /\ UNCHANGED <<document, environment, check, config, secrets, database, scope, exit>>

(* A ConfigurationError leaves create_application, which closes nothing.   *)
BuildFails == stage = "connected" /\ ~Buildable(config) /\ Ends(1, database)

(* ScopeBuilder.build, then the pairs of the cycle.  Without a provider on *)
(* the base network the cycle ends with a ConfigurationError.              *)
ScanProviders(c) == {p.id : p \in {p \in EnabledProviders(c) :
                                      c.scanner.network \in p.networks}}

ScopeOf(c) ==
    [network   |-> c.scanner.network,
     providers |-> ScanProviders(c),
     tokens    |-> ScanTokens(c),
     pairs     |-> {pair \in ScanProviders(c) \X ScanProviders(c) :
                        IsAllowed(c.routes, pair[1], pair[2])}]

Scan ==
    /\ stage = "running" /\ parts.tasks.level1_scan.enabled
    /\ scope' = IF ScanProviders(config) = {} THEN None ELSE ScopeOf(config)
    /\ UNCHANGED <<stage, document, environment, check, config, secrets, database, parts, exit>>

(* The finally of _run: shutdown closes the container, then the database.  *)
Stop == stage = "running" /\ \E code \in {0, 1, 2} : Ends(code, "closed")

RootNext ==
    \/ Start
    \/ LoadConfiguration \/ RefuseConfiguration
    \/ CheckOnly
    \/ Connect
    \/ Build \/ BuildFails
    \/ Scan
    \/ Stop

RootSpec == RootInit /\ [][RootNext]_rootVars

(***************************************************************************)
(* Properties.                                                             *)
(***************************************************************************)

(* What the operator asked for: a variable of the environment wins over    *)
(* the file.                                                               *)
Given(section, key) ==
    IF \E o \in environment.overrides : o.section = section /\ o.key = key
    THEN (CHOOSE o \in environment.overrides : o.section = section /\ o.key = key).value
    ELSE document[section][key]

Endpoints ==
    {parts.adapters[id].url : id \in DOMAIN parts.adapters}
        \union (UNION {{g.urls[id] : id \in DOMAIN g.urls} : g \in parts.gas})
        \union {p.source : p \in {p \in parts.prices : p.kind = "http"}}
        \union ({parts.telegram} \ {None})

SecretsInUse ==
    ({parts.adapters[id].key : id \in DOMAIN parts.adapters} \ {None})
        \union (IF parts.telegram # None THEN {config.telegram.token, config.telegram.chat}
                                         ELSE {})

(* Whatever is built can do its work: the url policy, computed apart from  *)
(* the parts, lets every client reach its public endpoint; every secret in *)
(* use was resolved, from a variable that is set; a destination has a      *)
(* transport; both providers of every pair that a scan will ask have an    *)
(* adapter and a fee policy and declare the network; and the limits that   *)
(* the other modules assume hold of what the operator asked for: a job is  *)
(* verified within its life time, DEGRADED comes before UNAVAILABLE, and   *)
(* Level 1 keeps what Level 2 could confirm.                               *)
BuiltPartsAreUsable ==
    parts # None =>
        /\ \A url \in Endpoints :
              url.host \notin SpecialHosts /\ ~url.credentials => Permits(parts.hosts, url)
        /\ SecretsInUse \subseteq secrets \intersect environment.secrets
        /\ parts.destinations # {} => parts.telegram # None
        /\ parts.notifier \/ parts.commands => parts.destinations # {}
        /\ \A p \in parts.prices : p.kind = "quote" => p.source \in DOMAIN parts.adapters
        /\ scope # None =>
              \A pair \in scope.pairs : \A id \in {pair[1], pair[2]} :
                  /\ id \in DOMAIN parts.adapters \intersect parts.fees
                  /\ scope.network \in Provider(config, id).networks
        /\ Given("level2", "timeout") <= Given("level2", "ttl")
        /\ Given("health", "degraded") <= Given("health", "failure")
        /\ Given("profitability", "preliminary") <= Given("profitability", "final")

(* What the operator switched off, in the file or by a variable, has no    *)
(* part that acts: a provider no adapter, a network no client, a token no  *)
(* cycle, notifications no destination, Telegram no transport, no secret   *)
(* (what is resolved are the keys of enabled providers) and no task, a     *)
(* task no run.                                                            *)
DisabledStaysSilent ==
    parts # None =>
        /\ \A p \in ToSet(document.providers) : ~p.enabled => p.id \notin DOMAIN parts.adapters
        /\ \A n \in ToSet(document.networks) : ~n.enabled =>
              \A g \in parts.gas : n.id \notin DOMAIN g.urls
        /\ ~Given("notifications", "enabled") =>
              parts.destinations = {} /\ ~parts.notifier /\ ~parts.commands
        /\ ~Given("telegram", "enabled") =>
              /\ parts.telegram = None
              /\ secrets \subseteq {p.key : p \in {p \in ToSet(document.providers) : p.enabled}}
              /\ "telegram_commands" \notin DOMAIN parts.tasks
        /\ ~Given("telegram", "commands") => "telegram_commands" \notin DOMAIN parts.tasks
        /\ ~Given("system", "enabled") => "system_health_notifications" \notin DOMAIN parts.tasks
        /\ \A id \in DOMAIN parts.tasks \intersect DOMAIN document.tasks :
              ~Given("tasks", id).enabled => ~parts.tasks[id].enabled
        /\ scope # None =>
              /\ Cardinality(scope.tokens) <= Given("level1", "top")
              /\ \A t \in ToSet(document.tokens) : ~t.enabled => Key(t) \notin scope.tokens
              /\ \A p \in ToSet(document.providers) : ~p.enabled => p.id \notin scope.providers

(* The cycle asks only pairs that provider_pairs() accepts.  False of the  *)
(* code: the scan uses is_allowed alone, so allow_same_provider_round_trip *)
(* of a provider has no effect on it.                                      *)
ScansAcceptedPairs == scope # None => scope.pairs \subseteq ProviderPairs(config)

(* A configuration that --check-config accepts can be built.  False of the *)
(* code: the sources of gas and prices are only judged by build_container. *)
AcceptedIsBuildable == stage = "loaded" => Buildable(config)

(* A process that ended has closed the database.  False of the code: only  *)
(* the finally of _run closes it, and Build fails before.                  *)
EndedIsClosed == stage = "ended" => database = "closed"
================================================================================
