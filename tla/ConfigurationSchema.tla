------------------------- MODULE ConfigurationSchema --------------------------
(***************************************************************************)
(* config/root.py and config/sections: which documents are a valid         *)
(* configuration.  A document is a record of sections.  networks,          *)
(* providers and tokens are lists (sequences of records), every other      *)
(* section is a mapping; telegram, system, level1, level2, retry and tasks *)
(* stand for the nested notifications.telegram, notifications.system,      *)
(* scanner.level1, scanner.level2, resources.retry and scheduler.tasks.  A *)
(* url is a record [https, host, credentials].                             *)
(***************************************************************************)
EXTENDS Integers, SequencesExt

CONSTANTS
    None          \* a key that the document does not give

Lists == {"networks", "providers", "tokens"}

(* The keys of the mappings, but for those of tasks, which name the tasks. *)
Keys ==
    [application   |-> {"production", "debug"},
     routes        |-> {"sameProvider", "pairs"},
     scanner       |-> {"network", "token", "amounts"},
     level1        |-> {"interval", "timeout", "top"},
     level2        |-> {"ttl", "timeout", "requireRoute"},
     gas           |-> {"sources", "staticPrice", "unknownAsZero"},
     prices        |-> {"sources", "endpoint"},
     http          |-> {"extra", "normalized", "verifyTls", "follow", "redirects"},
     capabilities  |-> {"unknownAsSupported"},
     fees          |-> {"unknownAsZero"},
     profitability |-> {"preliminary", "final", "unknownBlocks"},
     retry         |-> {"initial", "max", "respectRetryAfter"},
     notifications |-> {"enabled", "initial", "max"},
     telegram      |-> {"enabled", "token", "chat", "url", "commands"},
     system        |-> {"enabled"},
     health        |-> {"interval", "degraded", "failure"},
     database      |-> {"integrity", "foreignKeys", "backup", "directory", "traverses"}]

(* The enumeration ProviderId. *)
ProviderIds == {"oneinch", "zero_x", "velora", "uniswap"}

(* A parsed file, the omitted keys with their defaults. *)
IsDocument(d) ==
    /\ DOMAIN d = Lists \union DOMAIN Keys \union {"tasks"}
    /\ \A list \in Lists : d[list] \in Seq(ToSet(d[list]))
    /\ \A section \in DOMAIN Keys : DOMAIN d[section] = Keys[section]

(***************************************************************************)
(* The validators of the sections.                                         *)
(***************************************************************************)
Secure(url) == url # None => url.https

ProviderIsValid(p) ==
    /\ p.id \in ProviderIds
    /\ Secure(p.url)
    /\ p.enabled => p.networks # {}

TokenIsValid(t) == t.symbol \in Nat /\ (t.rank # None => t.rank \in Nat \ {0})

RoutesAreValid(r) ==
    /\ IsInjective(r.pairs)
    /\ r.sameProvider \/ \A pair \in ToSet(r.pairs) : pair[1] # pair[2]

ScannerIsValid(s) == s.amounts # <<>> /\ IsInjective(s.amounts)

Level1IsValid(l) == l.top \in 1..500 /\ l.timeout <= l.interval

GasIsValid(g) ==
    /\ g.sources # <<>> /\ IsInjective(g.sources)
    /\ "static" \in ToSet(g.sources) => g.staticPrice # None
    /\ g.staticPrice # None => g.staticPrice > 0
    /\ ~g.unknownAsZero

PricesAreValid(p) ==
    /\ p.sources # <<>> /\ IsInjective(p.sources)
    /\ "http" \in ToSet(p.sources) => p.endpoint # None
    /\ Secure(p.endpoint)

TelegramIsValid(t) ==
    /\ t.url # None /\ Secure(t.url)
    /\ t.enabled => t.token # None /\ t.chat # None

NotificationsAreValid(d) ==
    /\ d.notifications.initial <= d.notifications.max
    /\ d.notifications.enabled => d.telegram.enabled

(* Rules of single settings, and the safeguards that cannot be disabled.   *)
CapabilitiesAreValid(c) == ~c.unknownAsSupported

FeesAreValid(f) == ~f.unknownAsZero

HttpIsValid(h) == h.verifyTls /\ (h.redirects > 0 => h.follow) /\ h.normalized

DatabaseIsValid(d) == d.foreignKeys /\ (d.backup => d.directory # None) /\ ~d.traverses

(* Otherwise DEGRADED could not be reached.                                *)
HealthIsValid(h) == h.degraded <= h.failure

(* Otherwise Level 1 would discard what Level 2 would confirm.             *)
ProfitabilityIsValid(p) == p.unknownBlocks /\ p.preliminary <= p.final

Level2IsValid(l) == l.requireRoute /\ l.timeout <= l.ttl

RetryIsValid(r) == r.initial <= r.max /\ r.respectRetryAfter

SafeguardsAreValid(d) ==
    /\ CapabilitiesAreValid(d.capabilities) /\ FeesAreValid(d.fees)
    /\ HttpIsValid(d.http) /\ DatabaseIsValid(d.database)
    /\ HealthIsValid(d.health) /\ ProfitabilityIsValid(d.profitability)
    /\ Level2IsValid(d.level2) /\ RetryIsValid(d.retry)

(* A STARTUP or MANUAL task has no period, an INTERVAL task has one, a     *)
(* DAILY task has a time of day in a zone.                                 *)
ScheduleIsValid(s) ==
    /\ (s.mode = "interval") = (s.seconds # None)
    /\ (s.mode = "daily") = (s.time # None)
    /\ s.mode = "daily" => s.zone # None

SectionsAreValid(d) ==
    /\ d.networks # <<>> /\ \A n \in ToSet(d.networks) : Secure(n.rpc)
    /\ d.providers # <<>> /\ \A p \in ToSet(d.providers) : ProviderIsValid(p)
    /\ d.tokens # <<>> /\ \A t \in ToSet(d.tokens) : TokenIsValid(t)
    /\ RoutesAreValid(d.routes) /\ ScannerIsValid(d.scanner) /\ Level1IsValid(d.level1)
    /\ GasIsValid(d.gas) /\ PricesAreValid(d.prices)
    /\ TelegramIsValid(d.telegram) /\ NotificationsAreValid(d)
    /\ SafeguardsAreValid(d)
    /\ \A id \in DOMAIN d.tasks : ScheduleIsValid(d.tasks[id])

(***************************************************************************)
(* The selections of Configuration.                                        *)
(***************************************************************************)
EnabledNetworks(c)  == {n \in ToSet(c.networks) : n.enabled}
EnabledProviders(c) == {p \in ToSet(c.providers) : p.enabled}
EnabledTokens(c)    == {t \in ToSet(c.tokens) : t.enabled}

Ids(entries) == {entry.id : entry \in entries}

Network(c, id)  == CHOOSE n \in ToSet(c.networks) : n.id = id
Provider(c, id) == CHOOSE p \in ToSet(c.providers) : p.id = id

Key(token)    == <<token.network, token.address>>
BaseKey(c)    == <<c.scanner.network, c.scanner.token>>
TokenOf(c, k) == {t \in ToSet(c.tokens) : Key(t) = k}

(* RoutePolicyConfig.is_allowed: no listed pair means every pair.          *)
IsAllowed(routes, buy, sell) ==
    /\ buy # sell \/ routes.sameProvider
    /\ routes.pairs = <<>> \/ <<buy, sell>> \in ToSet(routes.pairs)

ProviderPairs(c) ==
    {pair \in Ids(EnabledProviders(c)) \X Ids(EnabledProviders(c)) :
        /\ IsAllowed(c.routes, pair[1], pair[2])
        /\ pair[1] = pair[2] =>
               c.routes.sameProvider /\ Provider(c, pair[1]).roundTrip}

(* The positions of the enabled tokens of the base network other than the  *)
(* base token, and their order: by rank, the tokens without one last, then *)
(* by symbol (a number here), then as listed.                              *)
Tradable(c) ==
    {i \in DOMAIN c.tokens :
        /\ c.tokens[i].enabled
        /\ c.tokens[i].network = c.scanner.network
        /\ Key(c.tokens[i]) # BaseKey(c)}

Precedes(c, i, j) ==
    LET a == c.tokens[i]
        b == c.tokens[j]
    IN  \/ a.rank # None /\ b.rank = None
        \/ a.rank # None /\ b.rank # None /\ a.rank < b.rank
        \/ a.rank = b.rank /\ (a.symbol < b.symbol \/ (a.symbol = b.symbol /\ i < j))

ScanTokens(c) ==
    {Key(c.tokens[i]) : i \in {i \in Tradable(c) :
        Cardinality({j \in Tradable(c) : Precedes(c, j, i)}) < c.level1.top}}

(***************************************************************************)
(* The validators of Configuration, in their order.                        *)
(***************************************************************************)
UniqueIdentities(c) ==
    /\ Cardinality(Ids(ToSet(c.networks))) = Len(c.networks)
    /\ Cardinality(Ids(ToSet(c.providers))) = Len(c.providers)
    /\ Cardinality({Key(t) : t \in ToSet(c.tokens)}) = Len(c.tokens)

StartupRequirements(c) ==
    /\ EnabledNetworks(c) # {}
    /\ EnabledProviders(c) # {}
    /\ EnabledTokens(c) # {}

CrossReferences(c) ==
    /\ \A t \in EnabledTokens(c) : t.network \in Ids(EnabledNetworks(c))
    /\ \A p \in EnabledProviders(c) :
          /\ p.networks \cap Ids(EnabledNetworks(c)) # {}
          /\ p.networks \subseteq Ids(ToSet(c.networks))
    /\ \A pair \in ToSet(c.routes.pairs) :
          {pair[1], pair[2]} \subseteq Ids(EnabledProviders(c))
    /\ ProviderPairs(c) # {}

ScannerScope(c) ==
    /\ c.scanner.network \in Ids(EnabledNetworks(c))
    /\ \E base \in TokenOf(c, BaseKey(c)) :
          /\ base.enabled
          /\ \A amount \in ToSet(c.scanner.amounts) : amount.digits <= base.decimals
    /\ Tradable(c) # {}

ProductionSafety(c) ==
    c.application.production =>
        /\ ~c.application.debug
        /\ c.database.integrity
        /\ \A p \in EnabledProviders(c) : p.key # None

IsValid(c) ==
    /\ SectionsAreValid(c)
    /\ UniqueIdentities(c)
    /\ StartupRequirements(c)
    /\ CrossReferences(c)
    /\ ScannerScope(c)
    /\ ProductionSafety(c)

(***************************************************************************)
(* _apply_env_overrides: an override [section, key, value] sets one key of *)
(* a mapping, whatever the file says, and cannot descend into a list.  A   *)
(* key that the schema does not know is refused by the validation (extra = *)
(* forbid).  Variables that set a part of one task are left out.           *)
(***************************************************************************)
CannotDescend(overrides) == \E o \in overrides : o.section \in Lists

Unknown(document, overrides) ==
    \E o \in overrides :
        \/ o.section \notin DOMAIN document
        \/ o.key \notin DOMAIN document[o.section]

Overridden(document, overrides) ==
    [s \in DOMAIN document |->
        IF s \in Lists THEN document[s]
        ELSE LET given == {o \in overrides : o.section = s}
             IN  [k \in DOMAIN document[s] |->
                     IF \E o \in given : o.key = k
                     THEN (CHOOSE o \in given : o.key = k).value
                     ELSE document[s][k]]]
================================================================================
