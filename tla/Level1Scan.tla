----------------------------- MODULE Level1Scan -----------------------------
(***************************************************************************)
(* One Level 1 scan.  Every token with every amount is a context with a    *)
(* task of its own: it asks all admitted providers to buy, takes the       *)
(* largest output, asks the providers paired with the winner to sell that  *)
(* output, and evaluates the pairs of quotes.  All requests of the scan    *)
(* share one semaphore.  The candidates that pass the threshold are        *)
(* grouped by providers and routes, ranked and handed to Level 2.          *)
(*                                                                         *)
(* asyncio.gather passes the first exception on and lets the other tasks   *)
(* go: when a context fails, its token is lost, while the requests and     *)
(* the other contexts of that token continue with nobody to wait for them, *)
(* even after the scan has ended.                                          *)
(*                                                                         *)
(* The handoff of one group is a single step here; Level1Handoff has its   *)
(* commit and its submission as two.                                       *)
(***************************************************************************)
EXTENDS Integers, FiniteSetsExt

CONSTANTS
  Tokens,         (* the intermediate tokens of the scope                       *)
  Amounts,        (* the raw amounts of the scope                               *)
  Providers,      (* numbered in the order of their identifiers                 *)
  Pairs,          (* the provider pairs the route policy allows                 *)
  Refused,        (* <<operation, token, provider>> CombinationFilter refuses   *)
  MaxConcurrent,  (* scanner.level1.max_concurrent_requests                     *)
  Capacity,       (* the most opportunities the scan may create                 *)
  Routes,         (* the routes of the quotes                                   *)
  Quotes,         (* the quotes an operation may bring: <<output, route>>       *)
  Results,        (* what a preliminary evaluation may return                   *)
  Errors          (* may something raise what the scan does not expect?         *)

Operations == {"buy", "sell"}
Contexts   == Tokens \X Amounts
Requests   == Operations \X Contexts \X Providers
AnyRoute   == Routes \union {"none"}
NoQuote    == <<0, "none">>

ASSUME Level1Assumption ==
  /\ IsFiniteSet(Tokens) /\ IsFiniteSet(Amounts) /\ IsFiniteSet(Providers)
  /\ Providers \subseteq Nat
  /\ Pairs \subseteq Providers \X Providers
  /\ Refused \subseteq Operations \X Tokens \X Providers
  /\ MaxConcurrent \in Nat \ {0}
  /\ Capacity \in Nat
  /\ Quotes \in [Operations -> SUBSET ((Nat \ {0}) \X Routes)]
  /\ Results \subseteq [roi : Int, profit : Int, passes : BOOLEAN]
  /\ Errors \in BOOLEAN

VARIABLES
  phase,       (* "idle", "collecting", "creating" or "over"                    *)
  context,     (* what the task of a token and an amount is doing               *)
  request,     (* what has become of a request                                  *)
  quote,       (* the usable quote it brought                                   *)
  found,       (* the candidates the contexts have built                        *)
  timedOut,    (* did the time limit of the scan expire?                        *)
  candidates,  (* what _collect_candidates returned, above the threshold        *)
  slots,       (* how many opportunities may be created                         *)
  left,        (* keys of the groups that are still to be handled               *)
  created,     (* keys of the groups that became opportunities                  *)
  duplicates,  (* number of groups that were known already                      *)
  row          (* the row of the scan in the database                           *)

collection == <<context, request, quote, found>>
creation   == <<candidates, slots, left, created, duplicates>>
vars       == <<phase, collection, timedOut, creation, row>>

ContextState == {"idle", "buying", "selling", "over", "failed", "cancelled"}
RequestState == {"none", "waiting", "asking", "usable", "failed", "lost"}
NoRow == [status |-> "none", requests |-> 0, successful |-> 0, failed |-> 0,
          created |-> 0, duplicates |-> 0]

Candidates ==
  [context : Contexts, buy : Providers, sell : Providers,
   routes : AnyRoute \X AnyRoute, result : Results]

InState(state) == {r \in Requests : request[r] = state}
Asking    == InState("asking")
Issued    == Requests \ InState("none")
Pending(r) == request[r] \in {"waiting", "asking"}

(* A token is lost with its first context that fails. *)
FailedTokens == {t \in Tokens : \E a \in Amounts : context[<<t, a>>] = "failed"}
-----------------------------------------------------------------------------
Admitted(op, c, p) == <<op, c[1], p>> \notin Refused

BuyRequests(c) ==
  {<<"buy", c, p>> : p \in {q \in Providers :
     Admitted("buy", c, q) /\ \E s \in Providers : <<q, s>> \in Pairs}}

UsableBuys(c) == {p \in Providers : request[<<"buy", c, p>>] = "usable"}

BuyOutput(c, p) == quote[<<"buy", c, p>>][1]

(* Mutant: the first provider in the order, whatever its output. *)
FirstBuy(c) == CHOOSE p \in UsableBuys(c) : \A q \in UsableBuys(c) : p <= q

(* _max_buy: the largest output, among equals the last identifier. *)
MaxBuy(c) ==
  CHOOSE p \in UsableBuys(c) :
    \A q \in UsableBuys(c) :
      \/ BuyOutput(c, q) < BuyOutput(c, p)
      \/ BuyOutput(c, q) = BuyOutput(c, p) /\ q <= p

SellRequests(c) ==
  {<<"sell", c, p>> : p \in {q \in Providers :
     Admitted("sell", c, q) /\ <<MaxBuy(c), q>> \in Pairs}}

UsableSells(c) == {p \in Providers : request[<<"sell", c, p>>] = "usable"}

Issue(rs) ==
  request' = [r \in Requests |-> IF r \in rs THEN "waiting" ELSE request[r]]

(* scan and _collect_candidates: the row is written, then every context    *)
(* starts with its buys.                                                   *)
BeginScan ==
  /\ phase = "idle"
  /\ phase' = "collecting"
  /\ row' = [NoRow EXCEPT !.status = "running"]
  /\ context' = [c \in Contexts |-> "buying"]
  /\ Issue(UNION {BuyRequests(c) : c \in Contexts})
  /\ UNCHANGED <<quote, found, timedOut, creation>>

(* _fetch: the request was counted before it waits for the semaphore. *)
EnterSemaphore(r) ==
  /\ request[r] = "waiting"
  /\ Cardinality(Asking) < MaxConcurrent
  /\ request' = [request EXCEPT ![r] = "asking"]
  /\ UNCHANGED <<phase, context, quote, found, timedOut, creation, row>>

(* Mutant: a quote that is refused is not counted. *)
AnswerUncounted(r) ==
  /\ request[r] = "asking"
  /\ \/ \E q \in Quotes[r[1]] :
          /\ request' = [request EXCEPT ![r] = "usable"]
          /\ quote' = [quote EXCEPT ![r] = q]
     \/ /\ request' = [request EXCEPT ![r] = "lost"]
        /\ UNCHANGED quote
  /\ UNCHANGED <<phase, context, found, timedOut, creation, row>>

(* The adapter answers: a usable quote, or an error or a quote that        *)
(* quote_rejection_reason refuses.                                         *)
Answer(r) ==
  /\ request[r] = "asking"
  /\ \/ \E q \in Quotes[r[1]] :
          /\ request' = [request EXCEPT ![r] = "usable"]
          /\ quote' = [quote EXCEPT ![r] = q]
     \/ /\ request' = [request EXCEPT ![r] = "failed"]
        /\ UNCHANGED quote
  /\ UNCHANGED <<phase, context, found, timedOut, creation, row>>

(* The adapter raises what is not a MonikError: the request is counted     *)
(* neither as successful nor as failed, and the context fails at once.     *)
AnswerUnexpected(r) ==
  /\ Errors
  /\ request[r] = "asking"
  /\ request' = [request EXCEPT ![r] = "lost"]
  /\ context' = [context EXCEPT ![r[2]] = "failed"]
  /\ UNCHANGED <<phase, quote, found, timedOut, creation, row>>

(* The gather of the buys ends with the last of them. *)
EndBuys(c) ==
  /\ context[c] = "buying"
  /\ \A r \in BuyRequests(c) : ~ Pending(r)
  /\ IF UsableBuys(c) = {}
     THEN context' = [context EXCEPT ![c] = "over"] /\ UNCHANGED request
     ELSE context' = [context EXCEPT ![c] = "selling"] /\ Issue(SellRequests(c))
  /\ UNCHANGED <<phase, quote, found, timedOut, creation, row>>

(* The gather of the sells has ended and every pair of quotes is evaluated;*)
(* a pair that does not fit together (ValueError) is left out.             *)
EndSells(c) ==
  /\ context[c] = "selling"
  /\ \A r \in SellRequests(c) : ~ Pending(r)
  /\ context' = [context EXCEPT ![c] = "over"]
  /\ \E legs \in SUBSET UsableSells(c) :
       \E result \in [legs -> Results] :
         found' = found \union
           {[context |-> c, buy |-> MaxBuy(c), sell |-> p,
             routes |-> <<quote[<<"buy", c, MaxBuy(c)>>][2], quote[<<"sell", c, p>>][2]>>,
             result |-> result[p]] : p \in legs}
  /\ UNCHANGED <<phase, request, quote, timedOut, creation, row>>

(* Fees, gas or rates raise: _build_candidate catches only ValueError. *)
EvaluationFails(c) ==
  /\ Errors
  /\ context[c] = "selling"
  /\ \A r \in SellRequests(c) : ~ Pending(r)
  /\ UsableSells(c) # {}
  /\ context' = [context EXCEPT ![c] = "failed"]
  /\ UNCHANGED <<phase, request, quote, found, timedOut, creation, row>>
-----------------------------------------------------------------------------
Key(candidate) ==
  <<candidate.buy, candidate.sell, candidate.context[1], candidate.routes>>

Members(key) == {k \in candidates : Key(k) = key}

BestRoi(key)    == Max({k.result.roi : k \in Members(key)})
BestProfit(key) == Max({k.result.profit : k \in Members(key)})

(* Mutant: the profit before the return. *)
OutranksByProfit(g, h) ==
  \/ BestProfit(g) > BestProfit(h)
  \/ BestProfit(g) = BestProfit(h) /\ BestRoi(g) > BestRoi(h)

(* rank_groups: ROI, then profit, then the names of the providers; the     *)
(* last component of the key, two hashes, orders the rest in any way.      *)
Outranks(g, h) ==
  \/ BestRoi(g) > BestRoi(h)
  \/ /\ BestRoi(g) = BestRoi(h)
     /\ \/ BestProfit(g) > BestProfit(h)
        \/ /\ BestProfit(g) = BestProfit(h)
           /\ g[1] < h[1] \/ (g[1] = h[1] /\ g[2] < h[2])

(* _create_opportunities groups what passes, ranks it and reads the free   *)
(* capacity of the worker once.                                            *)
BeginCreation(collected) ==
  /\ phase' = "creating"
  /\ candidates' = {k \in collected : k.result.passes}
  /\ left' = {Key(k) : k \in candidates'}
  /\ slots' \in 0 .. Capacity
  /\ UNCHANGED <<created, duplicates>>

TokenOver(t) ==
  \/ t \in FailedTokens
  \/ \A a \in Amounts : context[<<t, a>>] = "over"

(* The outer gather waits for every token and drops the failed ones. *)
CollectionEnds ==
  /\ phase = "collecting"
  /\ \A t \in Tokens : TokenOver(t)
  /\ BeginCreation({k \in found : k.context[1] \notin FailedTokens})
  /\ UNCHANGED <<collection, timedOut, row>>

(* Mutant: the tasks are left alone. *)
LeaveTokens == UNCHANGED <<context, request>>

(* The tasks of the tokens that are not over are cancelled, with their     *)
(* requests.  What a failed token has left behind is out of reach.         *)
CancelTokens ==
  LET cancelled == {c \in Contexts : ~ TokenOver(c[1]) /\ context[c] # "over"} IN
    /\ context' = [c \in Contexts |-> IF c \in cancelled THEN "cancelled" ELSE context[c]]
    /\ request' = [r \in Requests |-> IF r[2] \in cancelled /\ Pending(r)
                                      THEN "lost" ELSE request[r]]

(* The time limit of the scan: what the gather has collected goes with it. *)
TimeOut ==
  /\ phase = "collecting"
  /\ timedOut' = TRUE
  /\ CancelTokens
  /\ BeginCreation({})
  /\ UNCHANGED <<quote, found, row>>

(* _create_one: the best group that is left is a duplicate, becomes an     *)
(* opportunity, or its creation fails and the loop goes on.                *)
CreateOne(g) ==
  /\ phase = "creating"
  /\ g \in left
  /\ Cardinality(created) < slots
  /\ ~ \E h \in left : Outranks(h, g)
  /\ left' = left \ {g}
  /\ \/ duplicates' = duplicates + 1 /\ UNCHANGED created
     \/ created' = created \union {g} /\ UNCHANGED duplicates
     \/ Errors /\ UNCHANGED <<created, duplicates>>
  /\ UNCHANGED <<phase, collection, timedOut, candidates, slots, row>>

FinalStatus ==
  LET successful == InState("usable") # {}
      failed     == InState("failed") # {} IN
  IF timedOut THEN IF successful THEN "partial" ELSE "failed"
  ELSE IF failed THEN IF successful THEN "partial" ELSE "failed"
  ELSE "complete"

(* _finish writes the counters as they are at this moment. *)
WriteRow(status, opportunities, known) ==
  row' = [status     |-> status,
          requests   |-> Cardinality(Issued),
          successful |-> Cardinality(InState("usable")),
          failed     |-> Cardinality(InState("failed")),
          created    |-> opportunities,
          duplicates |-> known]

(* Mutant: the scan ends when every group has been handled. *)
FinishScanWhenHandled ==
  /\ phase = "creating"
  /\ left = {}
  /\ phase' = "over"
  /\ WriteRow(FinalStatus, Cardinality(created), duplicates)
  /\ UNCHANGED <<collection, timedOut, creation>>

FinishScan ==
  /\ phase = "creating"
  /\ left = {} \/ Cardinality(created) >= slots
  /\ phase' = "over"
  /\ WriteRow(FinalStatus, Cardinality(created), duplicates)
  /\ UNCHANGED <<collection, timedOut, creation>>

(* The first write of the row, find_recent_by_fingerprint or the last      *)
(* write raises: the scan ends with the error, its row stays as it is.     *)
ScanFails ==
  /\ Errors
  /\ phase \in {"idle", "creating"}
  /\ phase' = "over"
  /\ UNCHANGED <<collection, timedOut, creation, row>>

(* The scheduler cancels the scan: its row counts no opportunity, also     *)
(* when some have been created.                                            *)
CancelScan ==
  /\ phase \in {"collecting", "creating"}
  /\ phase' = "over"
  /\ IF phase = "collecting" THEN CancelTokens ELSE UNCHANGED <<context, request>>
  /\ WriteRow("cancelled", 0, 0)
  /\ UNCHANGED <<quote, found, timedOut, creation>>

Init ==
  /\ phase = "idle"
  /\ context = [c \in Contexts |-> "idle"]
  /\ request = [r \in Requests |-> "none"]
  /\ quote = [r \in Requests |-> NoQuote]
  /\ found = {}
  /\ timedOut = FALSE
  /\ candidates = {}
  /\ slots = 0
  /\ left = {}
  /\ created = {}
  /\ duplicates = 0
  /\ row = NoRow

Next ==
  \/ BeginScan
  \/ \E r \in Requests : EnterSemaphore(r) \/ Answer(r) \/ AnswerUnexpected(r)
  \/ \E c \in Contexts : EndBuys(c) \/ EndSells(c) \/ EvaluationFails(c)
  \/ CollectionEnds
  \/ TimeOut
  \/ \E g \in left : CreateOne(g)
  \/ FinishScan
  \/ ScanFails
  \/ CancelScan

Spec == Init /\ [][Next]_vars

(* The time limit is a timer of the event loop; nothing is assumed of the  *)
(* providers.  The handoffs and the last write are bounded database calls. *)
FairSpec ==
  /\ Spec
  /\ WF_vars(TimeOut)
  /\ WF_vars(\E g \in left : CreateOne(g))
  /\ WF_vars(FinishScan)
-----------------------------------------------------------------------------
TypeOK ==
  /\ phase \in {"idle", "collecting", "creating", "over"}
  /\ context \in [Contexts -> ContextState]
  /\ request \in [Requests -> RequestState]
  /\ quote \in [Requests -> Nat \X AnyRoute]
  /\ found \subseteq Candidates
  /\ timedOut \in BOOLEAN
  /\ candidates \subseteq found
  /\ slots \in 0 .. Capacity
  /\ left \subseteq {Key(k) : k \in candidates}
  /\ created \subseteq {Key(k) : k \in candidates}
  /\ duplicates \in Nat
  /\ row \in [status : {"none", "running", "complete", "partial", "failed", "cancelled"},
              requests : Nat, successful : Nat, failed : Nat, created : Nat,
              duplicates : Nat]

(* A candidate pairs the best buy there was for its token and amount with  *)
(* an allowed sell, and no answer that comes later, in whatever order, can *)
(* change this: the buys and sells of its context have all ended.          *)
CandidatesFollowQuotes ==
  \A k \in candidates :
    /\ <<k.buy, k.sell>> \in Pairs
    /\ request[<<"sell", k.context, k.sell>>] = "usable"
    /\ \A r \in Requests : r[2] = k.context => ~ Pending(r)
    /\ \A p \in Providers :
         request[<<"buy", k.context, p>>] = "usable" =>
           quote[<<"buy", k.context, p>>][1] <= quote[<<"buy", k.context, k.buy>>][1]

(* When the capacity ends the handoffs, or the scan is cancelled between   *)
(* two of them, no group that is left promises a better return than one    *)
(* that was created.                                                       *)
BestGroupsCreated ==
  \A g \in created, h \in left :
    \A k \in candidates : Key(k) = h =>
      \E best \in candidates : Key(best) = g /\ best.result.roi >= k.result.roi

(* The row of a scan that neither timed out nor lost a token accounts for  *)
(* every request, and the counters are final: nothing is under way when    *)
(* they are written.                                                       *)
RowCountsRequests ==
  row.status \in {"complete", "partial", "failed"} /\ ~ timedOut /\ FailedTokens = {} =>
    /\ row.requests = row.successful + row.failed
    /\ row.successful = Cardinality(InState("usable"))
    /\ row.status = "complete" => Issued = InState("usable")

(* A scan that is over, also by its time limit or by a cancellation, has   *)
(* no request under way but those a failed token left behind.              *)
RequestsEndWithScan ==
  phase \in {"creating", "over"} =>
    \A r \in Requests : Pending(r) => r[2][1] \in FailedTokens

(* Whatever the providers do, the scan ends: its time limit, the bounded   *)
(* number of groups and the handling of failed creations see to it.        *)
ScanEnds == phase = "collecting" ~> phase = "over"

(* 10_LEVEL_1_SCANNER.md, section 44: in a complete scan all requests have  *)
(* succeeded and their results are available.  Those of a token whose      *)
(* evaluation raised are not.                                              *)
CompleteIsAvailable ==
  row.status = "complete" /\ Issued = InState("usable") => FailedTokens = {}
=============================================================================
