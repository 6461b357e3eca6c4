-------------------------- MODULE Level1ScanProofs --------------------------
(***************************************************************************)
(* Proofs about a Level 1 scan, for any tokens, amounts, providers, pairs, *)
(* quotes and results, whatever fails and whenever the scan is stopped.    *)
(***************************************************************************)
EXTENDS Level1Scan, FiniteSetTheorems, TLAPS

(***************************************************************************)
(* The inductive invariant.                                                *)
(***************************************************************************)
Best(c, p) ==
  /\ p \in UsableBuys(c)
  /\ \A q \in UsableBuys(c) :
       \/ BuyOutput(c, q) < BuyOutput(c, p)
       \/ BuyOutput(c, q) = BuyOutput(c, p) /\ q <= p

Silent(c) == \A r \in Requests : r[2] = c => ~ Pending(r)

Untouched(c) == \A r \in Requests : r[2] = c => request[r] = "none"

(* What the requests of a context can be follows from what its task does.  *)
Stage(c) ==
  /\ context[c] = "idle" => Untouched(c)
  /\ context[c] = "buying" =>
       \A r \in Requests : r[2] = c /\ r \notin BuyRequests(c) => request[r] = "none"
  /\ context[c] = "selling" =>
       /\ UsableBuys(c) # {}
       /\ \A p \in Providers : ~ Pending(<<"buy", c, p>>)
       /\ \A p \in Providers :
            <<MaxBuy(c), p>> \notin Pairs => request[<<"sell", c, p>>] = "none"
       /\ \A p \in Providers :
            ~ Admitted("sell", c, p) => request[<<"sell", c, p>>] = "none"
  /\ context[c] \in {"over", "cancelled"} => Silent(c)
  /\ \A r \in Requests :
       r[2] = c /\ request[r] = "lost" => context[c] \in {"failed", "cancelled"}

(* What was found stays true, because its context is over. *)
Founded(k) ==
  /\ context[k.context] = "over"
  /\ <<k.buy, k.sell>> \in Pairs
  /\ request[<<"sell", k.context, k.sell>>] = "usable"
  /\ Best(k.context, k.buy)

(* Which contexts there may be in a phase. *)
Course ==
  /\ phase = "idle" => \A c \in Contexts : context[c] = "idle"
  /\ phase \in {"collecting", "creating"} => \A c \in Contexts : context[c] # "idle"
  /\ phase \in {"idle", "collecting"} => candidates = {}
  /\ phase \in {"creating", "over"} =>
       \A c \in Contexts :
         context[c] \in {"idle", "over", "failed", "cancelled"} \/ c[1] \in FailedTokens
  /\ (\E c \in Contexts : context[c] = "cancelled") => timedOut \/ row.status = "cancelled"
  /\ row.status \in {"complete", "partial", "failed", "cancelled"} => phase = "over"

IInv ==
  /\ TypeOK
  /\ IsFiniteSet(found)
  /\ \A c \in Contexts : Stage(c)
  /\ \A k \in found : Founded(k)
  /\ Course
  /\ BestGroupsCreated
  /\ RowCountsRequests
-----------------------------------------------------------------------------
(* Facts about the operators.                                              *)

(* The first of a set of finite sets by inclusion: what takes the place of *)
(* an induction on finite sets.                                            *)
LEMMA SmallestSet ==
  ASSUME NEW S, NEW Sets, Sets # {}, Sets \subseteq FiniteSubsetsOf(S)
  PROVE  \E T \in Sets : \A U \in Sets : U \subseteq T => U = T
  <1> DEFINE R == StrictSubsetOrdering(S)
  <1>1. IsWellFoundedOn(R, FiniteSubsetsOf(S))
    BY FS_StrictSubsetOrderingWellFounded
  <1>2. \A U \in Sets : U \in SUBSET S
    BY DEF FiniteSubsetsOf
  <1>3. PICK T \in Sets : \A U \in Sets : <<U, T>> \notin R
    <2> HIDE DEF R
    <2> QED  BY <1>1, WFMin
  <1>4. \A U \in Sets : U \subseteq T => U = T
    <2> TAKE U \in Sets
    <2>1. U \in SUBSET S /\ T \in SUBSET S
      BY <1>2
    <2> QED  BY <1>3, <2>1 DEF StrictSubsetOrdering
  <1> QED  BY <1>4

LinearOn(S, R) ==
  /\ \A x, y \in S : x = y \/ <<x, y>> \in R \/ <<y, x>> \in R
  /\ \A x, y, z \in S : <<x, y>> \in R /\ <<y, z>> \in R => <<x, z>> \in R

(* A finite set that is totally ordered by R has a last element. *)
LEMMA LastElement ==
  ASSUME NEW S, IsFiniteSet(S), S # {}, NEW R, LinearOn(S, R)
  PROVE  \E x \in S : \A y \in S : y = x \/ <<y, x>> \in R
  <1>0. /\ \A x, y \in S : x = y \/ <<x, y>> \in R \/ <<y, x>> \in R
        /\ \A x, y, z \in S : <<x, y>> \in R /\ <<y, z>> \in R => <<x, z>> \in R
    BY DEF LinearOn
  <1> DEFINE HasLast(T) == \E x \in T : \A y \in T : y = x \/ <<y, x>> \in R
             Bad == {T \in SUBSET S : T # {} /\ ~ HasLast(T)}
  <1>1. SUFFICES ASSUME ~ HasLast(S)  PROVE FALSE
    OBVIOUS
  <1>2. S \in Bad
    BY <1>1
  <1>3. Bad \subseteq FiniteSubsetsOf(S)
    BY FS_Subset DEF FiniteSubsetsOf
  <1>4. PICK T \in Bad : \A U \in Bad : U \subseteq T => U = T
    <2>1. Bad # {}
      BY <1>2
    <2> HIDE DEF Bad
    <2> QED  BY ONLY <1>3, <2>1, SmallestSet
  <1>5. T \subseteq S /\ T # {} /\ ~ HasLast(T)
    BY <1>4
  <1>6. PICK x \in T : TRUE
    BY <1>5
  <1>7. CASE T \ {x} = {}
    <2>1. \A y \in T : y = x
      BY <1>7
    <2> QED  BY <1>5, <1>6, <2>1
  <1>8. CASE T \ {x} # {}
    <2>1. T \ {x} \notin Bad
      <3>1. T \ {x} \subseteq T /\ T \ {x} # T
        BY <1>6
      <3> HIDE DEF Bad
      <3> QED  BY <1>4, <3>1
    <2>2. HasLast(T \ {x})
      BY <1>5, <1>8, <2>1
    <2>3. PICK m \in T \ {x} : \A y \in T \ {x} : y = m \/ <<y, m>> \in R
      BY <2>2
    <2>4. CASE <<x, m>> \in R
      <3>1. \A y \in T : y = m \/ <<y, m>> \in R
        BY <2>3, <2>4
      <3> QED  BY <1>5, <2>3, <3>1
    <2>5. CASE <<m, x>> \in R
      <3>1. \A y \in T : y = x \/ <<y, x>> \in R
        BY <1>0, <1>5, <1>6, <2>3, <2>5
      <3> QED  BY <1>5, <1>6, <3>1
    <2> QED  BY <1>0, <1>5, <1>6, <2>3, <2>4, <2>5
  <1> QED  BY <1>7, <1>8

(* Max of the library, for a finite set of integers. *)
LEMMA MaxOf ==
  ASSUME NEW S, IsFiniteSet(S), S # {}, S \subseteq Int
  PROVE  Max(S) \in S /\ \A y \in S : Max(S) >= y
  <1> DEFINE R == {e \in Int \X Int : e[1] < e[2]}
  <1>1. \A x, y \in Int : <<x, y>> \in R <=> x < y
    OBVIOUS
  <1>2. \E x \in S : \A y \in S : y = x \/ <<y, x>> \in R
    <2> HIDE DEF R
    <2>1. ASSUME NEW x \in S, NEW y \in S
          PROVE  x = y \/ <<x, y>> \in R \/ <<y, x>> \in R
      <3>1. x \in Int /\ y \in Int
        OBVIOUS
      <3>2. x = y \/ x < y \/ y < x
        BY <3>1
      <3> QED  BY <1>1, <3>1, <3>2
    <2>2. ASSUME NEW x \in S, NEW y \in S, NEW z \in S, <<x, y>> \in R, <<y, z>> \in R
          PROVE  <<x, z>> \in R
      <3>1. x \in Int /\ y \in Int /\ z \in Int
        OBVIOUS
      <3>2. x < y /\ y < z
        BY <1>1, <2>2, <3>1
      <3>3. x < z
        BY <3>1, <3>2
      <3> QED  BY <1>1, <3>1, <3>3
    <2>3. \A x, y, z \in S : <<x, y>> \in R /\ <<y, z>> \in R => <<x, z>> \in R
      BY <2>2
    <2>4. \A x, y \in S : x = y \/ <<x, y>> \in R \/ <<y, x>> \in R
      BY <2>1
    <2>5. LinearOn(S, R)
      BY <2>3, <2>4 DEF LinearOn
    <2> QED  BY <2>5, LastElement
  <1>3. \E x \in S : \A y \in S : x >= y
    <2> HIDE DEF R
    <2>1. PICK x \in S : \A y \in S : y = x \/ <<y, x>> \in R
      BY <1>2
    <2>2. \A y \in S : x \in Int /\ y \in Int
      OBVIOUS
    <2>3. ASSUME NEW y \in S
          PROVE  x >= y
      <3>1. y = x \/ <<y, x>> \in R
        BY <2>1
      <3>2. y = x \/ y < x
        BY <1>1, <2>2, <3>1
      <3> QED  BY <2>2, <3>2
    <2> QED  BY <2>3
  <1> QED  BY <1>3 DEF Max

(* Among finitely many numbered buys one has the largest output and, among *)
(* those with this output, the largest number.                             *)
LEMMA HasBest ==
  ASSUME NEW U, IsFiniteSet(U), U # {}, U \subseteq Nat, NEW out \in [U -> Nat]
  PROVE  \E p \in U : \A q \in U : out[q] < out[p] \/ (out[q] = out[p] /\ q <= p)
  <1> DEFINE R == {e \in U \X U : \/ out[e[1]] < out[e[2]]
                                  \/ out[e[1]] = out[e[2]] /\ e[1] < e[2]}
  <1>1. \A p, q \in U :
          <<q, p>> \in R <=> out[q] < out[p] \/ (out[q] = out[p] /\ q < p)
    OBVIOUS
  <1>2. \A p \in U : p \in Nat /\ out[p] \in Nat
    OBVIOUS
  <1> HIDE DEF R
  <1>3. ASSUME NEW x \in U, NEW y \in U
        PROVE  x = y \/ <<x, y>> \in R \/ <<y, x>> \in R
    <2>1. x = y \/ x < y \/ y < x
      BY <1>2
    <2>2. out[x] = out[y] \/ out[x] < out[y] \/ out[y] < out[x]
      BY <1>2
    <2> QED  BY <1>1, <2>1, <2>2
  <1>4. ASSUME NEW x \in U, NEW y \in U, NEW z \in U, <<x, y>> \in R, <<y, z>> \in R
        PROVE  <<x, z>> \in R
    <2>1. out[x] < out[y] \/ (out[x] = out[y] /\ x < y)
      BY <1>1, <1>4
    <2>2. out[y] < out[z] \/ (out[y] = out[z] /\ y < z)
      BY <1>1, <1>4
    <2>3. out[x] < out[z] \/ (out[x] = out[z] /\ x < z)
      BY <1>2, <2>1, <2>2
    <2> QED  BY <1>1, <2>3
  <1>5. \A x, y \in U : x = y \/ <<x, y>> \in R \/ <<y, x>> \in R
    BY <1>3
  <1>6. \A x, y, z \in U : <<x, y>> \in R /\ <<y, z>> \in R => <<x, z>> \in R
    BY <1>4
  <1>0. \E p \in U : \A q \in U : q = p \/ <<q, p>> \in R
    <2>1. LinearOn(U, R)
      BY <1>5, <1>6 DEF LinearOn
    <2> QED  BY <2>1, LastElement
  <1>7. PICK p \in U : \A q \in U : q = p \/ <<q, p>> \in R
    BY <1>0
  <1>8. ASSUME NEW q \in U
        PROVE  out[q] < out[p] \/ (out[q] = out[p] /\ q <= p)
    <2>1. q = p \/ <<q, p>> \in R
      BY <1>7
    <2> QED  BY <1>1, <1>2, <2>1
  <1> QED  BY <1>8

LEMMA RequestsOfContext ==
  /\ \A op \in Operations, c \in Contexts, p \in Providers : <<op, c, p>> \in Requests
  /\ \A r \in Requests :
       /\ r[1] \in Operations /\ r[2] \in Contexts /\ r[3] \in Providers
       /\ r = <<r[1], r[2], r[3]>>
  /\ IsFiniteSet(Requests)
  <1>1. IsFiniteSet(Operations)
    <2>1. IsFiniteSet({"buy"} \union {"sell"})
      BY FS_Singleton, FS_AddElement
    <2>2. Operations = {"buy"} \union {"sell"}
      BY DEF Operations
    <2> QED  BY <2>1, <2>2
  <1>2. IsFiniteSet(Contexts)
    BY FS_Product, Level1Assumption DEF Contexts
  <1>3. IsFiniteSet(Requests)
    <2> DEFINE P == (Operations \X Contexts) \X Providers
               f == [e \in P |-> <<e[1][1], e[1][2], e[2]>>]
    <2>1. IsFiniteSet(P)
      BY <1>1, <1>2, FS_Product, Level1Assumption
    <2>2. f \in Surjection(P, Requests)
      <3>1. f \in [P -> Requests]
        BY DEF Requests
      <3>2. ASSUME NEW r \in Requests
            PROVE  \E e \in P : f[e] = r
        <4>1. PICK op \in Operations, c \in Contexts, p \in Providers : r = <<op, c, p>>
          BY DEF Requests
        <4>2. <<<<op, c>>, p>> \in P
          OBVIOUS
        <4>3. f[<<<<op, c>>, p>>] = <<op, c, p>>
          BY <4>2
        <4> QED  BY <4>1, <4>2, <4>3
      <3> HIDE DEF f, P
      <3> QED  BY <3>1, <3>2 DEF Surjection
    <2> HIDE DEF f, P
    <2> QED  BY <2>1, <2>2, FS_Surjection
  <1> QED  BY <1>3 DEF Requests

(* MaxBuy is the best buy, and the only one. *)
LEMMA BestBuy ==
  ASSUME TypeOK, NEW c \in Contexts
  PROVE  /\ UsableBuys(c) \subseteq Providers
         /\ \A p \in Providers : p \in Nat /\ BuyOutput(c, p) \in Nat
         /\ UsableBuys(c) # {} => Best(c, MaxBuy(c))
         /\ \A p, q : Best(c, p) /\ Best(c, q) => p = q
  <1>1. UsableBuys(c) \subseteq Providers
    BY DEF UsableBuys
  <1>2. \A p \in Providers : p \in Nat /\ BuyOutput(c, p) \in Nat
    <2> TAKE p \in Providers
    <2>1. quote[<<"buy", c, p>>] \in Nat \X AnyRoute
      BY RequestsOfContext DEF Operations, TypeOK
    <2> QED  BY <2>1, Level1Assumption DEF BuyOutput
  <1>3. ASSUME UsableBuys(c) # {}
        PROVE  Best(c, MaxBuy(c))
    <2> DEFINE U == UsableBuys(c)
               out == [p \in U |-> BuyOutput(c, p)]
    <2>1. IsFiniteSet(U) /\ U \subseteq Nat /\ out \in [U -> Nat]
      BY <1>1, <1>2, FS_Subset, Level1Assumption
    <2>2. \E p \in U : \A q \in U : out[q] < out[p] \/ (out[q] = out[p] /\ q <= p)
      <3> HIDE DEF U, out
      <3> QED  BY <1>3, <2>1, HasBest DEF U
    <2>3. \E p \in UsableBuys(c) : \A q \in UsableBuys(c) :
            \/ BuyOutput(c, q) < BuyOutput(c, p)
            \/ BuyOutput(c, q) = BuyOutput(c, p) /\ q <= p
      BY <2>2
    <2> QED  BY <2>3, Zenon DEF MaxBuy, Best
  <1>4. ASSUME NEW p, NEW q, Best(c, p), Best(c, q)
        PROVE  p = q
    <2>1. p \in Providers /\ q \in Providers /\ p \in UsableBuys(c) /\ q \in UsableBuys(c)
      BY <1>1, <1>4 DEF Best
    <2>2. /\ p \in Nat /\ q \in Nat
          /\ BuyOutput(c, p) \in Nat /\ BuyOutput(c, q) \in Nat
      BY <1>2, <2>1
    <2>3. /\ \/ BuyOutput(c, q) < BuyOutput(c, p)
             \/ BuyOutput(c, q) = BuyOutput(c, p) /\ q <= p
          /\ \/ BuyOutput(c, p) < BuyOutput(c, q)
             \/ BuyOutput(c, p) = BuyOutput(c, q) /\ p <= q
      BY <1>4, <2>1 DEF Best
    <2> QED  BY <2>2, <2>3
  <1> QED  BY <1>1, <1>2, <1>3, <1>4

LEMMA BestBuyKept ==
  ASSUME TypeOK, NEW c \in Contexts, UsableBuys(c) # {},
         \A p \in Providers :
           /\ request'[<<"buy", c, p>>] = request[<<"buy", c, p>>]
           /\ quote'[<<"buy", c, p>>] = quote[<<"buy", c, p>>]
  PROVE  MaxBuy(c)' = MaxBuy(c) /\ UsableBuys(c)' = UsableBuys(c)
  <1>1. UsableBuys(c)' = UsableBuys(c)
    BY DEF UsableBuys
  <1>2. \A p \in UsableBuys(c) : BuyOutput(c, p)' = BuyOutput(c, p)
    BY DEF UsableBuys, BuyOutput
  <1>3. Best(c, MaxBuy(c))
    BY BestBuy
  <1> DEFINE out(p) == quote'[<<"buy", c, p>>][1]
  <1>4. \E p \in UsableBuys(c)' : \A q \in UsableBuys(c)' :
          out(q) < out(p) \/ (out(q) = out(p) /\ q <= p)
    BY <1>1, <1>2, <1>3 DEF Best, BuyOutput
  <1>5. /\ MaxBuy(c)' \in UsableBuys(c)'
        /\ \A q \in UsableBuys(c)' :
             \/ out(q) < out(MaxBuy(c)')
             \/ out(q) = out(MaxBuy(c)') /\ q <= MaxBuy(c)'
    BY <1>4, Zenon DEF MaxBuy, BuyOutput
  <1>6. Best(c, MaxBuy(c)')
    BY <1>1, <1>2, <1>5 DEF Best, BuyOutput
  <1> QED  BY <1>1, <1>3, <1>6, BestBuy

-----------------------------------------------------------------------------
(* Type correctness.                                                       *)

LEMMA IssueType ==
  ASSUME TypeOK, NEW rs, Issue(rs)
  PROVE  request' \in [Requests -> RequestState]
  BY DEF Issue, TypeOK, RequestState

LEMMA CreationType ==
  ASSUME TypeOK, phase \in {"idle", "collecting"} => candidates = {}, phase = "collecting",
         NEW collected \in SUBSET found, BeginCreation(collected)
  PROVE  /\ phase' = "creating"
         /\ candidates' \subseteq found
         /\ slots' \in 0 .. Capacity
         /\ left' = {Key(k) : k \in candidates'}
         /\ created = {} /\ created' = {}
         /\ duplicates' \in Nat
  <1>1. created = {}
    BY DEF TypeOK
  <1> QED  BY <1>1 DEF BeginCreation, TypeOK

LEMMA CancelType ==
  ASSUME TypeOK, CancelTokens
  PROVE  /\ context' \in [Contexts -> ContextState]
         /\ request' \in [Requests -> RequestState]
  BY DEF CancelTokens, TypeOK, ContextState, RequestState

LEMMA RowType ==
  ASSUME TypeOK, NEW status \in {"complete", "partial", "failed", "cancelled"},
         NEW opportunities \in Nat, NEW known \in Nat, WriteRow(status, opportunities, known)
  PROVE  row' \in [status : {"none", "running", "complete", "partial", "failed", "cancelled"},
                   requests : Nat, successful : Nat, failed : Nat, created : Nat,
                   duplicates : Nat]
  <1>1. \A S \in SUBSET Requests : Cardinality(S) \in Nat
    BY RequestsOfContext, FS_Subset, FS_CardinalityType
  <1>2. /\ Issued \subseteq Requests
        /\ InState("usable") \subseteq Requests
        /\ InState("failed") \subseteq Requests
    BY DEF Issued, InState
  <1>3. /\ Cardinality(Issued) \in Nat
        /\ Cardinality(InState("usable")) \in Nat
        /\ Cardinality(InState("failed")) \in Nat
    BY <1>1, <1>2
  <1> QED  BY <1>3 DEF WriteRow

(* The groups are those of finitely many candidates. *)
LEMMA KeysFinite ==
  ASSUME TypeOK, IsFiniteSet(found)
  PROVE  /\ IsFiniteSet({Key(k) : k \in candidates})
         /\ IsFiniteSet(created) /\ Cardinality(created) \in Nat
  <1> DEFINE keys == {Key(k) : k \in candidates}
             f == [k \in candidates |-> Key(k)]
  <1>1. IsFiniteSet(candidates)
    BY FS_Subset DEF TypeOK
  <1>2. f \in Surjection(candidates, keys)
    BY DEF Surjection
  <1>3. IsFiniteSet(keys)
    <2> HIDE DEF f, keys
    <2> QED  BY <1>1, <1>2, FS_Surjection
  <1>4. created \subseteq keys
    BY DEF TypeOK
  <1>5. IsFiniteSet(created) /\ Cardinality(created) \in Nat
    <2> HIDE DEF keys
    <2> QED  BY <1>3, <1>4, FS_Subset, FS_CardinalityType
  <1> QED  BY <1>3, <1>5

(* The candidates of a context: a pair of its best buy with each sell. *)
LEMMA LegsType ==
  ASSUME TypeOK, NEW c \in Contexts, Stage(c), context[c] = "selling",
         NEW legs \in SUBSET UsableSells(c), NEW result \in [legs -> Results], NEW p \in legs
  PROVE  [context |-> c, buy |-> MaxBuy(c), sell |-> p,
          routes |-> <<quote[<<"buy", c, MaxBuy(c)>>][2], quote[<<"sell", c, p>>][2]>>,
          result |-> result[p]] \in Candidates
  <1>1. MaxBuy(c) \in Providers
    BY BestBuy DEF Stage, Best
  <1>2. p \in Providers
    BY DEF UsableSells
  <1>3. /\ quote[<<"buy", c, MaxBuy(c)>>] \in Nat \X AnyRoute
        /\ quote[<<"sell", c, p>>] \in Nat \X AnyRoute
    BY <1>1, <1>2, RequestsOfContext DEF TypeOK, Operations
  <1> QED  BY <1>1, <1>2, <1>3 DEF Candidates

LEMMA TypeStep ==
  ASSUME IInv, [Next]_vars
  PROVE  TypeOK'
  <1>1. TypeOK /\ IsFiniteSet(found) /\ (\A c \in Contexts : Stage(c)) /\ Course
    BY DEF IInv
  <1>2. CASE BeginScan
    <2>1. request' \in [Requests -> RequestState]
      BY <1>1, <1>2, IssueType DEF BeginScan
    <2> QED  BY <1>1, <1>2, <2>1 DEF BeginScan, TypeOK, ContextState, NoRow, creation
  <1>3. CASE \E r \in Requests : EnterSemaphore(r) \/ Answer(r) \/ AnswerUnexpected(r)
    <2>1. PICK r \in Requests : EnterSemaphore(r) \/ Answer(r) \/ AnswerUnexpected(r)
      BY <1>3
    <2>2. r[1] \in Operations /\ r[2] \in Contexts
      BY RequestsOfContext
    <2>3. CASE EnterSemaphore(r)
      BY <1>1, <2>3 DEF EnterSemaphore, TypeOK, RequestState, creation
    <2>4. CASE Answer(r)
      <3>1. \A q \in Quotes[r[1]] : q \in Nat \X AnyRoute
        BY <2>2, Level1Assumption DEF AnyRoute
      <3>2. quote' \in [Requests -> Nat \X AnyRoute]
        BY <1>1, <2>4, <3>1 DEF Answer, TypeOK
      <3>3. request' \in [Requests -> RequestState]
        BY <1>1, <2>4 DEF Answer, TypeOK, RequestState
      <3> QED  BY <1>1, <2>4, <3>2, <3>3 DEF Answer, TypeOK, creation
    <2>5. CASE AnswerUnexpected(r)
      BY <1>1, <2>2, <2>5 DEF AnswerUnexpected, TypeOK, RequestState, ContextState, creation
    <2> QED  BY <2>1, <2>3, <2>4, <2>5
  <1>4. CASE \E c \in Contexts : EndBuys(c) \/ EndSells(c) \/ EvaluationFails(c)
    <2>1. PICK c \in Contexts : EndBuys(c) \/ EndSells(c) \/ EvaluationFails(c)
      BY <1>4
    <2>2. CASE EndBuys(c)
      <3>1. request' \in [Requests -> RequestState]
        BY <1>1, <2>2, IssueType DEF EndBuys, TypeOK
      <3>2. context' \in [Contexts -> ContextState]
        BY <1>1, <2>2 DEF EndBuys, TypeOK, ContextState
      <3> QED  BY <1>1, <2>2, <3>1, <3>2 DEF EndBuys, TypeOK, creation
    <2>3. CASE EndSells(c)
      <3>0. PICK legs \in SUBSET UsableSells(c) : \E result \in [legs -> Results] :
              found' = found \union
                {[context |-> c, buy |-> MaxBuy(c), sell |-> p,
                  routes |-> <<quote[<<"buy", c, MaxBuy(c)>>][2],
                               quote[<<"sell", c, p>>][2]>>,
                  result |-> result[p]] : p \in legs}
        BY <2>3 DEF EndSells
      <3>1. found \subseteq found' /\ found' \subseteq Candidates
        <4>1. context[c] = "selling" /\ Stage(c)
          BY <1>1, <2>3 DEF EndSells
        <4>2. found \subseteq Candidates
          BY <1>1 DEF TypeOK
        <4>3. \A result \in [legs -> Results] : \A p \in legs :
                [context |-> c, buy |-> MaxBuy(c), sell |-> p,
                 routes |-> <<quote[<<"buy", c, MaxBuy(c)>>][2],
                              quote[<<"sell", c, p>>][2]>>,
                 result |-> result[p]] \in Candidates
          BY <1>1, <4>1, LegsType
        <4> QED  BY <3>0, <4>2, <4>3
      <3>2. context' \in [Contexts -> ContextState]
        BY <1>1, <2>3 DEF EndSells, TypeOK, ContextState
      <3> QED  BY <1>1, <2>3, <3>1, <3>2 DEF EndSells, TypeOK, creation
    <2>4. CASE EvaluationFails(c)
      BY <1>1, <2>4 DEF EvaluationFails, TypeOK, ContextState, creation
    <2> QED  BY <2>1, <2>2, <2>3, <2>4
  <1>5. CASE CollectionEnds
    <2>1. /\ phase' = "creating" /\ candidates' \subseteq found /\ slots' \in 0 .. Capacity
          /\ left' = {Key(k) : k \in candidates'} /\ created' = {} /\ duplicates' \in Nat
      BY <1>1, <1>5, CreationType DEF CollectionEnds, Course
    <2> QED  BY <1>1, <1>5, <2>1 DEF CollectionEnds, TypeOK, collection
  <1>6. CASE TimeOut
    <2>1. /\ phase' = "creating" /\ candidates' \subseteq found /\ slots' \in 0 .. Capacity
          /\ left' = {Key(k) : k \in candidates'} /\ created' = {} /\ duplicates' \in Nat
      BY <1>1, <1>6, CreationType DEF TimeOut, Course
    <2>2. /\ context' \in [Contexts -> ContextState]
          /\ request' \in [Requests -> RequestState]
      BY <1>1, <1>6, CancelType DEF TimeOut
    <2> QED  BY <1>1, <1>6, <2>1, <2>2 DEF TimeOut, TypeOK
  <1>7. CASE \E g \in left : CreateOne(g)
    <2>1. PICK g \in left : CreateOne(g)
      BY <1>7
    <2> QED  BY <1>1, <2>1 DEF CreateOne, TypeOK, collection
  <1>8. CASE FinishScan
    <2>1. FinalStatus \in {"complete", "partial", "failed", "cancelled"}
      BY DEF FinalStatus
    <2>2. Cardinality(created) \in Nat /\ duplicates \in Nat
      BY <1>1, KeysFinite DEF TypeOK
    <2>3. row' \in [status : {"none", "running", "complete", "partial", "failed", "cancelled"},
                    requests : Nat, successful : Nat, failed : Nat, created : Nat,
                    duplicates : Nat]
      BY <1>1, <1>8, <2>1, <2>2, RowType DEF FinishScan
    <2> QED  BY <1>1, <1>8, <2>3 DEF FinishScan, TypeOK, collection, creation
  <1>9. CASE ScanFails
    BY <1>1, <1>9 DEF ScanFails, TypeOK, collection, creation
  <1>10. CASE CancelScan
    <2>1. /\ context' \in [Contexts -> ContextState]
          /\ request' \in [Requests -> RequestState]
      BY <1>1, <1>10, CancelType DEF CancelScan, TypeOK
    <2>2. row' \in [status : {"none", "running", "complete", "partial", "failed", "cancelled"},
                    requests : Nat, successful : Nat, failed : Nat, created : Nat,
                    duplicates : Nat]
      BY <1>1, <1>10, RowType DEF CancelScan
    <2> QED  BY <1>1, <1>10, <2>1, <2>2 DEF CancelScan, TypeOK, creation
  <1>11. CASE UNCHANGED vars
    BY <1>1, <1>11 DEF vars, collection, creation, TypeOK
  <1> QED
    BY <1>2, <1>3, <1>4, <1>5, <1>6, <1>7, <1>8, <1>9, <1>10, <1>11 DEF Next

-----------------------------------------------------------------------------
(* The stages of the contexts.                                             *)

(* A context is not disturbed by the steps of another. *)
LEMMA StageKept ==
  ASSUME TypeOK, NEW c \in Contexts, Stage(c), context'[c] = context[c],
         \A r \in Requests : r[2] = c => request'[r] = request[r] /\ quote'[r] = quote[r]
  PROVE  Stage(c)'
  <1>1. \A op \in Operations, p \in Providers :
          /\ request'[<<op, c, p>>] = request[<<op, c, p>>]
          /\ quote'[<<op, c, p>>] = quote[<<op, c, p>>]
    BY RequestsOfContext
  <1>2. "buy" \in Operations /\ "sell" \in Operations
    BY DEF Operations
  <1>3. context[c] = "selling" => MaxBuy(c)' = MaxBuy(c) /\ UsableBuys(c)' = UsableBuys(c)
    BY <1>1, <1>2, BestBuyKept DEF Stage
  <1>4. context'[c] = "idle" => Untouched(c)'
    BY DEF Stage, Untouched
  <1>5. context'[c] = "buying" =>
          \A r \in Requests : r[2] = c /\ r \notin BuyRequests(c) => request'[r] = "none"
    BY DEF Stage
  <1>6. context'[c] = "selling" =>
          /\ UsableBuys(c)' # {}
          /\ \A p \in Providers : ~ Pending(<<"buy", c, p>>)'
          /\ \A p \in Providers :
               <<MaxBuy(c)', p>> \notin Pairs => request'[<<"sell", c, p>>] = "none"
          /\ \A p \in Providers :
               ~ Admitted("sell", c, p) => request'[<<"sell", c, p>>] = "none"
    BY <1>1, <1>2, <1>3 DEF Stage, Pending
  <1>7. context'[c] \in {"over", "cancelled"} => Silent(c)'
    BY DEF Stage, Silent, Pending
  <1>8. \A r \in Requests :
          r[2] = c /\ request'[r] = "lost" => context'[c] \in {"failed", "cancelled"}
    BY DEF Stage
  <1> QED  BY <1>4, <1>5, <1>6, <1>7, <1>8 DEF Stage, Admitted, BuyRequests

(* A request that is answered or enters the semaphore keeps its context    *)
(* where it is.                                                            *)
LEMMA StageMoves ==
  ASSUME TypeOK, NEW r \in Requests, Pending(r), Stage(r[2]), context' = context,
         request'[r] \in {"asking", "usable", "failed"},
         \A s \in Requests : s # r => request'[s] = request[s] /\ quote'[s] = quote[s]
  PROVE  Stage(r[2])'
  <1> DEFINE c == r[2]
  <1>0. /\ c \in Contexts /\ r[3] \in Providers /\ r = <<r[1], c, r[3]>>
        /\ r[1] \in {"buy", "sell"} /\ request[r] # "none"
    BY RequestsOfContext DEF Operations, Pending
  <1>1. context[c] \notin {"idle", "over", "cancelled"}
    BY <1>0 DEF Stage, Untouched, Silent
  <1>2. context[c] = "buying" =>
          \A s \in Requests : s[2] = c /\ s \notin BuyRequests(c) => request'[s] = "none"
    BY <1>0 DEF Stage
  <1>3. ASSUME context[c] = "selling"
        PROVE  /\ UsableBuys(c)' # {}
               /\ \A p \in Providers : ~ Pending(<<"buy", c, p>>)'
               /\ \A p \in Providers :
                    <<MaxBuy(c)', p>> \notin Pairs => request'[<<"sell", c, p>>] = "none"
               /\ \A p \in Providers :
                    ~ Admitted("sell", c, p) => request'[<<"sell", c, p>>] = "none"
    <2>1. r[1] = "sell"
      BY <1>0, <1>3 DEF Stage
    <2>2. \A p \in Providers :
            /\ <<"buy", c, p>> \in Requests /\ <<"buy", c, p>> # r
            /\ <<"sell", c, p>> \in Requests
      BY <1>0, <2>1, RequestsOfContext DEF Operations
    <2>3. \A p \in Providers :
            /\ request'[<<"buy", c, p>>] = request[<<"buy", c, p>>]
            /\ quote'[<<"buy", c, p>>] = quote[<<"buy", c, p>>]
      BY <2>2
    <2>4. MaxBuy(c)' = MaxBuy(c) /\ UsableBuys(c)' = UsableBuys(c) /\ UsableBuys(c) # {}
      BY <1>0, <1>3, <2>3, BestBuyKept DEF Stage
    <2>5. \A p \in Providers : request[<<"sell", c, p>>] = "none" => <<"sell", c, p>> # r
      BY <1>0
    <2> QED  BY <1>3, <2>2, <2>3, <2>4, <2>5 DEF Stage, Pending
  <1>4. \A s \in Requests : ~ (s[2] = c /\ request'[s] = "lost") \/ context[c] = "failed"
    BY <1>1 DEF Stage
  <1> QED  BY <1>0, <1>1, <1>2, <1>3, <1>4 DEF Stage, Admitted, BuyRequests

LEMMA EndBuysKeepsStages ==
  ASSUME IInv, NEW c \in Contexts, EndBuys(c)
  PROVE  \A d \in Contexts : Stage(d)'
  <1>1. TypeOK /\ \A d \in Contexts : Stage(d)
    BY DEF IInv
  <1>2. ASSUME NEW d \in Contexts, d # c
        PROVE  Stage(d)'
    <2>1. context'[d] = context[d]
      BY <1>1, <1>2 DEF EndBuys, TypeOK
    <2>2. \A r \in Requests : r[2] = d => request'[r] = request[r] /\ quote'[r] = quote[r]
      <3>1. ASSUME NEW r \in SellRequests(c)
            PROVE  r[2] = c
        <4>1. PICK p \in Providers : r = <<"sell", c, p>>
          BY DEF SellRequests
        <4> QED  BY <4>1
      <3>2. quote' = quote /\ (request' = request \/ Issue(SellRequests(c)))
        BY DEF EndBuys
      <3> QED  BY <1>2, <3>1, <3>2 DEF Issue
    <2> QED  BY <1>1, <2>1, <2>2, StageKept
  <1>3. \A r \in Requests : r[2] = c => ~ Pending(r)
    BY <1>1 DEF EndBuys, Stage, Pending
  <1>4. \A r \in Requests : r[2] = c => request[r] # "lost"
    BY <1>1 DEF EndBuys, Stage
  <1>5. CASE UsableBuys(c) = {}
    <2>1. context'[c] = "over" /\ request' = request
      BY <1>1, <1>5 DEF EndBuys, TypeOK
    <2> QED  BY <1>2, <1>3, <1>4, <2>1 DEF Stage, Silent, Pending
  <1>6. CASE UsableBuys(c) # {}
    <2>1. context'[c] = "selling" /\ Issue(SellRequests(c)) /\ quote' = quote
      BY <1>1, <1>6 DEF EndBuys, TypeOK
    <2>2. \A p \in Providers : <<"buy", c, p>> \in Requests /\ <<"sell", c, p>> \in Requests
      BY RequestsOfContext DEF Operations
    <2>3. \A p \in Providers :
            /\ request'[<<"buy", c, p>>] = request[<<"buy", c, p>>]
            /\ quote'[<<"buy", c, p>>] = quote[<<"buy", c, p>>]
      BY <2>1, <2>2 DEF Issue, SellRequests
    <2>4. MaxBuy(c)' = MaxBuy(c) /\ UsableBuys(c)' = UsableBuys(c)
      BY <1>1, <1>6, <2>3, BestBuyKept
    <2>5. \A p \in Providers : request[<<"sell", c, p>>] = "none"
      BY <1>1, <2>2 DEF EndBuys, Stage, BuyRequests
    <2>6. \A p \in Providers :
            ~ Admitted("sell", c, p) \/ <<MaxBuy(c), p>> \notin Pairs =>
              request'[<<"sell", c, p>>] = "none"
      BY <2>1, <2>2, <2>5 DEF Issue, SellRequests
    <2>7. \A r \in Requests : r[2] = c => request'[r] # "lost"
      BY <1>4, <2>1 DEF Issue
    <2>8. \A p \in Providers : ~ Pending(<<"buy", c, p>>)'
      BY <1>3, <2>2, <2>3 DEF Pending
    <2>9. Stage(c)'
      BY <1>6, <2>1, <2>4, <2>6, <2>7, <2>8 DEF Stage, Admitted
    <2> QED  BY <1>2, <2>9
  <1> QED  BY <1>5, <1>6

LEMMA EndSellsKeepsStages ==
  ASSUME IInv, NEW c \in Contexts, EndSells(c) \/ EvaluationFails(c)
  PROVE  \A d \in Contexts : Stage(d)'
  <1>1. TypeOK /\ \A d \in Contexts : Stage(d)
    BY DEF IInv
  <1>2. request' = request /\ quote' = quote /\ context[c] = "selling"
    BY DEF EndSells, EvaluationFails
  <1>3. ASSUME NEW d \in Contexts, d # c
        PROVE  Stage(d)'
    <2>1. context'[d] = context[d]
      BY <1>1, <1>3 DEF EndSells, EvaluationFails, TypeOK
    <2> QED  BY <1>1, <1>2, <2>1, StageKept
  <1>4. Stage(c)'
    <2>1. context'[c] \in {"over", "failed"}
      BY <1>1 DEF EndSells, EvaluationFails, TypeOK
    <2>2. Silent(c)
      <3>1. \A r \in SellRequests(c) : ~ Pending(r)
        BY DEF EndSells, EvaluationFails
      <3>2. ASSUME NEW r \in Requests, r[2] = c
            PROVE  ~ Pending(r)
        <4>1. r[3] \in Providers /\ r = <<r[1], c, r[3]>> /\ r[1] \in {"buy", "sell"}
          BY <3>2, RequestsOfContext DEF Operations
        <4>2. CASE r[1] = "buy"
          BY <1>1, <1>2, <4>1, <4>2 DEF Stage
        <4>3. CASE r[1] = "sell"
          <5>1. request[r] = "none" \/ r \in SellRequests(c)
            BY <1>1, <1>2, <4>1, <4>3 DEF Stage, SellRequests
          <5> QED  BY <3>1, <5>1 DEF Pending
        <4> QED  BY <4>1, <4>2, <4>3
      <3> QED  BY <3>2 DEF Silent
    <2>3. \A r \in Requests : r[2] = c => request[r] # "lost"
      BY <1>1, <1>2 DEF Stage
    <2> QED  BY <1>2, <2>1, <2>2, <2>3 DEF Stage, Silent, Pending
  <1> QED  BY <1>3, <1>4

LEMMA CancelKeepsStages ==
  ASSUME IInv, CancelTokens, quote' = quote
  PROVE  \A d \in Contexts : Stage(d)'
  <1>1. TypeOK /\ \A d \in Contexts : Stage(d)
    BY DEF IInv
  <1> TAKE d \in Contexts
  <1>2. CASE ~ TokenOver(d[1]) /\ context[d] # "over"
    <2>1. context'[d] = "cancelled"
      BY <1>2 DEF CancelTokens
    <2>2. \A r \in Requests : r[2] = d => ~ (request'[r] \in {"waiting", "asking"})
      BY <1>2 DEF CancelTokens, Pending
    <2> QED  BY <2>1, <2>2 DEF Stage, Silent, Pending
  <1>3. CASE ~ (~ TokenOver(d[1]) /\ context[d] # "over")
    <2>1. context'[d] = context[d]
      BY <1>3 DEF CancelTokens
    <2>2. \A r \in Requests : r[2] = d => request'[r] = request[r]
      BY <1>3 DEF CancelTokens
    <2> QED  BY <1>1, <2>1, <2>2, StageKept
  <1> QED  BY <1>2, <1>3

LEMMA StageStep ==
  ASSUME IInv, [Next]_vars
  PROVE  \A d \in Contexts : Stage(d)'
  <1>1. TypeOK /\ Course /\ \A d \in Contexts : Stage(d)
    BY DEF IInv
  <1>2. ASSUME context' = context, request' = request, quote' = quote
        PROVE  \A d \in Contexts : Stage(d)'
    BY <1>1, <1>2, StageKept
  <1>3. CASE BeginScan
    <2> TAKE d \in Contexts
    <2>1. context'[d] = "buying" /\ Issue(UNION {BuyRequests(c) : c \in Contexts})
      BY <1>3 DEF BeginScan
    <2>2. Untouched(d)
      BY <1>1, <1>3 DEF BeginScan, Course, Stage
    <2>3. \A r \in Requests : r[2] = d /\ r \notin BuyRequests(d) => request'[r] = "none"
      <3>1. \A r \in Requests : r[2] = d /\ r \notin BuyRequests(d) =>
              r \notin UNION {BuyRequests(c) : c \in Contexts}
        BY DEF BuyRequests
      <3> QED  BY <2>1, <2>2, <3>1 DEF Issue, Untouched
    <2>4. \A r \in Requests : r[2] = d => request'[r] # "lost"
      BY <2>1, <2>2 DEF Issue, Untouched
    <2> QED  BY <2>1, <2>3, <2>4 DEF Stage, BuyRequests, Admitted
  <1>4. CASE \E r \in Requests : EnterSemaphore(r) \/ Answer(r) \/ AnswerUnexpected(r)
    <2>1. PICK r \in Requests : EnterSemaphore(r) \/ Answer(r) \/ AnswerUnexpected(r)
      BY <1>4
    <2>2. r[2] \in Contexts /\ Pending(r)
      BY <2>1, RequestsOfContext DEF EnterSemaphore, Answer, AnswerUnexpected, Pending
    <2>3. \A s \in Requests : s # r => request'[s] = request[s] /\ quote'[s] = quote[s]
      BY <1>1, <2>1 DEF EnterSemaphore, Answer, AnswerUnexpected, TypeOK
    <2>4. ASSUME NEW d \in Contexts, d # r[2]
          PROVE  Stage(d)'
      <3>1. context'[d] = context[d]
        BY <1>1, <2>1, <2>4 DEF EnterSemaphore, Answer, AnswerUnexpected, TypeOK
      <3> QED  BY <1>1, <2>3, <2>4, <3>1, StageKept
    <2>5. CASE AnswerUnexpected(r)
      <3>1. context'[r[2]] = "failed"
        BY <1>1, <2>2, <2>5 DEF AnswerUnexpected, TypeOK
      <3>2. Stage(r[2])'
        BY <3>1 DEF Stage
      <3> QED  BY <2>4, <3>2
    <2>6. CASE EnterSemaphore(r) \/ Answer(r)
      <3>1. context' = context /\ request'[r] \in {"asking", "usable", "failed"}
        BY <1>1, <2>6 DEF EnterSemaphore, Answer, TypeOK
      <3>2. Stage(r[2])'
        BY <1>1, <2>2, <2>3, <3>1, StageMoves
      <3> QED  BY <2>4, <3>2
    <2> QED  BY <2>1, <2>5, <2>6
  <1>5. CASE \E c \in Contexts : EndBuys(c) \/ EndSells(c) \/ EvaluationFails(c)
    BY <1>5, EndBuysKeepsStages, EndSellsKeepsStages
  <1>6. CASE TimeOut
    BY <1>6, CancelKeepsStages DEF TimeOut
  <1>7. CASE CancelScan
    BY <1>2, <1>7, CancelKeepsStages DEF CancelScan
  <1>8. CASE CollectionEnds \/ (\E g \in left : CreateOne(g)) \/ FinishScan \/ ScanFails
             \/ UNCHANGED vars
    BY <1>2, <1>8
       DEF CollectionEnds, CreateOne, FinishScan, ScanFails, vars, collection, creation
  <1> QED
    BY <1>3, <1>4, <1>5, <1>6, <1>7, <1>8 DEF Next

-----------------------------------------------------------------------------
(* What is over stays as it is, and what was found stays true.             *)

LEMMA OverStays ==
  ASSUME IInv, [Next]_vars, NEW c \in Contexts, context[c] = "over"
  PROVE  /\ context'[c] = "over"
         /\ \A r \in Requests : r[2] = c => request'[r] = request[r] /\ quote'[r] = quote[r]
  <1>1. TypeOK /\ Course /\ Silent(c)
    BY DEF IInv, Stage
  <1>2. \A r \in Requests : Pending(r) => r[2] # c
    BY <1>1 DEF Silent
  <1>3. CASE BeginScan
    BY <1>1, <1>3 DEF BeginScan, Course
  <1>4. CASE \E r \in Requests : EnterSemaphore(r) \/ Answer(r) \/ AnswerUnexpected(r)
    <2>1. PICK r \in Requests : EnterSemaphore(r) \/ Answer(r) \/ AnswerUnexpected(r)
      BY <1>4
    <2>2. r[2] # c
      BY <1>2, <2>1 DEF EnterSemaphore, Answer, AnswerUnexpected, Pending
    <2>3. \A s \in Requests : s # r => request'[s] = request[s] /\ quote'[s] = quote[s]
      BY <1>1, <2>1 DEF EnterSemaphore, Answer, AnswerUnexpected, TypeOK
    <2>4. context'[c] = context[c]
      BY <1>1, <2>1, <2>2 DEF EnterSemaphore, Answer, AnswerUnexpected, TypeOK
    <2> QED  BY <2>2, <2>3, <2>4
  <1>5. CASE \E d \in Contexts : EndBuys(d) \/ EndSells(d) \/ EvaluationFails(d)
    <2>1. PICK d \in Contexts : EndBuys(d) \/ EndSells(d) \/ EvaluationFails(d)
      BY <1>5
    <2>2. d # c
      BY <2>1 DEF EndBuys, EndSells, EvaluationFails
    <2>3. context'[c] = context[c] /\ quote' = quote
      BY <1>1, <2>1, <2>2 DEF EndBuys, EndSells, EvaluationFails, TypeOK
    <2>4. request' = request \/ Issue(SellRequests(d))
      BY <2>1 DEF EndBuys, EndSells, EvaluationFails
    <2>5. ASSUME NEW r \in SellRequests(d)
          PROVE  r[2] = d
      <3>1. PICK p \in Providers : r = <<"sell", d, p>>
        BY DEF SellRequests
      <3> QED  BY <3>1
    <2> QED  BY <2>2, <2>3, <2>4, <2>5 DEF Issue
  <1>6. CASE CancelTokens /\ quote' = quote
    BY <1>6 DEF CancelTokens
  <1>7. CASE context' = context /\ request' = request /\ quote' = quote
    BY <1>7
  <1>8. CASE TimeOut \/ CancelScan
    BY <1>6, <1>7, <1>8 DEF TimeOut, CancelScan
  <1>9. CASE CollectionEnds \/ (\E g \in left : CreateOne(g)) \/ FinishScan \/ ScanFails
             \/ UNCHANGED vars
    BY <1>7, <1>9
       DEF CollectionEnds, CreateOne, FinishScan, ScanFails, vars, collection, creation
  <1> QED
    BY <1>3, <1>4, <1>5, <1>8, <1>9 DEF Next

LEMMA FailedStays ==
  ASSUME IInv, [Next]_vars
  PROVE  FailedTokens \subseteq FailedTokens'
  <1>1. TypeOK /\ Course
    BY DEF IInv
  <1>2. ASSUME NEW c \in Contexts, context[c] = "failed"
        PROVE  context'[c] = "failed"
    <2>1. CASE CancelTokens
      <3>1. c[1] \in FailedTokens
        BY <1>2 DEF FailedTokens, Contexts
      <3> QED  BY <1>2, <2>1, <3>1 DEF CancelTokens, TokenOver
    <2>2. CASE context' = context
      BY <1>2, <2>2
    <2>3. CASE BeginScan
      BY <1>1, <1>2, <2>3 DEF BeginScan, Course
    <2>4. CASE \E r \in Requests : EnterSemaphore(r) \/ Answer(r) \/ AnswerUnexpected(r)
      BY <1>1, <1>2, <2>4, RequestsOfContext
         DEF EnterSemaphore, Answer, AnswerUnexpected, TypeOK
    <2>5. CASE \E d \in Contexts : EndBuys(d) \/ EndSells(d) \/ EvaluationFails(d)
      BY <1>1, <1>2, <2>5 DEF EndBuys, EndSells, EvaluationFails, TypeOK
    <2> QED
      BY <2>1, <2>2, <2>3, <2>4, <2>5
         DEF Next, TimeOut, CancelScan, CollectionEnds, CreateOne, FinishScan, ScanFails,
             vars, collection, creation
  <1> QED  BY <1>2 DEF FailedTokens, Contexts

LEMMA FoundKept ==
  ASSUME TypeOK, NEW k \in Candidates, Founded(k), context'[k.context] = "over",
         \A r \in Requests :
           r[2] = k.context => request'[r] = request[r] /\ quote'[r] = quote[r]
  PROVE  Founded(k)'
  <1> DEFINE c == k.context
  <1>1. c \in Contexts /\ k.sell \in Providers
    BY DEF Candidates
  <1>2. \A op \in Operations, p \in Providers :
          /\ request'[<<op, c, p>>] = request[<<op, c, p>>]
          /\ quote'[<<op, c, p>>] = quote[<<op, c, p>>]
    BY <1>1, RequestsOfContext
  <1>3. "buy" \in Operations /\ "sell" \in Operations
    BY DEF Operations
  <1>4. UsableBuys(c)' = UsableBuys(c)
    BY <1>2, <1>3 DEF UsableBuys
  <1>5. \A p \in UsableBuys(c) : BuyOutput(c, p)' = BuyOutput(c, p)
    BY <1>2, <1>3 DEF UsableBuys, BuyOutput
  <1>6. Best(c, k.buy)'
    BY <1>4, <1>5 DEF Founded, Best
  <1> QED  BY <1>1, <1>2, <1>3, <1>6 DEF Founded

LEMMA FoundStep ==
  ASSUME IInv, [Next]_vars
  PROVE  IsFiniteSet(found') /\ \A k \in found' : Founded(k)'
  <1>1. /\ TypeOK /\ IsFiniteSet(found) /\ (\A k \in found : Founded(k))
        /\ \A c \in Contexts : Stage(c)
    BY DEF IInv
  <1>2. \A k \in found : Founded(k)'
    <2> TAKE k \in found
    <2>1. k \in Candidates /\ k.context \in Contexts /\ context[k.context] = "over"
      BY <1>1 DEF TypeOK, Founded, Candidates
    <2>2. /\ context'[k.context] = "over"
          /\ \A r \in Requests :
               r[2] = k.context => request'[r] = request[r] /\ quote'[r] = quote[r]
      BY <2>1, OverStays
    <2> QED  BY <1>1, <2>1, <2>2, FoundKept
  <1>3. CASE found' = found
    BY <1>1, <1>2, <1>3
  <1>4. CASE \E c \in Contexts : EndSells(c)
    <2>1. PICK c \in Contexts : EndSells(c)
      BY <1>4
    <2>2. Stage(c) /\ context[c] = "selling" /\ context'[c] = "over"
      BY <1>1, <2>1 DEF EndSells, TypeOK
    <2>3. request' = request /\ quote' = quote
      BY <2>1 DEF EndSells
    <2>4. Best(c, MaxBuy(c)) /\ UsableBuys(c)' = UsableBuys(c)
      BY <1>1, <2>2, <2>3, BestBuy DEF Stage, UsableBuys
    <2>5. Best(c, MaxBuy(c)) => (\A q \in UsableBuys(c)' :
             \/ BuyOutput(c, q)' < quote'[<<"buy", c, MaxBuy(c)>>][1]
             \/ BuyOutput(c, q)' = quote'[<<"buy", c, MaxBuy(c)>>][1] /\ q <= MaxBuy(c))
      BY <2>3, <2>4 DEF Best, BuyOutput
    <2>6. PICK legs \in SUBSET UsableSells(c) : \E result \in [legs -> Results] :
            found' = found \union
              {[context |-> c, buy |-> MaxBuy(c), sell |-> p,
                routes |-> <<quote[<<"buy", c, MaxBuy(c)>>][2],
                             quote[<<"sell", c, p>>][2]>>,
                result |-> result[p]] : p \in legs}
      BY <2>1 DEF EndSells
    <2>7. PICK result \in [legs -> Results] :
            found' = found \union
              {[context |-> c, buy |-> MaxBuy(c), sell |-> p,
                routes |-> <<quote[<<"buy", c, MaxBuy(c)>>][2],
                             quote[<<"sell", c, p>>][2]>>,
                result |-> result[p]] : p \in legs}
      BY <2>6
    <2> DEFINE new(p) == [context |-> c, buy |-> MaxBuy(c), sell |-> p,
                          routes |-> <<quote[<<"buy", c, MaxBuy(c)>>][2],
                                       quote[<<"sell", c, p>>][2]>>,
                          result |-> result[p]]
               added == {new(p) : p \in legs}
               f == [p \in legs |-> new(p)]
    <2>8. IsFiniteSet(found')
      <3>1. IsFiniteSet(legs)
        BY FS_Subset, Level1Assumption DEF UsableSells
      <3>2. f \in Surjection(legs, added)
        BY DEF Surjection
      <3>3. found' = found \union added
        BY <2>7
      <3> HIDE DEF f, added
      <3> QED  BY <1>1, <3>1, <3>2, <3>3, FS_Surjection, FS_Union
    <2>9. ASSUME NEW p \in legs
          PROVE  /\ new(p).context = c /\ new(p).buy = MaxBuy(c) /\ new(p).sell = p
                 /\ <<MaxBuy(c), p>> \in Pairs
                 /\ request[<<"sell", c, p>>] = "usable"
      <3>1. p \in Providers /\ request[<<"sell", c, p>>] = "usable"
        BY DEF UsableSells
      <3>2. <<MaxBuy(c), p>> \in Pairs
        BY <2>2, <3>1 DEF Stage
      <3> QED  BY <3>1, <3>2
    <2>10. \A k \in added : Founded(k)'
      <3> TAKE k \in added
      <3>1. PICK p \in legs : k = new(p)
        OBVIOUS
      <3>2. /\ k.context = c /\ k.buy = MaxBuy(c) /\ k.sell = p
            /\ <<MaxBuy(c), p>> \in Pairs
            /\ request[<<"sell", c, p>>] = "usable"
        BY <2>9, <3>1
      <3> HIDE DEF added, new
      <3>3. MaxBuy(c) \in UsableBuys(c)'
        BY <2>4 DEF Best
      <3>4. Best(c, k.buy)'
        BY <2>4, <2>5, <3>2, <3>3 DEF Best, BuyOutput
      <3> QED  BY <2>2, <2>3, <3>2, <3>4 DEF Founded
    <2> QED  BY <1>2, <2>7, <2>8, <2>10
  <1> QED
    BY <1>3, <1>4
       DEF Next, BeginScan, EnterSemaphore, Answer, AnswerUnexpected, EndBuys,
           EvaluationFails, CollectionEnds, TimeOut, CreateOne, FinishScan, ScanFails,
           CancelScan, vars, collection, creation

-----------------------------------------------------------------------------
(* The course of the scan.                                                 *)

(* Once the collection has ended, only what a failed token left behind is  *)
(* still under way.                                                        *)
LEMMA Settled ==
  ASSUME IInv, phase \in {"creating", "over"}
  PROVE  /\ \A r \in Requests : Pending(r) => r[2][1] \in FailedTokens
         /\ \A c \in Contexts : context[c] \in {"buying", "selling"} => c[1] \in FailedTokens
  <1>1. Course /\ \A c \in Contexts : Stage(c)
    BY DEF IInv
  <1>2. \A c \in Contexts : context[c] = "failed" => c[1] \in FailedTokens
    BY DEF Contexts, FailedTokens
  <1>3. \A c \in Contexts :
          context[c] \in {"idle", "over", "cancelled"} \/ c[1] \in FailedTokens
    BY <1>1, <1>2 DEF Course
  <1>4. ASSUME NEW r \in Requests, Pending(r)
        PROVE  r[2][1] \in FailedTokens
    <2>1. r[2] \in Contexts
      BY RequestsOfContext
    <2>2. context[r[2]] \notin {"idle", "over", "cancelled"}
      BY <1>1, <1>4, <2>1 DEF Stage, Untouched, Silent, Pending
    <2> QED  BY <1>3, <2>1, <2>2
  <1> QED  BY <1>3, <1>4

LEMMA CourseStep ==
  ASSUME IInv, [Next]_vars
  PROVE  Course'
  <1>1. TypeOK /\ Course /\ \A c \in Contexts : Stage(c)
    BY DEF IInv
  <1>2. FailedTokens \subseteq FailedTokens'
    BY FailedStays
  <1>3. \A c \in Contexts : context[c] = "failed" => c[1] \in FailedTokens
    BY DEF Contexts, FailedTokens
  <1>4. CASE BeginScan
    BY <1>1, <1>4 DEF BeginScan, Course, creation, NoRow
  <1>5. CASE \E r \in Requests : EnterSemaphore(r) \/ Answer(r) \/ AnswerUnexpected(r)
    <2>1. PICK r \in Requests : EnterSemaphore(r) \/ Answer(r) \/ AnswerUnexpected(r)
      BY <1>5
    <2>2. r[2] \in Contexts /\ Pending(r)
      BY <2>1, RequestsOfContext DEF EnterSemaphore, Answer, AnswerUnexpected, Pending
    <2>3. phase # "idle"
      BY <1>1, <2>2 DEF Course, Stage, Untouched, Pending
    <2>4. \A c \in Contexts : context'[c] = context[c] \/ context'[c] = "failed"
      BY <1>1, <2>1 DEF EnterSemaphore, Answer, AnswerUnexpected, TypeOK
    <2>5. /\ phase' = phase /\ candidates' = candidates /\ timedOut' = timedOut
          /\ row' = row
      BY <2>1 DEF EnterSemaphore, Answer, AnswerUnexpected, creation
    <2> QED  BY <1>1, <1>2, <2>3, <2>4, <2>5 DEF Course
  <1>6. CASE \E c \in Contexts : EndBuys(c) \/ EndSells(c) \/ EvaluationFails(c)
    <2>1. PICK c \in Contexts : EndBuys(c) \/ EndSells(c) \/ EvaluationFails(c)
      BY <1>6
    <2>2. phase # "idle" /\ context[c] \in {"buying", "selling"}
      BY <1>1, <2>1 DEF EndBuys, EndSells, EvaluationFails, Course
    <2>3. phase \in {"creating", "over"} => c[1] \in FailedTokens
      BY <1>1, <2>2 DEF Course
    <2>4. /\ \A d \in Contexts : d # c => context'[d] = context[d]
          /\ context'[c] \in {"selling", "over", "failed"}
      BY <1>1, <2>1 DEF EndBuys, EndSells, EvaluationFails, TypeOK
    <2>5. /\ phase' = phase /\ candidates' = candidates /\ timedOut' = timedOut
          /\ row' = row
      BY <2>1 DEF EndBuys, EndSells, EvaluationFails, creation
    <2> QED  BY <1>1, <1>2, <2>2, <2>3, <2>4, <2>5 DEF Course
  <1>7. CASE CollectionEnds
    <2>1. \A c \in Contexts : context[c] = "over" \/ c[1] \in FailedTokens
      BY <1>7 DEF CollectionEnds, TokenOver, Contexts
    <2> QED  BY <1>1, <1>2, <1>7, <2>1 DEF CollectionEnds, Course, collection, BeginCreation
  <1>8. ASSUME CancelTokens
        PROVE  \A c \in Contexts :
                 /\ context'[c] \in {"over", "cancelled"} \/ c[1] \in FailedTokens
                 /\ context'[c] = "idle" => context[c] = "idle"
    <2> TAKE c \in Contexts
    <2>1. context'[c] = "cancelled" \/ (context'[c] = context[c] /\ context[c] = "over")
            \/ (context'[c] = context[c] /\ TokenOver(c[1]))
      BY <1>8 DEF CancelTokens
    <2>2. TokenOver(c[1]) => c[1] \in FailedTokens \/ context[c] = "over"
      BY DEF TokenOver, Contexts
    <2> QED  BY <2>1, <2>2
  <1>9. CASE TimeOut
    BY <1>1, <1>2, <1>8, <1>9 DEF TimeOut, Course, BeginCreation
  <1>10. CASE \E g \in left : CreateOne(g)
    BY <1>1, <1>2, <1>10 DEF CreateOne, Course, collection
  <1>11. CASE FinishScan
    BY <1>1, <1>2, <1>11 DEF FinishScan, Course, collection, creation
  <1>12. CASE ScanFails
    BY <1>1, <1>2, <1>12 DEF ScanFails, Course, collection, creation
  <1>13. CASE CancelScan
    <2>1. row'.status = "cancelled" /\ phase' = "over"
      BY <1>13 DEF CancelScan, WriteRow
    <2>2. CASE phase = "collecting"
      BY <1>2, <1>8, <1>13, <2>1, <2>2 DEF CancelScan, Course
    <2>3. CASE phase = "creating"
      BY <1>1, <1>2, <1>13, <2>1, <2>3 DEF CancelScan, Course
    <2> QED  BY <1>13, <2>2, <2>3 DEF CancelScan
  <1>14. CASE UNCHANGED vars
    BY <1>1, <1>2, <1>14 DEF vars, collection, creation, Course
  <1> QED
    BY <1>4, <1>5, <1>6, <1>7, <1>9, <1>10, <1>11, <1>12, <1>13, <1>14 DEF Next

-----------------------------------------------------------------------------
(* The ranking of the groups.                                              *)

LEMMA BestRoiIs ==
  ASSUME TypeOK, IsFiniteSet(found), NEW key \in {Key(k) : k \in candidates}
  PROVE  /\ BestRoi(key) \in Int
         /\ \E best \in candidates : Key(best) = key /\ best.result.roi = BestRoi(key)
         /\ \A k \in candidates : Key(k) = key => BestRoi(key) >= k.result.roi
  <1> DEFINE M == Members(key)
             S == {k.result.roi : k \in M}
             f == [k \in M |-> k.result.roi]
  <1>1. candidates \subseteq found /\ found \subseteq Candidates
    BY DEF TypeOK
  <1>2. \A k \in candidates : k.result.roi \in Int
    <2> TAKE k \in candidates
    <2>1. k \in Candidates
      BY <1>1
    <2>2. k.result \in Results
      BY <2>1 DEF Candidates
    <2> QED  BY <2>2, Level1Assumption
  <1>3. M \subseteq candidates
    BY DEF Members
  <1>4. IsFiniteSet(M)
    BY <1>1, <1>3, FS_Subset
  <1>5. f \in Surjection(M, S)
    BY DEF Surjection
  <1>6. IsFiniteSet(S)
    <2> HIDE DEF M, S, f
    <2> QED  BY <1>4, <1>5, FS_Surjection
  <1>7. S # {} /\ S \subseteq Int
    <2>1. PICK k \in candidates : key = Key(k)
      OBVIOUS
    <2>2. k \in M
      BY <2>1 DEF Members
    <2> QED  BY <1>2, <1>3, <2>2
  <1>8. Max(S) \in S /\ \A y \in S : Max(S) >= y
    <2> HIDE DEF S
    <2> QED  BY <1>6, <1>7, MaxOf
  <1>9. BestRoi(key) = Max(S)
    BY DEF BestRoi
  <1>10. BestRoi(key) \in S /\ \A y \in S : BestRoi(key) >= y
    <2> HIDE DEF S
    <2> QED  BY <1>8, <1>9
  <1>11. PICK best \in M : BestRoi(key) = best.result.roi
    BY <1>10
  <1>12. \A k \in candidates : Key(k) = key => k.result.roi \in S
    BY DEF Members
  <1> QED  BY <1>7, <1>10, <1>11, <1>12 DEF Members

LEMMA BestStep ==
  ASSUME IInv, [Next]_vars
  PROVE  BestGroupsCreated'
  <1>1. TypeOK /\ IsFiniteSet(found) /\ Course /\ BestGroupsCreated
    BY DEF IInv
  <1>2. CASE candidates' = candidates /\ created' = created /\ left' = left
    BY <1>1, <1>2 DEF BestGroupsCreated, Key
  <1>3. CASE CollectionEnds \/ TimeOut
    <2>1. created = {}
      BY <1>1, <1>3 DEF CollectionEnds, TimeOut, Course, TypeOK
    <2> QED
      BY <1>3, <2>1 DEF CollectionEnds, TimeOut, BeginCreation, BestGroupsCreated
  <1>4. CASE \E g \in left : CreateOne(g)
    <2>1. PICK g \in left : CreateOne(g)
      BY <1>4
    <2>2. /\ candidates' = candidates /\ left' = left \ {g}
          /\ created' \subseteq created \union {g}
          /\ \A h \in left : ~ Outranks(h, g)
      BY <2>1 DEF CreateOne
    <2>3. left \subseteq {Key(k) : k \in candidates}
      BY <1>1 DEF TypeOK
    <2>4. ASSUME NEW h \in left, NEW k \in candidates, Key(k) = h
          PROVE  \E best \in candidates : Key(best) = g /\ best.result.roi >= k.result.roi
      <3>1. /\ BestRoi(g) \in Int
            /\ \E best \in candidates : Key(best) = g /\ best.result.roi = BestRoi(g)
        BY <1>1, <2>3, BestRoiIs
      <3>2. BestRoi(h) \in Int /\ BestRoi(h) >= k.result.roi
        BY <1>1, <2>3, <2>4, BestRoiIs
      <3>3. ~ (BestRoi(h) > BestRoi(g))
        BY <2>2 DEF Outranks
      <3>4. k.result.roi \in Int
        <4>1. k \in Candidates
          BY <1>1 DEF TypeOK
        <4>2. k.result \in Results
          BY <4>1 DEF Candidates
        <4> QED  BY <4>2, Level1Assumption
      <3>5. BestRoi(g) >= k.result.roi
        BY <3>1, <3>2, <3>3, <3>4
      <3> QED  BY <3>1, <3>5
    <2>5. \A e \in created', h \in left' : \A k \in candidates : Key(k) = h =>
            \E best \in candidates : Key(best) = e /\ best.result.roi >= k.result.roi
      BY <1>1, <2>2, <2>4 DEF BestGroupsCreated
    <2> QED  BY <2>2, <2>5 DEF BestGroupsCreated, Key
  <1> QED
    BY <1>2, <1>3, <1>4
       DEF Next, BeginScan, EnterSemaphore, Answer, AnswerUnexpected, EndBuys, EndSells,
           EvaluationFails, FinishScan, ScanFails, CancelScan, vars, creation

-----------------------------------------------------------------------------
(* The row of the scan.                                                    *)

LEMMA FinishStep ==
  ASSUME IInv, FinishScan
  PROVE  RowCountsRequests'
  <1>1. TypeOK /\ Course /\ \A c \in Contexts : Stage(c)
    BY DEF IInv
  <1>2. /\ phase = "creating" /\ request' = request /\ context' = context
        /\ timedOut' = timedOut
        /\ row'.status = FinalStatus
        /\ row'.requests = Cardinality(Issued)
        /\ row'.successful = Cardinality(InState("usable"))
        /\ row'.failed = Cardinality(InState("failed"))
    BY DEF FinishScan, WriteRow, collection
  <1>3. FailedTokens' = FailedTokens /\ Issued' = Issued
        /\ InState("usable")' = InState("usable")
    BY <1>2 DEF FailedTokens, Issued, InState
  <1>4. SUFFICES ASSUME ~ timedOut, FailedTokens = {}
                 PROVE  /\ Cardinality(Issued) = Cardinality(InState("usable"))
                                                 + Cardinality(InState("failed"))
                        /\ FinalStatus = "complete" => Issued = InState("usable")
    BY <1>2, <1>3 DEF RowCountsRequests
  <1>5. \A r \in Requests : request[r] \in {"none", "usable", "failed"}
    <2> TAKE r \in Requests
    <2>1. ~ Pending(r)
      BY <1>2, <1>4, Settled
    <2>2. request[r] # "lost"
      <3>1. r[2] \in Contexts /\ r[2][1] \in Tokens
        BY RequestsOfContext DEF Contexts
      <3>2. context[r[2]] # "failed"
        BY <1>4, <3>1 DEF FailedTokens, Contexts
      <3>3. context[r[2]] # "cancelled"
        BY <1>1, <1>2, <1>4, <3>1 DEF Course
      <3> QED  BY <1>1, <3>1, <3>2, <3>3 DEF Stage
    <2> QED  BY <1>1, <2>1, <2>2 DEF TypeOK, RequestState, Pending
  <1>6. /\ Issued = InState("usable") \union InState("failed")
        /\ InState("usable") \intersect InState("failed") = {}
    BY <1>5 DEF Issued, InState
  <1>7. IsFiniteSet(InState("usable")) /\ IsFiniteSet(InState("failed"))
    BY RequestsOfContext, FS_Subset DEF InState
  <1>8. /\ Cardinality(InState("usable")) \in Nat
        /\ Cardinality(InState("failed")) \in Nat
    BY <1>7, FS_CardinalityType
  <1>9. Cardinality(InState("usable") \union InState("failed"))
          = Cardinality(InState("usable")) + Cardinality(InState("failed"))
    <2>1. Cardinality(InState("usable") \union InState("failed"))
            = Cardinality(InState("usable")) + Cardinality(InState("failed"))
              - Cardinality(InState("usable") \intersect InState("failed"))
      BY <1>7, FS_Union
    <2>2. Cardinality(InState("usable") \intersect InState("failed")) = 0
      BY <1>6, FS_EmptySet
    <2> QED  BY <1>8, <2>1, <2>2
  <1>10. FinalStatus = "complete" => InState("failed") = {}
    BY <1>4 DEF FinalStatus
  <1> QED  BY <1>6, <1>9, <1>10

LEMMA RowStep ==
  ASSUME IInv, [Next]_vars
  PROVE  RowCountsRequests'
  <1>1. /\ TypeOK /\ Course /\ RowCountsRequests /\ FailedTokens \subseteq FailedTokens'
    BY FailedStays DEF IInv
  <1>2. CASE FinishScan
    BY <1>2, FinishStep
  <1>3. CASE BeginScan
    <2>1. row'.status = "running"
      BY <1>3 DEF BeginScan, NoRow
    <2> QED  BY <2>1 DEF RowCountsRequests
  <1>4. CASE CancelScan
    <2>1. row'.status = "cancelled"
      BY <1>4 DEF CancelScan, WriteRow
    <2> QED  BY <2>1 DEF RowCountsRequests
  <1>5. CASE ~ FinishScan /\ ~ BeginScan /\ ~ CancelScan
    <2>1. row' = row
      BY <1>5 DEF Next, EnterSemaphore, Answer, AnswerUnexpected, EndBuys, EndSells,
                  EvaluationFails, CollectionEnds, TimeOut, CreateOne, ScanFails, vars
    <2>2. SUFFICES ASSUME row.status \in {"complete", "partial", "failed"},
                          ~ timedOut', FailedTokens' = {}
                   PROVE  /\ row.requests = row.successful + row.failed
                          /\ row.successful = Cardinality(InState("usable")')
                          /\ row.status = "complete" => Issued' = InState("usable")'
      BY <2>1 DEF RowCountsRequests
    <2>3. phase = "over" /\ FailedTokens = {}
      BY <1>1, <2>2 DEF Course
    <2>4. /\ \A r \in Requests : ~ Pending(r)
          /\ \A c \in Contexts : context[c] \notin {"buying", "selling"}
      BY <2>3, Settled
    <2>5. request' = request /\ timedOut' = timedOut
      BY <1>5, <2>3, <2>4
         DEF Next, EnterSemaphore, Answer, AnswerUnexpected, EndBuys, EndSells,
             EvaluationFails, CollectionEnds, TimeOut, CreateOne, ScanFails, Pending,
             vars, collection
    <2>6. Issued' = Issued /\ InState("usable")' = InState("usable")
      BY <2>5 DEF Issued, InState
    <2> QED  BY <1>1, <2>2, <2>3, <2>5, <2>6 DEF RowCountsRequests
  <1> QED  BY <1>2, <1>3, <1>4, <1>5

-----------------------------------------------------------------------------
(* The invariant.                                                          *)

LEMMA InitIInv ==
  ASSUME Init
  PROVE  IInv
  <1>1. TypeOK
    <2>1. quote \in [Requests -> Nat \X AnyRoute]
      <3>1. NoQuote \in Nat \X AnyRoute
        BY DEF NoQuote, AnyRoute
      <3> QED  BY <3>1 DEF Init
    <2>2. row \in [status : {"none", "running", "complete", "partial", "failed", "cancelled"},
                   requests : Nat, successful : Nat, failed : Nat, created : Nat,
                   duplicates : Nat]
      BY DEF Init, NoRow
    <2>3. slots \in 0 .. Capacity
      BY Level1Assumption DEF Init
    <2>4. /\ context \in [Contexts -> ContextState]
          /\ request \in [Requests -> RequestState]
      BY DEF Init, ContextState, RequestState
    <2> QED  BY <2>1, <2>2, <2>3, <2>4 DEF Init, TypeOK
  <1>2. IsFiniteSet(found)
    BY FS_EmptySet DEF Init
  <1>3. \A c \in Contexts : Stage(c)
    BY DEF Init, Stage, Untouched
  <1>4. Course
    BY DEF Init, Course, NoRow
  <1>5. RowCountsRequests
    BY DEF Init, RowCountsRequests, NoRow
  <1> QED  BY <1>1, <1>2, <1>3, <1>4, <1>5 DEF Init, IInv, BestGroupsCreated

LEMMA Inductive ==
  ASSUME IInv, [Next]_vars
  PROVE  IInv'
  <1>1. TypeOK'
    BY TypeStep
  <1>2. \A c \in Contexts : Stage(c)'
    BY StageStep
  <1> QED
    BY <1>1, <1>2, FoundStep, CourseStep, BestStep, RowStep DEF IInv

LEMMA InvariantHolds ==
  Spec => []IInv
  <1>1. Init => IInv
    BY InitIInv
  <1>2. IInv /\ [Next]_vars => IInv'
    BY Inductive
  <1> QED  BY <1>1, <1>2, PTL DEF Spec

(* Every value stays of its kind, whatever the providers answer and        *)
(* whenever the scan is stopped.                                           *)
THEOREM ScanTypes == Spec => []TypeOK
  <1>1. IInv => TypeOK
    BY DEF IInv
  <1> QED  BY <1>1, InvariantHolds, PTL

(* A candidate of the ranking pairs the best buy of its token and amount   *)
(* with an allowed sell, and no answer that comes later can change this.   *)
THEOREM CandidatesAreFounded == Spec => []CandidatesFollowQuotes
  <1>1. IInv => CandidatesFollowQuotes
    <2> SUFFICES ASSUME IInv  PROVE CandidatesFollowQuotes
      OBVIOUS
    <2>1. TypeOK /\ \A c \in Contexts : Stage(c)
      BY DEF IInv
    <2>2. ASSUME NEW k \in candidates
          PROVE  /\ <<k.buy, k.sell>> \in Pairs
                 /\ request[<<"sell", k.context, k.sell>>] = "usable"
                 /\ \A r \in Requests : r[2] = k.context => ~ Pending(r)
                 /\ \A p \in Providers :
                      request[<<"buy", k.context, p>>] = "usable" =>
                        quote[<<"buy", k.context, p>>][1]
                          <= quote[<<"buy", k.context, k.buy>>][1]
      <3>1. k \in found /\ k \in Candidates /\ Founded(k)
        BY <2>1 DEF TypeOK, IInv
      <3>2. k.context \in Contexts
        BY <3>1 DEF Candidates
      <3>3. Silent(k.context)
        BY <2>1, <3>1, <3>2 DEF Founded, Stage
      <3>4. Best(k.context, k.buy)
        BY <3>1 DEF Founded
      <3>5. k.buy \in Providers
        BY <3>4 DEF Best, UsableBuys
      <3>6. ASSUME NEW p \in Providers, request[<<"buy", k.context, p>>] = "usable"
            PROVE  BuyOutput(k.context, p) <= BuyOutput(k.context, k.buy)
        <4>1. BuyOutput(k.context, p) \in Nat /\ BuyOutput(k.context, k.buy) \in Nat
          BY <2>1, <3>2, <3>5, BestBuy
        <4>2. p \in UsableBuys(k.context)
          BY <3>6 DEF UsableBuys
        <4> QED  BY <3>4, <4>1, <4>2 DEF Best
      <3> QED  BY <3>1, <3>3, <3>6 DEF Founded, Silent, BuyOutput
    <2> QED  BY <2>2 DEF CandidatesFollowQuotes
  <1> QED  BY <1>1, InvariantHolds, PTL

(* The groups that become opportunities promise no less than those the     *)
(* capacity or a cancellation leaves out.                                  *)
THEOREM BestGroupsFirst == Spec => []BestGroupsCreated
  <1>1. IInv => BestGroupsCreated
    BY DEF IInv
  <1> QED  BY <1>1, InvariantHolds, PTL

(* The last counters of a scan without time limit and lost tokens account  *)
(* for every request and are final.                                        *)
THEOREM RowIsHonest == Spec => []RowCountsRequests
  <1>1. IInv => RowCountsRequests
    BY DEF IInv
  <1> QED  BY <1>1, InvariantHolds, PTL

(* What is still under way after the collection belongs to a token that    *)
(* failed: the time limit and a cancellation leave nothing else behind.    *)
THEOREM NothingOutlivesScan == Spec => []RequestsEndWithScan
  <1>1. IInv => RequestsEndWithScan
    BY Settled DEF RequestsEndWithScan
  <1> QED  BY <1>1, InvariantHolds, PTL
=============================================================================
