----------------------- MODULE ResourceManagerProofs ------------------------
(***************************************************************************)
(* Proofs about the resource manager, for any number of requests, gates    *)
(* and slots, any paths through the gates and any priorities, with         *)
(* time-outs and cancellations between any two steps.                      *)
(***************************************************************************)
EXTENDS ResourceManager, FiniteSetTheorems, WellFoundedInduction, TLAPS

(***************************************************************************)
(* The inductive invariant.                                                *)
(***************************************************************************)
Holders(g) == {r \in Requests : g \in held[r]}

GatesOf(r) == GatesBetween(r, 1, Len(Path[r]))

Absent(r) == \A g \in Gates : r \notin heap[g] \union granted[g]

(* The request holds the gates before number i and is in line at that one. *)
InLine(r, i) ==
  /\ held[r] = GatesBetween(r, 1, i - 1)
  /\ \A g \in Gates : r \in heap[g] \union granted[g] <=> g = Path[r][i]

(* Where a request is follows from what its coroutine is doing. *)
Placed(r) ==
  /\ pc[r] = "idle" => held[r] = {} /\ Absent(r)
  /\ pc[r] \in {"running", "backoff"} => held[r] = GatesOf(r) /\ Absent(r)
  /\ pc[r] = "waiting" => \E i \in 1 .. Len(Path[r]) : InLine(r, i)

Counted(r) ==
  /\ pc[r] \in {"idle", "waiting"} => attempts[r] = 0
  /\ pc[r] = "backoff" => attempts[r] < MaxAttempts

(* A slot in use has one owner, and a request waits only for a gate that   *)
(* has no slot left.                                                       *)
Balanced(g) ==
  /\ heap[g] \intersect granted[g] = {}
  /\ heap[g] \intersect Holders(g) = {}
  /\ granted[g] \intersect Holders(g) = {}
  /\ active[g] = Cardinality(Owners(g))
  /\ active[g] <= Limit[g]
  /\ heap[g] # {} => active[g] = Limit[g]

IInv ==
  /\ TypeOK
  /\ \A r \in Requests : Placed(r) /\ Counted(r)
  /\ \A g \in Gates : Balanced(g)
-----------------------------------------------------------------------------
(* Facts about the operators.                                              *)

LEMMA MaxPred ==
  ASSUME NEW n \in Nat
  PROVE  /\ Max({0, n - 1}) \in Nat
         /\ n > 0 => Max({0, n - 1}) = n - 1
  <1> DEFINE m == IF n > 0 THEN n - 1 ELSE 0
  <1>1. m \in {0, n - 1} /\ \A y \in {0, n - 1} : m >= y
    OBVIOUS
  <1>2. \A x \in {0, n - 1} : (\A y \in {0, n - 1} : x >= y) => x = m
    OBVIOUS
  <1> QED  BY <1>1, <1>2 DEF Max

LEMMA PathType ==
  ASSUME NEW r \in Requests
  PROVE  /\ Path[r] \in Seq(Gates)
         /\ Len(Path[r]) \in Nat \ {0}
         /\ \A i \in 1 .. Len(Path[r]) : Path[r][i] \in Gates
         /\ \A i, j \in 1 .. Len(Path[r]) : Path[r][i] = Path[r][j] => i = j
  <1>1. Path[r] \in Seq(Gates) /\ Path[r] # <<>>
    BY ManagerAssumption
  <1>2. DOMAIN Path[r] = 1 .. Len(Path[r])
    BY <1>1
  <1>3. \A i, j \in DOMAIN Path[r] : Path[r][i] = Path[r][j] => i = j
    BY ManagerAssumption
  <1>4. \A i \in 1 .. Len(Path[r]) : Path[r][i] \in Gates
    BY <1>1
  <1>5. Len(Path[r]) \in Nat \ {0}
    BY <1>1
  <1> QED  BY <1>1, <1>2, <1>3, <1>4, <1>5

(* A path is cut into the gates before a number, that gate and the rest. *)
LEMMA PathCut ==
  ASSUME NEW r \in Requests, NEW i \in 0 .. Len(Path[r]),
         NEW j \in i .. Len(Path[r])
  PROVE  /\ GatesBetween(r, 1, i) \subseteq Gates
         /\ GatesBetween(r, i + 1, j) \subseteq Gates
         /\ GatesBetween(r, 1, i) \union GatesBetween(r, i + 1, j) = GatesBetween(r, 1, j)
         /\ GatesBetween(r, 1, i) \intersect GatesBetween(r, i + 1, j) = {}
         /\ i > 0 => GatesBetween(r, 1, i - 1) \union {Path[r][i]} = GatesBetween(r, 1, i)
         /\ i > 0 => Path[r][i] \notin GatesBetween(r, 1, i - 1)
         /\ j < Len(Path[r]) => Path[r][j + 1] \notin GatesBetween(r, 1, j)
  <1> USE PathType DEF GatesBetween
  <1>1. GatesBetween(r, 1, i) \subseteq Gates /\ GatesBetween(r, i + 1, j) \subseteq Gates
    OBVIOUS
  <1>2. GatesBetween(r, 1, i) \union GatesBetween(r, i + 1, j) = GatesBetween(r, 1, j)
    OBVIOUS
  <1>3. GatesBetween(r, 1, i) \intersect GatesBetween(r, i + 1, j) = {}
    OBVIOUS
  <1>4. i > 0 => GatesBetween(r, 1, i - 1) \union {Path[r][i]} = GatesBetween(r, 1, i)
    OBVIOUS
  <1>5. i > 0 => Path[r][i] \notin GatesBetween(r, 1, i - 1)
    OBVIOUS
  <1>6. j < Len(Path[r]) => Path[r][j + 1] \notin GatesBetween(r, 1, j)
    OBVIOUS
  <1> QED  BY <1>1, <1>2, <1>3, <1>4, <1>5, <1>6

LEMMA BreakerOperations ==
  ASSUME NEW b \in Breaker, NEW flag \in BOOLEAN
  PROVE  /\ Seen(b, flag) \in Breaker
         /\ OnRequestStarted(b) \in Breaker
         /\ OnSuccess(b) \in Breaker
         /\ OnFailure(b) \in Breaker
  <1> USE DEF Breaker, CircuitState
  <1>1. Closed \in Breaker /\ Open \in Breaker
    BY DEF Closed, Open, Counters
  <1>2. Seen(b, flag) \in Breaker
    BY DEF Seen
  <1>3. OnRequestStarted(b) \in Breaker
    BY DEF OnRequestStarted
  <1>4. OnSuccess(b) \in Breaker
    BY <1>1 DEF OnSuccess
  <1>5. OnFailure(b) \in Breaker
    BY <1>1 DEF OnFailure
  <1> QED  BY <1>2, <1>3, <1>4, <1>5

(* A breaker set by one of the operations is a breaker. *)
LEMMA BreakerSet ==
  ASSUME TypeOK, NEW r \in Requests, NEW b,
         b \in {BreakerOf(r), OnRequestStarted(BreakerOf(r)),
                OnSuccess(BreakerOf(r)), OnFailure(BreakerOf(r))},
         SetBreaker(r, b)
  PROVE  breaker' \in [Resources -> Breaker]
  <1>1. ResourceOf[r] \in Resources
    BY ManagerAssumption
  <1>2. BreakerOf(r) \in Breaker
    BY <1>1, BreakerOperations DEF TypeOK, BreakerOf
  <1>3. b \in Breaker
    BY <1>2, BreakerOperations
  <1> QED  BY <1>1, <1>3 DEF SetBreaker, TypeOK
-----------------------------------------------------------------------------
(* The two ways in which slots change hands.                               *)

(* The owners of a gate are requests, so there are finitely many. *)
LEMMA OwnersFinite ==
  ASSUME TypeOK, NEW g \in Gates
  PROVE  Owners(g) \subseteq Requests /\ IsFiniteSet(Owners(g))
  <1>1. Owners(g) \subseteq Requests
    BY DEF Owners, TypeOK, GateTypeOK
  <1> QED  BY <1>1, FS_Subset, GateAssumption

(* A request that departs gives back what it owns and nothing else, every  *)
(* slot goes to a waiter if there is one, and nobody else moves.           *)
LEMMA Departed ==
  ASSUME IInv, NEW r \in Requests, Depart(r)
  PROVE  /\ GateTypeOK'
         /\ \A g \in Gates : Balanced(g)'
         /\ held'[r] = {} /\ Absent(r)'
         /\ \A s \in Requests \ {r} :
              /\ held'[s] = held[s]
              /\ \A g \in Gates :
                   s \in heap'[g] \union granted'[g] <=> s \in heap[g] \union granted[g]
  <1> DEFINE released == GivenBack(r)
  <1>0. PICK heir \in Heirs(released) :
          /\ active' = [g \in Gates |->
                          IF g \in released /\ heir[g] = Nobody
                          THEN Max({0, active[g] - 1}) ELSE active[g]]
          /\ heap' = [g \in Gates |->
                        IF g \in released THEN heap[g] \ {heir[g], r} ELSE heap[g] \ {r}]
          /\ granted' = [g \in Gates |->
                           IF g \in released /\ heir[g] # Nobody
                           THEN (granted[g] \ {r}) \union {heir[g]}
                           ELSE granted[g] \ {r}]
          /\ held' = [held EXCEPT ![r] = {}]
          /\ older' = [s \in Requests |-> IF s = r THEN {} ELSE older[s] \ {r}]
    BY DEF Depart
  <1>t. TypeOK /\ GateTypeOK
    BY DEF IInv, TypeOK
  <1>r. released \subseteq Gates /\ \A g \in Gates : g \in released <=> r \in Owners(g)
    BY <1>t DEF GivenBack, GateTypeOK, Owners
  <1>h. \A g \in released :
          /\ heap[g] = {} => heir[g] = Nobody
          /\ heap[g] # {} => heir[g] \in heap[g]
    BY <1>0 DEF Heirs, Foremost
  <1> HIDE DEF released
  <1>n. \A g \in Gates : Nobody \notin heap[g] /\ heap[g] \subseteq Requests
    BY <1>t, GateAssumption DEF GateTypeOK
  <1>1. GateTypeOK'
    <2>1. active' \in [Gates -> Nat]
      BY <1>0, <1>t, MaxPred DEF GateTypeOK
    <2>2. heap' \in [Gates -> SUBSET Requests]
      BY <1>0, <1>n
    <2>3. granted' \in [Gates -> SUBSET Requests]
      BY <1>0, <1>t, <1>n, <1>h DEF GateTypeOK
    <2>4. held' \in [Requests -> SUBSET Gates] /\ older' \in [Requests -> SUBSET Requests]
      BY <1>0, <1>t DEF GateTypeOK
    <2> QED  BY <2>1, <2>2, <2>3, <2>4 DEF GateTypeOK
  <1>2. \A s \in Requests \ {r} : held'[s] = held[s]
    BY <1>0, <1>t DEF GateTypeOK
  <1>3. held'[r] = {}
    BY <1>0, <1>t DEF GateTypeOK
  <1>4. ASSUME NEW g \in Gates
        PROVE  /\ r \notin heap'[g] \union granted'[g]
               /\ \A s \in Requests \ {r} :
                    s \in heap'[g] \union granted'[g] <=> s \in heap[g] \union granted[g]
               /\ Balanced(g)'
    <2>b. Balanced(g)
      BY DEF IInv
    <2>f. active[g] \in Nat /\ Limit[g] \in Nat \ {0}
      BY <1>t, GateAssumption DEF GateTypeOK
    <2>o. Holders(g)' = Holders(g) \ {r}
      BY <1>2, <1>3 DEF Holders
    <2>w. Owners(g) = Holders(g) \union granted[g] /\ Owners(g)' = Holders(g)' \union granted'[g]
      BY DEF Owners, Holders
    <2>1. CASE g \in released /\ heap[g] # {}
      <3>1. heir[g] \in heap[g] /\ heir[g] # Nobody
        BY <2>1, <1>h, <1>n
      <3>2. r \in Owners(g) /\ r \notin heap[g] /\ heir[g] # r
        BY <2>1, <2>b, <2>w, <3>1, <1>r DEF Balanced
      <3>3. /\ active'[g] = active[g]
            /\ heap'[g] = heap[g] \ {heir[g]}
            /\ granted'[g] = (granted[g] \ {r}) \union {heir[g]}
        BY <1>0, <2>1, <3>1, <3>2
      <3>4. heir[g] \notin Owners(g)
        BY <2>b, <2>w, <3>1 DEF Balanced
      <3>5. Owners(g)' = (Owners(g) \ {r}) \union {heir[g]}
        BY <2>o, <2>w, <3>3, <3>2, <3>4
      <3>6. Cardinality(Owners(g)') = Cardinality(Owners(g))
        <4>1. IsFiniteSet(Owners(g))
          BY <1>t, OwnersFinite
        <4>2. /\ IsFiniteSet(Owners(g) \ {r})
              /\ Cardinality(Owners(g) \ {r}) = Cardinality(Owners(g)) - 1
          BY <4>1, <3>2, FS_RemoveElement
        <4>3. Cardinality((Owners(g) \ {r}) \union {heir[g]}) =
                Cardinality(Owners(g) \ {r}) + 1
          BY <4>2, <3>4, FS_AddElement
        <4> QED  BY <4>2, <4>3, <3>5, <2>b, <2>f DEF Balanced
      <3>7. Balanced(g)'
        BY <2>b, <2>o, <2>w, <3>1, <3>3, <3>4, <3>6 DEF Balanced
      <3> QED  BY <3>1, <3>2, <3>3, <3>7
    <2>2. CASE g \in released /\ heap[g] = {}
      <3>1. heir[g] = Nobody /\ r \in Owners(g)
        BY <2>2, <1>h, <1>r
      <3>2. IsFiniteSet(Owners(g))
        BY <1>t, OwnersFinite
      <3>3. active[g] > 0
        BY <2>b, <2>f, <3>1, <3>2, FS_EmptySet DEF Balanced
      <3>4. /\ active'[g] = active[g] - 1
            /\ heap'[g] = {}
            /\ granted'[g] = granted[g] \ {r}
        BY <1>0, <2>2, <2>f, <3>1, <3>3, MaxPred
      <3>5. Owners(g)' = Owners(g) \ {r}
        BY <2>o, <2>w, <3>4
      <3>6. Cardinality(Owners(g)') = Cardinality(Owners(g)) - 1
        BY <3>1, <3>2, <3>5, FS_RemoveElement
      <3>7. Balanced(g)'
        BY <2>b, <2>f, <2>o, <3>4, <3>6 DEF Balanced
      <3> QED  BY <2>2, <3>4, <3>7
    <2>3. CASE g \notin released
      <3>1. r \notin Owners(g)
        BY <2>3, <1>r
      <3>2. /\ active'[g] = active[g]
            /\ heap'[g] = heap[g] \ {r}
            /\ granted'[g] = granted[g]
        BY <1>0, <2>3, <2>w, <3>1
      <3>3. Holders(g)' = Holders(g) /\ Owners(g)' = Owners(g)
        BY <2>o, <2>w, <3>1, <3>2
      <3>4. Balanced(g)'
        BY <2>b, <3>2, <3>3 DEF Balanced
      <3> QED  BY <2>w, <3>1, <3>2, <3>4
    <2> QED  BY <2>1, <2>2, <2>3
  <1> QED  BY <1>1, <1>2, <1>3, <1>4 DEF Absent

(* A request that takes free slots becomes their owner, and it may join    *)
(* the line of one more gate that has no slot left; nobody else moves.     *)
LEMMA Taken ==
  ASSUME IInv, NEW r \in Requests, NEW taken \in SUBSET Gates,
         \A g \in taken : Free(g) /\ g \notin GivenBack(r),
         NEW line \in SUBSET Gates,
         \A g \in line : g \notin taken \union GivenBack(r) /\ ~ Free(g),
         Take(r, taken),
         heap' = [g \in Gates |-> IF g \in line THEN heap[g] \union {r} ELSE heap[g]],
         older' \in [Requests -> SUBSET Requests]
  PROVE  /\ GateTypeOK'
         /\ \A g \in Gates : Balanced(g)'
         /\ held'[r] = GivenBack(r) \union taken
         /\ \A g \in Gates : r \notin granted'[g]
         /\ \A s \in Requests \ {r} :
              /\ held'[s] = held[s]
              /\ \A g \in Gates :
                   s \in heap'[g] \union granted'[g] <=> s \in heap[g] \union granted[g]
  <1>t. TypeOK /\ GateTypeOK
    BY DEF IInv, TypeOK
  <1>r. GivenBack(r) \subseteq Gates /\ \A g \in Gates : g \in GivenBack(r) <=> r \in Owners(g)
    BY <1>t DEF GivenBack, GateTypeOK, Owners
  <1>d. /\ active' = [g \in Gates |-> IF g \in taken THEN active[g] + 1 ELSE active[g]]
        /\ granted' = [g \in Gates |-> granted[g] \ {r}]
        /\ held' = [held EXCEPT ![r] = GivenBack(r) \union taken]
    BY DEF Take
  <1>1. GateTypeOK'
    <2>1. active' \in [Gates -> Nat]
      BY <1>d, <1>t DEF GateTypeOK
    <2>2. heap' \in [Gates -> SUBSET Requests]
      BY <1>t DEF GateTypeOK
    <2>3. granted' \in [Gates -> SUBSET Requests]
      BY <1>d, <1>t DEF GateTypeOK
    <2>4. held' \in [Requests -> SUBSET Gates]
      BY <1>d, <1>t, <1>r DEF GateTypeOK
    <2> QED  BY <2>1, <2>2, <2>3, <2>4 DEF GateTypeOK
  <1>2. held'[r] = GivenBack(r) \union taken
    BY <1>d, <1>t DEF GateTypeOK
  <1>3. \A s \in Requests \ {r} : held'[s] = held[s]
    BY <1>d, <1>t DEF GateTypeOK
  <1>4. ASSUME NEW g \in Gates
        PROVE  /\ r \notin granted'[g]
               /\ \A s \in Requests \ {r} :
                    s \in heap'[g] \union granted'[g] <=> s \in heap[g] \union granted[g]
               /\ Balanced(g)'
    <2>b. Balanced(g)
      BY DEF IInv
    <2>f. active[g] \in Nat /\ Limit[g] \in Nat \ {0} /\ IsFiniteSet(Owners(g))
      BY <1>t, GateAssumption, OwnersFinite DEF GateTypeOK
    <2>g. granted'[g] = granted[g] \ {r}
      BY <1>d
    <2>h. heap'[g] = IF g \in line THEN heap[g] \union {r} ELSE heap[g]
      OBVIOUS
    <2>w. Owners(g) = Holders(g) \union granted[g] /\ Owners(g)' = Holders(g)' \union granted'[g]
      BY DEF Owners, Holders
    <2>o. Holders(g)' = IF g \in GivenBack(r) \union taken
                        THEN Holders(g) \union {r} ELSE Holders(g) \ {r}
      BY <1>2, <1>3 DEF Holders
    <2>1. CASE g \in taken
      <3>1. heap[g] = {} /\ active[g] < Limit[g] /\ g \notin line /\ r \notin Owners(g)
        BY <2>1, <1>r DEF Free
      <3>2. Owners(g)' = Owners(g) \union {r}
        BY <2>1, <2>g, <2>o, <2>w
      <3>3. Cardinality(Owners(g)') = Cardinality(Owners(g)) + 1
        BY <2>f, <3>1, <3>2, FS_AddElement
      <3>4. active'[g] = active[g] + 1 /\ heap'[g] = {}
        BY <1>d, <2>1, <2>h, <3>1
      <3>5. Balanced(g)'
        BY <2>1, <2>b, <2>f, <2>g, <2>o, <3>1, <3>3, <3>4 DEF Balanced
      <3> QED  BY <2>g, <2>h, <3>1, <3>5
    <2>2. CASE g \notin taken
      <3>1. active'[g] = active[g]
        BY <1>d, <2>2
      <3>2. Owners(g)' = Owners(g)
        BY <1>r, <2>2, <2>g, <2>o, <2>w
      <3>3. g \in line => active[g] = Limit[g] /\ r \notin Owners(g)
        BY <1>r, <2>b, <2>f DEF Free, Balanced
      <3>4. heap'[g] # {} => active[g] = Limit[g]
        BY <2>b, <2>h, <3>3 DEF Balanced
      <3>5. granted'[g] \intersect Holders(g)' = {}
        BY <2>b, <2>g, <2>o DEF Balanced
      <3>6. /\ heap'[g] \intersect granted'[g] = {}
            /\ heap'[g] \intersect Holders(g)' = {}
        <4>1. heap[g] \intersect Owners(g) = {}
          BY <2>b, <2>w DEF Balanced
        <4>2. heap'[g] \intersect Owners(g)' = {}
          BY <4>1, <2>h, <3>2, <3>3
        <4> QED  BY <4>2, <2>w
      <3>7. Balanced(g)'
        BY <2>b, <3>1, <3>2, <3>4, <3>5, <3>6 DEF Balanced
      <3> QED  BY <2>g, <2>h, <3>7
    <2> QED  BY <2>1, <2>2
  <1> QED  BY <1>1, <1>2, <1>3, <1>4
-----------------------------------------------------------------------------
(* The steps of a request.                                                 *)

(* A request that does not move stays where it is. *)
LEMMA StaysPlaced ==
  ASSUME NEW s \in Requests, Placed(s), pc'[s] = pc[s], held'[s] = held[s],
         \A g \in Gates :
           s \in heap'[g] \union granted'[g] <=> s \in heap[g] \union granted[g]
  PROVE  Placed(s)'
  <1>1. Absent(s) => Absent(s)'
    BY DEF Absent
  <1>2. \A i \in 1 .. Len(Path[s]) : InLine(s, i) => InLine(s, i)'
    BY DEF InLine
  <1> QED  BY <1>1, <1>2 DEF Placed

(* A request that has passed the gates up to number i passes the others or *)
(* gets in line at the first busy one.                                     *)
LEMMA Entered ==
  ASSUME IInv, NEW r \in Requests, NEW i \in 0 .. Len(Path[r]),
         GivenBack(r) = GatesBetween(r, 1, i),
         \A g \in Gates : r \notin heap[g],
         attempts[r] = 0,
         PassGates(r, i + 1) \/ WaitAtGate(r, i + 1),
         older' \in [Requests -> SUBSET Requests]
  PROVE  /\ GateTypeOK'
         /\ pc' \in [Requests -> {"idle", "waiting", "running", "backoff"}]
         /\ attempts' \in [Requests -> 0 .. MaxAttempts]
         /\ \A g \in Gates : Balanced(g)'
         /\ \A s \in Requests : Placed(s)' /\ Counted(s)'
  <1>t. TypeOK /\ GateTypeOK
    BY DEF IInv, TypeOK
  <1>p. Len(Path[r]) \in Nat \ {0} /\ \A j \in 1 .. Len(Path[r]) : Path[r][j] \in Gates
    BY PathType
  <1>d. DOMAIN Path[r] = 1 .. Len(Path[r])
    BY PathType
  <1>m. MaxAttempts \in Nat \ {0}
    BY ManagerAssumption
  <1>1. CASE PassGates(r, i + 1)
    <2> DEFINE taken == GatesBetween(r, i + 1, Len(Path[r]))
    <2>1. /\ \A g \in taken : Free(g)
          /\ Take(r, taken)
          /\ heap' = heap
          /\ pc' = [pc EXCEPT ![r] = "running"]
          /\ attempts' = [attempts EXCEPT ![r] = @ + 1]
      BY <1>1 DEF PassGates, StartAttempt
    <2>2. /\ taken \subseteq Gates
          /\ GivenBack(r) \union taken = GatesOf(r)
          /\ GivenBack(r) \intersect taken = {}
      <3>1. Len(Path[r]) \in i .. Len(Path[r])
        BY <1>p
      <3>2. /\ taken \subseteq Gates
            /\ GatesBetween(r, 1, i) \union taken = GatesBetween(r, 1, Len(Path[r]))
            /\ GatesBetween(r, 1, i) \intersect taken = {}
        BY <3>1, PathCut
      <3> QED  BY <3>2 DEF GatesOf
    <2> HIDE DEF taken
    <2>3. heap' = [g \in Gates |-> IF g \in {} THEN heap[g] \union {r} ELSE heap[g]]
      BY <2>1, <1>t DEF GateTypeOK
    <2>4. /\ GateTypeOK'
          /\ \A g \in Gates : Balanced(g)'
          /\ held'[r] = GatesOf(r)
          /\ \A g \in Gates : r \notin granted'[g]
          /\ \A s \in Requests \ {r} :
               /\ held'[s] = held[s]
               /\ \A g \in Gates :
                    s \in heap'[g] \union granted'[g] <=> s \in heap[g] \union granted[g]
      BY <2>1, <2>2, <2>3, Taken
    <2>5. pc'[r] = "running" /\ \A s \in Requests \ {r} : pc'[s] = pc[s]
      BY <2>1, <1>t DEF TypeOK
    <2>6. attempts'[r] = 1 /\ \A s \in Requests \ {r} : attempts'[s] = attempts[s]
      BY <2>1, <1>t DEF TypeOK
    <2>7. Placed(r)'
      BY <2>1, <2>4, <2>5 DEF Placed, Absent, GatesOf
    <2>8. \A s \in Requests \ {r} : Placed(s)'
      BY <2>4, <2>5, StaysPlaced DEF IInv
    <2>9. \A s \in Requests : Counted(s)'
      BY <2>5, <2>6 DEF IInv, Counted
    <2>10. /\ pc' \in [Requests -> {"idle", "waiting", "running", "backoff"}]
           /\ attempts' \in [Requests -> 0 .. MaxAttempts]
      BY <2>1, <1>t, <1>m DEF TypeOK
    <2> QED  BY <2>4, <2>7, <2>8, <2>9, <2>10
  <1>2. CASE WaitAtGate(r, i + 1)
    <2>0. PICK j \in 1 .. Len(Path[r]) :
            /\ FirstBusy(r, i + 1, j)
            /\ Take(r, GatesBetween(r, i + 1, j - 1))
            /\ Enqueue(r, Path[r][j])
      BY <1>2, <1>d DEF WaitAtGate
    <2> DEFINE taken == GatesBetween(r, i + 1, j - 1)
               line  == {Path[r][j]}
    <2>1. /\ \A g \in taken : Free(g)
          /\ Take(r, taken)
          /\ ~ Free(Path[r][j])
          /\ j \in i + 1 .. Len(Path[r])
          /\ heap' = [heap EXCEPT ![Path[r][j]] = @ \union {r}]
          /\ pc' = [pc EXCEPT ![r] = "waiting"]
          /\ attempts' = attempts
      BY <2>0, <1>2 DEF WaitAtGate, FirstBusy, Enqueue
    <2>2. /\ taken \subseteq Gates
          /\ GivenBack(r) \union taken = GatesBetween(r, 1, j - 1)
          /\ GivenBack(r) \intersect taken = {}
          /\ Path[r][j] \notin GatesBetween(r, 1, j - 1)
      <3>1. PICK k \in i .. Len(Path[r]) : k = j - 1 /\ k < Len(Path[r]) /\ k + 1 = j
        BY <2>1, <1>p
      <3>2. /\ GatesBetween(r, i + 1, k) \subseteq Gates
            /\ GatesBetween(r, 1, i) \union GatesBetween(r, i + 1, k) = GatesBetween(r, 1, k)
            /\ GatesBetween(r, 1, i) \intersect GatesBetween(r, i + 1, k) = {}
            /\ k < Len(Path[r]) => Path[r][k + 1] \notin GatesBetween(r, 1, k)
        BY PathCut
      <3>3. taken = GatesBetween(r, i + 1, k) /\ Path[r][k + 1] = Path[r][j]
        BY <3>1
      <3> HIDE DEF taken
      <3> QED  BY <3>1, <3>2, <3>3
    <2>3. line \subseteq Gates
      BY <1>p
    <2>4. heap' = [g \in Gates |-> IF g \in line THEN heap[g] \union {r} ELSE heap[g]]
      BY <2>1, <2>3, <1>t DEF GateTypeOK
    <2>5. \A g \in line : g \notin taken \union GivenBack(r) /\ ~ Free(g)
      BY <2>1, <2>2
    <2> HIDE DEF taken, line
    <2>6. /\ GateTypeOK'
          /\ \A g \in Gates : Balanced(g)'
          /\ held'[r] = GatesBetween(r, 1, j - 1)
          /\ \A g \in Gates : r \notin granted'[g]
          /\ \A s \in Requests \ {r} :
               /\ held'[s] = held[s]
               /\ \A g \in Gates :
                    s \in heap'[g] \union granted'[g] <=> s \in heap[g] \union granted[g]
      BY <2>1, <2>2, <2>3, <2>4, <2>5, Taken
    <2>7. pc'[r] = "waiting" /\ \A s \in Requests \ {r} : pc'[s] = pc[s]
      BY <2>1, <1>t DEF TypeOK
    <2>8. Placed(r)'
      <3>1. \A g \in Gates : r \in heap'[g] \union granted'[g] <=> g = Path[r][j]
        BY <2>4, <2>6 DEF line
      <3>2. InLine(r, j)'
        BY <2>6, <3>1 DEF InLine
      <3> QED  BY <2>7, <3>2 DEF Placed
    <2>9. \A s \in Requests \ {r} : Placed(s)'
      BY <2>6, <2>7, StaysPlaced DEF IInv
    <2>10. \A s \in Requests : Counted(s)'
      BY <2>1, <2>7 DEF IInv, Counted
    <2>11. /\ pc' \in [Requests -> {"idle", "waiting", "running", "backoff"}]
           /\ attempts' \in [Requests -> 0 .. MaxAttempts]
      BY <2>1, <1>t DEF TypeOK
    <2> QED  BY <2>6, <2>8, <2>9, <2>10, <2>11
  <1> QED  BY <1>1, <1>2

(* A request that departs and ends leaves everything in order. *)
LEMMA Left ==
  ASSUME IInv, NEW r \in Requests, Depart(r), End(r),
         breaker' \in [Resources -> Breaker],
         cooled' \in [Resources -> BOOLEAN]
  PROVE  IInv'
  <1>t. TypeOK
    BY DEF IInv
  <1>1. /\ GateTypeOK'
        /\ \A g \in Gates : Balanced(g)'
        /\ held'[r] = {} /\ Absent(r)'
        /\ \A s \in Requests \ {r} :
             /\ held'[s] = held[s]
             /\ \A g \in Gates :
                  s \in heap'[g] \union granted'[g] <=> s \in heap[g] \union granted[g]
    BY Departed
  <1>2. pc'[r] = "idle" /\ \A s \in Requests \ {r} : pc'[s] = pc[s]
    BY <1>t DEF End, TypeOK
  <1>3. attempts'[r] = 0 /\ \A s \in Requests \ {r} : attempts'[s] = attempts[s]
    BY <1>t DEF End, TypeOK
  <1>4. TypeOK'
    BY <1>1, <1>t, ManagerAssumption DEF End, TypeOK
  <1>5. Placed(r)'
    BY <1>1, <1>2 DEF Placed
  <1>6. \A s \in Requests \ {r} : Placed(s)'
    BY <1>1, <1>2, StaysPlaced DEF IInv
  <1>7. \A s \in Requests : Counted(s)'
    BY <1>2, <1>3 DEF IInv, Counted
  <1> QED  BY <1>1, <1>4, <1>5, <1>6, <1>7 DEF IInv

(* A step that leaves the gates alone and the request where it is. *)
LEMMA Unmoved ==
  ASSUME IInv, UNCHANGED gateVars, TypeOK',
         \A s \in Requests :
           /\ pc'[s] = pc[s] \/ {pc[s], pc'[s]} = {"running", "backoff"}
           /\ Counted(s)'
  PROVE  IInv'
  <1>1. \A g \in Gates : Balanced(g)'
    BY DEF IInv, Balanced, gateVars, Holders, Owners
  <1>2. ASSUME NEW s \in Requests PROVE Placed(s)'
    <2>1. CASE pc'[s] = pc[s]
      BY <2>1, StaysPlaced DEF IInv, gateVars
    <2>2. CASE {pc[s], pc'[s]} = {"running", "backoff"}
      BY <2>2 DEF IInv, Placed, Absent, gateVars
    <2> QED  BY <2>1, <2>2
  <1> QED  BY <1>1, <1>2 DEF IInv

LEMMA InitIInv == Init => IInv
  <1> SUFFICES ASSUME Init PROVE IInv
    OBVIOUS
  <1>1. TypeOK
    BY BreakerOperations, ManagerAssumption
       DEF Init, GateInit, TypeOK, GateTypeOK, Closed, Counters, Breaker, CircuitState
  <1>2. \A r \in Requests : Placed(r) /\ Counted(r)
    BY DEF Init, GateInit, Placed, Counted, Absent
  <1>3. ASSUME NEW g \in Gates PROVE Balanced(g)
    <2>1. Owners(g) = {} /\ Holders(g) = {}
      BY DEF Init, GateInit, Owners, Holders
    <2> QED
      BY <2>1, FS_EmptySet, GateAssumption DEF Init, GateInit, Balanced
  <1> QED  BY <1>1, <1>2, <1>3 DEF IInv

(* A waiter that was handed a slot owns the gates of its path up to there. *)
LEMMA GrantedOwns ==
  ASSUME IInv, NEW r \in Requests, pc[r] = "waiting",
         NEW i \in 1 .. Len(Path[r]), r \in granted[Path[r][i]]
  PROVE  /\ GivenBack(r) = GatesBetween(r, 1, i)
         /\ \A g \in Gates : r \notin heap[g]
  <1>1. PICK k \in 1 .. Len(Path[r]) : InLine(r, k)
    BY DEF IInv, Placed
  <1>2. Path[r][i] \in Gates
    BY PathType
  <1>3. Path[r][i] = Path[r][k]
    BY <1>1, <1>2 DEF InLine
  <1>4. i = k
    BY <1>3, PathType
  <1>5. /\ held[r] = GatesBetween(r, 1, i - 1)
        /\ \A g \in Gates : r \in heap[g] \union granted[g] <=> g = Path[r][i]
    BY <1>1, <1>4 DEF InLine
  <1>6. r \notin heap[Path[r][i]]
    BY <1>2 DEF IInv, Balanced
  <1>7. \A g \in Gates : r \notin heap[g]
    BY <1>5, <1>6
  <1>8. {g \in Gates : r \in granted[g]} = {Path[r][i]}
    BY <1>2, <1>5
  <1>9. GatesBetween(r, 1, i - 1) \union {Path[r][i]} = GatesBetween(r, 1, i)
    BY PathType, PathCut
  <1> QED  BY <1>5, <1>7, <1>8, <1>9 DEF GivenBack

LEMMA NextIInv == IInv /\ [Next]_vars => IInv'
  <1> SUFFICES ASSUME IInv, [Next]_vars PROVE IInv'
    OBVIOUS
  <1>t. TypeOK /\ GateTypeOK
    BY DEF IInv, TypeOK
  <1>m. MaxAttempts \in Nat \ {0}
    BY ManagerAssumption
  <1>1. ASSUME NEW r \in Requests, Begin(r) PROVE IInv'
    <2>1. /\ GivenBack(r) = GatesBetween(r, 1, 0)
          /\ \A g \in Gates : r \notin heap[g]
          /\ attempts[r] = 0
      BY <1>1 DEF Begin, IInv, Placed, Absent, Counted, GivenBack, GatesBetween
    <2>2. older' \in [Requests -> SUBSET Requests]
      BY <1>1, <1>t DEF Begin, GateTypeOK, UnderWay
    <2>3. PassGates(r, 0 + 1) \/ WaitAtGate(r, 0 + 1)
      BY <1>1 DEF Begin
    <2>4. 0 \in 0 .. Len(Path[r])
      BY PathType
    <2>5. /\ GateTypeOK'
          /\ pc' \in [Requests -> {"idle", "waiting", "running", "backoff"}]
          /\ attempts' \in [Requests -> 0 .. MaxAttempts]
          /\ \A g \in Gates : Balanced(g)'
          /\ \A s \in Requests : Placed(s)' /\ Counted(s)'
      BY <2>1, <2>2, <2>3, <2>4, Entered
    <2>6. breaker' \in [Resources -> Breaker]
      <3>1. SetBreaker(r, OnRequestStarted(BreakerOf(r))) \/ SetBreaker(r, BreakerOf(r))
        BY <1>1 DEF Begin, PassGates, StartAttempt
      <3> QED  BY <1>t, <3>1, BreakerSet
    <2> QED  BY <1>1, <1>t, <2>5, <2>6 DEF Begin, TypeOK, IInv
  <1>2. ASSUME NEW r \in Requests, Reject(r) PROVE IInv'
    <2>1. breaker' \in [Resources -> Breaker]
      BY <1>2, <1>t, BreakerSet DEF Reject
    <2>2. TypeOK'
      BY <1>2, <1>t, <2>1 DEF Reject, TypeOK, GateTypeOK, gateVars
    <2> QED  BY <1>2, <2>2, Unmoved DEF Reject, IInv, Counted
  <1>3. ASSUME NEW r \in Requests, NEW kind \in {"timeout", "cancel"}, Interrupt(r, kind)
        PROVE IInv'
    <2>1. TypeOK'
      BY <1>3, <1>t DEF Interrupt, TypeOK, GateTypeOK, gateVars
    <2> QED  BY <1>3, <2>1, Unmoved DEF Interrupt, IInv, Counted
  <1>4. ASSUME NEW r \in Requests, Resume(r) PROVE IInv'
    <2>1. PICK i \in 1 .. Len(Path[r]) :
            /\ r \in granted[Path[r][i]]
            /\ \/ Depart(r) /\ End(r) /\ UNCHANGED breaker
               \/ /\ \/ PassGates(r, i + 1)
                     \/ WaitAtGate(r, i + 1) /\ UNCHANGED breaker
                  /\ UNCHANGED <<older, interrupt>>
      BY <1>4, PathType DEF Resume
    <2>2. pc[r] = "waiting" /\ UNCHANGED cooled
      BY <1>4 DEF Resume
    <2>3. CASE Depart(r) /\ End(r) /\ UNCHANGED breaker
      BY <1>t, <2>2, <2>3, Left DEF TypeOK
    <2>4. CASE /\ \/ PassGates(r, i + 1)
                  \/ WaitAtGate(r, i + 1) /\ UNCHANGED breaker
               /\ UNCHANGED <<older, interrupt>>
      <3>1. /\ GivenBack(r) = GatesBetween(r, 1, i)
            /\ \A g \in Gates : r \notin heap[g]
        BY <2>1, <2>2, GrantedOwns
      <3>2. i \in 0 .. Len(Path[r])
        BY PathType
      <3>3. attempts[r] = 0 /\ older' \in [Requests -> SUBSET Requests]
        BY <2>2, <2>4, <1>t DEF IInv, Counted, GateTypeOK
      <3>4. /\ GateTypeOK'
            /\ pc' \in [Requests -> {"idle", "waiting", "running", "backoff"}]
            /\ attempts' \in [Requests -> 0 .. MaxAttempts]
            /\ \A g \in Gates : Balanced(g)'
            /\ \A s \in Requests : Placed(s)' /\ Counted(s)'
        BY <2>4, <3>1, <3>2, <3>3, Entered
      <3>5. breaker' \in [Resources -> Breaker]
        <4>1. SetBreaker(r, OnRequestStarted(BreakerOf(r))) \/ UNCHANGED breaker
          BY <2>4 DEF PassGates, StartAttempt
        <4> QED  BY <1>t, <4>1, BreakerSet DEF TypeOK
      <3> QED  BY <1>t, <2>2, <2>4, <3>4, <3>5 DEF TypeOK, IInv
    <2> QED  BY <2>1, <2>3, <2>4
  <1>5. ASSUME NEW r \in Requests, GiveUp(r) PROVE IInv'
    BY <1>5, <1>t, Left DEF GiveUp, TypeOK
  <1>6. ASSUME NEW r \in Requests, Succeed(r) PROVE IInv'
    <2>1. breaker' \in [Resources -> Breaker]
      BY <1>6, <1>t, BreakerSet DEF Succeed
    <2> QED  BY <1>6, <1>t, <2>1, Left DEF Succeed, TypeOK
  <1>7. ASSUME NEW r \in Requests, Fail(r) PROVE IInv'
    <2>1. SetBreaker(r, OnFailure(BreakerOf(r)))
      BY <1>7 DEF Fail
    <2>2. breaker' \in [Resources -> Breaker]
      BY <1>t, <2>1, BreakerSet
    <2>3. cooled' \in [Resources -> BOOLEAN]
      <3>1. ResourceOf[r] \in Resources
        BY ManagerAssumption
      <3>2. PICK flag \in BOOLEAN : cooled' = [cooled EXCEPT ![ResourceOf[r]] = flag]
        BY <1>7, <1>t, <3>1 DEF Fail, TypeOK
      <3> QED  BY <1>t, <3>2 DEF TypeOK
    <2>4. CASE Depart(r) /\ End(r)
      BY <2>2, <2>3, <2>4, Left
    <2>5. CASE /\ attempts[r] < MaxAttempts
               /\ pc' = [pc EXCEPT ![r] = "backoff"]
               /\ UNCHANGED <<gateVars, interrupt, attempts>>
      <3>1. TypeOK'
        BY <1>t, <2>2, <2>3, <2>5 DEF TypeOK, GateTypeOK, gateVars
      <3>2. pc[r] = "running" /\ pc'[r] = "backoff"
            /\ \A s \in Requests \ {r} : pc'[s] = pc[s]
        BY <1>7, <1>t, <2>5 DEF Fail, TypeOK
      <3>3. \A s \in Requests : Counted(s)'
        BY <2>5, <3>2 DEF IInv, Counted
      <3> QED  BY <2>5, <3>1, <3>2, <3>3, Unmoved
    <2> QED  BY <1>7, <2>4, <2>5 DEF Fail
  <1>8. ASSUME NEW r \in Requests, Retry(r) PROVE IInv'
    <2>1. breaker' \in [Resources -> Breaker]
      BY <1>8, <1>t, BreakerSet DEF Retry, StartAttempt
    <2>2. pc[r] = "backoff" /\ pc'[r] = "running"
          /\ \A s \in Requests \ {r} : pc'[s] = pc[s]
      BY <1>8, <1>t DEF Retry, StartAttempt, TypeOK
    <2>3. attempts[r] < MaxAttempts
          /\ attempts' = [attempts EXCEPT ![r] = @ + 1]
      BY <1>8, <2>2 DEF Retry, StartAttempt, IInv, Counted
    <2>4. attempts' \in [Requests -> 0 .. MaxAttempts]
      BY <1>t, <1>m, <2>3 DEF TypeOK
    <2>5. TypeOK'
      BY <1>8, <1>t, <2>1, <2>4 DEF Retry, StartAttempt, TypeOK, GateTypeOK, gateVars
    <2>6. \A s \in Requests : Counted(s)'
      BY <1>t, <2>2, <2>3 DEF IInv, Counted, TypeOK
    <2> QED  BY <1>8, <2>2, <2>5, <2>6, Unmoved DEF Retry
  <1>9. ASSUME NEW r \in Requests, CancelAttempt(r) PROVE IInv'
    BY <1>9, <1>t, Left DEF CancelAttempt, TypeOK
  <1>10. ASSUME NEW x \in Resources, CoolDown(x) PROVE IInv'
    <2>1. TypeOK'
      BY <1>10, <1>t DEF CoolDown, TypeOK, GateTypeOK, gateVars
    <2> QED  BY <1>10, <2>1, Unmoved DEF CoolDown, IInv, Counted
  <1>11. CASE UNCHANGED vars
    <2>1. TypeOK'
      BY <1>11, <1>t DEF vars, TypeOK, GateTypeOK, gateVars
    <2> QED  BY <1>11, <2>1, Unmoved DEF vars, IInv, Counted
  <1> QED
    BY <1>1, <1>2, <1>3, <1>4, <1>5, <1>6, <1>7, <1>8, <1>9, <1>10, <1>11 DEF Next
-----------------------------------------------------------------------------
(* The inductive invariant holds in every reachable state.                 *)
THEOREM SlotInvariantHolds == Spec => []IInv
  BY InitIInv, NextIInv, PTL DEF Spec

(* Type correctness: in particular no request is attempted more often than *)
(* max_attempts.                                                           *)
THEOREM ManagerTypes == Spec => []TypeOK
  <1>1. IInv => TypeOK
    BY DEF IInv
  <1> QED  BY <1>1, SlotInvariantHolds, PTL

(* PriorityGate counts exactly the slots that somebody has or is about to  *)
(* collect, so no race of release, time-out and cancellation loses one.    *)
THEOREM SlotsAreConserved == Spec => []SlotsConserved
  <1>1. IInv => SlotsConserved
    BY DEF IInv, Balanced, SlotsConserved, Holders, TypeOK, GateTypeOK
  <1> QED  BY <1>1, SlotInvariantHolds, PTL

(* The requests being attempted never exceed the limit of a gate.          *)
THEOREM ConcurrencyIsBounded == Spec => []ConcurrencyBounded
  <1>1. ASSUME IInv, NEW g \in Gates
        PROVE  Cardinality({r \in Attempting : g \in GatesBetween(r, 1, Len(Path[r]))}) <= Limit[g]
    <2> DEFINE served == {r \in Attempting : g \in GatesBetween(r, 1, Len(Path[r]))}
    <2>1. served \subseteq Owners(g)
      BY <1>1 DEF IInv, Placed, Attempting, GatesOf, Owners
    <2>2. IsFiniteSet(Owners(g)) /\ IsFiniteSet(Requests)
      BY <1>1, OwnersFinite, GateAssumption DEF IInv
    <2>3. Cardinality(served) <= Cardinality(Owners(g))
      BY <2>1, <2>2, FS_Subset
    <2>4. active[g] = Cardinality(Owners(g)) /\ active[g] <= Limit[g]
      BY <1>1 DEF IInv, Balanced
    <2>5. Cardinality(served) \in Nat /\ active[g] \in Nat /\ Limit[g] \in Nat
      BY <1>1, <2>1, <2>2, FS_Subset, FS_CardinalityType, GateAssumption
         DEF IInv, TypeOK, GateTypeOK
    <2> QED  BY <2>3, <2>4, <2>5
  <1>2. IInv => ConcurrencyBounded
    BY <1>1 DEF ConcurrencyBounded
  <1> QED  BY <1>2, SlotInvariantHolds, PTL

(* Nobody waits for a slot that is free: no wake-up is lost.               *)
THEOREM NoSlotIdles == Spec => []NoIdleSlot
  <1>1. IInv => NoIdleSlot
    BY DEF IInv, Balanced, NoIdleSlot
  <1> QED  BY <1>1, SlotInvariantHolds, PTL
-----------------------------------------------------------------------------
(* A slot that a departing request gives back goes to a foremost waiter.   *)
LEMMA HeirIsForemost ==
  ASSUME IInv, NEW q \in Requests, Depart(q), NEW g \in Gates,
         NEW r \in heap[g], NEW s \in Requests, s \notin Owners(g), s \in Owners(g)'
  PROVE  ~ Before(r, s)'
  <1>t. GateTypeOK
    BY DEF IInv, TypeOK
  <1>1. PICK heir \in Heirs(GivenBack(q)) :
          /\ granted' = [x \in Gates |->
                           IF x \in GivenBack(q) /\ heir[x] # Nobody
                           THEN (granted[x] \ {q}) \union {heir[x]}
                           ELSE granted[x] \ {q}]
          /\ held' = [held EXCEPT ![q] = {}]
          /\ older' = [x \in Requests |-> IF x = q THEN {} ELSE older[x] \ {q}]
    BY DEF Depart
  <1>2. s \notin {x \in Requests : g \in held'[x]}
    BY <1>1, <1>t DEF Owners, GateTypeOK
  <1>3. s \in granted'[g] /\ s \notin granted[g]
    BY <1>2 DEF Owners
  <1>4. g \in GivenBack(q) /\ s = heir[g]
    BY <1>1, <1>3
  <1>5. s \in Foremost(g)
    BY <1>4 DEF Heirs
  <1>6. ~ Before(r, s)
    BY <1>5 DEF Foremost
  <1>7. older'[s] \subseteq older[s]
    BY <1>1
  <1> QED  BY <1>6, <1>7 DEF Before

(* A step that only takes free slots passes nobody, for nobody waits there.*)
LEMMA TakenFromNobody ==
  ASSUME IInv, NEW q \in Requests, NEW taken, \A g \in taken : Free(g),
         Take(q, taken), NEW g \in Gates, NEW r \in heap[g],
         NEW s \in Requests, s \notin Owners(g)
  PROVE  s \notin Owners(g)'
  <1>t. GateTypeOK
    BY DEF IInv, TypeOK
  <1>1. g \notin taken
    BY DEF Free
  <1>2. granted'[g] \subseteq granted[g]
    BY DEF Take
  <1>3. g \in held'[s] => g \in held[s] \/ s \in granted[g]
    BY <1>1, <1>t DEF Take, GivenBack, GateTypeOK
  <1> QED  BY <1>2, <1>3 DEF Owners

(* A slot goes to the foremost waiter, and no newcomer takes it first.     *)
THEOREM NobodyOvertakes == Spec => NoOvertaking
  <1>1. ASSUME IInv, [Next]_vars, NEW g \in Gates, NEW r \in Requests, NEW s \in Requests,
               r \in heap[g], s \notin Owners(g), s \in Owners(g)'
        PROVE  ~ Before(r, s)'
    <2>1. ASSUME NEW q \in Requests, Depart(q) PROVE ~ Before(r, s)'
      BY <1>1, <2>1, HeirIsForemost
    <2>2. ASSUME NEW q \in Requests, NEW i, PassGates(q, i) \/ WaitAtGate(q, i) PROVE FALSE
      <3>1. CASE PassGates(q, i)
        BY <1>1, <3>1, TakenFromNobody DEF PassGates
      <3>2. CASE WaitAtGate(q, i)
        BY <1>1, <3>2, TakenFromNobody DEF WaitAtGate, FirstBusy
      <3> QED  BY <2>2, <3>1, <3>2
    <2>3. CASE UNCHANGED gateVars
      BY <1>1, <2>3 DEF gateVars, Owners
    <2>4. \/ UNCHANGED gateVars
          \/ \E q \in Requests : Depart(q) \/ \E i : PassGates(q, i) \/ WaitAtGate(q, i)
      BY <1>1 DEF Next, vars, Begin, Reject, Interrupt, Resume, GiveUp, Succeed, Fail,
                  Retry, CancelAttempt, CoolDown
    <2> QED  BY <2>1, <2>2, <2>3, <2>4
  <1>2. IInv /\ [Next]_vars =>
          [\A g \in Gates : \A r, s \in Requests :
             (r \in heap[g] /\ r \in heap'[g] /\ s \notin Owners(g) /\ s \in Owners(g)')
               => ~ Before(r, s)']_vars
    BY <1>1
  <1> QED  BY <1>2, SlotInvariantHolds, PTL DEF Spec, NoOvertaking
-----------------------------------------------------------------------------
(* Nobody waits in a circle.  The paths of the application name the gates  *)
(* from the widest to the narrowest: there is an order of the gates that   *)
(* every path follows.                                                     *)
Ascending(level) ==
  \A r \in Requests : \A i, j \in 1 .. Len(Path[r]) :
    i < j => level[Path[r][i]] < level[Path[r][j]]

PathsAscend == \E level \in [Gates -> Nat] : Ascending(level)

(* It is attempted, waits for a timer only, or is about to resume with the *)
(* slot it was handed.                                                     *)
CanMove(r) == pc[r] \in {"running", "backoff"} \/ \E g \in Gates : r \in granted[g]

SomebodyMoves == UnderWay # {} => \E r \in Requests : CanMove(r)

(* A finite set of numbers that is not empty has a greatest one: otherwise *)
(* a smallest of its subsets without one would lose one more element.      *)
LEMMA GreatestExists ==
  ASSUME NEW S \in SUBSET Nat, IsFiniteSet(S), S # {}
  PROVE  \E m \in S : \A n \in S : n <= m
  <1> DEFINE Endless(T) == T # {} /\ \A m \in T : \E n \in T : ~ (n <= m)
             Bad == {T \in SUBSET S : Endless(T)}
  <1> SUFFICES ASSUME Bad # {} PROVE FALSE
    OBVIOUS
  <1>1. IsWellFoundedOn(StrictSubsetOrdering(S), FiniteSubsetsOf(S))
    BY FS_StrictSubsetOrderingWellFounded
  <1>2. Bad \subseteq FiniteSubsetsOf(S)
    BY FS_Subset DEF FiniteSubsetsOf
  <1>3. PICK T \in Bad : \A U \in Bad : ~ (<<U, T>> \in StrictSubsetOrdering(S))
    BY <1>1, <1>2, WFMin
  <1>4. PICK x \in T : TRUE
    OBVIOUS
  <1> DEFINE U == T \ {x}
  <1>5. U \notin Bad
    BY <1>3, <1>4 DEF StrictSubsetOrdering
  <1>6. PICK y \in T : ~ (y <= x)
    BY <1>3, <1>4
  <1>7. x \in Nat /\ y \in Nat /\ y \in U /\ \A z \in T : z \in Nat
    BY <1>3, <1>4, <1>6
  <1>8. PICK m \in U : \A n \in U : n <= m
    BY <1>3, <1>5, <1>7
  <1>9. \A n \in T : n <= m
    BY <1>6, <1>7, <1>8
  <1> QED  BY <1>3, <1>8, <1>9

(* ResourceManager._acquire: every request that is under way and waits is  *)
(* kept waiting, in the end, by one that moves, so that the nested gates   *)
(* need no time-out to be passed.                                          *)
THEOREM NobodyWaitsInACircle == PathsAscend => (Spec => []SomebodyMoves)
  <1> SUFFICES ASSUME PathsAscend PROVE Spec => []SomebodyMoves
    OBVIOUS
  <1>1. ASSUME IInv, \A r \in Requests : ~ CanMove(r)
        PROVE  UnderWay = {}
    <2>1. PICK level \in [Gates -> Nat] : Ascending(level)
      BY DEF PathsAscend
    <2> DEFINE Stuck == {r \in Requests : \E g \in Gates : r \in heap[g]}
               At(r) == CHOOSE g \in Gates : r \in heap[g]
               Levels == {level[At(r)] : r \in Stuck}
    <2>2. ASSUME NEW r \in Requests, pc[r] # "idle"
          PROVE  \E i \in 1 .. Len(Path[r]) : InLine(r, i) /\ r \in heap[Path[r][i]]
      <3>1. pc[r] = "waiting" /\ \A g \in Gates : r \notin granted[g]
        BY <1>1, <2>2 DEF CanMove, IInv, TypeOK
      <3>2. PICK i \in 1 .. Len(Path[r]) : InLine(r, i)
        BY <1>1, <3>1 DEF IInv, Placed
      <3>3. Path[r][i] \in Gates
        BY PathType
      <3> QED  BY <3>1, <3>2, <3>3 DEF InLine
    <2>3. ASSUME NEW r \in Stuck
          PROVE  /\ At(r) \in Gates /\ r \in heap[At(r)]
                 /\ \E i \in 1 .. Len(Path[r]) : InLine(r, i) /\ At(r) = Path[r][i]
      <3>1. At(r) \in Gates /\ r \in heap[At(r)]
        OBVIOUS
      <3>2. pc[r] # "idle"
        BY <1>1, <3>1 DEF IInv, Placed, Absent
      <3>3. PICK i \in 1 .. Len(Path[r]) : InLine(r, i)
        BY <2>2, <3>2
      <3> QED  BY <3>1, <3>3 DEF InLine
    <2>4. IsFiniteSet(Levels) /\ Levels \subseteq Nat
      <3>1. IsFiniteSet(Stuck)
        BY FS_Subset, GateAssumption
      <3>2. [r \in Stuck |-> level[At(r)]] \in Surjection(Stuck, Levels)
        BY DEF Surjection
      <3>3. IsFiniteSet(Levels)
        BY <3>1, <3>2, FS_Surjection
      <3> QED  BY <2>3, <3>3
    <2>5. ASSUME NEW r \in Stuck PROVE \E q \in Stuck : level[At(q)] > level[At(r)]
      <3>1. At(r) \in Gates /\ heap[At(r)] # {}
        BY <2>3
      <3>2. Cardinality(Owners(At(r))) # 0
        BY <1>1, <3>1, GateAssumption DEF IInv, Balanced
      <3>3. PICK q \in Owners(At(r)) : TRUE
        BY <3>2, FS_EmptySet
      <3>4. q \in Requests /\ At(r) \in held[q]
        BY <1>1, <3>1, <3>3 DEF Owners, IInv, TypeOK, GateTypeOK, CanMove
      <3>5. pc[q] # "idle"
        BY <1>1, <3>4 DEF IInv, Placed
      <3>6. PICK i \in 1 .. Len(Path[q]) : InLine(q, i) /\ q \in heap[Path[q][i]]
        BY <2>2, <3>4, <3>5
      <3>7. PICK k \in 1 .. i - 1 : At(r) = Path[q][k]
        BY <3>4, <3>6 DEF InLine, GatesBetween
      <3>8. Path[q][i] \in Gates /\ k \in 1 .. Len(Path[q]) /\ k < i
        BY <3>4, <3>6, <3>7, PathType
      <3>9. level[At(r)] < level[Path[q][i]]
        BY <2>1, <3>4, <3>7, <3>8 DEF Ascending
      <3>10. q \in Stuck
        BY <3>4, <3>6, <3>8
      <3>11. At(q) = Path[q][i]
        BY <2>3, <3>6, <3>8, <3>10 DEF InLine
      <3> QED  BY <2>1, <3>1, <3>8, <3>9, <3>10, <3>11
    <2>6. Stuck = {}
      <3> SUFFICES ASSUME Levels # {} PROVE FALSE
        OBVIOUS
      <3>1. PICK m \in Levels : \A n \in Levels : n <= m
        BY <2>4, GreatestExists
      <3>2. PICK r \in Stuck : m = level[At(r)]
        BY <3>1
      <3>3. PICK q \in Stuck : level[At(q)] > m
        BY <2>5, <3>2
      <3>4. level[At(q)] \in Levels
        OBVIOUS
      <3>5. level[At(q)] <= m /\ m \in Nat /\ level[At(q)] \in Nat
        BY <2>4, <3>1, <3>4
      <3> HIDE DEF At
      <3> QED  BY <3>3, <3>5
    <2>7. ASSUME NEW r \in UnderWay PROVE FALSE
      <3>1. r \in Requests /\ pc[r] # "idle"
        BY DEF UnderWay
      <3>2. \E i \in 1 .. Len(Path[r]) : r \in heap[Path[r][i]] /\ Path[r][i] \in Gates
        BY <2>2, <3>1, PathType
      <3> QED  BY <2>6, <3>1, <3>2
    <2> QED  BY <2>7
  <1>2. IInv => SomebodyMoves
    BY <1>1 DEF SomebodyMoves
  <1> QED  BY <1>2, SlotInvariantHolds, PTL
-----------------------------------------------------------------------------
(* The circuits.  A failure that comes late, after the circuit has opened, *)
(* counts towards the next opening, and a success that comes late counts   *)
(* as a test; neither closes a circuit before its time.                    *)
BreakerKept(b) ==
  /\ b.failures < FailureThreshold
  /\ b.state = "half_open" => b.successes < SuccessThreshold
  /\ b.state # "half_open" => b.successes = 0 /\ b.calls = 0

BreakersKept == \A x \in Resources : BreakerKept(breaker[x])

LEMMA OperationsKeep ==
  ASSUME NEW b \in Breaker, BreakerKept(b), NEW flag \in BOOLEAN
  PROVE  /\ BreakerKept(Seen(b, flag)) /\ BreakerKept(OnRequestStarted(b))
         /\ BreakerKept(OnSuccess(b)) /\ BreakerKept(OnFailure(b))
  <1> USE BreakerAssumption DEF BreakerKept, Breaker, CircuitState
  <1>1. BreakerKept(Closed) /\ BreakerKept(Open)
    BY DEF Closed, Open, Counters
  <1>2. BreakerKept(Seen(b, flag))
    BY DEF Seen
  <1>3. BreakerKept(OnRequestStarted(b))
    BY DEF OnRequestStarted
  <1>4. BreakerKept(OnSuccess(b))
    <2>1. CASE b.state # "half_open"
      BY <2>1 DEF OnSuccess
    <2>2. CASE b.state = "half_open" /\ b.successes + 1 >= SuccessThreshold
      BY <1>1, <2>2 DEF OnSuccess
    <2>3. CASE b.state = "half_open" /\ ~ (b.successes + 1 >= SuccessThreshold)
      BY <2>3 DEF OnSuccess
    <2> QED  BY <2>1, <2>2, <2>3
  <1>5. BreakerKept(OnFailure(b))
    BY <1>1 DEF OnFailure
  <1> QED  BY <1>2, <1>3, <1>4, <1>5

(* What a step does to the circuit of a resource.                          *)
SeenAt(x) == Seen(breaker[x], cooled[x])

Untouched(x) ==
  /\ breaker'[x] = breaker[x]
  /\ cooled'[x] = cooled[x] \/ breaker[x].state = "open"

LookedAt(x) ==
  /\ breaker'[x] \in {SeenAt(x), OnRequestStarted(SeenAt(x))}
  /\ cooled'[x] = cooled[x]

Passed(x) == breaker'[x] = OnSuccess(SeenAt(x)) /\ cooled'[x] = cooled[x]

Failed(x) ==
  /\ breaker'[x] = OnFailure(SeenAt(x))
  /\ breaker'[x].state = "open" => ~ cooled'[x]
  /\ breaker'[x].state # "open" => cooled'[x] = cooled[x]

(* An attempt on the resource that was on the wire has ended.              *)
Ended(x) ==
  \E r \in Requests : ResourceOf[r] = x /\ pc[r] = "running" /\ pc'[r] # "running"

LEMMA CircuitStep ==
  ASSUME TypeOK, [Next]_vars, NEW x \in Resources
  PROVE  \/ Untouched(x) \/ LookedAt(x)
         \/ Ended(x) /\ (Passed(x) \/ Failed(x))
  <1>t. /\ breaker \in [Resources -> Breaker] /\ cooled \in [Resources -> BOOLEAN]
        /\ pc \in [Requests -> {"idle", "waiting", "running", "backoff"}]
    BY DEF TypeOK
  <1>r. \A r \in Requests : ResourceOf[r] \in Resources
    BY ManagerAssumption
  <1>1. ASSUME NEW r \in Requests, NEW b, SetBreaker(r, b), UNCHANGED cooled,
               b \in {BreakerOf(r), OnRequestStarted(BreakerOf(r))}
        PROVE  Untouched(x) \/ LookedAt(x)
    BY <1>t, <1>r, <1>1 DEF SetBreaker, BreakerOf, Untouched, LookedAt, SeenAt
  <1>2. ASSUME UNCHANGED breaker, UNCHANGED cooled PROVE Untouched(x)
    BY <1>2 DEF Untouched
  <1>3. ASSUME NEW r \in Requests, Succeed(r)
        PROVE  Untouched(x) \/ (Ended(x) /\ Passed(x))
    <2>1. /\ breaker' = [breaker EXCEPT ![ResourceOf[r]] = OnSuccess(BreakerOf(r))]
          /\ cooled' = cooled /\ pc[r] = "running" /\ pc' = [pc EXCEPT ![r] = "idle"]
      BY <1>3 DEF Succeed, SetBreaker, End
    <2> QED  BY <1>t, <1>r, <2>1 DEF Untouched, Ended, Passed, SeenAt, BreakerOf
  <1>4. ASSUME NEW r \in Requests, Fail(r)
        PROVE  Untouched(x) \/ (Ended(x) /\ Failed(x))
    <2>1. PICK b : /\ b = OnFailure(BreakerOf(r))
                   /\ breaker' = [breaker EXCEPT ![ResourceOf[r]] = b]
                   /\ cooled' = [cooled EXCEPT ![ResourceOf[r]] = @ /\ b.state # "open"]
      BY <1>4 DEF Fail, SetBreaker
    <2>2. pc[r] = "running" /\ pc'[r] # "running"
      BY <1>t, <1>4 DEF Fail, End
    <2>3. CASE ResourceOf[r] = x
      <3>1. breaker'[x] = b /\ b = OnFailure(SeenAt(x))
        BY <1>t, <2>1, <2>3 DEF SeenAt, BreakerOf
      <3>2. cooled'[x] <=> (cooled[x] /\ b.state # "open")
        BY <1>t, <2>1, <2>3
      <3>3. cooled'[x] \in BOOLEAN
        BY <1>t, <2>1, <2>3
      <3> QED  BY <1>t, <2>2, <2>3, <3>1, <3>2, <3>3 DEF Ended, Failed
    <2>4. CASE ResourceOf[r] # x
      BY <1>t, <2>1, <2>4 DEF Untouched
    <2> QED  BY <2>3, <2>4
  <1>5. ASSUME NEW y \in Resources, CoolDown(y) PROVE Untouched(x)
    BY <1>t, <1>5 DEF CoolDown, Untouched
  <1>6. ASSUME NEW r \in Requests, NEW i, PassGates(r, i), UNCHANGED cooled
        PROVE  Untouched(x) \/ LookedAt(x)
    BY <1>1, <1>6 DEF PassGates, StartAttempt
  <1>7. CASE UNCHANGED vars
    BY <1>2, <1>7 DEF vars
  <1>8. ASSUME NEW r \in Requests, Begin(r) PROVE Untouched(x) \/ LookedAt(x)
    BY <1>1, <1>6, <1>8 DEF Begin
  <1>9. ASSUME NEW r \in Requests, Reject(r) \/ Retry(r) PROVE Untouched(x) \/ LookedAt(x)
    BY <1>1, <1>9 DEF Reject, Retry, StartAttempt
  <1>10. ASSUME NEW r \in Requests, Resume(r) PROVE Untouched(x) \/ LookedAt(x)
    BY <1>2, <1>6, <1>10 DEF Resume
  <1>11. ASSUME NEW r \in Requests,
                \/ Interrupt(r, "timeout") \/ Interrupt(r, "cancel")
                \/ GiveUp(r) \/ CancelAttempt(r)
         PROVE  Untouched(x)
    BY <1>2, <1>11 DEF Interrupt, GiveUp, CancelAttempt
  <1> QED
    BY <1>3, <1>4, <1>5, <1>7, <1>8, <1>9, <1>10, <1>11 DEF Next

LEMMA BreakersStayKept == TypeOK /\ BreakersKept /\ [Next]_vars => BreakersKept'
  <1> SUFFICES ASSUME TypeOK, BreakersKept, [Next]_vars, NEW x \in Resources
               PROVE  BreakerKept(breaker'[x])
    BY DEF BreakersKept
  <1>1. /\ breaker[x] \in Breaker /\ BreakerKept(breaker[x]) /\ cooled[x] \in BOOLEAN
    BY DEF TypeOK, BreakersKept
  <1>2. SeenAt(x) \in Breaker /\ BreakerKept(SeenAt(x))
    BY <1>1, BreakerOperations, OperationsKeep DEF SeenAt
  <1>3. /\ BreakerKept(OnRequestStarted(SeenAt(x))) /\ BreakerKept(OnSuccess(SeenAt(x)))
        /\ BreakerKept(OnFailure(SeenAt(x)))
    BY <1>2, OperationsKeep
  <1> QED
    BY <1>1, <1>2, <1>3, CircuitStep DEF Untouched, LookedAt, Passed, Failed

(* CircuitBreaker: no circuit is kept open or half open beyond its count,  *)
(* whatever answers come late.                                             *)
THEOREM CircuitsAreCounted == Spec => []BreakersKept
  <1>1. Init => BreakersKept
    BY BreakerAssumption DEF Init, BreakersKept, BreakerKept, Closed, Counters
  <1> QED  BY <1>1, BreakersStayKept, ManagerTypes, PTL DEF Spec

(* An open circuit is left only when its recovery time-out has passed, and *)
(* a circuit that opens waits for it anew.  Only an attempt that ends      *)
(* opens or closes a circuit: by the last failure that was still allowed   *)
(* or the first of a test, and by the last success that was asked for.     *)
TurnsInTime(x) ==
  LET was == breaker[x]
      is == breaker'[x]
  IN  /\ was.state = "open" /\ is.state # "open" => cooled[x]
      /\ was.state # "open" /\ is.state = "open" =>
           /\ ~ cooled'[x] /\ Ended(x)
           /\ was.state = "closed" => was.failures + 1 = FailureThreshold
      /\ was.state # "closed" /\ is.state = "closed" =>
           /\ Ended(x)
           /\ IF was.state = "open" THEN SuccessThreshold = 1
              ELSE was.successes + 1 = SuccessThreshold
      /\ was.state = "closed" => is.state # "half_open"

(* CircuitBreaker: every change of state of every circuit is one that its  *)
(* thresholds and its recovery time-out allow, in every step of the        *)
(* manager.                                                                *)
THEOREM CircuitsTurnInTime == Spec => [][\A x \in Resources : TurnsInTime(x)]_vars
  <1>1. ASSUME TypeOK, BreakersKept, [Next]_vars, NEW x \in Resources
        PROVE  TurnsInTime(x)
    <2> DEFINE b == breaker[x]
    <2> USE BreakerAssumption DEF Breaker, CircuitState, TurnsInTime
    <2>1. b \in Breaker /\ BreakerKept(b) /\ cooled[x] \in BOOLEAN
      BY <1>1 DEF TypeOK, BreakersKept
    <2>2. /\ b.state # "open" \/ ~ cooled[x] => SeenAt(x) = b
          /\ b.state = "open" /\ cooled[x] =>
               SeenAt(x) = [b EXCEPT !.state = "half_open", !.successes = 0, !.calls = 0]
      BY DEF SeenAt, Seen
    <2>3. CASE Untouched(x)
      BY <2>3 DEF Untouched
    <2>4. CASE LookedAt(x)
      BY <2>1, <2>2, <2>4 DEF LookedAt, OnRequestStarted
    <2>5. CASE Ended(x) /\ Passed(x)
      <3>1. PICK s : s = SeenAt(x)
        OBVIOUS
      <3>2. breaker'[x] = OnSuccess(s)
        BY <2>5, <3>1 DEF Passed
      <3>3. CASE b.state = "closed"
        BY <2>1, <2>2, <3>1, <3>2, <3>3 DEF OnSuccess
      <3>4. CASE b.state = "half_open"
        BY <2>1, <2>2, <2>5, <3>1, <3>2, <3>4 DEF OnSuccess, Closed, Counters, BreakerKept
      <3>5. CASE b.state = "open" /\ ~ cooled[x]
        BY <2>1, <2>2, <3>1, <3>2, <3>5 DEF OnSuccess
      <3>6. CASE b.state = "open" /\ cooled[x]
        <4>1. s.state = "half_open" /\ s.successes = 0
          BY <2>1, <2>2, <3>1, <3>6
        <4>2. breaker'[x].state = "closed" => SuccessThreshold = 1
          BY <2>1, <2>2, <3>1, <3>2, <3>6, <4>1 DEF OnSuccess
        <4> QED  BY <2>5, <3>6, <4>2
      <3> QED  BY <2>1, <3>3, <3>4, <3>5, <3>6
    <2>6. CASE Ended(x) /\ Failed(x)
      <3>1. PICK s : s = SeenAt(x)
        OBVIOUS
      <3>2. /\ breaker'[x] = OnFailure(s)
            /\ breaker'[x].state = "open" => ~ cooled'[x]
        BY <2>6, <3>1 DEF Failed
      <3>3. CASE b.state \in {"closed", "half_open"}
        <4>1. s = b
          BY <2>2, <3>1, <3>3
        <4>2. \/ breaker'[x] = Open
              \/ b.state = "closed" /\ breaker'[x] = [b EXCEPT !.failures = @ + 1]
          BY <3>2, <3>3, <4>1 DEF OnFailure
        <4>3. breaker'[x].state # "half_open" /\ (breaker'[x].state = "closed" => b.state = "closed")
          BY <2>1, <4>2 DEF Open, Counters
        <4>4. b.state = "closed" /\ breaker'[x].state = "open" => b.failures + 1 = FailureThreshold
          BY <2>1, <3>2, <4>1 DEF OnFailure, BreakerKept
        <4> QED  BY <2>6, <3>2, <3>3, <4>3, <4>4
      <3>4. CASE b.state = "open"
        <4>1. CASE cooled[x]
          <5>1. s.state = "half_open"
            BY <2>1, <2>2, <3>1, <3>4, <4>1
          <5>2. breaker'[x].state = "open"
            BY <3>2, <5>1 DEF OnFailure, Open, Counters
          <5> QED  BY <3>4, <5>2
        <4>2. CASE ~ cooled[x]
          <5>1. breaker'[x].state = "open"
            BY <2>1, <2>2, <3>1, <3>2, <3>4, <4>2 DEF OnFailure, Open, Counters
          <5> QED  BY <3>4, <5>1
        <4> QED  BY <4>1, <4>2
      <3> QED  BY <2>1, <3>3, <3>4
    <2> QED  BY <1>1, <2>3, <2>4, <2>5, <2>6, CircuitStep
  <1>2. TypeOK /\ BreakersKept /\ [Next]_vars => \A x \in Resources : TurnsInTime(x)
    BY <1>1
  <1> QED  BY <1>2, ManagerTypes, CircuitsAreCounted, PTL DEF Spec
=============================================================================
