--------------------------- MODULE OperationsProofs ---------------------------
(***************************************************************************)
(* Proofs about the health of the providers, the messages about it and the *)
(* commands of the operator, for any thresholds, intervals, updates and    *)
(* any number of processes.                                                *)
(***************************************************************************)
EXTENDS Operations, SequenceTheorems, TLAPS

(* What is in memory at each stage of a process.                           *)
Places ==
    /\ processes = 0 => phase = "down"
    /\ phase # "up" => pass = None /\ batch = Absent
    /\ phase = "down" => handled = {}
    /\ phase # "up" => \A p \in Providers : told[p] = None /\ reported[p] = None
    /\ phase = "notifying" => \A p \in Providers : health[p] # None

(* What the process remembers of a provider is its last message: the       *)
(* status and the age that the next reminder is measured by.               *)
Remembered ==
    \A p \in Providers : told[p] # None =>
        /\ reported[p] # None
        /\ told[p].status = reported[p].status /\ told[p].age = reported[p].age
        /\ ~told[p].early

Observed == pass # None => \A p \in pass.left : pass.snapshot[p] # None

(* A process handles an update once.                                       *)
Counted ==
    \A u \in Updates :
        /\ taken[u] <= processes
        /\ phase # "down" /\ u \notin handled => taken[u] < processes
        /\ u \in handled => taken[u] > 0

TakenBelow(n) == \A u \in Updates : u < n => taken[u] > 0

InTurn ==
    /\ \A u, v \in Updates : u < v /\ taken[v] > 0 => taken[u] > 0
    /\ offset # Absent => offset <= arrived + 1 /\ TakenBelow(offset)

(* The batch holds consecutive updates, and what is before it was handled. *)
Underway ==
    batch # Absent =>
        /\ \A i \in 1 .. Len(batch.left) :
              batch.left[i] = batch.left[1] + i - 1 /\ batch.left[i] <= arrived
        /\ batch.left # <<>> => TakenBelow(batch.left[1])
        /\ batch.highest # Absent => batch.highest <= arrived /\ TakenBelow(batch.highest + 1)

IInv == TypeOK /\ Places /\ Remembered /\ Observed /\ Counted /\ InTurn /\ Underway

-----------------------------------------------------------------------------
LEMMA InitIInv == Init => IInv
  <1> SUFFICES ASSUME Init PROVE IInv
    OBVIOUS
  <1> USE DEF Init, HealthInit, NotifierInit, CommandsInit
  <1>1. TypeOK
    BY ProcessesAssumption, UpdatesAssumption, ThresholdsAssumption DEF TypeOK, Updates
  <1>2. Places /\ Remembered /\ Observed
    BY DEF Places, Remembered, Observed
  <1>3. Counted
    BY DEF Counted
  <1>4. InTurn /\ Underway
    BY DEF InTurn, Underway
  <1> QED  BY <1>1, <1>2, <1>3, <1>4 DEF IInv

-----------------------------------------------------------------------------
(* The health of the providers.                                            *)
LEMMA CountedToRange ==
  ASSUME NEW threshold \in Nat, NEW n \in Nat
  PROVE  CountedTo(threshold, n) \in 0 .. threshold
  BY DEF CountedTo

LEMMA KnownType ==
  ASSUME TypeOK, NEW p \in Providers
  PROVE  Known(p) \in Observations
  <1>1. health[p] \in Observations \union {None}
    BY DEF TypeOK
  <1> QED
    BY <1>1, ThresholdsAssumption DEF Known, Observations, ProviderStatus

LEMMA ObserveType ==
  ASSUME TypeOK, NEW p \in Providers, Observe(p)
  PROVE  health' \in [Providers -> Observations \union {None}]
  <1> DEFINE k == Known(p)
  <1>k. /\ k.status \in ProviderStatus
        /\ k.failures \in 0 .. FailureThreshold /\ k.successes \in 0 .. RecoveryThreshold
    BY KnownType DEF Observations
  <1>h. health \in [Providers -> Observations \union {None}]
    BY DEF TypeOK
  <1>1. CASE RecordProviderSuccess(p)
    <2> DEFINE s == CountedTo(RecoveryThreshold, k.successes + 1)
    <2>1. s \in 0 .. RecoveryThreshold
      <3>1. k.successes + 1 \in Nat /\ RecoveryThreshold \in Nat
        BY <1>k, ThresholdsAssumption
      <3> HIDE DEF k
      <3> QED  BY <3>1, CountedToRange
    <2>2. StatusAfterSuccess(k.status, s) \in ProviderStatus
      BY <1>k DEF StatusAfterSuccess, ProviderStatus
    <2>3. [status |-> StatusAfterSuccess(k.status, s), failures |-> 0, successes |-> s]
             \in Observations
      BY <2>1, <2>2, ThresholdsAssumption DEF Observations
    <2>4. health' = [health EXCEPT ![p] =
             [status |-> StatusAfterSuccess(k.status, s), failures |-> 0, successes |-> s]]
      BY <1>1 DEF RecordProviderSuccess
    <2> HIDE DEF s, k
    <2> QED  BY <2>3, <2>4, <1>h
  <1>2. CASE RecordProviderFailure(p)
    <2> DEFINE f == CountedTo(FailureThreshold, k.failures + 1)
    <2>1. f \in 0 .. FailureThreshold
      <3>1. k.failures + 1 \in Nat /\ FailureThreshold \in Nat
        BY <1>k, ThresholdsAssumption
      <3> HIDE DEF k
      <3> QED  BY <3>1, CountedToRange
    <2>2. StatusAfterFailure(k.status, f) \in ProviderStatus
      BY <1>k DEF StatusAfterFailure, ProviderStatus
    <2>3. [status |-> StatusAfterFailure(k.status, f), failures |-> f, successes |-> 0]
             \in Observations
      BY <2>1, <2>2, ThresholdsAssumption DEF Observations
    <2>4. health' = [health EXCEPT ![p] =
             [status |-> StatusAfterFailure(k.status, f), failures |-> f, successes |-> 0]]
      BY <1>2 DEF RecordProviderFailure
    <2> HIDE DEF f, k
    <2> QED  BY <2>3, <2>4, <1>h
  <1> QED  BY <1>1, <1>2 DEF Observe

LEMMA ProbeType ==
  ASSUME NEW settings, ProbeProviders(settings)
  PROVE  health' \in [Providers -> Observations]
  <1> DEFINE Answers == {"ready", "degraded", "raised"}
  <1>1. ASSUME NEW p \in Providers, NEW reached \in BOOLEAN
        PROVE  HealthCheck(p, settings, reached) \in Answers
    <2>1. p \in {"oneinch", "zero_x", "velora", "uniswap"}
      BY ProvidersAssumption
    <2> QED
      BY <2>1 DEF HealthCheck, OneInchHealth, ZeroXHealth, VeloraHealth, UniswapHealth
  <1>2. ASSUME NEW a \in Answers PROVE Probed(ProbeStatus[a]) \in Observations
    <2>1. ProbeStatus[a] \in ProviderStatus
      BY DEF ProbeStatus, ProviderStatus
    <2> QED
      BY <2>1, ThresholdsAssumption DEF Probed, Observations
  <1>3. PICK reached \in [Providers -> BOOLEAN] :
          health' = [p \in Providers |-> Probed(ProbeStatus[HealthCheck(p, settings, reached[p])])]
    BY DEF ProbeProviders
  <1> HIDE DEF Answers
  <1>4. ASSUME NEW p \in Providers
        PROVE  Probed(ProbeStatus[HealthCheck(p, settings, reached[p])]) \in Observations
    <2>1. reached[p] \in BOOLEAN  OBVIOUS
    <2> QED  BY <2>1, <1>1, <1>2
  <1> QED  BY <1>3, <1>4

-----------------------------------------------------------------------------
(* The messages.                                                           *)
LEMMA NoneIsNothing ==
  /\ None \notin Observations /\ None \notin Reports
  /\ None \notin Messages /\ None \notin Passes
  BY NoneAssumption

(* A report or a message grows older by the same count.                    *)
LEMMA OlderReport ==
  ASSUME NEW entry \in Reports
  PROVE  /\ Older(entry) \in Reports
         /\ Older(entry).status = entry.status
         /\ Older(entry).age = CountedTo(RepeatInterval + PassLimit, entry.age + 1)
  <1>1. CountedTo(RepeatInterval + PassLimit, entry.age + 1) \in 0 .. RepeatInterval + PassLimit
    <2>1. entry.age + 1 \in Nat /\ RepeatInterval + PassLimit \in Nat
      BY IntervalsAssumption DEF Reports
    <2> QED  BY <2>1, CountedToRange
  <1> QED  BY <1>1 DEF Older, Reports

LEMMA OlderMessage ==
  ASSUME NEW entry \in Messages
  PROVE  /\ Older(entry) \in Messages
         /\ Older(entry).status = entry.status /\ Older(entry).early = entry.early
         /\ Older(entry).age = CountedTo(RepeatInterval + PassLimit, entry.age + 1)
  <1>1. CountedTo(RepeatInterval + PassLimit, entry.age + 1) \in 0 .. RepeatInterval + PassLimit
    <2>1. entry.age + 1 \in Nat /\ RepeatInterval + PassLimit \in Nat
      BY IntervalsAssumption DEF Messages
    <2> QED  BY <2>1, CountedToRange
  <1> QED  BY <1>1 DEF Older, Messages

(* What the notifier has to keep.                                          *)
Notified ==
    /\ reported \in [Providers -> Reports \union {None}]
    /\ told \in [Providers -> Messages \union {None}]
    /\ pass \in Passes \union {None}
    /\ notified \in {None} \union 0 .. StartupInterval
    /\ Remembered /\ Observed

LEMMA AgeStep ==
  ASSUME Notified, Age
  PROVE  Notified'
  <1> USE DEF Notified
  <1>1. ASSUME NEW p \in Providers, reported[p] # None
        PROVE  /\ reported'[p] = Older(reported[p]) /\ reported'[p] \in Reports
               /\ reported'[p].status = reported[p].status
               /\ reported'[p].age = CountedTo(RepeatInterval + PassLimit, reported[p].age + 1)
    <2>1. reported[p] \in Reports  BY <1>1
    <2>2. reported'[p] = Older(reported[p])  BY <1>1 DEF Age
    <2> QED  BY <2>1, <2>2, OlderReport
  <1>2. ASSUME NEW p \in Providers, told[p] # None
        PROVE  /\ told'[p] = Older(told[p]) /\ told'[p] \in Messages
               /\ told'[p].status = told[p].status /\ told'[p].early = told[p].early
               /\ told'[p].age = CountedTo(RepeatInterval + PassLimit, told[p].age + 1)
    <2>1. told[p] \in Messages  BY <1>2
    <2>2. told'[p] = Older(told[p])  BY <1>2 DEF Age
    <2> QED  BY <2>1, <2>2, OlderMessage
  <1>3. ASSUME NEW p \in Providers
        PROVE  /\ reported[p] = None => reported'[p] = None
               /\ told[p] = None => told'[p] = None
    BY DEF Age
  <1>4. reported' \in [Providers -> Reports \union {None}]
    <2>1. reported' = [p \in Providers |-> reported'[p]]  BY DEF Age
    <2> QED  BY <2>1, <1>1, <1>3
  <1>5. told' \in [Providers -> Messages \union {None}]
    <2>1. told' = [p \in Providers |-> told'[p]]  BY DEF Age
    <2> QED  BY <2>1, <1>2, <1>3
  <1>6. pass' \in Passes \union {None} /\ Observed'
    <2>1. CASE pass = None  BY <2>1 DEF Age, Observed
    <2>2. CASE pass # None
      <3>1. pass \in Passes  BY <2>2
      <3>2. pass' = [pass EXCEPT !.age = @ + 1] /\ pass.age < PassLimit
        BY <2>2 DEF Age
      <3>3. pass' \in Passes /\ pass'.snapshot = pass.snapshot /\ pass'.left = pass.left
        BY <3>1, <3>2, IntervalsAssumption DEF Passes
      <3> QED  BY <2>2, <3>3 DEF Observed
    <2> QED  BY <2>1, <2>2
  <1>7. notified' \in {None} \union 0 .. StartupInterval
    <2>1. CASE notified = None  BY <2>1 DEF Age
    <2>2. CASE notified # None
      <3>1. notified + 1 \in Nat /\ StartupInterval \in Nat
        BY <2>2, IntervalsAssumption
      <3> QED  BY <2>2, <3>1, CountedToRange DEF Age
    <2> QED  BY <2>1, <2>2
  <1>8. Remembered'
    <2> SUFFICES ASSUME NEW p \in Providers, told'[p] # None
                 PROVE  /\ reported'[p] # None
                        /\ told'[p].status = reported'[p].status
                        /\ told'[p].age = reported'[p].age
                        /\ ~told'[p].early
      BY DEF Remembered
    <2>1. told[p] # None  BY <1>3
    <2>2. /\ reported[p] # None
          /\ told[p].status = reported[p].status /\ told[p].age = reported[p].age
          /\ ~told[p].early
      BY <2>1 DEF Remembered
    <2> QED  BY <1>1, <1>2, <2>1, <2>2, NoneIsNothing
  <1> QED  BY <1>4, <1>5, <1>6, <1>7, <1>8

(* A message that is due again comes when the one before is old enough.    *)
LEMMA DeliverStep ==
  ASSUME Notified, NEW p \in Providers, Deliver(p)
  PROVE  Notified'
  <1> USE DEF Notified
  <1> DEFINE status == pass.snapshot[p].status
             report == [status |-> status, age |-> pass.age]
             message == Told(p, status, pass.age)
  <1>1. pass \in Passes /\ p \in pass.left  BY DEF Deliver
  <1>2. pass.snapshot[p] \in Observations
    BY <1>1, NoneIsNothing DEF Observed, Passes
  <1>3. status \in ProviderStatus /\ pass.age \in 0 .. PassLimit
    BY <1>1, <1>2 DEF Passes, Observations
  <1>4. report \in Reports
    BY <1>3, IntervalsAssumption DEF Reports
  <1>5. message = [status |-> status, age |-> pass.age, early |-> message.early]
        /\ message.early = (told[p] # None /\ told[p].status = status
                               /\ told[p].age - pass.age < RepeatInterval)
    BY DEF Told
  <1>6. ~message.early
    <2>1. CASE told[p] = None  BY <2>1, <1>5
    <2>2. CASE told[p] # None
      <3>1. /\ reported[p] # None
            /\ told[p].status = reported[p].status /\ told[p].age = reported[p].age
        BY <2>2 DEF Remembered
      <3>2. told[p].status = status => reported[p].age - pass.age >= RepeatInterval
        BY <3>1 DEF Deliver, WantsMessage, RepeatDue
      <3>3. told[p] \in Messages
        BY <2>2
      <3>4. told[p].age \in Nat /\ pass.age \in Nat /\ RepeatInterval \in Nat
        BY <1>3, <3>3, IntervalsAssumption DEF Messages
      <3> HIDE DEF status
      <3>5. told[p].status = status => ~(told[p].age - pass.age < RepeatInterval)
        BY <3>1, <3>2, <3>4
      <3> QED  BY <1>5, <3>5
    <2> QED  BY <2>1, <2>2
  <1>7. message \in Messages
    <2>1. message.early \in BOOLEAN  BY <1>5
    <2>2. pass.age \in 0 .. RepeatInterval + PassLimit
      BY <1>3, IntervalsAssumption
    <2> HIDE DEF status, message
    <2>3. ASSUME NEW e \in BOOLEAN
          PROVE  [status |-> status, age |-> pass.age, early |-> e] \in Messages
      BY <1>3, <2>2 DEF Messages
    <2> QED  BY <1>5, <2>1, <2>3
  <1>8. /\ reported' = [reported EXCEPT ![p] = report]
        /\ told' = [told EXCEPT ![p] = message]
        /\ pass' = [pass EXCEPT !.left = @ \ {p}]
        /\ notified' = notified
    BY DEF Deliver
  <1>9. message.status = status /\ message.age = pass.age
        /\ report.status = status /\ report.age = pass.age
    BY <1>5
  <1> HIDE DEF status, report, message
  <1>10. /\ reported' \in [Providers -> Reports \union {None}]
         /\ told' \in [Providers -> Messages \union {None}]
    BY <1>4, <1>7, <1>8
  <1>11. /\ pass' \in Passes /\ pass'.left \subseteq pass.left /\ pass'.snapshot = pass.snapshot
    BY <1>1, <1>8 DEF Passes
  <1>12. Observed'
    BY <1>1, <1>11, NoneIsNothing DEF Observed
  <1>13. Remembered'
    <2> SUFFICES ASSUME NEW q \in Providers, told'[q] # None
                 PROVE  /\ reported'[q] # None
                        /\ told'[q].status = reported'[q].status
                        /\ told'[q].age = reported'[q].age
                        /\ ~told'[q].early
      BY DEF Remembered
    <2>1. CASE q = p
      BY <2>1, <1>4, <1>6, <1>8, <1>9, NoneIsNothing
    <2>2. CASE q # p
      BY <2>2, <1>8 DEF Remembered
    <2> QED  BY <2>1, <2>2
  <1> QED  BY <1>8, <1>10, <1>11, <1>12, <1>13

(* The other steps of a pass.                                              *)
LEMMA PassStep ==
  ASSUME Notified, health \in [Providers -> Observations \union {None}],
         \/ BeginPass \/ EndPass
         \/ \E p \in Providers : ObserveSilently(p) \/ FailToDeliver(p)
  PROVE  Notified'
  <1> USE DEF Notified
  <1>1. CASE BeginPass
    <2>1. pass' = [snapshot |-> health, left |-> {p \in Providers : health[p] # None}, age |-> 0]
      BY <1>1 DEF BeginPass
    <2>2. pass' \in Passes  BY <2>1, IntervalsAssumption DEF Passes
    <2>3. Observed'  BY <2>1 DEF Observed
    <2> QED  BY <1>1, <2>2, <2>3 DEF BeginPass, Remembered
  <1>2. CASE EndPass
    BY <1>2 DEF EndPass, Remembered, Observed
  <1>3. ASSUME NEW p \in Providers, FailToDeliver(p) \/ ObserveSilently(p)
        PROVE  pass' \in Passes /\ Observed'
    <2>1. pass \in Passes /\ p \in pass.left /\ pass' = [pass EXCEPT !.left = @ \ {p}]
      BY <1>3 DEF FailToDeliver, ObserveSilently
    <2>2. pass' \in Passes /\ pass'.left \subseteq pass.left /\ pass'.snapshot = pass.snapshot
      BY <2>1 DEF Passes
    <2> QED  BY <2>1, <2>2, NoneIsNothing DEF Observed
  <1>4. ASSUME NEW p \in Providers, FailToDeliver(p) PROVE Notified'
    BY <1>3, <1>4 DEF FailToDeliver, Remembered
  <1>5. ASSUME NEW p \in Providers, ObserveSilently(p) PROVE Notified'
    <2> DEFINE report == [status |-> pass.snapshot[p].status, age |-> pass.age]
    <2>1. pass \in Passes /\ p \in pass.left /\ told' = told /\ notified' = notified
      BY <1>5 DEF ObserveSilently
    <2>2. pass.snapshot[p] \in Observations
      BY <2>1, NoneIsNothing DEF Observed, Passes
    <2>3. report \in Reports
      BY <2>1, <2>2, IntervalsAssumption DEF Passes, Observations, Reports
    <2>4. CASE reported[p] = None
      <3>1. reported' = [reported EXCEPT ![p] = report]
        BY <1>5, <2>4 DEF ObserveSilently
      <3>2. told[p] = None  BY <2>4 DEF Remembered
      <3> HIDE DEF report
      <3>3. reported' \in [Providers -> Reports \union {None}]
        BY <2>3, <3>1
      <3>4. Remembered'
        BY <2>1, <3>1, <3>2 DEF Remembered
      <3> QED  BY <1>3, <1>5, <2>1, <3>3, <3>4
    <2>5. CASE reported[p] # None
      BY <1>3, <1>5, <2>1, <2>5 DEF ObserveSilently, Remembered
    <2> QED  BY <2>4, <2>5
  <1> QED  BY <1>1, <1>2, <1>4, <1>5

(* The start-up tells of every provider, as it was probed.                 *)
LEMMA StartupStep ==
  ASSUME Notified, NEW result, NotifyStartup(result),
         health \in [Providers -> Observations \union {None}],
         \A p \in Providers : health[p] # None /\ told[p] = None
  PROVE  Notified'
  <1> USE DEF Notified
  <1>1. CASE ~(StartupMessages /\ StartupAllowed)
    BY <1>1 DEF NotifyStartup, Remembered, Observed
  <1>2. CASE StartupMessages /\ StartupAllowed
    <2>1. ASSUME NEW p \in Providers
          PROVE  /\ health[p] \in Observations /\ Known(p) = health[p]
                 /\ health[p].status \in ProviderStatus
      BY DEF Known, Observations
    <2> DEFINE report(p) == [status |-> health[p].status, age |-> 0]
               message(p) == [status |-> health[p].status, age |-> 0, early |-> FALSE]
    <2>2. ASSUME NEW p \in Providers PROVE report(p) \in Reports /\ message(p) \in Messages
      BY <2>1, IntervalsAssumption DEF Reports, Messages
    <2>3. ASSUME NEW p \in Providers PROVE Told(p, Known(p).status, 0) = message(p)
      BY <2>1 DEF Told
    <2>4. reported' = [p \in Providers |-> report(p)]
      BY <1>2 DEF NotifyStartup, Prime
    <2>5. told' = told \/ told' = [p \in Providers |-> message(p)]
      BY <1>2, <2>3 DEF NotifyStartup
    <2>6. pass' = pass /\ (notified' = 0 \/ notified' = notified)
      BY <1>2 DEF NotifyStartup
    <2>7. ASSUME NEW p \in Providers
          PROVE  /\ report(p).status = message(p).status /\ report(p).age = message(p).age
                 /\ ~message(p).early
      OBVIOUS
    <2> HIDE DEF report, message
    <2>8. /\ reported' \in [Providers -> Reports \union {None}]
          /\ told' \in [Providers -> Messages \union {None}]
      BY <2>2, <2>4, <2>5
    <2>9. Remembered'
      BY <2>2, <2>4, <2>5, <2>7, NoneIsNothing DEF Remembered
    <2>10. Observed' /\ notified' \in {None} \union 0 .. StartupInterval
      BY <2>6, IntervalsAssumption DEF Observed
    <2> QED  BY <2>6, <2>8, <2>9, <2>10
  <1> QED  BY <1>1, <1>2

-----------------------------------------------------------------------------
(* The commands.                                                           *)
Commanded ==
    /\ arrived \in 0 .. MaxUpdate
    /\ offset \in {Absent} \union 1 .. MaxUpdate + 1
    /\ handled \subseteq Updates
    /\ batch \in Batches \union {Absent}
    /\ taken \in [Updates -> Nat]
    /\ InTurn /\ Underway

LEMMA ArriveStep ==
  ASSUME Commanded, Arrive
  PROVE  Commanded'
  <1>1. arrived' = arrived + 1 /\ arrived' \in 0 .. MaxUpdate
    BY UpdatesAssumption DEF Arrive, Commanded
  <1>2. UNCHANGED <<offset, handled, batch, taken>>
    BY DEF Arrive
  <1>3. InTurn'
    <2>1. \A n : TakenBelow(n)' <=> TakenBelow(n)
      BY <1>2 DEF TakenBelow
    <2>2. offset # Absent => offset \in Int
      BY UpdatesAssumption DEF Commanded
    <2> QED  BY <1>1, <1>2, <2>1, <2>2 DEF Commanded, InTurn
  <1>4. Underway'
    <2> SUFFICES ASSUME batch # Absent PROVE Underway'
      BY <1>2 DEF Underway
    <2>1. batch.left \in Seq(Updates) /\ batch.highest \in {Absent} \union 0 .. MaxUpdate
      BY DEF Commanded, Batches
    <2>2. \A i \in 1 .. Len(batch.left) : batch.left[i] \in Int
      BY <2>1, UpdatesAssumption, ElementOfSeq DEF Updates
    <2>3. \A n : TakenBelow(n)' <=> TakenBelow(n)
      BY <1>2 DEF TakenBelow
    <2>4. \A n \in Int : n <= arrived => n <= arrived'
      BY <1>1 DEF Commanded
    <2>5. batch.highest # Absent => batch.highest \in Int
      BY <2>1, UpdatesAssumption
    <2>6. Underway
      BY DEF Commanded
    <2> QED  BY <1>2, <2>2, <2>3, <2>4, <2>5, <2>6 DEF Underway
  <1> QED  BY <1>1, <1>2, <1>3, <1>4 DEF Commanded

(* The updates that are asked for: consecutive, from the offset on.        *)
LEMMA PendingUpdates ==
  ASSUME Commanded
  PROVE  LET n == IF offset = Absent THEN 1 ELSE offset
         IN  /\ n \in Nat /\ TakenBelow(n)
             /\ Pending \in Seq(Updates)
             /\ \A i \in 1 .. Len(Pending) : Pending[i] = n + i - 1 /\ Pending[i] <= arrived
  <1> DEFINE n == IF offset = Absent THEN 1 ELSE offset
             all == From(n)
             k == arrived - n + 1
             len == IF Len(all) > BatchSize THEN BatchSize ELSE Len(all)
  <1>1. n \in 1 .. MaxUpdate + 1 /\ n <= arrived + 1 /\ arrived \in 0 .. MaxUpdate
    <2>1. CASE offset = Absent
      BY <2>1, UpdatesAssumption DEF Commanded
    <2>2. CASE offset # Absent
      <3>1. offset \in 1 .. MaxUpdate + 1 /\ offset <= arrived + 1 /\ n = offset
        BY <2>2 DEF Commanded, InTurn
      <3> QED  BY <3>1 DEF Commanded
    <2> QED  BY <2>1, <2>2
  <1>2. TakenBelow(n)
    BY DEF Commanded, InTurn, TakenBelow, Updates
  <1>3. k \in Nat /\ \A i \in 1 .. k : n + i - 1 \in Updates /\ n + i - 1 <= arrived
    <2> HIDE DEF n
    <2>1. k \in Nat  BY <1>1, UpdatesAssumption
    <2>2. ASSUME NEW i \in 1 .. k PROVE n + i - 1 \in Updates /\ n + i - 1 <= arrived
      BY <1>1, <2>1, UpdatesAssumption DEF Updates
    <2> QED  BY <2>1, <2>2
  <1>4. all = [i \in 1 .. k |-> n + i - 1]
    BY DEF From
  <1> HIDE DEF n, k, all
  <1>5. all \in Seq(Updates) /\ Len(all) = k /\ \A i \in 1 .. k : all[i] = n + i - 1
    BY <1>3, <1>4
  <1>6. len \in Int /\ len <= k
    BY <1>3, <1>5, UpdatesAssumption
  <1>7. Pending = SubSeq(all, 1, len)
    BY DEF Pending, n, all
  <1> HIDE DEF len
  <1>8. \A i \in 1 .. len : all[i] \in Updates
    BY <1>3, <1>5, <1>6
  <1>9. /\ Pending \in Seq(Updates)
        /\ Len(Pending) = IF 1 <= len THEN len - 1 + 1 ELSE 0
        /\ \A i \in 1 .. len - 1 + 1 : Pending[i] = all[1 + i - 1]
    BY <1>6, <1>7, <1>8, SubSeqProperties
  <1>10. \A i \in 1 .. Len(Pending) : Pending[i] = n + i - 1 /\ Pending[i] <= arrived
    <2> TAKE i \in 1 .. Len(Pending)
    <2>1. i \in 1 .. len /\ i \in 1 .. k /\ 1 + i - 1 = i
      BY <1>3, <1>6, <1>9
    <2> QED  BY <1>3, <1>5, <1>6, <1>9, <2>1
  <1>11. n \in Nat  BY <1>1, UpdatesAssumption
  <1> QED  BY <1>2, <1>9, <1>10, <1>11 DEF n

LEMMA FetchStep ==
  ASSUME Commanded, Fetch
  PROVE  Commanded'
  <1> DEFINE n == IF offset = Absent THEN 1 ELSE offset
             highest == IF offset = Absent THEN Absent ELSE offset - 1
  <1>1. /\ n \in Nat /\ TakenBelow(n) /\ Pending \in Seq(Updates)
        /\ \A i \in 1 .. Len(Pending) : Pending[i] = n + i - 1 /\ Pending[i] <= arrived
    BY PendingUpdates
  <1>2. batch' = [left |-> Pending, highest |-> highest]
    BY DEF Fetch
  <1>3. UNCHANGED <<arrived, offset, handled, taken>>
    BY DEF Fetch
  <1>4. /\ highest \in {Absent} \union 0 .. MaxUpdate
        /\ highest # Absent => highest <= arrived /\ TakenBelow(highest + 1)
    <2>1. CASE offset = Absent  BY <2>1
    <2>2. CASE offset # Absent
      <3>1. offset \in 1 .. MaxUpdate + 1 /\ offset <= arrived + 1 /\ TakenBelow(offset)
        BY <2>2 DEF Commanded, InTurn
      <3>2. (offset - 1) + 1 = offset /\ highest = offset - 1
        BY <2>2, <3>1, UpdatesAssumption
      <3>3. highest \in 0 .. MaxUpdate /\ highest <= arrived
        BY <3>1, <3>2, UpdatesAssumption DEF Commanded
      <3> QED  BY <3>1, <3>2, <3>3
    <2> QED  BY <2>1, <2>2
  <1> HIDE DEF n, highest
  <1>5. batch' \in Batches  BY <1>1, <1>2, <1>4 DEF Batches
  <1>6. InTurn'
    BY <1>3 DEF Commanded, InTurn, TakenBelow
  <1>7. Underway'
    <2>1. /\ batch'.left = Pending /\ batch'.highest = highest
      BY <1>2
    <2>2. Pending # <<>> => 1 \in 1 .. Len(Pending)
      BY <1>1
    <2>3. Pending # <<>> => Pending[1] = n
      BY <1>1, <2>2
    <2>4. \A i \in 1 .. Len(Pending) : Pending[i] = Pending[1] + i - 1 /\ Pending[i] <= arrived
      BY <1>1, <2>2, <2>3
    <2>5. \A m : TakenBelow(m)' <=> TakenBelow(m)
      BY <1>3 DEF TakenBelow
    <2> QED  BY <1>1, <1>3, <1>4, <2>1, <2>3, <2>4, <2>5 DEF Underway
  <1> QED  BY <1>3, <1>5, <1>6, <1>7 DEF Commanded

(* An update is handled when all before it were.                           *)
LEMMA HandleStep ==
  ASSUME Commanded, Handle, \A u \in handled : taken[u] > 0
  PROVE  Commanded'
  <1> DEFINE s == batch.left
             u == Head(s)
  <1>1. batch \in Batches /\ s \in Seq(Updates) /\ s # <<>> /\ batch # Absent
    BY DEF Commanded, Handle, Batches
  <1>2. u \in Updates /\ u = s[1] /\ 1 \in 1 .. Len(s)
    BY <1>1, HeadTailProperties
  <1>3. /\ Tail(s) \in Seq(Updates) /\ Len(Tail(s)) = Len(s) - 1
        /\ \A i \in 1 .. Len(Tail(s)) : Tail(s)[i] = s[i + 1]
    BY <1>1, HeadTailProperties
  <1>4. /\ UNCHANGED <<arrived, offset>> /\ handled' = handled \union {u}
        /\ taken' = IF u \in handled THEN taken ELSE [taken EXCEPT ![u] = @ + 1]
        /\ batch' = [left |-> Tail(s), highest |-> u] \/ batch' = Absent
    BY DEF Handle
  <1>5. /\ \A i \in 1 .. Len(s) : s[i] = u + i - 1 /\ s[i] <= arrived
        /\ TakenBelow(u)
    BY <1>1, <1>2 DEF Commanded, Underway
  <1>6. taken \in [Updates -> Nat] /\ arrived \in 0 .. MaxUpdate
    BY DEF Commanded
  <1> HIDE DEF s, u
  <1>7. u \in Nat /\ u <= arrived /\ u \in 0 .. MaxUpdate
    BY <1>2, <1>5, <1>6, UpdatesAssumption DEF Updates
  <1>8. /\ taken' \in [Updates -> Nat] /\ taken'[u] > 0
        /\ \A w \in Updates : (w # u => taken'[w] = taken[w]) /\ taken'[w] >= taken[w]
    BY <1>2, <1>4, <1>6
  <1>9. \A w \in Updates : w < u + 1 => taken'[w] > 0
    <2> SUFFICES ASSUME NEW w \in Updates, w < u + 1 PROVE taken'[w] > 0
      OBVIOUS
    <2>1. w \in Int  BY UpdatesAssumption DEF Updates
    <2>2. CASE w = u  BY <1>8, <2>2
    <2>3. CASE w # u
      <3>1. w < u  BY <1>7, <2>1, <2>3
      <3> QED  BY <1>5, <1>8, <2>3, <3>1 DEF TakenBelow
    <2> QED  BY <2>2, <2>3
  <1>10. InTurn'
    <2>1. offset # Absent => TakenBelow(offset)'
      <3> SUFFICES ASSUME offset # Absent, NEW w \in Updates, w < offset PROVE taken'[w] > 0
        BY <1>4 DEF TakenBelow
      <3>1. taken[w] > 0  BY DEF Commanded, InTurn, TakenBelow
      <3> QED  BY <1>6, <1>8, <3>1
    <2>2. ASSUME NEW w \in Updates, NEW v \in Updates, w < v, taken'[v] > 0
          PROVE  taken'[w] > 0
      <3>1. CASE v = u
        <4>1. w < u + 1
          BY <1>7, <2>2, <3>1, UpdatesAssumption DEF Updates
        <4> QED  BY <1>9, <4>1
      <3>2. CASE v # u
        <4>1. taken[w] > 0  BY <1>8, <2>2, <3>2 DEF Commanded, InTurn
        <4> QED  BY <1>6, <1>8, <4>1
      <3> QED  BY <3>1, <3>2
    <2> QED  BY <1>4, <2>1, <2>2 DEF Commanded, InTurn
  <1>11. ASSUME batch' # Absent PROVE batch' \in Batches /\ Underway'
    <2>1. batch' = [left |-> Tail(s), highest |-> u]
      BY <1>4, <1>11
    <2>2. batch' \in Batches
      BY <1>3, <1>7, <2>1 DEF Batches
    <2>3. batch'.left = Tail(s) /\ batch'.highest = u
      BY <2>1
    <2>4. \A i \in 1 .. Len(Tail(s)) : Tail(s)[i] = u + i /\ Tail(s)[i] <= arrived
      <3> TAKE i \in 1 .. Len(Tail(s))
      <3>1. Len(s) \in Nat /\ i + 1 \in 1 .. Len(s)
        BY <1>1, <1>3, LenProperties DEF s
      <3> QED  BY <1>3, <1>5, <1>7, <3>1
    <2>5. Tail(s) # <<>> => 1 \in 1 .. Len(Tail(s)) /\ Tail(s)[1] = u + 1
      <3>1. Tail(s) # <<>> => 1 \in 1 .. Len(Tail(s))  BY <1>3
      <3> QED  BY <2>4, <3>1
    <2>6. \A i \in 1 .. Len(Tail(s)) : Tail(s)[i] = Tail(s)[1] + i - 1
      <3> TAKE i \in 1 .. Len(Tail(s))
      <3>1. 1 \in 1 .. Len(Tail(s))
        BY <1>3, LenProperties
      <3>2. Tail(s)[1] = u + 1 /\ Tail(s)[i] = u + i
        BY <2>4, <3>1
      <3> QED  BY <1>7, <3>2
    <2>7. Tail(s) # <<>> => \A w \in Updates : w < Tail(s)[1] => taken'[w] > 0
      BY <1>9, <2>5
    <2> QED
      BY <1>4, <1>7, <1>9, <2>2, <2>3, <2>4, <2>6, <2>7 DEF Underway, TakenBelow
  <1>12. batch' = Absent => Underway'
    BY DEF Underway
  <1>13. handled' \subseteq Updates
    BY <1>2, <1>4 DEF Commanded
  <1> QED  BY <1>4, <1>8, <1>10, <1>11, <1>12, <1>13 DEF Commanded

(* The offset is moved behind what was handled, or not at all.             *)
LEMMA StoreStep ==
  ASSUME Commanded, StoreOffset
  PROVE  Commanded'
  <1>1. batch \in Batches /\ batch # Absent /\ batch' = Absent
        /\ UNCHANGED <<arrived, handled, taken>>
    BY DEF Commanded, StoreOffset
  <1>2. Underway'
    BY <1>1 DEF Underway
  <1>4. CASE offset' = offset
    BY <1>1, <1>2, <1>4 DEF Commanded, InTurn, TakenBelow
  <1>5. CASE offset' = batch.highest + 1 /\ batch.highest # Absent
    <2>1. batch.highest \in 0 .. MaxUpdate
      BY <1>1, <1>5 DEF Batches
    <2>2. batch.highest <= arrived /\ TakenBelow(batch.highest + 1)
      BY <1>1, <1>5 DEF Commanded, Underway
    <2>3. offset' \in 1 .. MaxUpdate + 1 /\ offset' <= arrived + 1
      BY <1>5, <2>1, <2>2, UpdatesAssumption DEF Commanded
    <2>4. \A u \in Updates : u < offset' => taken'[u] > 0
      BY <1>1, <1>5, <2>2 DEF TakenBelow
    <2> QED
      BY <1>1, <1>2, <2>3, <2>4 DEF Commanded, InTurn, TakenBelow
  <1> QED  BY <1>4, <1>5 DEF StoreOffset

-----------------------------------------------------------------------------
(* Every step of the process keeps the invariant.                          *)
LEMMA Halves ==
  /\ IInv => Notified /\ Commanded
  /\ TypeOK /\ Remembered /\ Observed /\ InTurn /\ Underway => Notified /\ Commanded
  BY DEF IInv, TypeOK, Notified, Commanded, Updates

(* What the commands and what the messages leave alone.                    *)
LEMMA CommandsStay ==
  ASSUME Commanded, UNCHANGED commands
  PROVE  Commanded'
  BY DEF Commanded, commands, InTurn, Underway, TakenBelow

LEMMA NotificationsStay ==
  ASSUME Notified, UNCHANGED notifications
  PROVE  Notified'
  BY DEF Notified, notifications, Remembered, Observed

(* The types and the two halves make the invariant.                        *)
LEMMA Whole ==
  ASSUME Notified', Commanded', Places', Counted',
         health' \in [Providers -> Observations \union {None}],
         phase' \in {"down", "probing", "notifying", "up"},
         processes' \in 0 .. MaxProcesses,
         taken' \in [Updates -> 0 .. MaxProcesses]
  PROVE  IInv'
  BY DEF IInv, Notified, Commanded, TypeOK

(* The counters: a step that handles nothing keeps them.                   *)
LEMMA NothingTaken ==
  ASSUME IInv, UNCHANGED <<taken, handled, life>>
  PROVE  Counted'
  BY DEF IInv, Counted, life

LEMMA LifeStays ==
  ASSUME IInv, UNCHANGED life
  PROVE  /\ phase' \in {"down", "probing", "notifying", "up"}
         /\ processes' \in 0 .. MaxProcesses
  BY DEF IInv, TypeOK, life

LEMMA TakenType ==
  ASSUME IInv, UNCHANGED taken
  PROVE  taken' \in [Updates -> 0 .. MaxProcesses]
  BY DEF IInv, TypeOK

(* The stages of a process.                                                *)
LEMMA StartKeeps ==
  ASSUME IInv, Start \/ Probe
  PROVE  IInv'
  <1> USE DEF IInv
  <1>1. UNCHANGED <<notifications, commands>>
    BY DEF Start, Probe
  <1>2. Notified' /\ Commanded'
    BY <1>1, Halves, CommandsStay, NotificationsStay
  <1>3. taken' \in [Updates -> 0 .. MaxProcesses]
    BY <1>1, TakenType DEF commands
  <1>4. CASE Start
    <2>1. phase = "down" /\ phase' = "probing" /\ processes' = processes + 1 /\ health' = health
          /\ processes < MaxProcesses /\ processes \in Nat /\ MaxProcesses \in Nat
      BY <1>4, ProcessesAssumption DEF Start, TypeOK
    <2>2. processes' \in 0 .. MaxProcesses /\ processes' > 0
      BY <2>1
    <2>3. Places'
      BY <1>1, <2>1, <2>2 DEF Places, notifications, commands
    <2>4. \A u \in Updates : taken[u] \in Nat /\ taken[u] <= processes
      BY DEF TypeOK, Counted
    <2>5. Counted'
      BY <1>1, <2>1, <2>4 DEF Counted, Places, commands
    <2> QED  BY <1>2, <1>3, <2>1, <2>2, <2>3, <2>5, Whole DEF TypeOK
  <1>5. CASE Probe
    <2>0. PICK settings \in UniswapSettings : ProbeProviders(settings)
      BY <1>5 DEF Probe
    <2>1. phase = "probing" /\ phase' = "notifying" /\ processes' = processes
      BY <1>5 DEF Probe
    <2>2. health' \in [Providers -> Observations]
      BY <2>0, ProbeType
    <2>3. Places'
      BY <1>1, <2>1, <2>2, NoneIsNothing DEF Places, notifications, commands
    <2>4. Counted'
      BY <1>1, <2>1 DEF Counted, commands
    <2> QED  BY <1>2, <1>3, <2>1, <2>2, <2>3, <2>4, Whole DEF TypeOK
  <1> QED  BY <1>4, <1>5

LEMMA AnnounceKeeps ==
  ASSUME IInv, Announce
  PROVE  IInv'
  <1> USE DEF IInv
  <1>1. /\ phase = "notifying" /\ phase' = "up"
        /\ UNCHANGED <<health, commands, processes>>
    BY DEF Announce
  <1>2. PICK result \in {"sent", "not_sent"} : NotifyStartup(result)
    BY DEF Announce
  <1>3. \A p \in Providers : health[p] # None /\ told[p] = None
    BY <1>1 DEF Places
  <1>4. Notified'
    BY <1>2, <1>3, Halves, StartupStep DEF TypeOK
  <1>5. Commanded'
    BY <1>1, Halves, CommandsStay
  <1>6. Places' /\ Counted'
    BY <1>1 DEF Places, Counted, commands
  <1> QED
    BY <1>1, <1>4, <1>5, <1>6, TakenType, Whole DEF TypeOK, commands

(* A crash: the offset and the past stay, and a new process may handle     *)
(* what was handled once more.                                             *)
LEMMA EndKeeps ==
  ASSUME IInv, End
  PROVE  IInv'
  <1> USE DEF IInv
  <1>1. /\ health' = [p \in Providers |-> None] /\ reported' = [p \in Providers |-> None]
        /\ told' = [p \in Providers |-> None] /\ pass' = None
        /\ handled' = {} /\ batch' = Absent /\ phase' = "down"
        /\ UNCHANGED <<notified, arrived, offset, taken, processes>>
    BY DEF End, Forget
  <1>2. Notified'
    BY <1>1 DEF Notified, Remembered, Observed, TypeOK
  <1>3. InTurn' /\ Underway'
    BY <1>1 DEF InTurn, Underway, TakenBelow
  <1>4. Commanded'
    BY <1>1, <1>3, Halves DEF Commanded
  <1>5. Places' /\ Counted'
    BY <1>1 DEF Places, Counted
  <1> QED
    BY <1>1, <1>2, <1>4, <1>5, TakenType, Whole DEF TypeOK

LEMMA RequestKeeps ==
  ASSUME IInv, Request
  PROVE  IInv'
  <1>1. UNCHANGED <<notifications, commands, life>> /\ phase = "up"
    BY DEF Request
  <1>2. health' \in [Providers -> Observations \union {None}]
    BY ObserveType DEF Request, IInv
  <1>3. Notified' /\ Commanded'
    BY <1>1, Halves, CommandsStay, NotificationsStay
  <1>4. Counted' /\ taken' \in [Updates -> 0 .. MaxProcesses]
    BY <1>1, NothingTaken, TakenType DEF commands
  <1>5. Places'
    BY <1>1 DEF IInv, Places, notifications, commands, life
  <1> QED  BY <1>1, <1>2, <1>3, <1>4, <1>5, LifeStays, Whole

(* The health task and the clock.                                          *)
LEMMA NotifierKeeps ==
  ASSUME IInv, HealthTask \/ HealthStep \/ Tick
  PROVE  IInv'
  <1>1. UNCHANGED <<health, commands, life>>
    BY DEF HealthTask, HealthStep, Tick, Unchanged
  <1>2. Notified'
    BY Halves, PassStep, DeliverStep, AgeStep DEF HealthTask, HealthStep, Tick, IInv, TypeOK
  <1>3. Commanded'
    BY <1>1, Halves, CommandsStay
  <1>4. Counted' /\ taken' \in [Updates -> 0 .. MaxProcesses]
    BY <1>1, NothingTaken, TakenType DEF commands
  <1>5. Places'
    <2>1. CASE phase = "up"
      BY <1>1, <2>1 DEF IInv, Places, commands, life
    <2>2. CASE phase # "up"
      <3>1. Tick /\ pass = None /\ \A p \in Providers : told[p] = None /\ reported[p] = None
        BY <2>2 DEF HealthTask, LoopIsFree, HealthStep, ObserveSilently, Deliver, FailToDeliver,
           EndPass, IInv, Places
      <3>2. pass' = None /\ \A p \in Providers : told'[p] = None /\ reported'[p] = None
        BY <3>1 DEF Tick, Age
      <3> QED  BY <1>1, <2>2, <3>2 DEF IInv, Places, commands, life
    <2> QED  BY <2>1, <2>2
  <1> QED
    BY <1>1, <1>2, <1>3, <1>4, <1>5, LifeStays, Whole DEF IInv, TypeOK

(* The commands, in the process and at Telegram.                           *)
LEMMA PollKeeps ==
  ASSUME IInv, CommandTask \/ NewUpdate \/ (StoreOffset /\ CommandStep)
  PROVE  IInv'
  <1>1. UNCHANGED <<health, notifications, life>>
    BY DEF CommandTask, CommandStep, NewUpdate
  <1>2. Commanded'
    BY Halves, FetchStep, ArriveStep, StoreStep DEF CommandTask, NewUpdate
  <1>3. Notified'
    BY <1>1, Halves, NotificationsStay
  <1>4. UNCHANGED <<taken, handled>>
    BY DEF CommandTask, Fetch, NewUpdate, Arrive, StoreOffset
  <1>5. Counted' /\ taken' \in [Updates -> 0 .. MaxProcesses]
    BY <1>1, <1>4, NothingTaken, TakenType
  <1>6. phase = "up" \/ batch' = batch
    BY DEF CommandTask, LoopIsFree, NewUpdate, Arrive, StoreOffset, IInv, Places
  <1>7. Places'
    BY <1>1, <1>4, <1>6 DEF IInv, Places, notifications, life
  <1> QED
    BY <1>1, <1>2, <1>3, <1>5, <1>7, LifeStays, Whole DEF IInv, TypeOK

LEMMA HandleKeeps ==
  ASSUME IInv, Handle, CommandStep
  PROVE  IInv'
  <1>1. UNCHANGED <<health, notifications, life>>
    BY DEF CommandStep, Handle, StoreOffset
  <1>2. Commanded'
    <2>1. \A u \in handled : taken[u] > 0
      BY DEF IInv, Counted, TypeOK
    <2> QED  BY <2>1, Halves, HandleStep
  <1>3. Notified'
    BY <1>1, Halves, NotificationsStay
  <1>4. phase = "up"
    BY DEF Handle, IInv, Places
  <1> DEFINE u == Head(batch.left)
  <1>5. u \in Updates
    <2>1. batch.left \in Seq(Updates) /\ batch.left # <<>>
      BY DEF Handle, IInv, TypeOK, Batches
    <2> QED  BY <2>1, HeadTailProperties
  <1>6. /\ handled' = handled \union {u}
        /\ taken' = IF u \in handled THEN taken ELSE [taken EXCEPT ![u] = @ + 1]
    BY DEF Handle
  <1>7. /\ taken \in [Updates -> 0 .. MaxProcesses] /\ processes \in 0 .. MaxProcesses
        /\ MaxProcesses \in Nat
    BY ProcessesAssumption DEF IInv, TypeOK
  <1>8. \A w \in Updates : /\ taken[w] <= processes /\ taken[w] \in Nat
                           /\ w \notin handled => taken[w] < processes
                           /\ w \in handled => taken[w] > 0
    BY <1>4, <1>7 DEF IInv, Counted
  <1> HIDE DEF u
  <1>9. \A w \in Updates : /\ taken'[w] <= processes /\ taken'[w] \in 0 .. MaxProcesses
                           /\ w \notin handled' => taken'[w] < processes
                           /\ w \in handled' => taken'[w] > 0
    BY <1>5, <1>6, <1>7, <1>8
  <1>10. taken' \in [Updates -> 0 .. MaxProcesses]
    <2>1. DOMAIN taken' = Updates /\ taken' = [w \in Updates |-> taken'[w]]
      BY <1>6, <1>7
    <2> QED  BY <1>9, <2>1
  <1>11. Counted'
    <2>1. processes' = processes
      BY <1>1 DEF life
    <2> QED  BY <1>9, <2>1 DEF Counted
  <1>12. Places'
    BY <1>1, <1>4 DEF IInv, Places, notifications, life
  <1> QED
    BY <1>1, <1>2, <1>3, <1>10, <1>11, <1>12, LifeStays, Whole DEF IInv, TypeOK

LEMMA NextIInv == IInv /\ [Next]_vars => IInv'
  <1> SUFFICES ASSUME IInv, [Next]_vars PROVE IInv'
    OBVIOUS
  <1>1. CASE Start \/ Probe
    BY <1>1, StartKeeps
  <1>2. CASE CommandStep
    BY <1>2, PollKeeps, HandleKeeps DEF CommandStep
  <1>3. CASE UNCHANGED vars
    <2>1. Notified' /\ Commanded'
      BY <1>3, Halves, CommandsStay, NotificationsStay DEF vars
    <2>2. Counted' /\ taken' \in [Updates -> 0 .. MaxProcesses]
      BY <1>3, NothingTaken, TakenType DEF vars, commands
    <2>3. Places'
      BY <1>3 DEF vars, commands, notifications, life, IInv, Places
    <2> QED
      BY <1>3, <2>1, <2>2, <2>3, LifeStays, Whole DEF IInv, TypeOK, vars
  <1> QED
    BY <1>1, <1>2, <1>3, AnnounceKeeps, EndKeeps, RequestKeeps, NotifierKeeps, PollKeeps DEF Next

(* In every reachable state: the types, and what the properties rest on.   *)
THEOREM IInvHolds == Spec => []IInv
  BY InitIInv, NextIInv, PTL DEF Spec

(* Every variable keeps its type, for any thresholds and intervals.        *)
THEOREM TypesHold == Spec => []TypeOK
  <1>1. IInv => TypeOK  BY DEF IInv
  <1> QED  BY <1>1, IInvHolds, PTL

(* CommandService.poll_once: no command is passed over, and one process    *)
(* handles a command once, whatever fails and whenever it is restarted.    *)
THEOREM CommandsTaken == Spec => []CommandsAreTakenInTurn
  <1>1. IInv => CommandsAreTakenInTurn
    BY DEF IInv, InTurn, Counted, TakenBelow, CommandsAreTakenInTurn
  <1> QED  BY <1>1, IInvHolds, PTL

(* SystemNotifier._observe: two messages that say the same of a provider   *)
(* keep the interval, also after a lost message and a slow pass.           *)
THEOREM RemindersSpaced == Spec => []RemindersAreSpaced
  <1>1. IInv => RemindersAreSpaced
    BY DEF IInv, Remembered, RemindersAreSpaced
  <1> QED  BY <1>1, IInvHolds, PTL
-----------------------------------------------------------------------------
(* The health of the providers.  What the counters say and what the status *)
(* says agree, up to the first failure that the probe of the start-up      *)
(* counts.                                                                 *)
Settled(h) ==
    /\ h.status # "unknown"
    /\ h.failures = 0 \/ h.successes = 0
    /\ h.failures >= DegradedThreshold => ~Ok(h.status)
    /\ h.failures = FailureThreshold /\ h.failures > 1 => h.status = "unavailable"
    /\ h.status = "unavailable" =>
          \/ h.failures \in {1, FailureThreshold}
          \/ h.failures \in 1 .. DegradedThreshold - 1
    /\ h.successes = RecoveryThreshold => h.status = "healthy"

(* From the probe to the end of the process every provider is observed,    *)
(* and its status agrees with what was counted.                            *)
HealthSettled ==
    \A p \in Providers :
        /\ (phase \in {"notifying", "up"}) <=> health[p] # None
        /\ health[p] # None => Settled(health[p])

LEMMA SuccessSettles ==
  ASSUME NEW h \in Observations, Settled(h),
         NEW n, n = CountedTo(RecoveryThreshold, h.successes + 1)
  PROVE  LET k == [status |-> StatusAfterSuccess(h.status, n), failures |-> 0, successes |-> n]
         IN  k \in Observations /\ Settled(k)
  <1>1. /\ h.status \in ProviderStatus /\ h.successes \in 0 .. RecoveryThreshold
        /\ h.failures \in 0 .. FailureThreshold
    BY DEF Observations
  <1>2. n \in 1 .. RecoveryThreshold
    BY <1>1, ThresholdsAssumption DEF CountedTo
  <1>3. /\ StatusAfterSuccess(h.status, n) \in ProviderStatus \ {"unknown", "unavailable"}
        /\ n = RecoveryThreshold => StatusAfterSuccess(h.status, n) = "healthy"
    BY <1>1, <1>2, ThresholdsAssumption DEF StatusAfterSuccess, Settled, ProviderStatus
  <1>4. [status |-> StatusAfterSuccess(h.status, n), failures |-> 0, successes |-> n]
          \in Observations
    BY <1>2, <1>3, ThresholdsAssumption DEF Observations
  <1> QED  BY <1>2, <1>3, <1>4, ThresholdsAssumption DEF Settled

LEMMA FailureSettles ==
  ASSUME NEW h \in Observations, Settled(h),
         NEW n, n = CountedTo(FailureThreshold, h.failures + 1)
  PROVE  LET k == [status |-> StatusAfterFailure(h.status, n), failures |-> n, successes |-> 0]
         IN  k \in Observations /\ Settled(k)
  <1>1. /\ h.status \in ProviderStatus /\ h.successes \in 0 .. RecoveryThreshold
        /\ h.failures \in 0 .. FailureThreshold
    BY DEF Observations
  <1>2. /\ FailureThreshold \in Nat \ {0} /\ DegradedThreshold \in Nat \ {0}
        /\ RecoveryThreshold \in Nat \ {0} /\ DegradedThreshold <= FailureThreshold
    BY ThresholdsAssumption
  <1>3. n \in 1 .. FailureThreshold
    BY <1>1, <1>2 DEF CountedTo
  <1>4. StatusAfterFailure(h.status, n) =
          IF n >= FailureThreshold THEN "unavailable"
          ELSE IF n >= DegradedThreshold THEN "degraded" ELSE h.status
    BY DEF StatusAfterFailure
  <1> DEFINE k == [status |-> StatusAfterFailure(h.status, n), failures |-> n, successes |-> 0]
  <1>5. k \in Observations
    BY <1>1, <1>2, <1>3, <1>4 DEF Observations, ProviderStatus
  <1>6. CASE n = FailureThreshold
    BY <1>2, <1>3, <1>4, <1>5, <1>6 DEF Settled, Ok
  <1>7. CASE n # FailureThreshold /\ n >= DegradedThreshold
    BY <1>2, <1>3, <1>4, <1>5, <1>7 DEF Settled, Ok
  <1>8. CASE n # FailureThreshold /\ ~ (n >= DegradedThreshold)
    BY <1>2, <1>3, <1>4, <1>5, <1>8 DEF Settled, Ok
  <1> QED  BY <1>6, <1>7, <1>8

LEMMA ProbeSettles ==
  ASSUME NEW a \in {"ready", "degraded", "raised"}
  PROVE  Settled(Probed(ProbeStatus[a]))
  <1>1. ProbeStatus[a] \in {"healthy", "degraded", "unavailable"}
    BY DEF ProbeStatus
  <1> QED  BY <1>1, ThresholdsAssumption DEF Settled, Probed, Ok

(* What a step does to the health.                                         *)
LEMMA HealthStays ==
  ASSUME [Next]_vars, ~Probe, ~Request, ~End
  PROVE  /\ UNCHANGED health
         /\ (phase' \in {"notifying", "up"}) <=> (phase \in {"notifying", "up"})
  BY DEF Next, Start, Announce, HealthTask, HealthStep, CommandTask, CommandStep, NewUpdate, Tick,
         Unchanged, vars, life

LEMMA HealthKeeps ==
  ASSUME IInv, HealthSettled, [Next]_vars
  PROVE  HealthSettled'
  <1>h. health \in [Providers -> Observations \union {None}]
    BY DEF IInv, TypeOK
  <1>1. CASE Probe
    <2>1. PICK settings \in UniswapSettings : ProbeProviders(settings)
      BY <1>1 DEF Probe
    <2>2. PICK reached \in [Providers -> BOOLEAN] :
            health' = [p \in Providers |->
                         Probed(ProbeStatus[HealthCheck(p, settings, reached[p])])]
      BY <2>1 DEF ProbeProviders
    <2>3. ASSUME NEW p \in Providers
          PROVE  HealthCheck(p, settings, reached[p]) \in {"ready", "degraded", "raised"}
      <3>1. p \in {"oneinch", "zero_x", "velora", "uniswap"}
        BY ProvidersAssumption
      <3> QED
        BY <3>1 DEF HealthCheck, OneInchHealth, ZeroXHealth, VeloraHealth, UniswapHealth
    <2>4. ASSUME NEW p \in Providers PROVE health'[p] # None /\ Settled(health'[p])
      <3>1. Settled(health'[p])
        BY <2>2, <2>3, ProbeSettles
      <3>2. health'[p] \in Observations
        BY <2>1, ProbeType
      <3> QED  BY <3>1, <3>2, NoneAssumption
    <2>5. phase' = "notifying"
      BY <1>1 DEF Probe
    <2> QED  BY <2>4, <2>5 DEF HealthSettled
  <1>2. CASE Request
    <2>1. phase = "up" /\ phase' = phase
      BY <1>2 DEF Request, life
    <2>2. PICK q \in Providers : Observe(q)
      BY <1>2 DEF Request
    <2>3. health[q] # None /\ Known(q) = health[q] /\ health[q] \in Observations /\ Settled(health[q])
      BY <1>h, <2>1 DEF HealthSettled, Known
    <2>4. PICK k \in Observations : health' = [health EXCEPT ![q] = k] /\ Settled(k)
      <3>1. CASE RecordProviderSuccess(q)
        BY <2>3, <3>1, SuccessSettles DEF RecordProviderSuccess
      <3>2. CASE RecordProviderFailure(q)
        BY <2>3, <3>2, FailureSettles DEF RecordProviderFailure
      <3> QED  BY <2>2, <3>1, <3>2 DEF Observe
    <2>5. k # None
      BY <2>4, NoneIsNothing
    <2>6. \A p \in Providers : health'[p] = IF p = q THEN k ELSE health[p]
      BY <1>h, <2>4
    <2> QED  BY <2>1, <2>4, <2>5, <2>6 DEF HealthSettled
  <1>3. CASE End
    BY <1>3 DEF End, Forget, HealthSettled
  <1>4. CASE ~Probe /\ ~Request /\ ~End
    BY <1>4, HealthStays DEF HealthSettled
  <1> QED  BY <1>1, <1>2, <1>3, <1>4

(* HealthMonitor: the status that the messages report follows from what    *)
(* was counted since the start-up, for any thresholds.                     *)
THEOREM HealthFollowsCount == Spec => []HealthSettled
  <1>1. Init => HealthSettled
    BY DEF Init, HealthInit, HealthSettled
  <1>2. IInv /\ HealthSettled /\ [Next]_vars => HealthSettled'
    BY HealthKeeps
  <1> QED  BY <1>1, <1>2, IInvHolds, PTL DEF Spec

(* Between the probe and the end of a process, a provider becomes          *)
(* unavailable only with FailureThreshold failures in a row, leaves this   *)
(* state only by a success, and is good again after a bad state only by a  *)
(* success.  The exception: a failed probe counts one failure, so that     *)
(* later failures can raise what it found to "degraded".                   *)
Hysteresis(p) ==
    LET was == health[p]
        is == health'[p]
    IN  was # None /\ is # None =>
        /\ was.status # "unavailable" /\ is.status = "unavailable" =>
              is.failures = FailureThreshold
        /\ was.status = "unavailable" /\ is.status # "unavailable" =>
              \/ is.successes > 0 /\ is.failures = 0 /\ Ok(is.status)
              \/ /\ is.status = "degraded" /\ is.failures = was.failures + 1
                 /\ was.failures = 1 \/ was.failures < DegradedThreshold
        /\ ~Ok(was.status) /\ Ok(is.status) => is.successes > 0
        /\ Ok(was.status) /\ ~Ok(is.status) => is.failures >= DegradedThreshold

LEMMA SuccessIsHysteretic ==
  ASSUME NEW p \in Providers, health[p] \in Observations, Settled(health[p]), NEW n,
         n = CountedTo(RecoveryThreshold, health[p].successes + 1),
         health'[p] = [status |-> StatusAfterSuccess(health[p].status, n),
                       failures |-> 0, successes |-> n]
  PROVE  Hysteresis(p)
  <1>1. /\ health[p].status \in ProviderStatus \ {"unknown"}
        /\ health[p].successes \in 0 .. RecoveryThreshold
    BY DEF Observations, Settled
  <1>2. n \in 1 .. RecoveryThreshold
    BY <1>1, ThresholdsAssumption DEF CountedTo
  <1>3. /\ health'[p].status = StatusAfterSuccess(health[p].status, n)
        /\ health'[p].failures = 0 /\ health'[p].successes = n
    OBVIOUS
  <1>4. /\ health'[p].status # "unavailable"
        /\ ~Ok(health'[p].status) => ~Ok(health[p].status)
        /\ health[p].status = "unavailable" => Ok(health'[p].status)
    BY <1>1, <1>3 DEF StatusAfterSuccess, Ok, ProviderStatus
  <1> QED  BY <1>2, <1>3, <1>4 DEF Hysteresis

LEMMA FailureIsHysteretic ==
  ASSUME NEW p \in Providers, health[p] \in Observations, Settled(health[p]), NEW n,
         n = CountedTo(FailureThreshold, health[p].failures + 1),
         health'[p] = [status |-> StatusAfterFailure(health[p].status, n),
                       failures |-> n, successes |-> 0]
  PROVE  Hysteresis(p)
  <1>1. /\ health[p].status \in ProviderStatus
        /\ health[p].failures \in 0 .. FailureThreshold
    BY DEF Observations
  <1>2. /\ FailureThreshold \in Nat \ {0} /\ DegradedThreshold \in Nat \ {0}
        /\ DegradedThreshold <= FailureThreshold
    BY ThresholdsAssumption
  <1>3. n \in 1 .. FailureThreshold /\ (n < FailureThreshold => n = health[p].failures + 1)
    BY <1>1, <1>2 DEF CountedTo
  <1>4. /\ health'[p].failures = n
        /\ health'[p].status = IF n >= FailureThreshold THEN "unavailable"
             ELSE IF n >= DegradedThreshold THEN "degraded" ELSE health[p].status
    BY DEF StatusAfterFailure
  <1>5. CASE n = FailureThreshold
    BY <1>2, <1>4, <1>5 DEF Hysteresis, Ok
  <1>6. CASE n # FailureThreshold /\ n >= DegradedThreshold
    <2>1. n = health[p].failures + 1 /\ health'[p].status = "degraded"
      BY <1>2, <1>3, <1>4, <1>6
    <2>2. health[p].status = "unavailable" =>
            health[p].failures = 1 \/ health[p].failures < DegradedThreshold
      BY <1>1, <1>2, <1>3, <1>6, <2>1 DEF Settled
    <2> QED  BY <1>4, <1>6, <2>1, <2>2 DEF Hysteresis, Ok
  <1>7. CASE n # FailureThreshold /\ ~ (n >= DegradedThreshold)
    <2>1. health'[p].status = health[p].status
      BY <1>2, <1>3, <1>4, <1>7
    <2> QED  BY <2>1 DEF Hysteresis
  <1> QED  BY <1>5, <1>6, <1>7

(* HealthMonitor.record: a step changes the status of a provider only      *)
(* when its count of failures or of successes reaches its threshold.       *)
THEOREM HealthIsHysteretic == Spec => [][\A p \in Providers : Hysteresis(p)]_vars
  <1>1. ASSUME IInv, HealthSettled, [Next]_vars, NEW p \in Providers
        PROVE  Hysteresis(p)
    <2>h. health \in [Providers -> Observations \union {None}]
      BY <1>1 DEF IInv, TypeOK
    <2>1. CASE Probe
      <3>1. health[p] = None
        BY <1>1, <2>1 DEF Probe, HealthSettled
      <3> QED  BY <3>1 DEF Hysteresis
    <2>2. CASE Request
      <3>1. PICK q \in Providers : Observe(q)
        BY <2>2 DEF Request
      <3>2. health[q] # None /\ Known(q) = health[q] /\ health[q] \in Observations /\ Settled(health[q])
        BY <1>1, <2>h, <2>2 DEF HealthSettled, Known, Request
      <3>3. CASE p = q /\ RecordProviderSuccess(q)
        BY <2>h, <3>2, <3>3, SuccessIsHysteretic DEF RecordProviderSuccess
      <3>4. CASE p = q /\ RecordProviderFailure(q)
        BY <2>h, <3>2, <3>4, FailureIsHysteretic DEF RecordProviderFailure
      <3>5. CASE p # q
        <4>1. health'[p] = health[p]
          BY <2>h, <3>1, <3>5 DEF Observe, RecordProviderSuccess, RecordProviderFailure
        <4> QED  BY <4>1 DEF Hysteresis
      <3> QED  BY <3>1, <3>3, <3>4, <3>5 DEF Observe
    <2>3. CASE End
      <3>1. health'[p] = None
        BY <2>3 DEF End, Forget
      <3> QED  BY <3>1 DEF Hysteresis
    <2>4. CASE ~Probe /\ ~Request /\ ~End
      <3>1. health'[p] = health[p]
        BY <1>1, <2>4, HealthStays
      <3> QED  BY <3>1 DEF Hysteresis
    <2> QED  BY <2>1, <2>2, <2>3, <2>4
  <1>2. IInv /\ HealthSettled /\ [Next]_vars => \A p \in Providers : Hysteresis(p)
    BY <1>1
  <1> QED  BY <1>2, IInvHolds, HealthFollowsCount, PTL DEF Spec

-----------------------------------------------------------------------------
(* What was acknowledged is over.  A batch starts at the offset and its    *)
(* highest update is not behind it, so that the offset only moves on.      *)
Forward ==
    batch # Absent /\ offset # Absent =>
        /\ batch.highest # Absent /\ batch.highest + 1 >= offset
        /\ \A i \in 1 .. Len(batch.left) : batch.left[i] >= offset

(* CommandService._store_offset: the offset never falls, and an update     *)
(* before it is not handled again, by this process or by a later one.      *)
AcknowledgedIsOver ==
    offset # Absent =>
        /\ offset' # Absent /\ offset' >= offset
        /\ \A u \in Updates : u < offset => taken'[u] = taken[u]

(* Only four actions touch the commands.                                   *)
LEMMA CommandsMove ==
  ASSUME [Next]_vars
  PROVE  \/ Fetch \/ Handle \/ StoreOffset
         \/ UNCHANGED <<offset, batch, taken>>
         \/ batch' = Absent /\ UNCHANGED <<offset, taken>>
  BY DEF Next, vars, commands, Start, Probe, Announce, End, Forget, Request, HealthTask,
         HealthStep, Unchanged, CommandTask, CommandStep, NewUpdate, Arrive, Tick

LEMMA ForwardStep ==
  ASSUME IInv, Forward, [Next]_vars
  PROVE  Forward' /\ AcknowledgedIsOver
  <1>1. Commanded
    BY Halves
  <1>2. /\ batch \in Batches \union {Absent}
        /\ offset \in {Absent} \union 1 .. MaxUpdate + 1
        /\ offset # Absent => offset \in Nat /\ offset # Absent
    BY <1>1, UpdatesAssumption DEF Commanded
  <1>3. CASE Fetch
    <2>1. UNCHANGED <<offset, taken>>
          /\ batch' = [left |-> Pending, highest |-> IF offset = Absent THEN Absent ELSE offset - 1]
      BY <1>3 DEF Fetch
    <2>2. offset # Absent =>
            offset - 1 \in Nat /\ \A i \in 1 .. Len(Pending) : Pending[i] = offset + i - 1
      BY <1>1, <1>2, PendingUpdates
    <2>3. offset # Absent =>
            /\ batch'.left = Pending /\ batch'.highest = offset - 1
            /\ offset - 1 # Absent /\ (offset - 1) + 1 >= offset
      BY <1>2, <2>1, <2>2, AbsentAssumption
    <2>4. Len(Pending) \in Nat
      BY <1>1, PendingUpdates, LenProperties
    <2>5. offset # Absent => \A i \in 1 .. Len(Pending) : Pending[i] >= offset
      BY <1>2, <2>2, <2>4
    <2> QED  BY <1>2, <2>1, <2>3, <2>5 DEF Forward, AcknowledgedIsOver
  <1>4. CASE Handle
    <2> DEFINE s == batch.left
               u == Head(s)
    <2>1. s \in Seq(Updates) /\ s # <<>> /\ batch # Absent
      BY <1>2, <1>4 DEF Handle, Batches
    <2>2. u \in Updates /\ u = s[1] /\ 1 \in 1 .. Len(s)
      BY <2>1, HeadTailProperties
    <2>3. /\ Tail(s) \in Seq(Updates) /\ Len(Tail(s)) = Len(s) - 1
          /\ \A i \in 1 .. Len(Tail(s)) : Tail(s)[i] = s[i + 1]
      BY <2>1, HeadTailProperties
    <2>4. /\ offset' = offset
          /\ taken' = IF u \in handled THEN taken ELSE [taken EXCEPT ![u] = @ + 1]
          /\ batch' = [left |-> Tail(s), highest |-> u] \/ batch' = Absent
      BY <1>4 DEF Handle
    <2>5. offset # Absent => \A i \in 1 .. Len(s) : s[i] >= offset
      BY <2>1 DEF Forward
    <2>6. taken \in [Updates -> Nat]
      BY <1>1 DEF Commanded
    <2> HIDE DEF s, u
    <2>7. u \in Nat /\ u # Absent
      BY <2>2, UpdatesAssumption, AbsentAssumption DEF Updates
    <2>8. offset # Absent => u >= offset
      BY <2>2, <2>5
    <2>9. \A w \in Updates : w # u => taken'[w] = taken[w]
      BY <2>2, <2>4, <2>6
    <2>10. AcknowledgedIsOver
      <3> SUFFICES ASSUME offset # Absent PROVE AcknowledgedIsOver
        BY DEF AcknowledgedIsOver
      <3>1. ASSUME NEW w \in Updates, w < offset PROVE taken'[w] = taken[w]
        BY <1>2, <2>7, <2>8, <2>9, <3>1, UpdatesAssumption DEF Updates
      <3> QED  BY <1>2, <2>4, <3>1 DEF AcknowledgedIsOver
    <2>11. ASSUME batch' # Absent, offset # Absent PROVE Forward'
      <3>1. batch'.left = Tail(s) /\ batch'.highest = u
        BY <2>4, <2>11
      <3>2. \A i \in 1 .. Len(Tail(s)) : Tail(s)[i] >= offset
        <4> TAKE i \in 1 .. Len(Tail(s))
        <4>1. Len(s) \in Nat /\ i + 1 \in 1 .. Len(s)
          BY <2>1, <2>3, LenProperties
        <4> QED  BY <2>3, <2>5, <2>11, <4>1
      <3>3. u + 1 >= offset
        BY <1>2, <2>7, <2>8, <2>11
      <3> QED  BY <2>4, <2>7, <3>1, <3>2, <3>3 DEF Forward
    <2>12. batch' = Absent \/ offset = Absent => Forward'
      BY <2>4 DEF Forward
    <2> QED  BY <2>10, <2>11, <2>12
  <1>5. CASE StoreOffset
    <2>1. batch # Absent /\ batch' = Absent /\ taken' = taken
      BY <1>5 DEF StoreOffset
    <2>2. \/ offset' = offset
          \/ offset' = batch.highest + 1 /\ batch.highest # Absent
      BY <1>5 DEF StoreOffset
    <2>3. batch.highest # Absent => batch.highest + 1 \in Nat
      BY <1>2, <2>1, UpdatesAssumption DEF Batches
    <2>4. offset # Absent => offset' # Absent /\ offset' >= offset
      BY <1>2, <2>1, <2>2, <2>3, AbsentAssumption DEF Forward
    <2> QED  BY <2>1, <2>4 DEF Forward, AcknowledgedIsOver
  <1>6. CASE UNCHANGED <<offset, taken>> /\ (batch' = batch \/ batch' = Absent)
    BY <1>2, <1>6 DEF Forward, AcknowledgedIsOver
  <1> QED  BY <1>3, <1>4, <1>5, <1>6, CommandsMove

(* CommandService and TelegramCommandBot: a command that was acknowledged  *)
(* to Telegram never runs again, whatever crashes and failed polls follow. *)
THEOREM CommandsStayAcknowledged == Spec => [][AcknowledgedIsOver]_vars
  <1>1. Init => Forward
    BY DEF Init, CommandsInit, Forward
  <1>2. IInv /\ Forward /\ [Next]_vars => Forward' /\ AcknowledgedIsOver
    BY ForwardStep
  <1> QED  BY <1>1, <1>2, IInvHolds, PTL DEF Spec
================================================================================
