------------------------- MODULE NotificationProofs -------------------------
(***************************************************************************)
(* Proofs about the dispatcher, for any number of notifications, any       *)
(* limits and any number of errors and restarts.                           *)
(***************************************************************************)
EXTENDS NotificationDispatcher, FiniteSetTheorems, TLAPS

(***************************************************************************)
(* The inductive invariant.                                                *)
(***************************************************************************)
(* The notification whose attempt is under way. *)
Busy(n) == phase = "up" /\ step \in {"send", "accepted", "record", "update"} /\ IsCurrent(n)

Phases ==
  /\ phase # "up" => step = "idle"
  /\ phase = "down" => restarts < MaxRestarts
  /\ step = "idle" /\ phase # "recovery" => batch = {}

(* The rows of a batch: none of them is settled. *)
Row(n) ==
  /\ phase = "recovery" /\ n \in batch => status[n] = "sending"
  /\ phase = "up" /\ n \in batch =>
       IF Busy(n) /\ n \notin Undeliverable
       THEN status[n] = "sending" ELSE status[n] \in Pending

(* What the suspended pass knows of the attempt under way. *)
UnderWay(n) ==
  Busy(n) =>
    /\ step \in {"send", "accepted"} => n \notin Undeliverable
    /\ number = IF n \in Undeliverable THEN count[n] + 1 ELSE count[n]
    /\ step = "accepted" => received[n]
    /\ step \in {"record", "update"} =>
         /\ outcome = "sent" => received[n] /\ n \notin Undeliverable
         /\ outcome = "retry_wait" => number < MaxAttempts /\ n \notin Undeliverable
    /\ step = "update" => [number |-> number, status |-> outcome] \in log[n]

(* The attempts and the confirmations a row has had, of those its limit    *)
(* and the restarts allow.                                                 *)
Within(n, attempts, confirmed) ==
  count[n] <= attempts + restarts /\ Cardinality(Successes(n)) <= confirmed + restarts

Budget(n) ==
  /\ IsFiniteSet(Successes(n))
  /\ Within(n, MaxAttempts, 1)
  /\ status[n] \in Pending \union {"none"} => Within(n, MaxAttempts - 1, 0)
  /\ status[n] = "sending" /\ phase = "recovery" => Within(n, MaxAttempts - 1, 0)
  /\ Busy(n) /\ ~ (step = "update" /\ outcome = "sent") => Within(n, MaxAttempts, 0)

Confirmed(n) ==
  status[n] = "sent" =>
    received[n] /\ [number |-> count[n], status |-> "sent"] \in log[n]

IInv ==
  /\ TypeOK
  /\ Phases
  /\ \A n \in Notifications :
       Row(n) /\ UnderWay(n) /\ Budget(n) /\ Confirmed(n)
-----------------------------------------------------------------------------
(* One notification is under way at most. *)
LEMMA OneCurrent ==
  ASSUME TypeOK, NEW n \in Notifications, NEW m \in Notifications,
         IsCurrent(n), IsCurrent(m)
  PROVE  n = m
  BY DispatcherAssumption DEF IsCurrent

LEMMA InitIInv == Init => IInv
  <1> SUFFICES ASSUME Init PROVE IInv
    OBVIOUS
  <1>1. TypeOK
    BY DispatcherAssumption DEF Init, TypeOK, Outcome, Pending, Settled
  <1>2. Phases
    BY DEF Init, Phases
  <1>3. ASSUME NEW n \in Notifications
        PROVE  Row(n) /\ UnderWay(n) /\ Budget(n) /\ Confirmed(n)
    <2>1. Successes(n) = {}
      BY DEF Init, Successes
    <2>2. Budget(n)
      BY <2>1, FS_EmptySet, DispatcherAssumption DEF Init, Budget, Within, Busy
    <2> QED  BY <2>2 DEF Init, Row, UnderWay, Confirmed, Busy
  <1> QED  BY <1>1, <1>2, <1>3 DEF IInv

LEMMA NextTypes ==
  ASSUME IInv, [Next]_vars
  PROVE  TypeOK'
  <1> USE DispatcherAssumption DEF TypeOK, database, pass, bounds, Pending, Settled,
          Outcome, At, EndPass, IsCurrent
  <1> TypeOK /\ Phases
    BY DEF IInv
  <1>1. ASSUME NEW n \in Notifications, Queue(n) PROVE TypeOK'
    BY <1>1 DEF Queue
  <1>2. ASSUME NEW n \in Notifications, BecomeReady(n) PROVE TypeOK'
    BY <1>2 DEF BecomeReady
  <1>3. CASE Claim
    BY <1>3 DEF Claim, FirstOf, Claimable
  <1>4. ASSUME NEW n \in Notifications, MarkSending(n) PROVE TypeOK'
    BY <1>4 DEF MarkSending
  <1>5. ASSUME NEW n \in Notifications, Refuse(n) PROVE TypeOK'
    BY <1>5 DEF Refuse
  <1>6. ASSUME NEW n \in Notifications, Accept(n) PROVE TypeOK'
    BY <1>6 DEF Accept
  <1>7. ASSUME NEW n \in Notifications, GetReceipt(n) PROVE TypeOK'
    BY <1>7 DEF GetReceipt, AfterError
  <1>8. ASSUME NEW n \in Notifications, RecordAttempt(n) PROVE TypeOK'
    <2>1. [number |-> number, status |-> outcome] \in Attempt
      BY DEF Attempt
    <2>2. log' \in [Notifications -> SUBSET Attempt]
      BY <1>8, <2>1 DEF RecordAttempt
    <2> QED  BY <1>8, <2>2 DEF RecordAttempt
  <1>9. ASSUME NEW n \in Notifications, UpdateState(n) PROVE TypeOK'
    BY <1>9 DEF UpdateState
  <1>10. CASE PassFails
    BY <1>10 DEF PassFails
  <1>11. CASE Stop
    BY <1>11 DEF Stop
  <1>12. CASE StartRecovery
    BY <1>12 DEF StartRecovery, FirstOf, Phases
  <1>13. ASSUME NEW n \in Notifications, Requeue(n) PROVE TypeOK'
    BY <1>13 DEF Requeue
  <1>14. CASE FinishRecovery
    BY <1>14 DEF FinishRecovery
  <1>15. CASE UNCHANGED vars
    BY <1>15 DEF vars
  <1> QED
    BY <1>1, <1>2, <1>3, <1>4, <1>5, <1>6, <1>7, <1>8, <1>9, <1>10, <1>11,
       <1>12, <1>13, <1>14, <1>15 DEF Next, Deliver
-----------------------------------------------------------------------------
(* What a step of the pass under way keeps. *)
Kept ==
  Phases' /\ \A n \in Notifications :
               Row(n)' /\ UnderWay(n)' /\ Budget(n)' /\ Confirmed(n)'

LEMMA QueueKeeps ==
  ASSUME IInv, NEW n \in Notifications, Queue(n)
  PROVE  Kept
  <1>t. TypeOK
    BY DEF IInv
  <1>1. /\ status[n] = "none" /\ status'[n] = "queued"
        /\ \A m \in Notifications \ {n} : status'[m] = status[m]
        /\ UNCHANGED <<count, log, received, phase, batch, step, number, outcome, bounds>>
    BY <1>t DEF Queue, TypeOK
  <1>2. n \notin batch
    BY <1>1 DEF IInv, Row, Pending, Queue
  <1>3. Row(n)' /\ UnderWay(n)' /\ Confirmed(n)'
    BY <1>1, <1>2 DEF Row, UnderWay, Confirmed, Busy, IsCurrent
  <1>4. Budget(n)'
    BY <1>1, <1>2 DEF IInv, Budget, Within, Successes, Busy, IsCurrent, bounds
  <1>5. ASSUME NEW m \in Notifications \ {n}
        PROVE  Row(m)' /\ UnderWay(m)' /\ Budget(m)' /\ Confirmed(m)'
    BY <1>1 DEF IInv, Row, UnderWay, Confirmed, Budget, Within, Successes, Busy,
                IsCurrent, bounds
  <1>6. Phases'
    BY <1>1 DEF IInv, Phases, bounds
  <1> QED  BY <1>3, <1>4, <1>5, <1>6 DEF Kept

LEMMA StutterKeeps ==
  ASSUME IInv, (\E n \in Notifications : BecomeReady(n)) \/ UNCHANGED vars
  PROVE  Kept
  <1>1. UNCHANGED <<status, count, log, received, phase, batch, step, number, outcome, bounds>>
    BY DEF BecomeReady, vars, database, pass
  <1> QED
    BY <1>1 DEF IInv, Kept, Phases, Row, UnderWay, Confirmed, Budget, Within,
                Successes, Busy, IsCurrent, bounds

(* A pass or a recovery begins. *)
LEMMA ClaimKeeps ==
  ASSUME IInv, Claim
  PROVE  Kept
  <1>1. /\ batch' \subseteq Claimable /\ step' = "next" /\ phase = "up"
        /\ UNCHANGED <<status, count, log, received, phase, number, outcome, bounds>>
    BY DEF Claim, FirstOf, database
  <1>2. step = "idle"
    BY DEF Claim
  <1> QED
    BY <1>1, <1>2 DEF IInv, Kept, Phases, Row, UnderWay, Confirmed, Budget, Within,
                Successes, Busy, bounds, Claimable

LEMMA RecoveryKeeps ==
  ASSUME IInv, StartRecovery
  PROVE  Kept
  <1>t. TypeOK
    BY DEF IInv
  <1>1. /\ phase = "down" /\ phase' = "recovery" /\ restarts' = restarts + 1
        /\ batch' \subseteq {n \in Notifications : status[n] = "sending"}
        /\ UNCHANGED <<status, count, log, received, step>>
    BY DEF StartRecovery, FirstOf, database
  <1>2. Phases' /\ \A n \in Notifications : Row(n)' /\ UnderWay(n)' /\ Confirmed(n)'
    BY <1>1 DEF IInv, Phases, Row, UnderWay, Confirmed, Busy
  <1>3. ASSUME NEW n \in Notifications PROVE Budget(n)'
    <2>1. IsFiniteSet(Successes(n)) /\ Within(n, MaxAttempts, 1)
      BY DEF IInv, Budget
    <2>2. Cardinality(Successes(n)) \in Nat
      BY <2>1, FS_CardinalityType
    <2>3. Successes(n)' = Successes(n)
      BY <1>1 DEF Successes
    <2>4. Within(n, MaxAttempts - 1, 0)' /\ Within(n, MaxAttempts, 1)'
      BY <1>1, <1>t, <2>1, <2>2, <2>3, DispatcherAssumption DEF Within, TypeOK
    <2> QED  BY <1>1, <2>1, <2>3, <2>4 DEF Budget, Busy
  <1> QED  BY <1>2, <1>3 DEF Kept

(* A pass ends by an error or with the process; the rows stay as they are. *)
LEMMA EndKeeps ==
  ASSUME IInv, PassFails \/ Stop \/ FinishRecovery
  PROVE  Kept
  <1>1. /\ phase' # "recovery" /\ batch' = {} /\ step' = "idle" /\ restarts' = restarts
        /\ UNCHANGED <<status, count, log, received>>
        /\ phase' = "down" => restarts < MaxRestarts
    BY DEF IInv, Phases, PassFails, Stop, FinishRecovery, EndPass, bounds, database, pass
  <1> QED
    BY <1>1 DEF IInv, Kept, Phases, Row, UnderWay, Confirmed, Budget, Within,
                Successes, Busy

(* The recovery requeues a row: a restart pays for the attempt. *)
LEMMA RequeueKeeps ==
  ASSUME IInv, NEW n \in Notifications, Requeue(n)
  PROVE  Kept
  <1>t. TypeOK
    BY DEF IInv
  <1>1. /\ phase = "recovery" /\ n \in batch /\ batch' = batch \ {n} /\ status'[n] = "queued"
        /\ \A m \in Notifications \ {n} : status'[m] = status[m]
        /\ UNCHANGED <<count, log, received, phase, step, number, outcome, bounds>>
    BY <1>t DEF Requeue, IsCurrent, TypeOK
  <1>2. status[n] = "sending"
    BY <1>1 DEF IInv, Row
  <1>3. Phases' /\ \A m \in Notifications : Row(m)' /\ UnderWay(m)' /\ Confirmed(m)'
    BY <1>1 DEF IInv, Phases, Row, UnderWay, Confirmed, Busy, bounds
  <1>4. ASSUME NEW m \in Notifications PROVE Budget(m)'
    BY <1>1, <1>2 DEF IInv, Budget, Within, Successes, Busy, bounds
  <1> QED  BY <1>3, <1>4 DEF Kept
-----------------------------------------------------------------------------
(* A step of the pass at the current notification leaves the others alone. *)
LEMMA OthersKeep ==
  ASSUME IInv, NEW n \in Notifications, phase = "up", IsCurrent(n),
         NEW m \in Notifications \ {n},
         status'[m] = status[m], count'[m] = count[m], log'[m] = log[m],
         received'[m] = received[m], phase' = phase, restarts' = restarts,
         batch' = batch \/ (batch' = batch \ {n} /\ step' \in {"next", "idle"})
  PROVE  Row(m)' /\ UnderWay(m)' /\ Budget(m)' /\ Confirmed(m)'
  <1>1. ~ IsCurrent(m)
    BY OneCurrent DEF IInv
  <1>2. ~ Busy(m) /\ ~ Busy(m)'
    BY <1>1 DEF Busy, IsCurrent
  <1>3. Row(m)' /\ UnderWay(m)' /\ Confirmed(m)'
    BY <1>2 DEF IInv, Row, UnderWay, Confirmed
  <1>4. Budget(m)'
    BY <1>2 DEF IInv, Budget, Within, Successes
  <1> QED  BY <1>3, <1>4

LEMMA MarkSendingKeeps ==
  ASSUME IInv, NEW n \in Notifications, MarkSending(n)
  PROVE  Kept
  <1>t. TypeOK
    BY DEF IInv
  <1>1. /\ phase = "up" /\ step = "next" /\ IsCurrent(n) /\ n \notin Undeliverable
        /\ number' = count[n] + 1 /\ status'[n] = "sending" /\ count'[n] = count[n] + 1
        /\ \A m \in Notifications \ {n} : status'[m] = status[m] /\ count'[m] = count[m]
        /\ step' = "send"
        /\ UNCHANGED <<log, received, phase, batch, outcome, restarts>>
    BY <1>t DEF MarkSending, At, TypeOK, bounds
  <1>2. ASSUME NEW m \in Notifications \ {n}
        PROVE  Row(m)' /\ UnderWay(m)' /\ Budget(m)' /\ Confirmed(m)'
    BY <1>1, OthersKeep
  <1>3. status[n] \in Pending
    BY <1>1 DEF IInv, Row, Busy, IsCurrent
  <1>4. Row(n)' /\ UnderWay(n)' /\ Confirmed(n)'
    BY <1>1 DEF Row, UnderWay, Confirmed, Busy, IsCurrent
  <1>5. Budget(n)'
    <2>1. IsFiniteSet(Successes(n)) /\ Within(n, MaxAttempts - 1, 0)
      BY <1>3 DEF IInv, Budget
    <2>2. Successes(n)' = Successes(n) /\ Cardinality(Successes(n)) \in Nat
      BY <1>1, <2>1, FS_CardinalityType DEF Successes
    <2>3. Within(n, MaxAttempts, 0)' /\ Within(n, MaxAttempts, 1)'
      BY <1>1, <1>t, <2>1, <2>2, DispatcherAssumption DEF Within, TypeOK
    <2> QED  BY <1>1, <2>1, <2>2, <2>3 DEF Budget, Pending
  <1>6. Phases'
    BY <1>1 DEF IInv, Phases
  <1> QED  BY <1>2, <1>4, <1>5, <1>6 DEF Kept

LEMMA RefuseKeeps ==
  ASSUME IInv, NEW n \in Notifications, Refuse(n)
  PROVE  Kept
  <1>1. /\ phase = "up" /\ step = "next" /\ IsCurrent(n) /\ n \in Undeliverable
        /\ number' = count[n] + 1 /\ outcome' = "failed" /\ step' = "record"
        /\ UNCHANGED <<status, count, log, received, phase, batch, restarts>>
    BY DEF Refuse, At, bounds, database
  <1>2. ASSUME NEW m \in Notifications \ {n}
        PROVE  Row(m)' /\ UnderWay(m)' /\ Budget(m)' /\ Confirmed(m)'
    BY <1>1, OthersKeep
  <1>3. status[n] \in Pending
    BY <1>1 DEF IInv, Row, Busy, IsCurrent
  <1>4. Row(n)' /\ UnderWay(n)' /\ Confirmed(n)'
    BY <1>1, <1>3 DEF IInv, Row, UnderWay, Confirmed, Busy, IsCurrent
  <1>5. Budget(n)'
    <2>1. Budget(n) /\ Within(n, MaxAttempts - 1, 0)
      BY <1>3 DEF IInv, Budget
    <2>2. Successes(n)' = Successes(n)
      BY <1>1 DEF Successes
    <2>3. Within(n, MaxAttempts, 0)'
      BY <1>1, <2>1, <2>2 DEF Budget, Within
    <2> QED  BY <1>1, <1>3, <2>1, <2>2, <2>3 DEF Budget, Within
  <1>6. Phases'
    BY <1>1 DEF IInv, Phases
  <1> QED  BY <1>2, <1>4, <1>5, <1>6 DEF Kept

LEMMA AcceptKeeps ==
  ASSUME IInv, NEW n \in Notifications, Accept(n)
  PROVE  Kept
  <1>t. TypeOK
    BY DEF IInv
  <1>1. /\ phase = "up" /\ step = "send" /\ IsCurrent(n)
        /\ received'[n] /\ \A m \in Notifications \ {n} : received'[m] = received[m]
        /\ step' = "accepted"
        /\ UNCHANGED <<status, count, log, phase, batch, number, outcome, restarts>>
    BY <1>t DEF Accept, At, bounds, database, TypeOK
  <1>2. ASSUME NEW m \in Notifications \ {n}
        PROVE  Row(m)' /\ UnderWay(m)' /\ Budget(m)' /\ Confirmed(m)'
    BY <1>1, OthersKeep
  <1>3. Row(n)' /\ UnderWay(n)' /\ Confirmed(n)'
    BY <1>1 DEF IInv, Row, UnderWay, Confirmed, Busy, IsCurrent
  <1>4. Budget(n)'
    BY <1>1 DEF IInv, Budget, Within, Successes, Busy, IsCurrent
  <1>5. Phases'
    BY <1>1 DEF IInv, Phases
  <1> QED  BY <1>2, <1>3, <1>4, <1>5 DEF Kept

LEMMA GetReceiptKeeps ==
  ASSUME IInv, NEW n \in Notifications, GetReceipt(n)
  PROVE  Kept
  <1>1. /\ phase = "up" /\ step \in {"send", "accepted"} /\ IsCurrent(n)
        /\ outcome' = "sent" => step = "accepted"
        /\ outcome' = "retry_wait" => number < MaxAttempts
        /\ step' = "record"
        /\ UNCHANGED <<status, count, log, received, phase, batch, number, restarts>>
    BY DEF GetReceipt, AfterError, At, bounds, database
  <1>2. ASSUME NEW m \in Notifications \ {n}
        PROVE  Row(m)' /\ UnderWay(m)' /\ Budget(m)' /\ Confirmed(m)'
    BY <1>1, OthersKeep
  <1>3. Row(n)' /\ UnderWay(n)' /\ Confirmed(n)'
    BY <1>1 DEF IInv, Row, UnderWay, Confirmed, Busy, IsCurrent
  <1>4. Budget(n)'
    BY <1>1 DEF IInv, Budget, Within, Successes, Busy, IsCurrent
  <1>5. Phases'
    BY <1>1 DEF IInv, Phases
  <1> QED  BY <1>2, <1>3, <1>4, <1>5 DEF Kept

LEMMA RecordKeeps ==
  ASSUME IInv, NEW n \in Notifications, RecordAttempt(n)
  PROVE  Kept
  <1>t. TypeOK
    BY DEF IInv
  <1>1. /\ phase = "up" /\ step = "record" /\ IsCurrent(n)
        /\ UNCHANGED <<status, count, received, phase, restarts>>
    BY DEF RecordAttempt, At, bounds
  <1>2. CASE \E a \in log[n] : a.number = number
    <2>1. batch' = {} /\ step' = "idle" /\ log' = log
      BY <1>2 DEF RecordAttempt, EndPass
    <2> QED
      BY <1>1, <2>1 DEF IInv, Kept, Phases, Row, UnderWay, Confirmed, Budget,
                         Within, Successes, Busy
  <1>3. CASE ~ \E a \in log[n] : a.number = number
    <2> DEFINE row == [number |-> number, status |-> outcome]
    <2>1. /\ log'[n] = log[n] \union {row}
          /\ \A m \in Notifications \ {n} : log'[m] = log[m]
          /\ step' = "update" /\ UNCHANGED <<batch, number, outcome>>
      BY <1>3, <1>t DEF RecordAttempt, TypeOK
    <2>2. ASSUME NEW m \in Notifications \ {n}
          PROVE  Row(m)' /\ UnderWay(m)' /\ Budget(m)' /\ Confirmed(m)'
      BY <1>1, <2>1, OthersKeep
    <2>3. Row(n)' /\ UnderWay(n)' /\ Confirmed(n)'
      BY <1>1, <2>1 DEF IInv, Row, UnderWay, Confirmed, Busy, IsCurrent
    <2>4. Budget(n)'
      <3>1. Budget(n) /\ Within(n, MaxAttempts, 0)
        BY <1>1 DEF IInv, Budget, Busy
      <3>2. IsFiniteSet(Successes(n)) /\ Cardinality(Successes(n)) \in Nat
        BY <3>1, FS_CardinalityType DEF Budget
      <3>3. CASE outcome # "sent"
        <4>1. Successes(n)' = Successes(n)
          BY <2>1, <3>3 DEF Successes
        <4> QED  BY <1>1, <2>1, <3>1, <4>1 DEF Budget, Within
      <3>4. CASE outcome = "sent"
        <4>1. Successes(n)' = Successes(n) \union {row}
          BY <2>1, <3>4 DEF Successes
        <4> HIDE DEF row
        <4>2. /\ IsFiniteSet(Successes(n) \union {row})
              /\ Cardinality(Successes(n) \union {row}) =
                   IF row \in Successes(n) THEN Cardinality(Successes(n))
                   ELSE Cardinality(Successes(n)) + 1
          BY <3>2, FS_AddElement
        <4>3. Cardinality(Successes(n) \union {row}) <= Cardinality(Successes(n)) + 1
          BY <3>2, <4>2
        <4>4. Within(n, MaxAttempts, 1)'
          <5>1. Cardinality(Successes(n) \union {row}) \in Nat
            BY <4>2, FS_CardinalityType
          <5> QED
            BY <1>1, <1>t, <3>1, <3>2, <4>1, <4>3, <5>1, DispatcherAssumption
               DEF Within, TypeOK
        <4>5. status[n] = "sending"
          BY <1>1, <3>4 DEF IInv, UnderWay, Row, Busy, IsCurrent
        <4> QED  BY <1>1, <2>1, <3>4, <4>1, <4>2, <4>4, <4>5 DEF Budget, Pending
      <3> QED  BY <3>3, <3>4
    <2>5. Phases'
      BY <1>1, <2>1 DEF IInv, Phases
    <2> QED  BY <2>2, <2>3, <2>4, <2>5 DEF Kept
  <1> QED  BY <1>2, <1>3

LEMMA UpdateKeeps ==
  ASSUME IInv, NEW n \in Notifications, UpdateState(n)
  PROVE  Kept
  <1>t. TypeOK
    BY DEF IInv
  <1>1. /\ phase = "up" /\ step = "update" /\ IsCurrent(n)
        /\ status'[n] = outcome /\ count'[n] = number
        /\ \A m \in Notifications \ {n} : status'[m] = status[m] /\ count'[m] = count[m]
        /\ batch' = batch \ {n}
        /\ step' = IF batch = {n} THEN "idle" ELSE "next"
        /\ UNCHANGED <<log, received, phase, number, outcome, restarts>>
    BY <1>t DEF UpdateState, At, bounds, TypeOK
  <1>2. ASSUME NEW m \in Notifications \ {n}
        PROVE  Row(m)' /\ UnderWay(m)' /\ Budget(m)' /\ Confirmed(m)'
    BY <1>1, OthersKeep
  <1>3. /\ number = IF n \in Undeliverable THEN count[n] + 1 ELSE count[n]
        /\ outcome = "sent" => received[n] /\ n \notin Undeliverable
        /\ outcome = "retry_wait" => number < MaxAttempts /\ n \notin Undeliverable
        /\ [number |-> number, status |-> outcome] \in log[n]
    BY <1>1 DEF IInv, UnderWay, Busy
  <1>4. ~ Busy(n)' /\ n \notin batch'
    BY <1>1 DEF Busy, IsCurrent
  <1>5. Row(n)' /\ UnderWay(n)' /\ Confirmed(n)'
    BY <1>1, <1>3, <1>4 DEF Row, UnderWay, Confirmed
  <1>6. Budget(n)'
    <2>1. /\ IsFiniteSet(Successes(n)) /\ Within(n, MaxAttempts, 1)
          /\ outcome # "sent" => Within(n, MaxAttempts, 0)
          /\ n \in Undeliverable => Within(n, MaxAttempts - 1, 0)
      BY <1>1 DEF IInv, Budget, Row, Busy, IsCurrent
    <2>2. Successes(n)' = Successes(n) /\ Cardinality(Successes(n)) \in Nat
      BY <1>1, <2>1, FS_CardinalityType DEF Successes
    <2>3. Within(n, MaxAttempts, 1)'
      BY <1>1, <1>3, <1>t, <2>1, <2>2, DispatcherAssumption DEF Within, TypeOK
    <2>4. outcome = "retry_wait" => Within(n, MaxAttempts - 1, 0)'
      BY <1>1, <1>3, <1>t, <2>1, <2>2, DispatcherAssumption DEF Within, TypeOK
    <2>5. outcome \in {"sent", "retry_wait", "failed"}
      BY <1>t DEF TypeOK, Outcome
    <2> QED  BY <1>1, <1>4, <2>1, <2>2, <2>3, <2>4, <2>5 DEF Budget, Pending
  <1>7. Phases'
    BY <1>1 DEF IInv, Phases
  <1> QED  BY <1>2, <1>5, <1>6, <1>7 DEF Kept

LEMMA NextIInv == IInv /\ [Next]_vars => IInv'
  <1> SUFFICES ASSUME IInv, [Next]_vars PROVE IInv'
    OBVIOUS
  <1>1. Kept
    BY QueueKeeps, StutterKeeps, ClaimKeeps, RecoveryKeeps, EndKeeps, RequeueKeeps,
       MarkSendingKeeps, RefuseKeeps, AcceptKeeps, GetReceiptKeeps, RecordKeeps,
       UpdateKeeps DEF Next, Deliver
  <1> QED  BY <1>1, NextTypes DEF IInv, Kept
-----------------------------------------------------------------------------
(* The inductive invariant holds in every reachable state.                 *)
THEOREM DeliveryInvariantHolds == Spec => []IInv
  BY InitIInv, NextIInv, PTL DEF Spec

(* Type correctness of the dispatcher and of its rows.                     *)
THEOREM DispatcherTypes == Spec => []TypeOK
  <1>1. IInv => TypeOK
    BY DEF IInv
  <1> QED  BY <1>1, DeliveryInvariantHolds, PTL

(* A notification counts as sent only when Telegram has accepted it and    *)
(* the attempt that says so is recorded (dispatcher.py, _apply).           *)
THEOREM SentOnlyIfConfirmed == Spec => []SentIsConfirmed
  <1>1. IInv => SentIsConfirmed
    BY DEF IInv, Confirmed, SentIsConfirmed
  <1> QED  BY <1>1, DeliveryInvariantHolds, PTL

(* max_attempts is exceeded only by the restarts that found a delivery     *)
(* under way.                                                              *)
THEOREM AttemptsAreBounded == Spec => []AttemptsBounded
  <1>1. IInv => AttemptsBounded
    BY DEF IInv, Budget, Within, AttemptsBounded
  <1> QED  BY <1>1, DeliveryInvariantHolds, PTL

(* A confirmed message is sent again only because of a restart.            *)
THEOREM RepetitionNeedsRestart == Spec => []RepeatedOnlyByRestart
  <1>1. IInv => RepeatedOnlyByRestart
    BY DEF IInv, Budget, Within, RepeatedOnlyByRestart
  <1> QED  BY <1>1, DeliveryInvariantHolds, PTL

(* No pass and no recovery touches a settled notification, although        *)
(* update_delivery_state has no condition on the old status.               *)
THEOREM SettledNeverMoves == Spec => SettledStays
  <1>1. ASSUME IInv, [Next]_vars, NEW n \in Notifications, status[n] \in Settled
        PROVE  status'[n] = status[n]
    <2>t. TypeOK
      BY <1>1 DEF IInv
    <2>1. n \notin batch
      BY <1>1, <2>t DEF IInv, Row, Phases, Settled, Pending, TypeOK
    <2>2. ASSUME NEW m \in Notifications, Queue(m) PROVE status'[n] = status[n]
      BY <1>1, <2>2, <2>t DEF Queue, Settled, TypeOK
    <2>3. ASSUME NEW m \in Notifications,
                 MarkSending(m) \/ UpdateState(m) \/ Requeue(m)
          PROVE  status'[n] = status[n]
      BY <2>1, <2>3, <2>t DEF MarkSending, UpdateState, Requeue, At, IsCurrent, TypeOK
    <2>4. ASSUME ~ \E m \in Notifications :
                     Queue(m) \/ MarkSending(m) \/ UpdateState(m) \/ Requeue(m)
          PROVE  status'[n] = status[n]
      BY <1>1, <2>4 DEF Next, Deliver, BecomeReady, Refuse, GetReceipt, RecordAttempt,
             Accept, Claim, PassFails, Stop, StartRecovery, FinishRecovery, vars, database
    <2> QED  BY <2>2, <2>3, <2>4
  <1>2. IInv /\ [Next]_vars =>
          [\A n \in Notifications : status[n] \in Settled => status'[n] = status[n]]_vars
    BY <1>1
  <1> QED  BY <1>2, DeliveryInvariantHolds, PTL DEF Spec, SettledStays
-----------------------------------------------------------------------------
(***************************************************************************)
(* The order.  A queued notification may be claimed at once, so a batch    *)
(* that holds a notification holds every earlier one that was queued.      *)
(***************************************************************************)
Prompt ==
  \A n \in Notifications : status[n] \in {"none", "queued", "sending"} => ready[n]

Ordered ==
  \A n, m \in Notifications :
    phase = "up" /\ n \in batch /\ m < n /\ m \notin fresh /\ status[m] = "queued"
      => m \in batch

LEMMA FirstOfIsInitial ==
  ASSUME NEW rows \in SUBSET Notifications, NEW limit \in Nat,
         NEW n \in FirstOf(rows, limit), NEW m \in rows, m < n
  PROVE  m \in FirstOf(rows, limit)
  <1> DEFINE below(x) == {k \in rows : k < x}
  <1>0. /\ n \in rows /\ Cardinality(below(n)) < limit
        /\ Cardinality(below(m)) < limit => m \in FirstOf(rows, limit)
    BY Zenon DEF FirstOf
  <1>n. rows \subseteq Nat
    BY DispatcherAssumption
  <1>1. below(m) \subseteq below(n) /\ below(n) \subseteq Notifications
    <2>1. m \in Nat /\ n \in Nat /\ \A k \in rows : k \in Nat /\ (k < m => k < n)
      BY <1>0, <1>n
    <2> QED  BY <2>1, Zenon
  <1>2. IsFiniteSet(below(n))
    BY <1>1, FS_Subset, DispatcherAssumption
  <1>3. IsFiniteSet(below(m)) /\ Cardinality(below(m)) <= Cardinality(below(n))
    BY <1>1, <1>2, FS_Subset
  <1>4. Cardinality(below(m)) \in Nat /\ Cardinality(below(n)) \in Nat
    BY <1>2, <1>3, FS_CardinalityType
  <1> QED  BY <1>0, <1>3, <1>4

LEMMA NextOrdered ==
  ASSUME IInv, Prompt, Ordered, [Next]_vars
  PROVE  Prompt' /\ Ordered'
  <1> USE DEF Prompt, Ordered, database, pass, bounds, At, EndPass, IsCurrent
  <1>t. TypeOK
    BY DEF IInv
  <1>1. ASSUME NEW n \in Notifications, Queue(n) PROVE Prompt' /\ Ordered'
    BY <1>1, <1>t DEF Queue, TypeOK
  <1>2. ASSUME NEW n \in Notifications, BecomeReady(n) PROVE Prompt' /\ Ordered'
    BY <1>2, <1>t DEF BecomeReady, TypeOK
  <1>3. CASE Claim
    <2>1. /\ batch' = FirstOf(Claimable, QueueCapacity)
          /\ UNCHANGED <<database, phase>>
      BY <1>3 DEF Claim
    <2>2. \A m \in Notifications : status[m] = "queued" => m \in Claimable
      BY DEF Claimable, Pending
    <2>3. Claimable \subseteq Notifications /\ QueueCapacity \in Nat
      BY DispatcherAssumption DEF Claimable
    <2> QED  BY <2>1, <2>2, <2>3, FirstOfIsInitial
  <1>4. ASSUME NEW n \in Notifications, MarkSending(n) PROVE Prompt' /\ Ordered'
    BY <1>4, <1>t DEF MarkSending, TypeOK
  <1>5. ASSUME NEW n \in Notifications, Refuse(n) \/ Accept(n) \/ GetReceipt(n)
        PROVE Prompt' /\ Ordered'
    BY <1>5 DEF Refuse, Accept, GetReceipt
  <1>6. ASSUME NEW n \in Notifications, RecordAttempt(n) PROVE Prompt' /\ Ordered'
    BY <1>6 DEF RecordAttempt
  <1>7. ASSUME NEW n \in Notifications, UpdateState(n) PROVE Prompt' /\ Ordered'
    <2>1. outcome \notin {"none", "queued", "sending"}
      BY <1>t DEF TypeOK, Outcome
    <2> QED  BY <1>7, <1>t, <2>1 DEF UpdateState, TypeOK
  <1>8. CASE PassFails \/ Stop \/ StartRecovery \/ FinishRecovery
    BY <1>8 DEF PassFails, Stop, StartRecovery, FinishRecovery
  <1>9. ASSUME NEW n \in Notifications, Requeue(n) PROVE Prompt' /\ Ordered'
    BY <1>9, <1>t DEF Requeue, TypeOK
  <1>10. CASE UNCHANGED vars
    BY <1>10 DEF vars
  <1> QED
    BY <1>1, <1>2, <1>3, <1>4, <1>5, <1>6, <1>7, <1>8, <1>9, <1>10 DEF Next, Deliver

(* First come, first served: a notification is sent only when no earlier   *)
(* one that was queued when the batch was read is still queued.            *)
THEOREM DeliveredInOrder == Spec => InOrder
  <1>1. ASSUME IInv, Ordered, [Next]_vars, NEW n \in Notifications,
               status[n] # "sending", status'[n] = "sending",
               NEW m \in Notifications \ fresh, m < n
        PROVE  status[m] # "queued"
    <2>t. TypeOK
      BY <1>1 DEF IInv
    <2>1. MarkSending(n)
      <3>1. ASSUME NEW k \in Notifications, Queue(k) \/ Requeue(k) PROVE FALSE
        BY <1>1, <3>1, <2>t DEF Queue, Requeue, TypeOK
      <3>2. ASSUME NEW k \in Notifications, UpdateState(k) PROVE FALSE
        BY <1>1, <3>2, <2>t DEF UpdateState, TypeOK, Outcome
      <3>3. ASSUME NEW k \in Notifications, MarkSending(k) PROVE k = n
        BY <1>1, <3>3, <2>t DEF MarkSending, TypeOK
      <3> QED
        BY <1>1, <3>1, <3>2, <3>3 DEF Next, Deliver, BecomeReady, Refuse, GetReceipt,
               RecordAttempt, Accept, Claim, PassFails, Stop, StartRecovery,
               FinishRecovery, vars, database
    <2>2. phase = "up" /\ n \in batch /\ \A k \in batch : n <= k
      BY <2>1 DEF MarkSending, At, IsCurrent
    <2>3. m \notin batch
      BY <1>1, <2>2, DispatcherAssumption
    <2> QED  BY <1>1, <2>2, <2>3 DEF Ordered
  <1>2. IInv /\ Ordered /\ [Next]_vars =>
          [\A n \in Notifications :
             status[n] # "sending" /\ status'[n] = "sending" =>
               \A m \in Notifications \ fresh : m < n => status[m] # "queued"]_vars
    BY <1>1
  <1>3. Init => Prompt /\ Ordered
    BY DEF Init, Prompt, Ordered
  <1>4. IInv /\ Prompt /\ Ordered /\ [Next]_vars => (Prompt /\ Ordered)'
    BY NextOrdered
  <1>5. Spec => [](Prompt /\ Ordered)
    BY <1>3, <1>4, DeliveryInvariantHolds, PTL DEF Spec
  <1> QED  BY <1>2, <1>5, DeliveryInvariantHolds, PTL DEF Spec, InOrder
=============================================================================
