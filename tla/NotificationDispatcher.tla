----------------------- MODULE NotificationDispatcher -----------------------
(***************************************************************************)
(* NotificationDispatcher: the queue of notifications in the database and  *)
(* the pass of dispatch_pending over it.  A pass reads a batch once and    *)
(* delivers it in order; every delivery is a commit, a call of Telegram    *)
(* and two more commits, and the process may stop between any of them.     *)
(* The scheduler runs one pass at a time.                                  *)
(*                                                                         *)
(* A notification is named by its place in the order of (created_at,       *)
(* sequence).                                                              *)
(***************************************************************************)
EXTENDS Integers, FiniteSetsExt

CONSTANTS
  Notifications,  (* the notifications that may be queued                     *)
  Undeliverable,  (* those without a transport or without a valid text        *)
  MaxAttempts,    (* notifications.max_attempts                               *)
  QueueCapacity,  (* notifications.queue_capacity, the limit of a batch       *)
  RecoveryLimit,  (* the limit of the rows a recovery requeues                *)
  MaxErrors,      (* bound: the errors that end a pass                        *)
  MaxRestarts     (* bound: the times the process starts after the first      *)

ASSUME DispatcherAssumption ==
  /\ IsFiniteSet(Notifications)
  /\ Notifications \subseteq Nat
  /\ Undeliverable \subseteq Notifications
  /\ MaxAttempts \in Nat \ {0}
  /\ QueueCapacity \in Nat \ {0}
  /\ RecoveryLimit \in Nat \ {0}
  /\ MaxErrors \in Nat
  /\ MaxRestarts \in Nat

VARIABLES
  \* the database
  status,     (* notifications.status, "none" before the row exists           *)
  count,      (* notifications.attempt_count                                  *)
  ready,      (* is next_attempt_at NULL or has it passed?                    *)
  log,        (* the rows of notification_attempts                            *)
  \* Telegram
  received,   (* has the message ever been accepted?                          *)
  \* the process
  phase,      (* is the process down, recovering or up?                       *)
  batch,      (* what is left of the batch of the pass or of the recovery     *)
  step,       (* where the pass is suspended                                  *)
  number,     (* attempt_number                                               *)
  outcome,    (* the status the attempt leads to                              *)
  fresh,      (* history: the rows inserted since the batch was read          *)
  errors, restarts

database == <<status, count, ready, log>>
pass     == <<batch, step, number, outcome, fresh>>
bounds   == <<errors, restarts>>
vars     == <<database, received, phase, pass, bounds>>

Pending  == {"queued", "retry_wait"}
Settled  == {"sent", "failed"}
Outcome  == {"sent", "retry_wait", "failed"}

Attempt == [number : Nat, status : Outcome]

TypeOK ==
  /\ status \in [Notifications -> Pending \union Settled \union {"none", "sending"}]
  /\ count \in [Notifications -> Nat]
  /\ ready \in [Notifications -> BOOLEAN]
  /\ log \in [Notifications -> SUBSET Attempt]
  /\ received \in [Notifications -> BOOLEAN]
  /\ phase \in {"down", "recovery", "up"}
  /\ batch \in SUBSET Notifications
  /\ step \in {"idle", "next", "send", "accepted", "record", "update"}
  /\ number \in Nat
  /\ outcome \in Outcome
  /\ fresh \in SUBSET Notifications
  /\ errors \in 0 .. MaxErrors
  /\ restarts \in 0 .. MaxRestarts

Init ==
  /\ status = [n \in Notifications |-> "none"]
  /\ count = [n \in Notifications |-> 0]
  /\ ready = [n \in Notifications |-> TRUE]
  /\ log = [n \in Notifications |-> {}]
  /\ received = [n \in Notifications |-> FALSE]
  /\ phase = "up"
  /\ batch = {}
  /\ step = "idle"
  /\ number = 0
  /\ outcome = "failed"
  /\ fresh = {}
  /\ errors = 0
  /\ restarts = 0

(* Mutant: LIMIT without ORDER BY takes the youngest rows. *)
FirstOfReversed(rows, limit) ==
  {n \in rows : Cardinality({m \in rows : m > n}) < limit}

(* ORDER BY created_at, sequence LIMIT. *)
FirstOf(rows, limit) ==
  {n \in rows : Cardinality({m \in rows : m < n}) < limit}

(* Mutant: the rows marked as being sent are taken too. *)
ClaimableEvenSending ==
  {n \in Notifications : status[n] \in Pending \union {"sending"} /\ ready[n]}

(* Mutant: the rows that wait for a retry are forgotten. *)
ClaimableOnlyQueued == {n \in Notifications : status[n] = "queued" /\ ready[n]}

(* WHERE status IN ('queued', 'retry_wait') AND the delay has passed. *)
Claimable == {n \in Notifications : status[n] \in Pending /\ ready[n]}

(* The notification under way, the first one left of the batch. *)
IsCurrent(n) == n \in batch /\ \A m \in batch : n <= m

(* publish inserts the row. *)
Queue(n) ==
  /\ phase = "up"
  /\ status[n] = "none"
  /\ status' = [status EXCEPT ![n] = "queued"]
  /\ fresh' = fresh \union {n}
  /\ UNCHANGED <<count, ready, log, received, phase, batch, step, number,
                 outcome, bounds>>

(* next_attempt_at passes. *)
BecomeReady(n) ==
  /\ ~ ready[n]
  /\ ready' = [ready EXCEPT ![n] = TRUE]
  /\ UNCHANGED <<status, count, log, received, phase, pass, bounds>>

(* dispatch_pending reads its batch. *)
Claim ==
  /\ phase = "up"
  /\ step = "idle"
  /\ Claimable # {}
  /\ batch' = FirstOf(Claimable, QueueCapacity)
  /\ step' = "next"
  /\ fresh' = {}
  /\ UNCHANGED <<database, received, phase, number, outcome, bounds>>

At(n, s) == phase = "up" /\ step = s /\ IsCurrent(n)

(* _deliver: the row is marked before the message is sent. *)
MarkSending(n) ==
  /\ At(n, "next")
  /\ n \notin Undeliverable
  /\ number' = count[n] + 1
  /\ status' = [status EXCEPT ![n] = "sending"]
  /\ count' = [count EXCEPT ![n] = number']
  /\ ready' = [ready EXCEPT ![n] = TRUE]
  /\ step' = "send"
  /\ UNCHANGED <<log, received, phase, batch, outcome, fresh, bounds>>

(* _fail: the attempt is recorded although the row has not been marked. *)
Refuse(n) ==
  /\ At(n, "next")
  /\ n \in Undeliverable
  /\ number' = count[n] + 1
  /\ outcome' = "failed"
  /\ step' = "record"
  /\ UNCHANGED <<database, received, phase, batch, fresh, bounds>>

(* Telegram accepts the message; its answer is on the way. *)
Accept(n) ==
  /\ At(n, "send")
  /\ received' = [received EXCEPT ![n] = TRUE]
  /\ step' = "accepted"
  /\ UNCHANGED <<database, phase, batch, number, outcome, fresh, bounds>>

(* A failed attempt is repeated unless the error is permanent or the       *)
(* attempts are spent.                                                     *)
AfterError(retryable) ==
  IF retryable /\ number < MaxAttempts THEN "retry_wait" ELSE "failed"

(* The receipt: a confirmation, or an error.  The answer to an accepted    *)
(* message may be lost, which is a retryable network error.                *)
GetReceipt(n) ==
  /\ \/ At(n, "accepted") /\ outcome' \in {"sent", AfterError(TRUE)}
     \/ At(n, "send") /\ outcome' \in {AfterError(TRUE), "failed"}
  /\ step' = "record"
  /\ UNCHANGED <<database, received, phase, batch, number, fresh, bounds>>

(* Errors and restarts, both bounded, end a pass; the rows stay as they are.*)
EndPass == batch' = {} /\ step' = "idle" /\ UNCHANGED <<number, outcome, fresh>>

(* record_attempt: UNIQUE (notification_id, attempt_number) refuses a      *)
(* number that is there already, and the error ends the pass.              *)
RecordAttempt(n) ==
  /\ At(n, "record")
  /\ IF \E a \in log[n] : a.number = number
     THEN EndPass /\ UNCHANGED log
     ELSE /\ log' = [log EXCEPT ![n] = @ \union {[number |-> number, status |-> outcome]}]
          /\ step' = "update"
          /\ UNCHANGED <<batch, number, outcome, fresh>>
  /\ UNCHANGED <<status, count, ready, received, phase, bounds>>

(* update_delivery_state, and the pass goes on to the next notification. *)
UpdateState(n) ==
  /\ At(n, "update")
  /\ status' = [status EXCEPT ![n] = outcome]
  /\ count' = [count EXCEPT ![n] = number]
  /\ ready' = [ready EXCEPT ![n] = outcome # "retry_wait"]
  /\ batch' = batch \ {n}
  /\ step' = IF batch = {n} THEN "idle" ELSE "next"
  /\ UNCHANGED <<log, received, phase, number, outcome, fresh, bounds>>

(* A database call raises, or the answer of Telegram cannot be parsed. *)
PassFails ==
  /\ phase = "up"
  /\ step # "idle"
  /\ errors < MaxErrors
  /\ errors' = errors + 1
  /\ EndPass
  /\ UNCHANGED <<database, received, phase, restarts>>

(* The process is killed or shut down, at any moment. *)
Stop ==
  /\ phase # "down"
  /\ restarts < MaxRestarts
  /\ phase' = "down"
  /\ EndPass
  /\ UNCHANGED <<database, received, bounds>>

(* The next start reads the rows that were being sent ... *)
StartRecovery ==
  /\ phase = "down"
  /\ phase' = "recovery"
  /\ restarts' = restarts + 1
  /\ batch' = FirstOf({n \in Notifications : status[n] = "sending"}, RecoveryLimit)
  /\ UNCHANGED <<database, received, step, number, outcome, fresh, errors>>

(* Mutant: an interrupted delivery counts as done. *)
RequeueAsSent(n) ==
  /\ phase = "recovery"
  /\ IsCurrent(n)
  /\ status' = [status EXCEPT ![n] = "sent"]
  /\ ready' = [ready EXCEPT ![n] = TRUE]
  /\ batch' = batch \ {n}
  /\ UNCHANGED <<count, log, received, phase, step, number, outcome, fresh, bounds>>

(* ... and requeues them one by one; the number of attempts is kept. *)
Requeue(n) ==
  /\ phase = "recovery"
  /\ IsCurrent(n)
  /\ status' = [status EXCEPT ![n] = "queued"]
  /\ ready' = [ready EXCEPT ![n] = TRUE]
  /\ batch' = batch \ {n}
  /\ UNCHANGED <<count, log, received, phase, step, number, outcome, fresh, bounds>>

FinishRecovery ==
  /\ phase = "recovery"
  /\ batch = {}
  /\ phase' = "up"
  /\ UNCHANGED <<database, received, pass, bounds>>

Deliver(n) ==
  \/ MarkSending(n)
  \/ Refuse(n)
  \/ GetReceipt(n)
  \/ RecordAttempt(n)
  \/ UpdateState(n)

Next ==
  \/ \E n \in Notifications :
       Queue(n) \/ BecomeReady(n) \/ Deliver(n) \/ Accept(n) \/ Requeue(n)
  \/ Claim
  \/ PassFails
  \/ Stop
  \/ StartRecovery
  \/ FinishRecovery

Spec == Init /\ [][Next]_vars

(***************************************************************************)
(* Fairness.  The scheduler runs the task of the notifications again and   *)
(* again, every await of a pass is bounded, delays end, and the process is *)
(* started again after it stopped.  Nothing is assumed of Telegram.        *)
(***************************************************************************)
Fairness ==
  /\ WF_vars(Claim)
  /\ WF_vars(StartRecovery)
  /\ WF_vars(FinishRecovery)
  /\ \A n \in Notifications :
       /\ WF_vars(Deliver(n))
       /\ WF_vars(BecomeReady(n))
       /\ WF_vars(Requeue(n))

FairSpec == Spec /\ Fairness
-----------------------------------------------------------------------------
Successes(n) == {a \in log[n] : a.status = "sent"}

(* A notification counts as sent only when Telegram has accepted it and    *)
(* the attempt that says so is recorded: no interruption, recovery or      *)
(* error turns an uncertain delivery into a sent one.                      *)
SentIsConfirmed ==
  \A n \in Notifications :
    status[n] = "sent" =>
      received[n] /\ [number |-> count[n], status |-> "sent"] \in log[n]

(* The attempts of a notification are limited: only a restart, which       *)
(* requeues a delivery it found under way, adds one to the limit.          *)
AttemptsBounded ==
  \A n \in Notifications : count[n] <= MaxAttempts + restarts

(* A confirmed delivery is repeated only if the process stopped before the *)
(* confirmation was stored: one repetition for a restart at most.          *)
RepeatedOnlyByRestart ==
  \A n \in Notifications : Cardinality(Successes(n)) <= 1 + restarts

(* A settled notification is never touched again, by no later pass and by  *)
(* no recovery: update_delivery_state has no condition on the old status.  *)
SettledStays ==
  [][\A n \in Notifications : status[n] \in Settled => status'[n] = status[n]]_vars

(* First come, first served: a notification is not sent before an earlier  *)
(* one that was queued when the batch was read.                            *)
InOrder ==
  [][\A n \in Notifications :
       status[n] # "sending" /\ status'[n] = "sending" =>
         \A m \in Notifications \ fresh : m < n => status[m] # "queued"]_vars

(* A recorded refusal whose status was not stored: every later pass tries  *)
(* to record the same attempt and ends there.                              *)
Blocked(n) ==
  /\ status[n] \in Pending
  /\ \E a \in log[n] : a.number = count[n] + 1

(* Every queued notification settles, unless an error left it marked as    *)
(* being sent or the queue is blocked.                                     *)
QueuedIsDecided ==
  \A n \in Notifications :
    status[n] = "queued" ~>
      \/ status[n] \in Settled
      \/ status[n] = "sending" /\ step = "idle"
      \/ \E m \in Notifications : Blocked(m)

(* dispatcher.py: the failure of one destination does not block the        *)
(* others.  A notification that can be delivered is settled.               *)
OthersAreDelivered ==
  \A n \in Notifications \ Undeliverable :
    status[n] = "queued" ~> status[n] \in Settled
=============================================================================
