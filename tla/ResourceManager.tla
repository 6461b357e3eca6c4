-------------------------- MODULE ResourceManager ---------------------------
(***************************************************************************)
(* ResourceManager.execute: a request is admitted by the breaker of its    *)
(* resource, acquires the gates on its path from the widest to the         *)
(* narrowest, is attempted until it succeeds or the retries are spent, and *)
(* gives all its gates back at once.  A member of Requests is used again   *)
(* for another request when the one before it has ended.                   *)
(*                                                                         *)
(* No rate limiter exists in the application (nothing calls                *)
(* register_limits), so _await_rate_limit returns at once.                 *)
(***************************************************************************)
EXTENDS PriorityGate, CircuitBreaker, Sequences

CONSTANTS
  Resources,     (* the breakers, one per resource key                        *)
  ResourceOf,    (* the resource of every request                             *)
  Path,          (* the gates of every request, the widest first              *)
  MaxAttempts,   (* resources.retry.max_attempts                              *)
  Cancellations  (* may the task of a request be cancelled?                   *)

ASSUME ManagerAssumption ==
  /\ ResourceOf \in [Requests -> Resources]
  /\ Path \in [Requests -> Seq(Gates) \ {<<>>}]
  /\ \A r \in Requests : \A i, j \in DOMAIN Path[r] :
       Path[r][i] = Path[r][j] => i = j
  /\ MaxAttempts \in Nat \ {0}
  /\ Cancellations \in BOOLEAN

VARIABLES
  pc,         (* where the coroutine of the request is suspended              *)
  interrupt,  (* the exception that awaits the suspended waiter               *)
  attempts,   (* attempts of the request under way                            *)
  breaker,    (* the record of every breaker                                  *)
  cooled      (* has the recovery time-out of the breaker passed?             *)

vars == <<gateVars, pc, interrupt, attempts, breaker, cooled>>

TypeOK ==
  /\ GateTypeOK
  /\ pc \in [Requests -> {"idle", "waiting", "running", "backoff"}]
  /\ interrupt \in [Requests -> {"none", "timeout", "cancel"}]
  /\ attempts \in [Requests -> 0 .. MaxAttempts]
  /\ breaker \in [Resources -> Breaker]
  /\ cooled \in [Resources -> BOOLEAN]

Init ==
  /\ GateInit
  /\ pc = [r \in Requests |-> "idle"]
  /\ interrupt = [r \in Requests |-> "none"]
  /\ attempts = [r \in Requests |-> 0]
  /\ breaker = [x \in Resources |-> Closed]
  /\ cooled = [x \in Resources |-> FALSE]

UnderWay == {r \in Requests : pc[r] # "idle"}

(* The breaker of the request as the next call sees it. *)
BreakerOf(r) == Seen(breaker[ResourceOf[r]], cooled[ResourceOf[r]])

SetBreaker(r, b) == breaker' = [breaker EXCEPT ![ResourceOf[r]] = b]

GatesBetween(r, i, j) == {Path[r][m] : m \in i .. j}

(* From gate number i on, the gates that are free are acquired without a   *)
(* pause, up to the first one that is not.                                 *)
FirstBusy(r, i, j) ==
  /\ j \in i .. Len(Path[r])
  /\ \A g \in GatesBetween(r, i, j - 1) : Free(g)
  /\ ~ Free(Path[r][j])

StartAttempt(r) ==
  /\ pc' = [pc EXCEPT ![r] = "running"]
  /\ attempts' = [attempts EXCEPT ![r] = @ + 1]
  /\ SetBreaker(r, OnRequestStarted(BreakerOf(r)))

(* Every gate is acquired and the first attempt begins. *)
PassGates(r, i) ==
  /\ \A g \in GatesBetween(r, i, Len(Path[r])) : Free(g)
  /\ Take(r, GatesBetween(r, i, Len(Path[r])))
  /\ StartAttempt(r)
  /\ UNCHANGED heap

(* The request waits at the first gate that is not free ...                *)
WaitAtGate(r, i) ==
  /\ \E j \in DOMAIN Path[r] :
       /\ FirstBusy(r, i, j)
       /\ ~ Full(Path[r][j])
       /\ Take(r, GatesBetween(r, i, j - 1))
       /\ Enqueue(r, Path[r][j])
  /\ pc' = [pc EXCEPT ![r] = "waiting"]
  /\ UNCHANGED attempts

(* ... or is refused, when the queue of that gate is full.                 *)
QueueIsFull(r, i) ==
  \E j \in DOMAIN Path[r] : FirstBusy(r, i, j) /\ Full(Path[r][j])

(* The request has ended, with a result or with an error. *)
End(r) ==
  /\ pc' = [pc EXCEPT ![r] = "idle"]
  /\ attempts' = [attempts EXCEPT ![r] = 0]
  /\ interrupt' = [interrupt EXCEPT ![r] = "none"]

(* execute begins: the circuit is looked at once, before the queue. *)
Begin(r) ==
  /\ pc[r] = "idle"
  /\ AllowsRequest(BreakerOf(r))
  /\ ~ QueueIsFull(r, 1)
  /\ older' = [older EXCEPT ![r] = UnderWay]
  /\ \/ PassGates(r, 1)
     \/ WaitAtGate(r, 1) /\ SetBreaker(r, BreakerOf(r))
  /\ UNCHANGED <<interrupt, cooled>>

(* The circuit is open, or the queue of the first busy gate is full. *)
Reject(r) ==
  /\ pc[r] = "idle"
  /\ ~ AllowsRequest(BreakerOf(r)) \/ QueueIsFull(r, 1)
  /\ SetBreaker(r, BreakerOf(r))
  /\ UNCHANGED <<gateVars, pc, interrupt, attempts, cooled>>

(* The time-out of the wait fires or the task is cancelled.  The coroutine *)
(* gets the exception when it resumes, so a slot may still be handed to it.*)
Interrupt(r, kind) ==
  /\ pc[r] = "waiting"
  /\ interrupt[r] = "none"
  /\ interrupt' = [interrupt EXCEPT ![r] = kind]
  /\ UNCHANGED <<gateVars, pc, attempts, breaker, cooled>>

(* A waiter resumes with the slot it was handed, at gate number i. *)
Resume(r) ==
  /\ pc[r] = "waiting"
  /\ interrupt[r] = "none"
  /\ \E i \in DOMAIN Path[r] :
       /\ r \in granted[Path[r][i]]
       /\ IF QueueIsFull(r, i + 1)
          THEN Depart(r) /\ End(r) /\ UNCHANGED breaker
          ELSE /\ \/ PassGates(r, i + 1)
                  \/ WaitAtGate(r, i + 1) /\ UNCHANGED breaker
               /\ UNCHANGED <<older, interrupt>>
  /\ UNCHANGED cooled

GiveUp(r) ==
  /\ pc[r] = "waiting"
  /\ interrupt[r] # "none"
  /\ Depart(r)
  /\ End(r)
  /\ UNCHANGED <<breaker, cooled>>

Succeed(r) ==
  /\ pc[r] = "running"
  /\ SetBreaker(r, OnSuccess(BreakerOf(r)))
  /\ Depart(r)
  /\ End(r)
  /\ UNCHANGED cooled

(* Mutant: the back-off resets the count of the attempts. *)
FailForgettingAttempts(r) ==
  /\ pc[r] = "running"
  /\ LET b == OnFailure(BreakerOf(r)) IN
       /\ SetBreaker(r, b)
       /\ cooled' = [cooled EXCEPT ![ResourceOf[r]] = @ /\ b.state # "open"]
  /\ pc' = [pc EXCEPT ![r] = "backoff"]
  /\ attempts' = [attempts EXCEPT ![r] = 0]
  /\ UNCHANGED <<gateVars, interrupt>>

(* The attempt times out or raises a MonikError; the error is retryable    *)
(* or not.  The gates are kept while the request backs off.                *)
Fail(r) ==
  /\ pc[r] = "running"
  /\ LET b == OnFailure(BreakerOf(r)) IN
       /\ SetBreaker(r, b)
       /\ cooled' = [cooled EXCEPT ![ResourceOf[r]] = @ /\ b.state # "open"]
  /\ \/ /\ attempts[r] < MaxAttempts
        /\ pc' = [pc EXCEPT ![r] = "backoff"]
        /\ UNCHANGED <<gateVars, interrupt, attempts>>
     \/ Depart(r) /\ End(r)

(* The delay is over; the circuit is not looked at again. *)
Retry(r) ==
  /\ pc[r] = "backoff"
  /\ StartAttempt(r)
  /\ UNCHANGED <<gateVars, interrupt, cooled>>

(* A cancelled attempt says nothing to the breaker. *)
CancelAttempt(r) ==
  /\ Cancellations
  /\ pc[r] \in {"running", "backoff"}
  /\ Depart(r)
  /\ End(r)
  /\ UNCHANGED <<breaker, cooled>>

(* recovery_timeout_seconds pass after the breaker opened. *)
CoolDown(x) ==
  /\ breaker[x].state = "open"
  /\ ~ cooled[x]
  /\ cooled' = [cooled EXCEPT ![x] = TRUE]
  /\ UNCHANGED <<gateVars, pc, interrupt, attempts, breaker>>

Next ==
  \/ \E r \in Requests :
       \/ Begin(r)
       \/ Reject(r)
       \/ Interrupt(r, "timeout")
       \/ Cancellations /\ Interrupt(r, "cancel")
       \/ Resume(r)
       \/ GiveUp(r)
       \/ Succeed(r)
       \/ Fail(r)
       \/ Retry(r)
       \/ CancelAttempt(r)
  \/ \E x \in Resources : CoolDown(x)

Spec == Init /\ [][Next]_vars

(***************************************************************************)
(* Fairness.  Resolved waiters resume and timers fire: the wait for a gate *)
(* (queue_wait_timeout_seconds), the time limit of an attempt, the delay   *)
(* of the back-off, the recovery of a breaker.  FairLoad adds that the     *)
(* subsystems go on sending requests, as the scheduler makes them.         *)
(***************************************************************************)
Fairness ==
  /\ \A r \in Requests :
       /\ WF_vars(Resume(r))
       /\ WF_vars(GiveUp(r))
       /\ WF_vars(Interrupt(r, "timeout"))
       /\ WF_vars(Succeed(r) \/ Fail(r))
       /\ WF_vars(Retry(r))
  /\ \A x \in Resources : WF_vars(CoolDown(x))

FairSpec == Spec /\ Fairness

FairLoad == FairSpec /\ \A r \in Requests : WF_vars(Begin(r) \/ Reject(r))
-----------------------------------------------------------------------------
(* The requests that are being attempted or wait for their next attempt. *)
Attempting == {r \in Requests : pc[r] \in {"running", "backoff"}}

Owners(g) == {r \in Requests : g \in held[r]} \union granted[g]

(* Every slot in use belongs to a request that has it or that is about to  *)
(* collect it: no slot is lost, none is given back twice, whatever races   *)
(* between release, time-out and cancellation.                             *)
SlotsConserved ==
  \A g \in Gates :
    /\ active[g] = Cardinality(Owners(g))
    /\ \A r \in granted[g] : g \notin held[r]

(* Attempts on the wire never exceed the limit of any gate on their path. *)
ConcurrencyBounded ==
  \A g \in Gates :
    Cardinality({r \in Attempting : g \in GatesBetween(r, 1, Len(Path[r]))}) <= Limit[g]

(* A slot is never idle while a request waits for it (no lost wake-up). *)
NoIdleSlot == \A g \in Gates : heap[g] # {} => active[g] = Limit[g]

(* A request gets a slot only after every request that waits for the same  *)
(* gate with a higher priority, or with the same one and for longer.       *)
NoOvertaking ==
  [][\A g \in Gates : \A r, s \in Requests :
       (r \in heap[g] /\ r \in heap'[g] /\ s \notin Owners(g) /\ s \in Owners(g)')
         => ~ Before(r, s)']_vars

(* Every request ends: nested gates held in one order do not deadlock.     *)
EveryRequestEnds == \A r \in Requests : pc[r] # "idle" ~> pc[r] = "idle"

(* 12_RESOURCE_MANAGER.md section 34: a breaker that tests a resource      *)
(* comes to a decision, closed if the resource has recovered.              *)
HalfOpenIsLeft ==
  \A x \in Resources :
    breaker[x].state = "half_open" ~> breaker[x].state # "half_open"

=============================================================================
