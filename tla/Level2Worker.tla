---------------------------- MODULE Level2Worker ----------------------------
(***************************************************************************)
(* Level2Worker: one task per submitted job, a semaphore of MaxParallel    *)
(* permits around the confirmation run.  The run itself is a task of its   *)
(* own (InFlightRegistry starts it and the worker's task awaits it through *)
(* asyncio.shield), so cancelling the worker's task does not stop it.      *)
(***************************************************************************)
EXTENDS Level2State

(* Mutant: one permit too many. *)
AcquirePermitOffByOne(k) ==
  /\ phase \in {"up", "stopping"}
  /\ task[k] = "waiting"
  /\ Cardinality(Holding) <= MaxParallel
  /\ task' = [task EXCEPT ![k] = "holding"]
  /\ run' = [run EXCEPT ![k] = "load"]
  /\ UNCHANGED <<database, clock, phase, scan, results, recovery>>

(* _run enters the semaphore and starts the confirmation run. *)
AcquirePermit(k) ==
  /\ phase \in {"up", "stopping"}
  /\ task[k] = "waiting"
  /\ Cardinality(Holding) < MaxParallel
  /\ task' = [task EXCEPT ![k] = "holding"]
  /\ run' = [run EXCEPT ![k] = "load"]
  /\ UNCHANGED <<database, clock, phase, scan, results, recovery>>

(* Mutant: an error leaves the permit taken. *)
ReturnPermitAfterSuccess(k) ==
  /\ phase \in {"up", "stopping"}
  /\ task[k] = "holding"
  /\ run[k] = "done"
  /\ task' = [task EXCEPT ![k] = "over"]
  /\ UNCHANGED <<database, clock, phase, scan, run, results, recovery>>

(* The run has ended, with a result or an error: the permit goes back and  *)
(* the task leaves _tasks.                                                 *)
ReturnPermit(k) ==
  /\ phase \in {"up", "stopping"}
  /\ task[k] = "holding"
  /\ run[k] \in {"done", "failed"}
  /\ task' = [task EXCEPT ![k] = "over"]
  /\ UNCHANGED <<database, clock, phase, scan, run, results, recovery>>

(* cancel_all, called once by the shutdown: every task is cancelled, the   *)
(* waiting ones and the ones that await a run.  The runs go on.            *)
CancelAll ==
  /\ phase = "stopping"
  /\ phase' = "cancelled"
  /\ task' = [k \in Jobs |-> IF k \in Active THEN "over" ELSE task[k]]
  /\ UNCHANGED <<database, clock, scan, run, results, recovery>>

(* The cancellation of everything that is left, by asyncio.run: a run that *)
(* verifies has two rows to write, the others end where they are.          *)
CancelledRuns ==
  [k \in Jobs |-> IF run[k] = "verify" THEN "cancel_job"
                  ELSE IF k \in Running THEN "failed" ELSE run[k]]
=============================================================================
