----------------------------- MODULE Scheduler ------------------------------
(***************************************************************************)
(* Scheduler, TaskRunner and the worker scheduler_loop that drives them:   *)
(* one coroutine runs the due tasks one after the other, each in a task of *)
(* its own, writes what came of it to the log and plans the next run.      *)
(* Only the log outlives the process.                                      *)
(*                                                                         *)
(* A task is named by its place in the order of registration; all of them  *)
(* are enabled and periodic, as the default schedules are.  Moments are    *)
(* kept as distances from now, so that time may pass for ever.             *)
(***************************************************************************)
EXTENDS Integers

CONSTANTS
  Tasks,     (* the tasks of the registry with mode interval                 *)
  Interval   (* their intervals                                              *)

ASSUME SchedulerAssumption ==
  /\ Tasks \subseteq Nat
  /\ Interval \in [Tasks -> Nat \ {0}]

VARIABLES
  planned,   (* _next_runs: the time until the planned run, Never if none    *)
  age,       (* scheduler_executions: the time since the last recorded run   *)
             (* ended, Never if there is none or it did not succeed; counted *)
             (* up to the interval                                           *)
  at,        (* where the loop is suspended                                  *)
  left,      (* tick: the tasks that were due when it began, not yet visited *)
  task,      (* the task that is run, 0 if none                              *)
  result,    (* ExecutionOutcome.status                                      *)
  since      (* the time since finished_at                                   *)

loop      == <<at, left, task, result, since>>
schedule  == <<planned, age, loop>>

Never  == -1
NoTask == -1
Result == {"none", "success", "failed", "cancelled"}

(* "off": not spawned, or of an earlier process; "ready": spawned;          *)
(* "waiting": asyncio.wait_for(_stop.wait()); "failed": the tick has raised *)
(* DatabaseError; "ended": the loop has left, or was cancelled.             *)
Place == {"off", "ready", "handling", "recording", "waiting", "failed", "ended"}

Quiet == {"off", "failed", "ended"}

SchedulerInit ==
  /\ planned = [t \in Tasks |-> Never]
  /\ age = [t \in Tasks |-> Never]
  /\ at = "off"
  /\ left = {}
  /\ task = NoTask
  /\ result = "none"
  /\ since = 0

(* Mutant: everything is run at once after a restart. *)
PrepareAtOnce ==
  /\ planned' = [t \in Tasks |-> 0]
  /\ UNCHANGED <<age, loop>>

(* Scheduler.prepare: one run for everything that was missed, and the      *)
(* distance to the last recorded success is kept.                          *)
Prepare ==
  /\ planned' = [t \in Tasks |->
                   IF age[t] = Never THEN 0 ELSE Interval[t] - age[t]]
  /\ UNCHANGED <<age, loop>>

(* Mutant: the plan is not looked at again in the tick. *)
AdvanceWithoutPlan(due, plan) ==
  \/ due = {} /\ at' = "waiting" /\ left' = {} /\ task' = NoTask
  \/ \E t \in due :
       /\ \A u \in due : t <= u
       /\ at' = "handling"
       /\ left' = due \ {t}
       /\ task' = t

(* The rest of a tick: the first task that is due and still planned is     *)
(* started; a shutdown in the meantime has emptied the plan.               *)
Advance(due, plan) ==
  LET runnable == {t \in due : plan[t] # Never}
  IN  \/ /\ runnable = {}
         /\ at' = "waiting"
         /\ left' = {}
         /\ task' = NoTask
      \/ \E t \in runnable :
           /\ \A u \in runnable : t <= u
           /\ at' = "handling"
           /\ left' = due \ {t}
           /\ task' = t

(* Mutant: the stop is not looked at. *)
BeginTickDespiteStop(stop) ==
  /\ at \in {"ready", "waiting"}
  /\ Advance({t \in Tasks : planned[t] = 0}, planned)
  /\ UNCHANGED <<planned, age, result, since>>

(* Mutant: a tick runs the first task that is due, and no other. *)
BeginTickForFirst(stop) ==
  /\ at \in {"ready", "waiting"}
  /\ \/ stop /\ at' = "ended" /\ UNCHANGED <<left, task>>
     \/ ~ stop /\ Advance({t \in Tasks : /\ planned[t] = 0
                                        /\ \A u \in Tasks : planned[u] = 0 => t <= u}, planned)
  /\ UNCHANGED <<planned, age, result, since>>

(* A tick reads the clock once: what becomes due later waits for the next  *)
(* one.                                                                    *)
BeginTick(stop) ==
  /\ at \in {"ready", "waiting"}
  /\ \/ stop /\ at' = "ended" /\ UNCHANGED <<left, task>>
     \/ ~ stop /\ Advance({t \in Tasks : planned[t] = 0}, planned)
  /\ UNCHANGED <<planned, age, result, since>>

(* TaskRunner._execute: whatever the handler raises, the time-out          *)
(* included, becomes a result.                                             *)
HandlerEnds ==
  /\ at = "handling"
  /\ at' = "recording"
  /\ result' \in Result \ {"none"}
  /\ since' = 0
  /\ UNCHANGED <<planned, age, left, task>>

(* record_execution is the newest row of the task, and _last_success reads *)
(* that row only.                                                          *)
Recorded ==
  age' = [age EXCEPT ![task] = IF result = "success" THEN since ELSE Never]

Rescheduled == [planned EXCEPT ![task] = Interval[task]]

Record ==
  /\ at = "recording"
  /\ Recorded
  /\ planned' = Rescheduled
  /\ Advance(left, Rescheduled)
  /\ result' = "none"
  /\ since' = 0

(* record_execution raises DatabaseError, which nothing below the          *)
(* supervisor catches: there is no _reschedule.                            *)
RecordFails ==
  /\ at = "recording"
  /\ at' = "failed"
  /\ left' = {}
  /\ task' = NoTask
  /\ result' = "none"
  /\ since' = 0
  /\ UNCHANGED <<planned, age>>

LoopStep(stop) ==
  \/ BeginTick(stop)
  \/ HandlerEnds
  \/ Record
  \/ RecordFails

(* Mutant: the handler is left to end by itself. *)
SchedulerShutdownWithoutCancel ==
  /\ planned' = [t \in Tasks |-> Never]
  /\ UNCHANGED <<age, loop>>

(* Scheduler.shutdown: _next_runs is cleared and the handler that runs is  *)
(* cancelled, unless it had already finished.                              *)
SchedulerShutdown ==
  /\ planned' = [t \in Tasks |-> Never]
  /\ IF at = "handling"
       THEN at' = "recording" /\ since' = 0 /\ result' \in Result \ {"none"}
       ELSE UNCHANGED <<at, result, since>>
  /\ UNCHANGED <<age, left, task>>

(* Task.cancel on the loop.  In a handler the cancellation is handed down, *)
(* comes back as the cancellation of the handler and ends there: _execute  *)
(* takes it for a result.  Elsewhere it ends the loop; a write that is     *)
(* under way may or may not be done.                                       *)
CancelLoop ==
  \/ /\ at = "handling"
     /\ at' = "recording"
     /\ since' = 0
     /\ result' = "cancelled"
     /\ UNCHANGED <<age, left, task>>
  \/ /\ at \notin {"handling"} \union Quiet
     /\ at' = "ended"
     /\ left' = {}
     /\ task' = NoTask
     /\ result' = "none"
     /\ since' = 0
     /\ \/ UNCHANGED age
        \/ at = "recording" /\ Recorded
  \/ /\ at \in Quiet
     /\ UNCHANGED <<age, loop>>

(* The process is gone. *)
ForgetLoop ==
  /\ planned' = [t \in Tasks |-> Never]
  /\ at' = "off"
  /\ left' = {}
  /\ task' = NoTask
  /\ result' = "none"
  /\ since' = 0

Older(n, limit) == IF n \in 0..(limit - 1) THEN n + 1 ELSE n

PassTime ==
  /\ planned' = [t \in Tasks |-> IF planned[t] > 0 THEN planned[t] - 1 ELSE planned[t]]
  /\ age' = [t \in Tasks |-> Older(age[t], Interval[t])]
  /\ since' = IF at = "recording" THEN Older(since, Interval[task]) ELSE since
  /\ UNCHANGED <<at, left, task, result>>
=============================================================================
