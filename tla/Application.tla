---------------------------- MODULE Application -----------------------------
(***************************************************************************)
(* The life of the process: Application.startup, the supervisor with its   *)
(* one critical worker, Application.shutdown and the mark in app_metadata  *)
(* that tells the next process how this one ended.  The recovery has a     *)
(* module of its own; here it is a step that may fail.                     *)
(***************************************************************************)
EXTENDS Scheduler

VARIABLES
  main,        (* where the main coroutine is suspended                      *)
  stop,        (* Application._stop                                          *)
  supervisor,  (* Supervisor.state                                           *)
  mark,        (* app.runtime.state, "absent" before the first start         *)
  kind         (* Application.startup_kind                                   *)

process == <<main, stop, supervisor, kind>>
vars    == <<schedule, process, mark>>

(* The steps of startup, in their order, and those of shutdown. *)
Starting == {"detect", "recover", "prepare", "startup", "probe", "mark", "notify"}
Stopping == {"mark_stopped", "stop_scheduler", "stop_workers", "close"}
Places   == {"down", "supervise", "abandoned"} \union Starting \union Stopping

Kind == {"none", "initial", "restart", "crash_recovery"}

Init ==
  /\ SchedulerInit
  /\ main = "down"
  /\ stop = FALSE
  /\ supervisor = "starting"
  /\ mark = "absent"
  /\ kind = "none"

(* create_application has opened the database. *)
Boot ==
  /\ main = "down"
  /\ main' = "detect"
  /\ UNCHANGED <<schedule, stop, supervisor, mark, kind>>

DetectStartupKind ==
  /\ main = "detect"
  /\ kind' = CASE mark = "absent"  -> "initial"
               [] mark = "running" -> "crash_recovery"
               [] mark = "stopped" -> "restart"
  /\ main' = "recover"
  /\ UNCHANGED <<schedule, stop, supervisor, mark>>

Recover ==
  /\ main = "recover"
  /\ main' = "prepare"
  /\ UNCHANGED <<schedule, stop, supervisor, mark, kind>>

PrepareSchedule ==
  /\ main = "prepare"
  /\ main' = "startup"
  /\ Prepare
  /\ UNCHANGED <<stop, supervisor, mark, kind>>

(* run_startup: the startup task goes through the runner, and start-up     *)
(* goes on whatever its result.                                            *)
RunStartup ==
  /\ main = "startup"
  /\ main' = "probe"
  /\ UNCHANGED <<schedule, stop, supervisor, mark, kind>>

ProbeProviders ==
  /\ main = "probe"
  /\ main' = "mark"
  /\ UNCHANGED <<schedule, stop, supervisor, mark, kind>>

(* Mutant: the mark of an earlier process is left as it is. *)
MarkRunningOnce ==
  /\ main = "mark"
  /\ main' = "notify"
  /\ mark' = IF mark = "absent" THEN "running" ELSE mark
  /\ UNCHANGED <<schedule, stop, supervisor, kind>>

MarkRunning ==
  /\ main = "mark"
  /\ main' = "notify"
  /\ mark' = "running"
  /\ UNCHANGED <<schedule, stop, supervisor, kind>>

(* _notify_startup, then Application.run: the worker is spawned.           *)
Run ==
  /\ main = "notify"
  /\ main' = "supervise"
  /\ supervisor' = "running"
  /\ at' = "ready"
  /\ UNCHANGED <<planned, age, left, task, result, since, stop, mark, kind>>

(* A step of startup raises: the finally of _run calls shutdown, whose     *)
(* first statement is request_stop.                                        *)
StartupFails ==
  /\ main \in Starting
  /\ main' = "mark_stopped"
  /\ stop' = TRUE
  /\ UNCHANGED <<schedule, supervisor, mark, kind>>

(* SIGTERM or SIGINT where the loop can handle them. *)
RequestStop ==
  /\ main = "supervise"
  /\ stop' = TRUE
  /\ UNCHANGED <<schedule, main, supervisor, mark, kind>>

(* SIGINT before the handlers are installed or where they cannot be:       *)
(* asyncio.run cancels the main task.  In a startup task the cancellation  *)
(* ends in _execute, like that of the loop, and start-up goes on.          *)
Interrupt ==
  /\ main \in Starting \union {"supervise"}
  /\ \/ main' = "mark_stopped" /\ stop' = TRUE
     \/ main = "startup" /\ main' = "probe" /\ UNCHANGED stop
  /\ UNCHANGED <<schedule, supervisor, mark, kind>>

(* Supervisor.supervise: a critical worker that fails, and any             *)
(* DatabaseError, lead to SAFE_STOP.  main goes on to shutdown.            *)
SuperviseEnds ==
  /\ main = "supervise"
  /\ at \in {"failed", "ended"}
  /\ supervisor' = IF at = "failed" THEN "safe_stop" ELSE "stopped"
  /\ main' = "mark_stopped"
  /\ stop' = TRUE
  /\ UNCHANGED <<schedule, mark, kind>>

MarkStopped ==
  /\ main = "mark_stopped"
  /\ main' = "stop_scheduler"
  /\ mark' = "stopped"
  /\ UNCHANGED <<schedule, stop, supervisor, kind>>

(* mark_stopped raises: the rest of shutdown and the close of the database *)
(* are passed over, and asyncio.run cancels what is left.                  *)
MarkStoppedFails ==
  /\ main = "mark_stopped"
  /\ main' = "abandoned"
  /\ CancelLoop
  /\ UNCHANGED <<planned, stop, supervisor, mark, kind>>

StopScheduler ==
  /\ main = "stop_scheduler"
  /\ main' = "stop_workers"
  /\ SchedulerShutdown
  /\ UNCHANGED <<stop, supervisor, mark, kind>>

(* Level2Worker.cancel_all and Supervisor.shutdown, whose gather waits     *)
(* until the cancelled loop has ended: outside a handler the cancellation  *)
(* ends it, and the wait is part of the step.  A handler would swallow the *)
(* cancellation, and gather and the close of the database would wait for   *)
(* the loop to come round: ClosedQuietly says that there is never such a   *)
(* handler left.                                                           *)
StopWorkers ==
  /\ main = "stop_workers"
  /\ main' = "close"
  /\ CancelLoop
  /\ supervisor' = IF supervisor = "safe_stop" THEN supervisor ELSE "stopped"
  /\ UNCHANGED <<planned, stop, mark, kind>>

ForgetProcess ==
  /\ main' = "down"
  /\ stop' = FALSE
  /\ supervisor' = "starting"
  /\ kind' = "none"
  /\ ForgetLoop

(* container.aclose, database.close, the end of asyncio.run. *)
Close ==
  /\ main \in {"close", "abandoned"}
  /\ at \in Quiet
  /\ ForgetProcess
  /\ UNCHANGED <<age, mark>>

Crash ==
  /\ main # "down"
  /\ ForgetProcess
  /\ UNCHANGED <<age, mark>>

Startup ==
  \/ DetectStartupKind
  \/ Recover
  \/ PrepareSchedule
  \/ RunStartup
  \/ ProbeProviders
  \/ MarkRunning
  \/ Run

Shutdown ==
  \/ SuperviseEnds
  \/ MarkStopped
  \/ MarkStoppedFails
  \/ StopScheduler
  \/ StopWorkers
  \/ Close

Loop == LoopStep(stop) /\ UNCHANGED <<process, mark>>

Clock == PassTime /\ UNCHANGED <<process, mark>>

Next ==
  \/ Boot
  \/ Startup
  \/ StartupFails
  \/ RequestStop
  \/ Interrupt
  \/ Shutdown
  \/ Crash
  \/ Loop
  \/ Clock

Spec == Init /\ [][Next]_vars

(***************************************************************************)
(* Fairness.  The clock goes on, the event loop runs every ready           *)
(* coroutine, every statement of start-up and shutdown returns or raises,  *)
(* and a handler ends: Level 1 has a time limit of its own, the others     *)
(* make requests that have one.  Nothing is assumed of starts, stops,      *)
(* crashes and errors.                                                     *)
(***************************************************************************)
FairSpec ==
  /\ Spec
  /\ WF_vars(Clock)
  /\ WF_vars(Loop)
  /\ WF_vars(Startup)
  /\ WF_vars(Shutdown)
-----------------------------------------------------------------------------
TypeOK ==
  /\ planned \in [Tasks -> Nat \union {Never}]
  /\ age \in [Tasks -> Nat \union {Never}]
  /\ \A t \in Tasks : planned[t] <= Interval[t] /\ age[t] <= Interval[t]
  /\ at \in Place
  /\ left \subseteq Tasks
  /\ task \in Tasks \union {NoTask}
  /\ result \in Result
  /\ since \in Nat
  /\ main \in Places
  /\ stop \in BOOLEAN
  /\ supervisor \in {"starting", "running", "safe_stop", "stopped"}
  /\ mark \in {"absent", "running", "stopped"}
  /\ kind \in Kind

Begins(t) == at # "handling" /\ at' = "handling" /\ task' = t

(* A task is not run again before its interval has passed since the end of *)
(* its last recorded success, whatever was missed, delayed or restarted in *)
(* between: Scheduler.prepare and _reschedule never catch up.              *)
NeverTooEarly ==
  [][\A t \in Tasks : Begins(t) => age[t] \in {Never, Interval[t]}]_vars

(* Once the scheduler is shut down, or the loop has failed or left, no     *)
(* handler is started, although a tick may still be under way and may      *)
(* still plan the next run of the task it was at.                          *)
ShutdownIsFinal ==
  [][(main \in {"stop_workers", "close"} \/ at \in Quiet) =>
       at' # "handling"]_vars

(* When the database is about to be closed nothing of the loop is left to  *)
(* use it, although the cancellation of a handler does not end the loop:   *)
(* shutdown has dealt with the handler before it cancels the workers.  A   *)
(* shutdown that raises in mark_stopped closes nothing; that the process   *)
(* ends all the same is StopEnds.                                          *)
ClosedQuietly == main = "close" => at \in Quiet

(* A handler of the loop runs under the mark "running", so that a crash in *)
(* it is recognised by the next start; the exception is a shutdown that    *)
(* has not come to the scheduler yet.  The startup tasks are outside the   *)
(* loop and run before mark_running.                                       *)
WorkIsMarked ==
  at = "handling" => mark = "running" \/ main = "stop_scheduler"

(* While the application runs every task is run again and again: a slow    *)
(* task or one that fails delays the others but does not starve them.      *)
NoTaskStarves ==
  \A t \in Tasks :
    main = "supervise" /\ ~ stop
      ~> (at = "handling" /\ task = t) \/ main # "supervise" \/ stop

(* An application that is told to stop, or whose loop fails, ends.         *)
StopEnds == stop \/ at = "failed" ~> main = "down"

(* Promises of the documentation that the code does not keep.              *)

(* OPERATING.md: on SIGTERM no new cycles are begun.                       *)
SignalStartsNothing ==
  [][\A t \in Tasks : main = "supervise" /\ stop => ~ Begins(t)]_vars
=============================================================================
