-------------------------- MODULE ApplicationProofs -------------------------
(***************************************************************************)
(* Proofs about the process: the scheduler and the life of the process,    *)
(* for any tasks and any intervals, then what it builds from its           *)
(* configuration, for any documents and environments.                      *)
(***************************************************************************)
EXTENDS Application, CompositionRoot, FiniteSetTheorems, WellFoundedInduction, TLAPS

(* What the main coroutine's place says of the loop and of the mark.       *)
Order ==
  /\ main \in {"down"} \union Starting => at = "off"
  /\ main \in {"notify", "supervise"} => mark = "running"
  /\ main \in {"mark_stopped", "abandoned"} /\ at \notin Quiet => mark = "running"
  /\ main \in Stopping \union {"abandoned"} => stop
  /\ main = "stop_workers" =>
       at # "handling" /\ \A t \in left : planned[t] = Never
  /\ main = "close" => at \in Quiet

(* The task in hand is one of the tasks, and will not be visited again.    *)
Current ==
  /\ at \in {"handling", "recording"} => task \in Tasks \ left
  /\ at = "recording" => since <= Interval[task]

(* The plan is at least an interval from the last recorded success, unless *)
(* the loop ended between the record and the plan; the tasks of a tick     *)
(* were due when it began.                                                 *)
Distance ==
  \A t \in Tasks :
    /\ at \notin {"failed", "ended"} /\ planned[t] # Never /\ age[t] # Never
         => planned[t] + age[t] >= Interval[t]
    /\ t \in left => age[t] \in {Never, Interval[t]}

IInv == TypeOK /\ Order /\ Current /\ Distance
-----------------------------------------------------------------------------
LEMMA NoPlan ==
  ASSUME NEW plan, plan = [t \in Tasks |-> Never]
  PROVE  /\ plan \in [Tasks -> Nat \union {Never}]
         /\ \A t \in Tasks : plan[t] = Never /\ plan[t] <= Interval[t]
  <1>1. \A t \in Tasks : Interval[t] \in Nat /\ plan[t] = Never
    BY SchedulerAssumption
  <1>2. ASSUME NEW n \in Nat PROVE Never <= n
    BY DEF Never
  <1>3. \A t \in Tasks : plan[t] <= Interval[t]
    BY <1>1, <1>2
  <1> QED  BY <1>1, <1>3

LEMMA InitIInv == Init => IInv
  <1> SUFFICES ASSUME Init PROVE IInv
    OBVIOUS
  <1>1. /\ planned \in [Tasks -> Nat \union {Never}] /\ age \in [Tasks -> Nat \union {Never}]
        /\ \A t \in Tasks : planned[t] = Never /\ planned[t] <= Interval[t] /\ age[t] <= Interval[t]
    BY NoPlan DEF Init, SchedulerInit
  <1>2. TypeOK
    BY <1>1 DEF Init, SchedulerInit, TypeOK, Place, Places, Result, Kind
  <1>3. Order /\ Current
    BY DEF Init, SchedulerInit, Order, Current, Quiet, Starting, Stopping
  <1>4. Distance
    BY <1>1 DEF Init, SchedulerInit, Distance
  <1> QED  BY <1>2, <1>3, <1>4 DEF IInv

(* The steps of the main coroutine that leave the scheduler alone.         *)
LEMMA MainSteps ==
  ASSUME IInv, UNCHANGED schedule,
         Boot \/ DetectStartupKind \/ Recover \/ RunStartup \/ ProbeProviders
         \/ MarkRunning \/ StartupFails \/ RequestStop \/ Interrupt
         \/ SuperviseEnds \/ MarkStopped
  PROVE  IInv'
  <1> USE DEF IInv, schedule, loop
  <1>1. TypeOK'
    <2>1. /\ stop \in BOOLEAN /\ mark \in {"absent", "running", "stopped"} /\ kind \in Kind
          /\ main \in Places
          /\ supervisor \in {"starting", "running", "safe_stop", "stopped"}
      BY DEF TypeOK
    <2>2. main' \in Places /\ stop' \in BOOLEAN
      BY ONLY <2>1, Boot \/ DetectStartupKind \/ Recover \/ RunStartup \/ ProbeProviders
                    \/ MarkRunning \/ StartupFails \/ RequestStop \/ Interrupt
                    \/ SuperviseEnds \/ MarkStopped
         DEF Places, Starting, Stopping, Boot, DetectStartupKind, Recover, RunStartup,
             ProbeProviders, MarkRunning, StartupFails, RequestStop, Interrupt,
             SuperviseEnds, MarkStopped
    <2>3. /\ mark' \in {"absent", "running", "stopped"} /\ kind' \in Kind
          /\ supervisor' \in {"starting", "running", "safe_stop", "stopped"}
      BY ONLY <2>1, Boot \/ DetectStartupKind \/ Recover \/ RunStartup \/ ProbeProviders
                    \/ MarkRunning \/ StartupFails \/ RequestStop \/ Interrupt
                    \/ SuperviseEnds \/ MarkStopped
         DEF Kind, Boot, DetectStartupKind, Recover, RunStartup, ProbeProviders,
             MarkRunning, StartupFails, RequestStop, Interrupt, SuperviseEnds, MarkStopped
    <2> QED  BY <2>2, <2>3 DEF TypeOK
  <1>2. Order'
    BY DEF TypeOK, Order, Quiet, Places, Starting, Stopping, Boot, DetectStartupKind, Recover,
           RunStartup, ProbeProviders, MarkRunning, StartupFails, RequestStop,
           Interrupt, SuperviseEnds, MarkStopped
  <1>3. Current' /\ Distance'
    BY DEF Current, Distance
  <1> QED  BY <1>1, <1>2, <1>3

(* The rest of a tick over tasks that were due and a plan of which the     *)
(* shutdown has left nothing for them.                                     *)
LEMMA AdvanceStep ==
  ASSUME TypeOK, NEW due \in SUBSET Tasks, NEW plan \in [Tasks -> Nat \union {Never}],
         Advance(due, plan)
  PROVE  /\ at' \in {"handling", "waiting"}
         /\ left' \subseteq due
         /\ task' \in Tasks \union {NoTask}
         /\ at' = "handling" => /\ task' \in due \ left'
                                /\ plan[task'] # Never
  BY DEF Advance

LEMMA BeginTickStep ==
  ASSUME IInv, BeginTick(stop), UNCHANGED <<process, mark>>
  PROVE  IInv'
  <1> USE DEF IInv, process
  <1>1. CASE stop /\ at' = "ended" /\ UNCHANGED <<left, task>>
    <2>1. TypeOK' /\ Order' /\ Current'
      BY <1>1 DEF BeginTick, TypeOK, Place, Order, Quiet, Starting, Stopping, Current
    <2> QED  BY <1>1, <2>1 DEF BeginTick, Distance
  <1>2. CASE ~ stop /\ Advance({t \in Tasks : planned[t] = 0}, planned)
    <2> DEFINE due == {t \in Tasks : planned[t] = 0}
    <2>1. /\ at' \in {"handling", "waiting"}
          /\ left' \subseteq due
          /\ task' \in Tasks \union {NoTask}
          /\ at' = "handling" => task' \in due \ left'
      BY <1>2, AdvanceStep DEF TypeOK
    <2>2. UNCHANGED <<planned, age, result, since>> /\ at \in {"ready", "waiting"}
      BY DEF BeginTick
    <2>3. TypeOK' /\ Order' /\ Current'
      BY <1>2, <2>1, <2>2 DEF TypeOK, Place, Order, Quiet, Starting, Stopping, Current
    <2>4. \A t \in due : age[t] \in {Never, Interval[t]}
      BY <2>2, SchedulerAssumption DEF Distance, TypeOK, Never
    <2>5. Distance'
      BY <2>1, <2>2, <2>4 DEF Distance
    <2> QED  BY <2>3, <2>5
  <1> QED  BY <1>1, <1>2 DEF BeginTick

LEMMA HandlerEndsStep ==
  ASSUME IInv, HandlerEnds, UNCHANGED <<process, mark>>
  PROVE  IInv'
  BY SchedulerAssumption
  DEF IInv, HandlerEnds, process, TypeOK, Order, Current, Distance, Place, Result, Quiet,
      Starting, Stopping

LEMMA RecordStep ==
  ASSUME IInv, Record, UNCHANGED <<process, mark>>
  PROVE  IInv'
  <1> USE DEF IInv, process
  <1>1. /\ task \in Tasks \ left
        /\ since <= Interval[task]
        /\ at = "recording"
        /\ since' = 0 /\ result' = "none"
    BY DEF Record, Current
  <1>2. /\ planned' = [planned EXCEPT ![task] = Interval[task]]
        /\ age' = [age EXCEPT ![task] = IF result = "success" THEN since ELSE Never]
    BY DEF Record, Recorded, Rescheduled
  <1>3. planned' \in [Tasks -> Nat \union {Never}]
    BY <1>1, <1>2, SchedulerAssumption DEF TypeOK
  <1>4. /\ at' \in {"handling", "waiting"}
        /\ left' \subseteq left
        /\ task' \in Tasks \union {NoTask}
        /\ at' = "handling" => /\ task' \in left \ left'
                               /\ planned'[task'] # Never
    <2>1. Advance(left, planned')
      BY DEF Record
    <2> QED  BY <1>3, <2>1, AdvanceStep DEF TypeOK
  <1>5. TypeOK'
    BY <1>1, <1>2, <1>3, <1>4, SchedulerAssumption DEF TypeOK, Place, Result, Never
  <1>6. Order'
    BY <1>1, <1>2, <1>4 DEF Order, TypeOK, Quiet, Starting, Stopping
  <1>7. Current'
    BY <1>1, <1>4 DEF Current, TypeOK
  <1>8. Distance'
    BY <1>1, <1>2, <1>3, <1>4, SchedulerAssumption DEF Distance, TypeOK, Never
  <1> QED  BY <1>5, <1>6, <1>7, <1>8

LEMMA RecordFailsStep ==
  ASSUME IInv, RecordFails, UNCHANGED <<process, mark>>
  PROVE  IInv'
  BY DEF IInv, RecordFails, process, TypeOK, Order, Current, Distance, Place, Result,
         Quiet, Starting, Stopping

LEMMA ClockStep ==
  ASSUME IInv, Clock
  PROVE  IInv'
  <1> USE DEF IInv, process
  <1>1. /\ planned' = [t \in Tasks |-> IF planned[t] > 0 THEN planned[t] - 1 ELSE planned[t]]
        /\ age' = [t \in Tasks |-> IF age[t] \in 0..(Interval[t] - 1)
                                   THEN age[t] + 1 ELSE age[t]]
        /\ at = "recording" =>
             since' = IF since \in 0..(Interval[task] - 1) THEN since + 1 ELSE since
        /\ at # "recording" => since' = since
        /\ UNCHANGED <<at, left, task, result, process, mark>>
    BY DEF Clock, PassTime, Older
  <1>2. TypeOK' /\ Current'
    BY <1>1, SchedulerAssumption DEF TypeOK, Current, Never
  <1>3. \A t \in Tasks : /\ planned'[t] = Never <=> planned[t] = Never
                         /\ age'[t] = Never <=> age[t] = Never
    BY <1>1, SchedulerAssumption DEF TypeOK, Never
  <1>4. Order'
    BY <1>1, <1>3 DEF Order, TypeOK
  <1>5. Distance'
    BY <1>1, <1>3, SchedulerAssumption DEF Distance, TypeOK, Never
  <1> QED  BY <1>2, <1>4, <1>5

LEMMA PrepareStep ==
  ASSUME IInv, PrepareSchedule
  PROVE  IInv'
  <1> USE DEF IInv
  <1>1. /\ planned' = [t \in Tasks |-> IF age[t] = Never THEN 0 ELSE Interval[t] - age[t]]
        /\ main = "prepare" /\ main' = "startup"
        /\ UNCHANGED <<age, loop, stop, supervisor, mark, kind>>
    BY DEF PrepareSchedule, Prepare
  <1>2. TypeOK'
    BY <1>1, SchedulerAssumption DEF TypeOK, loop, Places, Starting, Never
  <1>3. Order' /\ Current'
    BY <1>1 DEF Order, Current, loop, Starting, Stopping
  <1>4. Distance'
    BY <1>1, SchedulerAssumption DEF Distance, TypeOK, loop, Never
  <1> QED  BY <1>2, <1>3, <1>4

LEMMA RunStep ==
  ASSUME IInv, Run
  PROVE  IInv'
  BY DEF IInv, Run, TypeOK, Order, Current, Distance, Place, Places, Quiet, Starting, Stopping

LEMMA CancelLoopStep ==
  ASSUME IInv, CancelLoop, UNCHANGED planned,
         main' \in Places, stop' \in BOOLEAN,
         supervisor' \in {"starting", "running", "safe_stop", "stopped"},
         UNCHANGED <<mark, kind>>
  PROVE  /\ TypeOK' /\ Current' /\ Distance'
         /\ at' \in Quiet \/ (at = "handling" /\ at' = "recording")
  <1> USE DEF IInv
  <1>1. CASE at = "handling"
    <2>1. /\ at' = "recording" /\ since' = 0 /\ result' = "cancelled"
          /\ UNCHANGED <<age, left, task>>
      BY <1>1 DEF CancelLoop, Quiet
    <2>2. TypeOK'
      BY <2>1 DEF TypeOK, Place, Result
    <2>3. Current' /\ Distance'
      BY <1>1, <2>1, SchedulerAssumption DEF TypeOK, Current, Distance
    <2> QED  BY <1>1, <2>1, <2>2, <2>3
  <1>2. CASE at \notin {"handling"} \union Quiet
    <2>1. /\ at' = "ended" /\ left' = {} /\ task' = NoTask /\ result' = "none"
          /\ since' = 0
          /\ age' = age \/ (at = "recording" /\ Recorded)
      BY <1>2 DEF CancelLoop
    <2>2. /\ age' \in [Tasks -> Nat \union {Never}]
          /\ \A t \in Tasks : age'[t] <= Interval[t]
      <3>1. CASE age' = age
        BY <3>1 DEF TypeOK
      <3>2. CASE at = "recording" /\ Recorded
        <4>1. task \in Tasks /\ since \in Nat /\ since <= Interval[task]
          BY <3>2 DEF Current, TypeOK
        <4>2. age' = [age EXCEPT ![task] = IF result = "success" THEN since ELSE Never]
          BY <3>2 DEF Recorded
        <4>3. age' \in [Tasks -> Nat \union {Never}]
          BY <4>1, <4>2 DEF TypeOK
        <4>4. \A t \in Tasks : Interval[t] \in Nat /\ Never <= Interval[t]
          BY SchedulerAssumption DEF Never
        <4>5. ASSUME NEW t \in Tasks PROVE age'[t] <= Interval[t]
          BY <4>1, <4>2, <4>4 DEF TypeOK
        <4> QED  BY <4>3, <4>5
      <3> QED  BY <2>1, <3>1, <3>2
    <2>3. TypeOK'
      BY <2>1, <2>2 DEF TypeOK, Place, Result
    <2> QED  BY <2>1, <2>3 DEF Current, Distance, Quiet
  <1>3. CASE at \in Quiet
    <2>1. UNCHANGED <<age, at, left, task, result, since>>
      BY <1>3 DEF CancelLoop, loop, Quiet
    <2> QED  BY <1>3, <2>1 DEF TypeOK, Current, Distance
  <1> QED  BY <1>1, <1>2, <1>3

LEMMA MarkStoppedFailsStep ==
  ASSUME IInv, MarkStoppedFails
  PROVE  IInv'
  <1>1. TypeOK' /\ Current' /\ Distance'
    BY CancelLoopStep DEF MarkStoppedFails, IInv, TypeOK, Places
  <1>2. at' \in Quiet \/ (at = "handling" /\ at' = "recording")
    BY CancelLoopStep DEF MarkStoppedFails, IInv, TypeOK, Places
  <1>3. Order'
    BY <1>2 DEF MarkStoppedFails, IInv, TypeOK, Order, Quiet, Starting, Stopping
  <1> QED  BY <1>1, <1>3 DEF IInv

LEMMA StopWorkersStep ==
  ASSUME IInv, StopWorkers
  PROVE  IInv'
  <1>1. TypeOK' /\ Current' /\ Distance'
    BY CancelLoopStep DEF StopWorkers, IInv, TypeOK, Places, Stopping
  <1>2. at' \in Quiet
    BY CancelLoopStep DEF StopWorkers, IInv, TypeOK, Places, Stopping, Order
  <1>3. Order'
    BY <1>2 DEF StopWorkers, IInv, TypeOK, Order, Quiet, Starting, Stopping
  <1> QED  BY <1>1, <1>3 DEF IInv

LEMMA StopSchedulerStep ==
  ASSUME IInv, StopScheduler
  PROVE  IInv'
  <1> USE DEF IInv
  <1>1. /\ main = "stop_scheduler" /\ main' = "stop_workers"
        /\ planned' = [t \in Tasks |-> Never]
        /\ \/ at = "handling" /\ at' = "recording" /\ since' = 0 /\ result' \in Result
           \/ at # "handling" /\ UNCHANGED <<at, since, result>>
        /\ UNCHANGED <<age, left, task, stop, supervisor, mark, kind>>
    BY DEF StopScheduler, SchedulerShutdown
  <1>2. TypeOK'
    BY <1>1, SchedulerAssumption DEF TypeOK, Place, Places, Stopping, Never
  <1>3. Order'
    BY <1>1 DEF Order, TypeOK, Starting, Stopping
  <1>4. Current'
    BY <1>1, SchedulerAssumption DEF Current, TypeOK
  <1>5. Distance'
    BY <1>1 DEF Distance
  <1> QED  BY <1>2, <1>3, <1>4, <1>5

LEMMA ForgetStep ==
  ASSUME IInv, ForgetProcess, UNCHANGED <<age, mark>>
  PROVE  IInv'
  <1> USE DEF IInv, ForgetProcess, ForgetLoop
  <1>1. TypeOK'
    BY NoPlan DEF TypeOK, Place, Places, Result, Kind
  <1>2. Order' /\ Current' /\ Distance'
    BY DEF Order, Current, Distance, Starting, Stopping, Quiet
  <1> QED  BY <1>1, <1>2

LEMMA StutterStep ==
  ASSUME IInv, UNCHANGED vars
  PROVE  IInv'
  BY DEF IInv, TypeOK, Order, Current, Distance, vars, schedule, loop, process

LEMMA NextIInv == IInv /\ [Next]_vars => IInv'
  <1> SUFFICES ASSUME IInv, [Next]_vars PROVE IInv'
    OBVIOUS
  <1>1. CASE Boot \/ RequestStop \/ Interrupt \/ StartupFails
    BY <1>1, MainSteps DEF Boot, RequestStop, Interrupt, StartupFails
  <1>2. CASE Startup
    BY <1>2, MainSteps, PrepareStep, RunStep
    DEF Startup, DetectStartupKind, Recover, RunStartup, ProbeProviders, MarkRunning
  <1>3. CASE Shutdown
    <2>1. CASE SuperviseEnds \/ MarkStopped
      BY <2>1, MainSteps DEF SuperviseEnds, MarkStopped
    <2>2. CASE Close
      BY <2>2, ForgetStep DEF Close
    <2> QED  BY <1>3, <2>1, <2>2, MarkStoppedFailsStep, StopSchedulerStep, StopWorkersStep
             DEF Shutdown
  <1>4. CASE Crash
    BY <1>4, ForgetStep DEF Crash
  <1>5. CASE Loop
    BY <1>5, BeginTickStep, HandlerEndsStep, RecordStep, RecordFailsStep
    DEF Loop, LoopStep
  <1>6. CASE Clock
    BY <1>6, ClockStep
  <1>7. CASE UNCHANGED vars
    BY <1>7, StutterStep
  <1> QED  BY <1>1, <1>2, <1>3, <1>4, <1>5, <1>6, <1>7 DEF Next

(* The invariant of the scheduler and of the process, through every error, *)
(* stop, crash and restart.                                                *)
THEOREM ApplicationInvariantHolds == Spec => []IInv
  BY InitIInv, NextIInv, PTL DEF Spec

(* Type correctness of the scheduler and the process.                      *)
THEOREM ApplicationTypes == Spec => []TypeOK
  BY ApplicationInvariantHolds, PTL DEF IInv

(* Nothing of the scheduler loop is left when the database is closed:      *)
(* Application.shutdown.                                                   *)
THEOREM LoopEndsBeforeClose == Spec => []ClosedQuietly
  <1>1. IInv => ClosedQuietly
    BY DEF IInv, Order, ClosedQuietly
  <1> QED  BY <1>1, ApplicationInvariantHolds, PTL

(* No handler runs unless the next start would recognise a crash in it:    *)
(* mark_running and mark_stopped.                                          *)
THEOREM WorkRunsUnderMark == Spec => []WorkIsMarked
  <1>1. IInv => WorkIsMarked
    BY DEF IInv, TypeOK, Order, WorkIsMarked, Quiet, Places, Starting, Stopping
  <1> QED  BY <1>1, ApplicationInvariantHolds, PTL

-----------------------------------------------------------------------------
(* What begins a handler: a tick, or the record of the run before it.      *)
LEMMA Beginnings ==
  ASSUME IInv, Next, at' = "handling", at # "handling"
  PROVE  Loop /\ (BeginTick(stop) \/ Record)
  BY DEF Next, Boot, RequestStop, Interrupt, StartupFails, Startup, DetectStartupKind,
         Recover, PrepareSchedule, Prepare, RunStartup, ProbeProviders, MarkRunning, Run, Shutdown,
         SuperviseEnds, MarkStopped, MarkStoppedFails, StopScheduler, StopWorkers, Close,
         SchedulerShutdown, CancelLoop, ForgetProcess, ForgetLoop, Crash, Loop, LoopStep,
         Clock, PassTime, HandlerEnds, RecordFails, schedule, loop

(* No task runs before its interval has passed since its last recorded     *)
(* success, in this process or an earlier one: Scheduler.prepare, tick and *)
(* _reschedule.                                                            *)
THEOREM TasksAreSpaced == Spec => NeverTooEarly
  <1>1. ASSUME IInv, [Next]_vars, NEW t \in Tasks, Begins(t)
        PROVE  age[t] \in {Never, Interval[t]}
    <2>1. Next
      BY <1>1 DEF Begins, vars, schedule, loop
    <2>2. BeginTick(stop) \/ Record
      BY <1>1, <2>1, Beginnings DEF Begins
    <2>3. CASE BeginTick(stop)
      <3>1. Advance({u \in Tasks : planned[u] = 0}, planned)
        BY <1>1, <2>3 DEF BeginTick, Begins
      <3>2. planned[t] = 0 /\ at \in {"ready", "waiting"}
        BY <1>1, <2>3, <3>1 DEF BeginTick, Advance, Begins
      <3> QED  BY <1>1, <3>2, SchedulerAssumption DEF IInv, Distance, TypeOK, Never
    <2>4. CASE Record
      <3>1. t \in left
        BY <1>1, <2>4 DEF Record, Advance, Begins
      <3> QED  BY <1>1, <3>1 DEF IInv, Distance
    <2> QED  BY <2>2, <2>3, <2>4
  <1>2. IInv /\ [Next]_vars =>
          [\A t \in Tasks : Begins(t) => age[t] \in {Never, Interval[t]}]_vars
    BY <1>1
  <1> QED  BY <1>2, ApplicationInvariantHolds, PTL DEF Spec, NeverTooEarly

(* After the shutdown of the scheduler, and after a failure of the loop,   *)
(* no handler is started: Scheduler.shutdown, Supervisor._safe_stop.       *)
THEOREM NothingStartsAfterShutdown == Spec => ShutdownIsFinal
  <1>1. ASSUME IInv, [Next]_vars, main \in {"stop_workers", "close"} \/ at \in Quiet,
               at' = "handling", vars' # vars
        PROVE  FALSE
    <2>1. at # "handling"
      BY <1>1 DEF IInv, Order, Quiet
    <2>2. Loop /\ (BeginTick(stop) \/ Record)
      BY <1>1, <2>1, Beginnings
    <2>3. at \notin Quiet
      BY <2>2 DEF BeginTick, Record, Quiet
    <2>4. main = "stop_workers"
      BY <1>1, <2>3 DEF IInv, Order
    <2>5. CASE BeginTick(stop)
      BY <1>1, <2>4, <2>5 DEF BeginTick, IInv, Order, Stopping
    <2>6. CASE Record
      <3>1. \A u \in left : Rescheduled[u] = Never
        BY <1>1, <2>4, <2>6 DEF IInv, Order, Current, TypeOK, Record, Rescheduled
      <3> QED  BY <1>1, <2>6, <3>1 DEF Record, Advance
    <2> QED  BY <2>2, <2>5, <2>6
  <1>2. IInv /\ [Next]_vars =>
          [(main \in {"stop_workers", "close"} \/ at \in Quiet) => at' # "handling"]_vars
    BY <1>1
  <1> QED  BY <1>2, ApplicationInvariantHolds, PTL DEF Spec, ShutdownIsFinal
-----------------------------------------------------------------------------
(***************************************************************************)
(* The composition root, for any documents, environments and endpoints.    *)
(***************************************************************************)

(* A sequence with as many values as positions holds no value twice.       *)
LEMMA DistinctValues ==
  ASSUME NEW n \in Nat, NEW T, NEW f \in [1..n -> T],
         \A t \in T : \E i \in 1..n : f[i] = t,
         Cardinality(T) = n
  PROVE  \A i, j \in 1..n : f[i] = f[j] => i = j
  <1>1. IsFiniteSet(1..n) /\ Cardinality(1..n) = n
    BY FS_Interval
  <1>2. f \in Surjection(1..n, T)
    BY DEF Surjection
  <1>3. f \in Injection(1..n, T)
    BY <1>1, <1>2, FS_Surjection
  <1> QED  BY <1>3 DEF Injection, IsInjective

(* The validated uniqueness of the identities of a list.                   *)
LEMMA UniqueIds ==
  ASSUME NEW list, list \in Seq(ToSet(list)), Cardinality(Ids(ToSet(list))) = Len(list)
  PROVE  \A a, b \in ToSet(list) : a.id = b.id => a = b
  <1> DEFINE n == Len(list)
             f == [i \in 1..n |-> list[i].id]
  <1>1. n \in Nat /\ DOMAIN list = 1..n
    OBVIOUS
  <1>2. f \in [1..n -> Ids(ToSet(list))]
    BY <1>1 DEF Ids, ToSet
  <1>3. \A t \in Ids(ToSet(list)) : \E i \in 1..n : f[i] = t
    BY <1>1 DEF Ids, ToSet
  <1>4. \A i, j \in 1..n : f[i] = f[j] => i = j
    <2> HIDE DEF f, n
    <2> QED  BY <1>1, <1>2, <1>3, DistinctValues DEF n
  <1> QED  BY <1>1, <1>4 DEF ToSet

LEMMA UniqueKeys ==
  ASSUME NEW list, list \in Seq(ToSet(list)),
         Cardinality({Key(t) : t \in ToSet(list)}) = Len(list)
  PROVE  \A a, b \in ToSet(list) : Key(a) = Key(b) => a = b
  <1> DEFINE n == Len(list)
             keys == {Key(t) : t \in ToSet(list)}
             f == [i \in 1..n |-> Key(list[i])]
  <1>1. n \in Nat /\ DOMAIN list = 1..n
    OBVIOUS
  <1>2. f \in [1..n -> keys]
    BY <1>1 DEF ToSet
  <1>3. \A t \in keys : \E i \in 1..n : f[i] = t
    BY <1>1 DEF ToSet
  <1>4. \A i, j \in 1..n : f[i] = f[j] => i = j
    <2>1. Cardinality(keys) = n
      OBVIOUS
    <2>2. n \in Nat
      BY <1>1
    <2> HIDE DEF f, n, keys
    <2> QED  BY ONLY <1>2, <1>3, <2>1, <2>2, DistinctValues
  <1>5. \A i, j \in 1..n : Key(list[i]) = Key(list[j]) => i = j
    BY <1>4
  <1> QED  BY <1>1, <1>5 DEF ToSet

(* The first position of a list at which something holds.                  *)
LEMMA FirstPosition ==
  ASSUME NEW P \in SUBSET Nat, P # {}
  PROVE  \E i \in P : \A j \in P : ~ (j < i)
  <1> DEFINE R == OpToRel(<, Nat)
  <1>1. IsWellFoundedOn(R, Nat)
    BY NatLessThanWellFounded
  <1>2. PICK i \in P : \A j \in P : <<j, i>> \notin R
    <2> HIDE DEF R
    <2> QED  BY <1>1, WFMin
  <1>3. \A j \in P : j < i => <<j, i>> \in R
    BY DEF OpToRel
  <1> QED  BY <1>2, <1>3
-----------------------------------------------------------------------------
(* The order of the tokens of a scan, and how many of them it takes.       *)
LEMMA PrecedesIsAnOrder ==
  ASSUME NEW c, c.tokens \in Seq(ToSet(c.tokens)), \A t \in ToSet(c.tokens) : TokenIsValid(t)
  PROVE  LET S == DOMAIN c.tokens
         IN  /\ \A i \in S : ~ Precedes(c, i, i)
             /\ \A i, j \in S : i = j \/ Precedes(c, i, j) \/ Precedes(c, j, i)
             /\ \A i, j, k \in S : Precedes(c, i, j) /\ Precedes(c, j, k) => Precedes(c, i, k)
  <1> DEFINE S == DOMAIN c.tokens
  <1>1. S \subseteq Nat
    OBVIOUS
  <1>2. \A i \in S : /\ c.tokens[i].symbol \in Nat
                     /\ c.tokens[i].rank \in Nat \/ c.tokens[i].rank = None
    BY DEF ToSet, TokenIsValid
  <1>3. \A i \in S : ~ Precedes(c, i, i)
    BY <1>1, <1>2 DEF Precedes
  <1>4. \A i, j \in S : i = j \/ Precedes(c, i, j) \/ Precedes(c, j, i)
    BY <1>1, <1>2 DEF Precedes
  <1>5. \A i, j, k \in S : Precedes(c, i, j) /\ Precedes(c, j, k) => Precedes(c, i, k)
    BY <1>1, <1>2 DEF Precedes
  <1> QED  BY <1>3, <1>4, <1>5

LEMMA AtMostTop ==
  ASSUME NEW c, c.tokens \in Seq(ToSet(c.tokens)), \A t \in ToSet(c.tokens) : TokenIsValid(t),
         c.level1.top \in Nat
  PROVE  Cardinality(ScanTokens(c)) <= c.level1.top
  <1> DEFINE n == Len(c.tokens)
             S == Tradable(c)
             top == c.level1.top
             Before(i) == {j \in S : Precedes(c, j, i)}
             K == {i \in S : Cardinality(Before(i)) < top}
             rank == [i \in K |-> Cardinality(Before(i))]
             key == [i \in K |-> Key(c.tokens[i])]
  <1>1. n \in Nat /\ DOMAIN c.tokens = 1..n /\ S \subseteq 1..n
    BY DEF Tradable
  <1>2. IsFiniteSet(S) /\ IsFiniteSet(K)
    <2>1. IsFiniteSet(1..n)
      BY <1>1, FS_Interval
    <2>2. IsFiniteSet(S)
      BY <1>1, <2>1, FS_Subset
    <2> HIDE DEF S
    <2> QED  BY <2>2, FS_Subset
  <1>3. \A i \in S : IsFiniteSet(Before(i)) /\ Cardinality(Before(i)) \in Nat
    BY <1>2, FS_Subset, FS_CardinalityType
  <1>4. ASSUME NEW i \in S, NEW j \in S, Precedes(c, i, j)
        PROVE  Cardinality(Before(i)) < Cardinality(Before(j))
    <2>1. Before(i) \subseteq Before(j) /\ i \in Before(j) /\ i \notin Before(i)
      BY <1>1, <1>4, PrecedesIsAnOrder
    <2>2. Cardinality(Before(i)) <= Cardinality(Before(j)) /\ Before(i) # Before(j)
      BY <1>3, <2>1, FS_Subset
    <2>3. Cardinality(Before(i)) # Cardinality(Before(j))
      BY <1>3, <2>1, <2>2, FS_Subset
    <2> HIDE DEF Before
    <2> QED  BY <1>3, <2>2, <2>3
  <1>5. \A i, j \in K : rank[i] = rank[j] => i = j
    <2> SUFFICES ASSUME NEW i \in K, NEW j \in K, rank[i] = rank[j], i # j
                 PROVE  FALSE
      OBVIOUS
    <2>1. Precedes(c, i, j) \/ Precedes(c, j, i)
      BY <1>1, PrecedesIsAnOrder
    <2>2. i \in S /\ j \in S /\ Cardinality(Before(i)) = Cardinality(Before(j))
      OBVIOUS
    <2>3. Cardinality(Before(i)) \in Nat /\ Cardinality(Before(j)) \in Nat
      BY <1>3, <2>2
    <2> HIDE DEF Before, K, rank
    <2>4. CASE Precedes(c, i, j)
      BY <1>4, <2>2, <2>3, <2>4
    <2>5. CASE Precedes(c, j, i)
      BY <1>4, <2>2, <2>3, <2>5
    <2> QED  BY <2>1, <2>4, <2>5
  <1>6. rank \in Injection(K, 0..(top - 1))
    <2>1. ASSUME NEW i \in K  PROVE Cardinality(Before(i)) \in 0..(top - 1)
      <3>1. Cardinality(Before(i)) \in Nat /\ Cardinality(Before(i)) < top
        BY <1>3
      <3> HIDE DEF Before
      <3> QED  BY <3>1
    <2>2. rank \in [K -> 0..(top - 1)]
      BY <2>1
    <2> HIDE DEF rank, K
    <2> QED  BY <1>5, <2>2 DEF Injection, IsInjective
  <1>7. Cardinality(K) <= top
    <2>1. top \in Nat
      OBVIOUS
    <2> HIDE DEF rank, K, top
    <2>2. IsFiniteSet(0..(top - 1)) /\ Cardinality(0..(top - 1)) = top
      <3>1. 0 \in Int /\ top - 1 \in Int
        BY <2>1
      <3>2. /\ IsFiniteSet(0..(top - 1))
            /\ Cardinality(0..(top - 1)) =
                 IF 0 > top - 1 THEN 0 ELSE (top - 1) - 0 + 1
        BY ONLY <3>1, FS_Interval
      <3> QED  BY <2>1, <3>2
    <2> QED  BY <1>6, <2>2, FS_Injection
  <1>8. ScanTokens(c) = {key[i] : i \in K}
    BY DEF ScanTokens
  <1>9. key \in Surjection(K, ScanTokens(c))
    <2>1. key \in [K -> ScanTokens(c)] /\ \A t \in ScanTokens(c) : \E i \in K : key[i] = t
      BY <1>8
    <2> HIDE DEF key, K
    <2> QED  BY <2>1 DEF Surjection
  <1>10. /\ Cardinality(ScanTokens(c)) <= Cardinality(K)
         /\ Cardinality(K) \in Nat /\ Cardinality(ScanTokens(c)) \in Nat
    <2> HIDE DEF key, K
    <2> QED  BY <1>2, <1>9, FS_Surjection, FS_CardinalityType
  <1> HIDE DEF K, key
  <1> QED  BY <1>7, <1>10
-----------------------------------------------------------------------------
(* What validation establishes of a configuration.                         *)
Accepted(c) ==
  /\ IsValid(c)
  /\ \A list \in Lists : c[list] \in Seq(ToSet(c[list]))

LEMMA Identities ==
  ASSUME NEW c, Accepted(c)
  PROVE  /\ \A p \in ToSet(c.providers) : Provider(c, p.id) = p
         /\ \A n \in ToSet(c.networks) : Network(c, n.id) = n
         /\ \A t, u \in ToSet(c.tokens) : Key(t) = Key(u) => t = u
  <1>1. /\ c.providers \in Seq(ToSet(c.providers))
        /\ c.networks \in Seq(ToSet(c.networks))
        /\ c.tokens \in Seq(ToSet(c.tokens))
    BY DEF Accepted, Lists
  <1>2. UniqueIdentities(c)
    BY DEF Accepted, IsValid
  <1>3. \A a, b \in ToSet(c.providers) : a.id = b.id => a = b
    BY <1>1, <1>2, UniqueIds DEF UniqueIdentities
  <1>4. \A a, b \in ToSet(c.networks) : a.id = b.id => a = b
    BY <1>1, <1>2, UniqueIds DEF UniqueIdentities
  <1>5. \A a, b \in ToSet(c.tokens) : Key(a) = Key(b) => a = b
    BY <1>1, <1>2, UniqueKeys DEF UniqueIdentities
  <1>6. \A p \in ToSet(c.providers) : Provider(c, p.id) = p
    BY <1>3 DEF Provider
  <1>7. \A n \in ToSet(c.networks) : Network(c, n.id) = n
    BY <1>4 DEF Network
  <1> QED  BY <1>5, <1>6, <1>7

(* What is enabled is known by its identity alone.                         *)
LEMMA EnabledEntries ==
  ASSUME NEW c, Accepted(c)
  PROVE  /\ \A id \in Ids(EnabledProviders(c)) :
              Provider(c, id) \in EnabledProviders(c) /\ Provider(c, id).id = id
         /\ \A p \in ToSet(c.providers) : ~ p.enabled => p.id \notin Ids(EnabledProviders(c))
         /\ \A n \in ToSet(c.networks) : ~ n.enabled => n.id \notin Ids(EnabledNetworks(c))
         /\ \A t \in ToSet(c.tokens) : ~ t.enabled => Key(t) \notin ScanTokens(c)
  <1>1. \A id \in Ids(EnabledProviders(c)) :
              Provider(c, id) \in EnabledProviders(c) /\ Provider(c, id).id = id
    BY Identities DEF Ids, EnabledProviders
  <1>2. \A p \in ToSet(c.providers) : ~ p.enabled => p.id \notin Ids(EnabledProviders(c))
    <2> SUFFICES ASSUME NEW p \in ToSet(c.providers), ~ p.enabled,
                        p.id \in Ids(EnabledProviders(c))
                 PROVE  FALSE
      OBVIOUS
    <2>1. PICK q \in EnabledProviders(c) : q.id = p.id
      BY DEF Ids
    <2>2. q \in ToSet(c.providers) /\ q.enabled
      BY DEF EnabledProviders
    <2>3. q = p
      BY <2>1, <2>2, Identities
    <2> QED  BY <2>2, <2>3
  <1>3. \A n \in ToSet(c.networks) : ~ n.enabled => n.id \notin Ids(EnabledNetworks(c))
    <2> SUFFICES ASSUME NEW n \in ToSet(c.networks), ~ n.enabled,
                        n.id \in Ids(EnabledNetworks(c))
                 PROVE  FALSE
      OBVIOUS
    <2>1. PICK m \in EnabledNetworks(c) : m.id = n.id
      BY DEF Ids
    <2>2. m \in ToSet(c.networks) /\ m.enabled
      BY DEF EnabledNetworks
    <2>3. m = n
      BY <2>1, <2>2, Identities
    <2> QED  BY <2>2, <2>3
  <1>4. \A t \in ToSet(c.tokens) : ~ t.enabled => Key(t) \notin ScanTokens(c)
    <2> SUFFICES ASSUME NEW t \in ToSet(c.tokens), ~ t.enabled, Key(t) \in ScanTokens(c)
                 PROVE  FALSE
      OBVIOUS
    <2>1. PICK i \in Tradable(c) : Key(c.tokens[i]) = Key(t)
      BY DEF ScanTokens
    <2>2. c.tokens[i] \in ToSet(c.tokens) /\ c.tokens[i].enabled
      BY DEF Tradable, ToSet
    <2>3. c.tokens[i] = t
      BY <2>1, <2>2, Identities
    <2> QED  BY <2>2, <2>3
  <1> QED  BY <1>1, <1>2, <1>3, <1>4

LEMMA FirstIsEnabled ==
  ASSUME NEW c, Accepted(c)
  PROVE  FirstProvider(c) \in EnabledProviders(c)
  <1> DEFINE P == {i \in DOMAIN c.providers : c.providers[i].enabled}
             First(i) == /\ c.providers[i].enabled
                         /\ \A j \in 1..(i - 1) : ~ c.providers[j].enabled
  <1>1. DOMAIN c.providers = 1..Len(c.providers) /\ Len(c.providers) \in Nat
    BY DEF Accepted, Lists
  <1>2. EnabledProviders(c) # {}
    BY DEF Accepted, IsValid, StartupRequirements
  <1>3. P \in SUBSET Nat /\ P # {}
    BY <1>1, <1>2 DEF EnabledProviders, ToSet
  <1>4. PICK i \in P : \A j \in P : ~ (j < i)
    <2> HIDE DEF P
    <2> QED  BY <1>3, FirstPosition
  <1>5. First(i)
    <2>1. ASSUME NEW j \in 1..(i - 1)  PROVE j \in DOMAIN c.providers /\ j < i
      BY <1>1, <1>4
    <2> QED  BY <1>4, <2>1
  <1>6. i \in DOMAIN c.providers
    BY <1>4
  <1> DEFINE k == CHOOSE j \in DOMAIN c.providers : First(j)
  <1>7. k \in DOMAIN c.providers /\ First(k)
    <2> HIDE DEF First
    <2> QED  BY <1>5, <1>6
  <1>8. FirstProvider(c) = c.providers[k]
    BY DEF FirstProvider
  <1> HIDE DEF k
  <1> QED  BY <1>7, <1>8 DEF EnabledProviders, ToSet
-----------------------------------------------------------------------------
(* The endpoints of the parts and the policy of the urls are derived       *)
(* apart; here they meet.                                                  *)
LEMMA AdaptersReach ==
  ASSUME NEW c, Accepted(c), NEW id \in Ids(EnabledProviders(c))
  PROVE  /\ Adapters(c)[id].url.https
         /\ Adapters(c)[id].url.host \in AllowedHosts(c)
  <1> DEFINE p == Provider(c, id)
  <1>1. p \in EnabledProviders(c) /\ Adapters(c)[id].url = BaseUrl(p)
    BY EnabledEntries DEF Adapters
  <1>2. p \in ToSet(c.providers) /\ ProviderIsValid(p)
    BY <1>1 DEF EnabledProviders, Accepted, IsValid, SectionsAreValid
  <1> HIDE DEF p
  <1>3. BaseUrl(p).https
    BY <1>2, DefaultUrlAssumption DEF BaseUrl, ProviderIsValid, Secure
  <1>4. BaseUrl(p).host \in AllowedHosts(c)
    BY <1>1 DEF AllowedHosts
  <1> QED  BY <1>1, <1>3, <1>4

LEMMA NodesReach ==
  ASSUME NEW c, Accepted(c), NEW g \in GasProviders(c), NEW id \in DOMAIN g.urls
  PROVE  g.urls[id].https /\ g.urls[id].host \in AllowedHosts(c)
  <1>1. g.urls = RpcUrls(c)
    <2>1. CASE g = [kind |-> "static", urls |-> <<>>]
      BY <2>1
    <2>2. CASE g = [kind |-> "rpc", urls |-> RpcUrls(c)]
      BY <2>2
    <2> QED  BY <2>1, <2>2 DEF GasProviders
  <1>2. PICK n \in EnabledNetworks(c) : n.id = id /\ n.rpc # None
    BY <1>1 DEF RpcUrls, Ids
  <1>3. n \in ToSet(c.networks) /\ Secure(n.rpc)
    BY DEF EnabledNetworks, Accepted, IsValid, SectionsAreValid
  <1>4. RpcUrls(c)[id] = n.rpc
    <2>1. Network(c, id) = n
      BY <1>2, <1>3, Identities
    <2> QED  BY <1>1, <2>1 DEF RpcUrls
  <1>5. n.rpc.https
    BY <1>2, <1>3 DEF Secure
  <1>6. n.rpc.host \in AllowedHosts(c)
    BY <1>2 DEF AllowedHosts
  <1> QED  BY <1>1, <1>4, <1>5, <1>6

LEMMA PricesReach ==
  ASSUME NEW c, Accepted(c), NEW p \in PriceProviders(c)
  PROVE  /\ p.kind = "http" => p.source.https /\ p.source.host \in AllowedHosts(c)
         /\ p.kind = "quote" => p.source \in Ids(EnabledProviders(c))
  <1>1. CASE p = [kind |-> "quote", source |-> FirstProvider(c).id]
    BY <1>1, FirstIsEnabled DEF Ids
  <1>2. CASE p = [kind |-> "http", source |-> c.prices.endpoint] /\ "http" \in ToSet(c.prices.sources)
    <2>1. PricesAreValid(c.prices)
      BY DEF Accepted, IsValid, SectionsAreValid
    <2>2. c.prices.endpoint # None /\ c.prices.endpoint.https
      BY <1>2, <2>1 DEF PricesAreValid, Secure
    <2>3. c.prices.endpoint.host \in AllowedHosts(c)
      BY <2>2 DEF AllowedHosts
    <2> QED  BY <1>2, <2>2, <2>3
  <1> QED  BY <1>1, <1>2 DEF PriceProviders

LEMMA TelegramReaches ==
  ASSUME NEW c, Accepted(c)
  PROVE  /\ HasTelegram(c) <=> c.telegram.enabled
         /\ HasTelegram(c) => /\ c.telegram.url # None
                              /\ c.telegram.url.https
                              /\ c.telegram.url.host \in AllowedHosts(c)
                              /\ {c.telegram.token, c.telegram.chat} \subseteq SecretRefs(c)
         /\ Destinations(c) # {} => c.notifications.enabled /\ HasTelegram(c)
  <1>1. TelegramIsValid(c.telegram)
    BY DEF Accepted, IsValid, SectionsAreValid
  <1>2. HasTelegram(c) <=> c.telegram.enabled
    BY <1>1 DEF HasTelegram, TelegramIsValid
  <1>3. c.telegram.url # None /\ c.telegram.url.https
    BY <1>1 DEF TelegramIsValid, Secure
  <1>4. c.telegram.enabled => /\ c.telegram.url.host \in AllowedHosts(c)
                              /\ {c.telegram.token, c.telegram.chat} \subseteq SecretRefs(c)
    BY DEF AllowedHosts, SecretRefs
  <1>5. Destinations(c) # {} => c.notifications.enabled /\ c.telegram.enabled
    BY DEF Destinations
  <1> QED  BY <1>2, <1>3, <1>4, <1>5
-----------------------------------------------------------------------------
(* The overrides: a list is the file's, a setting is what was given.       *)
LEMMA ListsAreTheFile ==
  ASSUME NEW d \in Documents, NEW overrides
  PROVE  /\ DOMAIN Overridden(d, overrides) = DOMAIN d
         /\ \A list \in Lists : Overridden(d, overrides)[list] = d[list]
         /\ \A section \in DOMAIN Keys \union {"tasks"} :
              DOMAIN Overridden(d, overrides)[section] = DOMAIN d[section]
  <1>1. DOMAIN d = Lists \union DOMAIN Keys \union {"tasks"}
    BY DocumentsAssumption DEF IsDocument
  <1>2. \A section \in DOMAIN Keys \union {"tasks"} : section \in DOMAIN d /\ section \notin Lists
    BY <1>1 DEF Keys, Lists
  <1> QED  BY <1>1, <1>2 DEF Overridden

LEMMA SettingsAreGiven ==
  ASSUME document \in Documents, environment \in Environments,
         NEW section \in DOMAIN Keys \union {"tasks"}, NEW key \in DOMAIN document[section]
  PROVE  Overridden(document, environment.overrides)[section][key] = Given(section, key)
  <1> DEFINE O == environment.overrides
             given == {o \in O : o.section = section}
  <1>1. section \in DOMAIN document /\ section \notin Lists
    BY DocumentsAssumption DEF IsDocument, Keys, Lists
  <1>2. Overridden(document, O)[section][key] =
          IF \E o \in given : o.key = key THEN (CHOOSE o \in given : o.key = key).value
                                          ELSE document[section][key]
    BY <1>1 DEF Overridden
  <1>3. CASE \E o \in O : o.section = section /\ o.key = key
    <2>1. PICK o \in O : o.section = section /\ o.key = key
      BY <1>3
    <2>2. \A p \in O : p.section = section /\ p.key = key => p = o
      BY <2>1, EnvironmentsAssumption
    <2>3. (CHOOSE p \in given : p.key = key) = o
      BY <2>1, <2>2
    <2>4. (CHOOSE p \in O : p.section = section /\ p.key = key) = o
      BY <2>1, <2>2
    <2> QED  BY <1>2, <1>3, <2>1, <2>3, <2>4 DEF Given
  <1>4. CASE ~ \E o \in O : o.section = section /\ o.key = key
    BY <1>2, <1>4 DEF Given
  <1> QED  BY <1>3, <1>4

(* The settings that the properties speak of.                              *)
LEMMA GivenSettings ==
  ASSUME document \in Documents, environment \in Environments,
         NEW c, c = Overridden(document, environment.overrides)
  PROVE  /\ c.level1.top = Given("level1", "top")
         /\ c.level2.timeout = Given("level2", "timeout")
         /\ c.level2.ttl = Given("level2", "ttl")
         /\ c.health.degraded = Given("health", "degraded")
         /\ c.health.failure = Given("health", "failure")
         /\ c.profitability.preliminary = Given("profitability", "preliminary")
         /\ c.profitability.final = Given("profitability", "final")
         /\ c.notifications.enabled = Given("notifications", "enabled")
         /\ c.telegram.enabled = Given("telegram", "enabled")
         /\ c.telegram.commands = Given("telegram", "commands")
         /\ c.system.enabled = Given("system", "enabled")
         /\ \A id \in DOMAIN document.tasks : c.tasks[id] = Given("tasks", id)
  <1>1. \A section \in DOMAIN Keys : DOMAIN document[section] = Keys[section]
    BY DocumentsAssumption DEF IsDocument
  <1>2. \A section \in DOMAIN Keys : \A key \in Keys[section] : c[section][key] = Given(section, key)
    BY <1>1, SettingsAreGiven
  <1>3. \A id \in DOMAIN document.tasks : c.tasks[id] = Given("tasks", id)
    BY SettingsAreGiven
  <1>4. c.level1.top = Given("level1", "top")
    BY <1>2 DEF Keys
  <1>5. c.level2.timeout = Given("level2", "timeout") /\ c.level2.ttl = Given("level2", "ttl")
    BY <1>2 DEF Keys
  <1>6. c.health.degraded = Given("health", "degraded") /\ c.health.failure = Given("health", "failure")
    BY <1>2 DEF Keys
  <1>7. /\ c.profitability.preliminary = Given("profitability", "preliminary")
        /\ c.profitability.final = Given("profitability", "final")
    BY <1>2 DEF Keys
  <1>8. c.notifications.enabled = Given("notifications", "enabled")
    BY <1>2 DEF Keys
  <1>9. c.telegram.enabled = Given("telegram", "enabled") /\ c.telegram.commands = Given("telegram", "commands")
    BY <1>2 DEF Keys
  <1>10. c.system.enabled = Given("system", "enabled")
    BY <1>2 DEF Keys
  <1> QED  BY <1>3, <1>4, <1>5, <1>6, <1>7, <1>8, <1>9, <1>10
-----------------------------------------------------------------------------
(* Once it is loaded, the configuration is the validated document under    *)
(* the environment of the process, with its secrets; what is built and     *)
(* what is scanned are functions of it, and nothing outlives the process.  *)
RootInv ==
  /\ stage \in {"starting", "loaded", "connected", "running"} => environment \in Environments
  /\ stage = "starting" => document \in Documents \union {None}
  /\ stage \in {"loaded", "connected", "running"} =>
       /\ document \in Documents
       /\ config = Overridden(document, environment.overrides)
       /\ IsValid(config)
       /\ secrets = SecretRefs(config)
       /\ secrets \subseteq environment.secrets
  /\ parts # None => stage = "running" /\ parts = Container(config)
  /\ scope # None => stage = "running" /\ scope = ScopeOf(config)

LEMMA InitRootInv == RootInit => RootInv
  BY DEF RootInit, RootInv

LEMMA EndsRootInv ==
  ASSUME NEW code, NEW connection, Ends(code, connection)
  PROVE  RootInv'
  BY DEF Ends, RootInv

LEMMA NextRootInv ==
  ASSUME RootInv, [RootNext]_rootVars
  PROVE  RootInv'
  <1>1. ASSUME Start  PROVE RootInv'
    BY <1>1 DEF Start, RootInv
  <1>2. ASSUME LoadConfiguration  PROVE RootInv'
    <2> DEFINE c == Overridden(document, environment.overrides)
    <2>1. document # None /\ IsValid(c) /\ SecretRefs(c) \subseteq environment.secrets
      BY <1>2 DEF LoadConfiguration, Loads
    <2>2. /\ stage = "starting" /\ stage' = "loaded"
          /\ config' = c
          /\ secrets' = SecretRefs(config')
          /\ UNCHANGED <<document, environment, check, database, parts, scope, exit>>
      BY <1>2 DEF LoadConfiguration
    <2>3. secrets' = SecretRefs(c)
      BY <2>2
    <2> HIDE DEF c
    <2> QED  BY <2>1, <2>2, <2>3 DEF RootInv, c
  <1>3. ASSUME RefuseConfiguration \/ CheckOnly \/ BuildFails \/ Stop  PROVE RootInv'
    BY <1>3, EndsRootInv DEF RefuseConfiguration, CheckOnly, BuildFails, Stop
  <1>4. ASSUME Connect  PROVE RootInv'
    <2>1. ASSUME NEW connection \in {"closed", "open"}, Ends(1, connection)  PROVE RootInv'
      BY <2>1, EndsRootInv
    <2>2. ASSUME stage = "loaded", stage' = "connected",
                 UNCHANGED <<document, environment, check, config, secrets, parts, scope, exit>>
          PROVE  RootInv'
      BY <2>2 DEF RootInv
    <2> QED  BY <1>4, <2>1, <2>2 DEF Connect
  <1>5. ASSUME Build  PROVE RootInv'
    <2>1. scope = None
      BY <1>5 DEF Build, RootInv
    <2> QED  BY <1>5, <2>1 DEF Build, RootInv
  <1>6. ASSUME Scan  PROVE RootInv'
    <2>1. stage = "running" /\ stage' = "running"
      BY <1>6 DEF Scan
    <2> QED  BY <1>6, <2>1 DEF Scan, RootInv
  <1>7. ASSUME UNCHANGED rootVars  PROVE RootInv'
    BY <1>7 DEF rootVars, RootInv
  <1> QED  BY <1>1, <1>2, <1>3, <1>4, <1>5, <1>6, <1>7 DEF RootNext

(* RootInv is inductive from the empty machine on: every process starts    *)
(* with nothing of the one before it.                                      *)
THEOREM ConfigurationInvariantHolds == RootSpec => []RootInv
  BY InitRootInv, NextRootInv, PTL DEF RootSpec
-----------------------------------------------------------------------------
(* What the invariant says while parts are built.                          *)
LEMMA BuiltFrom ==
  ASSUME RootInv, parts # None
  PROVE  /\ document \in Documents /\ environment \in Environments
         /\ config = Overridden(document, environment.overrides)
         /\ Accepted(config)
         /\ secrets = SecretRefs(config) /\ secrets \subseteq environment.secrets
         /\ parts = Container(config)
         /\ scope # None => scope = ScopeOf(config)
  <1>1. /\ document \in Documents /\ environment \in Environments
        /\ config = Overridden(document, environment.overrides)
        /\ IsValid(config)
        /\ secrets = SecretRefs(config) /\ secrets \subseteq environment.secrets
        /\ parts = Container(config)
        /\ scope # None => scope = ScopeOf(config)
    BY DEF RootInv
  <1>2. \A list \in Lists : config[list] \in Seq(ToSet(config[list]))
    BY <1>1, ListsAreTheFile, DocumentsAssumption DEF IsDocument
  <1> QED  BY <1>1, <1>2 DEF Accepted

LEMMA RootInvUsable == RootInv => BuiltPartsAreUsable
  <1> SUFFICES ASSUME RootInv, parts # None  PROVE BuiltPartsAreUsable
    BY DEF BuiltPartsAreUsable
  <1>1. PICK c : c = config
    OBVIOUS
  <1>2. /\ document \in Documents /\ environment \in Environments
        /\ c = Overridden(document, environment.overrides)
        /\ Accepted(c)
        /\ secrets = SecretRefs(c) /\ secrets \subseteq environment.secrets
        /\ parts = Container(c)
        /\ scope # None => scope = ScopeOf(c)
    BY <1>1, BuiltFrom
  <1>3. /\ parts.adapters = Adapters(c) /\ parts.hosts = AllowedHosts(c)
        /\ parts.fees = FeePolicies(c) /\ parts.gas = GasProviders(c)
        /\ parts.prices = PriceProviders(c)
        /\ parts.telegram = IF HasTelegram(c) THEN c.telegram.url ELSE None
        /\ parts.destinations = Destinations(c)
        /\ parts.notifier = HasNotifier(c) /\ parts.commands = HasCommands(c)
    BY <1>2 DEF Container
  <1>4. DOMAIN parts.adapters = Ids(EnabledProviders(c)) /\ parts.fees = Ids(EnabledProviders(c))
    BY <1>3 DEF Adapters, FeePolicies
  <1>5. ASSUME NEW url \in Endpoints, url.host \notin SpecialHosts, ~ url.credentials
        PROVE  Permits(parts.hosts, url)
    <2>1. CASE \E id \in DOMAIN parts.adapters : url = parts.adapters[id].url
      BY <1>2, <1>3, <1>4, <1>5, <2>1, AdaptersReach DEF Permits
    <2>2. CASE \E g \in parts.gas : \E id \in DOMAIN g.urls : url = g.urls[id]
      BY <1>2, <1>3, <1>5, <2>2, NodesReach DEF Permits
    <2>3. CASE \E p \in parts.prices : p.kind = "http" /\ url = p.source
      BY <1>2, <1>3, <1>5, <2>3, PricesReach DEF Permits
    <2>4. CASE url = parts.telegram /\ url # None
      BY <1>2, <1>3, <1>5, <2>4, TelegramReaches DEF Permits
    <2>5. \/ url \in {parts.adapters[id].url : id \in DOMAIN parts.adapters}
          \/ url \in UNION {{g.urls[id] : id \in DOMAIN g.urls} : g \in parts.gas}
          \/ url \in {p.source : p \in {p \in parts.prices : p.kind = "http"}}
          \/ url = parts.telegram /\ url # None
      BY <1>5 DEF Endpoints
    <2> QED  BY <2>1, <2>2, <2>3, <2>4, <2>5
  <1>6. SecretsInUse \subseteq secrets \intersect environment.secrets
    <2>1. ASSUME NEW id \in DOMAIN parts.adapters, parts.adapters[id].key # None
          PROVE  parts.adapters[id].key \in secrets
      <3>1. Provider(c, id) \in EnabledProviders(c) /\ parts.adapters[id].key = Provider(c, id).key
        BY <1>2, <1>3, <1>4, EnabledEntries DEF Adapters
      <3> QED  BY <1>2, <2>1, <3>1 DEF SecretRefs
    <2>2. parts.telegram # None => {config.telegram.token, config.telegram.chat} \subseteq secrets
      BY <1>1, <1>2, <1>3, TelegramReaches
    <2>3. SecretsInUse \subseteq secrets
      BY <2>1, <2>2 DEF SecretsInUse
    <2> QED  BY <1>2, <2>3
  <1>7. parts.destinations # {} => parts.telegram # None
    BY <1>2, <1>3, TelegramReaches
  <1>8. parts.notifier \/ parts.commands => parts.destinations # {}
    BY <1>3 DEF HasNotifier, HasCommands
  <1>9. \A p \in parts.prices : p.kind = "quote" => p.source \in DOMAIN parts.adapters
    BY <1>2, <1>3, <1>4, PricesReach
  <1>10. ASSUME scope # None, NEW pair \in scope.pairs, NEW id \in {pair[1], pair[2]}
         PROVE  /\ id \in DOMAIN parts.adapters \intersect parts.fees
                /\ scope.network \in Provider(config, id).networks
    <2>1. scope.network = c.scanner.network /\ id \in ScanProviders(c)
      BY <1>2, <1>10 DEF ScopeOf
    <2>2. PICK p \in EnabledProviders(c) : p.id = id /\ c.scanner.network \in p.networks
      BY <2>1 DEF ScanProviders
    <2>3. id \in Ids(EnabledProviders(c))
      BY <2>2 DEF Ids
    <2>4. Provider(c, id) = p
      BY <1>2, <2>2, Identities DEF EnabledProviders
    <2> QED  BY <1>1, <1>4, <2>1, <2>2, <2>3, <2>4
  <1>11. /\ Given("level2", "timeout") <= Given("level2", "ttl")
         /\ Given("health", "degraded") <= Given("health", "failure")
         /\ Given("profitability", "preliminary") <= Given("profitability", "final")
    <2>1. /\ Level2IsValid(c.level2) /\ HealthIsValid(c.health)
          /\ ProfitabilityIsValid(c.profitability)
      BY <1>2 DEF Accepted, IsValid, SectionsAreValid, SafeguardsAreValid
    <2> QED  BY <1>2, <2>1, GivenSettings DEF Level2IsValid, HealthIsValid, ProfitabilityIsValid
  <1> QED
    BY <1>5, <1>6, <1>7, <1>8, <1>9, <1>10, <1>11 DEF BuiltPartsAreUsable

LEMMA RootInvSilent == RootInv => DisabledStaysSilent
  <1> SUFFICES ASSUME RootInv, parts # None  PROVE DisabledStaysSilent
    BY DEF DisabledStaysSilent
  <1>1. PICK c : c = config
    OBVIOUS
  <1>2. /\ document \in Documents /\ environment \in Environments
        /\ c = Overridden(document, environment.overrides)
        /\ Accepted(c)
        /\ secrets = SecretRefs(c)
        /\ parts = Container(c)
        /\ scope # None => scope = ScopeOf(c)
    BY <1>1, BuiltFrom
  <1>3. /\ DOMAIN parts.adapters = Ids(EnabledProviders(c))
        /\ parts.gas = GasProviders(c)
        /\ parts.telegram = IF HasTelegram(c) THEN c.telegram.url ELSE None
        /\ parts.destinations = Destinations(c)
        /\ parts.notifier = HasNotifier(c) /\ parts.commands = HasCommands(c)
        /\ parts.tasks = TaskSchedules(c)
    BY <1>2 DEF Container, Adapters
  <1>4. /\ document.providers = c.providers /\ document.networks = c.networks
        /\ document.tokens = c.tokens /\ DOMAIN document.tasks = DOMAIN c.tasks
    BY <1>2, ListsAreTheFile DEF Lists
  <1>5. DOMAIN parts.tasks = RegisteredTasks(c)
    BY <1>3 DEF TaskSchedules
  <1>6. \A p \in ToSet(document.providers) : ~ p.enabled => p.id \notin DOMAIN parts.adapters
    BY <1>2, <1>3, <1>4, EnabledEntries
  <1>7. \A n \in ToSet(document.networks) : ~ n.enabled =>
           \A g \in parts.gas : n.id \notin DOMAIN g.urls
    <2> SUFFICES ASSUME NEW n \in ToSet(document.networks), ~ n.enabled,
                        NEW g \in parts.gas, n.id \in DOMAIN g.urls
                 PROVE  FALSE
      OBVIOUS
    <2>1. g.urls = RpcUrls(c) \/ DOMAIN g.urls = {}
      BY <1>3 DEF GasProviders
    <2>2. n.id \in Ids(EnabledNetworks(c))
      BY <2>1 DEF RpcUrls, Ids
    <2> QED  BY <1>2, <1>4, <2>2, EnabledEntries
  <1>8. ~ Given("notifications", "enabled") =>
           parts.destinations = {} /\ ~ parts.notifier /\ ~ parts.commands
    BY <1>2, <1>3, GivenSettings DEF Destinations, HasNotifier, HasCommands
  <1>9. ~ Given("telegram", "enabled") =>
           /\ parts.telegram = None
           /\ secrets \subseteq {p.key : p \in {p \in ToSet(document.providers) : p.enabled}}
           /\ "telegram_commands" \notin DOMAIN parts.tasks
    <2> SUFFICES ASSUME ~ c.telegram.enabled
                 PROVE  /\ parts.telegram = None
                        /\ secrets \subseteq {p.key : p \in EnabledProviders(c)}
                        /\ "telegram_commands" \notin DOMAIN parts.tasks
      BY <1>2, <1>4, GivenSettings DEF EnabledProviders
    <2>1. ~ HasTelegram(c) /\ ~ HasCommands(c)
      BY DEF HasTelegram, HasCommands
    <2>2. secrets \subseteq {p.key : p \in EnabledProviders(c)}
      BY <1>2 DEF SecretRefs
    <2> QED  BY <1>3, <1>5, <2>1, <2>2 DEF RegisteredTasks
  <1>10. ~ Given("telegram", "commands") => "telegram_commands" \notin DOMAIN parts.tasks
    BY <1>2, <1>5, GivenSettings DEF RegisteredTasks, HasCommands
  <1>11. ~ Given("system", "enabled") => "system_health_notifications" \notin DOMAIN parts.tasks
    BY <1>2, <1>5, GivenSettings DEF RegisteredTasks, HasNotifier
  <1>12. \A id \in DOMAIN parts.tasks \intersect DOMAIN document.tasks :
           ~ Given("tasks", id).enabled => ~ parts.tasks[id].enabled
    BY <1>2, <1>3, <1>4, <1>5, GivenSettings DEF TaskSchedules
  <1>13. ASSUME scope # None
         PROVE  /\ Cardinality(scope.tokens) <= Given("level1", "top")
                /\ \A t \in ToSet(document.tokens) : ~ t.enabled => Key(t) \notin scope.tokens
                /\ \A p \in ToSet(document.providers) : ~ p.enabled => p.id \notin scope.providers
    <2>1. scope.tokens = ScanTokens(c) /\ scope.providers = ScanProviders(c)
      BY <1>2, <1>13 DEF ScopeOf
    <2>2. Level1IsValid(c.level1) /\ \A t \in ToSet(c.tokens) : TokenIsValid(t)
      BY <1>2 DEF Accepted, IsValid, SectionsAreValid
    <2>3. Cardinality(scope.tokens) <= c.level1.top
      <3>1. c.level1.top \in Nat
        <4>1. Level1IsValid(c.level1)
          BY <2>2
        <4> QED  BY ONLY <4>1 DEF Level1IsValid
      <3>2. c.tokens \in Seq(ToSet(c.tokens))
        <4>1. \A list \in Lists : c[list] \in Seq(ToSet(c[list]))
          BY <1>2 DEF Accepted
        <4>2. "tokens" \in Lists
          BY DEF Lists
        <4> QED  BY ONLY <4>1, <4>2
      <3>3. Cardinality(ScanTokens(c)) <= c.level1.top
        BY <2>2, <3>1, <3>2, AtMostTop
      <3> QED  BY <2>1, <3>3
    <2>4. scope.providers \subseteq Ids(EnabledProviders(c))
      BY <2>1 DEF ScanProviders, Ids
    <2> QED  BY <1>2, <1>4, <2>1, <2>3, <2>4, GivenSettings, EnabledEntries
  <1> QED
    BY <1>6, <1>7, <1>8, <1>9, <1>10, <1>11, <1>12, <1>13 DEF DisabledStaysSilent

(* Every part that build_container makes can do its work.                  *)
THEOREM BuiltPartsUsable == RootSpec => []BuiltPartsAreUsable
  BY ConfigurationInvariantHolds, RootInvUsable, PTL

(* What the operator switched off has no part that acts.                   *)
THEOREM DisabledPartsSilent == RootSpec => []DisabledStaysSilent
  BY ConfigurationInvariantHolds, RootInvSilent, PTL
=============================================================================
