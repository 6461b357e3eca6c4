--------------------------- MODULE Level2Pipeline ---------------------------
(***************************************************************************)
(* The life of the jobs and opportunities: the handoff of Level 1, the     *)
(* Level 2 worker and scanner, the opportunity service, the shutdown and   *)
(* the recovery, over one database.                                        *)
(***************************************************************************)
EXTENDS Level1Handoff, Level2Scanner, Level2Worker, RecoveryService

(* Time passes for an entity that exists; a deadline that has passed stays *)
(* passed.                                                                 *)
JobBecomesLate(k) ==
  /\ k \in Perishable
  /\ job[k] # "none"
  /\ lateJobs' = lateJobs \union {k}
  /\ UNCHANGED <<database, lateOpps, phase, scan, worker, recovery>>

OpportunityBecomesLate(k) ==
  /\ k \in Perishable
  /\ opp[k] # "none"
  /\ lateOpps' = lateOpps \union {k}
  /\ UNCHANGED <<database, lateJobs, phase, scan, worker, recovery>>

(* Application.shutdown, first half: the scheduler is stopped, a running   *)
(* scan is cancelled.                                                      *)
StopScheduler ==
  /\ phase = "up"
  /\ phase' = "stopping"
  /\ slots' = 0
  /\ handoff' = NoJob
  /\ UNCHANGED <<database, clock, rejected, worker, recovery>>

(* What the end of the process does to its memory.  A job that exists is   *)
(* never submitted again.                                                  *)
ForgetProcess ==
  /\ slots' = 0
  /\ handoff' = NoJob
  /\ task' = [k \in Jobs |-> IF job[k] = "none" THEN "none" ELSE "over"]
  /\ run' = [k \in Jobs |-> "idle"]
  /\ results' = [k \in Jobs |-> {}]
  /\ recStep' = "idle"
  /\ recNow' = [jobs |-> {}, opps |-> {}]
  /\ recBatch' = {}
  /\ UNCHANGED <<database, clock, rejected>>

(* The shutdown raises: mark_stopped, its first write, or the close of an  *)
(* HTTP client, its last call.  The database stays open while asyncio.run  *)
(* cancels what is left.                                                   *)
ShutdownFails ==
  /\ Failures
  /\ phase \in {"up", "cancelled"}
  /\ phase' = "abandoned"
  /\ slots' = 0
  /\ handoff' = NoJob
  /\ task' = [k \in Jobs |-> IF k \in Active THEN "over" ELSE task[k]]
  /\ run' = CancelledRuns
  /\ UNCHANGED <<database, clock, rejected, results, recovery>>

(* The database is closed, main returns and asyncio.run cancels the runs   *)
(* that are left: Level2Scanner._run catches the cancellation, but its     *)
(* update of the job fails, because the database is not connected.  After  *)
(* a failed shutdown the cancelled runs come first.                        *)
CloseDatabase ==
  /\ phase = "cancelled" \/ (phase = "abandoned" /\ Running = {})
  /\ phase' = "stopped"
  /\ ForgetProcess

Crash ==
  /\ Crashes
  /\ phase \in {"recovery", "up", "stopping", "cancelled", "abandoned"}
  /\ phase' = "down"
  /\ ForgetProcess

Next ==
  \/ StartRecovery
  \/ RecoveryNext
  \/ BeginHandoffs
  \/ \E k \in Jobs : CreateOpportunity(k)
  \/ Submit
  \/ EndScan
  \/ \E k \in Jobs :
       \/ AcquirePermit(k)
       \/ RunNext(k)
       \/ RunFails(k)
       \/ ReturnPermit(k)
       \/ JobBecomesLate(k)
       \/ OpportunityBecomesLate(k)
  \/ StopScheduler
  \/ CancelAll
  \/ ShutdownFails
  \/ CloseDatabase
  \/ Crash

Spec == Init /\ [][Next]_vars

(***************************************************************************)
(* Fairness.  The event loop runs every ready coroutine; every wait of a   *)
(* run is bounded (the confirmation time limit, the busy time-out of       *)
(* SQLite), and asyncio.Semaphore wakes its waiters in FIFO order, so none *)
(* is passed over for ever.  Of the environment: a process that is not     *)
(* running is started again, and of start-ups that are killed again and    *)
(* again, one gets as far as a step of the recovery, infinitely often.     *)
(* Nothing is assumed of the clock, of the number of crashes, of the       *)
(* operator's shutdown or of the scheduler's scans.                        *)
(***************************************************************************)
Fairness ==
  /\ WF_vars(StartRecovery)
  /\ SF_vars(RecoveryNext)
  /\ WF_vars(Submit)
  /\ \A k \in Jobs :
       /\ SF_vars(AcquirePermit(k))
       /\ WF_vars(RunNext(k))
       /\ WF_vars(ReturnPermit(k))

FairSpec == Spec /\ Fairness
-----------------------------------------------------------------------------
(* A finished job has a stored result and carries exactly the status the   *)
(* result stands for: save_confirmation, then Level2Scanner._finish, and   *)
(* no crash, recovery or failure in between invents a verdict.             *)
VerdictIsSaved ==
  \A k \in Jobs :
    job[k] \in {"confirmed", "rejected", "failed"} =>
      saved[k] # {} /\ job[k] = JobStatusFor(saved[k])

(* An opportunity is shown as confirmed, partial or refuted only when its  *)
(* own job has finished with the same stored result: the two commits of    *)
(* _finish come in the order that makes the job the first to know.  It is  *)
(* cancelled only with its job, which then has no result.                  *)
OpportunityFollowsJob ==
  \A k \in Jobs :
    /\ opp[k] \notin {"none", "created", "verifying", "expired", "cancelled"} =>
         /\ opp[k] = OpportunityStatusFor(saved[k])
         /\ job[k] = JobStatusFor(saved[k])
    /\ opp[k] = "cancelled" => job[k] = "cancelled" /\ saved[k] = {}

(* A notification exists only for an opportunity that is and stays         *)
(* confirmed: publish writes the status and the rows in one transaction.   *)
OnlyConfirmedPublished ==
  \A k \in Jobs : published[k] => opp[k] \in Notifiable /\ job[k] = "confirmed"

(* Never more confirmation runs than permits (worker.py: "never exceeded").*)
ParallelismBounded ==
  Cardinality(Running) <= MaxParallel

(* The capacity is read once per scan and used for the whole loop of       *)
(* handoffs, across commits and while the worker goes on: still no         *)
(* submission is ever refused, so the queue-overflow branch of submit,     *)
(* which would leave a committed job with nobody to run it, is not taken.  *)
SubmissionNeverRefused == ~ rejected

(* A row that says "running" has a run of this process behind it, one that *)
(* is under way or has failed: whatever errors, crashes and recoveries     *)
(* killed half-way lie before, none is left over from an earlier process   *)
(* once the start-up is through (35_STATE_MACHINES.md: RUNNING after a     *)
(* restart proves nothing).                                                *)
RunningIsOwned ==
  Alive => \A k \in Jobs : job[k] = "running" => run[k] \notin {"idle", "done"}

(* No step takes a job out of a terminal status: update_status has no      *)
(* guard in its WHERE clause, so this rests on who calls it and when.      *)
TerminalJobsStay ==
  [][\A k \in Jobs : job[k] \in TerminalJob => job'[k] = job[k]]_vars

(* A confirmed opportunity keeps its verdict: the expiry pass of the       *)
(* recovery and a repeated record_confirmation leave it alone.             *)
VerdictStays ==
  [][\A k \in Jobs :
       opp[k] \in Notifiable \union {"unprofitable", "route_unavailable"} =>
         opp'[k] = opp[k]]_vars

(* While the worker is not shut down, every submitted job gets its permit  *)
(* and gives it back, whatever fails.                                      *)
EverySubmissionEnds ==
  \A k \in Jobs : task[k] = "waiting" ~> task[k] = "over"

(* A job whose run has died with its process is settled, though the        *)
(* recoveries themselves may be killed again and again: each row they      *)
(* write is committed on its own, so the next one starts from less.        *)
InterruptedIsSettled ==
  \A k \in Jobs : job[k] = "running" /\ ~ Alive ~> job[k] # "running"

(* Promises of the documentation that the code does not keep.              *)

(* README.md: a confirmed opportunity is stored and a notification is sent.*)
ConfirmedIsPublished ==
  \A k \in Jobs : opp[k] = "confirmed" ~> published[k]

(* recovery.py: an interrupted job is verified anew by a new attempt.      *)
RequeuedIsRetried ==
  \A k \in Jobs :
    phase = "up" /\ job[k] = "queued" /\ attempts[k] = 1 ~> job[k] # "queued"

(* The pipeline implements the promise of JobLifecycle. *)
Lifecycle == INSTANCE JobLifecycle
  WITH job <- job, opp <- opp, published <- published
ImplementsLifecycle == Lifecycle!Spec

-----------------------------------------------------------------------------
(* The inductive invariant behind the safety properties of the pipeline:   *)
(* what the database holds at every step of a confirmation run, and what a *)
(* process that is not running has left behind.                            *)
Unverified == {"none", "created", "verifying", "expired", "cancelled"}

(* The rows of the job agree: the stored verdicts, the status of the job   *)
(* and the status of the opportunity.                                      *)
RowsAgree(k) ==
  /\ saved[k] = {} => /\ job[k] \in {"none", "queued", "running", "expired", "cancelled"}
                      /\ opp[k] \in Unverified
  /\ job[k] \notin {"none", "queued", "running", "expired", "cancelled"} =>
       job[k] = JobStatusFor(saved[k])
  /\ job[k] = "cancelled" => saved[k] = {}
  /\ opp[k] = "cancelled" => job[k] = "cancelled"
  /\ opp[k] \notin Unverified =>
       /\ opp[k] = OpportunityStatusFor(saved[k])
       /\ job[k] = JobStatusFor(saved[k])
  /\ published[k] => opp[k] \in Notifiable /\ job[k] = "confirmed"
  /\ job[k] = "none" <=> opp[k] = "none"

(* Before the verdict: either the verification has begun on both rows, or  *)
(* the run found the entity late and neither row has moved.                *)
InVerification(k) ==
  \/ job[k] = "running" /\ opp[k] = "verifying"
  \/ job[k] = "queued" /\ opp[k] = "created" /\ results[k] = {"expired"}

Untouched(k) == job[k] = "queued" /\ opp[k] = "created" /\ saved[k] = {}

(* The rows as the step the run is at expects them. *)
StepFindsRows(k) ==
  /\ run[k] \in {"load", "check", "mark_job"} => Untouched(k)
  /\ run[k] = "mark_opp" =>
       job[k] = "running" /\ opp[k] = "created" /\ saved[k] = {}
  /\ run[k] = "verify" =>
       job[k] = "running" /\ opp[k] = "verifying" /\ saved[k] = {}
  /\ run[k] = "save" =>
       InVerification(k) /\ results[k] # {} /\ saved[k] = {}
  /\ run[k] = "finish_job" =>
       InVerification(k) /\ results[k] # {} /\ saved[k] = results[k]
  /\ run[k] = "finish_opp" =>
       /\ results[k] # {} /\ saved[k] = results[k]
       /\ job[k] = JobStatusFor(results[k])
       /\ opp[k] \in {"created", "verifying"}
  /\ run[k] \in {"record", "publish"} =>
       /\ results[k] # {} /\ saved[k] = results[k]
       /\ job[k] = JobStatusFor(results[k])
       /\ opp[k] = OpportunityStatusFor(results[k])
  /\ run[k] = "publish" => opp[k] \in Notifiable /\ ~ published[k]
  /\ run[k] = "cancel_job" =>
       job[k] = "running" /\ opp[k] = "verifying" /\ saved[k] = {}
  /\ run[k] = "cancel_opp" =>
       job[k] = "cancelled" /\ opp[k] = "verifying" /\ saved[k] = {}

(* A job without a task, or whose task waits, has not been run. *)
TaskFindsRows(k) ==
  /\ task[k] = "none" =>
       /\ run[k] = "idle"
       /\ job[k] = "none" \/ Untouched(k)
  /\ task[k] = "waiting" => run[k] = "idle" /\ Untouched(k)
  /\ job[k] = "none" => task[k] = "none" /\ saved[k] = {}
  /\ handoff = k => task[k] = "none" /\ Untouched(k)

Consistent(k) == RowsAgree(k) /\ StepFindsRows(k) /\ TaskFindsRows(k)

(* The dead or starting process has no run, no task and no scan. *)
ProcessIsOver ==
  ~ Alive =>
    /\ \A k \in Jobs :
         /\ run[k] = "idle"
         /\ task[k] \in {"none", "over"}
         /\ task[k] = "none" => job[k] = "none"
    /\ handoff = NoJob
    /\ slots = 0

(* The list the recovery walks: every running row is in it until the first *)
(* loop has written it, and its rows are pending as the loops expect.      *)
RecoveryFindsRows ==
  phase = "recovery" =>
    /\ \A k \in Jobs :
         job[k] = "running" => recStep = "interrupted" /\ k \in recBatch
    /\ \A k \in recBatch :
         /\ recStep = "interrupted" => job[k] = "running"
         /\ recStep = "expired_jobs" => job[k] = "queued"
         /\ recStep = "opportunities" => opp[k] \in {"created", "verifying"}

(* A run holds a permit until cancel_all takes the tasks away, and after   *)
(* that no run begins.                                                     *)
RunsHoldPermits ==
  /\ Cardinality(Holding) <= MaxParallel
  /\ phase \in {"up", "stopping"} =>
       Running \subseteq Holding

(* What a scan may still submit fits into the queue. *)
SlotsAreFree ==
  /\ slots > 0 => slots + Cardinality(Active) <= QueueCapacity
  /\ handoff # NoJob => slots > 0

IInv ==
  /\ TypeOK
  /\ \A k \in Jobs : Consistent(k)
  /\ ProcessIsOver
  /\ RecoveryFindsRows
  /\ RunsHoldPermits
  /\ SlotsAreFree
  /\ ParallelismBounded
  /\ SubmissionNeverRefused
  /\ RunningIsOwned
=============================================================================
