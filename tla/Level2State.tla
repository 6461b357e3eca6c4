---------------------------- MODULE Level2State -----------------------------
(***************************************************************************)
(* The state shared by the parts of the Level 2 pipeline.                  *)
(*                                                                         *)
(* Every job belongs to exactly one opportunity and every opportunity has  *)
(* exactly one job, so both are named by the job.  The first group of      *)
(* variables is the SQLite database and survives a crash; everything else  *)
(* lives in the memory of the process.                                     *)
(***************************************************************************)
EXTENDS Integers, FiniteSetsExt, ConfirmationPolicy

CONSTANTS
  Jobs,            (* the jobs (and opportunities) that may be created           *)
  NoJob,           (* not a job                                                  *)
  MaxParallel,     (* scanner.level2.max_parallel                                *)
  QueueCapacity,   (* scanner.level2.queue_capacity                              *)
  MaxPerScan,      (* scanner.level1.max_opportunities_per_scan                  *)
  BatchLimit,      (* rows one recovery pass reads from list_expired             *)
  Perishable,      (* bound: the jobs whose deadlines may pass during a run      *)
  Verdicts,        (* the sets of amount verdicts a verification may return      *)
  OnConfirmation,  (* is a confirmation handler given to the worker?             *)
  Failures,        (* may a database call or a verification raise an error?      *)
  Crashes          (* may the process be killed?                                 *)

ASSUME Level2Assumption ==
  /\ NoJob \notin Jobs
  /\ IsFiniteSet(Jobs)
  /\ MaxParallel \in Nat \ {0}
  /\ QueueCapacity \in Nat \ {0}
  /\ MaxPerScan \in Nat \ {0}
  /\ BatchLimit \in Nat \ {0}
  /\ Perishable \subseteq Jobs
  /\ Verdicts \subseteq (SUBSET AmountStatus) \ {{}}
  /\ OnConfirmation \in BOOLEAN
  /\ Failures \in BOOLEAN
  /\ Crashes \in BOOLEAN

VARIABLES
  \* the database
  job,         (* level2_jobs.status, "none" before the row exists             *)
  opp,         (* opportunities.status, "none" before the row exists           *)
  attempts,    (* level2_jobs.attempt_count                                    *)
  saved,       (* verdicts stored in level2_attempts revision 1, {} if no row   *)
  published,   (* does the opportunity have its row in notifications?          *)
  \* the wall clock
  lateJobs,    (* jobs whose expires_at has passed                             *)
  lateOpps,    (* opportunities whose expires_at has passed                    *)
  \* the process
  phase,       (* where the application is in its life cycle                   *)
  slots,       (* opportunities the running scan may still create, 0 if none   *)
  handoff,     (* the job committed by the scan and not yet submitted          *)
  rejected,    (* has a submission ever been refused?                          *)
  task,        (* the worker's task for the job                                *)
  run,         (* the step the job's confirmation run is at                    *)
  results,     (* the verdicts held by the confirmation run                    *)
  recStep,     (* the part of the recovery that is under way                   *)
  recNow,      (* the rows that were late at the `now` of the recovery         *)
  recBatch     (* rows of the list that the recovery walks, not yet written    *)

database == <<job, opp, attempts, saved, published>>
clock    == <<lateJobs, lateOpps>>
scan     == <<slots, handoff, rejected>>
worker   == <<task, run, results>>
recovery == <<recStep, recNow, recBatch>>
vars     == <<database, clock, phase, scan, worker, recovery>>

(* The steps of a confirmation run.  "done" and "failed" end it. *)
LiveRun ==
  {"load", "check", "mark_job", "mark_opp", "verify", "save",
   "finish_job", "finish_opp", "record", "publish", "cancel_job", "cancel_opp"}
RunStep == LiveRun \union {"idle", "done", "failed"}

TaskState == {"none", "waiting", "holding", "over"}
Phase     == {"down", "recovery", "up", "stopping", "cancelled", "abandoned", "stopped"}
RecStep   == {"idle", "interrupted", "expired_jobs", "opportunities"}

(* Tasks in Level2Worker._tasks, and those among them that hold a permit. *)
Active  == {k \in Jobs : task[k] \in {"waiting", "holding"}}
Holding == {k \in Jobs : task[k] = "holding"}

(* The jobs with a confirmation run under way. *)
Running == {k \in Jobs : run[k] \in LiveRun}

AvailableCapacity == Max({QueueCapacity - Cardinality(Active), 0})

Existing == {k \in Jobs : job[k] # "none"}

(* Coroutines run and the database is open. *)
Alive == phase \in {"up", "stopping", "cancelled", "abandoned"}

TypeOK ==
  /\ job \in [Jobs -> JobStatus \union {"none"}]
  /\ opp \in [Jobs -> OpportunityStatus \union {"none"}]
  /\ attempts \in [Jobs -> {0, 1}]
  /\ saved \in [Jobs -> SUBSET AmountStatus]
  /\ published \in [Jobs -> BOOLEAN]
  /\ lateJobs \subseteq Jobs
  /\ lateOpps \subseteq Jobs
  /\ phase \in Phase
  /\ slots \in 0 .. MaxPerScan
  /\ handoff \in Jobs \union {NoJob}
  /\ rejected \in BOOLEAN
  /\ task \in [Jobs -> TaskState]
  /\ run \in [Jobs -> RunStep]
  /\ results \in [Jobs -> SUBSET AmountStatus]
  /\ recStep \in RecStep
  /\ recNow \in [jobs : SUBSET Jobs, opps : SUBSET Jobs]
  /\ recBatch \subseteq Jobs

Init ==
  /\ job = [k \in Jobs |-> "none"]
  /\ opp = [k \in Jobs |-> "none"]
  /\ attempts = [k \in Jobs |-> 0]
  /\ saved = [k \in Jobs |-> {}]
  /\ published = [k \in Jobs |-> FALSE]
  /\ lateJobs = {}
  /\ lateOpps = {}
  /\ phase = "down"
  /\ slots = 0
  /\ handoff = NoJob
  /\ rejected = FALSE
  /\ task = [k \in Jobs |-> "none"]
  /\ run = [k \in Jobs |-> "idle"]
  /\ results = [k \in Jobs |-> {}]
  /\ recStep = "idle"
  /\ recNow = [jobs |-> {}, opps |-> {}]
  /\ recBatch = {}
=============================================================================
