--------------------------- MODULE Level1Handoff ----------------------------
(***************************************************************************)
(* The end of a Level 1 scan: the qualified groups become opportunities,   *)
(* each committed together with its job and then handed to the Level 2     *)
(* worker.  Every job of Jobs that does not exist yet stands for a group   *)
(* that passed the threshold and is no duplicate.                          *)
(***************************************************************************)
EXTENDS Level2State

(* Mutant: the capacity of an idle worker instead of the free one. *)
BeginHandoffsIgnoringTasks ==
  /\ phase = "up"
  /\ slots = 0
  /\ slots' = Min({MaxPerScan, QueueCapacity})
  /\ UNCHANGED <<database, clock, phase, handoff, rejected, worker, recovery>>

(* The scan reaches _create_opportunities and reads the free capacity of   *)
(* the worker once, for the whole loop.                                    *)
BeginHandoffs ==
  /\ phase = "up"
  /\ slots = 0
  /\ slots' = Min({MaxPerScan, AvailableCapacity})
  /\ UNCHANGED <<database, clock, phase, handoff, rejected, worker, recovery>>

(* create_with_job commits the opportunity and its job in one transaction. *)
CreateOpportunity(k) ==
  /\ phase = "up"
  /\ slots > 0
  /\ handoff = NoJob
  /\ job[k] = "none"
  /\ job' = [job EXCEPT ![k] = "queued"]
  /\ opp' = [opp EXCEPT ![k] = "created"]
  /\ handoff' = k
  /\ UNCHANGED <<attempts, saved, published, clock, phase, slots, rejected,
                 worker, recovery>>

(* Level2Worker.submit.  A refused job raises, _create_one swallows the    *)
(* error, and the job stays in the database with no task.                  *)
Submit ==
  /\ phase = "up"
  /\ handoff # NoJob
  /\ handoff' = NoJob
  /\ IF AvailableCapacity > 0
     THEN /\ task' = [task EXCEPT ![handoff] = "waiting"]
          /\ slots' = slots - 1
          /\ UNCHANGED rejected
     ELSE /\ rejected' = TRUE
          /\ UNCHANGED <<task, slots>>
  /\ UNCHANGED <<database, clock, phase, run, results, recovery>>

(* The groups are exhausted, or the scan is cancelled by the time limit    *)
(* the scheduler puts on the task; the cancellation may arrive while       *)
(* create_with_job is committing, after which nothing is submitted.        *)
EndScan ==
  /\ phase = "up"
  /\ slots > 0
  /\ slots' = 0
  /\ handoff' = NoJob
  /\ UNCHANGED <<database, clock, phase, rejected, worker, recovery>>
=============================================================================
