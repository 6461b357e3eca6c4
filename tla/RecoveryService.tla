-------------------------- MODULE RecoveryService ---------------------------
(***************************************************************************)
(* RecoveryService.recover, run by the start-up before any worker exists.  *)
(* `now` is read once, so what counts as late is fixed for the whole pass. *)
(* Every part reads its list of rows once and walks it in a finite loop;   *)
(* every row is written by a commit of its own.                            *)
(***************************************************************************)
EXTENDS Level2State

Recovering(step) == phase = "recovery" /\ recStep = step

(* list_interrupted reads every row that is running, without a limit. *)
Interrupted == {k \in Jobs : job[k] = "running"}

(* The rows of list_expired: late at `now` and in a pending status. *)
LateJobs == {k \in recNow.jobs : job[k] \in {"queued", "running"}}

LateOpportunities == {k \in recNow.opps : opp[k] \in {"created", "verifying"}}

(* A query with ORDER BY expires_at LIMIT BatchLimit returns some of the   *)
(* rows that qualify, all of them when they fit.                           *)
Batches(rows) ==
  {batch \in SUBSET rows : Cardinality(batch) = Min({Cardinality(rows), BatchLimit})}

(* Mutant: list_interrupted has the limit of its neighbour list_expired. *)
StartRecoveryLimited ==
  /\ phase \in {"down", "stopped"}
  /\ phase' = "recovery"
  /\ recStep' = "interrupted"
  /\ recNow' = [jobs |-> lateJobs, opps |-> lateOpps]
  /\ recBatch' \in Batches(Interrupted)
  /\ UNCHANGED <<database, clock, scan, worker>>

(* `now` and the list of the interrupted jobs; nobody else writes rows. *)
StartRecovery ==
  /\ phase \in {"down", "stopped"}
  /\ phase' = "recovery"
  /\ recStep' = "interrupted"
  /\ recNow' = [jobs |-> lateJobs, opps |-> lateOpps]
  /\ recBatch' = Interrupted
  /\ UNCHANGED <<database, clock, scan, worker>>

(* Where _recover_job moves an interrupted job. *)
Recovered(k) == IF k \in recNow.jobs THEN "expired" ELSE "queued"

(* Mutant: one transaction around the loop, its rows are written together. *)
RecoverJobInOneTransaction(k) ==
  /\ Recovering("interrupted")
  /\ k \in recBatch
  /\ recBatch' = recBatch \ {k}
  /\ job' = IF recBatch = {k}
            THEN [j \in Jobs |-> IF job[j] = "running" THEN Recovered(j) ELSE job[j]]
            ELSE job
  /\ UNCHANGED <<opp, attempts, saved, published, clock, phase, scan, worker,
                 recStep, recNow>>

(* _recover_job, once for every job of the list. *)
RecoverJob(k) ==
  /\ Recovering("interrupted")
  /\ k \in recBatch
  /\ recBatch' = recBatch \ {k}
  /\ job' = [job EXCEPT ![k] = Recovered(k)]
  /\ UNCHANGED <<opp, attempts, saved, published, clock, phase, scan, worker,
                 recStep, recNow>>

ListExpiredJobs ==
  /\ Recovering("interrupted")
  /\ recBatch = {}
  /\ recStep' = "expired_jobs"
  /\ recBatch' \in Batches(LateJobs)
  /\ UNCHANGED <<database, clock, phase, scan, worker, recNow>>

ExpireJob(k) ==
  /\ Recovering("expired_jobs")
  /\ k \in recBatch
  /\ recBatch' = recBatch \ {k}
  /\ job' = [job EXCEPT ![k] = "expired"]
  /\ UNCHANGED <<opp, attempts, saved, published, clock, phase, scan, worker,
                 recStep, recNow>>

ListExpiredOpportunities ==
  /\ Recovering("expired_jobs")
  /\ recBatch = {}
  /\ recStep' = "opportunities"
  /\ recBatch' \in Batches(LateOpportunities)
  /\ UNCHANGED <<database, clock, phase, scan, worker, recNow>>

ExpireOpportunity(k) ==
  /\ Recovering("opportunities")
  /\ k \in recBatch
  /\ recBatch' = recBatch \ {k}
  /\ opp' = [opp EXCEPT ![k] = "expired"]
  /\ UNCHANGED <<job, attempts, saved, published, clock, phase, scan, worker,
                 recStep, recNow>>

(* The start-up goes on and the application is up. *)
FinishRecovery ==
  /\ Recovering("opportunities")
  /\ recBatch = {}
  /\ phase' = "up"
  /\ recStep' = "idle"
  /\ UNCHANGED <<database, clock, scan, worker, recNow, recBatch>>

RecoveryNext ==
  \/ \E k \in Jobs : RecoverJob(k) \/ ExpireJob(k) \/ ExpireOpportunity(k)
  \/ ListExpiredJobs
  \/ ListExpiredOpportunities
  \/ FinishRecovery
=============================================================================
