--------------------------- MODULE Level2Scanner ----------------------------
(***************************************************************************)
(* One confirmation run: Level2Worker._confirm around                      *)
(* Level2Scanner.confirm.  Every step ends at an await, so steps of other  *)
(* runs, a crash or the end of the process may come between any two.  The  *)
(* three writes of _finish are three separate commits.                     *)
(*                                                                         *)
(* A run is started with the job object built by the handoff, whose        *)
(* attempt_count is 0: its revision is always 1.                           *)
(***************************************************************************)
EXTENDS Level2State

At(k, step) == Alive /\ run[k] = step

Goto(k, step) == run' = [run EXCEPT ![k] = step]

SetJob(k, status) == job' = [job EXCEPT ![k] = status]

SetOpportunity(k, status) == opp' = [opp EXCEPT ![k] = status]

rest == <<clock, phase, scan, task, recovery>>

(* confirm: a stored result of this revision is returned as it is. *)
LoadConfirmation(k) ==
  /\ At(k, "load")
  /\ IF saved[k] # {}
     THEN results' = [results EXCEPT ![k] = saved[k]] /\ Goto(k, "record")
     ELSE UNCHANGED results /\ Goto(k, "check")
  /\ UNCHANGED <<database, rest>>

(* Mutant: the opportunity is marked before the job. *)
CheckExpiryOpportunityFirst(k) ==
  /\ At(k, "check")
  /\ IF k \in lateJobs \union lateOpps
     THEN results' = [results EXCEPT ![k] = {"expired"}] /\ Goto(k, "save")
     ELSE UNCHANGED results /\ Goto(k, "mark_opp")
  /\ UNCHANGED <<database, rest>>

(* _run: a late job or opportunity is not verified.  The opportunity row   *)
(* exists, because it is committed in the transaction that creates the job.*)
CheckExpiry(k) ==
  /\ At(k, "check")
  /\ IF k \in lateJobs \union lateOpps
     THEN results' = [results EXCEPT ![k] = {"expired"}] /\ Goto(k, "save")
     ELSE UNCHANGED results /\ Goto(k, "mark_job")
  /\ UNCHANGED <<database, rest>>

MarkJobRunning(k) ==
  /\ At(k, "mark_job")
  /\ SetJob(k, "running")
  /\ attempts' = [attempts EXCEPT ![k] = 1]
  /\ Goto(k, "mark_opp")
  /\ UNCHANGED <<opp, saved, published, results, rest>>

MarkOpportunityVerifying(k) ==
  /\ At(k, "mark_opp")
  /\ SetOpportunity(k, "verifying")
  /\ Goto(k, "verify")
  /\ UNCHANGED <<job, attempts, saved, published, results, rest>>

(* Mutant: the result is stored last, after the statuses. *)
VerifyAmountsUnsaved(k) ==
  /\ At(k, "verify")
  /\ \E verdicts \in Verdicts \union {{"failed"}} :
       results' = [results EXCEPT ![k] = verdicts]
  /\ Goto(k, "finish_job")
  /\ UNCHANGED <<database, rest>>

(* _verify_amounts returns some set of verdicts, or the time limit of the  *)
(* confirmation gives every amount the verdict "failed".                   *)
VerifyAmounts(k) ==
  /\ At(k, "verify")
  /\ \E verdicts \in Verdicts \union {{"failed"}} :
       results' = [results EXCEPT ![k] = verdicts]
  /\ Goto(k, "save")
  /\ UNCHANGED <<database, rest>>

(* Mutant: the opportunity gets its verdict before the job. *)
SaveConfirmationThenOpportunity(k) ==
  /\ At(k, "save")
  /\ IF saved[k] = {}
     THEN saved' = [saved EXCEPT ![k] = results[k]] /\ Goto(k, "finish_opp")
     ELSE UNCHANGED saved /\ Goto(k, "failed")
  /\ UNCHANGED <<job, opp, attempts, published, results, rest>>

(* save_confirmation: UNIQUE (k_id, revision) refuses a second row. *)
SaveConfirmation(k) ==
  /\ At(k, "save")
  /\ IF saved[k] = {}
     THEN saved' = [saved EXCEPT ![k] = results[k]] /\ Goto(k, "finish_job")
     ELSE UNCHANGED saved /\ Goto(k, "failed")
  /\ UNCHANGED <<job, opp, attempts, published, results, rest>>

FinishJob(k) ==
  /\ At(k, "finish_job")
  /\ SetJob(k, JobStatusFor(results[k]))
  /\ attempts' = [attempts EXCEPT ![k] = 1]
  /\ Goto(k, "finish_opp")
  /\ UNCHANGED <<opp, saved, published, results, rest>>

FinishOpportunity(k) ==
  /\ At(k, "finish_opp")
  /\ SetOpportunity(k, OpportunityStatusFor(results[k]))
  /\ Goto(k, "record")
  /\ UNCHANGED <<job, attempts, saved, published, results, rest>>

(* OpportunityService.record_confirmation, when the worker was given a     *)
(* handler: an outcome that is not delivered only rewrites the status, and *)
(* existing notifications end the call.                                    *)
RecordConfirmation(k) ==
  /\ At(k, "record")
  /\ LET status == OpportunityStatusFor(results[k]) IN
       \/ /\ ~ OnConfirmation
          /\ Goto(k, "done")
          /\ UNCHANGED opp
       \/ /\ OnConfirmation
          /\ status \notin Notifiable
          /\ SetOpportunity(k, status)
          /\ Goto(k, "done")
       \/ /\ OnConfirmation
          /\ status \in Notifiable
          /\ Goto(k, IF published[k] THEN "done" ELSE "publish")
          /\ UNCHANGED opp
  /\ UNCHANGED <<job, attempts, saved, published, results, rest>>

(* ConfirmationPublisher.publish: the status and the notification rows in  *)
(* one transaction; UNIQUE (opportunity_id, destination_id) refuses a      *)
(* second set.                                                             *)
Publish(k) ==
  /\ At(k, "publish")
  /\ IF published[k]
     THEN UNCHANGED <<opp, published>> /\ Goto(k, "failed")
     ELSE /\ SetOpportunity(k, OpportunityStatusFor(results[k]))
          /\ published' = [published EXCEPT ![k] = TRUE]
          /\ Goto(k, "done")
  /\ UNCHANGED <<job, attempts, saved, results, rest>>

(* The except of _run: a run that is cancelled while it verifies marks the *)
(* job and then the opportunity.                                           *)
MarkJobCancelled(k) ==
  /\ At(k, "cancel_job")
  /\ SetJob(k, "cancelled")
  /\ Goto(k, "cancel_opp")
  /\ UNCHANGED <<opp, attempts, saved, published, results, rest>>

MarkOpportunityCancelled(k) ==
  /\ At(k, "cancel_opp")
  /\ SetOpportunity(k, "cancelled")
  /\ Goto(k, "failed")
  /\ UNCHANGED <<job, attempts, saved, published, results, rest>>

(* A database call or a verification raises: the error leaves confirm with *)
(* whatever the run has written so far.                                    *)
RunFails(k) ==
  /\ Failures
  /\ Alive
  /\ run[k] \in LiveRun
  /\ Goto(k, "failed")
  /\ UNCHANGED <<database, results, rest>>

RunNext(k) ==
  \/ LoadConfirmation(k)
  \/ CheckExpiry(k)
  \/ MarkJobRunning(k)
  \/ MarkOpportunityVerifying(k)
  \/ VerifyAmounts(k)
  \/ SaveConfirmation(k)
  \/ FinishJob(k)
  \/ FinishOpportunity(k)
  \/ RecordConfirmation(k)
  \/ Publish(k)
  \/ MarkJobCancelled(k)
  \/ MarkOpportunityCancelled(k)
=============================================================================
