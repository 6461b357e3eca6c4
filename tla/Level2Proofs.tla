---------------------------- MODULE Level2Proofs ----------------------------
(***************************************************************************)
(* Proofs about the Level 2 pipeline, for any number of jobs, any limits   *)
(* and any set of verdicts, with failures and crashes.                     *)
(***************************************************************************)
EXTENDS Level2Pipeline, FiniteSetTheorems, TLAPS

(* The statuses a non-empty set of verdicts is folded into: the job ends,  *)
(* the opportunity gets a verdict, and only a confirmed job goes with an   *)
(* opportunity that is delivered.                                          *)
LEMMA PolicyStatuses ==
  ASSUME NEW verdicts \in SUBSET AmountStatus, verdicts # {}
  PROVE  /\ JobStatusFor(verdicts) \in {"confirmed", "rejected", "failed", "expired"}
         /\ OpportunityStatusFor(verdicts) \in
              {"confirmed", "partial", "unprofitable", "route_unavailable",
               "expired", "failed"}
         /\ OpportunityStatusFor(verdicts) \in Notifiable
              <=> JobStatusFor(verdicts) = "confirmed"
  BY DEF JobStatusFor, OpportunityStatusFor, Notifiable

(* The abstract edges of the opportunity: its verdict is one that matches  *)
(* the status of its job.                                                  *)
LEMMA PolicyMatches ==
  ASSUME NEW verdicts \in SUBSET AmountStatus, verdicts # {}
  PROVE  OpportunityStatusFor(verdicts) \in
           Lifecycle!MatchingVerdict(JobStatusFor(verdicts))
  <1>1. CASE "verified_profitable" \in verdicts
    BY <1>1 DEF JobStatusFor, OpportunityStatusFor, Lifecycle!MatchingVerdict
  <1>2. CASE verdicts = {"expired"}
    BY <1>2 DEF JobStatusFor, OpportunityStatusFor, Lifecycle!MatchingVerdict
  <1>3. CASE /\ "verified_profitable" \notin verdicts
             /\ verdicts # {"expired"}
             /\ verdicts \subseteq DefinitiveNegative
    <2>1. JobStatusFor(verdicts) = "rejected"
      BY <1>3 DEF JobStatusFor
    <2>2. OpportunityStatusFor(verdicts) \in {"unprofitable", "route_unavailable"}
      BY <1>3 DEF OpportunityStatusFor, DefinitiveNegative
    <2> QED  BY <2>1, <2>2 DEF Lifecycle!MatchingVerdict
  <1>4. CASE /\ "verified_profitable" \notin verdicts
             /\ verdicts # {"expired"}
             /\ ~ (verdicts \subseteq DefinitiveNegative)
    <2>1. JobStatusFor(verdicts) = "failed"
      BY <1>4 DEF JobStatusFor
    <2>2. OpportunityStatusFor(verdicts) = "failed"
      BY <1>4 DEF OpportunityStatusFor, DefinitiveNegative
    <2> QED  BY <2>1, <2>2 DEF Lifecycle!MatchingVerdict
  <1> QED  BY <1>1, <1>2, <1>3, <1>4

LEMMA MinOfTwo ==
  ASSUME NEW a \in Int, NEW b \in Int
  PROVE  Min({a, b}) = IF a <= b THEN a ELSE b
  <1> DEFINE m == IF a <= b THEN a ELSE b
  <1>1. m \in {a, b} /\ \A y \in {a, b} : m <= y
    OBVIOUS
  <1>2. \A x \in {a, b} : (\A y \in {a, b} : x <= y) => x = m
    OBVIOUS
  <1> QED  BY <1>1, <1>2 DEF Min

LEMMA MaxOfTwo ==
  ASSUME NEW a \in Int, NEW b \in Int
  PROVE  Max({a, b}) = IF a >= b THEN a ELSE b
  <1> DEFINE m == IF a >= b THEN a ELSE b
  <1>1. m \in {a, b} /\ \A y \in {a, b} : m >= y
    OBVIOUS
  <1>2. \A x \in {a, b} : (\A y \in {a, b} : x >= y) => x = m
    OBVIOUS
  <1> QED  BY <1>1, <1>2 DEF Max

(* The tasks and the permits are finite in number, and the free capacity   *)
(* is what it is called.                                                   *)
LEMMA TasksAreFinite ==
  /\ IsFiniteSet(Active) /\ Cardinality(Active) \in Nat
  /\ IsFiniteSet(Holding) /\ Cardinality(Holding) \in Nat
  <1>1. IsFiniteSet(Jobs)  BY Level2Assumption
  <1>2. Active \in SUBSET Jobs /\ Holding \in SUBSET Jobs  BY DEF Active, Holding
  <1> QED  BY <1>1, <1>2, FS_Subset, FS_CardinalityType

LEMMA Capacity ==
  /\ AvailableCapacity \in Nat
  /\ AvailableCapacity > 0 => AvailableCapacity = QueueCapacity - Cardinality(Active)
  BY TasksAreFinite, Level2Assumption, MaxOfTwo DEF AvailableCapacity
-----------------------------------------------------------------------------
THEOREM InitIInv == Init => IInv
  <1> SUFFICES ASSUME Init PROVE IInv
    OBVIOUS
  <1>1. Active = {} /\ Holding = {} /\ Running = {}
    BY DEF Init, Active, Holding, Running, LiveRun
  <1>2. TypeOK
    <2>1. /\ job \in [Jobs -> JobStatus \union {"none"}]
          /\ opp \in [Jobs -> OpportunityStatus \union {"none"}]
          /\ attempts \in [Jobs -> {0, 1}]
          /\ saved \in [Jobs -> SUBSET AmountStatus]
          /\ published \in [Jobs -> BOOLEAN]
      BY DEF Init
    <2>2. /\ lateJobs \subseteq Jobs
          /\ lateOpps \subseteq Jobs
          /\ phase \in Phase
          /\ handoff \in Jobs \union {NoJob}
          /\ rejected \in BOOLEAN
      BY DEF Init, Phase
    <2>5. slots \in 0 .. MaxPerScan
      <3>1. slots = 0  BY DEF Init
      <3> QED  BY <3>1, Level2Assumption
    <2>3. /\ task \in [Jobs -> TaskState]
          /\ run \in [Jobs -> RunStep]
          /\ results \in [Jobs -> SUBSET AmountStatus]
      BY DEF Init, TaskState, RunStep
    <2>4. /\ recStep \in RecStep
          /\ recNow \in [jobs : SUBSET Jobs, opps : SUBSET Jobs]
          /\ recBatch \subseteq Jobs
      BY DEF Init, RecStep
    <2> QED  BY <2>1, <2>2, <2>3, <2>4, <2>5 DEF TypeOK
  <1>3. \A k \in Jobs : Consistent(k)
    BY Level2Assumption DEF Init, Consistent, RowsAgree, StepFindsRows, TaskFindsRows, Unverified
  <1>4. ProcessIsOver /\ RecoveryFindsRows /\ SlotsAreFree
    BY DEF Init, ProcessIsOver, RecoveryFindsRows, SlotsAreFree
  <1>5. RunsHoldPermits
    BY <1>1, FS_EmptySet, Level2Assumption DEF Init, RunsHoldPermits, Phase
  <1>6. ParallelismBounded
    BY <1>1, FS_EmptySet, Level2Assumption DEF ParallelismBounded
  <1>7. SubmissionNeverRefused /\ RunningIsOwned
    BY DEF Init, SubmissionNeverRefused, RunningIsOwned, Alive
  <1> QED  BY <1>2, <1>3, <1>4, <1>5, <1>6, <1>7 DEF IInv
-----------------------------------------------------------------------------
(* The steps of a confirmation run and of the worker keep the types. *)
LEMMA RunTypes ==
  ASSUME IInv, NEW k \in Jobs,
         RunNext(k) \/ RunFails(k) \/ AcquirePermit(k) \/ ReturnPermit(k)
  PROVE  TypeOK'
  <1> USE DEF TypeOK, database, clock, scan, worker, recovery, rest, Goto,
              SetJob, SetOpportunity
  <1> TypeOK  BY DEF IInv
  <1> Consistent(k)  BY DEF IInv
  <1> {"expired"} \in SUBSET AmountStatus /\ {"failed"} \in SUBSET AmountStatus
    BY DEF AmountStatus
  <1>1. CASE LoadConfirmation(k)  BY <1>1 DEF LoadConfirmation, RunStep, LiveRun
  <1>2. CASE CheckExpiry(k)  BY <1>2 DEF CheckExpiry, RunStep, LiveRun
  <1>3. CASE MarkJobRunning(k)
    BY <1>3 DEF MarkJobRunning, RunStep, LiveRun, JobStatus
  <1>4. CASE MarkOpportunityVerifying(k)
    BY <1>4 DEF MarkOpportunityVerifying, RunStep, LiveRun, OpportunityStatus
  <1>5. CASE VerifyAmounts(k)
    BY <1>5, Level2Assumption DEF VerifyAmounts, RunStep, LiveRun
  <1>6. CASE SaveConfirmation(k)  BY <1>6 DEF SaveConfirmation, RunStep, LiveRun
  <1>7. CASE FinishJob(k)
    <2>1. JobStatusFor(results[k]) \in JobStatus
      BY DEF JobStatusFor, JobStatus
    <2> QED  BY <1>7, <2>1 DEF FinishJob, RunStep, LiveRun
  <1> DEFINE status == OpportunityStatusFor(results[k])
  <1>s. status \in OpportunityStatus
    BY DEF OpportunityStatusFor, OpportunityStatus
  <1> HIDE DEF status
  <1>8. CASE FinishOpportunity(k)
    BY <1>8, <1>s DEF FinishOpportunity, RunStep, LiveRun, status
  <1>9. CASE RecordConfirmation(k)
    BY <1>9, <1>s DEF RecordConfirmation, RunStep, LiveRun, status
  <1>10. CASE Publish(k)
    <2>1. CASE published[k]
      BY <1>10, <2>1 DEF Publish, RunStep
    <2>2. CASE ~ published[k]
      <3>1. opp' = [opp EXCEPT ![k] = status]
        BY <1>10, <2>2 DEF Publish, status
      <3> QED  BY <1>10, <1>s, <2>2, <3>1 DEF Publish, RunStep
    <2> QED  BY <2>1, <2>2
  <1>11. CASE RunFails(k)  BY <1>11 DEF RunFails, RunStep
  <1>12. CASE AcquirePermit(k)
    BY <1>12 DEF AcquirePermit, RunStep, LiveRun, TaskState
  <1>13. CASE ReturnPermit(k)  BY <1>13 DEF ReturnPermit, TaskState
  <1>14. CASE MarkJobCancelled(k)
    BY <1>14 DEF MarkJobCancelled, RunStep, LiveRun, JobStatus
  <1>15. CASE MarkOpportunityCancelled(k)
    BY <1>15 DEF MarkOpportunityCancelled, RunStep, OpportunityStatus
  <1> QED
    BY <1>1, <1>2, <1>3, <1>4, <1>5, <1>6, <1>7, <1>8, <1>9, <1>10, <1>11,
       <1>12, <1>13, <1>14, <1>15 DEF RunNext

(* The other steps keep the types. *)
LEMMA OtherTypes ==
  ASSUME IInv, Next,
         ~ \E k \in Jobs : RunNext(k) \/ RunFails(k) \/ AcquirePermit(k) \/ ReturnPermit(k)
  PROVE  TypeOK'
  <1> USE DEF TypeOK, database, clock, scan, worker, recovery
  <1> TypeOK  BY DEF IInv
  <1>1. CASE StartRecovery  BY <1>1 DEF StartRecovery, Interrupted, Phase, RecStep
  <1>2. CASE RecoveryNext
    <2>1. ASSUME NEW k \in Jobs, RecoverJob(k) PROVE TypeOK'
      BY <2>1 DEF RecoverJob, Recovered, JobStatus
    <2>2. ASSUME NEW k \in Jobs, ExpireJob(k) PROVE TypeOK'
      BY <2>2 DEF ExpireJob, JobStatus
    <2>3. ASSUME NEW k \in Jobs, ExpireOpportunity(k) PROVE TypeOK'
      BY <2>3 DEF ExpireOpportunity, OpportunityStatus
    <2>4. CASE ListExpiredJobs
      BY <2>4 DEF ListExpiredJobs, Batches, LateJobs, RecStep
    <2>5. CASE ListExpiredOpportunities
      BY <2>5 DEF ListExpiredOpportunities, Batches, LateOpportunities, RecStep
    <2>6. CASE FinishRecovery  BY <2>6 DEF FinishRecovery, Phase, RecStep
    <2> QED  BY <1>2, <2>1, <2>2, <2>3, <2>4, <2>5, <2>6 DEF RecoveryNext
  <1>3. CASE BeginHandoffs
    <2>1. Min({MaxPerScan, AvailableCapacity}) \in 0 .. MaxPerScan
      BY Capacity, MinOfTwo, Level2Assumption
    <2> QED  BY <1>3, <2>1 DEF BeginHandoffs
  <1>4. ASSUME NEW k \in Jobs, CreateOpportunity(k) PROVE TypeOK'
    BY <1>4 DEF CreateOpportunity, JobStatus, OpportunityStatus
  <1>5. CASE Submit
    <2>1. handoff \in Jobs /\ slots - 1 \in 0 .. MaxPerScan
      BY <1>5, Level2Assumption DEF Submit, IInv, SlotsAreFree
    <2> QED  BY <1>5, <2>1 DEF Submit, TaskState
  <1>6. CASE EndScan  BY <1>6, Level2Assumption DEF EndScan
  <1>7. ASSUME NEW k \in Jobs, JobBecomesLate(k) \/ OpportunityBecomesLate(k)
        PROVE  TypeOK'
    BY <1>7 DEF JobBecomesLate, OpportunityBecomesLate
  <1>8. CASE StopScheduler  BY <1>8, Level2Assumption DEF StopScheduler, Phase
  <1>9. CASE CancelAll  BY <1>9 DEF CancelAll, Phase, TaskState
  <1>10. CASE CloseDatabase \/ Crash
    <2>1. ForgetProcess /\ phase' \in {"down", "stopped"}
      BY <1>10 DEF CloseDatabase, Crash
    <2> QED  BY <2>1, Level2Assumption DEF ForgetProcess, Phase, TaskState, RunStep, RecStep
  <1>11. CASE ShutdownFails
    <2>1. CancelledRuns \in [Jobs -> RunStep]
      BY DEF CancelledRuns, RunStep, LiveRun
    <2> QED  BY <1>11, <2>1, Level2Assumption DEF ShutdownFails, Phase, TaskState
  <1> QED
    BY <1>1, <1>2, <1>3, <1>4, <1>5, <1>6, <1>7, <1>8, <1>9, <1>10, <1>11 DEF Next
-----------------------------------------------------------------------------
(* A job none of whose state changes stays consistent. *)
LEMMA ConsistentLocal ==
  ASSUME NEW j \in Jobs, Consistent(j),
         job'[j] = job[j], opp'[j] = opp[j], saved'[j] = saved[j],
         published'[j] = published[j], task'[j] = task[j], run'[j] = run[j],
         results'[j] = results[j], handoff' = j => handoff = j
  PROVE  Consistent(j)'
  BY DEF Consistent, RowsAgree, StepFindsRows, TaskFindsRows, InVerification,
         Untouched

(* The steps of a confirmation run keep every job consistent. *)
LEMMA RunConsistent ==
  ASSUME IInv, NEW k \in Jobs, RunNext(k) \/ RunFails(k)
  PROVE  \A j \in Jobs : Consistent(j)'
  <1> USE DEF database, clock, scan, worker, recovery, rest, Goto, SetJob,
              SetOpportunity, At
  <1>t. TypeOK /\ Consistent(k)  BY DEF IInv
  <1>1. ASSUME NEW j \in Jobs, j # k PROVE Consistent(j)'
    <2>1. Consistent(j)  BY DEF IInv
    <2>2. /\ job'[j] = job[j] /\ opp'[j] = opp[j] /\ saved'[j] = saved[j]
          /\ published'[j] = published[j] /\ task'[j] = task[j]
          /\ run'[j] = run[j] /\ results'[j] = results[j] /\ handoff' = handoff
      BY <1>t, <1>1 DEF TypeOK, RunNext, RunFails, LoadConfirmation, CheckExpiry,
         MarkJobRunning, MarkOpportunityVerifying, VerifyAmounts,
         SaveConfirmation, FinishJob, FinishOpportunity, RecordConfirmation,
         Publish, MarkJobCancelled, MarkOpportunityCancelled
    <2> QED  BY <2>1, <2>2, ConsistentLocal
  <1> SUFFICES Consistent(k)'
    BY <1>1
  <1>u. /\ run[k] \in LiveRun /\ task[k] \notin {"none", "waiting"}
        /\ handoff # k /\ job[k] # "none"
    BY <1>t DEF RunNext, RunFails, LoadConfirmation, CheckExpiry,
         MarkJobRunning, MarkOpportunityVerifying, VerifyAmounts,
         SaveConfirmation, FinishJob, FinishOpportunity, RecordConfirmation,
         Publish, MarkJobCancelled, MarkOpportunityCancelled, LiveRun, Consistent, TaskFindsRows
  <1>w. /\ task' = task /\ handoff' = handoff
        /\ run' \in [Jobs -> RunStep]
    BY <1>t, RunTypes DEF TypeOK, RunNext, RunFails, LoadConfirmation,
         CheckExpiry, MarkJobRunning, MarkOpportunityVerifying, VerifyAmounts,
         SaveConfirmation, FinishJob, FinishOpportunity, RecordConfirmation,
         Publish, MarkJobCancelled, MarkOpportunityCancelled
  <1>v. job'[k] # "none" => TaskFindsRows(k)'
    BY <1>u, <1>w DEF TaskFindsRows
  <1> USE <1>v DEF Consistent, StepFindsRows, RowsAgree, Unverified, TypeOK
  <1>2. CASE LoadConfirmation(k)
    BY <1>t, <1>u, <1>2 DEF LoadConfirmation, Untouched, InVerification
  <1>3. CASE CheckExpiry(k)
    <2>1. Untouched(k) /\ ~ published[k]
      BY <1>t, <1>3 DEF CheckExpiry, Untouched, Notifiable
    <2>2. Untouched(k)' /\ RowsAgree(k)' /\ TaskFindsRows(k)'
      BY <1>t, <1>u, <1>3, <2>1 DEF CheckExpiry, Untouched
    <2>3. CASE k \in lateJobs \union lateOpps
      <3>1. run'[k] = "save" /\ results'[k] = {"expired"}
        BY <1>t, <1>3, <2>3 DEF CheckExpiry
      <3> QED  BY <2>2, <3>1 DEF Untouched, InVerification
    <2>4. CASE k \notin lateJobs \union lateOpps
      <3>1. run'[k] = "mark_job"
        BY <1>t, <1>3, <2>4 DEF CheckExpiry
      <3> QED  BY <2>2, <3>1
    <2> QED  BY <2>3, <2>4
  <1>4. CASE MarkJobRunning(k)
    BY <1>t, <1>u, <1>4 DEF MarkJobRunning, Untouched, InVerification, Notifiable
  <1>5. CASE MarkOpportunityVerifying(k)
    BY <1>t, <1>u, <1>5 DEF MarkOpportunityVerifying, Untouched, InVerification, Notifiable
  <1>6. CASE VerifyAmounts(k)
    <2>v. PICK verdicts \in Verdicts \union {{"failed"}} :
            results' = [results EXCEPT ![k] = verdicts]
      BY <1>6 DEF VerifyAmounts
    <2>1. /\ run'[k] = "save" /\ results'[k] # {}
          /\ UNCHANGED <<job, opp, saved, published>>
      <3>1. verdicts # {}  BY Level2Assumption
      <3>2. results'[k] = verdicts  BY <1>t, <2>v
      <3> QED  BY <1>t, <1>6, <3>1, <3>2 DEF VerifyAmounts
    <2>2. job[k] = "running" /\ opp[k] = "verifying" /\ saved[k] = {}
      BY <1>t, <1>6 DEF VerifyAmounts
    <2> QED  BY <1>t, <1>u, <2>1, <2>2 DEF InVerification
  <1>7. CASE SaveConfirmation(k)
    BY <1>t, <1>u, <1>7 DEF SaveConfirmation, Untouched, InVerification
  <1>8. CASE FinishJob(k)
    BY <1>t, <1>u, <1>8, PolicyStatuses DEF FinishJob, Untouched, InVerification
  <1>9. CASE FinishOpportunity(k)
    BY <1>t, <1>u, <1>9, PolicyStatuses DEF FinishOpportunity, Untouched, InVerification
  <1>10. CASE RecordConfirmation(k)
    BY <1>t, <1>u, <1>10, PolicyStatuses DEF RecordConfirmation, Untouched, InVerification
  <1>11. CASE Publish(k)
    BY <1>t, <1>u, <1>11, PolicyStatuses DEF Publish, Untouched, InVerification
  <1>12. CASE RunFails(k)
    BY <1>t, <1>u, <1>12 DEF RunFails, Untouched, InVerification
  <1>13. CASE MarkJobCancelled(k)
    BY <1>t, <1>u, <1>13 DEF MarkJobCancelled, Untouched, InVerification, Notifiable
  <1>14. CASE MarkOpportunityCancelled(k)
    BY <1>t, <1>u, <1>14 DEF MarkOpportunityCancelled, Untouched, InVerification, Notifiable
  <1> QED
    BY <1>2, <1>3, <1>4, <1>5, <1>6, <1>7, <1>8, <1>9, <1>10, <1>11, <1>12,
       <1>13, <1>14 DEF RunNext

(* The steps of the scan, the worker, the clock, the shutdown and the      *)
(* recovery keep every job consistent.                                     *)
LEMMA OtherConsistent ==
  ASSUME IInv, Next, ~ \E k \in Jobs : RunNext(k) \/ RunFails(k)
  PROVE  \A j \in Jobs : Consistent(j)'
  <1> USE DEF database, clock, scan, worker, recovery
  <1> SUFFICES ASSUME NEW j \in Jobs PROVE Consistent(j)'
    OBVIOUS
  <1>t. TypeOK /\ Consistent(j) /\ NoJob \notin Jobs
    BY Level2Assumption DEF IInv
  <1> DEFINE Same ==
        /\ job'[j] = job[j] /\ opp'[j] = opp[j] /\ saved'[j] = saved[j]
        /\ published'[j] = published[j] /\ task'[j] = task[j]
        /\ run'[j] = run[j] /\ results'[j] = results[j]
        /\ handoff' = j => handoff = j
  <1>s. Same => Consistent(j)'  BY <1>t, ConsistentLocal
  <1>1. CASE StartRecovery  BY <1>1, <1>s DEF StartRecovery
  <1>2. CASE RecoveryNext
    (* The process runs nothing; the recovery moves pending rows. *)
    <2>1. phase = "recovery" /\ run[j] = "idle" /\ handoff = NoJob
      BY <1>2 DEF RecoveryNext, RecoverJob, ExpireJob, ExpireOpportunity,
         ListExpiredJobs, ListExpiredOpportunities, FinishRecovery, Recovering,
         IInv, ProcessIsOver, Alive
    <2>2. job[j] # "none" => task[j] = "over"
      BY <2>1, <1>t DEF IInv, ProcessIsOver, Alive, Consistent, TaskFindsRows, Untouched
    <2>3. ASSUME NEW k \in Jobs, RecoverJob(k) PROVE Consistent(j)'
      <3>1. k # j => Same  BY <2>3, <1>t DEF RecoverJob, TypeOK
      <3>2. job[k] = "running"
        BY <2>3, <2>1 DEF RecoverJob, IInv, RecoveryFindsRows, Recovering
      <3>3. CASE k = j
        BY <3>3, <3>2, <2>1, <2>2, <2>3, <1>t, PolicyStatuses
        DEF RecoverJob, Recovered, TypeOK, Consistent, RowsAgree, StepFindsRows,
            TaskFindsRows, Unverified, Notifiable
      <3> QED  BY <3>1, <3>3, <1>s
    <2>4. ASSUME NEW k \in Jobs, ExpireJob(k) PROVE Consistent(j)'
      <3>1. k # j => Same  BY <2>4, <1>t DEF ExpireJob, TypeOK
      <3>2. job[k] = "queued"
        BY <2>4, <2>1 DEF ExpireJob, IInv, RecoveryFindsRows, Recovering
      <3>3. CASE k = j
        BY <3>3, <3>2, <2>1, <2>2, <2>4, <1>t, PolicyStatuses
        DEF ExpireJob, TypeOK, Consistent, RowsAgree, StepFindsRows,
            TaskFindsRows, Unverified, Notifiable
      <3> QED  BY <3>1, <3>3, <1>s
    <2>5. ASSUME NEW k \in Jobs, ExpireOpportunity(k) PROVE Consistent(j)'
      <3>1. k # j => Same  BY <2>5, <1>t DEF ExpireOpportunity, TypeOK
      <3>2. opp[k] \in {"created", "verifying"}
        BY <2>5, <2>1 DEF ExpireOpportunity, IInv, RecoveryFindsRows, Recovering
      <3>3. CASE k = j
        BY <3>3, <3>2, <2>1, <2>2, <2>5, <1>t
        DEF ExpireOpportunity, TypeOK, Consistent, RowsAgree, StepFindsRows,
            TaskFindsRows, Unverified, Notifiable
      <3> QED  BY <3>1, <3>3, <1>s
    <2>6. CASE ListExpiredJobs  BY <2>6, <1>s DEF ListExpiredJobs
    <2>7. CASE ListExpiredOpportunities
      BY <2>7, <1>s DEF ListExpiredOpportunities
    <2>8. CASE FinishRecovery  BY <2>8, <1>s DEF FinishRecovery
    <2> QED  BY <1>2, <2>3, <2>4, <2>5, <2>6, <2>7, <2>8 DEF RecoveryNext
  <1>3. CASE BeginHandoffs  BY <1>3, <1>s DEF BeginHandoffs
  <1>4. ASSUME NEW k \in Jobs, CreateOpportunity(k) PROVE Consistent(j)'
    <2>1. k # j => Same  BY <1>4, <1>t DEF CreateOpportunity, TypeOK
    <2>2. CASE k = j
      BY <2>2, <1>4, <1>t
      DEF CreateOpportunity, TypeOK, Consistent, RowsAgree, StepFindsRows,
          TaskFindsRows, Untouched, Unverified, Notifiable
    <2> QED  BY <2>1, <2>2, <1>s
  <1>5. CASE Submit
    <2>1. handoff # j => Same  BY <1>5, <1>t DEF Submit, TypeOK
    <2>2. CASE handoff = j
      BY <2>2, <1>5, <1>t
      DEF Submit, TypeOK, Consistent, RowsAgree, StepFindsRows, TaskFindsRows,
          Untouched, Unverified
    <2> QED  BY <2>1, <2>2, <1>s
  <1>6. CASE EndScan  BY <1>6, <1>s, <1>t DEF EndScan
  <1>7. ASSUME NEW k \in Jobs, AcquirePermit(k) PROVE Consistent(j)'
    <2>1. k # j => Same  BY <1>7, <1>t DEF AcquirePermit, TypeOK
    <2>2. CASE k = j
      BY <2>2, <1>7, <1>t
      DEF AcquirePermit, TypeOK, Consistent, RowsAgree, StepFindsRows,
          TaskFindsRows, Untouched, Unverified
    <2> QED  BY <2>1, <2>2, <1>s
  <1>8. ASSUME NEW k \in Jobs, ReturnPermit(k) PROVE Consistent(j)'
    <2>1. k # j => Same  BY <1>8, <1>t DEF ReturnPermit, TypeOK
    <2>2. CASE k = j
      BY <2>2, <1>8, <1>t
      DEF ReturnPermit, TypeOK, Consistent, RowsAgree, StepFindsRows,
          TaskFindsRows, Untouched, Unverified
    <2> QED  BY <2>1, <2>2, <1>s
  <1>9. ASSUME NEW k \in Jobs, JobBecomesLate(k) \/ OpportunityBecomesLate(k)
        PROVE  Consistent(j)'
    BY <1>9, <1>s DEF JobBecomesLate, OpportunityBecomesLate
  <1>10. CASE StopScheduler  BY <1>10, <1>s, <1>t DEF StopScheduler
  <1>11. CASE CancelAll
    BY <1>11, <1>t DEF CancelAll, Active, Consistent, RowsAgree, StepFindsRows,
       TaskFindsRows, InVerification, Untouched, Unverified
  <1>12. CASE CloseDatabase \/ Crash
    <2>1. ForgetProcess  BY <1>12 DEF CloseDatabase, Crash
    <2> QED
      BY <2>1, <1>t DEF ForgetProcess, Consistent, RowsAgree, StepFindsRows,
         TaskFindsRows, Untouched, Unverified
  <1>13. CASE ShutdownFails
    <2>1. /\ job'[j] = job[j] /\ opp'[j] = opp[j] /\ saved'[j] = saved[j]
          /\ published'[j] = published[j] /\ handoff' # j
          /\ task'[j] = IF task[j] \in {"waiting", "holding"} THEN "over" ELSE task[j]
          /\ \/ run[j] = "verify" /\ run'[j] = "cancel_job"
             \/ run[j] \notin LiveRun /\ run'[j] = run[j]
             \/ run[j] \in LiveRun /\ run'[j] = "failed"
      BY <1>13, <1>t DEF ShutdownFails, CancelledRuns, Active, Running, TypeOK, LiveRun
    <2>2. RowsAgree(j)'
      BY <2>1, <1>t DEF Consistent, RowsAgree, Unverified
    <2>3. StepFindsRows(j)'
      BY <2>1, <1>t DEF Consistent, StepFindsRows, LiveRun
    <2>4. TaskFindsRows(j)'
      BY <2>1, <1>t DEF Consistent, TaskFindsRows, StepFindsRows, Untouched, LiveRun
    <2> QED  BY <2>2, <2>3, <2>4 DEF Consistent
  <1> QED
    BY <1>1, <1>2, <1>3, <1>4, <1>5, <1>6, <1>7, <1>8, <1>9, <1>10, <1>11,
       <1>12, <1>13 DEF Next
-----------------------------------------------------------------------------
(* The dead process stays empty. *)
LEMMA ProcessStep ==
  ASSUME IInv, Next
  PROVE  ProcessIsOver'
  <1> USE DEF database, clock, scan, worker, recovery, ProcessIsOver, Alive
  <1>t. TypeOK /\ ProcessIsOver  BY DEF IInv
  <1>1. CASE StartRecovery  BY <1>1, <1>t DEF StartRecovery
  <1>2. CASE RecoveryNext
    <2>1. phase = "recovery" /\ UNCHANGED <<scan, worker>>
      BY <1>2 DEF RecoveryNext, RecoverJob, ExpireJob, ExpireOpportunity,
         ListExpiredJobs, ListExpiredOpportunities, FinishRecovery, Recovering
    <2>2. \A k \in Jobs : job[k] = "none" => job'[k] = "none"
      BY <1>2, <1>t, <2>1
      DEF RecoveryNext, RecoverJob, Recovered, ExpireJob, ExpireOpportunity, TypeOK,
          ListExpiredJobs, ListExpiredOpportunities, FinishRecovery, IInv,
          RecoveryFindsRows, Recovering
    <2> QED  BY <2>1, <2>2, <1>t
  <1>3. CASE CloseDatabase \/ Crash
    BY <1>3 DEF CloseDatabase, Crash, ForgetProcess
  <1>4. CASE CancelAll \/ ShutdownFails  BY <1>4 DEF CancelAll, ShutdownFails
  <1>5. CASE StopScheduler  BY <1>5 DEF StopScheduler
  <1>6. CASE \E k \in Jobs : JobBecomesLate(k) \/ OpportunityBecomesLate(k)
    BY <1>6, <1>t DEF JobBecomesLate, OpportunityBecomesLate
  <1>7. CASE \/ BeginHandoffs \/ Submit \/ EndScan
             \/ \E k \in Jobs : \/ CreateOpportunity(k) \/ AcquirePermit(k)
                                 \/ ReturnPermit(k)
    BY <1>7 DEF BeginHandoffs, Submit, EndScan, CreateOpportunity,
       AcquirePermit, ReturnPermit
  <1>8. CASE \E k \in Jobs : RunNext(k) \/ RunFails(k)
    <2>1. Alive /\ phase' = phase
      BY <1>8 DEF RunNext, RunFails, LoadConfirmation, CheckExpiry,
         MarkJobRunning, MarkOpportunityVerifying, VerifyAmounts,
         SaveConfirmation, FinishJob, FinishOpportunity, RecordConfirmation,
         Publish, MarkJobCancelled, MarkOpportunityCancelled, At, rest
    <2> QED  BY <2>1
  <1> QED
    BY <1>1, <1>2, <1>3, <1>4, <1>5, <1>6, <1>7, <1>8 DEF Next

(* The lists of the recovery are walked to their ends. *)
LEMMA RecoveryStep ==
  ASSUME IInv, Next
  PROVE  RecoveryFindsRows'
  <1> USE DEF database, clock, scan, worker, recovery, RecoveryFindsRows
  <1>t. TypeOK /\ RecoveryFindsRows  BY DEF IInv
  <1>1. CASE StartRecovery  BY <1>1, <1>t DEF StartRecovery, Interrupted
  <1>2. CASE RecoveryNext
    <2>1. ASSUME NEW k \in Jobs, RecoverJob(k) PROVE RecoveryFindsRows'
      BY <2>1, <1>t DEF RecoverJob, Recovered, Recovering, TypeOK
    <2>2. ASSUME NEW k \in Jobs, ExpireJob(k) PROVE RecoveryFindsRows'
      BY <2>2, <1>t DEF ExpireJob, Recovering, TypeOK
    <2>3. ASSUME NEW k \in Jobs, ExpireOpportunity(k) PROVE RecoveryFindsRows'
      BY <2>3, <1>t DEF ExpireOpportunity, Recovering, TypeOK
    <2>4. CASE ListExpiredJobs
      <3>1. \A k \in Jobs : job[k] # "running"
        BY <2>4, <1>t DEF ListExpiredJobs, Recovering
      <3>2. \A k \in LateJobs : job[k] = "queued"
        BY <3>1, <1>t DEF LateJobs, TypeOK
      <3>3. recBatch' \subseteq LateJobs
        BY <2>4 DEF ListExpiredJobs, Batches
      <3> QED  BY <2>4, <3>1, <3>2, <3>3 DEF ListExpiredJobs
    <2>5. CASE ListExpiredOpportunities
      BY <2>5, <1>t DEF ListExpiredOpportunities, Recovering, Batches,
         LateOpportunities
    <2>6. CASE FinishRecovery  BY <2>6, <1>t DEF FinishRecovery
    <2> QED  BY <1>2, <2>1, <2>2, <2>3, <2>4, <2>5, <2>6 DEF RecoveryNext
  <1>3. CASE CloseDatabase \/ Crash  BY <1>3 DEF CloseDatabase, Crash
  <1>4. CASE CancelAll \/ ShutdownFails  BY <1>4 DEF CancelAll, ShutdownFails
  <1>5. CASE StopScheduler  BY <1>5 DEF StopScheduler
  <1>6. CASE \E k \in Jobs : JobBecomesLate(k) \/ OpportunityBecomesLate(k)
    BY <1>6, <1>t DEF JobBecomesLate, OpportunityBecomesLate
  <1>7. CASE \/ BeginHandoffs \/ Submit \/ EndScan
             \/ \E k \in Jobs : \/ CreateOpportunity(k) \/ AcquirePermit(k)
                                 \/ ReturnPermit(k)
    BY <1>7 DEF BeginHandoffs, Submit, EndScan, CreateOpportunity,
       AcquirePermit, ReturnPermit
  <1>8. CASE \E k \in Jobs : RunNext(k) \/ RunFails(k)
    <2>1. Alive /\ phase' = phase
      BY <1>8 DEF RunNext, RunFails, LoadConfirmation, CheckExpiry,
         MarkJobRunning, MarkOpportunityVerifying, VerifyAmounts,
         SaveConfirmation, FinishJob, FinishOpportunity, RecordConfirmation,
         Publish, MarkJobCancelled, MarkOpportunityCancelled, At, rest
    <2> QED  BY <2>1 DEF Alive
  <1> QED
    BY <1>1, <1>2, <1>3, <1>4, <1>5, <1>6, <1>7, <1>8 DEF Next

(* A run writes "running" where it goes on, and leaves it behind only when *)
(* it fails.                                                               *)
LEMMA RunOwns ==
  ASSUME IInv, NEW k \in Jobs, RunNext(k) \/ RunFails(k)
  PROVE  job'[k] = "running" => run'[k] \notin {"idle", "done"}
  <1> USE DEF rest, database, Goto, SetJob, SetOpportunity, At
  <1>t. TypeOK /\ Consistent(k)  BY DEF IInv
  <1>1. CASE RecordConfirmation(k) \/ Publish(k)
    <2>1. /\ results[k] # {} /\ results[k] \in SUBSET AmountStatus
          /\ job[k] = JobStatusFor(results[k])
      BY <1>1, <1>t DEF RecordConfirmation, Publish, Consistent, StepFindsRows, TypeOK
    <2>2. job'[k] # "running"
      BY <1>1, <2>1, PolicyStatuses DEF RecordConfirmation, Publish
    <2> QED  BY <2>2
  <1>2. CASE ~ (RecordConfirmation(k) \/ Publish(k))
    BY <1>2, <1>t DEF RunNext, RunFails, LoadConfirmation, CheckExpiry, MarkJobRunning,
       MarkOpportunityVerifying, VerifyAmounts, SaveConfirmation, FinishJob,
       FinishOpportunity, MarkJobCancelled, MarkOpportunityCancelled, TypeOK
  <1> QED  BY <1>1, <1>2

(* Nobody but a run makes a row "running", and a process comes up with     *)
(* none: its recovery has walked the whole list.                           *)
LEMMA OwnedStep ==
  ASSUME IInv, Next
  PROVE  RunningIsOwned'
  <1> USE DEF database, clock, scan, worker, recovery
  <1>t. /\ TypeOK /\ RecoveryFindsRows /\ RunningIsOwned
        /\ \A k \in Jobs : Consistent(k)
    BY DEF IInv
  (* The rows and the runs stay, and so does the process. *)
  <1>s. ASSUME Alive' => Alive, UNCHANGED <<job, run>>
        PROVE  RunningIsOwned'
    BY <1>s, <1>t DEF RunningIsOwned
  <1>1. CASE \E k \in Jobs : RunNext(k) \/ RunFails(k)
    <2>1. PICK k \in Jobs : RunNext(k) \/ RunFails(k)  BY <1>1
    <2>2. /\ Alive
          /\ \A j \in Jobs : j # k => job'[j] = job[j] /\ run'[j] = run[j]
      BY <2>1, <1>t DEF RunNext, RunFails, LoadConfirmation, CheckExpiry,
         MarkJobRunning, MarkOpportunityVerifying, VerifyAmounts, TypeOK,
         SaveConfirmation, FinishJob, FinishOpportunity, RecordConfirmation,
         Publish, MarkJobCancelled, MarkOpportunityCancelled, At, rest, Goto,
         SetJob, SetOpportunity
    <2>3. job'[k] = "running" => run'[k] \notin {"idle", "done"}
      BY <2>1, RunOwns
    <2> QED  BY <2>2, <2>3, <1>t DEF RunningIsOwned
  <1>2. CASE FinishRecovery
    <2>1. \A k \in Jobs : job'[k] # "running"
      BY <1>2, <1>t DEF FinishRecovery, Recovering, RecoveryFindsRows
    <2> QED  BY <2>1 DEF RunningIsOwned
  <1>3. CASE StartRecovery \/ (RecoveryNext /\ ~ FinishRecovery)
    <2>1. phase' = "recovery"
      BY <1>3 DEF StartRecovery, RecoveryNext, RecoverJob, ExpireJob,
         ExpireOpportunity, ListExpiredJobs, ListExpiredOpportunities, Recovering
    <2> QED  BY <2>1 DEF RunningIsOwned, Alive
  <1>4. CASE CloseDatabase \/ Crash
    BY <1>4 DEF CloseDatabase, Crash, RunningIsOwned, Alive
  <1>5. CASE ShutdownFails
    <2>1. \A k \in Jobs : run[k] \notin {"idle", "done"} => run'[k] \notin {"idle", "done"}
      BY <1>5 DEF ShutdownFails, CancelledRuns
    <2>2. Alive /\ job' = job
      BY <1>5 DEF ShutdownFails, Alive
    <2> QED  BY <2>1, <2>2, <1>t DEF RunningIsOwned
  <1>6. ASSUME NEW k \in Jobs, AcquirePermit(k) PROVE RunningIsOwned'
    <2>1. run'[k] = "load" /\ \A j \in Jobs : j # k => run'[j] = run[j]
      BY <1>6, <1>t DEF AcquirePermit, TypeOK
    <2>2. Alive /\ job' = job
      BY <1>6 DEF AcquirePermit, Alive
    <2> QED  BY <2>1, <2>2, <1>t DEF RunningIsOwned
  <1>7. ASSUME NEW k \in Jobs, CreateOpportunity(k) PROVE RunningIsOwned'
    <2>1. \A j \in Jobs : job'[j] = "running" => job[j] = "running"
      BY <1>7, <1>t DEF CreateOpportunity, TypeOK
    <2>2. Alive /\ run' = run
      BY <1>7 DEF CreateOpportunity, Alive
    <2> QED  BY <2>1, <2>2, <1>t DEF RunningIsOwned
  <1>8. CASE \/ BeginHandoffs \/ Submit \/ EndScan \/ StopScheduler \/ CancelAll
             \/ \E k \in Jobs : \/ ReturnPermit(k) \/ JobBecomesLate(k)
                                 \/ OpportunityBecomesLate(k)
    BY <1>8, <1>s DEF BeginHandoffs, Submit, EndScan, StopScheduler, CancelAll,
       ReturnPermit, JobBecomesLate, OpportunityBecomesLate, Alive
  <1> QED
    BY <1>1, <1>2, <1>3, <1>4, <1>5, <1>6, <1>7, <1>8 DEF Next

(* Permits are given to waiting tasks only while some are free. *)
LEMMA PermitStep ==
  ASSUME IInv, Next
  PROVE  RunsHoldPermits' /\ ParallelismBounded'
  <1> USE DEF database, clock, scan, worker, recovery
  <1>t. /\ TypeOK /\ RunsHoldPermits /\ ParallelismBounded
        /\ ProcessIsOver /\ MaxParallel \in Nat
        /\ \A k \in Jobs : Consistent(k)
    BY Level2Assumption DEF IInv
  <1>f. IsFiniteSet(Jobs)  BY Level2Assumption
  <1>r. IsFiniteSet(Running) /\ Cardinality(Running) \in Nat
    <2>1. Running \in SUBSET Jobs  BY DEF Running
    <2> QED  BY <2>1, <1>f, FS_Subset, FS_CardinalityType
  <1> DEFINE Goal == RunsHoldPermits' /\ ParallelismBounded'
  (* No permit is taken and no run begins. *)
  <1>s. ASSUME Holding' \subseteq Holding, Running' \subseteq Running,
               phase' \in {"up", "stopping"} =>
                 phase \in {"up", "stopping"} /\ Running' \subseteq Holding'
        PROVE  Goal
    <2>1. /\ Cardinality(Holding') <= Cardinality(Holding)
          /\ Cardinality(Running') <= Cardinality(Running)
          /\ Cardinality(Holding') \in Nat /\ Cardinality(Running') \in Nat
      <3>1. IsFiniteSet(Holding') /\ IsFiniteSet(Running')
        BY <1>s, <1>r, TasksAreFinite, FS_Subset
      <3> QED  BY <1>s, <1>r, <3>1, TasksAreFinite, FS_Subset, FS_CardinalityType
    <2> QED
      BY <2>1, <1>t, <1>s, <1>r, TasksAreFinite DEF RunsHoldPermits, ParallelismBounded
  <1>1. CASE UNCHANGED <<task, run>> /\ (phase' # phase => phase' = "recovery")
    BY <1>1, <1>s, <1>t DEF Holding, Running, RunsHoldPermits
  <1>2. CASE FinishRecovery \/ StopScheduler
    <2>1. UNCHANGED <<task, run>>  BY <1>2 DEF FinishRecovery, StopScheduler
    <2>2. CASE FinishRecovery
      <3>1. Running = {} /\ Running' = {} /\ Holding' = {}
        BY <2>1, <2>2, <1>t DEF FinishRecovery, Recovering, ProcessIsOver,
           Alive, Running, LiveRun, Holding
      <3> QED
        BY <3>1, <1>t, FS_EmptySet DEF RunsHoldPermits, ParallelismBounded
    <2>3. CASE StopScheduler
      BY <2>1, <2>3, <1>s, <1>t DEF StopScheduler, Running, Holding, RunsHoldPermits
    <2> QED  BY <1>2, <2>2, <2>3
  <1>3. CASE Submit
    <2>1. handoff \in Jobs /\ task[handoff] = "none"
      BY <1>3, <1>t DEF Submit, TypeOK, Consistent, TaskFindsRows
    <2>2. Holding' = Holding /\ Running' = Running /\ phase' = phase
      BY <1>3, <2>1, <1>t DEF Submit, TypeOK, Holding, Running
    <2> QED  BY <2>2, <1>s, <1>t DEF RunsHoldPermits
  <1>4. ASSUME NEW k \in Jobs, AcquirePermit(k) PROVE Goal
    <2>1. /\ Holding' = Holding \union {k} /\ k \notin Holding
          /\ Running' = Running \union {k} /\ Running \subseteq Holding
          /\ Cardinality(Holding) < MaxParallel
      BY <1>4, <1>t DEF AcquirePermit, TypeOK, Holding, Running, LiveRun, RunsHoldPermits
    <2>2. Cardinality(Holding') = Cardinality(Holding) + 1 /\ IsFiniteSet(Holding')
      BY <2>1, TasksAreFinite, FS_AddElement
    <2>3. Running' \in SUBSET Holding'  BY <2>1
    <2>4. Cardinality(Running') <= Cardinality(Holding') /\ IsFiniteSet(Running')
      BY <2>2, <2>3, FS_Subset
    <2>5. Cardinality(Running') \in Nat  BY <2>4, FS_CardinalityType
    <2> QED
      BY <2>1, <2>2, <2>3, <2>4, <2>5, <1>t, TasksAreFinite
      DEF RunsHoldPermits, ParallelismBounded
  <1>5. ASSUME NEW k \in Jobs, ReturnPermit(k) PROVE Goal
    <2>1. Holding' = Holding \ {k} /\ Running' = Running /\ k \notin Running
      BY <1>5, <1>t DEF ReturnPermit, TypeOK, Holding, Running, LiveRun
    <2> QED  BY <2>1, <1>s, <1>t, <1>5 DEF ReturnPermit, RunsHoldPermits
  <1>6. CASE \E k \in Jobs : RunNext(k) \/ RunFails(k)
    <2>1. PICK k \in Jobs : RunNext(k) \/ RunFails(k)  BY <1>6
    <2>2. /\ task' = task /\ phase' = phase /\ run[k] \in LiveRun
          /\ \A j \in Jobs : j # k => run'[j] = run[j]
      BY <2>1, <1>t DEF RunNext, RunFails, LoadConfirmation, CheckExpiry,
         MarkJobRunning, MarkOpportunityVerifying, VerifyAmounts, TypeOK,
         SaveConfirmation, FinishJob, FinishOpportunity, RecordConfirmation,
         Publish, MarkJobCancelled, MarkOpportunityCancelled, At, rest, Goto, LiveRun
    <2>3. Holding' = Holding /\ Running' \subseteq Running
      BY <2>2 DEF Holding, Running
    <2> QED  BY <2>2, <2>3, <1>s, <1>t DEF RunsHoldPermits
  <1>7. CASE CancelAll
    <2>1. Holding' = {} /\ Running' = Running /\ phase' = "cancelled"
      BY <1>7, <1>t DEF CancelAll, TypeOK, Active, Holding, Running
    <2> QED  BY <2>1, <1>s
  <1>8. CASE CloseDatabase \/ Crash
    <2>1. Holding' = {} /\ Running' = {} /\ phase' \in {"down", "stopped"}
      BY <1>8 DEF CloseDatabase, Crash, ForgetProcess, Holding, Running, LiveRun
    <2> QED  BY <2>1, <1>s
  <1>9. CASE ShutdownFails
    <2>1. Holding' = {} /\ Running' \subseteq Running /\ phase' = "abandoned"
      BY <1>9, <1>t DEF ShutdownFails, CancelledRuns, TypeOK, Active, Holding,
         Running, LiveRun
    <2> QED  BY <2>1, <1>s
  <1>10. CASE StartRecovery  BY <1>10, <1>1 DEF StartRecovery
  <1>11. CASE RecoveryNext /\ ~ FinishRecovery
    BY <1>11, <1>1 DEF RecoveryNext, RecoverJob, ExpireJob, ExpireOpportunity,
       ListExpiredJobs, ListExpiredOpportunities
  <1>12. CASE \/ BeginHandoffs \/ EndScan
              \/ \E k \in Jobs : \/ CreateOpportunity(k) \/ JobBecomesLate(k)
                                  \/ OpportunityBecomesLate(k)
    BY <1>12, <1>1 DEF BeginHandoffs, EndScan, CreateOpportunity,
       JobBecomesLate, OpportunityBecomesLate
  <1> QED
    BY <1>2, <1>3, <1>4, <1>5, <1>6, <1>7, <1>8, <1>9, <1>10, <1>11, <1>12 DEF Next

(* The capacity read at the beginning of the scan is never overdrawn. *)
LEMMA SlotsStep ==
  ASSUME IInv, Next
  PROVE  SlotsAreFree' /\ SubmissionNeverRefused'
  <1> USE DEF database, clock, scan, worker, recovery, SubmissionNeverRefused
  <1>t. /\ TypeOK /\ SlotsAreFree /\ ProcessIsOver /\ SubmissionNeverRefused
        /\ slots \in Nat /\ MaxPerScan \in Nat /\ QueueCapacity \in Nat
        /\ \A k \in Jobs : Consistent(k)
    BY Level2Assumption DEF IInv, TypeOK
  <1> DEFINE Goal == SlotsAreFree' /\ SubmissionNeverRefused'
  (* No task begins. *)
  <1>s. ASSUME Active' \subseteq Active, UNCHANGED <<slots, handoff, rejected>>
        PROVE  Goal
    <2>1. Cardinality(Active') <= Cardinality(Active) /\ IsFiniteSet(Active')
      BY <1>s, TasksAreFinite, FS_Subset
    <2>2. Cardinality(Active') \in Nat  BY <2>1, FS_CardinalityType
    <2> QED  BY <1>s, <2>1, <2>2, <1>t, TasksAreFinite DEF SlotsAreFree
  (* There is no scan. *)
  <1>n. ASSUME slots' = 0, handoff' = NoJob, rejected' = rejected
        PROVE  Goal
    BY <1>n, <1>t DEF SlotsAreFree
  <1>1. CASE BeginHandoffs
    <2>1. slots' = Min({MaxPerScan, AvailableCapacity}) /\ task' = task
          /\ handoff' = handoff /\ rejected' = rejected /\ slots = 0
      BY <1>1 DEF BeginHandoffs
    <2>2. slots' <= AvailableCapacity /\ slots' \in Nat
      BY <2>1, MinOfTwo, Capacity, <1>t
    <2>3. Active' = Active  BY <2>1 DEF Active
    <2>4. slots' > 0 => slots' + Cardinality(Active) <= QueueCapacity
      BY <2>2, Capacity, TasksAreFinite, <1>t
    <2> QED  BY <2>1, <2>3, <2>4, <1>t DEF SlotsAreFree
  <1>2. CASE Submit
    <2>1. /\ handoff \in Jobs /\ task[handoff] = "none" /\ slots > 0
          /\ slots + Cardinality(Active) <= QueueCapacity
      BY <1>2, <1>t DEF Submit, TypeOK, Consistent, TaskFindsRows, SlotsAreFree
    <2>2. AvailableCapacity > 0
      BY <2>1, <1>t, TasksAreFinite, MaxOfTwo DEF AvailableCapacity
    <2>3. /\ handoff' = NoJob /\ slots' = slots - 1 /\ rejected' = rejected
          /\ Active' = Active \union {handoff} /\ handoff \notin Active
      BY <1>2, <2>1, <2>2, <1>t DEF Submit, TypeOK, Active
    <2>4. Cardinality(Active') = Cardinality(Active) + 1
      BY <2>3, TasksAreFinite, FS_AddElement
    <2> QED  BY <2>1, <2>3, <2>4, <1>t, TasksAreFinite DEF SlotsAreFree
  <1>3. CASE EndScan \/ StopScheduler \/ ShutdownFails \/ CloseDatabase \/ Crash
    BY <1>3, <1>n DEF EndScan, StopScheduler, ShutdownFails, CloseDatabase,
       Crash, ForgetProcess
  <1>4. ASSUME NEW k \in Jobs, CreateOpportunity(k) PROVE Goal
    <2>1. Active' = Active /\ slots > 0 /\ UNCHANGED <<slots, rejected>>
      BY <1>4 DEF CreateOpportunity, Active
    <2> QED  BY <2>1, <1>t DEF SlotsAreFree
  <1>5. ASSUME NEW k \in Jobs, AcquirePermit(k) \/ ReturnPermit(k) PROVE Goal
    <2>1. Active' \subseteq Active
      BY <1>5, <1>t DEF AcquirePermit, ReturnPermit, Active, TypeOK
    <2> QED  BY <1>5, <2>1, <1>s DEF AcquirePermit, ReturnPermit
  <1>6. CASE CancelAll
    BY <1>6, <1>s, <1>t DEF CancelAll, Active, TypeOK
  <1>7. CASE \E k \in Jobs : RunNext(k) \/ RunFails(k)
    <2>1. UNCHANGED <<scan, task>>
      BY <1>7 DEF RunNext, RunFails, LoadConfirmation, CheckExpiry,
         MarkJobRunning, MarkOpportunityVerifying, VerifyAmounts,
         SaveConfirmation, FinishJob, FinishOpportunity, RecordConfirmation,
         Publish, MarkJobCancelled, MarkOpportunityCancelled, rest
    <2> QED  BY <2>1, <1>s DEF Active
  <1>8. CASE \/ StartRecovery \/ RecoveryNext
             \/ \E k \in Jobs : JobBecomesLate(k) \/ OpportunityBecomesLate(k)
    <2>1. UNCHANGED <<scan, task>>
      BY <1>8 DEF StartRecovery, RecoveryNext, RecoverJob, ExpireJob,
         ExpireOpportunity, ListExpiredJobs, ListExpiredOpportunities,
         FinishRecovery, JobBecomesLate, OpportunityBecomesLate
    <2> QED  BY <2>1, <1>s DEF Active
  <1> QED
    BY <1>1, <1>2, <1>3, <1>4, <1>5, <1>6, <1>7, <1>8 DEF Next
-----------------------------------------------------------------------------
(* Every step of the pipeline keeps the inductive invariant. *)
THEOREM NextIInv == IInv /\ [Next]_vars => IInv'
  <1> SUFFICES ASSUME IInv, [Next]_vars PROVE IInv'
    OBVIOUS
  <1>1. CASE Next
    <2>1. TypeOK'  BY <1>1, RunTypes, OtherTypes
    <2>2. \A k \in Jobs : Consistent(k)'
      BY <1>1, RunConsistent, OtherConsistent
    <2> QED
      BY <1>1, <2>1, <2>2, ProcessStep, RecoveryStep, OwnedStep, PermitStep, SlotsStep DEF IInv
  <1>2. CASE UNCHANGED vars
    BY <1>2 DEF vars, database, clock, scan, worker, recovery, IInv, TypeOK,
       Consistent, RowsAgree, StepFindsRows, TaskFindsRows, InVerification,
       Untouched, ProcessIsOver, Alive, RecoveryFindsRows, RunsHoldPermits,
       SlotsAreFree, ParallelismBounded, SubmissionNeverRefused,
       RunningIsOwned, Active, Holding, Running
  <1> QED  BY <1>1, <1>2

(* The inductive invariant holds in every reachable state of the pipeline: *)
(* in particular the types, the bound on parallel runs, the accepted       *)
(* submissions and the owner of every running row.                         *)
THEOREM IInvHolds == Spec => []IInv
  BY InitIInv, NextIInv, PTL DEF Spec

(* Every variable of the pipeline keeps its type. *)
THEOREM TypesHold == Spec => []TypeOK
  <1>1. IInv => TypeOK  BY DEF IInv
  <1> QED  BY <1>1, IInvHolds, PTL

(* worker.py: the number of confirmation runs never exceeds the limit,     *)
(* also after cancel_all has taken the permits from runs that go on.       *)
THEOREM ParallelismHolds == Spec => []ParallelismBounded
  <1>1. IInv => ParallelismBounded  BY DEF IInv
  <1> QED  BY <1>1, IInvHolds, PTL

(* Level1Scanner reads the capacity of the worker once per scan, and no    *)
(* submission of the scan is refused.                                      *)
THEOREM SubmissionsAccepted == Spec => []SubmissionNeverRefused
  <1>1. IInv => SubmissionNeverRefused  BY DEF IInv
  <1> QED  BY <1>1, IInvHolds, PTL

(* Level2Scanner._finish: a finished job has the stored result that its    *)
(* status stands for.                                                      *)
THEOREM VerdictSaved == Spec => []VerdictIsSaved
  <1>1. IInv => VerdictIsSaved
    BY DEF IInv, Consistent, RowsAgree, VerdictIsSaved
  <1> QED  BY <1>1, IInvHolds, PTL

(* The opportunity gets its verdict only after its job got the same one.   *)
THEOREM OpportunityFollows == Spec => []OpportunityFollowsJob
  <1>1. IInv => OpportunityFollowsJob
    BY DEF IInv, Consistent, RowsAgree, Unverified, OpportunityFollowsJob
  <1> QED  BY <1>1, IInvHolds, PTL

(* ConfirmationPublisher: notifications exist only for what is confirmed.  *)
THEOREM PublishedConfirmed == Spec => []OnlyConfirmedPublished
  <1>1. IInv => OnlyConfirmedPublished
    BY DEF IInv, Consistent, RowsAgree, OnlyConfirmedPublished
  <1> QED  BY <1>1, IInvHolds, PTL

(* RecoveryService and Level2Scanner: while a process is up, a job shown   *)
(* as running has been begun by that very process, after any number of     *)
(* errors, crashes and recoveries killed half-way.                         *)
THEOREM RunningOwned == Spec => []RunningIsOwned
  <1>1. IInv => RunningIsOwned  BY DEF IInv
  <1> QED  BY <1>1, IInvHolds, PTL

-----------------------------------------------------------------------------
(* The pipeline implements JobLifecycle: every step of the scan, of a      *)
(* confirmation run, of the recovery or of the environment either leaves   *)
(* the statuses alone or moves one of them along an abstract edge.         *)

(* A step that writes none of the rows the lifecycle speaks of. *)
RowsUntouched == UNCHANGED <<job, opp, published>>

LEMMA CreateRefines ==
  ASSUME IInv, NEW k \in Jobs, CreateOpportunity(k)
  PROVE  Lifecycle!Create(k)
  <1>1. Consistent(k)  BY DEF IInv
  <1> QED
    BY <1>1 DEF CreateOpportunity, Lifecycle!Create, Consistent, RowsAgree

(* MoveJob, from what is known of the two statuses. *)
LEMMA MoveRefines ==
  ASSUME NEW k \in Jobs, NEW to \in JobStatus, <<job[k], to>> \in Lifecycle!JobEdges,
         job' = [job EXCEPT ![k] = to], UNCHANGED <<opp, published>>
  PROVE  Lifecycle!MoveJob(k)
  <1>1. \E status \in JobStatus : /\ <<job[k], status>> \in Lifecycle!JobEdges
                                  /\ job' = [job EXCEPT ![k] = status]
    <2> WITNESS to \in JobStatus
    <2> QED  OBVIOUS
  <1> QED  BY <1>1 DEF Lifecycle!MoveJob, JobStatus, Lifecycle!JobStatus

LEMMA RunRefines ==
  ASSUME IInv, NEW k \in Jobs, RunNext(k) \/ RunFails(k)
  PROVE  Lifecycle!Next \/ RowsUntouched
  <1> USE DEF database, rest, SetJob, SetOpportunity, At, Goto
  <1>t. /\ TypeOK /\ Consistent(k)  BY DEF IInv
  <1>1. CASE LoadConfirmation(k) \/ CheckExpiry(k) \/ VerifyAmounts(k)
             \/ SaveConfirmation(k) \/ RunFails(k)
    BY <1>1 DEF LoadConfirmation, CheckExpiry, VerifyAmounts, SaveConfirmation,
       RunFails, RowsUntouched
  <1>2. CASE MarkJobRunning(k)
    <2>1. <<job[k], "running">> \in Lifecycle!JobEdges
      BY <1>2, <1>t DEF MarkJobRunning, Consistent, StepFindsRows, Untouched,
         Lifecycle!JobEdges
    <2>2. Lifecycle!MoveJob(k)
      BY <1>2, <2>1, MoveRefines DEF MarkJobRunning, JobStatus
    <2> QED  BY <2>2 DEF Lifecycle!Next
  <1>3. CASE MarkOpportunityVerifying(k)
    <2>1. Lifecycle!BeginVerification(k)
      BY <1>3, <1>t DEF MarkOpportunityVerifying, Consistent, StepFindsRows,
         Lifecycle!BeginVerification
    <2> QED  BY <2>1 DEF Lifecycle!Next
  <1>4. CASE FinishJob(k)
    <2> DEFINE to == JobStatusFor(results[k])
    <2>1. /\ InVerification(k) /\ results[k] # {}
          /\ results[k] \in SUBSET AmountStatus
      BY <1>4, <1>t DEF FinishJob, Consistent, StepFindsRows, TypeOK
    <2>2. to \in {"confirmed", "rejected", "failed", "expired"}
      BY <2>1, PolicyStatuses
    <2>3. job[k] = "queued" => to = "expired"
      BY <2>1 DEF InVerification, JobStatusFor
    <2>4. <<job[k], to>> \in Lifecycle!JobEdges
      BY <2>1, <2>2, <2>3 DEF InVerification, Lifecycle!JobEdges
    <2>5. Lifecycle!MoveJob(k)
      BY <1>4, <2>2, <2>4, MoveRefines DEF FinishJob, JobStatus
    <2> QED  BY <2>5 DEF Lifecycle!Next
  <1>5. CASE FinishOpportunity(k)
    <2>1. /\ results[k] # {} /\ results[k] \in SUBSET AmountStatus
          /\ job[k] = JobStatusFor(results[k])
          /\ opp[k] \in {"created", "verifying"}
      BY <1>5, <1>t DEF FinishOpportunity, Consistent, StepFindsRows, TypeOK
    <2>2. OpportunityStatusFor(results[k]) \in Lifecycle!MatchingVerdict(job[k])
      BY <2>1, PolicyMatches
    <2>3. Lifecycle!ReceiveVerdict(k)
      BY <1>5, <2>1, <2>2 DEF FinishOpportunity, Lifecycle!ReceiveVerdict
    <2> QED  BY <2>3 DEF Lifecycle!Next
  <1>6. CASE RecordConfirmation(k)
    <2>1. opp[k] = OpportunityStatusFor(results[k])
      BY <1>6, <1>t DEF RecordConfirmation, Consistent, StepFindsRows
    <2> QED  BY <1>6, <1>t, <2>1 DEF RecordConfirmation, TypeOK, RowsUntouched
  <1>7. CASE Publish(k)
    <2>1. /\ opp[k] = OpportunityStatusFor(results[k])
          /\ opp[k] \in Notifiable /\ ~ published[k]
      BY <1>7, <1>t DEF Publish, Consistent, StepFindsRows
    <2>2. opp' = opp
      <3>1. opp' = [opp EXCEPT ![k] = opp[k]]
        BY <1>7, <2>1 DEF Publish
      <3> QED  BY <3>1, <1>t DEF TypeOK
    <2>3. Lifecycle!Notify(k)
      BY <1>7, <2>1, <2>2 DEF Publish, Lifecycle!Notify, Notifiable,
         Lifecycle!Notifiable
    <2> QED  BY <2>3 DEF Lifecycle!Next
  <1>8. CASE MarkJobCancelled(k)
    <2>1. <<job[k], "cancelled">> \in Lifecycle!JobEdges
      BY <1>8, <1>t DEF MarkJobCancelled, Consistent, StepFindsRows,
         Lifecycle!JobEdges
    <2>2. Lifecycle!MoveJob(k)
      BY <1>8, <2>1, MoveRefines DEF MarkJobCancelled, JobStatus
    <2> QED  BY <2>2 DEF Lifecycle!Next
  <1>9. CASE MarkOpportunityCancelled(k)
    <2>1. job[k] = "cancelled" /\ opp[k] = "verifying"
      BY <1>9, <1>t DEF MarkOpportunityCancelled, Consistent, StepFindsRows
    <2>2. "cancelled" \in Lifecycle!MatchingVerdict(job[k])
      BY <2>1 DEF Lifecycle!MatchingVerdict
    <2>3. Lifecycle!ReceiveVerdict(k)
      BY <1>9, <2>1, <2>2 DEF MarkOpportunityCancelled, Lifecycle!ReceiveVerdict
    <2> QED  BY <2>3 DEF Lifecycle!Next
  <1> QED
    BY <1>1, <1>2, <1>3, <1>4, <1>5, <1>6, <1>7, <1>8, <1>9 DEF RunNext

LEMMA RecoveryRefines ==
  ASSUME IInv, RecoveryNext
  PROVE  Lifecycle!Next \/ RowsUntouched
  <1> USE DEF database
  <1>t. TypeOK /\ RecoveryFindsRows  BY DEF IInv
  <1>1. ASSUME NEW k \in Jobs, RecoverJob(k) PROVE Lifecycle!Next
    <2> DEFINE to == IF k \in recNow.jobs THEN "expired" ELSE "queued"
    <2>1. <<job[k], to>> \in Lifecycle!JobEdges
      BY <1>1, <1>t DEF RecoverJob, RecoveryFindsRows, Recovering, Lifecycle!JobEdges
    <2>2. Lifecycle!MoveJob(k)
      BY <1>1, <2>1, MoveRefines DEF RecoverJob, Recovered, JobStatus
    <2> QED  BY <2>2 DEF Lifecycle!Next
  <1>2. ASSUME NEW k \in Jobs, ExpireJob(k) PROVE Lifecycle!Next
    <2>1. <<job[k], "expired">> \in Lifecycle!JobEdges
      BY <1>2, <1>t DEF ExpireJob, RecoveryFindsRows, Recovering, Lifecycle!JobEdges
    <2>2. Lifecycle!MoveJob(k)
      BY <1>2, <2>1, MoveRefines DEF ExpireJob, JobStatus
    <2> QED  BY <2>2 DEF Lifecycle!Next
  <1>3. ASSUME NEW k \in Jobs, ExpireOpportunity(k) PROVE Lifecycle!Next
    <2>1. Lifecycle!ExpireOpportunity(k)
      BY <1>3, <1>t DEF ExpireOpportunity, RecoveryFindsRows, Recovering,
         Lifecycle!ExpireOpportunity
    <2> QED  BY <2>1 DEF Lifecycle!Next
  <1>4. CASE ListExpiredJobs \/ ListExpiredOpportunities \/ FinishRecovery
    BY <1>4 DEF ListExpiredJobs, ListExpiredOpportunities, FinishRecovery,
       RowsUntouched
  <1> QED  BY <1>1, <1>2, <1>3, <1>4 DEF RecoveryNext

LEMMA StepRefines ==
  ASSUME IInv, [Next]_vars
  PROVE  Lifecycle!Next \/ RowsUntouched
  <1> USE DEF database
  <1>1. CASE \E k \in Jobs : CreateOpportunity(k)
    BY <1>1, CreateRefines DEF Lifecycle!Next
  <1>2. CASE \E k \in Jobs : RunNext(k) \/ RunFails(k)
    BY <1>2, RunRefines
  <1>3. CASE RecoveryNext
    BY <1>3, RecoveryRefines
  <1>4. CASE \/ StartRecovery \/ BeginHandoffs \/ Submit \/ EndScan
             \/ StopScheduler \/ CancelAll \/ ShutdownFails
             \/ CloseDatabase \/ Crash
    BY <1>4 DEF StartRecovery, BeginHandoffs, Submit, EndScan, StopScheduler,
       CancelAll, ShutdownFails, CloseDatabase, Crash, ForgetProcess, RowsUntouched
  <1>5. CASE \E k \in Jobs : \/ AcquirePermit(k) \/ ReturnPermit(k)
                             \/ JobBecomesLate(k) \/ OpportunityBecomesLate(k)
    BY <1>5 DEF AcquirePermit, ReturnPermit, JobBecomesLate,
       OpportunityBecomesLate, RowsUntouched
  <1>6. CASE UNCHANGED vars
    BY <1>6 DEF vars, RowsUntouched
  <1> QED
    BY <1>1, <1>2, <1>3, <1>4, <1>5, <1>6 DEF Next

(* The scan, the runs, the recovery and the crashes together keep to the   *)
(* promise of JobLifecycle about every job and its opportunity.            *)
THEOREM PipelineImplementsLifecycle == Spec => ImplementsLifecycle
  <1>1. Init => Lifecycle!Init
    BY DEF Init, Lifecycle!Init
  <1>2. IInv /\ [Next]_vars => [Lifecycle!Next]_(Lifecycle!vars)
    BY StepRefines DEF Lifecycle!vars, RowsUntouched
  <1> QED
    BY <1>1, <1>2, IInvHolds, PTL DEF Spec, ImplementsLifecycle, Lifecycle!Spec
-----------------------------------------------------------------------------
(* The edges of the lifecycle leave no terminal job status and take no     *)
(* verdict back.                                                           *)
LEMMA EdgesKeepVerdicts ==
  ASSUME TypeOK, [Lifecycle!Next]_(Lifecycle!vars)
  PROVE  \A k \in Jobs :
           /\ job[k] \in TerminalJob => job'[k] = job[k]
           /\ opp[k] \in Notifiable \union {"unprofitable", "route_unavailable"}
                => opp'[k] = opp[k]
  <1> SUFFICES ASSUME NEW k \in Jobs
               PROVE  /\ job[k] \in TerminalJob => job'[k] = job[k]
                      /\ opp[k] \in Notifiable \union {"unprofitable", "route_unavailable"}
                           => opp'[k] = opp[k]
    OBVIOUS
  <1>1. CASE UNCHANGED Lifecycle!vars
    BY <1>1 DEF Lifecycle!vars
  <1>2. ASSUME NEW j \in Jobs, Lifecycle!Create(j)
        PROVE  /\ job[k] \in TerminalJob => job'[k] = job[k]
               /\ opp[k] \in Notifiable \union {"unprofitable", "route_unavailable"}
                    => opp'[k] = opp[k]
    BY <1>2 DEF Lifecycle!Create, TypeOK, TerminalJob, Notifiable
  <1>3. ASSUME NEW j \in Jobs, Lifecycle!MoveJob(j)
        PROVE  (job[k] \in TerminalJob => job'[k] = job[k]) /\ opp' = opp
    BY <1>3 DEF Lifecycle!MoveJob, Lifecycle!JobEdges, TypeOK, TerminalJob
  <1>4. ASSUME NEW j \in Jobs, \/ Lifecycle!BeginVerification(j)
                               \/ Lifecycle!ReceiveVerdict(j)
                               \/ Lifecycle!ExpireOpportunity(j)
        PROVE  /\ job' = job
               /\ opp[k] \in Notifiable \union {"unprofitable", "route_unavailable"}
                    => opp'[k] = opp[k]
    BY <1>4 DEF Lifecycle!BeginVerification, Lifecycle!ReceiveVerdict,
       Lifecycle!ExpireOpportunity, TypeOK, Notifiable
  <1>5. ASSUME NEW j \in Jobs, Lifecycle!Notify(j)
        PROVE  job' = job /\ opp' = opp
    BY <1>5 DEF Lifecycle!Notify
  <1> QED  BY <1>1, <1>2, <1>3, <1>4, <1>5 DEF Lifecycle!Next

(* update_status has no guard on the old status, and still no step of the  *)
(* pipeline takes a job out of a terminal status.                          *)
THEOREM TerminalJobsNeverMove == Spec => TerminalJobsStay
  <1>1. IInv /\ [Next]_vars =>
          [\A k \in Jobs : job[k] \in TerminalJob => job'[k] = job[k]]_vars
    BY StepRefines, EdgesKeepVerdicts DEF IInv, Lifecycle!vars, RowsUntouched
  <1> QED  BY <1>1, IInvHolds, PTL DEF Spec, TerminalJobsStay

(* A verdict shown for an opportunity is never replaced by another.        *)
THEOREM VerdictsNeverMove == Spec => VerdictStays
  <1>1. IInv /\ [Next]_vars =>
          [\A k \in Jobs :
             opp[k] \in Notifiable \union {"unprofitable", "route_unavailable"} =>
               opp'[k] = opp[k]]_vars
    BY StepRefines, EdgesKeepVerdicts DEF IInv, Lifecycle!vars, RowsUntouched
  <1> QED  BY <1>1, IInvHolds, PTL DEF Spec, VerdictStays
-----------------------------------------------------------------------------
(* A job is run once in its life.  Its row may say "queued" again after a  *)
(* restart, but what decides is its task: it has been handed to the worker *)
(* in one process only, and the worker has taken it up once.               *)
Unattempted(k) ==
  task[k] \in {"none", "waiting"} \/ run[k] \in {"load", "check", "mark_job"} =>
    attempts[k] = 0

NewIsUnattempted == \A k \in Jobs : Unattempted(k)

LEMMA UnattemptedKept ==
  ASSUME IInv, NewIsUnattempted, [Next]_vars, NEW k \in Jobs
  PROVE  Unattempted(k)'
  <1>t. TypeOK /\ Consistent(k) /\ Unattempted(k)
    BY DEF IInv, NewIsUnattempted
  <1>w. /\ run[k] \in LiveRun => task[k] \in {"holding", "over"}
        /\ job[k] = "none" => task[k] = "none"
        /\ task[k] = "none" => run[k] = "idle"
    BY <1>t DEF Consistent, TaskFindsRows, LiveRun, TypeOK, TaskState
  <1> USE DEF TypeOK, Unattempted, database, clock, scan, worker, recovery, rest, Goto, At,
              SetJob, SetOpportunity, LiveRun
  <1>1. ASSUME NEW j \in Jobs, RunNext(j) \/ RunFails(j) PROVE Unattempted(k)'
    <2>1. task' = task
      BY <1>1 DEF RunNext, RunFails, LoadConfirmation, CheckExpiry, MarkJobRunning,
         MarkOpportunityVerifying, VerifyAmounts, SaveConfirmation, FinishJob, FinishOpportunity,
         RecordConfirmation, Publish, MarkJobCancelled, MarkOpportunityCancelled
    <2>2. CASE attempts' = attempts
      <3>1. run'[k] \in {"load", "check", "mark_job"} => run[k] \in {"load", "check", "mark_job"}
        BY <1>t, <1>1 DEF RunNext, RunFails, LoadConfirmation, CheckExpiry, MarkJobRunning,
           MarkOpportunityVerifying, VerifyAmounts, SaveConfirmation, FinishJob,
           FinishOpportunity, RecordConfirmation, Publish, MarkJobCancelled,
           MarkOpportunityCancelled
      <3> QED  BY <1>t, <2>1, <2>2, <3>1
    <2>3. CASE attempts' # attempts
      <3>1. MarkJobRunning(j) \/ FinishJob(j)
        BY <1>1, <2>3 DEF RunNext, RunFails, LoadConfirmation, CheckExpiry,
           MarkOpportunityVerifying, VerifyAmounts, SaveConfirmation, FinishOpportunity,
           RecordConfirmation, Publish, MarkJobCancelled, MarkOpportunityCancelled
      <3>2. CASE j = k
        BY <1>t, <1>w, <2>1, <3>1, <3>2 DEF MarkJobRunning, FinishJob
      <3>3. CASE j # k
        BY <1>t, <2>1, <3>1, <3>3 DEF MarkJobRunning, FinishJob
      <3> QED  BY <3>2, <3>3
    <2> QED  BY <2>2, <2>3
  <1>2. ASSUME NEW j \in Jobs, AcquirePermit(j) \/ ReturnPermit(j) PROVE Unattempted(k)'
    BY <1>t, <1>2 DEF AcquirePermit, ReturnPermit
  <1>3. CASE CloseDatabase \/ Crash \/ ShutdownFails \/ CancelAll
    <2>1. attempts' = attempts
      BY <1>3 DEF CloseDatabase, Crash, ShutdownFails, CancelAll, ForgetProcess
    <2>2. task'[k] \in {"none", "waiting"} => task[k] \in {"none", "waiting"}
      BY <1>w, <1>3 DEF CloseDatabase, Crash, ShutdownFails, CancelAll, ForgetProcess
    <2>3. run'[k] \in {"load", "check", "mark_job"} => run[k] \in {"load", "check", "mark_job"}
      BY <1>3 DEF CloseDatabase, Crash, ShutdownFails, CancelAll, ForgetProcess, CancelledRuns
    <2> QED  BY <1>t, <2>1, <2>2, <2>3
  <1>4. CASE Submit
    <2>1. /\ attempts' = attempts /\ run' = run
          /\ task' = task \/ (handoff \in Jobs /\ task' = [task EXCEPT ![handoff] = "waiting"])
      BY <1>t, <1>4 DEF Submit
    <2>2. handoff = k => task[k] = "none"
      BY <1>t DEF Consistent, TaskFindsRows
    <2> QED  BY <1>t, <2>1, <2>2
  <1>5. CASE UNCHANGED <<attempts, task, run>>
    BY <1>t, <1>5
  <1>6. ASSUME [Next]_vars,
               ~ \E j \in Jobs : \/ RunNext(j) \/ RunFails(j)
                                 \/ AcquirePermit(j) \/ ReturnPermit(j),
               ~ (CloseDatabase \/ Crash \/ ShutdownFails \/ CancelAll \/ Submit)
        PROVE  UNCHANGED <<attempts, task, run>>
    BY <1>6 DEF Next, StartRecovery, RecoveryNext, RecoverJob, ExpireJob, ExpireOpportunity,
       ListExpiredJobs, ListExpiredOpportunities, FinishRecovery, BeginHandoffs,
       CreateOpportunity, EndScan, JobBecomesLate, OpportunityBecomesLate, StopScheduler, vars
  <1> QED  BY <1>1, <1>2, <1>3, <1>4, <1>5, <1>6

(* Level2Worker._run: a confirmation begins only for a job that no         *)
(* process has attempted and whose rows nobody has touched since they were *)
(* created, and a task that was taken up once is never taken up again,     *)
(* whatever crashes, failures and restarts there are.                      *)
BegunOnce(k) ==
  /\ run[k] \notin LiveRun /\ run'[k] \in LiveRun =>
       task[k] = "waiting" /\ Untouched(k) /\ attempts[k] = 0
  /\ task[k] \in {"holding", "over"} => task'[k] \in {"holding", "over"}

(* Level2Processor: no job is verified a second time and no task is taken  *)
(* up again, in any step, whatever stops and restarts lie between.         *)
THEOREM JobsRunOnce == Spec => [][\A k \in Jobs : BegunOnce(k)]_vars
  <1>1. Init => NewIsUnattempted
    BY DEF Init, NewIsUnattempted, Unattempted
  <1>2. IInv /\ NewIsUnattempted /\ [Next]_vars => NewIsUnattempted'
    BY UnattemptedKept DEF NewIsUnattempted
  <1>3. ASSUME IInv, NewIsUnattempted, [Next]_vars, NEW k \in Jobs
        PROVE  BegunOnce(k)
    <2>t. TypeOK /\ Consistent(k) /\ Unattempted(k)
      BY <1>3 DEF IInv, NewIsUnattempted
    <2>w. /\ job[k] = "none" => task[k] = "none"
          /\ task[k] = "waiting" => Untouched(k)
          /\ handoff = k => task[k] = "none"
      BY <2>t DEF Consistent, TaskFindsRows
    <2> USE DEF TypeOK, database, clock, scan, worker, recovery, rest, Goto, At,
                SetJob, SetOpportunity
    <2>1. ASSUME NEW j \in Jobs, RunNext(j) \/ RunFails(j) \/ ReturnPermit(j) PROVE BegunOnce(k)
      <3>1. /\ task'[k] = task[k] \/ task'[k] = "over"
            /\ run'[k] \in LiveRun => run[k] \in LiveRun
        BY <2>t, <2>1 DEF RunNext, RunFails, LoadConfirmation, CheckExpiry, MarkJobRunning,
           MarkOpportunityVerifying, VerifyAmounts, SaveConfirmation, FinishJob,
           FinishOpportunity, RecordConfirmation, Publish, MarkJobCancelled,
           MarkOpportunityCancelled, ReturnPermit, LiveRun
      <3> QED  BY <3>1 DEF BegunOnce
    <2>2. ASSUME NEW j \in Jobs, AcquirePermit(j) PROVE BegunOnce(k)
      BY <2>t, <2>w, <2>2 DEF AcquirePermit, BegunOnce, Unattempted
    <2>3. CASE CloseDatabase \/ Crash \/ ShutdownFails \/ CancelAll
      <3>1. run'[k] \in LiveRun => run[k] \in LiveRun
        BY <2>3 DEF CloseDatabase, Crash, ShutdownFails, CancelAll, ForgetProcess,
           CancelledRuns, LiveRun
      <3>2. task[k] \in {"holding", "over"} => task'[k] \in {"holding", "over"}
        BY <2>w, <2>3 DEF CloseDatabase, Crash, ShutdownFails, CancelAll, ForgetProcess
      <3> QED  BY <3>1, <3>2 DEF BegunOnce
    <2>4. CASE Submit
      BY <2>t, <2>w, <2>4 DEF Submit, BegunOnce
    <2>5. ASSUME ~ \E j \in Jobs : \/ RunNext(j) \/ RunFails(j)
                                   \/ AcquirePermit(j) \/ ReturnPermit(j),
                 ~ (CloseDatabase \/ Crash \/ ShutdownFails \/ CancelAll \/ Submit)
          PROVE  BegunOnce(k)
      <3>1. UNCHANGED <<task, run>>
        BY <1>3, <2>5 DEF Next, StartRecovery, RecoveryNext, RecoverJob, ExpireJob,
           ExpireOpportunity, ListExpiredJobs, ListExpiredOpportunities, FinishRecovery,
           BeginHandoffs, CreateOpportunity, EndScan, JobBecomesLate, OpportunityBecomesLate,
           StopScheduler, vars
      <3> QED  BY <3>1 DEF BegunOnce
    <2> QED  BY <2>1, <2>2, <2>3, <2>4, <2>5
  <1>4. IInv /\ NewIsUnattempted /\ [Next]_vars => \A k \in Jobs : BegunOnce(k)
    BY <1>3
  <1> QED  BY <1>1, <1>2, <1>4, IInvHolds, PTL DEF Spec

(* Level2Scanner.confirm: a stored result is final.  No step, crash or     *)
(* restart replaces it, uncounts an attempt or takes a notification back.  *)
Final(k) ==
  /\ saved[k] # {} => saved'[k] = saved[k]
  /\ attempts'[k] >= attempts[k]
  /\ published[k] => published'[k]

(* Level2Processor and recovery: no step of any job takes back its result, *)
(* its count of attempts or its notification.                              *)
THEOREM ResultsAreFinal == Spec => [][\A k \in Jobs : Final(k)]_vars
  <1>1. ASSUME TypeOK, [Next]_vars, NEW k \in Jobs PROVE Final(k)
    <2> USE DEF TypeOK, database, clock, scan, worker, recovery, rest, Goto, At,
                SetJob, SetOpportunity
    <2>1. ASSUME NEW j \in Jobs, RunNext(j) PROVE Final(k)
      <3>1. CASE SaveConfirmation(j)
        BY <1>1, <3>1 DEF SaveConfirmation, Final
      <3>2. CASE MarkJobRunning(j) \/ FinishJob(j)
        BY <1>1, <3>2 DEF MarkJobRunning, FinishJob, Final
      <3>3. CASE Publish(j)
        BY <1>1, <3>3 DEF Publish, Final
      <3>4. CASE UNCHANGED <<saved, attempts, published>>
        BY <1>1, <3>4 DEF Final
      <3> QED
        BY <2>1, <3>1, <3>2, <3>3, <3>4 DEF RunNext, LoadConfirmation, CheckExpiry,
           MarkOpportunityVerifying, VerifyAmounts, FinishOpportunity,
           RecordConfirmation, MarkJobCancelled, MarkOpportunityCancelled
    <2>2. CASE UNCHANGED <<saved, attempts, published>>
      BY <1>1, <2>2 DEF Final
    <2>3. ASSUME ~ \E j \in Jobs : RunNext(j) PROVE UNCHANGED <<saved, attempts, published>>
      BY <1>1, <2>3 DEF Next, RunFails, AcquirePermit, ReturnPermit, CloseDatabase, Crash,
         ShutdownFails, CancelAll, ForgetProcess, Submit, StartRecovery, RecoveryNext,
         RecoverJob, ExpireJob, ExpireOpportunity, ListExpiredJobs, ListExpiredOpportunities,
         FinishRecovery, BeginHandoffs, CreateOpportunity, EndScan, JobBecomesLate,
         OpportunityBecomesLate, StopScheduler, vars
    <2> QED  BY <2>1, <2>2, <2>3
  <1>2. TypeOK /\ [Next]_vars => \A k \in Jobs : Final(k)
    BY <1>1
  <1> QED  BY <1>2, TypesHold, PTL DEF Spec
=============================================================================
