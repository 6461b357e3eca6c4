---------------------------- MODULE JobLifecycle ----------------------------
(***************************************************************************)
(* What the Level 2 pipeline promises about one job and its opportunity,   *)
(* whatever the interleaving, the failures and the crashes: the statuses   *)
(* move only along these edges, an opportunity gets a verdict only after   *)
(* its job got the matching one, and a notification is queued only for an  *)
(* opportunity with a positive verdict.                                    *)
(***************************************************************************)
EXTENDS ConfirmationPolicy

CONSTANTS Jobs

VARIABLES job, opp, published

vars == <<job, opp, published>>

Init ==
  /\ job = [k \in Jobs |-> "none"]
  /\ opp = [k \in Jobs |-> "none"]
  /\ published = [k \in Jobs |-> FALSE]

(* The opportunity and its job appear together. *)
Create(k) ==
  /\ job[k] = "none"
  /\ opp[k] = "none"
  /\ job' = [job EXCEPT ![k] = "queued"]
  /\ opp' = [opp EXCEPT ![k] = "created"]
  /\ UNCHANGED published

JobEdges ==
  {<<"queued", "running">>, <<"queued", "expired">>, <<"running", "queued">>,
   <<"running", "expired">>, <<"running", "confirmed">>,
   <<"running", "rejected">>, <<"running", "failed">>, <<"running", "cancelled">>}

MoveJob(k) ==
  /\ \E to \in JobStatus :
       /\ <<job[k], to>> \in JobEdges
       /\ job' = [job EXCEPT ![k] = to]
  /\ UNCHANGED <<opp, published>>

(* Verification begins only on a job that is running. *)
BeginVerification(k) ==
  /\ opp[k] = "created"
  /\ job[k] = "running"
  /\ opp' = [opp EXCEPT ![k] = "verifying"]
  /\ UNCHANGED <<job, published>>

MatchingVerdict(jobStatus) ==
  CASE jobStatus = "confirmed" -> {"confirmed", "partial"}
    [] jobStatus = "rejected"  -> {"unprofitable", "route_unavailable"}
    [] jobStatus = "failed"    -> {"failed"}
    [] jobStatus = "expired"   -> {"expired"}
    [] jobStatus = "cancelled" -> {"cancelled"}
    [] OTHER                   -> {}

ReceiveVerdict(k) ==
  /\ opp[k] \in {"created", "verifying"}
  /\ \E verdict \in MatchingVerdict(job[k]) : opp' = [opp EXCEPT ![k] = verdict]
  /\ UNCHANGED <<job, published>>

(* An opportunity without a verdict may run out of time on its own. *)
ExpireOpportunity(k) ==
  /\ opp[k] \in {"created", "verifying"}
  /\ opp' = [opp EXCEPT ![k] = "expired"]
  /\ UNCHANGED <<job, published>>

Notify(k) ==
  /\ opp[k] \in Notifiable
  /\ ~ published[k]
  /\ published' = [published EXCEPT ![k] = TRUE]
  /\ UNCHANGED <<job, opp>>

Next ==
  \E k \in Jobs :
    \/ Create(k)
    \/ MoveJob(k)
    \/ BeginVerification(k)
    \/ ReceiveVerdict(k)
    \/ ExpireOpportunity(k)
    \/ Notify(k)

Spec == Init /\ [][Next]_vars
=============================================================================
