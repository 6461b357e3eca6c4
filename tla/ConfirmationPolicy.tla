------------------------- MODULE ConfirmationPolicy -------------------------
(***************************************************************************)
(* The statuses of the Level 2 entities and the policy that folds the      *)
(* verdicts on the amounts of one opportunity into the status of its job   *)
(* and of the opportunity itself.  The policy looks only at which verdicts *)
(* occur, so the amounts are represented by the set of their verdicts; the *)
(* empty set stands for an empty result tuple.                             *)
(***************************************************************************)

JobStatus ==
  {"queued", "running", "confirmed", "rejected", "failed", "expired", "cancelled"}

(* Job statuses no operation is meant to leave. *)
TerminalJob == {"confirmed", "rejected", "failed", "expired", "cancelled"}

OpportunityStatus ==
  {"created", "verifying", "confirmed", "partial", "unprofitable",
   "route_unavailable", "expired", "failed", "cancelled",
   "notified", "notified_partial", "notified_failed"}

AmountStatus ==
  {"verified_profitable", "verified_unprofitable", "unknown", "failed",
   "expired", "route_unavailable"}

(* A definite negative verdict on an amount, as opposed to a failed check. *)
DefinitiveNegative == {"verified_unprofitable", "route_unavailable"}

JobStatusFor(verdicts) ==
  IF verdicts = {} THEN "failed"
  ELSE IF "verified_profitable" \in verdicts THEN "confirmed"
  ELSE IF verdicts = {"expired"} THEN "expired"
  ELSE IF verdicts \subseteq DefinitiveNegative THEN "rejected"
  ELSE "failed"

OpportunityStatusFor(verdicts) ==
  IF verdicts = {} THEN "failed"
  ELSE IF verdicts = {"verified_profitable"} THEN "confirmed"
  ELSE IF "verified_profitable" \in verdicts THEN "partial"
  ELSE IF verdicts = {"verified_unprofitable"} THEN "unprofitable"
  ELSE IF verdicts = {"route_unavailable"} THEN "route_unavailable"
  ELSE IF verdicts = {"expired"} THEN "expired"
  ELSE IF verdicts \subseteq DefinitiveNegative THEN "unprofitable"
  ELSE "failed"

(* Opportunity statuses that are delivered to the notification channel. *)
Notifiable == {"confirmed", "partial"}
=============================================================================
