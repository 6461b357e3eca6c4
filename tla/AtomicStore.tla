------------------------------ MODULE AtomicStore ------------------------------
(***************************************************************************)
(* What Database.transaction() promises its callers, and no more: an       *)
(* operation takes effect as a whole or not at all.  `applied' is the set  *)
(* of operations whose effect is durable, `answer' what their callers were *)
(* told.  An operation that was cancelled may still take effect later, one *)
(* whose process stopped may have taken effect, and neither its caller     *)
(* knows; one that failed never does.                                      *)
(***************************************************************************)
CONSTANT Ops

VARIABLES applied, answer

Answers == {"none", "ok", "failed", "cancelled", "lost"}

Init ==
    /\ applied = {}
    /\ answer = [o \in Ops |-> "none"]

(* The effect of an operation becomes durable, all of it in one step.      *)
Apply(o) ==
    /\ o \notin applied
    /\ answer[o] \in {"none", "cancelled"}
    /\ applied' = applied \union {o}
    /\ UNCHANGED answer

(* The caller learns the end of its operation.                             *)
Answer(o, a) ==
    /\ answer[o] = "none"
    /\ a = "ok" => o \in applied
    /\ a = "failed" => o \notin applied
    /\ answer' = [answer EXCEPT ![o] = a]
    /\ UNCHANGED applied

(* The process stops: the callers under way learn nothing, and an          *)
(* operation that left no effect may be asked for again.                   *)
Stop ==
    /\ answer' \in [Ops -> Answers]
    /\ \A o \in Ops :
          \/ answer'[o] = answer[o]
          \/ answer[o] = "none" /\ answer'[o] = "lost"
          \/ o \notin applied /\ answer'[o] = "none"
    /\ UNCHANGED applied

Next ==
    \/ \E o \in Ops : Apply(o)
    \/ \E o \in Ops, a \in Answers \ {"none"} : Answer(o, a)
    \/ Stop

Spec == Init /\ [][Next]_<<applied, answer>>
================================================================================
