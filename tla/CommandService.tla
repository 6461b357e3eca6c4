---------------------------- MODULE CommandService ----------------------------
(***************************************************************************)
(* services/commands/service.py with its update source: getUpdates from    *)
(* the stored offset on, one update after the other, and the new offset at *)
(* the end.  The ids that were handled are kept in memory, the offset in   *)
(* app_metadata.                                                           *)
(***************************************************************************)
EXTENDS Integers, Sequences

CONSTANTS
    Absent,      \* nothing stored, nothing under way
    MaxUpdate,   \* bound: updates are numbered 1 .. MaxUpdate
    BatchSize,   \* CommandService.batch_size
    Malformed    \* the updates that _parse_update refuses

ASSUME UpdatesAssumption == MaxUpdate \in Nat /\ BatchSize \in Nat \ {0}

VARIABLES
    arrived,     \* the last update that Telegram has
    offset,      \* app_metadata: Absent, or the next update to ask for
    handled,     \* handled_update_ids
    batch,       \* poll_once: Absent, or [left, highest]
    taken        \* how often an update was handled, over all processes

commands == <<arrived, offset, handled, batch, taken>>

Updates == 1 .. MaxUpdate
Batches == [left : Seq(Updates), highest : {Absent} \union 0 .. MaxUpdate]

ASSUME AbsentAssumption == Absent \notin Nat \union Batches

CommandsInit ==
    /\ arrived = 0 /\ offset = Absent
    /\ handled = {} /\ batch = Absent
    /\ taken = [u \in Updates |-> 0]

(* Telegram keeps an update until a later one is asked for.                *)
Arrive ==
    /\ arrived < MaxUpdate
    /\ arrived' = arrived + 1
    /\ UNCHANGED <<offset, handled, batch, taken>>

From(n) == [i \in 1 .. arrived - n + 1 |-> n + i - 1]
Pending == LET all == From(IF offset = Absent THEN 1 ELSE offset)
           IN  SubSeq(all, 1, IF Len(all) > BatchSize THEN BatchSize ELSE Len(all))

(* Mutant: the offset is moved as soon as the batch is there.              *)
FetchAndMove ==
    /\ batch = Absent
    /\ \A i \in DOMAIN Pending : Pending[i] \notin Malformed
    /\ batch' = [left |-> Pending, highest |-> IF offset = Absent THEN Absent ELSE offset - 1]
    /\ offset' = IF Pending = <<>> THEN offset ELSE Pending[Len(Pending)] + 1
    /\ UNCHANGED <<arrived, handled, taken>>

(* fetch: one malformed update fails the whole batch.  An error ends the   *)
(* poll and leaves everything as it was.                                   *)
Fetch ==
    /\ batch = Absent
    /\ \A i \in DOMAIN Pending : Pending[i] \notin Malformed
    /\ batch' = [left |-> Pending, highest |-> IF offset = Absent THEN Absent ELSE offset - 1]
    /\ UNCHANGED <<arrived, offset, handled, taken>>

(* _handle.  The id is remembered first; errors of the router, of the      *)
(* callback and of the reply end with the update, any other exception      *)
(* leaves poll_once.                                                       *)
Handle ==
    /\ batch # Absent /\ batch.left # <<>>
    /\ LET u == Head(batch.left)
       IN  /\ handled' = handled \union {u}
           /\ taken' = IF u \in handled THEN taken ELSE [taken EXCEPT ![u] = @ + 1]
           /\ \/ batch' = [left |-> Tail(batch.left), highest |-> u]
              \/ u \notin handled /\ batch' = Absent
    /\ UNCHANGED <<arrived, offset>>

(* _store_offset, whose DatabaseError leaves poll_once too.                *)
StoreOffset ==
    /\ batch # Absent /\ batch.left = <<>>
    /\ batch' = Absent
    /\ \/ offset' = IF batch.highest = Absent THEN offset ELSE batch.highest + 1
       \/ batch.highest # Absent /\ UNCHANGED offset
    /\ UNCHANGED <<arrived, handled, taken>>
================================================================================
