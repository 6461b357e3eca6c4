---------------------------- MODULE InFlightRegistry ----------------------------
(***************************************************************************)
(* services/resources/dedup.py: equal requests that overlap in time are    *)
(* sent once.  The first caller of a key creates the task and the entry;   *)
(* every later caller awaits the same task, shielded.  A caller that is    *)
(* cancelled leaves the task running; the creator takes the entry away.    *)
(*                                                                         *)
(* A registry g has four fields: inFlight, the caller whose task serves a  *)
(* key; task, the key and the state of the task a caller created, until it *)
(* ends; awaiting, the caller whose task this caller awaits; answer, what  *)
(* that task returned or raised.                                           *)
(***************************************************************************)
EXTENDS Integers, FiniteSets

CONSTANTS
    Callers,          \* coroutines that share the registry
    Keys,             \* deduplication keys
    None              \* "no entry", "no task", "no answer"

TaskRecords == [key : Keys, state : {"created", "running"}]

ASSUME RegistryAssumption == None \notin Callers \union TaskRecords \union {"ok", "error"}

VARIABLE registry

EmptyRegistry ==
    [inFlight |-> [k \in Keys |-> None], task |-> [c \in Callers |-> None],
     awaiting |-> [c \in Callers |-> None], answer |-> [c \in Callers |-> None]]

(* The entry exists: its task is awaited.  A task that ended while its     *)
(* creator has not resumed answers at once.                                *)
Join(g, c, k) ==
    [g EXCEPT !.awaiting[c] = g.inFlight[k], !.answer[c] = g.answer[g.inFlight[k]]]

(* ensure_future: the task exists and has not run a step yet.              *)
Launch(g, c, k) ==
    [g EXCEPT !.inFlight[k] = c, !.awaiting[c] = c,
              !.task[c] = [key |-> k, state |-> "created"]]

(* Mutant: the entry is written and never looked up.                       *)
RunWithoutLookup(g, c, k) == Launch(g, c, k)

Run(g, c, k) == IF g.inFlight[k] = None THEN Launch(g, c, k) ELSE Join(g, c, k)

(* The finally clause, after an answer and after a cancellation: an entry  *)
(* is removed only by its creator.  The shield keeps the task.             *)
Leave(g, c) ==
    [g EXCEPT !.awaiting[c] = None, !.answer[c] = None,
              !.inFlight = [k \in Keys |-> IF g.inFlight[k] = c THEN None ELSE g.inFlight[k]]]

TaskStarts(c) ==
    /\ registry.task[c] # None /\ registry.task[c].state = "created"
    /\ registry' = [registry EXCEPT !.task[c].state = "running"]

(* The result or the exception reaches everybody who awaits the task.      *)
TaskEnds(c, result) ==
    /\ registry.task[c] # None /\ registry.task[c].state = "running"
    /\ registry' = [registry EXCEPT
           !.task[c] = None,
           !.answer = [d \in Callers |-> IF registry.awaiting[d] = c THEN result
                                         ELSE registry.answer[d]]]

-----------------------------------------------------------------------------
(* An entry never outlives its creator's wait: an entry that nobody        *)
(* removes would answer every later caller of the key with an old result   *)
(* (the finally clause of InFlightRegistry.run).                           *)
EntryIsAwaited ==
    \A k \in Keys :
        LET c == registry.inFlight[k] IN c # None => registry.awaiting[c] = c

(* Two requests of one key are under way together only when the creator of *)
(* one of them was cancelled and left its task running: the price of the   *)
(* finally clause, and the only case in which a request is sent twice.     *)
OneTaskPerKey ==
    \A c, d \in Callers :
        /\ c # d
        /\ registry.task[c] # None /\ registry.task[d] # None
        /\ registry.task[c].key = registry.task[d].key
        => registry.awaiting[c] # c \/ registry.awaiting[d] # d
================================================================================
