---------------------------- MODULE PriorityGate ----------------------------
(***************************************************************************)
(* PriorityGate: a semaphore whose waiters are kept in a heap, the highest *)
(* priority first and in the order of creation within a priority.  A       *)
(* released slot is not returned to a pool but handed to the first waiter: *)
(* release resolves the waiter's future, and the waiter resumes later.     *)
(* Between the two its wait may time out or be cancelled, and a waiter     *)
(* that was interrupted stays in the heap until it resumes.                *)
(*                                                                         *)
(* A request passes several gates (ResourceManager), so every piece of     *)
(* state is kept per gate.                                                 *)
(***************************************************************************)
EXTENDS Integers, FiniteSetsExt

CONSTANTS
  Requests,   (* the requests that may be under way at once                   *)
  Nobody,     (* not a request                                                *)
  Gates,      (* the gates, by name                                           *)
  Limit,      (* the slots of every gate                                      *)
  Capacity,   (* the length of the heap of every gate (queue_capacity)        *)
  Rank        (* the rank of the priority of every request, 0 is the highest  *)

ASSUME GateAssumption ==
  /\ IsFiniteSet(Requests)
  /\ Nobody \notin Requests
  /\ Limit \in [Gates -> Nat \ {0}]
  /\ Capacity \in Nat \ {0}
  /\ Rank \in [Requests -> Nat]

VARIABLES
  active,     (* _active: the slots in use or handed over                     *)
  heap,       (* the requests with a waiter in _waiters                       *)
  granted,    (* the requests whose future is resolved and which have not     *)
              (* resumed                                                      *)
  held,       (* the gates every request has acquired and not released        *)
  older       (* the requests under way with an earlier created_at            *)

gateVars == <<active, heap, granted, held, older>>

GateTypeOK ==
  /\ active \in [Gates -> Nat]
  /\ heap \in [Gates -> SUBSET Requests]
  /\ granted \in [Gates -> SUBSET Requests]
  /\ held \in [Requests -> SUBSET Gates]
  /\ older \in [Requests -> SUBSET Requests]

GateInit ==
  /\ active = [g \in Gates |-> 0]
  /\ heap = [g \in Gates |-> {}]
  /\ granted = [g \in Gates |-> {}]
  /\ held = [r \in Requests |-> {}]
  /\ older = [r \in Requests |-> {}]

(* acquire takes a slot at once only when nobody waits. *)
Free(g) == active[g] < Limit[g] /\ heap[g] = {}

Full(g) == Cardinality(heap[g]) >= Capacity

(* The order of the heap, ordering_key. *)
Before(r, s) == Rank[r] < Rank[s] \/ (Rank[r] = Rank[s] /\ r \in older[s])

(* Mutant: the oldest waiter is served, whatever its priority. *)
ForemostByAge(g) == {r \in heap[g] : \A s \in heap[g] : s \notin older[r]}

Foremost(g) == {r \in heap[g] : \A s \in heap[g] : ~ Before(s, r)}

(* Mutant: release only counts the slot back and wakes nobody. *)
HeirsNone(released) == {[g \in released |-> Nobody]}

(* For every released gate, the waiter that release hands the slot to. *)
Heirs(released) ==
  {heir \in [released -> Requests \union {Nobody}] :
     \A g \in released :
       IF heap[g] = {} THEN heir[g] = Nobody ELSE heir[g] \in Foremost(g)}

(* Mutant: a waiter that leaves does not pass on the slot it was given. *)
GivenBackNothing(r) == held[r]

(* The slots a request gives back when it leaves: the gates it has         *)
(* acquired, and the slot it was handed and never collected (_discard).    *)
GivenBack(r) == held[r] \union {g \in Gates : r \in granted[g]}

(* The request leaves: its waiter is discarded and its slots are released. *)
(* This is one step of the event loop, without an await.                   *)
Depart(r) ==
  LET released == GivenBack(r) IN
  \E heir \in Heirs(released) :
    /\ active' = [g \in Gates |->
                    IF g \in released /\ heir[g] = Nobody
                    THEN Max({0, active[g] - 1}) ELSE active[g]]
    /\ heap' = [g \in Gates |->
                  IF g \in released THEN heap[g] \ {heir[g], r} ELSE heap[g] \ {r}]
    /\ granted' = [g \in Gates |->
                     IF g \in released /\ heir[g] # Nobody
                     THEN (granted[g] \ {r}) \union {heir[g]}
                     ELSE granted[g] \ {r}]
    /\ held' = [held EXCEPT ![r] = {}]
    /\ older' = [s \in Requests |-> IF s = r THEN {} ELSE older[s] \ {r}]

(* The request collects the slots it was handed and takes one of every     *)
(* gate of `taken`, all of them free.                                      *)
Take(r, taken) ==
  /\ active' = [g \in Gates |-> IF g \in taken THEN active[g] + 1 ELSE active[g]]
  /\ granted' = [g \in Gates |-> granted[g] \ {r}]
  /\ held' = [held EXCEPT ![r] = GivenBack(r) \union taken]

(* The request joins the heap of a gate. *)
Enqueue(r, g) == heap' = [heap EXCEPT ![g] = @ \union {r}]
=============================================================================
