------------------------------ MODULE Operations ------------------------------
(***************************************************************************)
(* What the operator sees of the running process: the health of the        *)
(* providers, the messages about it and the answers to commands.  The      *)
(* passes of both tasks run in the scheduler loop, one at a time; the      *)
(* requests of the scans and of Level 2 are observed at any moment.  A     *)
(* process may end anywhere: app_metadata stays, the memory does not.      *)
(***************************************************************************)
EXTENDS SystemNotifier, CommandService

CONSTANT
    MaxProcesses   \* bound: how many processes are started

ASSUME ProcessesAssumption == MaxProcesses \in Nat \ {0}

VARIABLES
    phase,         \* "down", "probing", "notifying" or "up"
    processes      \* how many processes were started

life == <<phase, processes>>
vars == <<health, notifications, commands, life>>

Init ==
    /\ HealthInit /\ NotifierInit /\ CommandsInit
    /\ notified = None
    /\ phase = "down" /\ processes = 0

Start ==
    /\ phase = "down" /\ processes < MaxProcesses
    /\ phase' = "probing" /\ processes' = processes + 1
    /\ UNCHANGED <<health, notifications, commands>>

(* The last steps of Application.startup.  A process may start with other  *)
(* options than the one before.                                            *)
Probe ==
    /\ phase = "probing"
    /\ phase' = "notifying"
    /\ \E settings \in UniswapSettings : ProbeProviders(settings)
    /\ UNCHANGED <<notifications, commands, processes>>

Announce ==
    /\ phase = "notifying"
    /\ \E result \in {"sent", "not_sent"} : NotifyStartup(result)
    /\ phase' = "up"
    /\ UNCHANGED <<health, commands, processes>>

(* Everything in memory is gone. *)
Forget ==
    /\ health' = [p \in Providers |-> None]
    /\ reported' = [p \in Providers |-> None]
    /\ told' = [p \in Providers |-> None]
    /\ pass' = None
    /\ handled' = {}
    /\ batch' = Absent
    /\ phase' = "down"
    /\ UNCHANGED <<notified, arrived, offset, taken, processes>>

(* A crash or a shutdown, which cancels what is under way; and an error of *)
(* the start-up, such as one of the mark after the message was sent.       *)
End == phase # "down" /\ Forget

(* A request of the wrapped adapters. *)
Request ==
    /\ phase = "up"
    /\ \E p \in Providers : Observe(p)
    /\ UNCHANGED <<notifications, commands, life>>

LoopIsFree == phase = "up" /\ pass = None /\ batch = Absent

Unchanged == UNCHANGED <<health, commands, life>>

HealthTask == LoopIsFree /\ BeginPass /\ Unchanged

HealthStep ==
    /\ Unchanged
    /\ \/ \E p \in Providers : ObserveSilently(p) \/ Deliver(p) \/ FailToDeliver(p)
       \/ EndPass

Delivered(p) == Deliver(p) /\ Unchanged

CommandTask == LoopIsFree /\ Fetch /\ UNCHANGED <<health, notifications, life>>

CommandStep == (Handle \/ StoreOffset) /\ UNCHANGED <<health, notifications, life>>

NewUpdate == Arrive /\ UNCHANGED <<health, notifications, life>>

Tick == Age /\ UNCHANGED <<health, commands, life>>

Next ==
    \/ Start \/ Probe \/ Announce \/ End
    \/ Request
    \/ HealthTask \/ HealthStep
    \/ CommandTask \/ CommandStep
    \/ NewUpdate
    \/ Tick

(* The loop gives every due task its turn and every step of a task ends.   *)
(* Time passes.  Telegram, asked again and again, takes a message in the   *)
(* end.  The requests, the updates and the end of a process are free.      *)
Fairness ==
    /\ SF_vars(HealthTask) /\ WF_vars(HealthStep) /\ WF_vars(CommandStep)
    /\ WF_vars(Tick)
    /\ \A p \in Providers : SF_vars(Delivered(p))

Spec == Init /\ [][Next]_vars /\ Fairness

(***************************************************************************)
(* Properties.                                                             *)
(***************************************************************************)

TypeOK ==
    /\ health \in [Providers -> Observations \union {None}]
    /\ reported \in [Providers -> Reports \union {None}]
    /\ told \in [Providers -> Messages \union {None}]
    /\ pass \in Passes \union {None}
    /\ notified \in {None} \union 0 .. StartupInterval
    /\ arrived \in 0 .. MaxUpdate
    /\ offset \in {Absent} \union 1 .. MaxUpdate + 1
    /\ handled \subseteq Updates
    /\ batch \in Batches \union {Absent}
    /\ taken \in [Updates -> 0 .. MaxProcesses]
    /\ phase \in {"down", "probing", "notifying", "up"}
    /\ processes \in 0 .. MaxProcesses

(* Across crashes, failed polls and failed writes of the offset: no        *)
(* command is passed over, because the offset is only ever behind what was *)
(* handled; and a command is handled again only by a later process.        *)
CommandsAreTakenInTurn ==
    /\ \A u \in Updates : offset # Absent /\ u < offset => taken[u] > 0
    /\ \A u \in Updates : taken[u] <= processes
    /\ \A u, v \in Updates : u < v /\ taken[v] > 0 => taken[u] > 0

(* Two acknowledged messages of one process in a row that say the same of  *)
(* a provider are at least RepeatInterval apart, from the start of a pass  *)
(* to the start of a pass (as _Reported stamps them), whatever messages    *)
(* were lost and whatever the provider did in between.                     *)
RemindersAreSpaced == \A p \in Providers : told[p] # None => ~told[p].early

(* When a provider stays in one state, the operator learns of it: of a bad *)
(* state in any case, even if the start-up already counted it as reported  *)
(* and its message was lost; of a good one if the last word was bad.       *)
(* Without notifications.system.health nothing is promised.                *)
OperatorIsUpToDate ==
    HealthMessages => \A p \in Providers :
        /\ \A status \in {"degraded", "unavailable"} :
              <>[](phase = "up" /\ Known(p).status = status)
                  => <>[](told[p] # None /\ told[p].status = status)
        /\ <>[](phase = "up" /\ Ok(Known(p).status))
                  => <>[](told[p] = None \/ Ok(told[p].status))
================================================================================
