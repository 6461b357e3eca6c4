---------------------------- MODULE SystemNotifier ----------------------------
(***************************************************************************)
(* services/notifications/system.py: the messages about the state of the   *)
(* process.  A pass of notify_health works on the snapshot and the clock   *)
(* of its start, while requests go on and change the health.  Ages count   *)
(* from the pass that sent the message and stop where they no longer       *)
(* matter.  Without notifications.system.enabled there is no notifier.     *)
(***************************************************************************)
EXTENDS HealthMonitor

CONSTANTS
    StartupMessages,  \* notifications.system.startup
    HealthMessages,   \* notifications.system.health
    RepeatInterval,   \* notifications.system.repeat_interval_seconds
    StartupInterval,  \* notifications.system.startup_interval_seconds
    PassLimit         \* the longest that one pass may take

ASSUME SwitchesAssumption == StartupMessages \in BOOLEAN /\ HealthMessages \in BOOLEAN
ASSUME IntervalsAssumption ==
    /\ RepeatInterval \in Nat \ {0}
    /\ StartupInterval \in Nat
    /\ PassLimit \in Nat

VARIABLES
    reported,  \* _reported: None, or [status, age]
    pass,      \* the pass under way: None, or [snapshot, left, age]
    notified,  \* app_metadata: None, or the age of the last startup message
    told       \* the last acknowledged message about a provider: None, or
               \* [status, age, early]

Reports == [status : ProviderStatus, age : 0 .. RepeatInterval + PassLimit]
Messages == [status : ProviderStatus, age : 0 .. RepeatInterval + PassLimit, early : BOOLEAN]
Passes == [snapshot : [Providers -> Observations \union {None}], left : SUBSET Providers,
           age : 0 .. PassLimit]

ASSUME NoneAssumption == None \notin Nat \union Observations \union Reports \union Messages \union Passes

notifications == <<reported, pass, notified, told>>

NotifierInit ==
    /\ reported = [p \in Providers |-> None]
    /\ told = [p \in Providers |-> None]
    /\ pass = None

Ok(status) == status \in {"healthy", "recovering"}

(* A message about p is acknowledged; early: the message before it said    *)
(* the same, less than the interval ago.                                   *)
Told(p, status, age) ==
    [status |-> status, age |-> age,
     early |-> /\ told[p] # None
               /\ told[p].status = status
               /\ told[p].age - age < RepeatInterval]

(***************************************************************************)
(* notify_startup.                                                         *)
(***************************************************************************)
StartupAllowed ==
    StartupInterval = 0 \/ notified = None \/ notified >= StartupInterval

(* _prime comes before the message, the mark of the message after it.      *)
Prime == reported' = [p \in Providers |->
            IF health[p] = None THEN reported[p] ELSE [status |-> health[p].status, age |-> 0]]

NotifyStartup(result) ==
    /\ UNCHANGED pass
    /\ IF StartupMessages /\ StartupAllowed
       THEN /\ Prime
            /\ told' = IF result = "not_sent" THEN told
                       ELSE [p \in Providers |-> Told(p, Known(p).status, 0)]
            /\ notified' = IF result = "sent" THEN 0 ELSE notified
       ELSE result = "sent" /\ UNCHANGED <<reported, told, notified>>

(***************************************************************************)
(* notify_health.                                                          *)
(***************************************************************************)
BeginPass ==
    /\ HealthMessages /\ pass = None
    /\ pass' = [snapshot |-> health, left |-> {p \in Providers : health[p] # None}, age |-> 0]
    /\ UNCHANGED <<reported, notified, told>>

(* Mutant: a message that is due again is sent at every pass.              *)
RepeatAlwaysDue(p) == TRUE

RepeatDue(p) == reported[p].age - pass.age >= RepeatInterval

(* Mutant: a state that was reported once is not reported again.           *)
WantsMessageOnce(p) ==
    LET status == pass.snapshot[p].status
    IN  IF reported[p] = None THEN ~Ok(status) ELSE reported[p].status # status

WantsMessage(p) ==
    LET status == pass.snapshot[p].status
    IN  \/ reported[p] = None /\ ~Ok(status)
        \/ reported[p] # None /\ reported[p].status # status
        \/ reported[p] # None /\ reported[p].status = status /\ ~Ok(status) /\ RepeatDue(p)

(* _observe of a provider that gives no message: a provider that works is  *)
(* remembered when it is seen for the first time.                          *)
ObserveSilently(p) ==
    /\ pass # None /\ p \in pass.left /\ ~WantsMessage(p)
    /\ pass' = [pass EXCEPT !.left = @ \ {p}]
    /\ reported' = IF reported[p] = None
                   THEN [reported EXCEPT ![p] =
                            [status |-> pass.snapshot[p].status, age |-> pass.age]]
                   ELSE reported
    /\ UNCHANGED <<notified, told>>

(* _send: only an acknowledged message is remembered.                      *)
Deliver(p) ==
    /\ pass # None /\ p \in pass.left /\ WantsMessage(p)
    /\ pass' = [pass EXCEPT !.left = @ \ {p}]
    /\ reported' = [reported EXCEPT ![p] =
                       [status |-> pass.snapshot[p].status, age |-> pass.age]]
    /\ told' = [told EXCEPT ![p] = Told(p, pass.snapshot[p].status, pass.age)]
    /\ UNCHANGED notified

FailToDeliver(p) ==
    /\ pass # None /\ p \in pass.left /\ WantsMessage(p)
    /\ pass' = [pass EXCEPT !.left = @ \ {p}]
    /\ UNCHANGED <<reported, notified, told>>

EndPass ==
    /\ pass # None /\ pass.left = {}
    /\ pass' = None
    /\ UNCHANGED <<reported, notified, told>>

(***************************************************************************)
(* The clock: one unit for everything that is remembered.                  *)
(***************************************************************************)
Older(entry) == [entry EXCEPT !.age = CountedTo(RepeatInterval + PassLimit, @ + 1)]

Age ==
    /\ pass # None => pass.age < PassLimit
    /\ pass' = IF pass = None THEN None ELSE [pass EXCEPT !.age = @ + 1]
    /\ reported' = [p \in Providers |-> IF reported[p] = None THEN None ELSE Older(reported[p])]
    /\ told' = [p \in Providers |-> IF told[p] = None THEN None ELSE Older(told[p])]
    /\ notified' = IF notified = None THEN None ELSE CountedTo(StartupInterval, notified + 1)
================================================================================
