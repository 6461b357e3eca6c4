-------------------------------- MODULE Database --------------------------------
(***************************************************************************)
(* infrastructure/db/connection.py: one SQLite connection shared by every  *)
(* coroutine of the process.  Writes go through one asyncio lock; reads do *)
(* not.  A command is handed to the thread of the connection (aiosqlite),  *)
(* which executes the commands in the order they were handed over, also    *)
(* those whose caller was cancelled in the meantime.                       *)
(*                                                                         *)
(* An operation is one call of a repository:                               *)
(*   Writers   statements in one transaction(), e.g. create_with_job, a    *)
(*             migration, or next_value of an id sequence;                 *)
(*   Singles   one statement through execute(), e.g. an update of a status *)
(*   Readers   two reads without the lock, a row and then its children,    *)
(*             e.g. SqliteOpportunityRepository.get.                       *)
(* A row is <<operation that writes it, number of its statement>>.         *)
(***************************************************************************)
EXTENDS Naturals, Sequences, FiniteSets, SequencesExt

CONSTANTS
    Writers, Singles, Readers,
    Numbered,      \* the writers that are calls of next_value
    Migrations,    \* the writers that are migrations, in the order of upgrade()
    Statements,    \* [Writers -> Nat \ {0}]: statements of the transaction
    Subject,       \* [Readers -> Writers]: whose rows a reader reads
    MaxLockRetries,
    MaxFaults,     \* bound: foreign locks, refused statements, cancellations and stops
    None

Ops == Writers \union Singles \union Readers

ASSUME DatabaseAssumption ==
    /\ MaxLockRetries \in Nat \ {0}
    /\ MaxFaults \in Nat
    /\ Statements \in [Writers -> Nat \ {0}]
    /\ Subject \in [Readers -> Writers]
    /\ Numbered \subseteq Writers
    /\ Migrations \in Seq(Writers)
    /\ Writers \cap Singles = {}
    /\ Writers \cap Readers = {}
    /\ Singles \cap Readers = {}
    /\ None \notin Ops

VARIABLES
    lock,        \* the holder of _write_lock
    waiting,     \* the coroutines waiting for it, in order
    queue,       \* commands handed to the connection's thread
    open,        \* SQLite has an open transaction on the connection
    disk,        \* committed rows
    view,        \* rows the connection sees
    pc,          \* what an operation awaits
    step,        \* statements of its transaction already done
    tries,       \* attempts of the command under _execute_with_retry
    reply,       \* the answer of the thread, until the coroutine resumes
    outcome,     \* how the operation ends
    seen,        \* what a reader read, the number a next_value read
    faults       \* faults so far

coroutine == <<lock, waiting, pc, step, tries, outcome, seen>>
sqlite == <<open, disk, view>>
vars == <<lock, waiting, queue, open, disk, view, pc, step, tries, reply, outcome, seen, faults>>

Rows == [o \in Ops |->
    IF o \in Writers THEN {<<o, i>> : i \in 1..Statements[o]} ELSE {<<o, 1>>}]

Awaiting == {"begin", "statement", "number", "commit", "rollback", "execute", "row", "children"}
Phases == Awaiting \union {"idle", "lock", "sleep", "done"}

Replies == {"none", "ok", "error", "locked"}
Outcomes == {"none", "ok", "failed", "cancelled", "lost"}
AllRows == UNION {Rows[o] : o \in Ops}

(* The rows of the id sequence: next_value adds one and counts them.       *)
Numbers(rows) == {r \in rows : r[1] \in Numbered}

-----------------------------------------------------------------------------
Init ==
    /\ lock = None
    /\ waiting = << >>
    /\ queue = << >>
    /\ open = FALSE
    /\ disk = {}
    /\ view = {}
    /\ pc = [o \in Ops |-> "idle"]
    /\ step = [o \in Ops |-> 0]
    /\ tries = [o \in Ops |-> 0]
    /\ reply = [o \in Ops |-> "none"]
    /\ outcome = [o \in Ops |-> "none"]
    /\ seen = [o \in Ops |-> {}]
    /\ faults = 0

Applied(o) == Rows[o] \subseteq disk

(* upgrade() applies the missing migrations in order before anything else  *)
(* uses the database; a migration that fails ends the start.               *)
MayCall(o) ==
    \A i \in DOMAIN Migrations :
        \/ Applied(Migrations[i])
        \/ o = Migrations[i] /\ \A j \in 1..(i - 1) : Applied(Migrations[j])
        \/ \E j \in 1..(i - 1) : o = Migrations[j]

(* What the operation does next, with a command to the thread.             *)
Submit(o, c) ==
    /\ queue' = Append(queue, [op |-> o, cmd |-> c, part |-> step[o] + 1])
    /\ pc' = [pc EXCEPT ![o] = c]

(* The coroutine is gone, and its local variables with it.                 *)
Finish(o, how) ==
    /\ pc' = [pc EXCEPT ![o] = "done"]
    /\ outcome' = [outcome EXCEPT ![o] = how]
    /\ step' = [step EXCEPT ![o] = 0]
    /\ tries' = [tries EXCEPT ![o] = 0]
    /\ seen' = [seen EXCEPT ![o] = IF o \in Numbered /\ how = "ok" THEN @ ELSE {}]

(* Database.execute / transaction: wait for the lock. fetch_*: do not.     *)
Call(o) ==
    /\ pc[o] = "idle"
    /\ MayCall(o)
    /\ IF o \in Readers
       THEN Submit(o, "row") /\ UNCHANGED waiting
       ELSE /\ pc' = [pc EXCEPT ![o] = "lock"]
            /\ waiting' = Append(waiting, o)
            /\ UNCHANGED queue
    /\ UNCHANGED <<lock, step, tries, reply, outcome, seen, faults, sqlite>>

(* Mutant: the statements of a migration run without a transaction.        *)
EnterWithoutBegin(o) ==
    /\ lock = None
    /\ pc[o] = "lock"
    /\ waiting # << >> /\ Head(waiting) = o
    /\ lock' = o
    /\ waiting' = Tail(waiting)
    /\ Submit(o, IF o \in Range(Migrations) THEN "statement"
                 ELSE IF o \in Writers THEN "begin" ELSE "execute")
    /\ UNCHANGED <<step, tries, reply, outcome, seen, faults, sqlite>>

(* The lock goes to the first waiter: BEGIN IMMEDIATE or the statement.    *)
Enter(o) ==
    /\ lock = None
    /\ pc[o] = "lock"
    /\ waiting # << >> /\ Head(waiting) = o
    /\ lock' = o
    /\ waiting' = Tail(waiting)
    /\ Submit(o, IF o \in Writers THEN "begin" ELSE "execute")
    /\ UNCHANGED <<step, tries, reply, outcome, seen, faults, sqlite>>
-----------------------------------------------------------------------------
(* The environment interferes: counted, to bound the model.                *)
Fault ==
    /\ faults < MaxFaults
    /\ faults' = faults + 1

(* The thread of the connection executes the first command; its answer is  *)
(* for the coroutine that still awaits it.                                 *)
Serve(c, answer) ==
    /\ queue' = Tail(queue)
    /\ reply' = IF pc[c.op] = c.cmd THEN [reply EXCEPT ![c.op] = answer] ELSE reply
    /\ UNCHANGED <<lock, waiting, pc, step, tries, outcome>>

(* Another process holds the database: only a command that has to take the *)
(* write lock of SQLite can meet it.                                       *)
ServeLocked(c) ==
    /\ c.cmd \in {"begin", "execute"}
    /\ ~open
    /\ Fault
    /\ Serve(c, "locked")
    /\ UNCHANGED <<seen, sqlite>>

(* BEGIN inside a transaction is an error of SQLite.                       *)
ServeBegin(c) ==
    /\ c.cmd = "begin"
    /\ Serve(c, IF open THEN "error" ELSE "ok")
    /\ open' = TRUE
    /\ UNCHANGED <<disk, view, seen, faults>>

(* A statement outside a transaction commits itself.                       *)
ServeWrite(c) ==
    /\ c.cmd \in {"statement", "execute"}
    /\ Serve(c, "ok")
    /\ view' = view \union {<<c.op, c.part>>}
    /\ disk' = IF open THEN disk ELSE disk \union {<<c.op, c.part>>}
    /\ UNCHANGED <<open, seen, faults>>

(* A constraint refuses the statement.                                     *)
ServeRefused(c) ==
    /\ c.cmd \in {"statement", "execute"}
    /\ Fault
    /\ Serve(c, "error")
    /\ UNCHANGED <<seen, sqlite>>

ServeCommit(c) ==
    /\ c.cmd = "commit"
    /\ Serve(c, IF open THEN "ok" ELSE "error")
    /\ open' = FALSE
    /\ disk' = view
    /\ UNCHANGED <<view, seen, faults>>

ServeRollback(c) ==
    /\ c.cmd = "rollback"
    /\ Serve(c, IF open THEN "ok" ELSE "error")
    /\ open' = FALSE
    /\ view' = disk
    /\ UNCHANGED <<disk, seen, faults>>

(* A read sees what the connection sees, committed or not.                 *)
ServeRead(c) ==
    /\ c.cmd \in {"row", "children", "number"}
    /\ Serve(c, "ok")
    /\ seen' = IF pc[c.op] # c.cmd THEN seen
               ELSE [seen EXCEPT ![c.op] =
                   CASE c.cmd = "number" -> Numbers(view)
                     [] c.cmd = "row" -> view \intersect {<<Subject[c.op], 1>>}
                     [] OTHER -> seen[c.op] \union
                                 (view \intersect Rows[Subject[c.op]])]
    /\ UNCHANGED <<faults, sqlite>>

Thread ==
    /\ queue # << >>
    /\ LET c == Head(queue)
       IN  \/ ServeLocked(c) \/ ServeBegin(c) \/ ServeWrite(c) \/ ServeRefused(c)
           \/ ServeCommit(c) \/ ServeRollback(c) \/ ServeRead(c)
-----------------------------------------------------------------------------
(* The coroutine resumes with the answer of the thread.                    *)
Resumes(o, phase, answer) ==
    /\ pc[o] = phase
    /\ reply[o] = answer
    /\ reply' = [reply EXCEPT ![o] = "none"]

(* The next command of a transaction whose last one succeeded: the         *)
(* statements, for next_value the read of the number, then COMMIT.         *)
Following(o, done) ==
    IF done < Statements[o] THEN "statement"
    ELSE IF o \in Numbered /\ pc[o] # "number" THEN "number" ELSE "commit"

(* Mutant: the commit is handed over but not awaited.                      *)
ProceedWithoutAwaiting(o) ==
    /\ \E phase \in {"begin", "statement", "number"} : Resumes(o, phase, "ok")
    /\ LET done == IF pc[o] = "statement" THEN step[o] + 1 ELSE step[o]
           next == Following(o, done)
       IN  /\ queue' = Append(queue, [op |-> o, cmd |-> next, part |-> done + 1])
           /\ IF next = "commit"
              THEN Finish(o, "ok") /\ lock' = None
              ELSE /\ step' = [step EXCEPT ![o] = done]
                   /\ pc' = [pc EXCEPT ![o] = next]
                   /\ UNCHANGED <<lock, tries, outcome, seen>>
    /\ UNCHANGED <<waiting, faults, sqlite>>

Proceed(o) ==
    /\ \E phase \in {"begin", "statement", "number"} : Resumes(o, phase, "ok")
    /\ LET done == IF pc[o] = "statement" THEN step[o] + 1 ELSE step[o]
           next == Following(o, done)
       IN  /\ step' = [step EXCEPT ![o] = done]
           /\ pc' = [pc EXCEPT ![o] = next]
           /\ queue' = Append(queue, [op |-> o, cmd |-> next, part |-> done + 1])
    /\ UNCHANGED <<lock, waiting, tries, outcome, seen, faults, sqlite>>

(* Mutant: COMMIT in a `finally', whatever the body did.                   *)
RollBackCommitting(o, how) ==
    /\ pc[o] \in {"statement", "number"}
    /\ Submit(o, "commit")
    /\ reply' = [reply EXCEPT ![o] = "none"]
    /\ outcome' = [outcome EXCEPT ![o] = how]
    /\ UNCHANGED <<lock, waiting, step, tries, seen, sqlite>>

(* transaction(): the body raised, so ROLLBACK, then the exception goes on.*)
RollBack(o, how) ==
    /\ pc[o] \in {"statement", "number"}
    /\ Submit(o, "rollback")
    /\ reply' = [reply EXCEPT ![o] = "none"]
    /\ outcome' = [outcome EXCEPT ![o] = how]
    /\ UNCHANGED <<lock, waiting, step, tries, seen, sqlite>>

(* Mutant: the exception ends in transaction() after the ROLLBACK.         *)
StatementFailsSilently(o) ==
    /\ pc[o] = "statement" /\ reply[o] = "error"
    /\ RollBack(o, "ok")
    /\ UNCHANGED faults

StatementFails(o) ==
    /\ pc[o] = "statement" /\ reply[o] = "error"
    /\ RollBack(o, "failed")
    /\ UNCHANGED faults

(* The end of an operation that holds the lock.                            *)
Leave(o, how) ==
    /\ Finish(o, how)
    /\ lock' = None
    /\ UNCHANGED <<waiting, queue, sqlite>>

(* COMMIT answered, ROLLBACK answered, or a statement of execute() did.    *)
Complete(o) ==
    /\ \/ \E answer \in {"ok", "error"} :
              /\ \E phase \in {"commit", "execute"} : Resumes(o, phase, answer)
              /\ Leave(o, IF answer = "ok" THEN "ok" ELSE "failed")
       \/ \E answer \in {"ok", "error"} :
              Resumes(o, "rollback", answer) /\ Leave(o, outcome[o])
       \/ Resumes(o, "begin", "error") /\ Leave(o, "failed")
    /\ UNCHANGED faults

(* _execute_with_retry: a bounded number of attempts, a pause in between.  *)
LockedAnswer(o) ==
    /\ \E phase \in {"begin", "execute"} : Resumes(o, phase, "locked")
    /\ IF tries[o] + 1 < MaxLockRetries
       THEN /\ pc' = [pc EXCEPT ![o] = "sleep"]
            /\ tries' = [tries EXCEPT ![o] = @ + 1]
            /\ UNCHANGED <<lock, waiting, queue, step, outcome, seen, sqlite>>
       ELSE Leave(o, "failed")
    /\ UNCHANGED faults

Retry(o) ==
    /\ pc[o] = "sleep"
    /\ Submit(o, IF o \in Writers THEN "begin" ELSE "execute")
    /\ UNCHANGED <<lock, waiting, step, tries, reply, outcome, seen, faults, sqlite>>

(* get(): no row, no opportunity; a row, then its children; a row without  *)
(* children is an error, database_row_incomplete.                          *)
ReadOn(o) ==
    /\ Resumes(o, "row", "ok")
    /\ IF seen[o] = {}
       THEN Finish(o, "ok") /\ UNCHANGED queue
       ELSE Submit(o, "children") /\ UNCHANGED <<step, tries, outcome, seen>>
    /\ UNCHANGED <<lock, waiting, faults, sqlite>>

ReadEnds(o) ==
    /\ Resumes(o, "children", "ok")
    /\ Finish(o, IF seen[o] \subseteq {<<Subject[o], 1>>} THEN "failed" ELSE "ok")
    /\ UNCHANGED <<lock, waiting, queue, faults, sqlite>>

Resume(o) ==
    \/ Proceed(o) \/ StatementFails(o) \/ Complete(o) \/ LockedAnswer(o)
    \/ Retry(o) \/ ReadOn(o) \/ ReadEnds(o)
-----------------------------------------------------------------------------
(* A timeout cancels the task (scheduler/runner.py, level1/scanner.py,     *)
(* level2/scanner.py): the coroutine leaves at the await it is in, whether *)
(* or not the thread has answered.  A command handed over stays handed     *)
(* over.  Inside the body of a transaction the cancellation is one more    *)
(* exception; at BEGIN, COMMIT and ROLLBACK nothing follows.               *)
CancelWait(o) ==
    /\ pc[o] = "lock"
    /\ \E i \in DOMAIN waiting : waiting[i] = o /\ waiting' = RemoveAt(waiting, i)
    /\ Finish(o, "cancelled")
    /\ UNCHANGED <<lock, queue, reply, sqlite>>

CancelBody(o) == RollBack(o, "cancelled")

(* Mutant: the lock is acquired and released by hand, not by a `with'.     *)
CancelOutsideKeepingLock(o) ==
    /\ pc[o] \in {"begin", "sleep", "commit", "rollback", "execute"}
    /\ Finish(o, "cancelled")
    /\ reply' = [reply EXCEPT ![o] = "none"]
    /\ UNCHANGED <<lock, waiting, queue, sqlite>>

CancelOutside(o) ==
    /\ pc[o] \in {"begin", "sleep", "commit", "rollback", "execute"}
    /\ Leave(o, "cancelled")
    /\ reply' = [reply EXCEPT ![o] = "none"]

CancelRead(o) ==
    /\ pc[o] \in {"row", "children"}
    /\ Finish(o, "cancelled")
    /\ reply' = [reply EXCEPT ![o] = "none"]
    /\ UNCHANGED <<lock, waiting, queue, sqlite>>

Cancel(o) ==
    /\ Fault
    /\ CancelWait(o) \/ CancelBody(o) \/ CancelOutside(o) \/ CancelRead(o)

(* The process ends, killed or closed: SQLite rolls an open transaction    *)
(* back, and the operations under way are lost.  The next start applies    *)
(* the migrations that are not there yet.                                  *)
Restarted(o) == o \in Range(Migrations) /\ ~Applied(o)

Stop ==
    /\ Fault
    /\ lock' = None
    /\ waiting' = << >>
    /\ queue' = << >>
    /\ open' = FALSE
    /\ view' = disk
    /\ pc' = [o \in Ops |-> IF Restarted(o) \/ pc[o] = "idle" THEN "idle" ELSE "done"]
    /\ outcome' = [o \in Ops |-> IF Restarted(o) \/ pc[o] = "idle" THEN "none"
                                 ELSE IF pc[o] = "done" THEN outcome[o] ELSE "lost"]
    /\ step' = [o \in Ops |-> 0]
    /\ tries' = [o \in Ops |-> 0]
    /\ reply' = [o \in Ops |-> "none"]
    /\ seen' = [o \in Ops |-> IF outcome[o] = "ok" THEN seen[o] ELSE {}]
    /\ UNCHANGED disk

AtRest == \A o \in Ops : pc[o] \in {"idle", "done"}

(* Nothing is under way.                                                   *)
Quiet ==
    /\ queue = << >>
    /\ AtRest
    /\ UNCHANGED vars

Next ==
    \/ \E o \in Ops : Call(o) \/ Enter(o) \/ Resume(o) \/ Cancel(o)
    \/ Thread
    \/ Stop
    \/ Quiet

(* The loop runs what is ready, and the thread serves its queue.           *)
Fairness ==
    /\ WF_vars(Thread)
    /\ WF_vars(\E o \in Ops : Enter(o))
    /\ WF_vars(\E o \in Ops : Resume(o))

Spec == Init /\ [][Next]_vars /\ Fairness
-----------------------------------------------------------------------------
TypeOK ==
    /\ faults \in 0..MaxFaults
    /\ lock \in Ops \union {None}
    /\ waiting \in Seq(Ops)
    /\ queue \in Seq([op : Ops, cmd : Awaiting, part : Nat])
    /\ open \in BOOLEAN
    /\ disk \subseteq AllRows /\ view \subseteq AllRows
    /\ pc \in [Ops -> Phases]
    /\ step \in [Ops -> Nat]
    /\ tries \in [Ops -> 0..(MaxLockRetries - 1)]
    /\ reply \in [Ops -> Replies]
    /\ outcome \in [Ops -> Outcomes]
    /\ seen \in [Ops -> SUBSET AllRows]

(* Whatever is cancelled, refused or cut off by a stop: what is committed  *)
(* holds every row of a transaction or none (16_DATABASE.md:505).          *)
WholeTransactions ==
    \A w \in Writers : Rows[w] \subseteq disk \/ Rows[w] \intersect disk = {}

(* Two calls of next_value that returned, in this process or one before,   *)
(* returned different numbers (repositories/sqlite/sequences.py:23).       *)
NumbersAreUnique ==
    \A n, m \in Numbered :
        n # m /\ outcome[n] = "ok" /\ outcome[m] = "ok"
            => Cardinality(seen[n]) # Cardinality(seen[m])

(* A migration cut off by a stop is applied once: no statement of it meets *)
(* what an earlier start left (migrations and their version row are one    *)
(* transaction, infrastructure/db/runner.py:96).                           *)
MigratedOnce ==
    [][\A m \in Range(Migrations) : \A i \in 1..Statements[m] :
          <<m, i>> \in view' /\ <<m, i>> \notin view => Rows[m] \intersect disk = {}]_vars

(* The rows of an operation appear and disappear for other readers as its  *)
(* transaction promises: the store, seen from the writers, is an atomic    *)
(* store.                                                                  *)
Store == INSTANCE AtomicStore
    WITH Ops <- Writers,
         applied <- {w \in Writers : Applied(w)},
         answer <- [w \in Writers |-> IF pc[w] = "done" THEN outcome[w] ELSE "none"]

ImplementsAtomicStore == Store!Spec

(* Every call ends, nobody waits for the lock or for the thread for ever,  *)
(* also after a transaction was left open or a stop: the database always   *)
(* comes to rest (an operation is called at most once in a process).       *)
EveryCallEnds == []<>AtRest

(* An open transaction has an owner that will end it.  FALSE of the code.  *)
TransactionsEnd == open /\ queue = << >> => lock \in Writers

(* A reader meets a whole entity or none.  FALSE of the code.              *)
ReadsAreWhole == \A r \in Readers : pc[r] = "done" => outcome[r] # "failed"
================================================================================
