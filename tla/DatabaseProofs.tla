----------------------------- MODULE DatabaseProofs -----------------------------
(***************************************************************************)
(* Proofs about the shared connection, for any operations, migrations,     *)
(* cancellations, refused statements and stops.                            *)
(***************************************************************************)
EXTENDS Database, SequenceTheorems, FiniteSetTheorems, TLAPS

-----------------------------------------------------------------------------
(* The inductive invariant.  A writer is in its transaction while its body *)
(* runs, and until the thread has executed the command that ends it.       *)
Commands == [op : Ops, cmd : Awaiting, part : Nat]

Places == 1..Len(queue)
Reads(i) == queue[i].cmd \in {"row", "children"}
Within(i) == queue[i].cmd \in {"statement", "number", "commit", "rollback"}

InBody(w) == pc[w] \in {"statement", "number"}
InTransaction(w) == InBody(w) \/ \E i \in Places : queue[i].op = w /\ Within(i)

Own(o) ==
    CASE o \in Writers -> {"begin", "statement", "number", "commit", "rollback"}
      [] o \in Singles -> {"execute"}
      [] OTHER -> {"row", "children"}

Kinds ==
    /\ queue \in Seq(Commands)
    /\ pc \in [Ops -> Phases] /\ step \in [Ops -> Nat] /\ reply \in [Ops -> Replies]
    /\ \A i \in Places : queue[i].cmd \in Own(queue[i].op)
    /\ \A o \in Ops : pc[o] \in Own(o) \union {"idle", "done"}
                                \union (IF o \in Readers THEN {} ELSE {"lock", "sleep"})

(* Whoever has sent a command under the lock holds the lock.               *)
Holds == \A o \in Ops \ Readers : pc[o] \notin {"idle", "lock", "done"} => lock = o

(* The command that the holder of the lock awaits is the last one, reads   *)
(* aside; its answer is there only when the thread has executed it.        *)
Awaited ==
    \A o \in Ops \ Readers :
        /\ pc[o] \in {"idle", "lock"} => \A i \in Places : queue[i].op # o
        /\ pc[o] \notin Awaiting => reply[o] = "none"
        /\ pc[o] = "sleep" \/ reply[o] # "none" => \A i \in Places : Reads(i)
        /\ \A i, j \in Places :
              queue[i].op = o /\ queue[i].cmd = pc[o] /\ i < j => Reads(j)

(* Nothing but the command of the body is under way while a body runs.     *)
Bodies ==
    \A w \in Writers : InBody(w) =>
        \A i \in Places :
            \/ Reads(i)
            \/ queue[i].op = w /\ queue[i].cmd = pc[w] /\ queue[i].part = step[w] + 1

(* What precedes a command of a transaction belongs to it and does not end *)
(* it; before a COMMIT every statement has been executed.                  *)
Ordered ==
    \A i, j \in Places : Within(i) /\ j < i =>
        \/ Reads(j)
        \/ /\ queue[i].cmd # "commit" /\ queue[j].op = queue[i].op
           /\ queue[j].cmd \in {"statement", "number"}

(* A statement whose body is gone is followed by the ROLLBACK of the body. *)
Ended ==
    \A i \in Places : queue[i].cmd \in {"statement", "number"} =>
        \/ InBody(queue[i].op)
        \/ \E j \in Places : i < j /\ queue[j].op = queue[i].op /\ queue[j].cmd = "rollback"

(* Before its BEGIN is answered, a writer is in no transaction.            *)
Early(w) == pc[w] \in {"idle", "lock", "begin", "sleep"}
Calm == \A w \in Writers : Early(w) => ~InTransaction(w)

Begun == \A w \in Writers : pc[w] = "begin" /\ reply[w] = "ok" => open

Progress ==
    \A w \in Writers :
        /\ Early(w) => step[w] = 0
        /\ InBody(w) => \A k \in 1..step[w] : <<w, k>> \in view
        /\ pc[w] = "statement" =>
              step[w] < Statements[w] /\ (reply[w] = "ok" => <<w, step[w] + 1>> \in view)
        /\ pc[w] = "number" => step[w] = Statements[w]

Ready == \A i \in Places : queue[i].cmd = "commit" => Rows[queue[i].op] \subseteq view

Opened == \A w \in Writers : InTransaction(w) => open

(* Only a transaction under way has rows that are not committed, and none  *)
(* that are.                                                               *)
Clean == \A w \in Writers : InTransaction(w) \/ Rows[w] \intersect view \subseteq disk
Fresh ==
    \A w \in Writers : Early(w) \/ InTransaction(w) =>
        Rows[w] \intersect disk = {}

Running == Kinds /\ Holds /\ Awaited /\ Bodies /\ Ordered /\ Ended /\ Calm
Stored == Begun /\ Progress /\ Ready /\ Opened /\ Clean /\ Fresh
            /\ disk \subseteq view /\ WholeTransactions

IInv == Running /\ Stored

-----------------------------------------------------------------------------
LEMMA OpsAreApart ==
  /\ \A o \in Ops : o \in Writers \/ o \in Singles \/ o \in Readers
  /\ Writers \intersect Singles = {} /\ Writers \intersect Readers = {}
  /\ Singles \intersect Readers = {} /\ None \notin Ops
  BY DatabaseAssumption DEF Ops

LEMMA RowsOfWriter ==
  ASSUME NEW w \in Writers
  PROVE  Rows[w] = {<<w, k>> : k \in 1..Statements[w]} /\ Statements[w] \in Nat \ {0}
  BY DatabaseAssumption DEF Rows, Ops

(* What a command handed over changes, and what one executed changes.      *)
LEMMA Appending ==
  ASSUME Kinds, NEW x \in Commands, queue' = Append(queue, x), NEW n, n = Len(queue) + 1
  PROVE  /\ queue' \in Seq(Commands) /\ n \in Places' /\ queue'[n] = x
         /\ \A i \in Places' : i = n \/ i \in Places
         /\ \A i \in Places : /\ i \in Places' /\ i < n /\ queue'[i] = queue[i] /\ i \in Nat
                              /\ (Reads(i)' <=> Reads(i)) /\ (Within(i)' <=> Within(i))
         /\ (Reads(n)' <=> (x.cmd \in {"row", "children"}))
         /\ (Within(n)' <=> (x.cmd \in {"statement", "number", "commit", "rollback"}))
         /\ n \in Nat
  <1>1. /\ queue' \in Seq(Commands) /\ Len(queue) \in Nat /\ Len(queue') = n /\ queue'[n] = x
        /\ \A i \in 1..Len(queue) : queue'[i] = queue[i]
    BY DEF Kinds
  <1>2. (Places)' = 1..n /\ Places = 1..(n - 1) /\ n \in Nat \ {0}
    BY <1>1 DEF Places
  <1> QED  BY <1>1, <1>2 DEF Places, Reads, Within

LEMMA Removing ==
  ASSUME Kinds, queue # << >>, queue' = Tail(queue)
  PROVE  /\ queue' \in Seq(Commands) /\ 1 \in Places /\ Head(queue) = queue[1]
         /\ queue[1] \in Commands
         /\ \A i \in Places' : /\ i \in Nat /\ i + 1 \in Places /\ i + 1 > 1
                               /\ queue'[i] = queue[i + 1]
                               /\ (Reads(i)' <=> Reads(i + 1)) /\ (Within(i)' <=> Within(i + 1))
         /\ \A i \in Places : i = 1 \/ (i \in Nat /\ i > 1 /\ i - 1 \in Places' /\ queue'[i - 1] = queue[i])
  <1>1. /\ queue' \in Seq(Commands) /\ Len(queue) \in Nat \ {0} /\ Len(queue') = Len(queue) - 1
        /\ Head(queue) = queue[1] /\ queue[1] \in Commands
        /\ \A i \in 1..Len(queue') : queue'[i] = queue[i + 1]
    BY DEF Kinds
  <1>2. (Places)' = 1..(Len(queue) - 1) /\ Places = 1..Len(queue)
    BY <1>1 DEF Places
  <1> QED  BY <1>1, <1>2 DEF Places, Reads, Within

LEMMA InitKeeps == Init => IInv
  <1> SUFFICES ASSUME Init PROVE IInv  OBVIOUS
  <1>1. Len(queue) = 0 /\ Places = {} /\ queue \in Seq(Commands)
    BY DEF Init, Places
  <1>2. \A w \in Writers : ~InTransaction(w)
    BY <1>1, OpsAreApart DEF InTransaction, InBody, Init, Ops
  <1>3. Running
    BY <1>1, <1>2 DEF Init, Running, Kinds, Holds, Awaited, Bodies, Ordered, Ended, Calm,
                      InBody, Phases, Replies, Ops
  <1>4. Stored
    BY <1>1, <1>2, OpsAreApart
    DEF Init, Stored, Begun, Progress, Ready, Opened, Clean, Fresh, InBody, Early,
              WholeTransactions, Ops
  <1> QED  BY <1>3, <1>4 DEF IInv

(* A coroutine that leaves the lock, its wait or a read.                   *)
LEMMA QuitKeeps ==
  ASSUME IInv, NEW o \in Ops, ~InBody(o), UNCHANGED <<queue, open, disk, view>>,
         NEW next \in {"done", "sleep"}, pc' = [pc EXCEPT ![o] = next],
         reply' = [reply EXCEPT ![o] = "none"], step' \in [Ops -> Nat],
         \A p \in Ops \ {o} : step'[p] = step[p],
         next = "sleep" => /\ o \notin Readers /\ pc[o] \in {"begin", "execute"}
                           /\ reply[o] # "none" /\ step'[o] = step[o],
         \/ lock' = lock /\ (next = "sleep" \/ o \in Readers \/ pc[o] = "lock")
         \/ lock = o /\ o \notin Readers /\ lock' = None /\ next = "done"
  PROVE  IInv'
  <1>1. /\ pc'[o] = next /\ reply'[o] = "none"
        /\ \A p \in Ops \ {o} : pc'[p] = pc[p] /\ reply'[p] = reply[p] /\ step'[p] = step[p]
        /\ Places' = Places /\ \A i \in Places : (Reads(i)' <=> Reads(i)) /\ (Within(i)' <=> Within(i))
    <2>1. pc \in [Ops -> Phases] /\ reply \in [Ops -> Replies]
      BY DEF IInv, Running, Kinds
    <2>2. Places' = Places /\ \A i \in Places : (Reads(i)' <=> Reads(i)) /\ (Within(i)' <=> Within(i))
      BY DEF Places, Reads, Within
    <2> QED  BY <2>1, <2>2
  <1>2. \A w \in Writers : InTransaction(w)' <=> InTransaction(w)
    BY <1>1, OpsAreApart DEF InTransaction, InBody, Ops
  <1>3. Kinds'
    <2>1. Kinds
      BY DEF IInv, Running
    <2>2. /\ pc' \in [Ops -> Phases] /\ reply' \in [Ops -> Replies]
          /\ queue' \in Seq(Commands)
      BY <2>1 DEF Kinds, Phases, Replies
    <2>3. \A i \in Places' : queue'[i].cmd \in Own(queue'[i].op)
      BY <2>1, <1>1 DEF Kinds
    <2>4. \A p \in Ops : p # o =>
             pc'[p] \in Own(p) \union {"idle", "done"}
                          \union (IF p \in Readers THEN {} ELSE {"lock", "sleep"})
      BY <2>1, <1>1 DEF Kinds
    <2>5. pc'[o] \in Own(o) \union {"idle", "done"}
                       \union (IF o \in Readers THEN {} ELSE {"lock", "sleep"})
      BY <1>1
    <2> QED  BY <2>2, <2>3, <2>4, <2>5 DEF Kinds
  <1>4. Holds'
    BY <1>1 DEF IInv, Running, Holds
  <1>5. Awaited'
    <2> SUFFICES ASSUME NEW p \in Ops \ Readers
                 PROVE  /\ pc'[p] \in {"idle", "lock"} => \A i \in Places : queue[i].op # p
                        /\ pc'[p] \notin Awaiting => reply'[p] = "none"
                        /\ pc'[p] = "sleep" \/ reply'[p] # "none" => \A i \in Places : Reads(i)
                        /\ \A i, j \in Places :
                              queue[i].op = p /\ queue[i].cmd = pc'[p] /\ i < j => Reads(j)
      BY <1>1 DEF Awaited, Places, Reads
    <2>1. CASE p # o
      BY <2>1, <1>1 DEF IInv, Running, Awaited
    <2>2. ASSUME p = o PROVE \A i \in Places : queue[i].cmd # next
      BY DEF IInv, Running, Kinds, Own
    <2>3. CASE p = o
      BY <2>2, <2>3, <1>1 DEF IInv, Running, Awaited
    <2> QED  BY <2>1, <2>3
  <1>6. Bodies' /\ Ordered' /\ Ended'
    BY <1>1, OpsAreApart DEF IInv, Running, Bodies, Ordered, Ended, InBody, Ops
  <1>7. \A w \in Writers : Early(w)' => Early(w)
    <2>1. \A w \in Writers : w \in Ops /\ pc[w] # "execute"
      BY OpsAreApart DEF IInv, Running, Kinds, Own, Ops
    <2> QED  BY <2>1, <1>1 DEF Early
  <1>8. Calm'
    BY <1>2, <1>7 DEF IInv, Running, Calm
  <1>9. Begun' /\ Progress'
    <2>1. \A w \in Writers : w \in Ops
      BY OpsAreApart DEF Ops
    <2>2. Begun'
      BY <1>1, <2>1 DEF IInv, Stored, Begun
    <2>3. ASSUME NEW w \in Writers, Early(w)' PROVE step'[w] = 0
      <3>1. step[w] = 0
        BY <1>7, <2>3 DEF IInv, Stored, Progress
      <3>2. w = o => next = "sleep"
        BY <1>1, <2>3 DEF Early
      <3> QED  BY <1>1, <2>1, <3>1, <3>2
    <2>4. \A w \in Writers : w = o => ~InBody(w)' /\ pc'[w] \notin {"statement", "number"}
      BY <1>1 DEF InBody
    <2> QED  BY <1>1, <2>1, <2>2, <2>3, <2>4 DEF IInv, Stored, Progress, InBody
  <1>10. Ready' /\ Opened' /\ Clean'
    BY <1>1, <1>2 DEF IInv, Stored, Ready, Opened, Clean
  <1>11. Fresh' /\ (disk \subseteq view)' /\ WholeTransactions'
    BY <1>2, <1>7 DEF IInv, Stored, Fresh, WholeTransactions
  <1> QED  BY <1>3, <1>4, <1>5, <1>6, <1>8, <1>9, <1>10, <1>11 DEF IInv, Running, Stored

(* A command sent under the lock, as the only one that ends a transaction. *)
Sent(o, c, n) == queue' = Append(queue, [op |-> o, cmd |-> c, part |-> n])

(* The only command that may be new in the queue is c of o.                *)
OnlyAdds(o, c) ==
    \A i \in Places' : \/ queue'[i].op = o /\ queue'[i].cmd = c
                       \/ \E j \in Places : queue'[i] = queue[j]

LEMMA OthersAreQuiet ==
  ASSUME IInv, NEW o \in Ops \ Readers, lock \in {None, o}
  PROVE  \A p \in Ops \ Readers : p # o => pc[p] \in {"idle", "lock", "done"}
  BY OpsAreApart DEF IInv, Running, Holds

LEMMA SendKeepsRunning ==
  ASSUME IInv, NEW o \in Ops \ Readers, NEW c \in Own(o), NEW n \in Nat, Sent(o, c, n),
         pc' = [pc EXCEPT ![o] = c], step' \in [Ops -> Nat], reply' = [reply EXCEPT ![o] = "none"],
         lock' = o, \A p \in Ops \ Readers : p # o => pc[p] \in {"idle", "lock", "done"},
         \A i \in Places : queue[i].op = o =>
             c = "rollback" /\ queue[i].cmd \in {"statement", "number"},
         c \in {"statement", "number", "commit", "rollback"} =>
             \A i \in Places : Reads(i) \/ (c = "rollback" /\ queue[i].op = o),
         c \in {"statement", "number"} => n = step'[o] + 1,
         o \in Writers /\ c = "begin" => Early(o)
  PROVE  /\ Running'
         /\ \A w \in Writers :
               InTransaction(w)' <=> (InTransaction(w) \/ (w = o /\ c # "begin"))
         /\ OnlyAdds(o, c)
  <1>0. PICK k : k = Len(queue) + 1
    OBVIOUS
  <1>x. PICK x : x = [op |-> o, cmd |-> c, part |-> n]
    OBVIOUS
  <1>1. Kinds
    BY DEF IInv, Running
  <1>2. o \in Ops /\ c \in Awaiting /\ x \in Commands
        /\ (o \in Writers => c \in {"begin", "statement", "number", "commit", "rollback"})
        /\ c \notin {"row", "children"}
    BY <1>x, OpsAreApart DEF Own, Awaiting, Commands
  <1>3. x.op = o /\ x.cmd = c /\ x.part = n
    BY <1>x
  <1>4. /\ queue' \in Seq(Commands) /\ k \in Places' /\ queue'[k] = x
        /\ \A i \in Places' : i = k \/ i \in Places
        /\ \A i \in Places : /\ i \in Places' /\ i < k /\ queue'[i] = queue[i] /\ i \in Nat
                             /\ (Reads(i)' <=> Reads(i)) /\ (Within(i)' <=> Within(i))
        /\ ~Reads(k)'
        /\ (Within(k)' <=> (c \in {"statement", "number", "commit", "rollback"}))
        /\ k \in Nat
    <2>1. queue' = Append(queue, x)
      BY <1>x DEF Sent
    <2>2. /\ queue' \in Seq(Commands) /\ k \in Places' /\ queue'[k] = x /\ k \in Nat
          /\ \A i \in Places' : i = k \/ i \in Places
          /\ Reads(k)' <=> (x.cmd \in {"row", "children"})
      BY <1>0, <1>1, <1>2, <2>1, Appending
    <2>3. Within(k)' <=> (x.cmd \in {"statement", "number", "commit", "rollback"})
      BY <1>0, <1>1, <1>2, <2>1, Appending
    <2>4. \A i \in Places : i \in Places' /\ i < k /\ queue'[i] = queue[i] /\ i \in Nat
      BY <1>0, <1>1, <1>2, <2>1, Appending
    <2>5. \A i \in Places : (Reads(i)' <=> Reads(i)) /\ (Within(i)' <=> Within(i))
      BY <1>0, <1>1, <1>2, <2>1, Appending
    <2> QED  BY <1>2, <1>3, <2>2, <2>3, <2>4, <2>5
  <1>5. /\ pc'[o] = c /\ reply'[o] = "none"
        /\ \A p \in Ops \ {o} : pc'[p] = pc[p] /\ reply'[p] = reply[p]
        /\ pc' \in [Ops -> Phases] /\ reply' \in [Ops -> Replies]
    BY <1>1, <1>2 DEF Kinds, Phases, Replies
  <1>6. Kinds'
    <2>1. \A i \in Places' : queue'[i].cmd \in Own(queue'[i].op)
      BY <1>1, <1>3, <1>4 DEF Kinds
    <2>2. \A p \in Ops : pc'[p] \in (Own(p) \union {"idle", "done"})
                                \union (IF p \in Readers THEN {} ELSE {"lock", "sleep"})
      BY <1>1, <1>5 DEF Kinds
    <2> QED  BY <1>4, <1>5, <2>1, <2>2 DEF Kinds
  <1>7. Holds'
    BY <1>5 DEF Holds
  <1>8. Awaited'
    <2> SUFFICES ASSUME NEW p \in Ops \ Readers
                 PROVE  /\ pc'[p] \in {"idle", "lock"} => \A i \in Places' : queue'[i].op # p
                        /\ pc'[p] \notin Awaiting => reply'[p] = "none"
                        /\ pc'[p] = "sleep" \/ reply'[p] # "none" => \A i \in Places' : Reads(i)'
                        /\ \A i, j \in Places' :
                              queue'[i].op = p /\ queue'[i].cmd = pc'[p] /\ i < j => Reads(j)'
      BY DEF Awaited
    <2>1. ASSUME p # o
          PROVE  /\ pc'[p] \in {"idle", "lock", "done"} /\ reply'[p] = "none"
                 /\ pc'[p] \in {"idle", "lock"} => \A i \in Places : queue[i].op # p
      BY <2>1, <1>5 DEF IInv, Running, Awaited, Awaiting
    <2>2. \A i \in Places' : queue'[i].cmd \in Awaiting
      <3>1. \A q : Own(q) \subseteq Awaiting
        BY DEF Own, Awaiting
      <3>2. \A i \in Places : queue[i].cmd \in Awaiting
        BY <3>1, <1>1 DEF Kinds
      <3> QED  BY <3>2, <1>2, <1>3, <1>4
    <2>3. CASE p # o
      BY <2>1, <2>2, <2>3, <1>3, <1>4 DEF Awaiting
    <2>4. CASE p = o
      <3>1. pc'[o] = c /\ c \notin {"idle", "lock", "sleep"} /\ reply'[o] = "none" /\ c \in Awaiting
        BY <1>5, <1>2 DEF Awaiting
      <3>2. \A i \in Places : ~(queue[i].op = o /\ queue[i].cmd = c)
        OBVIOUS
      <3>3. \A i, j \in Places' : queue'[i].op = o /\ queue'[i].cmd = c => ~(i < j)
        BY <3>2, <1>3, <1>4
      <3> QED  BY <2>4, <3>1, <3>3
    <2> QED  BY <2>3, <2>4
  <1>9. Bodies'
    <2>1. \A w \in Writers : InBody(w)' => w = o /\ c \in {"statement", "number"}
      BY <1>5, OpsAreApart DEF InBody, Ops
    <2>2. c \in {"statement", "number"} => \A i \in Places : Reads(i)
      OBVIOUS
    <2> QED  BY <2>1, <2>2, <1>3, <1>4, <1>5 DEF Bodies
  <1>10. Ordered'
    <2>1. Ordered
      BY DEF IInv, Running
    <2>2. ASSUME NEW i \in Places, NEW j \in Places, Within(i), j < i
          PROVE  Reads(j)' \/ (queue'[i].cmd # "commit" /\ queue'[j].op = queue'[i].op
                               /\ queue'[j].cmd \in {"statement", "number"})
      BY <2>1, <2>2, <1>4 DEF Ordered
    <2>3. ASSUME NEW j \in Places, Within(k)'
          PROVE  Reads(j)' \/ (queue'[k].cmd # "commit" /\ queue'[j].op = queue'[k].op
                               /\ queue'[j].cmd \in {"statement", "number"})
      BY <2>3, <1>3, <1>4
    <2> QED  BY <2>2, <2>3, <1>4 DEF Ordered
  <1>11. Ended'
    <2> SUFFICES ASSUME NEW i \in Places', queue'[i].cmd \in {"statement", "number"},
                        pc'[queue'[i].op] \notin {"statement", "number"}
                 PROVE  \E j \in Places' : /\ i < j /\ queue'[j].op = queue'[i].op
                                          /\ queue'[j].cmd = "rollback"
      BY DEF Ended, InBody
    <2>1. i \in Places /\ queue'[i] = queue[i] /\ i < k
      BY <1>3, <1>4, <1>5
    <2>2. CASE queue[i].op = o
      BY <2>1, <2>2, <1>3, <1>4
    <2>3. CASE queue[i].op # o
      <3>1. queue[i].op \in Writers
        BY <2>1, <1>1, OpsAreApart DEF Kinds, Own, Commands
      <3>2. ~InBody(queue[i].op)
        BY <3>1, <2>3, OpsAreApart DEF InBody, Ops
      <3>3. PICK j \in Places : i < j /\ queue[j].op = queue[i].op /\ queue[j].cmd = "rollback"
        BY <2>1, <3>2 DEF IInv, Running, Ended
      <3> QED  BY <2>1, <3>3, <1>4
    <2> QED  BY <2>2, <2>3
  <1>12. \A w \in Writers : InTransaction(w)' <=>
             (InTransaction(w) \/ (w = o /\ c # "begin"))
    <2> SUFFICES ASSUME NEW w \in Writers
                 PROVE  InTransaction(w)' <=> (InTransaction(w) \/ (w = o /\ c # "begin"))
      OBVIOUS
    <2>1. w \in Ops
      BY OpsAreApart DEF Ops
    <2>2. CASE w # o
      <3>1. InBody(w)' <=> InBody(w)
        BY <2>1, <2>2, <1>5 DEF InBody
      <3>2. (\E i \in Places' : queue'[i].op = w /\ Within(i)')
                <=> \E i \in Places : queue[i].op = w /\ Within(i)
        BY <2>2, <1>3, <1>4
      <3> QED  BY <2>2, <3>1, <3>2 DEF InTransaction
    <2>3. CASE w = o /\ c # "begin"
      BY <2>3, <1>2, <1>3, <1>4 DEF InTransaction
    <2>4. CASE w = o /\ c = "begin"
      <3>1. \A i \in Places : queue[i].op # o
        BY <2>4
      <3>2. ~InTransaction(w)'
        <4>1. ~InBody(w)'
          BY <2>4, <1>5 DEF InBody
        <4>2. \A i \in Places' : ~(queue'[i].op = w /\ Within(i)')
          BY <2>4, <3>1, <1>4
        <4> QED  BY <4>1, <4>2 DEF InTransaction
      <3>3. ~InTransaction(w)
        BY <2>4 DEF IInv, Running, Calm
      <3> QED  BY <2>4, <3>2, <3>3
    <2> QED  BY <2>2, <2>3, <2>4
  <1>13. Calm'
    <2>1. \A w \in Writers : Early(w)' => (Early(w) /\ w # o) \/ (w = o /\ c = "begin")
      <3>1. \A w \in Writers : w # o => pc'[w] = pc[w]
        BY <1>5, OpsAreApart DEF Ops
      <3>2. o \in Writers => pc'[o] = "begin" \/ pc'[o] \notin {"idle", "lock", "begin", "sleep"}
        BY <1>2, <1>5
      <3> QED  BY <1>5, <3>1, <3>2 DEF Early
    <2>2. \A w \in Writers : w = o /\ c = "begin" => ~InTransaction(w)
      BY DEF IInv, Running, Calm
    <2> QED  BY <2>1, <2>2, <1>12 DEF IInv, Running, Calm
  <1>14. OnlyAdds(o, c)
    BY <1>3, <1>4 DEF OnlyAdds
  <1> QED  BY <1>6, <1>7, <1>8, <1>9, <1>10, <1>11, <1>12, <1>13, <1>14 DEF Running

(* A read is handed over without the lock, and changes nothing.            *)
LEMMA ReadKeeps ==
  ASSUME IInv, NEW o \in Readers, NEW c \in {"row", "children"}, NEW n \in Nat, Sent(o, c, n),
         pc' = [pc EXCEPT ![o] = c], reply' \in [Ops -> Replies],
         \A p \in Ops \ Readers : reply'[p] = reply[p],
         UNCHANGED <<lock, step, open, disk, view>>
  PROVE  IInv'
  <1>0. PICK k : k = Len(queue) + 1
    OBVIOUS
  <1>1. PICK x : x = [op |-> o, cmd |-> c, part |-> n]
    OBVIOUS
  <1>2. Kinds /\ o \in Ops /\ x \in Commands /\ x.op = o /\ x.cmd = c
        /\ \A p \in Ops \ Readers : p \in Ops /\ p # o
    BY <1>1 DEF IInv, Running, Awaiting, Commands, Ops
  <1>3. queue' = Append(queue, x)
    BY <1>1 DEF Sent
  <1>4. /\ queue' \in Seq(Commands) /\ k \in Places' /\ queue'[k] = x /\ k \in Nat
        /\ \A i \in Places' : i = k \/ i \in Places
        /\ Reads(k)' <=> (x.cmd \in {"row", "children"})
    BY <1>0, <1>2, <1>3, Appending
  <1>5. Within(k)' <=> (x.cmd \in {"statement", "number", "commit", "rollback"})
    BY <1>0, <1>2, <1>3, Appending
  <1>6. \A i \in Places : i \in Places' /\ i < k /\ queue'[i] = queue[i] /\ i \in Nat
    BY <1>0, <1>2, <1>3, Appending
  <1>7. \A i \in Places : (Reads(i)' <=> Reads(i)) /\ (Within(i)' <=> Within(i))
    BY <1>0, <1>2, <1>3, Appending
  <1>8. /\ pc' \in [Ops -> Phases] /\ pc'[o] = c
        /\ \A p \in Ops \ Readers : pc'[p] = pc[p] /\ reply'[p] = reply[p]
        /\ \A p \in Ops : p # o => pc'[p] = pc[p]
    BY <1>2 DEF Kinds, Phases, Awaiting
  <1>9. Writers \subseteq Ops \ Readers /\ Reads(k)' /\ ~Within(k)'
    BY <1>2, <1>4, <1>5, OpsAreApart DEF Ops
  <1>10. \A w \in Writers : pc'[w] = pc[w] /\ reply'[w] = reply[w] /\ w # o
                            /\ (InBody(w)' <=> InBody(w)) /\ (Early(w)' <=> Early(w))
    BY <1>2, <1>8, <1>9 DEF InBody, Early
  <1>11. \A w \in Writers : InTransaction(w)' <=> InTransaction(w)
    <2> SUFFICES ASSUME NEW w \in Writers PROVE InTransaction(w)' <=> InTransaction(w)
      OBVIOUS
    <2>1. (\E i \in Places' : queue'[i].op = w /\ Within(i)')
              <=> \E i \in Places : queue[i].op = w /\ Within(i)
      BY <1>4, <1>6, <1>7, <1>9
    <2> QED  BY <1>10, <2>1 DEF InTransaction
  <1>12. Kinds'
    <2>1. \A i \in Places' : queue'[i].cmd \in Own(queue'[i].op)
      <3>1. c \in Own(o)
        BY OpsAreApart DEF Own
      <3> QED  BY <3>1, <1>2, <1>4, <1>6 DEF Kinds
    <2>2. \A p \in Ops : pc'[p] \in (Own(p) \union {"idle", "done"})
                                \union (IF p \in Readers THEN {} ELSE {"lock", "sleep"})
      BY <1>2, <1>8, OpsAreApart DEF Kinds, Own
    <2> QED  BY <1>2, <1>4, <1>8, <2>1, <2>2 DEF Kinds
  <1>13. Holds'
    BY <1>8 DEF IInv, Running, Holds
  <1>14. Awaited'
    BY <1>2, <1>4, <1>6, <1>7, <1>8, <1>9 DEF IInv, Running, Awaited
  <1>15. Bodies' /\ Ordered' /\ Calm'
    <2>1. Bodies'
      BY <1>4, <1>6, <1>7, <1>9, <1>10 DEF IInv, Running, Bodies
    <2>2. Ordered'
      BY <1>4, <1>6, <1>7, <1>9 DEF IInv, Running, Ordered
    <2> QED  BY <2>1, <2>2, <1>10, <1>11 DEF IInv, Running, Calm
  <1>16. Ended'
    <2> SUFFICES ASSUME NEW i \in Places', queue'[i].cmd \in {"statement", "number"}
                 PROVE  \/ pc'[queue'[i].op] \in {"statement", "number"}
                        \/ \E j \in Places' : /\ i < j /\ queue'[j].op = queue'[i].op
                                              /\ queue'[j].cmd = "rollback"
      BY DEF Ended, InBody
    <2>1. i \in Places /\ queue'[i] = queue[i] /\ queue[i].op \in Writers
      BY <1>2, <1>4, <1>6, <1>12, OpsAreApart DEF Kinds, Own, Commands
    <2> QED  BY <2>1, <1>6, <1>10 DEF IInv, Running, Ended, InBody
  <1>17. Begun' /\ Opened' /\ Clean' /\ Fresh'
    BY <1>10, <1>11 DEF IInv, Stored, Begun, Opened, Clean, Fresh
  <1>18. Progress'
    BY <1>10 DEF IInv, Stored, Progress
  <1>19. Ready' /\ (disk \subseteq view)' /\ WholeTransactions'
    BY <1>2, <1>4, <1>6 DEF IInv, Stored, Ready, WholeTransactions
  <1> QED  BY <1>12, <1>13, <1>14, <1>15, <1>16, <1>17, <1>18, <1>19 DEF IInv, Running, Stored

(* The first command of an operation, or its next attempt.                 *)
LEMMA FirstKeeps ==
  ASSUME IInv, NEW o \in Ops \ Readers, pc[o] \in {"lock", "sleep"}, lock \in {None, o},
         Submit(o, IF o \in Writers THEN "begin" ELSE "execute"), lock' = o,
         UNCHANGED <<step, reply, open, disk, view>>
  PROVE  IInv'
  <1>1. PICK c : c = IF o \in Writers THEN "begin" ELSE "execute"
    OBVIOUS
  <1>2. PICK n \in Nat : n = step[o] + 1
    BY DEF IInv, Running, Kinds
  <1>3. /\ Sent(o, c, n) /\ pc' = [pc EXCEPT ![o] = c] /\ c \in Own(o) /\ c \in {"begin", "execute"}
        /\ o \in Writers => c = "begin"
    BY <1>1, <1>2, OpsAreApart DEF Submit, Sent, Own
  <1>4. \A p \in Ops \ Readers : p # o => pc[p] \in {"idle", "lock", "done"}
    BY OthersAreQuiet
  <1>5. \A i \in Places : queue[i].op # o
    <2>1. CASE pc[o] = "lock"
      BY <2>1 DEF IInv, Running, Awaited
    <2>2. CASE pc[o] = "sleep"
      BY <2>2, OpsAreApart DEF IInv, Running, Awaited, Kinds, Own, Reads
    <2> QED  BY <2>1, <2>2
  <1>6. reply[o] = "none" /\ reply \in [Ops -> Replies] /\ step \in [Ops -> Nat]
    BY DEF IInv, Running, Awaited, Kinds, Awaiting
  <1>7. reply' = [reply EXCEPT ![o] = "none"] /\ step' \in [Ops -> Nat]
    BY <1>6
  <1>8. /\ Running' /\ \A w \in Writers : InTransaction(w)' <=> InTransaction(w)
        /\ OnlyAdds(o, c)
    <2>1. o \in Writers /\ c = "begin" => Early(o)
      BY <1>3 DEF Early
    <2>2. c \notin {"statement", "number", "commit", "rollback"}
      BY <1>3
    <2>3. /\ Running'
          /\ \A w \in Writers :
                InTransaction(w)' <=> (InTransaction(w) \/ (w = o /\ c # "begin"))
          /\ OnlyAdds(o, c)
      BY <1>3, <1>4, <1>5, <1>7, <2>1, <2>2, SendKeepsRunning
    <2> QED  BY <1>3, <2>3
  <1>9. \A w \in Writers : (Early(w)' <=> Early(w)) /\ (InBody(w)' <=> InBody(w))
    BY <1>3, OpsAreApart DEF IInv, Running, Kinds, Early, InBody, Ops
  <1>10. Progress' /\ Begun'
    BY <1>3, <1>6, <1>9, OpsAreApart DEF IInv, Running, Kinds, Stored, Progress, Begun, InBody, Ops
  <1>11. Opened' /\ Clean' /\ Fresh' /\ (disk \subseteq view)' /\ WholeTransactions'
    BY <1>8, <1>9 DEF IInv, Stored, Opened, Clean, Fresh, WholeTransactions
  <1>12. Ready'
    <2>1. c # "commit" /\ view' = view
      BY <1>3
    <2> QED  BY <2>1, <1>8 DEF IInv, Stored, Ready, OnlyAdds
  <1> QED  BY <1>8, <1>10, <1>11, <1>12 DEF IInv, Stored

(* An answer that is there leaves nothing but reads in the queue.          *)
LEMMA Answered ==
  ASSUME IInv, NEW o \in Ops \ Readers, reply[o] # "none"
  PROVE  /\ \A i \in Places : Reads(i) /\ ~Within(i) /\ queue[i].op # o
         /\ pc[o] \in Awaiting /\ lock = o
         /\ \A p \in Ops \ Readers : p # o => pc[p] \in {"idle", "lock", "done"}
  <1>1. pc[o] \in Awaiting /\ \A i \in Places : Reads(i)
    BY DEF IInv, Running, Awaited
  <1>2. lock = o
    BY <1>1 DEF IInv, Running, Holds, Awaiting
  <1>3. \A i \in Places : ~Within(i)
    BY <1>1 DEF Reads, Within
  <1>4. \A i \in Places : queue[i].op # o
    BY <1>1, OpsAreApart DEF IInv, Running, Kinds, Own, Reads
  <1> QED  BY <1>1, <1>2, <1>3, <1>4, OthersAreQuiet

LEMMA ProceedKeeps ==
  ASSUME IInv, NEW o \in Ops, Proceed(o)
  PROVE  IInv'
  <1>1. PICK done : done = IF pc[o] = "statement" THEN step[o] + 1 ELSE step[o]
    OBVIOUS
  <1>2. PICK c : c = Following(o, done)
    OBVIOUS
  <1>3. /\ pc[o] \in {"begin", "statement", "number"} /\ reply[o] = "ok"
        /\ reply' = [reply EXCEPT ![o] = "none"] /\ step' = [step EXCEPT ![o] = done]
        /\ pc' = [pc EXCEPT ![o] = c] /\ Sent(o, c, done + 1)
        /\ UNCHANGED <<lock, open, disk, view>>
    BY <1>1, <1>2 DEF Proceed, Resumes, Sent, sqlite
  <1>4. o \in Writers /\ o \in Ops \ Readers /\ step[o] \in Nat /\ done \in Nat
        /\ Statements[o] \in Nat \ {0}
    <2>1. o \in Writers
      BY <1>3, OpsAreApart DEF IInv, Running, Kinds, Own
    <2>2. o \in Ops \ Readers /\ step[o] \in Nat
      BY <2>1, OpsAreApart DEF IInv, Running, Kinds
    <2> QED  BY <1>1, <2>1, <2>2, RowsOfWriter
  <1>5. /\ \A i \in Places : Reads(i) /\ ~Within(i) /\ queue[i].op # o
        /\ lock = o /\ \A p \in Ops \ Readers : p # o => pc[p] \in {"idle", "lock", "done"}
    BY <1>3, <1>4, Answered
  <1>6. /\ c \in {"statement", "number", "commit"} /\ done <= Statements[o]
        /\ c = "statement" => done < Statements[o]
        /\ c # "statement" => done = Statements[o]
    <2>1. pc[o] = "begin" => step[o] = 0
      BY <1>4 DEF IInv, Stored, Progress, Early
    <2>2. pc[o] = "statement" => step[o] < Statements[o]
      BY <1>4 DEF IInv, Stored, Progress
    <2>3. pc[o] = "number" => step[o] = Statements[o]
      BY <1>4 DEF IInv, Stored, Progress
    <2>4. done <= Statements[o]
      BY <1>1, <1>3, <1>4, <2>1, <2>2, <2>3
    <2> QED  BY <1>2, <1>4, <2>4 DEF Following
  <1>7. \A k \in 1..done : <<o, k>> \in view
    <2>1. CASE pc[o] = "begin"
      <3>1. done = 0
        BY <2>1, <1>1, <1>4 DEF IInv, Stored, Progress, Early
      <3> QED  BY <3>1
    <2>2. CASE pc[o] = "statement"
      <3>1. done = step[o] + 1 /\ <<o, step[o] + 1>> \in view
            /\ \A k \in 1..step[o] : <<o, k>> \in view
        BY <2>2, <1>1, <1>3, <1>4 DEF IInv, Stored, Progress, InBody
      <3> QED  BY <3>1, <1>4
    <2>3. CASE pc[o] = "number"
      BY <2>3, <1>1, <1>4 DEF IInv, Stored, Progress, InBody
    <2> QED  BY <1>3, <2>1, <2>2, <2>3
  <1>8. step' \in [Ops -> Nat] /\ step'[o] = done /\ pc'[o] = c /\ reply'[o] = "none"
        /\ \A p \in Ops : p # o => step'[p] = step[p] /\ pc'[p] = pc[p] /\ reply'[p] = reply[p]
    BY <1>3, <1>4 DEF IInv, Running, Kinds
  <1>9. /\ Running'
        /\ \A w \in Writers :
              InTransaction(w)' <=> (InTransaction(w) \/ (w = o /\ c # "begin"))
        /\ OnlyAdds(o, c)
    <2>1. c \in Own(o) /\ done + 1 \in Nat /\ lock' = o
      BY <1>3, <1>4, <1>5, <1>6, OpsAreApart DEF Own
    <2>2. c # "begin"
      BY <1>6
    <2> QED  BY <1>3, <1>4, <1>5, <1>8, <2>1, <2>2, SendKeepsRunning
  <1>10. \A w \in Writers : /\ (Early(w)' => Early(w)) /\ w \in Ops
                            /\ (w # o => (InBody(w)' <=> InBody(w)))
    BY <1>4, <1>6, <1>8, OpsAreApart DEF Early, InBody, Ops
  <1>11. Progress'
    <2>1. ASSUME NEW w \in Writers, w # o
          PROVE  /\ Early(w)' => step'[w] = 0
                 /\ InBody(w)' => \A k \in 1..step'[w] : <<w, k>> \in view'
                 /\ pc'[w] = "statement" => step'[w] < Statements[w]
                        /\ (reply'[w] = "ok" => <<w, step'[w] + 1>> \in view')
                 /\ pc'[w] = "number" => step'[w] = Statements[w]
      BY <2>1, <1>3, <1>8, <1>10 DEF IInv, Stored, Progress
    <2>2. /\ Early(o)' => step'[o] = 0
          /\ InBody(o)' => \A k \in 1..step'[o] : <<o, k>> \in view'
          /\ pc'[o] = "statement" => step'[o] < Statements[o]
                 /\ (reply'[o] = "ok" => <<o, step'[o] + 1>> \in view')
          /\ pc'[o] = "number" => step'[o] = Statements[o]
      BY <1>3, <1>6, <1>7, <1>8 DEF Early
    <2> QED  BY <2>1, <2>2 DEF Progress
  <1>12. open
    <2>1. CASE pc[o] = "begin"
      BY <2>1, <1>3, <1>4 DEF IInv, Stored, Begun
    <2>2. CASE pc[o] \in {"statement", "number"}
      BY <2>2, <1>4 DEF IInv, Stored, Opened, InTransaction, InBody
    <2> QED  BY <2>1, <2>2, <1>3
  <1>13. Begun' /\ Opened'
    BY <1>3, <1>12 DEF Begun, Opened
  <1>14. Ready'
    <2>1. c = "commit" => Rows[o] \subseteq view
      BY <1>4, <1>6, <1>7, RowsOfWriter
    <2> QED  BY <2>1, <1>3, <1>9 DEF IInv, Stored, Ready, OnlyAdds
  <1>15. Clean' /\ Fresh'
    <2>1. InTransaction(o) \/ Early(o)
      BY <1>3 DEF InTransaction, InBody, Early
    <2> QED  BY <2>1, <1>3, <1>4, <1>9, <1>10 DEF IInv, Stored, Clean, Fresh
  <1>16. (disk \subseteq view)' /\ WholeTransactions'
    BY <1>3 DEF IInv, Stored, WholeTransactions
  <1> QED  BY <1>9, <1>11, <1>13, <1>14, <1>15, <1>16 DEF IInv, Stored

LEMMA RollBackKeeps ==
  ASSUME IInv, NEW o \in Ops, NEW how, RollBack(o, how)
  PROVE  IInv'
  <1>1. /\ pc[o] \in {"statement", "number"} /\ Submit(o, "rollback")
        /\ reply' = [reply EXCEPT ![o] = "none"]
        /\ UNCHANGED <<lock, step, open, disk, view>>
    BY DEF RollBack, sqlite
  <1>2. o \in Writers /\ o \in Ops \ Readers /\ step \in [Ops -> Nat]
    BY <1>1, OpsAreApart DEF IInv, Running, Kinds, Own
  <1>3. InBody(o) /\ InTransaction(o) /\ ~Early(o)
    BY <1>1 DEF InBody, InTransaction, Early
  <1>4. lock = o
    BY <1>1, <1>2 DEF IInv, Running, Holds
  <1>5. PICK n \in Nat : n = step[o] + 1
    BY <1>2
  <1>6. Sent(o, "rollback", n) /\ pc' = [pc EXCEPT ![o] = "rollback"]
    BY <1>1, <1>5 DEF Submit, Sent
  <1>7. \A i \in Places : Reads(i) \/ (queue[i].op = o /\ queue[i].cmd \in {"statement", "number"})
    BY <1>1, <1>2, <1>3 DEF IInv, Running, Bodies
  <1>8. \A i \in Places : queue[i].op = o => queue[i].cmd \in {"statement", "number"}
    <2>1. Own(o) = {"begin", "statement", "number", "commit", "rollback"}
      BY <1>2, OpsAreApart DEF Own
    <2>2. \A i \in Places : queue[i].cmd \in Own(queue[i].op)
      BY DEF IInv, Running, Kinds
    <2> QED  BY <1>7, <2>1, <2>2 DEF Reads
  <1>9. /\ Running'
        /\ \A w \in Writers : InTransaction(w)' <=> InTransaction(w)
        /\ OnlyAdds(o, "rollback")
    <2>1. "rollback" \in Own(o) /\ lock' = o /\ step' \in [Ops -> Nat] /\ lock \in {None, o}
      BY <1>1, <1>2, <1>4, OpsAreApart DEF Own
    <2>2. \A p \in Ops \ Readers : p # o => pc[p] \in {"idle", "lock", "done"}
      BY <1>2, <2>1, OthersAreQuiet
    <2>3. /\ Running'
          /\ \A w \in Writers :
                InTransaction(w)' <=> (InTransaction(w) \/ (w = o /\ "rollback" # "begin"))
          /\ OnlyAdds(o, "rollback")
      BY <1>1, <1>2, <1>6, <1>7, <1>8, <2>1, <2>2, SendKeepsRunning
    <2> QED  BY <2>3, <1>3
  <1>10. /\ pc'[o] = "rollback" /\ \A p \in Ops : p # o => pc'[p] = pc[p] /\ reply'[p] = reply[p]
    BY <1>1, <1>6 DEF IInv, Running, Kinds
  <1>11. \A w \in Writers : /\ (Early(w)' => Early(w)) /\ w \in Ops /\ (InBody(w)' => InBody(w))
                            /\ (InBody(w)' => w # o) /\ (Early(w)' => w # o)
    BY <1>10, OpsAreApart DEF Early, InBody, Ops
  <1>12. Progress' /\ Begun'
    BY <1>1, <1>10, <1>11 DEF IInv, Stored, Progress, Begun, InBody
  <1>13. Opened' /\ Clean' /\ Fresh' /\ (disk \subseteq view)' /\ WholeTransactions'
    BY <1>1, <1>9, <1>11 DEF IInv, Stored, Opened, Clean, Fresh, WholeTransactions
  <1>14. Ready'
    BY <1>1, <1>9 DEF IInv, Stored, Ready, OnlyAdds
  <1> QED  BY <1>9, <1>12, <1>13, <1>14 DEF IInv, Stored

-----------------------------------------------------------------------------
(* The thread executes the first command.                                  *)
LEMMA ServeKeepsRunning ==
  ASSUME IInv, queue # << >>, NEW c, c = Head(queue), NEW answer \in Replies, Serve(c, answer)
  PROVE  /\ Running' /\ c \in Commands /\ c = queue[1] /\ 1 \in Places /\ c.cmd \in Own(c.op)
         /\ \A o \in Ops : reply'[o] = (IF o = c.op /\ pc[o] = c.cmd THEN answer ELSE reply[o])
         /\ \A w \in Writers : InTransaction(w)' => InTransaction(w)
         /\ \A i \in Places' : \E j \in Places : j > 1 /\ queue'[i] = queue[j]
  <1>1. /\ Kinds /\ queue' = Tail(queue) /\ UNCHANGED <<lock, pc, step>>
        /\ reply' = IF pc[c.op] = c.cmd THEN [reply EXCEPT ![c.op] = answer] ELSE reply
    BY DEF IInv, Running, Serve
  <1>2. /\ queue' \in Seq(Commands) /\ 1 \in Places /\ c = queue[1] /\ c \in Commands
        /\ \A i \in Places' : /\ i \in Nat /\ i + 1 \in Places /\ i + 1 > 1
                              /\ queue'[i] = queue[i + 1]
                              /\ (Reads(i)' <=> Reads(i + 1)) /\ (Within(i)' <=> Within(i + 1))
        /\ \A i \in Places : i = 1 \/ (i \in Nat /\ i > 1 /\ i - 1 \in Places' /\ queue'[i - 1] = queue[i])
    BY <1>1, Removing
  <1>3. c.op \in Ops /\ c.cmd \in Awaiting /\ c.cmd \in Own(c.op)
    BY <1>1, <1>2 DEF Kinds, Commands
  <1>4. \A o \in Ops : reply'[o] = (IF o = c.op /\ pc[o] = c.cmd THEN answer ELSE reply[o])
    BY <1>1, <1>3 DEF Kinds
  <1>5. Kinds'
    <2>1. reply' \in [Ops -> Replies]
      BY <1>1 DEF Kinds
    <2>2. \A i \in Places' : queue'[i].cmd \in Own(queue'[i].op)
      BY <1>1, <1>2 DEF Kinds
    <2> QED  BY <1>1, <1>2, <2>1, <2>2 DEF Kinds
  <1>6. Holds'
    BY <1>1 DEF IInv, Running, Holds
  <1>7. Awaited'
    <2> SUFFICES ASSUME NEW o \in Ops \ Readers
                 PROVE  /\ pc[o] \in {"idle", "lock"} => \A i \in Places' : queue'[i].op # o
                        /\ pc[o] \notin Awaiting => reply'[o] = "none"
                        /\ pc[o] = "sleep" \/ reply'[o] # "none" => \A i \in Places' : Reads(i)'
                        /\ \A i, j \in Places' :
                              queue'[i].op = o /\ queue'[i].cmd = pc[o] /\ i < j => Reads(j)'
      BY <1>1 DEF Awaited
    <2>1. pc[o] \in {"idle", "lock"} => \A i \in Places' : queue'[i].op # o
      BY <1>2 DEF IInv, Running, Awaited
    <2>2. pc[o] \notin Awaiting => reply'[o] = "none"
      BY <1>3, <1>4 DEF IInv, Running, Awaited
    <2>3. \A i, j \in Places' :
              queue'[i].op = o /\ queue'[i].cmd = pc[o] /\ i < j => Reads(j)'
      <3> SUFFICES ASSUME NEW i \in Places', NEW j \in Places',
                          queue'[i].op = o, queue'[i].cmd = pc[o], i < j
                   PROVE  Reads(j)'
        OBVIOUS
      <3>1. /\ i + 1 \in Places /\ j + 1 \in Places /\ i + 1 < j + 1
            /\ queue[i + 1].op = o /\ queue[i + 1].cmd = pc[o]
        BY <1>2
      <3>2. Reads(j + 1)
        BY <3>1 DEF IInv, Running, Awaited
      <3> QED  BY <3>2, <1>2
    <2>4. pc[o] = "sleep" \/ reply'[o] # "none" => \A i \in Places' : Reads(i)'
      <3>1. CASE o = c.op /\ pc[o] = c.cmd
        BY <3>1, <1>2 DEF IInv, Running, Awaited
      <3>2. CASE ~(o = c.op /\ pc[o] = c.cmd)
        BY <3>2, <1>2, <1>4 DEF IInv, Running, Awaited
      <3> QED  BY <3>1, <3>2
    <2> QED  BY <2>1, <2>2, <2>3, <2>4
  <1>8. \A w \in Writers : (InBody(w)' <=> InBody(w)) /\ (Early(w)' <=> Early(w))
    BY <1>1 DEF InBody, Early
  <1>9. Bodies'
    <2> SUFFICES ASSUME NEW w \in Writers, InBody(w), NEW i \in Places'
                 PROVE  \/ Reads(i)'
                        \/ queue'[i].op = w /\ queue'[i].cmd = pc[w] /\ queue'[i].part = step[w] + 1
      BY <1>1, <1>8 DEF Bodies
    <2>1. \/ Reads(i + 1)
          \/ /\ queue[i + 1].op = w /\ queue[i + 1].cmd = pc[w]
             /\ queue[i + 1].part = step[w] + 1
      BY <1>2 DEF IInv, Running, Bodies
    <2> QED  BY <1>2, <2>1
  <1>10. Ordered'
    BY <1>2 DEF IInv, Running, Ordered
  <1>11. Ended'
    <2> SUFFICES ASSUME NEW i \in Places', queue'[i].cmd \in {"statement", "number"}
                 PROVE  \/ pc'[queue'[i].op] \in {"statement", "number"}
                        \/ \E j \in Places' : /\ i < j /\ queue'[j].op = queue'[i].op
                                              /\ queue'[j].cmd = "rollback"
      BY DEF Ended, InBody
    <2>1. CASE InBody(queue[i + 1].op)
      BY <2>1, <1>1, <1>2 DEF InBody
    <2>2. CASE ~InBody(queue[i + 1].op)
      <3>1. PICK j \in Places : /\ i + 1 < j /\ queue[j].op = queue[i + 1].op
                                /\ queue[j].cmd = "rollback"
        BY <2>2, <1>2 DEF IInv, Running, Ended
      <3>2. j \in Nat /\ j > 1 /\ j - 1 \in Places' /\ queue'[j - 1] = queue[j] /\ i < j - 1
        BY <3>1, <1>2
      <3> QED  BY <3>1, <3>2, <1>2
    <2> QED  BY <2>1, <2>2
  <1>12. \A w \in Writers : InTransaction(w)' => InTransaction(w)
    BY <1>2, <1>8 DEF InTransaction
  <1>13. Calm'
    BY <1>8, <1>12 DEF IInv, Running, Calm
  <1>14. \A i \in Places' : \E j \in Places : j > 1 /\ queue'[i] = queue[j]
    BY <1>2
  <1> QED  BY <1>2, <1>3, <1>4, <1>5, <1>6, <1>7, <1>9, <1>10, <1>11, <1>12, <1>13, <1>14
           DEF Running

(* Only COMMIT and ROLLBACK end a transaction, and no other is under way.  *)
LEMMA ServeGoesOn ==
  ASSUME IInv, queue # << >>, NEW c, c = Head(queue), NEW answer \in Replies, Serve(c, answer),
         c.cmd \notin {"commit", "rollback"}
  PROVE  \A w \in Writers : InTransaction(w)' <=> InTransaction(w)
  <1> SUFFICES ASSUME NEW w \in Writers, InTransaction(w) PROVE InTransaction(w)'
    BY ServeKeepsRunning
  <1>1. Kinds /\ queue' = Tail(queue) /\ pc' = pc
    BY DEF IInv, Running, Serve
  <1>2. /\ c = queue[1] /\ 1 \in Places
        /\ \A i \in Places : i = 1 \/ (i \in Nat /\ i > 1 /\ i - 1 \in Places' /\ queue'[i - 1] = queue[i])
    BY <1>1, Removing
  <1>3. CASE InBody(w)
    BY <1>1, <1>3 DEF InBody, InTransaction
  <1>4. CASE ~InBody(w)
    <2>1. PICK i \in Places : queue[i].op = w /\ Within(i)
      BY <1>4 DEF InTransaction
    <2>2. PICK j \in Places : queue[j].op = w /\ Within(j) /\ j # 1
      <3>1. CASE i # 1
        BY <2>1, <3>1
      <3>2. CASE i = 1
        <4>1. c.cmd \in {"statement", "number"} /\ c.op = w
          BY <2>1, <3>2, <1>2 DEF Within
        <4>2. PICK j \in Places : 1 < j /\ queue[j].op = w /\ queue[j].cmd = "rollback"
          BY <4>1, <1>2, <1>4 DEF IInv, Running, Ended
        <4> QED  BY <4>2 DEF Within
      <3> QED  BY <3>1, <3>2
    <2>3. j - 1 \in Places' /\ queue'[j - 1] = queue[j]
      BY <1>2, <2>2
    <2> QED  BY <2>2, <2>3 DEF InTransaction, Within
  <1> QED  BY <1>3, <1>4

LEMMA ServeEnds ==
  ASSUME IInv, queue # << >>, NEW c, c = Head(queue), NEW answer \in Replies, Serve(c, answer),
         c.cmd \in {"commit", "rollback"}
  PROVE  /\ c.op \in Writers /\ InTransaction(c.op) /\ ~Early(c.op)
         /\ \A w \in Writers : ~InBody(w) /\ ~InTransaction(w)' /\ (InTransaction(w) => w = c.op)
         /\ \A w \in Writers : reply[w] = "none"
         /\ \A i \in Places' : ~Within(i)'
  <1>1. /\ Kinds /\ queue' = Tail(queue) /\ pc' = pc /\ c = queue[1] /\ 1 \in Places
        /\ c.op \in Ops /\ c.cmd \in Own(c.op)
    BY ServeKeepsRunning DEF IInv, Running, Serve, Commands
  <1>2. /\ \A i \in Places' : /\ i + 1 \in Places /\ i + 1 > 1 /\ queue'[i] = queue[i + 1]
                              /\ (Within(i)' <=> Within(i + 1))
        /\ \A i \in Places : i = 1 \/ i > 1
    BY <1>1, Removing
  <1>3. c.op \in Writers /\ Within(1) /\ ~Reads(1) /\ InTransaction(c.op)
    BY <1>1, OpsAreApart DEF Own, Within, Reads, InTransaction
  <1>4. \A w \in Writers : ~InBody(w)
    BY <1>1, <1>3 DEF IInv, Running, Bodies, InBody
  <1>5. \A i \in Places : ~Within(i) \/ i = 1
    BY <1>1, <1>2, <1>3 DEF IInv, Running, Ordered
  <1>6. /\ \A w \in Writers : ~InTransaction(w)' /\ (InTransaction(w) => w = c.op)
        /\ \A i \in Places' : ~Within(i)'
    <2>1. \A w \in Writers : InTransaction(w) => w = c.op
      BY <1>1, <1>4, <1>5 DEF InTransaction
    <2>2. \A w \in Writers : ~InBody(w)'
      BY <1>1, <1>4 DEF InBody
    <2>3. \A i \in Places' : ~Within(i)'
      BY <1>2, <1>5
    <2> QED  BY <2>1, <2>2, <2>3 DEF InTransaction
  <1>7. ~Early(c.op)
    BY <1>3 DEF IInv, Running, Calm
  <1>8. \A w \in Writers : reply[w] = "none"
    BY <1>1, <1>3, OpsAreApart DEF IInv, Running, Awaited, Ops
  <1> QED  BY <1>3, <1>4, <1>6, <1>7, <1>8

(* A command that neither writes nor ends a transaction.                   *)
LEMMA ServePlain ==
  ASSUME IInv, queue # << >>, NEW c, c = Head(queue), NEW answer \in Replies, Serve(c, answer),
         c.cmd \notin {"commit", "rollback"}, UNCHANGED <<disk, view>>,
         open' = (IF c.cmd = "begin" /\ answer # "locked" THEN TRUE ELSE open),
         c.cmd = "statement" => answer # "ok"
  PROVE  IInv'
  <1>1. /\ Running' /\ c \in Commands /\ c.cmd \in Own(c.op)
        /\ \A o \in Ops : reply'[o] = (IF o = c.op /\ pc[o] = c.cmd THEN answer ELSE reply[o])
        /\ \A i \in Places' : \E j \in Places : j > 1 /\ queue'[i] = queue[j]
    BY ServeKeepsRunning
  <1>2. \A w \in Writers : InTransaction(w)' <=> InTransaction(w)
    BY ServeGoesOn
  <1>3. pc' = pc /\ step' = step
    BY DEF Serve
  <1>4. \A w \in Writers : w \in Ops /\ (Early(w)' <=> Early(w)) /\ (InBody(w)' <=> InBody(w))
    BY <1>3, OpsAreApart DEF Early, InBody, Ops
  <1>5. Begun'
    BY <1>1, <1>3, <1>4 DEF IInv, Stored, Begun
  <1>6. Progress'
    BY <1>1, <1>3, <1>4 DEF IInv, Stored, Progress
  <1>7. Ready' /\ WholeTransactions' /\ (disk \subseteq view)'
    BY <1>1 DEF IInv, Stored, Ready, WholeTransactions
  <1>8. Opened' /\ Clean' /\ Fresh'
    BY <1>2, <1>4 DEF IInv, Stored, Opened, Clean, Fresh
  <1> QED  BY <1>1, <1>5, <1>6, <1>7, <1>8 DEF IInv, Stored

LEMMA WriteKeeps ==
  ASSUME IInv, queue # << >>, NEW c, c = Head(queue), ServeWrite(c)
  PROVE  IInv'
  <1>1. /\ c.cmd \in {"statement", "execute"} /\ Serve(c, "ok") /\ "ok" \in Replies
        /\ view' = view \union {<<c.op, c.part>>} /\ open' = open
        /\ disk' = IF open THEN disk ELSE disk \union {<<c.op, c.part>>}
    BY DEF ServeWrite, Replies
  <1>2. /\ Running' /\ c \in Commands /\ c = queue[1] /\ 1 \in Places /\ c.cmd \in Own(c.op)
        /\ \A o \in Ops : reply'[o] = (IF o = c.op /\ pc[o] = c.cmd THEN "ok" ELSE reply[o])
        /\ \A i \in Places' : \E j \in Places : j > 1 /\ queue'[i] = queue[j]
    BY <1>1, ServeKeepsRunning
  <1>3. \A w \in Writers : InTransaction(w)' <=> InTransaction(w)
    BY <1>1, ServeGoesOn
  <1>4. pc' = pc /\ step' = step
    BY <1>1 DEF Serve
  <1>5. \A w \in Writers : w \in Ops /\ (Early(w)' <=> Early(w)) /\ (InBody(w)' <=> InBody(w))
    BY <1>4, OpsAreApart DEF Early, InBody, Ops
  <1>6. \A w \in Writers : w = c.op => c.cmd = "statement" /\ InTransaction(w) /\ open
    <2>1. \A w \in Writers : w = c.op => c.cmd = "statement"
      BY <1>1, <1>2, OpsAreApart DEF Own
    <2>2. \A w \in Writers : w = c.op => InTransaction(w)
      BY <2>1, <1>2 DEF InTransaction, Within
    <2> QED  BY <2>1, <2>2 DEF IInv, Stored, Opened
  <1>7. c.op \in Writers => disk' = disk
    BY <1>1, <1>6
  <1>8. \A w \in Writers : w # c.op => /\ Rows[w] \intersect view' = Rows[w] \intersect view
                                       /\ Rows[w] \intersect disk' = Rows[w] \intersect disk
    BY <1>1, RowsOfWriter
  <1>9. \A w \in Writers : /\ Rows[w] \intersect disk' = Rows[w] \intersect disk
                           /\ Rows[w] \subseteq disk <=> Rows[w] \subseteq disk'
    BY <1>1, <1>6, <1>8
  <1>10. view \subseteq view' /\ disk' \subseteq view'
    BY <1>1 DEF IInv, Stored
  <1>11. Begun' /\ Opened'
    BY <1>1, <1>2, <1>3, <1>4, <1>5 DEF IInv, Stored, Begun, Opened
  <1>12. Progress'
    <2> SUFFICES ASSUME NEW w \in Writers
                 PROVE  /\ Early(w) => step[w] = 0
                        /\ InBody(w) => \A k \in 1..step[w] : <<w, k>> \in view'
                        /\ pc[w] = "statement" => step[w] < Statements[w]
                               /\ (reply'[w] = "ok" => <<w, step[w] + 1>> \in view')
                        /\ pc[w] = "number" => step[w] = Statements[w]
      BY <1>4, <1>5 DEF Progress
    <2>1. /\ Early(w) => step[w] = 0
          /\ InBody(w) => \A k \in 1..step[w] : <<w, k>> \in view
          /\ pc[w] = "statement" => step[w] < Statements[w]
                 /\ (reply[w] = "ok" => <<w, step[w] + 1>> \in view)
          /\ pc[w] = "number" => step[w] = Statements[w]
      BY DEF IInv, Stored, Progress
    <2>2. pc[w] = "statement" /\ reply'[w] = "ok" => <<w, step[w] + 1>> \in view'
      <3>1. CASE w = c.op /\ pc[w] = c.cmd
        <4>1. pc[w] = "statement" => c.part = step[w] + 1
          BY <3>1, <1>1, <1>2 DEF IInv, Running, Bodies, InBody, Reads
        <4> QED  BY <4>1, <3>1, <1>1
      <3>2. CASE ~(w = c.op /\ pc[w] = c.cmd)
        BY <3>2, <2>1, <1>2, <1>5, <1>10
      <3> QED  BY <3>1, <3>2
    <2> QED  BY <2>1, <2>2, <1>10
  <1>13. Ready'
    BY <1>2, <1>10 DEF IInv, Stored, Ready
  <1>14. Clean'
    <2> SUFFICES ASSUME NEW w \in Writers, ~InTransaction(w)
                 PROVE  Rows[w] \intersect view' \subseteq disk'
      BY <1>3 DEF Clean
    <2>1. w # c.op
      BY <1>6
    <2> QED  BY <2>1, <1>8 DEF IInv, Stored, Clean
  <1>15. Fresh' /\ WholeTransactions'
    BY <1>3, <1>5, <1>9 DEF IInv, Stored, Fresh, WholeTransactions
  <1> QED  BY <1>2, <1>10, <1>11, <1>12, <1>13, <1>14, <1>15 DEF IInv, Stored

LEMMA EndKeeps ==
  ASSUME IInv, queue # << >>, NEW c, c = Head(queue), ServeCommit(c) \/ ServeRollback(c)
  PROVE  IInv'
  <1>1. PICK answer \in Replies : Serve(c, answer)
    BY DEF ServeCommit, ServeRollback, Replies
  <1>2. c.cmd \in {"commit", "rollback"} /\ pc' = pc /\ step' = step
    BY <1>1 DEF ServeCommit, ServeRollback, Serve
  <1>3. /\ Running' /\ c \in Commands /\ c = queue[1] /\ 1 \in Places
        /\ \A o \in Ops : reply'[o] = (IF o = c.op /\ pc[o] = c.cmd THEN answer ELSE reply[o])
        /\ \A i \in Places' : \E j \in Places : j > 1 /\ queue'[i] = queue[j]
    BY <1>1, ServeKeepsRunning
  <1>4. /\ c.op \in Writers /\ InTransaction(c.op) /\ ~Early(c.op)
        /\ \A w \in Writers : ~InBody(w) /\ ~InTransaction(w)' /\ (InTransaction(w) => w = c.op)
        /\ \A w \in Writers : reply[w] = "none"
        /\ \A i \in Places' : ~Within(i)'
    BY <1>1, <1>2, ServeEnds
  <1>5. \A w \in Writers : w \in Ops /\ (Early(w)' <=> Early(w)) /\ (InBody(w)' <=> InBody(w))
    BY <1>2, OpsAreApart DEF Early, InBody, Ops
  <1>6. Begun' /\ Opened'
    BY <1>2, <1>3, <1>4, <1>5 DEF Begun, Opened, Early
  <1>7. Progress'
    BY <1>2, <1>4, <1>5 DEF IInv, Stored, Progress, InBody
  <1>8. Ready'
    <2>1. \A i \in Places' : queue'[i].cmd # "commit"
      BY <1>4 DEF Within
    <2> QED  BY <2>1 DEF Ready
  <1>9. \A w \in Writers : w # c.op => Rows[w] \intersect view \subseteq disk
    BY <1>4 DEF IInv, Stored, Clean
  <1>10. CASE ServeCommit(c)
    <2>1. disk' = view /\ view' = view /\ Rows[c.op] \subseteq view
      BY <1>3, <1>10 DEF ServeCommit, IInv, Stored, Ready
    <2>2. \A w \in Writers : w # c.op => Rows[w] \intersect disk' = Rows[w] \intersect disk
      BY <1>9, <2>1 DEF IInv, Stored
    <2>3. Clean' /\ (disk \subseteq view)'
      BY <2>1 DEF Clean
    <2>4. Fresh'
      BY <1>4, <1>5, <2>2 DEF IInv, Stored, Fresh
    <2>5. WholeTransactions'
      BY <2>1, <2>2 DEF IInv, Stored, WholeTransactions
    <2> QED  BY <1>3, <1>6, <1>7, <1>8, <2>3, <2>4, <2>5 DEF IInv, Stored
  <1>11. CASE ServeRollback(c)
    <2>1. disk' = disk /\ view' = disk
      BY <1>11 DEF ServeRollback
    <2> QED  BY <1>3, <1>4, <1>5, <1>6, <1>7, <1>8, <2>1
             DEF IInv, Stored, Clean, Fresh, WholeTransactions
  <1> QED  BY <1>10, <1>11

LEMMA ThreadKeeps == IInv /\ Thread => IInv'
  <1> SUFFICES ASSUME IInv, Thread PROVE IInv'
    OBVIOUS
  <1>1. PICK c : c = Head(queue)
    OBVIOUS
  <1>2. queue # << >> /\ \/ ServeLocked(c) \/ ServeBegin(c) \/ ServeWrite(c) \/ ServeRefused(c)
                         \/ ServeCommit(c) \/ ServeRollback(c) \/ ServeRead(c)
    BY <1>1 DEF Thread
  <1>3. CASE ServeLocked(c)
    BY <1>1, <1>2, <1>3, ServePlain DEF ServeLocked, Replies, sqlite
  <1>4. CASE ServeBegin(c)
    BY <1>1, <1>2, <1>4, ServePlain DEF ServeBegin, Replies
  <1>5. CASE ServeRefused(c)
    BY <1>1, <1>2, <1>5, ServePlain DEF ServeRefused, Replies, sqlite
  <1>6. CASE ServeRead(c)
    BY <1>1, <1>2, <1>6, ServePlain DEF ServeRead, Replies, sqlite
  <1> QED  BY <1>1, <1>2, <1>3, <1>4, <1>5, <1>6, WriteKeeps, EndKeeps

-----------------------------------------------------------------------------
(* The process stops: nothing of it is left but what is committed.         *)
LEMMA StopKeeps ==
  ASSUME IInv, Stop
  PROVE  IInv'
  <1>1. /\ queue' = << >> /\ open' = FALSE /\ view' = disk /\ disk' = disk
        /\ pc' = [o \in Ops |-> IF Restarted(o) \/ pc[o] = "idle" THEN "idle" ELSE "done"]
        /\ step' = [o \in Ops |-> 0] /\ reply' = [o \in Ops |-> "none"]
    BY DEF Stop
  <1>2. Places' = {} /\ queue' \in Seq(Commands)
    BY <1>1 DEF Places
  <1>3. \A o \in Ops : pc'[o] \in {"idle", "done"} /\ step'[o] = 0 /\ reply'[o] = "none"
    BY <1>1
  <1>4. \A w \in Writers : w \in Ops /\ ~InTransaction(w)' /\ ~InBody(w)'
    BY <1>2, <1>3, OpsAreApart DEF InTransaction, InBody, Ops
  <1>5. Running'
    <2>1. Kinds'
      BY <1>1, <1>2, <1>3 DEF Kinds, Phases, Replies
    <2>2. Holds' /\ Awaited' /\ Bodies'
      BY <1>2, <1>3, <1>4 DEF Holds, Awaited, Bodies
    <2>3. Ordered' /\ Ended' /\ Calm'
      BY <1>2, <1>4 DEF Ordered, Ended, Calm
    <2> QED  BY <2>1, <2>2, <2>3 DEF Running
  <1>6. Begun' /\ Progress'
    BY <1>3, <1>4 DEF Begun, Progress
  <1>7. Ready' /\ Opened' /\ Clean'
    BY <1>1, <1>2, <1>4 DEF Ready, Opened, Clean
  <1>8. Fresh'
    <2> SUFFICES ASSUME NEW w \in Writers, Early(w)' PROVE Rows[w] \intersect disk = {}
      BY <1>1, <1>4 DEF Fresh
    <2>1. CASE pc[w] = "idle"
      BY <2>1 DEF IInv, Stored, Fresh, Early
    <2>2. CASE pc[w] # "idle"
      <3>1. Restarted(w)
        BY <2>2, <1>1, <1>4 DEF Early
      <3> QED  BY <3>1 DEF Restarted, Applied, IInv, Stored, WholeTransactions
    <2> QED  BY <2>1, <2>2
  <1>9. (disk \subseteq view)' /\ WholeTransactions'
    BY <1>1 DEF IInv, Stored, WholeTransactions
  <1> QED  BY <1>5, <1>6, <1>7, <1>8, <1>9 DEF IInv, Stored

LEMMA CallKeeps ==
  ASSUME IInv, NEW o \in Ops, Call(o)
  PROVE  IInv'
  <1>1. UNCHANGED <<lock, step, reply, open, disk, view>> /\ pc[o] = "idle"
    BY DEF Call, sqlite
  <1>2. CASE o \in Readers
    <2>1. PICK n \in Nat : n = step[o] + 1
      BY DEF IInv, Running, Kinds
    <2>2. Sent(o, "row", n) /\ pc' = [pc EXCEPT ![o] = "row"] /\ reply' \in [Ops -> Replies]
      BY <1>1, <1>2, <2>1 DEF Call, Submit, Sent, IInv, Running, Kinds
    <2> QED  BY <1>1, <1>2, <2>2, ReadKeeps
  <1>3. CASE o \notin Readers
    <2>1. queue' = queue /\ pc' = [pc EXCEPT ![o] = "lock"]
      BY <1>3 DEF Call
    <2>2. /\ pc'[o] = "lock" /\ \A p \in Ops : p # o => pc'[p] = pc[p]
          /\ pc' \in [Ops -> Phases] /\ Places' = Places
          /\ \A i \in Places : (Reads(i)' <=> Reads(i)) /\ (Within(i)' <=> Within(i))
      BY <2>1 DEF IInv, Running, Kinds, Phases, Places, Reads, Within
    <2>3. \A w \in Writers : w \in Ops /\ (Early(w)' <=> Early(w)) /\ (InBody(w)' <=> InBody(w))
      BY <1>1, <2>2, OpsAreApart DEF Early, InBody, Ops
    <2>4. \A w \in Writers : InTransaction(w)' <=> InTransaction(w)
      BY <2>1, <2>2, <2>3 DEF InTransaction
    <2>5. Kinds' /\ Holds'
      BY <1>1, <1>3, <2>1, <2>2 DEF IInv, Running, Kinds, Holds
    <2>6. Awaited'
      <3> SUFFICES ASSUME NEW p \in Ops \ Readers
                   PROVE  /\ pc'[p] \in {"idle", "lock"} => \A i \in Places : queue[i].op # p
                          /\ pc'[p] \notin Awaiting => reply[p] = "none"
                          /\ pc'[p] = "sleep" \/ reply[p] # "none" => \A i \in Places : Reads(i)
                          /\ \A i, j \in Places :
                                queue[i].op = p /\ queue[i].cmd = pc'[p] /\ i < j => Reads(j)
        BY <1>1, <2>1, <2>2 DEF Awaited
      <3>1. CASE p # o
        BY <3>1, <2>2 DEF IInv, Running, Awaited
      <3>2. CASE p = o
        BY <3>2, <1>1, <2>2 DEF IInv, Running, Awaited, Awaiting
      <3> QED  BY <3>1, <3>2
    <2>7. Bodies' /\ Calm'
      BY <1>1, <2>1, <2>2, <2>3, <2>4 DEF IInv, Running, Bodies, Calm, InBody
    <2>8. Ordered' /\ Ended'
      <3>1. \A i \in Places : queue[i].cmd \in {"statement", "number"} => queue[i].op \in Writers
        BY OpsAreApart DEF IInv, Running, Kinds, Own
      <3> QED  BY <2>1, <2>2, <2>3, <3>1 DEF IInv, Running, Ordered, Ended, InBody
    <2>9. Begun' /\ Progress'
      BY <1>1, <2>2, <2>3 DEF IInv, Stored, Begun, Progress
    <2>10. Ready' /\ Opened' /\ Clean' /\ Fresh' /\ WholeTransactions' /\ (disk \subseteq view)'
      BY <1>1, <2>1, <2>2, <2>3, <2>4
      DEF IInv, Stored, Ready, Opened, Clean, Fresh, WholeTransactions
    <2> QED  BY <2>5, <2>6, <2>7, <2>8, <2>9, <2>10 DEF IInv, Running, Stored
  <1> QED  BY <1>2, <1>3

(* The ways out of an operation.                                           *)
LEMMA LeaveKeeps ==
  ASSUME IInv, NEW o \in Ops, NEW how, Leave(o, how), reply' = [reply EXCEPT ![o] = "none"],
         pc[o] \in {"begin", "sleep", "commit", "rollback", "execute"}
  PROVE  IInv'
  <1>1. /\ pc' = [pc EXCEPT ![o] = "done"] /\ step' = [step EXCEPT ![o] = 0] /\ lock' = None
        /\ UNCHANGED <<queue, open, disk, view>>
    BY DEF Leave, Finish, sqlite
  <1>2. o \notin Readers /\ ~InBody(o)
    BY OpsAreApart DEF IInv, Running, Kinds, Own, InBody
  <1>3. lock = o
    BY <1>2 DEF IInv, Running, Holds
  <1>4. step' \in [Ops -> Nat] /\ \A p \in Ops \ {o} : step'[p] = step[p]
    BY <1>1 DEF IInv, Running, Kinds
  <1> QED  BY <1>1, <1>2, <1>3, <1>4, QuitKeeps

LEMMA FinishKeeps ==
  ASSUME IInv, NEW o \in Ops, NEW how, Finish(o, how), reply' = [reply EXCEPT ![o] = "none"],
         pc[o] \in {"lock", "row", "children"}, UNCHANGED <<lock, queue, open, disk, view>>
  PROVE  IInv'
  <1>1. /\ pc' = [pc EXCEPT ![o] = "done"] /\ step' = [step EXCEPT ![o] = 0]
    BY DEF Finish
  <1>2. ~InBody(o) /\ (o \in Readers \/ pc[o] = "lock")
    BY OpsAreApart DEF IInv, Running, Kinds, Own, InBody
  <1>3. step' \in [Ops -> Nat] /\ \A p \in Ops \ {o} : step'[p] = step[p]
    BY <1>1 DEF IInv, Running, Kinds
  <1> QED  BY <1>1, <1>2, <1>3, QuitKeeps

LEMMA ResumeKeeps ==
  ASSUME IInv, NEW o \in Ops, Resume(o)
  PROVE  IInv'
  <1>1. CASE Proceed(o)
    BY <1>1, ProceedKeeps
  <1>2. CASE StatementFails(o)
    BY <1>2, RollBackKeeps DEF StatementFails
  <1>3. CASE Complete(o)
    <2>1. PICK how : Leave(o, how)
      BY <1>3 DEF Complete
    <2>2. /\ pc[o] \in {"begin", "sleep", "commit", "rollback", "execute"}
          /\ reply' = [reply EXCEPT ![o] = "none"]
      BY <1>3 DEF Complete, Resumes
    <2> QED  BY <2>1, <2>2, LeaveKeeps
  <1>4. CASE LockedAnswer(o)
    <2>1. /\ pc[o] \in {"begin", "execute"} /\ reply[o] = "locked"
          /\ reply' = [reply EXCEPT ![o] = "none"]
      BY <1>4 DEF LockedAnswer, Resumes
    <2>2. CASE tries[o] + 1 < MaxLockRetries
      <3>1. pc' = [pc EXCEPT ![o] = "sleep"] /\ UNCHANGED <<lock, step, queue, open, disk, view>>
        BY <2>2, <1>4 DEF LockedAnswer, sqlite
      <3>2. o \notin Readers /\ ~InBody(o) /\ step \in [Ops -> Nat]
        BY <2>1, OpsAreApart DEF IInv, Running, Kinds, Own, InBody
      <3> QED  BY <2>1, <3>1, <3>2, QuitKeeps
    <2>3. CASE ~(tries[o] + 1 < MaxLockRetries)
      <3>1. Leave(o, "failed")
        BY <2>3, <1>4 DEF LockedAnswer
      <3> QED  BY <2>1, <3>1, LeaveKeeps
    <2> QED  BY <2>2, <2>3
  <1>5. CASE Retry(o)
    <2>1. /\ pc[o] = "sleep" /\ Submit(o, IF o \in Writers THEN "begin" ELSE "execute")
          /\ UNCHANGED <<lock, step, reply, open, disk, view>>
      BY <1>5 DEF Retry, sqlite
    <2>2. o \notin Readers
      BY <2>1, OpsAreApart DEF IInv, Running, Kinds, Own
    <2>3. lock = o
      BY <2>1, <2>2 DEF IInv, Running, Holds
    <2> QED  BY <2>1, <2>2, <2>3, FirstKeeps
  <1>6. CASE ReadOn(o)
    <2>1. /\ pc[o] = "row" /\ reply' = [reply EXCEPT ![o] = "none"]
          /\ UNCHANGED <<lock, open, disk, view>>
      BY <1>6 DEF ReadOn, Resumes, sqlite
    <2>2. CASE seen[o] = {}
      <3>1. Finish(o, "ok") /\ queue' = queue
        BY <2>2, <1>6 DEF ReadOn
      <3> QED  BY <2>1, <3>1, FinishKeeps
    <2>3. CASE seen[o] # {}
      <3>1. Submit(o, "children") /\ step' = step
        BY <2>3, <1>6 DEF ReadOn
      <3>2. o \in Readers
        BY <2>1, OpsAreApart DEF IInv, Running, Kinds, Own
      <3>3. PICK n \in Nat : n = step[o] + 1
        BY DEF IInv, Running, Kinds
      <3>4. Sent(o, "children", n) /\ pc' = [pc EXCEPT ![o] = "children"]
        BY <3>1, <3>3 DEF Submit, Sent
      <3>5. reply' \in [Ops -> Replies] /\ \A p \in Ops \ Readers : reply'[p] = reply[p]
        BY <2>1, <3>2 DEF IInv, Running, Kinds, Replies
      <3> QED  BY <2>1, <3>1, <3>2, <3>4, <3>5, ReadKeeps
    <2> QED  BY <2>2, <2>3
  <1>7. CASE ReadEnds(o)
    <2>1. /\ pc[o] = "children" /\ reply' = [reply EXCEPT ![o] = "none"]
          /\ UNCHANGED <<lock, queue, open, disk, view>>
          /\ Finish(o, IF seen[o] \subseteq {<<Subject[o], 1>>} THEN "failed" ELSE "ok")
      BY <1>7 DEF ReadEnds, Resumes, sqlite
    <2> QED  BY <2>1, FinishKeeps
  <1> QED  BY <1>1, <1>2, <1>3, <1>4, <1>5, <1>6, <1>7 DEF Resume

LEMMA CancelKeeps ==
  ASSUME IInv, NEW o \in Ops, Cancel(o)
  PROVE  IInv'
  <1>1. CASE CancelWait(o)
    <2>1. /\ pc[o] = "lock" /\ Finish(o, "cancelled")
          /\ UNCHANGED <<lock, queue, reply, open, disk, view>>
      BY <1>1 DEF CancelWait, sqlite
    <2>2. o \notin Readers
      BY <2>1, OpsAreApart DEF IInv, Running, Kinds, Own
    <2>3. reply[o] = "none" /\ reply \in [Ops -> Replies]
      BY <2>1, <2>2 DEF IInv, Running, Kinds, Awaited, Awaiting
    <2>4. reply' = [reply EXCEPT ![o] = "none"]
      BY <2>1, <2>3
    <2> QED  BY <2>1, <2>4, FinishKeeps
  <1>2. CASE CancelBody(o)
    BY <1>2, RollBackKeeps DEF CancelBody
  <1>3. CASE CancelOutside(o)
    BY <1>3, LeaveKeeps DEF CancelOutside
  <1>4. CASE CancelRead(o)
    BY <1>4, FinishKeeps DEF CancelRead, sqlite
  <1> QED  BY <1>1, <1>2, <1>3, <1>4 DEF Cancel

LEMMA UnchangedKeeps == IInv /\ UNCHANGED vars => IInv'
  <1> SUFFICES ASSUME IInv, UNCHANGED vars PROVE IInv'
    OBVIOUS
  <1> QED  BY DEF vars, IInv, Running, Stored, Kinds, Holds, Awaited, Bodies, Ordered, Ended, Calm,
                  Begun, Progress, Ready, Opened, Clean, Fresh, WholeTransactions, Early, InBody,
                  InTransaction, Places, Reads, Within

LEMMA NextKeeps == IInv /\ [Next]_vars => IInv'
  <1> SUFFICES ASSUME IInv, [Next]_vars PROVE IInv'
    OBVIOUS
  <1>1. ASSUME NEW o \in Ops, Call(o) PROVE IInv'
    BY <1>1, CallKeeps
  <1>2. ASSUME NEW o \in Ops, Enter(o) PROVE IInv'
    <2>1. /\ pc[o] = "lock" /\ lock = None /\ lock' = o
          /\ Submit(o, IF o \in Writers THEN "begin" ELSE "execute")
          /\ UNCHANGED <<step, reply, open, disk, view>>
      BY <1>2 DEF Enter, sqlite
    <2>2. o \notin Readers
      BY <2>1, OpsAreApart DEF IInv, Running, Kinds, Own
    <2> QED  BY <2>1, <2>2, FirstKeeps
  <1>3. ASSUME NEW o \in Ops, Resume(o) PROVE IInv'
    BY <1>3, ResumeKeeps
  <1>4. ASSUME NEW o \in Ops, Cancel(o) PROVE IInv'
    BY <1>4, CancelKeeps
  <1>5. CASE Thread
    BY <1>5, ThreadKeeps
  <1>6. CASE Stop
    BY <1>6, StopKeeps
  <1>7. CASE Quiet \/ UNCHANGED vars
    BY <1>7, UnchangedKeeps DEF Quiet
  <1> QED  BY <1>1, <1>2, <1>3, <1>4, <1>5, <1>6, <1>7 DEF Next

THEOREM InvariantHolds == Spec => []IInv
  BY InitKeeps, NextKeeps, PTL DEF Spec

(* Whatever is cancelled, refused or cut off by a stop: what is committed  *)
(* holds every row of a transaction or none.                               *)
THEOREM TransactionsAreWhole == Spec => []WholeTransactions
  <1>1. IInv => WholeTransactions
    BY DEF IInv, Stored
  <1> QED  BY <1>1, InvariantHolds, PTL

-----------------------------------------------------------------------------
(* What a step does to the committed rows of a writer: only its own COMMIT *)
(* changes them, and all at once.                                          *)
LEMMA CommitAppliesOne ==
  ASSUME IInv, queue # << >>, NEW c, c = Head(queue), ServeCommit(c)
  PROVE  /\ c.op \in Writers /\ InTransaction(c.op) /\ open
         /\ Rows[c.op] \intersect disk = {} /\ Rows[c.op] \subseteq disk'
         /\ \A w \in Writers : w # c.op => Rows[w] \intersect disk' = Rows[w] \intersect disk
  <1>1. PICK answer \in Replies : Serve(c, answer)
    BY DEF ServeCommit, Replies
  <1>2. c.cmd = "commit" /\ disk' = view
    BY DEF ServeCommit
  <1>3. /\ c.op \in Writers /\ InTransaction(c.op)
        /\ \A w \in Writers : InTransaction(w) => w = c.op
    BY <1>1, <1>2, ServeEnds
  <1>4. c = queue[1] /\ 1 \in Places
    BY <1>1, ServeKeepsRunning
  <1>5. Rows[c.op] \intersect disk = {} /\ Rows[c.op] \subseteq view /\ open
    BY <1>2, <1>3, <1>4 DEF IInv, Stored, Fresh, Ready, Opened
  <1>6. \A w \in Writers : w # c.op => Rows[w] \intersect view = Rows[w] \intersect disk
    BY <1>3 DEF IInv, Stored, Clean
  <1> QED  BY <1>2, <1>3, <1>5, <1>6

LEMMA WriteSparesDisk ==
  ASSUME IInv, queue # << >>, NEW c, c = Head(queue), ServeWrite(c)
  PROVE  /\ \A w \in Writers : Rows[w] \intersect disk' = Rows[w] \intersect disk
         /\ \A w \in Writers : w = c.op => Rows[w] \intersect disk = {}
  <1>1. /\ c.cmd \in {"statement", "execute"} /\ Serve(c, "ok") /\ "ok" \in Replies
        /\ disk' = IF open THEN disk ELSE disk \union {<<c.op, c.part>>}
    BY DEF ServeWrite, Replies
  <1>2. c = queue[1] /\ 1 \in Places /\ c.cmd \in Own(c.op)
    BY <1>1, ServeKeepsRunning
  <1>3. \A w \in Writers : w = c.op => open /\ Rows[w] \intersect disk = {}
    <2>1. \A w \in Writers : w = c.op => c.cmd = "statement"
      BY <1>1, <1>2, OpsAreApart DEF Own
    <2>2. \A w \in Writers : w = c.op => InTransaction(w)
      BY <2>1, <1>2 DEF InTransaction, Within
    <2> QED  BY <2>2 DEF IInv, Stored, Opened, Fresh
  <1>4. \A w \in Writers : w # c.op => Rows[w] \intersect disk' = Rows[w] \intersect disk
    BY <1>1, RowsOfWriter
  <1> QED  BY <1>1, <1>3, <1>4

(* What the caller of a writer is told agrees with what is committed.      *)
Committing(w) == \E i \in Places : queue[i].op = w /\ queue[i].cmd = "commit"

Told(w) ==
    /\ pc[w] = "commit" => reply[w] = "none" \/ (reply[w] = "ok" /\ Applied(w))
    /\ pc[w] = "rollback" =>
          outcome[w] \in {"failed", "cancelled"} /\ ~Applied(w) /\ ~Committing(w)
    /\ pc[w] = "done" /\ InTransaction(w) => outcome[w] = "cancelled"

TInv == IInv /\ outcome \in [Ops -> Outcomes] /\ \A w \in Writers : Told(w)

LEMMA NotApplied ==
  ASSUME NEW w \in Writers, Rows[w] \intersect disk = {}
  PROVE  ~Applied(w)
  <1>1. <<w, 1>> \in Rows[w]
    BY RowsOfWriter
  <1> QED  BY <1>1 DEF Applied

LEMMA ToldStays ==
  ASSUME NEW w \in Writers, Told(w), pc'[w] = pc[w], outcome'[w] = outcome[w],
         pc[w] = "commit" => reply'[w] = "none" \/ (reply'[w] = "ok" /\ Applied(w)'),
         Rows[w] \intersect disk' = Rows[w] \intersect disk \/ (Committing(w) /\ Rows[w] \subseteq disk'),
         Committing(w)' => Committing(w), InTransaction(w)' => InTransaction(w)
  PROVE  Told(w)'
  BY DEF Told, Applied

LEMMA ThreadTells ==
  ASSUME TInv, Thread
  PROVE  \A w \in Writers : Told(w)'
  <1>0. IInv /\ \A w \in Writers : w \in Ops /\ Told(w)
    BY OpsAreApart DEF TInv, Ops
  <1>1. PICK c : c = Head(queue)
    OBVIOUS
  <1>2. queue # << >> /\ \/ ServeLocked(c) \/ ServeBegin(c) \/ ServeWrite(c) \/ ServeRefused(c)
                         \/ ServeCommit(c) \/ ServeRollback(c) \/ ServeRead(c)
    BY <1>1 DEF Thread
  <1>3. PICK answer \in Replies : Serve(c, answer)
    BY <1>2 DEF ServeLocked, ServeBegin, ServeWrite, ServeRefused, ServeCommit, ServeRollback,
                ServeRead, Replies
  <1>4. /\ c = queue[1] /\ 1 \in Places /\ pc' = pc /\ outcome' = outcome
        /\ \A o \in Ops : reply'[o] = (IF o = c.op /\ pc[o] = c.cmd THEN answer ELSE reply[o])
        /\ \A w \in Writers : InTransaction(w)' => InTransaction(w)
        /\ \A i \in Places' : \E j \in Places : j > 1 /\ queue'[i] = queue[j]
    <2>1. pc' = pc /\ outcome' = outcome
      BY <1>3 DEF Serve
    <2> QED  BY <2>1, <1>0, <1>1, <1>2, <1>3, ServeKeepsRunning
  <1>5. \A w \in Writers : Committing(w)' => Committing(w)
    BY <1>4 DEF Committing
  <1>6. CASE ServeCommit(c)
    <2>1. /\ c.op \in Writers /\ open /\ Rows[c.op] \subseteq disk'
          /\ \A w \in Writers : w # c.op => Rows[w] \intersect disk' = Rows[w] \intersect disk
      BY <1>0, <1>1, <1>2, <1>6, CommitAppliesOne
    <2>2. Committing(c.op) /\ reply' = IF pc[c.op] = "commit" THEN [reply EXCEPT ![c.op] = "ok"] ELSE reply
      BY <1>4, <1>6, <2>1 DEF Committing, ServeCommit, Serve
    <2>3. \A w \in Writers : pc[w] = "commit" =>
              reply'[w] = "none" \/ (reply'[w] = "ok" /\ Applied(w)')
      <3> SUFFICES ASSUME NEW w \in Writers, pc[w] = "commit"
                   PROVE  reply'[w] = "none" \/ (reply'[w] = "ok" /\ Applied(w)')
        OBVIOUS
      <3>1. CASE w = c.op
        BY <3>1, <2>1, <2>2, <1>0 DEF Applied, IInv, Running, Kinds
      <3>2. CASE w # c.op
        BY <3>2, <2>1, <1>0, <1>4 DEF Applied, Told
      <3> QED  BY <3>1, <3>2
    <2> QED  BY <2>1, <2>2, <2>3, <1>0, <1>4, <1>5, ToldStays
  <1>7. CASE ~ServeCommit(c)
    <2>1. \A w \in Writers : Rows[w] \intersect disk' = Rows[w] \intersect disk
      <3>1. CASE ServeWrite(c)
        BY <3>1, <1>0, <1>1, <1>2, WriteSparesDisk
      <3>2. CASE ~ServeWrite(c)
        BY <3>2, <1>2, <1>7 DEF ServeLocked, ServeBegin, ServeRefused, ServeRollback, ServeRead, sqlite
      <3> QED  BY <3>1, <3>2
    <2>2. c.cmd # "commit"
      BY <1>2, <1>7 DEF ServeLocked, ServeBegin, ServeWrite, ServeRefused, ServeRollback, ServeRead
    <2>3. \A w \in Writers : pc[w] = "commit" =>
              reply'[w] = "none" \/ (reply'[w] = "ok" /\ Applied(w)')
      BY <2>1, <2>2, <1>0, <1>4 DEF Applied, Told
    <2> QED  BY <2>1, <2>3, <1>0, <1>4, <1>5, ToldStays
  <1> QED  BY <1>6, <1>7

(* A coroutine step leaves what is committed alone, and its operation      *)
(* alone is told something.                                                *)
LEMMA StepTells ==
  ASSUME TInv, NEW o \in Ops, disk' = disk,
         \A p \in Ops : p # o =>
             pc'[p] = pc[p] /\ outcome'[p] = outcome[p] /\ reply'[p] = reply[p],
         \A w \in Writers : w # o => /\ (InTransaction(w)' => InTransaction(w))
                                     /\ (Committing(w)' => Committing(w)),
         o \in Writers => Told(o)'
  PROVE  \A w \in Writers : Told(w)'
  <1> SUFFICES ASSUME NEW w \in Writers, w # o PROVE Told(w)'
    OBVIOUS
  <1>1. w \in Ops /\ Told(w)
    BY OpsAreApart DEF TInv, Ops
  <1>2. pc[w] = "commit" => reply'[w] = "none" \/ (reply'[w] = "ok" /\ Applied(w)')
    BY <1>1 DEF Told, Applied
  <1> QED  BY <1>1, <1>2, ToldStays

(* An operation that ends, or waits again: the queue is as it was.         *)
LEMMA QuitTells ==
  ASSUME TInv, NEW o \in Ops, UNCHANGED <<disk, queue>>, NEW next \in {"done", "sleep", "lock"},
         pc' = [pc EXCEPT ![o] = next], reply' = [reply EXCEPT ![o] = "none"] \/ reply' = reply,
         \A p \in Ops : p # o => outcome'[p] = outcome[p],
         o \in Writers /\ next = "done" /\ InTransaction(o) => outcome'[o] = "cancelled",
         ~InBody(o)
  PROVE  \A w \in Writers : Told(w)'
  <1>1. Kinds
    BY DEF TInv, IInv, Running
  <1>2. /\ pc'[o] = next /\ Places' = Places
        /\ \A p \in Ops : p # o => pc'[p] = pc[p] /\ reply'[p] = reply[p]
    BY <1>1 DEF Kinds, Places
  <1>3. \A w \in Writers : /\ InTransaction(w)' <=> InTransaction(w)
                           /\ Committing(w)' <=> Committing(w)
    BY <1>2, OpsAreApart DEF InTransaction, InBody, Committing, Within, Ops
  <1>4. o \in Writers => Told(o)'
    BY <1>2, <1>3 DEF Told
  <1> QED  BY <1>2, <1>3, <1>4, StepTells

(* An operation that sends a command.                                      *)
LEMMA SendTells ==
  ASSUME TInv, NEW o \in Ops, disk' = disk, NEW c \in Awaiting, NEW n \in Nat, Sent(o, c, n),
         pc' = [pc EXCEPT ![o] = c], reply' = [reply EXCEPT ![o] = "none"] \/ reply' = reply,
         o \in Writers /\ c # "begin" => reply'[o] = "none",
         \A p \in Ops : p # o => outcome'[p] = outcome[p],
         o \in Writers /\ c = "rollback" =>
             outcome'[o] \in {"failed", "cancelled"} /\ ~Applied(o) /\ ~Committing(o)
  PROVE  \A w \in Writers : Told(w)'
  <1>0. PICK k : k = Len(queue) + 1
    OBVIOUS
  <1>1. PICK x : x = [op |-> o, cmd |-> c, part |-> n]
    OBVIOUS
  <1>2. Kinds /\ x \in Commands /\ x.op = o /\ x.cmd = c
    BY <1>1 DEF TInv, IInv, Running, Commands
  <1>3. queue' = Append(queue, x)
    BY <1>1 DEF Sent
  <1>4. queue'[k] = x /\ \A i \in Places' : i = k \/ i \in Places
    BY <1>0, <1>2, <1>3, Appending
  <1>5. \A i \in Places : i \in Places' /\ queue'[i] = queue[i] /\ (Within(i)' <=> Within(i))
    BY <1>0, <1>2, <1>3, Appending
  <1>6. /\ pc'[o] = c /\ \A p \in Ops : p # o => pc'[p] = pc[p] /\ reply'[p] = reply[p]
    BY <1>2 DEF Kinds
  <1>7. \A w \in Writers : w # o => /\ (InTransaction(w)' => InTransaction(w))
                                    /\ (Committing(w)' => Committing(w))
    BY <1>2, <1>4, <1>5, <1>6, OpsAreApart DEF InTransaction, InBody, Committing, Ops
  <1>8. o \in Writers => Told(o)'
    <2>1. c = "rollback" /\ ~Committing(o) => ~Committing(o)'
      BY <1>2, <1>4, <1>5 DEF Committing
    <2>2. Applied(o)' <=> Applied(o)
      BY DEF Applied
    <2> QED  BY <1>6, <2>1, <2>2 DEF Told, Awaiting
  <1> QED  BY <1>6, <1>7, <1>8, StepTells

(* A step of the coroutine of o ends nothing, or ends o with a truth.      *)
Ends(o) ==
    /\ disk' = disk /\ outcome' \in [Ops -> Outcomes] /\ pc[o] # "done"
    /\ \A p \in Ops : p # o => pc'[p] = pc[p] /\ outcome'[p] = outcome[p]
    /\ pc'[o] = "done" => outcome'[o] \in {"ok", "failed", "cancelled"}
    /\ pc'[o] = "done" /\ o \in Writers =>
           (outcome'[o] = "ok" => Applied(o)) /\ (outcome'[o] = "failed" => ~Applied(o))

LEMMA TInvFacts ==
  ASSUME TInv
  PROVE  /\ IInv /\ Kinds /\ outcome \in [Ops -> Outcomes] /\ pc \in [Ops -> Phases]
         /\ \A o \in Ops : /\ step[o] + 1 \in Nat
                           /\ pc[o] \in {"begin", "statement", "number", "commit", "rollback"} => o \in Writers
                           /\ pc[o] \in {"row", "children"} => o \in Readers /\ o \notin Writers
                           /\ pc[o] \in {"lock", "sleep"} => o \notin Readers
                           /\ pc[o] = "execute" => o \in Singles /\ o \notin Writers /\ o \notin Readers
         /\ \A w \in Writers : w \in Ops /\ w \notin Readers /\ Told(w) /\ (Early(w) => ~Applied(w))
  <1>1. IInv /\ Kinds /\ outcome \in [Ops -> Outcomes] /\ pc \in [Ops -> Phases]
    BY DEF TInv, IInv, Running, Kinds
  <1>2. \A o \in Ops : /\ step[o] + 1 \in Nat
                       /\ pc[o] \in {"begin", "statement", "number", "commit", "rollback"} => o \in Writers
                       /\ pc[o] \in {"row", "children"} => o \in Readers /\ o \notin Writers
                       /\ pc[o] \in {"lock", "sleep"} => o \notin Readers
                       /\ pc[o] = "execute" => o \in Singles /\ o \notin Writers /\ o \notin Readers
    BY <1>1, OpsAreApart DEF Kinds, Own
  <1>3. \A w \in Writers : w \in Ops /\ w \notin Readers /\ Told(w)
    BY OpsAreApart DEF TInv, Ops
  <1>4. \A w \in Writers : Early(w) => ~Applied(w)
    BY <1>1, NotApplied DEF IInv, Stored, Fresh
  <1> QED  BY <1>1, <1>2, <1>3, <1>4

LEMMA LeaveTells ==
  ASSUME TInv, NEW o \in Ops, UNCHANGED <<disk, queue>>, NEW how \in {"ok", "failed", "cancelled"},
         Finish(o, how), reply' = [reply EXCEPT ![o] = "none"] \/ reply' = reply,
         pc[o] \notin {"done", "statement", "number"},
         o \in Writers /\ InTransaction(o) => how = "cancelled",
         o \in Writers => (how = "ok" => Applied(o)) /\ (how = "failed" => ~Applied(o))
  PROVE  Ends(o) /\ \A w \in Writers : Told(w)'
  <1>1. pc' = [pc EXCEPT ![o] = "done"] /\ outcome' = [outcome EXCEPT ![o] = how]
    BY DEF Finish
  <1>2. /\ outcome' \in [Ops -> Outcomes] /\ outcome'[o] = how /\ pc'[o] = "done"
        /\ \A p \in Ops : p # o => pc'[p] = pc[p] /\ outcome'[p] = outcome[p]
    BY <1>1, TInvFacts DEF Outcomes
  <1>3. ~InBody(o)
    BY DEF InBody
  <1>4. \A w \in Writers : Told(w)'
    BY <1>1, <1>2, <1>3, QuitTells
  <1> QED  BY <1>2, <1>4 DEF Ends

LEMMA CallTells ==
  ASSUME TInv, NEW o \in Ops, Call(o)
  PROVE  Ends(o) /\ \A w \in Writers : Told(w)'
  <1>1. UNCHANGED <<reply, outcome, disk>> /\ pc[o] = "idle"
    BY DEF Call, sqlite
  <1>2. CASE o \in Readers
    <2>1. /\ Sent(o, "row", step[o] + 1) /\ pc' = [pc EXCEPT ![o] = "row"]
          /\ o \notin Writers /\ step[o] + 1 \in Nat
      BY <1>2, TInvFacts, OpsAreApart DEF Call, Submit, Sent
    <2>2. \A w \in Writers : Told(w)'
      <3>1. PICK n \in Nat : n = step[o] + 1
        BY <2>1
      <3> QED  BY <1>1, <2>1, <3>1, SendTells DEF Awaiting
    <2> QED  BY <1>1, <2>1, <2>2, TInvFacts DEF Ends
  <1>3. CASE o \notin Readers
    <2>1. queue' = queue /\ pc' = [pc EXCEPT ![o] = "lock"]
      BY <1>3 DEF Call
    <2>2. \A w \in Writers : Told(w)'
      BY <1>1, <2>1, QuitTells DEF InBody
    <2> QED  BY <1>1, <2>1, <2>2, TInvFacts DEF Ends
  <1> QED  BY <1>2, <1>3

LEMMA EnterTells ==
  ASSUME TInv, NEW o \in Ops, Enter(o) \/ Retry(o)
  PROVE  Ends(o) /\ \A w \in Writers : Told(w)'
  <1>1. /\ UNCHANGED <<reply, outcome, disk>> /\ pc[o] \in {"lock", "sleep"}
        /\ Submit(o, IF o \in Writers THEN "begin" ELSE "execute")
    BY DEF Enter, Retry, sqlite
  <1>2. PICK c \in {"begin", "execute"} : c = IF o \in Writers THEN "begin" ELSE "execute"
    OBVIOUS
  <1>3. PICK n \in Nat : n = step[o] + 1
    BY TInvFacts
  <1>4. Sent(o, c, n) /\ pc' = [pc EXCEPT ![o] = c]
    BY <1>1, <1>2, <1>3 DEF Submit, Sent
  <1>5. \A w \in Writers : Told(w)'
    BY <1>1, <1>2, <1>4, SendTells DEF Awaiting
  <1> QED  BY <1>1, <1>4, <1>5, TInvFacts DEF Ends

LEMMA ProceedTells ==
  ASSUME TInv, NEW o \in Ops, Proceed(o)
  PROVE  Ends(o) /\ \A w \in Writers : Told(w)'
  <1>1. PICK done : done = IF pc[o] = "statement" THEN step[o] + 1 ELSE step[o]
    OBVIOUS
  <1>2. PICK c \in {"statement", "number", "commit"} : c = Following(o, done)
    BY DEF Following
  <1>3. /\ pc[o] \in {"begin", "statement", "number"}
        /\ reply' = [reply EXCEPT ![o] = "none"] /\ pc' = [pc EXCEPT ![o] = c]
        /\ Sent(o, c, done + 1) /\ UNCHANGED <<outcome, disk>>
    BY <1>1, <1>2 DEF Proceed, Resumes, Sent, sqlite
  <1>4. PICK n \in Nat : n = done + 1
    BY <1>1 DEF TInv, IInv, Running, Kinds
  <1>5. reply'[o] = "none"
    BY <1>3, TInvFacts DEF Kinds
  <1>6. \A w \in Writers : Told(w)'
    BY <1>2, <1>3, <1>4, <1>5, SendTells DEF Awaiting
  <1> QED  BY <1>3, <1>6, TInvFacts DEF Ends

LEMMA RollBackTells ==
  ASSUME TInv, NEW o \in Ops, NEW how \in {"failed", "cancelled"}, RollBack(o, how)
  PROVE  Ends(o) /\ \A w \in Writers : Told(w)'
  <1>1. /\ pc[o] \in {"statement", "number"} /\ Submit(o, "rollback") /\ disk' = disk
        /\ reply' = [reply EXCEPT ![o] = "none"] /\ outcome' = [outcome EXCEPT ![o] = how]
    BY DEF RollBack, sqlite
  <1>2. PICK n \in Nat : n = step[o] + 1
    BY TInvFacts
  <1>3. Sent(o, "rollback", n) /\ pc' = [pc EXCEPT ![o] = "rollback"]
    BY <1>1, <1>2 DEF Submit, Sent
  <1>4. o \in Writers /\ InBody(o) /\ InTransaction(o)
    BY <1>1, TInvFacts DEF InBody, InTransaction
  <1>5. ~Applied(o)
    BY <1>4, TInvFacts, NotApplied DEF IInv, Stored, Fresh
  <1>6. ~Committing(o)
    BY <1>1, <1>4, TInvFacts DEF IInv, Running, Bodies, Committing, Reads
  <1>7. /\ outcome' \in [Ops -> Outcomes] /\ outcome'[o] = how /\ reply'[o] = "none"
        /\ \A p \in Ops : p # o => pc'[p] = pc[p] /\ outcome'[p] = outcome[p]
    BY <1>1, <1>3, TInvFacts DEF Outcomes, Kinds
  <1>8. \A w \in Writers : Told(w)'
    BY <1>1, <1>3, <1>5, <1>6, <1>7, SendTells DEF Awaiting
  <1> QED  BY <1>1, <1>3, <1>7, <1>8, TInvFacts DEF Ends

LEMMA ResumeTells ==
  ASSUME TInv, NEW o \in Ops, Resume(o)
  PROVE  Ends(o) /\ \A w \in Writers : Told(w)'
  <1>1. ASSUME reply[o] # "none", o \in Writers, ~InBody(o) PROVE ~InTransaction(o)
    BY <1>1, TInvFacts, Answered DEF InTransaction
  <1>2. CASE Proceed(o) \/ Retry(o)
    BY <1>2, ProceedTells, EnterTells
  <1>3. CASE StatementFails(o)
    BY <1>3, RollBackTells DEF StatementFails
  <1>4. CASE Complete(o)
    <2>1. PICK how : Leave(o, how) /\ reply' = [reply EXCEPT ![o] = "none"] /\ reply[o] # "none"
              /\ \/ /\ pc[o] \in {"commit", "execute"} /\ reply[o] \in {"ok", "error"}
                    /\ how = (IF reply[o] = "ok" THEN "ok" ELSE "failed")
                 \/ pc[o] = "rollback" /\ how = outcome[o]
                 \/ pc[o] = "begin" /\ how = "failed"
      BY <1>4 DEF Complete, Resumes
    <2>2. Finish(o, how) /\ UNCHANGED <<disk, queue>>
      BY <2>1 DEF Leave, sqlite
    <2>3. o \in Writers => (how = "ok" => Applied(o)) /\ (how = "failed" => ~Applied(o))
      <3>1. CASE pc[o] = "commit"
        BY <2>1, <3>1, TInvFacts DEF Told
      <3>2. CASE pc[o] = "rollback"
        BY <2>1, <3>2, TInvFacts DEF Told
      <3>3. CASE pc[o] = "begin"
        BY <2>1, <3>3, TInvFacts DEF Early
      <3>4. CASE pc[o] = "execute"
        BY <3>4, TInvFacts
      <3> QED  BY <2>1, <3>1, <3>2, <3>3, <3>4
    <2>4. how \in {"ok", "failed", "cancelled"}
      BY <2>1, TInvFacts DEF Told
    <2>5. o \in Writers => ~InTransaction(o)
      BY <1>1, <2>1 DEF InBody
    <2> QED  BY <2>1, <2>2, <2>3, <2>4, <2>5, LeaveTells
  <1>5. CASE LockedAnswer(o)
    <2>1. /\ pc[o] \in {"begin", "execute"} /\ reply[o] = "locked"
          /\ reply' = [reply EXCEPT ![o] = "none"]
      BY <1>5 DEF LockedAnswer, Resumes
    <2>2. CASE tries[o] + 1 < MaxLockRetries
      <3>1. pc' = [pc EXCEPT ![o] = "sleep"] /\ UNCHANGED <<queue, outcome, disk>>
        BY <2>2, <1>5 DEF LockedAnswer, sqlite
      <3>2. \A w \in Writers : Told(w)'
        BY <2>1, <3>1, QuitTells DEF InBody
      <3> QED  BY <2>1, <3>1, <3>2, TInvFacts DEF Ends
    <2>3. CASE ~(tries[o] + 1 < MaxLockRetries)
      <3>1. Finish(o, "failed") /\ UNCHANGED <<disk, queue>>
        BY <2>3, <1>5 DEF LockedAnswer, Leave, sqlite
      <3>2. o \in Writers => ~Applied(o) /\ ~InTransaction(o)
        BY <1>1, <2>1, TInvFacts DEF Early, InBody
      <3> QED  BY <2>1, <3>1, <3>2, LeaveTells
    <2> QED  BY <2>2, <2>3
  <1>6. CASE ReadOn(o)
    <2>1. /\ pc[o] = "row" /\ reply' = [reply EXCEPT ![o] = "none"] /\ disk' = disk
      BY <1>6 DEF ReadOn, Resumes, sqlite
    <2>2. o \notin Writers
      BY <2>1, TInvFacts
    <2>3. CASE seen[o] = {}
      <3>1. Finish(o, "ok") /\ queue' = queue
        BY <2>3, <1>6 DEF ReadOn
      <3> QED  BY <2>1, <2>2, <3>1, LeaveTells
    <2>4. CASE seen[o] # {}
      <3>1. Submit(o, "children") /\ outcome' = outcome
        BY <2>4, <1>6 DEF ReadOn
      <3>2. PICK n \in Nat : n = step[o] + 1
        BY TInvFacts
      <3>3. Sent(o, "children", n) /\ pc' = [pc EXCEPT ![o] = "children"]
        BY <3>1, <3>2 DEF Submit, Sent
      <3>4. \A w \in Writers : Told(w)'
        BY <2>1, <2>2, <3>1, <3>3, SendTells DEF Awaiting
      <3> QED  BY <2>1, <3>1, <3>3, <3>4, TInvFacts DEF Ends
    <2> QED  BY <2>3, <2>4
  <1>7. CASE ReadEnds(o)
    <2>1. /\ pc[o] = "children" /\ reply' = [reply EXCEPT ![o] = "none"]
          /\ UNCHANGED <<queue, disk>>
      BY <1>7 DEF ReadEnds, Resumes, sqlite
    <2>2. PICK how \in {"ok", "failed", "cancelled"} : Finish(o, how)
      BY <1>7 DEF ReadEnds
    <2>3. o \notin Writers
      BY <2>1, TInvFacts
    <2> QED  BY <2>1, <2>2, <2>3, LeaveTells
  <1> QED  BY <1>2, <1>3, <1>4, <1>5, <1>6, <1>7 DEF Resume

LEMMA CancelTells ==
  ASSUME TInv, NEW o \in Ops, Cancel(o)
  PROVE  Ends(o) /\ \A w \in Writers : Told(w)'
  <1>1. CASE CancelBody(o)
    BY <1>1, RollBackTells DEF CancelBody
  <1>2. CASE CancelWait(o) \/ CancelOutside(o) \/ CancelRead(o)
    <2>1. /\ pc[o] \in {"lock", "begin", "sleep", "commit", "rollback", "execute", "row", "children"}
          /\ Finish(o, "cancelled") /\ UNCHANGED <<queue, disk>>
          /\ reply' = [reply EXCEPT ![o] = "none"] \/ reply' = reply
      BY <1>2 DEF CancelWait, CancelOutside, CancelRead, Leave, sqlite
    <2> QED  BY <2>1, LeaveTells
  <1> QED  BY <1>1, <1>2 DEF Cancel

LEMMA StopTells ==
  ASSUME TInv, Stop
  PROVE  outcome' \in [Ops -> Outcomes] /\ \A w \in Writers : Told(w)'
  <1>1. /\ queue' = << >>
        /\ pc' = [o \in Ops |-> IF Restarted(o) \/ pc[o] = "idle" THEN "idle" ELSE "done"]
        /\ outcome' = [o \in Ops |-> IF Restarted(o) \/ pc[o] = "idle" THEN "none"
                                     ELSE IF pc[o] = "done" THEN outcome[o] ELSE "lost"]
    BY DEF Stop
  <1>2. outcome' \in [Ops -> Outcomes]
    BY <1>1, TInvFacts DEF Outcomes
  <1>3. \A w \in Writers : pc'[w] \in {"idle", "done"} /\ ~InTransaction(w)'
    BY <1>1, TInvFacts DEF InTransaction, InBody, Places
  <1> QED  BY <1>2, <1>3 DEF Told

LEMMA InitTells == Init => TInv
  <1> SUFFICES ASSUME Init PROVE TInv
    OBVIOUS
  <1>1. IInv
    BY InitKeeps
  <1>2. outcome \in [Ops -> Outcomes]
    BY DEF Init, Outcomes
  <1>3. \A w \in Writers : Told(w)
    BY OpsAreApart DEF Init, Told, Ops
  <1> QED  BY <1>1, <1>2, <1>3 DEF TInv

LEMMA NextTells == TInv /\ [Next]_vars => TInv'
  <1> SUFFICES ASSUME TInv, [Next]_vars PROVE TInv'
    OBVIOUS
  <1>1. IInv'
    BY NextKeeps DEF TInv
  <1>2. ASSUME NEW o \in Ops, Call(o) \/ Enter(o) \/ Resume(o) \/ Cancel(o)
        PROVE  outcome' \in [Ops -> Outcomes] /\ \A w \in Writers : Told(w)'
    <2>1. Ends(o) /\ \A w \in Writers : Told(w)'
      BY <1>2, CallTells, EnterTells, ResumeTells, CancelTells
    <2> QED  BY <2>1 DEF Ends
  <1>3. CASE Thread
    <2>1. outcome' = outcome
      BY <1>3 DEF Thread, Serve, ServeLocked, ServeBegin, ServeWrite, ServeRefused, ServeCommit,
                  ServeRollback, ServeRead
    <2> QED  BY <2>1, <1>1, <1>3, ThreadTells DEF TInv
  <1>4. CASE Stop
    BY <1>1, <1>4, StopTells DEF TInv
  <1>5. CASE Quiet \/ UNCHANGED vars
    <2>1. UNCHANGED vars
      BY <1>5 DEF Quiet
    <2> QED  BY <1>1, <2>1 DEF TInv, vars, Told, Applied, Committing, InTransaction, InBody, Places, Within
  <1> QED  BY <1>1, <1>2, <1>3, <1>4, <1>5 DEF Next, TInv

-----------------------------------------------------------------------------
(* The refinement: a COMMIT applies, an end of a writer answers, a stop    *)
(* stops, and every other step changes neither.                            *)
Durable == {w \in Writers : Applied(w)}
Answer == [w \in Writers |-> IF pc[w] = "done" THEN outcome[w] ELSE "none"]

LEMMA StoreInit == Init => Store!Init
  <1> SUFFICES ASSUME Init PROVE Store!Init
    OBVIOUS
  <1>1. \A w \in Writers : ~Applied(w)
    BY NotApplied DEF Init
  <1>2. Answer = [w \in Writers |-> "none"]
    BY OpsAreApart DEF Answer, Init, Ops
  <1> QED  BY <1>1, <1>2 DEF Store!Init, Answer

LEMMA StoreNext == TInv /\ [Next]_vars => [Store!Next]_<<Durable, Answer>>
  <1> SUFFICES ASSUME TInv, [Next]_vars PROVE [Store!Next]_<<Durable, Answer>>
    OBVIOUS
  <1>1. ASSUME NEW o \in Ops, Call(o) \/ Enter(o) \/ Resume(o) \/ Cancel(o)
        PROVE  [Store!Next]_<<Durable, Answer>>
    <2>1. Ends(o)
      BY <1>1, CallTells, EnterTells, ResumeTells, CancelTells
    <2>2. Durable' = Durable
      BY <2>1 DEF Ends, Durable, Applied
    <2>3. CASE o \in Writers /\ pc'[o] = "done"
      <3>1. PICK a \in {"ok", "failed", "cancelled"} : a = outcome'[o]
        BY <2>1, <2>3 DEF Ends
      <3>2. Answer' = [Answer EXCEPT ![o] = a]
        BY <2>1, <2>3, <3>1, TInvFacts DEF Ends, Answer
      <3>3. Answer[o] = "none" /\ (a = "ok" => o \in Durable) /\ (a = "failed" => o \notin Durable)
        BY <2>1, <2>3, <3>1 DEF Ends, Answer, Durable
      <3>4. Store!Answer(o, a)
        BY <2>2, <3>2, <3>3 DEF Store!Answer, Durable, Answer
      <3> QED  BY <2>3, <3>1, <3>4 DEF Store!Next, Store!Answers
    <2>4. CASE ~(o \in Writers /\ pc'[o] = "done")
      <3>1. Answer' = Answer
        BY <2>1, <2>4, TInvFacts DEF Ends, Answer
      <3> QED  BY <2>2, <3>1
    <2> QED  BY <2>3, <2>4
  <1>2. CASE Thread
    <2>1. PICK c : c = Head(queue)
      OBVIOUS
    <2>2. queue # << >> /\ \/ ServeLocked(c) \/ ServeBegin(c) \/ ServeWrite(c) \/ ServeRefused(c)
                           \/ ServeCommit(c) \/ ServeRollback(c) \/ ServeRead(c)
      BY <1>2, <2>1 DEF Thread
    <2>3. Answer' = Answer
      BY <2>2 DEF Answer, Serve, ServeLocked, ServeBegin, ServeWrite, ServeRefused, ServeCommit,
                  ServeRollback, ServeRead
    <2>4. CASE ServeCommit(c)
      <3>1. /\ c.op \in Writers /\ InTransaction(c.op)
            /\ Rows[c.op] \intersect disk = {} /\ Rows[c.op] \subseteq disk'
            /\ \A w \in Writers : w # c.op => Rows[w] \intersect disk' = Rows[w] \intersect disk
        BY <2>1, <2>2, <2>4, CommitAppliesOne, TInvFacts
      <3>2. Durable' = Durable \union {c.op} /\ c.op \notin Durable
        BY <3>1, NotApplied DEF Durable, Applied
      <3>3. Answer[c.op] \in {"none", "cancelled"}
        BY <3>1, TInvFacts DEF Answer, Told
      <3>4. Store!Apply(c.op)
        BY <2>3, <3>2, <3>3 DEF Store!Apply, Durable, Answer
      <3> QED  BY <3>1, <3>4 DEF Store!Next
    <2>5. CASE ~ServeCommit(c)
      <3>1. \A w \in Writers : Rows[w] \intersect disk' = Rows[w] \intersect disk
        <4>1. CASE ServeWrite(c)
          BY <4>1, <2>1, <2>2, WriteSparesDisk, TInvFacts
        <4>2. CASE ~ServeWrite(c)
          BY <4>2, <2>2, <2>5 DEF ServeLocked, ServeBegin, ServeRefused, ServeRollback, ServeRead, sqlite
        <4> QED  BY <4>1, <4>2
      <3>2. Durable' = Durable
        BY <3>1 DEF Durable, Applied
      <3> QED  BY <2>3, <3>2
    <2> QED  BY <2>4, <2>5
  <1>3. CASE Stop
    <2>1. /\ disk' = disk
          /\ pc' = [o \in Ops |-> IF Restarted(o) \/ pc[o] = "idle" THEN "idle" ELSE "done"]
          /\ outcome' = [o \in Ops |-> IF Restarted(o) \/ pc[o] = "idle" THEN "none"
                                       ELSE IF pc[o] = "done" THEN outcome[o] ELSE "lost"]
      BY <1>3 DEF Stop
    <2>2. Durable' = Durable
      BY <2>1 DEF Durable, Applied
    <2>3. Answer' \in [Writers -> Store!Answers]
      BY <2>1, TInvFacts DEF Answer, Store!Answers, Outcomes
    <2>4. \A w \in Writers : \/ Answer'[w] = Answer[w]
                             \/ Answer[w] = "none" /\ Answer'[w] = "lost"
                             \/ w \notin Durable /\ Answer'[w] = "none"
      BY <2>1, TInvFacts DEF Answer, Durable, Restarted
    <2>5. Store!Stop
      BY <2>2, <2>3, <2>4 DEF Store!Stop, Durable, Answer
    <2> QED  BY <2>5 DEF Store!Next
  <1>4. CASE Quiet \/ UNCHANGED vars
    BY <1>4 DEF Quiet, vars, Durable, Answer, Applied
  <1> QED  BY <1>1, <1>2, <1>3, <1>4 DEF Next

(* The shared connection is an atomic store for its writers.               *)
THEOREM StoreIsAtomic == Spec => ImplementsAtomicStore
  <1>1. Spec => []TInv
    BY InitTells, NextTells, PTL DEF Spec
  <1>2. TInv /\ [Next]_vars => [Store!Next]_<<Durable, Answer>>
    BY StoreNext
  <1> QED  BY <1>1, <1>2, StoreInit, PTL DEF Spec, ImplementsAtomicStore, Store!Spec, Durable, Answer

(* The atomic store keeps its word to the callers, whatever it does.       *)
WordKept ==
    \A w \in Writers :
        /\ Answer[w] = "ok" => w \in Durable
        /\ Answer[w] = "failed" => w \notin Durable

LEMMA StoreKeepsWord == WordKept /\ [Store!Next]_<<Durable, Answer>> => WordKept'
  <1> SUFFICES ASSUME WordKept, [Store!Next]_<<Durable, Answer>> PROVE WordKept'
    OBVIOUS
  <1>1. Answer \in [Writers -> {Answer[w] : w \in Writers}] /\ DOMAIN Answer = Writers
    BY DEF Answer
  <1>2. ASSUME NEW o \in Writers, Store!Apply(o) PROVE WordKept'
    <2>1. /\ Durable' = Durable \union {o} /\ Answer' = Answer
          /\ Answer[o] \in {"none", "cancelled"}
      BY <1>2 DEF Store!Apply, Durable, Answer
    <2> QED  BY <2>1 DEF WordKept
  <1>3. ASSUME NEW o \in Writers, NEW a, Store!Answer(o, a) PROVE WordKept'
    <2>1. /\ Durable' = Durable /\ Answer' = [Answer EXCEPT ![o] = a]
          /\ a = "ok" => o \in Durable
          /\ a = "failed" => o \notin Durable
      BY <1>3 DEF Store!Answer, Durable, Answer
    <2> QED  BY <1>1, <2>1 DEF WordKept
  <1>4. CASE Store!Stop
    <2>1. Durable' = Durable
      BY <1>4 DEF Store!Stop, Durable
    <2>2. \A w \in Writers : Answer'[w] = Answer[w] \/ Answer'[w] \in {"lost", "none"}
      BY <1>4 DEF Store!Stop, Durable, Answer
    <2> QED  BY <2>1, <2>2 DEF WordKept
  <1>5. CASE UNCHANGED <<Durable, Answer>>
    BY <1>5 DEF WordKept
  <1> QED  BY <1>2, <1>3, <1>4, <1>5 DEF Store!Next

(* Database.transaction(): whose call returned has every row of it         *)
(* committed, whose call raised an error has none, in every later state,   *)
(* also after a stop and after the retry of a migration.                   *)
AnswersHold ==
    \A w \in Writers : pc[w] = "done" =>
        /\ outcome[w] = "ok" => Rows[w] \subseteq disk
        /\ outcome[w] = "failed" => Rows[w] \intersect disk = {}

(* Database.transaction: what a caller was told stays true of the database *)
(* in every later state, over stops, restarts and retries of a migration.  *)
THEOREM AnswersAreKept == Spec => []AnswersHold
  <1>1. Init => WordKept
    BY DEF Init, WordKept, Answer, Ops
  <1>2. TInv /\ WordKept /\ [Next]_vars => WordKept'
    BY StoreNext, StoreKeepsWord
  <1>3. TInv /\ WordKept => AnswersHold
    BY DEF TInv, IInv, Stored, WholeTransactions, WordKept, Answer, Durable, Applied, AnswersHold
  <1>4. Spec => []TInv
    BY InitTells, NextTells, PTL DEF Spec
  <1> QED  BY <1>1, <1>2, <1>3, <1>4, PTL DEF Spec

(* No step of the process, no ROLLBACK and no stop takes back a row that   *)
(* is committed.                                                           *)
THEOREM NothingIsUndone == Spec => [][disk \subseteq disk']_vars
  <1>1. ASSUME IInv, [Next]_vars PROVE disk \subseteq disk'
    <2>1. disk \subseteq view
      BY <1>1 DEF IInv, Stored
    <2>2. CASE Thread
      BY <2>1, <2>2 DEF Thread, ServeLocked, ServeBegin, ServeWrite, ServeRefused,
                        ServeCommit, ServeRollback, ServeRead, sqlite
    <2>3. CASE ~Thread
      <3>1. disk' = disk
        BY <1>1, <2>3 DEF Next, Call, Enter, Resume, Proceed, StatementFails, RollBack, Complete,
             Leave, LockedAnswer, Retry, ReadOn, ReadEnds, Cancel, CancelWait, CancelBody,
             CancelOutside, CancelRead, Stop, Quiet, vars, sqlite
      <3> QED  BY <3>1
    <2> QED  BY <2>2, <2>3
  <1>2. IInv /\ [Next]_vars => disk \subseteq disk'
    BY <1>1
  <1> QED  BY <1>2, InvariantHolds, PTL DEF Spec

(* Never two transactions at once on the one connection: a cancelled       *)
(* caller gives the lock back while its COMMIT or ROLLBACK is still in the *)
(* queue, and yet no statement of the next caller runs before it.          *)
TransactionsExclude ==
    \A v, w \in Writers : InTransaction(v) /\ InTransaction(w) => v = w

(* Database.transaction on the one connection of aiosqlite: the lock and   *)
(* the order of the queue together keep the transactions apart, in every   *)
(* reachable state.                                                        *)
(* Database.transaction on the one connection of aiosqlite: the lock and   *)
(* the order of the queue together keep the transactions apart, in every   *)
(* reachable state.                                                        *)
THEOREM TransactionsNeverOverlap == Spec => []TransactionsExclude
  <1>1. ASSUME IInv, NEW v \in Writers, NEW w \in Writers, InTransaction(v), InTransaction(w)
        PROVE  v = w
    <2>1. Holds /\ Bodies /\ Ordered /\ Kinds
      BY <1>1 DEF IInv, Running
    <2>2. ASSUME NEW a \in Writers, NEW b \in Writers, InBody(a), InTransaction(b) PROVE a = b
      <3>1. CASE InBody(b)
        BY <2>1, <2>2, <3>1, OpsAreApart DEF Holds, InBody, Ops
      <3>2. ASSUME NEW i \in Places, queue[i].op = b, Within(i) PROVE a = b
        BY <2>1, <2>2, <3>2 DEF Bodies, Reads, Within
      <3> QED  BY <2>2, <3>1, <3>2 DEF InTransaction
    <2>3. CASE InBody(v) \/ InBody(w)
      BY <1>1, <2>2, <2>3
    <2>4. CASE ~InBody(v) /\ ~InBody(w)
      <3>1. PICK i \in Places : queue[i].op = v /\ Within(i)
        BY <1>1, <2>4 DEF InTransaction
      <3>2. PICK j \in Places : queue[j].op = w /\ Within(j)
        BY <1>1, <2>4 DEF InTransaction
      <3>3. ~Reads(i) /\ ~Reads(j)
        BY <3>1, <3>2 DEF Reads, Within
      <3>4. i \in Int /\ j \in Int
        BY DEF Places
      <3>5. \/ i = j
            \/ i < j /\ (Reads(i) \/ queue[i].op = queue[j].op)
            \/ j < i /\ (Reads(j) \/ queue[j].op = queue[i].op)
        BY <2>1, <3>1, <3>2, <3>4 DEF Ordered
      <3> QED  BY <3>1, <3>2, <3>3, <3>5
    <2> QED  BY <2>3, <2>4
  <1>2. IInv => TransactionsExclude
    BY <1>1 DEF TransactionsExclude
  <1> QED  BY <1>2, InvariantHolds, PTL

(* A statement of a migration that takes effect meets none of its rows.    *)
THEOREM MigrationsApplyOnce == Spec => MigratedOnce
  <1>1. ASSUME IInv, [Next]_vars, NEW m \in Range(Migrations), NEW i \in 1..Statements[m],
               <<m, i>> \in view', <<m, i>> \notin view
        PROVE  Rows[m] \intersect disk = {}
    <2>1. m \in Writers
      BY DatabaseAssumption DEF Range
    <2>2. disk \subseteq view
      BY <1>1 DEF IInv, Stored
    <2>3. PICK c : c = Head(queue)
      OBVIOUS
    <2>4. CASE Thread
      <3>1. queue # << >> /\ ServeWrite(c)
        BY <1>1, <2>2, <2>3, <2>4 DEF Thread, ServeLocked, ServeBegin, ServeWrite, ServeRefused,
                                      ServeCommit, ServeRollback, ServeRead, sqlite
      <3>2. m = c.op
        BY <1>1, <3>1 DEF ServeWrite
      <3> QED  BY <1>1, <2>1, <2>3, <3>1, <3>2, WriteSparesDisk
    <2>5. CASE ~Thread
      <3>1. view' \subseteq view
        BY <1>1, <2>2, <2>5 DEF Next, Call, Enter, Resume, Proceed, StatementFails, RollBack, Complete,
             Leave, LockedAnswer, Retry, ReadOn, ReadEnds, Cancel, CancelWait, CancelBody,
             CancelOutside, CancelRead, Stop, Quiet, vars, sqlite
      <3> QED  BY <1>1, <3>1
    <2> QED  BY <2>4, <2>5
  <1>2. IInv /\ [Next]_vars =>
          \A m \in Range(Migrations) : \A i \in 1..Statements[m] :
             <<m, i>> \in view' /\ <<m, i>> \notin view => Rows[m] \intersect disk = {}
    BY <1>1
  <1> QED  BY <1>2, InvariantHolds, PTL DEF Spec, MigratedOnce

-----------------------------------------------------------------------------
(* The numbers.  A call of next_value that returned saw only rows that are *)
(* committed, its own among them; one that commits has seen all of those,  *)
(* so that what any two of them saw differs by a row.                      *)
Below(m, n) == seen[m] \subseteq seen[n] /\ <<n, 1>> \in seen[n] /\ <<n, 1>> \notin seen[m]

Counting(n) ==
    /\ outcome[n] = "ok" => pc[n] = "done" /\ seen[n] \subseteq Numbers(disk)
    /\ pc[n] = "number" /\ reply[n] = "ok" => seen[n] = Numbers(view)
    /\ pc[n] = "commit" =>
          /\ reply[n] = "none" => Committing(n)
          /\ seen[n] \subseteq Numbers(IF reply[n] = "none" THEN view ELSE disk)
          /\ \A m \in Numbered : outcome[m] = "ok" => Below(m, n)

NInv ==
    /\ TInv /\ IsFiniteSet(view) /\ seen = [o \in Ops |-> seen[o]]
    /\ \A n \in Numbered : Counting(n)
    /\ \A n, m \in Numbered :
          n # m /\ outcome[n] = "ok" /\ outcome[m] = "ok" => Below(m, n) \/ Below(n, m)

LEMMA NInvFacts ==
  ASSUME NInv
  PROVE  /\ TInv /\ IInv /\ Kinds /\ seen = [o \in Ops |-> seen[o]] /\ disk \subseteq view
         /\ outcome \in [Ops -> Outcomes]
         /\ \A n \in Numbered : n \in Writers /\ n \in Ops /\ n \notin Readers /\ Counting(n)
  <1>1. TInv /\ IInv /\ Kinds /\ outcome \in [Ops -> Outcomes]
    BY TInvFacts DEF NInv
  <1>2. \A n \in Numbered : n \in Writers /\ n \in Ops /\ n \notin Readers
    BY DatabaseAssumption, OpsAreApart DEF Ops
  <1> QED  BY <1>1, <1>2 DEF NInv, IInv, Stored

(* What the step of one coroutine leaves alone.                            *)
Frame(o) ==
    /\ UNCHANGED <<disk, view>> /\ seen' = [p \in Ops |-> seen'[p]]
    /\ queue' = queue \/ \E x \in Commands : queue' = Append(queue, x)
    /\ \A p \in Ops : p # o => /\ pc'[p] = pc[p] /\ reply'[p] = reply[p]
                               /\ outcome'[p] = outcome[p] /\ seen'[p] = seen[p]

(* What it does to a call of next_value.                                   *)
Counts(o) ==
    \/ outcome'[o] # "ok" /\ pc'[o] # "commit" /\ reply'[o] = "none"
    \/ /\ pc[o] = "number" /\ reply[o] = "ok" /\ pc'[o] = "commit" /\ reply'[o] = "none"
       /\ outcome'[o] # "ok" /\ seen'[o] = seen[o] /\ Committing(o)'
    \/ /\ pc[o] = "commit" /\ reply[o] = "ok" /\ pc'[o] = "done" /\ reply'[o] = "none"
       /\ outcome'[o] = "ok" /\ seen'[o] = seen[o]

LEMMA CountingStays ==
  ASSUME NInv, NEW n \in Numbered,
         pc'[n] = pc[n], reply'[n] = reply[n], outcome'[n] = outcome[n], seen'[n] = seen[n],
         \A m \in Numbered : outcome'[m] = "ok" => outcome[m] = "ok" /\ seen'[m] = seen[m],
         pc[n] = "commit" /\ reply[n] = "none" => Committing(n)' /\ view \subseteq view',
         pc[n] = "number" /\ reply[n] = "ok" => view' = view,
         disk \subseteq disk'
  PROVE  Counting(n)'
  <1>1. Counting(n)
    BY NInvFacts
  <1>2. Numbers(disk) \subseteq Numbers(disk)'
    BY DEF Numbers
  <1>3. pc[n] = "commit" =>
            /\ reply[n] = "none" => Committing(n)'
            /\ seen[n] \subseteq Numbers(IF reply[n] = "none" THEN view' ELSE disk')
            /\ \A m \in Numbered : outcome'[m] = "ok" => Below(m, n)'
    BY <1>1 DEF Counting, Numbers, Below
  <1> QED  BY <1>1, <1>2, <1>3 DEF Counting

LEMMA QueueKept ==
  ASSUME NInv, NEW o \in Ops, Frame(o), NEW n \in Numbered, Committing(n)
  PROVE  Committing(n)'
  <1>1. PICK i \in Places : queue[i].op = n /\ queue[i].cmd = "commit"
    BY DEF Committing
  <1>2. CASE queue' = queue
    BY <1>1, <1>2 DEF Committing, Places
  <1>3. ASSUME NEW x \in Commands, queue' = Append(queue, x) PROVE Committing(n)'
    <2>1. PICK k : k = Len(queue) + 1
      OBVIOUS
    <2>2. i \in Places' /\ queue'[i] = queue[i]
      BY <1>1, <1>3, <2>1, Appending, NInvFacts
    <2> QED  BY <1>1, <2>2 DEF Committing
  <1> QED  BY <1>2, <1>3 DEF Frame

LEMMA CountsKeeps ==
  ASSUME NInv, TInv', NEW o \in Ops, Frame(o), o \in Numbered => Counts(o)
  PROVE  NInv'
  <1>1. \A n \in Numbered : n \in Writers /\ n \in Ops /\ n \notin Readers /\ Counting(n)
    BY NInvFacts
  <1>2. IsFiniteSet(view)' /\ (seen = [p \in Ops |-> seen[p]])'
    BY DEF Frame, NInv
  <1>3. CASE ~(o \in Numbered /\ outcome'[o] = "ok")
    <2>1. \A m \in Numbered : outcome'[m] = "ok" => outcome[m] = "ok" /\ seen'[m] = seen[m] /\ m # o
      BY <1>1, <1>3 DEF Frame
    <2>2. \A n \in Numbered : n # o => Counting(n)'
      <3> SUFFICES ASSUME NEW n \in Numbered, n # o PROVE Counting(n)'
        OBVIOUS
      <3>1. pc'[n] = pc[n] /\ reply'[n] = reply[n] /\ outcome'[n] = outcome[n] /\ seen'[n] = seen[n]
            /\ view' = view /\ disk' = disk
        BY <1>1 DEF Frame
      <3>2. pc[n] = "commit" /\ reply[n] = "none" => Committing(n)'
        BY <1>1, QueueKept DEF Counting
      <3> QED  BY <2>1, <3>1, <3>2, CountingStays
    <2>3. ASSUME o \in Numbered PROVE Counting(o)'
      <3>1. CASE outcome'[o] # "ok" /\ pc'[o] # "commit" /\ reply'[o] = "none"
        BY <3>1 DEF Counting
      <3>2. CASE /\ pc[o] = "number" /\ reply[o] = "ok" /\ pc'[o] = "commit" /\ reply'[o] = "none"
                 /\ outcome'[o] # "ok" /\ seen'[o] = seen[o] /\ Committing(o)'
        <4>1. seen[o] = Numbers(view) /\ view' = view /\ disk \subseteq view
          BY <2>3, <3>2, <1>1, NInvFacts DEF Counting, Frame
        <4>2. <<o, 1>> \in seen[o]
          <5>1. <<o, 1>> \in view
            <6>1. step[o] = Statements[o] /\ \A k \in 1..step[o] : <<o, k>> \in view
              BY <2>3, <3>2, <1>1, NInvFacts DEF IInv, Stored, Progress, InBody
            <6>2. Statements[o] \in Nat \ {0}
              BY <2>3, <1>1, RowsOfWriter
            <6> QED  BY <6>1, <6>2
          <5> QED  BY <4>1, <5>1, <2>3 DEF Numbers
        <4>3. <<o, 1>> \notin disk
          <5>1. InTransaction(o) /\ <<o, 1>> \in Rows[o]
            BY <2>3, <3>2, <1>1, RowsOfWriter DEF InTransaction, InBody
          <5> QED  BY <2>3, <5>1, <1>1, NInvFacts DEF IInv, Stored, Fresh
        <4>4. \A m \in Numbered : outcome'[m] = "ok" => Below(m, o)'
          <5> SUFFICES ASSUME NEW m \in Numbered, outcome'[m] = "ok" PROVE Below(m, o)'
            OBVIOUS
          <5>1. seen'[m] = seen[m] /\ seen[m] \subseteq Numbers(disk)
            BY <2>1, <1>1 DEF Counting
          <5>2. seen[m] \subseteq seen[o] /\ <<o, 1>> \notin seen[m]
            BY <5>1, <4>1, <4>3 DEF Numbers
          <5> QED  BY <5>1, <5>2, <4>2, <3>2 DEF Below
        <4> QED  BY <3>2, <4>1, <4>4 DEF Counting
      <3> QED  BY <3>1, <3>2, <2>3, <1>3 DEF Counts
    <2>4. ASSUME NEW n \in Numbered, NEW m \in Numbered,
                 n # m, outcome'[n] = "ok", outcome'[m] = "ok"
          PROVE  Below(m, n)' \/ Below(n, m)'
      <3>1. /\ outcome[n] = "ok" /\ outcome[m] = "ok"
            /\ seen'[n] = seen[n] /\ seen'[m] = seen[m]
        BY <2>1, <2>4
      <3>2. Below(m, n) \/ Below(n, m)
        BY <2>4, <3>1 DEF NInv
      <3> QED  BY <3>1, <3>2 DEF Below
    <2> QED  BY <1>2, <2>2, <2>3, <2>4 DEF NInv
  <1>4. CASE o \in Numbered /\ outcome'[o] = "ok"
    <2>1. /\ pc[o] = "commit" /\ reply[o] = "ok" /\ pc'[o] = "done" /\ reply'[o] = "none"
          /\ seen'[o] = seen[o]
      BY <1>4 DEF Counts
    <2>2. /\ seen[o] \subseteq Numbers(disk)
          /\ \A m \in Numbered : outcome[m] = "ok" => Below(m, o)
      BY <1>1, <1>4, <2>1 DEF Counting
    <2>3. Counting(o)'
      BY <1>4, <2>1, <2>2 DEF Counting, Frame
    <2>4. \A n \in Numbered : n # o => pc[n] \in {"idle", "lock", "done"}
      BY <1>1, <1>4, <2>1, Answered, NInvFacts
    <2>5. \A n \in Numbered : n # o => Counting(n)'
      BY <1>1, <2>4 DEF Counting, Frame
    <2>6. \A n \in Numbered : n # o => outcome'[n] = outcome[n] /\ seen'[n] = seen[n]
      BY <1>1 DEF Frame
    <2>7. ASSUME NEW n \in Numbered, NEW m \in Numbered,
                 n # m, outcome'[n] = "ok", outcome'[m] = "ok"
          PROVE  Below(m, n)' \/ Below(n, m)'
      <3>1. seen'[n] = seen[n] /\ seen'[m] = seen[m]
        BY <2>1, <2>6
      <3>2. CASE n # o /\ m # o
        <4>1. Below(m, n) \/ Below(n, m)
          BY <2>6, <2>7, <3>2 DEF NInv
        <4> QED  BY <3>1, <4>1 DEF Below
      <3>3. CASE n = o
        <4>1. Below(m, n)
          BY <2>2, <2>6, <2>7, <3>3
        <4> QED  BY <3>1, <4>1 DEF Below
      <3>4. CASE m = o
        <4>1. Below(n, m)
          BY <2>2, <2>6, <2>7, <3>4
        <4> QED  BY <3>1, <4>1 DEF Below
      <3> QED  BY <3>2, <3>3, <3>4
    <2> QED  BY <1>2, <2>3, <2>5, <2>7 DEF NInv
  <1> QED  BY <1>3, <1>4

LEMMA CoroutineFrame ==
  ASSUME NInv, NEW o \in Ops, Call(o) \/ Enter(o) \/ Resume(o) \/ Cancel(o)
  PROVE  Frame(o)
  <1>1. UNCHANGED <<disk, view>>
    BY DEF Call, Enter, Resume, Proceed, StatementFails, RollBack, Complete, Leave, LockedAnswer,
           Retry, ReadOn, ReadEnds, Cancel, CancelWait, CancelBody, CancelOutside, CancelRead, sqlite
  <1>2. seen' = seen \/ seen' = [seen EXCEPT ![o] = seen'[o]]
    <2>1. ASSUME NEW how, Finish(o, how) PROVE seen' = [seen EXCEPT ![o] = seen'[o]]
      BY <2>1, NInvFacts DEF Finish
    <2> QED
      BY <2>1 DEF Call, Enter, Resume, Proceed, StatementFails, RollBack, Complete, Leave,
           LockedAnswer, Retry, ReadOn, ReadEnds, Cancel, CancelWait, CancelBody, CancelOutside,
           CancelRead
  <1>3. reply' = reply \/ reply' = [reply EXCEPT ![o] = "none"]
    BY DEF Call, Enter, Resume, Proceed, StatementFails, RollBack, Complete, LockedAnswer, Resumes,
           Retry, ReadOn, ReadEnds, Cancel, CancelWait, CancelBody, CancelOutside, CancelRead
  <1>4. Ends(o)
    BY CallTells, EnterTells, ResumeTells, CancelTells, NInvFacts
  <1>5. queue' = queue \/ \E c \in Awaiting, n \in Nat : Sent(o, c, n)
    <2>1. ASSUME NEW c \in Awaiting, Submit(o, c) PROVE \E d \in Awaiting, n \in Nat : Sent(o, d, n)
      <3>1. PICK n \in Nat : n = step[o] + 1
        BY NInvFacts DEF Kinds
      <3> QED  BY <2>1, <3>1 DEF Submit, Sent
    <2>2. ASSUME Proceed(o) PROVE \E d \in Awaiting, n \in Nat : Sent(o, d, n)
      <3>1. PICK done : done = IF pc[o] = "statement" THEN step[o] + 1 ELSE step[o]
        OBVIOUS
      <3>2. PICK c \in {"statement", "number", "commit"} : c = Following(o, done)
        BY DEF Following
      <3>3. PICK n \in Nat : n = done + 1
        BY <3>1, NInvFacts DEF Kinds
      <3>4. Sent(o, c, n) /\ c \in Awaiting
        BY <2>2, <3>1, <3>2, <3>3 DEF Proceed, Sent, Awaiting
      <3> QED  BY <3>4
    <2>3. \/ queue' = queue \/ Proceed(o)
          \/ Submit(o, "begin") \/ Submit(o, "execute") \/ Submit(o, "rollback")
          \/ Submit(o, "row") \/ Submit(o, "children")
      BY DEF Call, Enter, Resume, StatementFails, RollBack, Complete, Leave, LockedAnswer,
             Retry, ReadOn, ReadEnds, Cancel, CancelWait, CancelBody, CancelOutside, CancelRead
    <2> QED  BY <2>1, <2>2, <2>3 DEF Awaiting
  <1>6. queue' = queue \/ \E x \in Commands : queue' = Append(queue, x)
    BY <1>5 DEF Sent, Commands
  <1>7. seen' = [p \in Ops |-> seen'[p]] /\ \A p \in Ops : p # o => seen'[p] = seen[p]
    BY <1>2, NInvFacts
  <1>8. \A p \in Ops : p # o => reply'[p] = reply[p]
    BY <1>3, NInvFacts DEF Kinds
  <1> QED  BY <1>1, <1>4, <1>6, <1>7, <1>8 DEF Frame, Ends

(* A call of next_value goes on, or ends as anything but counted.          *)
LEMMA CoroutineCounts ==
  ASSUME NInv, NEW o \in Numbered, Call(o) \/ Enter(o) \/ Resume(o) \/ Cancel(o)
  PROVE  Counts(o)
  <1>0. /\ o \in Writers /\ o \in Ops /\ o \notin Readers /\ Counting(o) /\ Told(o) /\ Kinds
        /\ reply \in [Ops -> Replies] /\ outcome \in [Ops -> Outcomes] /\ pc \in [Ops -> Phases]
        /\ pc[o] \notin {"row", "children", "execute"}
    BY NInvFacts, TInvFacts DEF Kinds
  <1>1. pc[o] \notin Awaiting => reply[o] = "none"
    BY <1>0, NInvFacts DEF IInv, Running, Awaited
  <1>2. outcome[o] # "ok"
    <2>1. Ends(o)
      BY <1>0, CallTells, EnterTells, ResumeTells, CancelTells, NInvFacts
    <2> QED  BY <1>0, <2>1 DEF Ends, Counting
  <1>3. CASE Call(o)
    BY <1>0, <1>1, <1>2, <1>3 DEF Call, Counts, Awaiting
  <1>4. CASE Enter(o) \/ Retry(o)
    BY <1>0, <1>1, <1>2, <1>4 DEF Enter, Retry, Submit, Counts, Awaiting
  <1>5. CASE Proceed(o)
    <2>1. PICK done : done = IF pc[o] = "statement" THEN step[o] + 1 ELSE step[o]
      OBVIOUS
    <2>2. PICK c \in {"statement", "number", "commit"} : c = Following(o, done)
      BY DEF Following
    <2>3. /\ pc[o] \in {"begin", "statement", "number"} /\ reply[o] = "ok"
          /\ reply' = [reply EXCEPT ![o] = "none"] /\ pc' = [pc EXCEPT ![o] = c]
          /\ Sent(o, c, done + 1) /\ UNCHANGED <<outcome, seen>>
      BY <1>5, <2>1, <2>2 DEF Proceed, Resumes, Sent
    <2>4. pc'[o] = c /\ reply'[o] = "none" /\ outcome'[o] # "ok"
      BY <2>3, <1>0, <1>2
    <2>5. CASE c # "commit"
      BY <2>4, <2>5 DEF Counts
    <2>6. CASE c = "commit"
      <3>1. pc[o] = "number"
        BY <2>2, <2>6 DEF Following
      <3>2. Committing(o)'
        <4>1. PICK n \in Nat : n = done + 1
          BY <2>1, <1>0 DEF Kinds
        <4>2. PICK x : x = [op |-> o, cmd |-> c, part |-> n]
          OBVIOUS
        <4>3. x \in Commands /\ x.op = o /\ x.cmd = "commit" /\ queue' = Append(queue, x)
          BY <1>0, <2>3, <2>6, <4>1, <4>2 DEF Commands, Awaiting, Sent
        <4>4. PICK k : k = Len(queue) + 1
          OBVIOUS
        <4>5. k \in Places' /\ queue'[k] = x
          BY <1>0, <4>3, <4>4, Appending
        <4> QED  BY <4>3, <4>5 DEF Committing
      <3> QED  BY <2>3, <2>4, <2>6, <3>1, <3>2 DEF Counts
    <2> QED  BY <2>5, <2>6
  <1>6. ASSUME NEW how \in {"failed", "cancelled"}, RollBack(o, how) PROVE Counts(o)
    BY <1>0, <1>6 DEF RollBack, Submit, Counts
  <1>7. CASE Complete(o)
    <2>1. reply[o] # "none" /\ reply' = [reply EXCEPT ![o] = "none"] /\ pc[o] \in {"begin", "commit", "rollback"}
      BY <1>0, <1>7 DEF Complete, Resumes
    <2>2. pc[o] = "begin" => Leave(o, "failed")
      BY <1>7, <2>1 DEF Complete, Resumes
    <2>3. pc[o] = "rollback" => Leave(o, outcome[o])
      BY <1>7, <2>1 DEF Complete, Resumes
    <2>4. pc[o] = "commit" => reply[o] = "ok" /\ Leave(o, "ok")
      BY <1>0, <1>7, <2>1 DEF Complete, Resumes, Told
    <2>5. ASSUME NEW how, Leave(o, how), how # "ok" PROVE Counts(o)
      BY <1>0, <2>1, <2>5 DEF Leave, Finish, Counts
    <2>6. CASE pc[o] = "commit"
      BY <1>0, <2>1, <2>4, <2>6, NInvFacts DEF Leave, Finish, Counts
    <2> QED  BY <1>2, <2>1, <2>2, <2>3, <2>5, <2>6
  <1>8. CASE LockedAnswer(o)
    <2>1. pc[o] = "begin" /\ reply' = [reply EXCEPT ![o] = "none"]
      BY <1>0, <1>8 DEF LockedAnswer, Resumes
    <2>2. Leave(o, "failed") \/ (pc' = [pc EXCEPT ![o] = "sleep"] /\ outcome' = outcome)
      BY <1>8 DEF LockedAnswer
    <2> QED  BY <1>0, <1>2, <2>1, <2>2 DEF Leave, Finish, Counts
  <1>9. CASE CancelWait(o) \/ CancelOutside(o)
    <2>1. Finish(o, "cancelled") /\ (reply' = [reply EXCEPT ![o] = "none"] \/ (pc[o] = "lock" /\ reply' = reply))
      BY <1>9 DEF CancelWait, CancelOutside, Leave
    <2> QED  BY <1>0, <1>1, <2>1 DEF Finish, Counts, Awaiting
  <1>10. ~ReadOn(o) /\ ~ReadEnds(o) /\ ~CancelRead(o)
    BY <1>0 DEF ReadOn, ReadEnds, CancelRead, Resumes
  <1> QED  BY <1>3, <1>4, <1>5, <1>6, <1>7, <1>8, <1>9, <1>10
           DEF Resume, Cancel, StatementFails, CancelBody

LEMMA ThreadCounts ==
  ASSUME NInv, TInv', Thread
  PROVE  NInv'
  <1>0. \A n \in Numbered : n \in Writers /\ n \in Ops /\ n \notin Readers /\ Counting(n)
    BY NInvFacts
  <1>1. PICK c : c = Head(queue)
    OBVIOUS
  <1>2. queue # << >> /\ \/ ServeLocked(c) \/ ServeBegin(c) \/ ServeWrite(c) \/ ServeRefused(c)
                         \/ ServeCommit(c) \/ ServeRollback(c) \/ ServeRead(c)
    BY <1>1 DEF Thread
  <1>3. PICK answer \in Replies : Serve(c, answer)
    BY <1>2 DEF ServeLocked, ServeBegin, ServeWrite, ServeRefused, ServeCommit, ServeRollback,
                ServeRead, Replies
  <1>4. /\ c = queue[1] /\ 1 \in Places /\ c \in Commands
        /\ \A o \in Ops : reply'[o] = (IF o = c.op /\ pc[o] = c.cmd THEN answer ELSE reply[o])
        /\ \A i \in Places' : \E j \in Places : j > 1 /\ queue'[i] = queue[j]
    BY <1>1, <1>2, <1>3, ServeKeepsRunning, NInvFacts
  <1>5. pc' = pc /\ outcome' = outcome /\ queue' = Tail(queue) /\ disk \subseteq view
    BY <1>3, NInvFacts DEF Serve
  <1>6. /\ seen' = [o \in Ops |-> seen'[o]]
        /\ \A n \in Numbered : seen'[n] # seen[n] =>
               c.op = n /\ c.cmd = "number" /\ pc[n] = "number" /\ ServeRead(c)
    <2>1. CASE ServeRead(c)
      <3> DEFINE s == CASE c.cmd = "number" -> Numbers(view)
                        [] c.cmd = "row" -> view \intersect {<<Subject[c.op], 1>>}
                        [] OTHER -> seen[c.op] \union (view \intersect Rows[Subject[c.op]])
      <3>1. /\ c.cmd \in {"row", "children", "number"}
            /\ seen' = IF pc[c.op] # c.cmd THEN seen ELSE [seen EXCEPT ![c.op] = s]
        BY <2>1 DEF ServeRead
      <3>2. seen = [o \in Ops |-> seen[o]]
        BY NInvFacts
      <3> HIDE DEF s
      <3>3. /\ seen' = [o \in Ops |-> seen'[o]]
            /\ \A n \in Numbered : seen'[n] # seen[n] => c.op = n /\ pc[n] = c.cmd
        BY <1>0, <3>1, <3>2
      <3>4. \A n \in Numbered : pc[n] \notin {"row", "children"}
        BY <1>0, NInvFacts, TInvFacts
      <3> QED  BY <2>1, <3>1, <3>3, <3>4
    <2>2. CASE ~ServeRead(c)
      BY <2>2, <1>2, NInvFacts DEF ServeLocked, ServeBegin, ServeWrite, ServeRefused, ServeCommit,
                                   ServeRollback, sqlite
    <2> QED  BY <2>1, <2>2
  <1>7. /\ view' \in {view, disk, view \union {<<c.op, c.part>>}}
        /\ disk \subseteq disk' /\ (view' # view => ServeWrite(c) \/ ServeRollback(c))
        /\ (~ServeRollback(c) => view \subseteq view')
    BY <1>2, <1>5 DEF ServeLocked, ServeBegin, ServeWrite, ServeRefused, ServeCommit,
                      ServeRollback, ServeRead, sqlite
  <1>8. IsFiniteSet(view)'
    BY <1>5, <1>7, FS_Subset, FS_AddElement DEF NInv
  <1>9. \A m \in Numbered : outcome'[m] = "ok" => outcome[m] = "ok" /\ seen'[m] = seen[m]
    BY <1>0, <1>5, <1>6 DEF Counting
  <1>10. ASSUME NEW n \in Numbered PROVE Counting(n)'
    <2>0. n \in Writers /\ n \in Ops /\ n \notin Readers /\ Counting(n) /\ Told(n)
      BY <1>0, TInvFacts, NInvFacts
    <2>1. CASE n = c.op /\ pc[n] = c.cmd
      <3>1. CASE c.cmd = "number"
        <4>1. ServeRead(c)
          BY <3>1, <1>2 DEF ServeLocked, ServeBegin, ServeWrite, ServeRefused, ServeCommit, ServeRollback
        <4>2. seen'[n] = Numbers(view) /\ view' = view
          BY <2>0, <2>1, <3>1, <4>1, NInvFacts DEF ServeRead, sqlite
        <4>3. Numbers(view)' = Numbers(view)
          BY <4>2 DEF Numbers
        <4> QED  BY <2>0, <2>1, <3>1, <4>2, <4>3, <1>5 DEF Counting
      <3>2. CASE c.cmd = "commit"
        <4>1. ServeCommit(c)
          BY <3>2, <1>2 DEF ServeLocked, ServeBegin, ServeWrite, ServeRefused, ServeRead, ServeRollback
        <4>2. disk' = view /\ open
          BY <1>1, <1>2, <4>1, CommitAppliesOne, NInvFacts DEF ServeCommit
        <4>3. reply'[n] = "ok"
          BY <2>0, <2>1, <4>1, <4>2, NInvFacts DEF ServeCommit, Serve, Kinds
        <4>4. seen'[n] = seen[n] /\ seen[n] \subseteq Numbers(disk')
          BY <2>0, <2>1, <3>2, <4>2, <1>6, <1>5 DEF Counting, Numbers
        <4>5. \A m \in Numbered : outcome'[m] = "ok" => Below(m, n)'
          BY <2>0, <2>1, <3>2, <4>4, <1>9 DEF Counting, Below
        <4>6. outcome'[n] # "ok" /\ pc'[n] = "commit"
          BY <2>0, <2>1, <3>2, <1>5 DEF Counting
        <4> QED  BY <4>3, <4>4, <4>5, <4>6 DEF Counting
      <3>3. CASE c.cmd \notin {"number", "commit"}
        <4>1. pc'[n] \notin {"number", "commit"} /\ outcome'[n] # "ok"
          BY <2>0, <2>1, <3>3, <1>4, <1>5 DEF Counting, Commands, Awaiting
        <4> QED  BY <4>1 DEF Counting
      <3> QED  BY <3>1, <3>2, <3>3
    <2>2. CASE ~(n = c.op /\ pc[n] = c.cmd)
      <3>1. pc'[n] = pc[n] /\ reply'[n] = reply[n] /\ outcome'[n] = outcome[n] /\ seen'[n] = seen[n]
        BY <2>0, <2>2, <1>4, <1>5, <1>6
      <3>2. pc[n] = "number" /\ reply[n] = "ok" => view' = view
        <4> SUFFICES ASSUME reply[n] # "none" PROVE view' = view
          OBVIOUS
        <4>1. c.cmd \in {"row", "children"}
          BY <2>0, <1>4, Answered, NInvFacts DEF Reads
        <4> QED  BY <4>1, <1>7 DEF ServeWrite, ServeRollback
      <3>3. pc[n] = "commit" /\ reply[n] = "none" => Committing(n)' /\ view \subseteq view'
        <4> SUFFICES ASSUME pc[n] = "commit", reply[n] = "none"
                     PROVE  Committing(n)' /\ view \subseteq view'
          OBVIOUS
        <4>1. PICK i \in Places : queue[i].op = n /\ queue[i].cmd = "commit"
          BY <2>0 DEF Counting, Committing
        <4>2. i # 1
          BY <4>1, <2>2, <1>4
        <4>3. i > 1 /\ i - 1 \in Places' /\ queue'[i - 1] = queue[i]
          BY <4>2, <1>2, <1>5, Removing, NInvFacts
        <4>4. c.cmd # "rollback"
          BY <4>1, <4>3, <1>4, NInvFacts DEF IInv, Running, Ordered, Within, Reads
        <4> QED  BY <4>1, <4>3, <4>4, <1>7 DEF Committing, ServeRollback
      <3> QED  BY <3>1, <3>2, <3>3, <1>7, <1>9, CountingStays
    <2> QED  BY <2>1, <2>2
  <1>11. \A n, m \in Numbered : n # m /\ outcome'[n] = "ok" /\ outcome'[m] = "ok" =>
             Below(m, n)' \/ Below(n, m)'
    BY <1>9 DEF NInv, Below
  <1> QED  BY <1>6, <1>8, <1>10, <1>11 DEF NInv

LEMMA StopCounts ==
  ASSUME NInv, TInv', Stop
  PROVE  NInv'
  <1>0. \A n \in Numbered : n \in Writers /\ n \in Ops /\ Counting(n)
    BY NInvFacts
  <1>1. /\ disk' = disk /\ view' = disk
        /\ pc' = [o \in Ops |-> IF Restarted(o) \/ pc[o] = "idle" THEN "idle" ELSE "done"]
        /\ outcome' = [o \in Ops |-> IF Restarted(o) \/ pc[o] = "idle" THEN "none"
                                     ELSE IF pc[o] = "done" THEN outcome[o] ELSE "lost"]
        /\ seen' = [o \in Ops |-> IF outcome[o] = "ok" THEN seen[o] ELSE {}]
    BY DEF Stop
  <1>2. IsFiniteSet(view)'
    BY <1>1, FS_Subset, NInvFacts DEF NInv
  <1>3. \A m \in Numbered : outcome'[m] = "ok" =>
            outcome[m] = "ok" /\ seen'[m] = seen[m] /\ pc'[m] = "done"
    BY <1>0, <1>1 DEF Counting
  <1>4. \A n \in Numbered : Counting(n)'
    <2>1. \A n \in Numbered : pc'[n] \in {"idle", "done"}
      BY <1>0, <1>1
    <2> QED  BY <1>0, <1>1, <1>3, <2>1 DEF Counting, Numbers
  <1>5. ASSUME NEW n \in Numbered, NEW m \in Numbered,
               n # m, outcome'[n] = "ok", outcome'[m] = "ok"
        PROVE  Below(m, n)' \/ Below(n, m)'
    <2>1. Below(m, n) \/ Below(n, m)
      BY <1>3, <1>5 DEF NInv
    <2> QED  BY <1>3, <1>5, <2>1 DEF Below
  <1>6. seen' = [o \in Ops |-> seen'[o]]
    BY <1>1
  <1> QED  BY <1>2, <1>4, <1>5, <1>6 DEF NInv

LEMMA NumbersDiffer == NInv => NumbersAreUnique
  <1> SUFFICES ASSUME NInv, NEW n \in Numbered, NEW m \in Numbered, n # m,
                      outcome[n] = "ok", outcome[m] = "ok"
               PROVE  Cardinality(seen[n]) # Cardinality(seen[m])
    BY DEF NumbersAreUnique
  <1>1. IsFiniteSet(seen[n]) /\ IsFiniteSet(seen[m])
    <2>1. seen[n] \subseteq view /\ seen[m] \subseteq view
      BY NInvFacts DEF Counting, Numbers
    <2> QED  BY <2>1, FS_Subset DEF NInv
  <1>2. ASSUME NEW a \in Numbered, NEW b \in Numbered, IsFiniteSet(seen[b]), Below(a, b)
        PROVE  Cardinality(seen[a]) # Cardinality(seen[b])
    BY <1>2, FS_Subset DEF Below
  <1>3. Below(m, n) \/ Below(n, m)
    BY DEF NInv
  <1> QED  BY <1>1, <1>2, <1>3

LEMMA InitCounts == Init => NInv
  <1> SUFFICES ASSUME Init PROVE NInv
    OBVIOUS
  <1>1. TInv /\ IsFiniteSet(view) /\ seen = [o \in Ops |-> seen[o]]
    BY InitTells, FS_EmptySet DEF Init
  <1>2. \A n \in Numbered : pc[n] = "idle" /\ outcome[n] = "none"
    BY DatabaseAssumption, OpsAreApart DEF Init, Ops
  <1> QED  BY <1>1, <1>2 DEF NInv, Counting

LEMMA NextCounts == NInv /\ [Next]_vars => NInv'
  <1> SUFFICES ASSUME NInv, [Next]_vars PROVE NInv'
    OBVIOUS
  <1>1. TInv'
    BY NextTells, NInvFacts
  <1>2. ASSUME NEW o \in Ops, Call(o) \/ Enter(o) \/ Resume(o) \/ Cancel(o) PROVE NInv'
    BY <1>1, <1>2, CoroutineFrame, CoroutineCounts, CountsKeeps
  <1>3. CASE Thread
    BY <1>1, <1>3, ThreadCounts
  <1>4. CASE Stop
    BY <1>1, <1>4, StopCounts
  <1>5. CASE Quiet \/ UNCHANGED vars
    <2>1. UNCHANGED vars
      BY <1>5 DEF Quiet
    <2>2. \A n, m \in Numbered : Below(m, n)' <=> Below(m, n)
      BY <2>1 DEF vars, Below
    <2>3. \A n \in Numbered : Counting(n)' <=> Counting(n)
      BY <2>1, <2>2 DEF vars, sqlite, Counting, Numbers, Committing, Places
    <2> QED  BY <1>1, <2>1, <2>2, <2>3 DEF NInv, vars, sqlite
  <1> QED  BY <1>2, <1>3, <1>4, <1>5 DEF Next

(* Two calls of next_value that returned, in this process or one before,   *)
(* returned different numbers.                                             *)
THEOREM NumbersNeverRepeat == Spec => []NumbersAreUnique
  <1>1. Spec => []NInv
    BY InitCounts, NextCounts, PTL DEF Spec
  <1> QED  BY <1>1, NumbersDiffer, PTL
================================================================================
