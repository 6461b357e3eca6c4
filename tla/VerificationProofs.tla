--------------------------- MODULE VerificationProofs ---------------------------
(***************************************************************************)
(* Proofs about the verification of amounts, for any callers, orders and   *)
(* answers.                                                                *)
(***************************************************************************)
EXTENDS Verification, SequenceTheorems, TLAPS

-----------------------------------------------------------------------------
(* The registry, as the value g of its variable.                           *)
Registries ==
    [inFlight : [Keys -> Callers \union {None}], task : [Callers -> TaskRecords \union {None}],
     awaiting : [Callers -> Callers \union {None}], answer : [Callers -> {"ok", "error", None}]]

(* An entry is that of a caller who awaits its own task, every such task   *)
(* has its entry, and an answer is there for a caller who awaits it, in    *)
(* the case of its own task after the task has ended.                      *)
Good(g) ==
    /\ g \in Registries
    /\ \A k \in Keys : g.inFlight[k] # None => g.awaiting[g.inFlight[k]] = g.inFlight[k]
    /\ \A c \in Callers :
          /\ g.task[c] # None /\ g.awaiting[c] = c => g.inFlight[g.task[c].key] = c
          /\ g.answer[c] # None => g.awaiting[c] # None
          /\ g.answer[c] # None /\ g.awaiting[c] = c => g.task[c] = None

LEMMA EmptyIsGood == Good(EmptyRegistry)
  BY DEF Good, EmptyRegistry, Registries

LEMMA NoneIsNoCaller ==
  /\ None \notin Callers /\ None \notin TaskRecords /\ None \notin {"ok", "error"}
  BY RegistryAssumption

LEMMA RunKeeps ==
  ASSUME NEW g, Good(g), NEW c \in Callers, NEW k \in Keys,
         g.awaiting[c] = None, g.task[c] = None
  PROVE  LET h == Run(g, c, k)
         IN  /\ Good(h) /\ h.awaiting[c] # None
             /\ h.task[c] # None => h.awaiting[c] = c
             /\ \A d \in Callers \ {c} : h.awaiting[d] = g.awaiting[d] /\ h.task[d] = g.task[d]
  <1> DEFINE h == Run(g, c, k)
  <1>0. g \in Registries  BY DEF Good
  <1>g. /\ g.inFlight \in [Keys -> Callers \union {None}]
        /\ g.task \in [Callers -> TaskRecords \union {None}]
        /\ g.awaiting \in [Callers -> Callers \union {None}]
        /\ g.answer \in [Callers -> {"ok", "error", None}]
        /\ g = [inFlight |-> g.inFlight, task |-> g.task, awaiting |-> g.awaiting,
                answer |-> g.answer]
    BY <1>0 DEF Registries
  <1>1. CASE g.inFlight[k] = None
    <2> DEFINE t == [key |-> k, state |-> "created"]
    <2>1. t \in TaskRecords /\ t.key = k  BY DEF TaskRecords
    <2> HIDE DEF t
    <2>2. /\ h.inFlight = [g.inFlight EXCEPT ![k] = c]
          /\ h.awaiting = [g.awaiting EXCEPT ![c] = c]
          /\ h.task = [g.task EXCEPT ![c] = t]
          /\ h.answer = g.answer
          /\ h = [inFlight |-> h.inFlight, task |-> h.task, awaiting |-> h.awaiting,
                  answer |-> h.answer]
      BY <1>1, <1>g DEF Run, Launch, t
    <2> HIDE DEF h
    <2>3. h \in Registries
      BY <1>g, <2>1, <2>2 DEF Registries
    <2>4. \A l \in Keys : h.inFlight[l] # None => h.awaiting[h.inFlight[l]] = h.inFlight[l]
      BY <1>g, <2>2 DEF Good
    <2>5. ASSUME NEW d \in Callers
          PROVE  /\ h.task[d] # None /\ h.awaiting[d] = d => h.inFlight[h.task[d].key] = d
                 /\ h.answer[d] # None => h.awaiting[d] # None
                 /\ h.answer[d] # None /\ h.awaiting[d] = d => h.task[d] = None
      <3>1. CASE d = c
        BY <1>g, <2>1, <2>2, <3>1, NoneIsNoCaller DEF Good
      <3>2. CASE d # c
        <4>1. /\ h.task[d] = g.task[d] /\ h.awaiting[d] = g.awaiting[d]
              /\ h.answer[d] = g.answer[d]
          BY <1>g, <2>2, <3>2
        <4>2. g.task[d] # None /\ g.awaiting[d] = d => g.task[d].key # k
          BY <1>1, NoneIsNoCaller DEF Good
        <4>3. g.task[d] # None => g.task[d].key \in Keys
          BY <1>g DEF TaskRecords
        <4> QED  BY <1>g, <2>2, <4>1, <4>2, <4>3 DEF Good
      <3> QED  BY <3>1, <3>2
    <2>6. h.awaiting[c] = c
      BY <1>g, <2>2
    <2> QED  BY <1>g, <2>2, <2>3, <2>4, <2>5, <2>6, NoneIsNoCaller DEF Good, h
  <1>2. CASE g.inFlight[k] # None
    <2> DEFINE e == g.inFlight[k]
    <2>1. e \in Callers /\ g.awaiting[e] = e /\ e # c
      BY <1>2, <1>g, NoneIsNoCaller DEF Good
    <2>2. /\ h.inFlight = g.inFlight /\ h.task = g.task
          /\ h.awaiting = [g.awaiting EXCEPT ![c] = e]
          /\ h.answer = [g.answer EXCEPT ![c] = g.answer[e]]
          /\ h = [inFlight |-> h.inFlight, task |-> h.task, awaiting |-> h.awaiting,
                  answer |-> h.answer]
      BY <1>2, <1>g DEF Run, Join
    <2> HIDE DEF h, e
    <2>3. h \in Registries
      BY <1>g, <2>1, <2>2 DEF Registries
    <2>4. \A l \in Keys : h.inFlight[l] # None => h.awaiting[h.inFlight[l]] = h.inFlight[l]
      <3> SUFFICES ASSUME NEW l \in Keys, g.inFlight[l] # None
                   PROVE  h.awaiting[g.inFlight[l]] = g.inFlight[l]
        BY <2>2
      <3>1. g.awaiting[g.inFlight[l]] = g.inFlight[l] /\ g.inFlight[l] \in Callers
        BY <1>g DEF Good
      <3>2. g.inFlight[l] # c  BY <3>1, NoneIsNoCaller
      <3> QED  BY <1>g, <2>2, <3>1, <3>2
    <2>5. ASSUME NEW d \in Callers
          PROVE  /\ h.task[d] # None /\ h.awaiting[d] = d => h.inFlight[h.task[d].key] = d
                 /\ h.answer[d] # None => h.awaiting[d] # None
                 /\ h.answer[d] # None /\ h.awaiting[d] = d => h.task[d] = None
      BY <1>g, <2>1, <2>2, NoneIsNoCaller DEF Good
    <2> QED  BY <1>g, <2>1, <2>2, <2>3, <2>4, <2>5, NoneIsNoCaller DEF Good, h
  <1> QED  BY <1>1, <1>2

LEMMA LeaveKeeps ==
  ASSUME NEW g, Good(g), NEW c \in Callers
  PROVE  LET h == Leave(g, c)
         IN  /\ Good(h) /\ h.awaiting[c] = None /\ h.task = g.task
             /\ \A d \in Callers \ {c} : h.awaiting[d] = g.awaiting[d]
  <1> DEFINE h == Leave(g, c)
  <1>0. g \in Registries  BY DEF Good
  <1>g. /\ g.inFlight \in [Keys -> Callers \union {None}]
        /\ g.task \in [Callers -> TaskRecords \union {None}]
        /\ g.awaiting \in [Callers -> Callers \union {None}]
        /\ g.answer \in [Callers -> {"ok", "error", None}]
        /\ g = [inFlight |-> g.inFlight, task |-> g.task, awaiting |-> g.awaiting,
                answer |-> g.answer]
    BY <1>0 DEF Registries
  <1>1. /\ h.inFlight = [k \in Keys |-> IF g.inFlight[k] = c THEN None ELSE g.inFlight[k]]
        /\ h.task = g.task
        /\ h.awaiting = [g.awaiting EXCEPT ![c] = None]
        /\ h.answer = [g.answer EXCEPT ![c] = None]
        /\ h = [inFlight |-> h.inFlight, task |-> h.task, awaiting |-> h.awaiting,
                answer |-> h.answer]
    <2> DEFINE f == [k \in Keys |-> IF g.inFlight[k] = c THEN None ELSE g.inFlight[k]]
    <2>1. h = [g EXCEPT !.awaiting[c] = None, !.answer[c] = None, !.inFlight = f]
      BY DEF Leave
    <2> HIDE DEF f, h
    <2>2. /\ h.inFlight = f
          /\ h.task = g.task
          /\ h.awaiting = [g.awaiting EXCEPT ![c] = None]
          /\ h.answer = [g.answer EXCEPT ![c] = None]
          /\ h = [inFlight |-> h.inFlight, task |-> h.task, awaiting |-> h.awaiting,
                  answer |-> h.answer]
      BY <1>g, <2>1
    <2> QED  BY <2>2 DEF f
  <1> HIDE DEF h
  <1>2. h \in Registries
    BY <1>g, <1>1 DEF Registries
  <1>3. \A k \in Keys : h.inFlight[k] # None => h.awaiting[h.inFlight[k]] = h.inFlight[k]
    <2> SUFFICES ASSUME NEW k \in Keys, h.inFlight[k] # None
                 PROVE  h.awaiting[h.inFlight[k]] = h.inFlight[k]
      OBVIOUS
    <2>1. h.inFlight[k] = g.inFlight[k] /\ g.inFlight[k] # c
      BY <1>1
    <2>2. g.inFlight[k] \in Callers /\ g.awaiting[g.inFlight[k]] = g.inFlight[k]
      BY <1>g, <2>1 DEF Good
    <2> QED  BY <1>g, <1>1, <2>1, <2>2
  <1>4. ASSUME NEW d \in Callers
        PROVE  /\ h.task[d] # None /\ h.awaiting[d] = d => h.inFlight[h.task[d].key] = d
               /\ h.answer[d] # None => h.awaiting[d] # None
               /\ h.answer[d] # None /\ h.awaiting[d] = d => h.task[d] = None
    <2>1. CASE d = c
      BY <1>g, <1>1, <2>1, NoneIsNoCaller
    <2>2. CASE d # c
      <3>1. g.task[d] # None => g.task[d].key \in Keys
        BY <1>g DEF TaskRecords
      <3> QED  BY <1>g, <1>1, <2>2, <3>1 DEF Good
    <2> QED  BY <2>1, <2>2
  <1> QED  BY <1>g, <1>1, <1>2, <1>3, <1>4 DEF Good, h

LEMMA TaskKeeps ==
  ASSUME Good(registry), NEW c \in Callers, NEW result \in {"ok", "error"},
         TaskStarts(c) \/ TaskEnds(c, result)
  PROVE  /\ Good(registry') /\ registry'.awaiting = registry.awaiting
         /\ \A d \in Callers : registry'.task[d] # None => registry.task[d] # None
  <1> DEFINE g == registry
             h == registry'
  <1>0. g \in Registries  BY DEF Good
  <1>g. /\ g.inFlight \in [Keys -> Callers \union {None}]
        /\ g.task \in [Callers -> TaskRecords \union {None}]
        /\ g.awaiting \in [Callers -> Callers \union {None}]
        /\ g.answer \in [Callers -> {"ok", "error", None}]
        /\ g = [inFlight |-> g.inFlight, task |-> g.task, awaiting |-> g.awaiting,
                answer |-> g.answer]
    BY <1>0 DEF Registries
  <1>1. CASE TaskStarts(c)
    <2> DEFINE t == [g.task[c] EXCEPT !.state = "running"]
    <2>1. g.task[c] # None /\ g.task[c] \in TaskRecords
      BY <1>1, <1>g DEF TaskStarts
    <2>2. t \in TaskRecords /\ t.key = g.task[c].key
      BY <2>1 DEF TaskRecords
    <2>3. /\ h.inFlight = g.inFlight /\ h.awaiting = g.awaiting /\ h.answer = g.answer
          /\ h.task = [g.task EXCEPT ![c] = t]
          /\ h = [inFlight |-> h.inFlight, task |-> h.task, awaiting |-> h.awaiting,
                  answer |-> h.answer]
      BY <1>1, <1>g DEF TaskStarts
    <2> HIDE DEF t
    <2>4. h \in Registries  BY <1>g, <2>2, <2>3 DEF Registries
    <2> QED  BY <1>g, <2>1, <2>2, <2>3, <2>4, NoneIsNoCaller DEF Good
  <1>2. CASE TaskEnds(c, result)
    <2>1. /\ h.inFlight = g.inFlight /\ h.awaiting = g.awaiting
          /\ h.task = [g.task EXCEPT ![c] = None]
          /\ h.answer = [d \in Callers |-> IF g.awaiting[d] = c THEN result ELSE g.answer[d]]
          /\ h = [inFlight |-> h.inFlight, task |-> h.task, awaiting |-> h.awaiting,
                  answer |-> h.answer]
      BY <1>2, <1>g DEF TaskEnds
    <2>2. h \in Registries  BY <1>g, <2>1 DEF Registries
    <2> QED  BY <1>g, <2>1, <2>2, NoneIsNoCaller DEF Good
  <1> QED  BY <1>1, <1>2

-----------------------------------------------------------------------------
(* The record of a caller has its ten fields.                              *)
Whole(r) ==
    r = [pc |-> r.pc, order |-> r.order, index |-> r.index, buy |-> r.buy, sell |-> r.sell,
         gas |-> r.gas, rate |-> r.rate, started |-> r.started, results |-> r.results,
         last |-> r.last]

Awaits(g, c) == g.awaiting[c] # None

(* s follows r without a wait for fees.                                    *)
Follows(s, r) ==
    /\ Whole(s) /\ s.order = r.order
    /\ s.pc \in {"finished", "buy", "gas", "rate"} \union Ended

LEMMA AbortedIsWhole ==
  ASSUME NEW r, NEW pc
  PROVE  /\ Whole(Aborted(r, pc)) /\ Aborted(r, pc).pc = pc /\ Aborted(r, pc).order = r.order
         /\ Aborted(r, pc).last = None
  <1>1. Whole(Idle) /\ Idle.last = None  BY DEF Idle, Whole
  <1> DEFINE s == [Idle EXCEPT !.pc = pc]
  <1>2. Whole(s) /\ s.pc = pc /\ s.last = None
    BY <1>1 DEF Whole
  <1>3. Aborted(r, pc) = [s EXCEPT !.order = r.order]
    BY DEF Aborted
  <1> HIDE DEF s
  <1> DEFINE t == [s EXCEPT !.order = r.order]
  <1>4. Whole(t) /\ t.pc = pc /\ t.order = r.order /\ t.last = None
    BY <1>2 DEF Whole
  <1> QED  BY <1>3, <1>4

LEMMA SettleFollows ==
  ASSUME NEW c, NEW r, NEW status, NEW evidence, Whole(r)
  PROVE  LET s == Settle(c, r, status, evidence)
         IN  /\ Follows(s, r)
             /\ s.results = Append(r.results, status) /\ s.last = evidence /\ s.rate = None
             /\ \/ s.pc = "finished"
                \/ s.pc = "buy" /\ s.index = r.index + 1 /\ r.index # Len(r.order.amounts)
  <1> DEFINE r1 == [r EXCEPT !.results = Append(r.results, status)]
             r2 == [r1 EXCEPT !.last = evidence]
             r3 == [r2 EXCEPT !.buy = None]
             r4 == [r3 EXCEPT !.sell = None]
             r5 == [r4 EXCEPT !.gas = None]
             r6 == [r5 EXCEPT !.rate = None]
  <1>1. r6 = [r EXCEPT !.results = Append(@, status), !.last = evidence, !.buy = None,
                       !.sell = None, !.gas = None, !.rate = None]
    BY Zenon
  <1> DEFINE longer == Append(r.results, status)
  <1>r1. Whole(r1) /\ r1.order = r.order /\ r1.index = r.index /\ r1.results = longer
    <2> HIDE DEF longer
    <2>1. r1 = [r EXCEPT !.results = longer]  BY DEF longer
    <2> HIDE DEF r1
    <2> QED  BY <2>1 DEF Whole
  <1> HIDE DEF longer
  <1> HIDE DEF r1
  <1>r2. Whole(r2) /\ r2.order = r.order /\ r2.index = r.index /\ r2.results = longer
        /\ r2.last = evidence
    BY <1>r1 DEF Whole
  <1> HIDE DEF r2
  <1>r3. Whole(r3) /\ r3.order = r.order /\ r3.index = r.index /\ r3.results = longer
        /\ r3.last = evidence
    BY <1>r2 DEF Whole
  <1> HIDE DEF r3
  <1>r4. Whole(r4) /\ r4.order = r.order /\ r4.index = r.index /\ r4.results = longer
        /\ r4.last = evidence
    BY <1>r3 DEF Whole
  <1> HIDE DEF r4
  <1>r5. Whole(r5) /\ r5.order = r.order /\ r5.index = r.index /\ r5.results = longer
        /\ r5.last = evidence
    BY <1>r4 DEF Whole
  <1> HIDE DEF r5
  <1>r6. Whole(r6) /\ r6.order = r.order /\ r6.index = r.index /\ r6.results = longer
        /\ r6.last = evidence /\ r6.rate = None
    BY <1>r5 DEF Whole
  <1> HIDE DEF r6
  <1> DEFINE e1 == [r6 EXCEPT !.pc = "finished"]
             ended == [e1 EXCEPT !.started = None]
             n1 == [r6 EXCEPT !.pc = "buy"]
             next == [n1 EXCEPT !.index = r6.index + 1]
  <1> DEFINE Carries(s) == s.results = longer /\ s.last = evidence /\ s.rate = None
  <1>4. /\ Whole(e1) /\ e1.order = r.order /\ e1.pc = "finished" /\ Carries(e1)
        /\ Whole(n1) /\ n1.order = r.order /\ n1.pc = "buy" /\ n1.index = r6.index /\ Carries(n1)
    BY <1>r6 DEF Whole
  <1>5. /\ ended = [r6 EXCEPT !.pc = "finished", !.started = None]
        /\ next = [r6 EXCEPT !.pc = "buy", !.index = @ + 1]
    BY <1>4
  <1> HIDE DEF e1, n1
  <1>6. Whole(ended) /\ ended.order = r.order /\ ended.pc = "finished" /\ Carries(ended)
    BY <1>4 DEF Whole
  <1>7. Whole(next) /\ next.order = r.order /\ next.pc = "buy" /\ Carries(next)
        /\ next.index = r.index + 1
    BY <1>4, <1>r6 DEF Whole
  <1> HIDE DEF ended, next
  <1>8. Settle(c, r, status, evidence)
          = IF r.index = Len(r.order.amounts) THEN ended ELSE next
    BY <1>1, <1>5 DEF Settle
  <1> DEFINE s == Settle(c, r, status, evidence)
  <1>9. /\ Follows(s, r) /\ Carries(s)
        /\ \/ s.pc = "finished"
           \/ s.pc = "buy" /\ s.index = r.index + 1 /\ r.index # Len(r.order.amounts)
    BY <1>6, <1>7, <1>8 DEF Follows
  <1> QED  BY <1>9 DEF longer

LEMMA JudgeFollows ==
  ASSUME NEW c, NEW r, Whole(r)
  PROVE  Follows(Judge(c, r), r)
  BY SettleFollows, AbortedIsWhole DEF Judge, Follows, Ended

LEMMA AsksAreWhole ==
  ASSUME NEW r, Whole(r)
  PROVE  /\ Whole(AskGas(r)) /\ AskGas(r).order = r.order /\ AskGas(r).pc \in {"known", "gas"}
         /\ Whole(AskRate(r)) /\ AskRate(r).order = r.order /\ AskRate(r).pc \in {"known", "rate"}
  <1>1. Whole(AskGas(r)) /\ AskGas(r).order = r.order /\ AskGas(r).pc \in {"known", "gas"}
    <2> DEFINE unknown == Gas(r, None)
    <2> HIDE DEF unknown
    <2> QED  BY DEF AskGas, Whole, unknown
  <1>2. Whole(AskRate(r)) /\ AskRate(r).order = r.order /\ AskRate(r).pc \in {"known", "rate"}
    BY DEF AskRate, Whole
  <1> QED  BY <1>1, <1>2

LEMMA CostsFollow ==
  ASSUME NEW c, NEW r, Whole(r)
  PROVE  Follows(AfterGas(c, r), r) /\ Follows(AfterRate(c, r), r) /\ Follows(AfterFees(c, r), r)
  <1>1. ASSUME NEW s, Whole(s)
        PROVE  /\ Follows(JudgeIfKnown(c, AskRate(s)), s)
               /\ Follows(JudgeIfKnown(c, AskGas(s)), s)
    BY <1>1, AsksAreWhole, JudgeFollows DEF JudgeIfKnown, Follows
  <1>2. ASSUME NEW s, Whole(s)
        PROVE  Follows(AfterGas(c, s), s) /\ Follows(AfterRate(c, s), s)
    BY <1>1, <1>2, JudgeFollows DEF AfterGas, AfterRate
  <1>3. Follows(AfterFees(c, r), r)
    <2> DEFINE asked == IF Level2(c) THEN AskGas(r) ELSE AskRate(r)
    <2>1. Whole(asked) /\ asked.order = r.order /\ asked.pc \in {"known", "gas", "rate"}
      BY AsksAreWhole
    <2> HIDE DEF asked
    <2>2. Follows(AfterGas(c, asked), asked) /\ Follows(AfterRate(c, asked), asked)
      BY <1>2, <2>1
    <2> QED  BY <2>1, <2>2 DEF AfterFees, asked, Follows
  <1> QED  BY <1>2, <1>3

(* The run s.run and the registry s.registry that follow r and g when c    *)
(* goes on: c awaits fees exactly when its run says so, and has no other   *)
(* task than the one it awaits.                                            *)
Joint(s, c, r, g) ==
    /\ Whole(s.run) /\ s.run.order = r.order /\ Good(s.registry)
    /\ s.run.pc \in {"buy", "sell", "fees_buy", "fees_sell", "gas", "rate"} \union Ended
    /\ Awaits(s.registry, c) <=> s.run.pc \in {"fees_buy", "fees_sell"}
    /\ s.registry.task[c] # None /\ s.registry.awaiting[c] # c => s.run.pc \in Ended
    /\ \A d \in Callers \ {c} : /\ s.registry.awaiting[d] = g.awaiting[d]
                                /\ s.registry.task[d] = g.task[d]

LEMMA FeesAreJoint ==
  ASSUME NEW g, Good(g), NEW c \in Callers, NEW r, Whole(r), r.order \in Orders[c],
         g.awaiting[c] = None, g.task[c] = None
  PROVE  /\ Joint([run |-> AfterFees(c, r), registry |-> g], c, r, g)
         /\ Joint(SellFees(c, r, g), c, r, g) /\ Joint(BuyFees(c, r, g), c, r, g)
  <1>1. Joint([run |-> AfterFees(c, r), registry |-> g], c, r, g)
    <2> DEFINE s == AfterFees(c, r)
    <2>1. Follows(s, r)  BY CostsFollow
    <2> HIDE DEF s
    <2>2. s.pc \notin {"fees_buy", "fees_sell"}
      BY <2>1 DEF Follows, Ended
    <2> DEFINE j == [run |-> s, registry |-> g]
    <2>3. j.run = s /\ j.registry = g  OBVIOUS
    <2> HIDE DEF j
    <2>4. Joint(j, c, r, g)
      <3>1. s.pc \in {"buy", "sell", "fees_buy", "fees_sell", "gas", "rate"} \union Ended
        BY <2>1 DEF Follows, Ended
      <3> QED  BY <2>1, <2>2, <2>3, <3>1 DEF Joint, Follows, Awaits
    <2> QED  BY <2>4 DEF j, s
  <1>2. BuyKey(r) \in Keys /\ SellKey(r) \in Keys
    BY KeysAssumption DEF BuyKey, SellKey
  <1>3. ASSUME NEW k \in Keys, NEW pc \in {"fees_buy", "fees_sell"}
        PROVE  Joint([run |-> [r EXCEPT !.pc = pc], registry |-> Run(g, c, k)], c, r, g)
    <2> DEFINE h == Run(g, c, k)
               s == [r EXCEPT !.pc = pc]
    <2>1. /\ Good(h) /\ h.awaiting[c] # None
          /\ h.task[c] # None => h.awaiting[c] = c
          /\ \A d \in Callers \ {c} : h.awaiting[d] = g.awaiting[d] /\ h.task[d] = g.task[d]
      BY RunKeeps
    <2>2. Whole(s) /\ s.pc = pc /\ s.order = r.order
      BY DEF Whole
    <2> HIDE DEF h, s
    <2> DEFINE j == [run |-> s, registry |-> h]
    <2>3. j.run = s /\ j.registry = h  OBVIOUS
    <2> HIDE DEF j
    <2>4. Joint(j, c, r, g)
      BY <1>3, <2>1, <2>2, <2>3 DEF Joint, Awaits
    <2> QED  BY <2>4 DEF j, s, h
  <1>4. Joint(SellFees(c, r, g), c, r, g)
    BY <1>1, <1>2, <1>3 DEF SellFees
  <1>5. Joint(BuyFees(c, r, g), c, r, g)
    BY <1>2, <1>3, <1>4 DEF BuyFees
  <1> QED  BY <1>1, <1>4, <1>5

(* The inductive invariant of the shared requests.                         *)
Shared(c) ==
    /\ Whole(run[c]) /\ run[c].pc \in Waiting \union Ended \union {"idle"}
    /\ run[c].pc # "idle" => run[c].order \in Orders[c]
    /\ Awaits(registry, c) <=> run[c].pc \in {"fees_buy", "fees_sell"}
    /\ registry.task[c] # None /\ registry.awaiting[c] # c => run[c].pc \in Ended

IInv ==
    /\ Good(registry)
    /\ run = [c \in Callers |-> run[c]]
    /\ \A c \in Callers : Shared(c)

LEMMA InitShared == Init => IInv
  <1> SUFFICES ASSUME Init PROVE IInv  OBVIOUS
  <1>1. registry = EmptyRegistry /\ run = [c \in Callers |-> Idle]
    BY DEF Init, FeeInit
  <1>2. ASSUME NEW c \in Callers PROVE Shared(c)
    BY <1>1 DEF Shared, Whole, Idle, Waiting, Ended, Awaits, EmptyRegistry
  <1> QED  BY <1>1, <1>2, EmptyIsGood DEF IInv

(* A step of c through Continue.                                           *)
LEMMA ContinueKeeps ==
  ASSUME IInv, NEW c \in Callers, NEW s, NEW r, Continue(c, s), Joint(s, c, r, registry),
         r.order \in Orders[c]
  PROVE  IInv'
  <1>1. /\ registry' = s.registry
        /\ run' = [run EXCEPT ![c] = s.run]
    BY DEF Continue, Become
  <1>2. run' = [d \in Callers |-> run'[d]] /\ run'[c] = s.run
        /\ \A d \in Callers \ {c} : run'[d] = run[d]
    BY <1>1 DEF IInv
  <1>3. Good(registry)'
    <2>1. Good(s.registry)  BY DEF Joint
    <2> QED  BY <1>1, <2>1 DEF Good, Registries
  <1>4. ASSUME NEW d \in Callers PROVE Shared(d)'
    <2>1. CASE d = c
      BY <1>1, <1>2, <2>1 DEF Joint, Shared, Whole, Awaits, Waiting
    <2>2. CASE d # c
      <3>1. Shared(d)  BY DEF IInv
      <3>2. run'[d] = run[d]  BY <1>2, <2>2
      <3>3. registry'.awaiting[d] = registry.awaiting[d] /\ registry'.task[d] = registry.task[d]
        BY <1>1, <2>2 DEF Joint
      <3> QED  BY <3>1, <3>2, <3>3 DEF Shared, Whole, Awaits
    <2> QED  BY <2>1, <2>2
  <1> QED  BY <1>2, <1>3, <1>4 DEF IInv

(* A step of c that leaves the registry alone and no wait for fees behind. *)
LEMMA BecomeKeeps ==
  ASSUME IInv, NEW c \in Callers, NEW s, Become(c, s), UNCHANGED registry, Whole(s),
         s.order \in Orders[c], run[c].pc \in {"idle", "buy", "sell", "gas", "rate"},
         s.pc \in {"buy", "sell", "gas", "rate"} \union Ended
  PROVE  IInv'
  <1> DEFINE j == [run |-> s, registry |-> registry]
  <1>1. registry.awaiting[c] = None /\ registry.task[c] = None
    BY NoneIsNoCaller DEF IInv, Shared, Awaits, Ended
  <1>2. Joint(j, c, s, registry)
    BY <1>1, NoneIsNoCaller DEF Joint, IInv, Awaits, Ended
  <1>3. Continue(c, j)
    BY DEF Continue
  <1> HIDE DEF j
  <1> QED  BY <1>2, <1>3, ContinueKeeps

(* The registry moves on, and nobody's wait changes.                       *)
LEMMA TaskStepKeeps ==
  ASSUME IInv, NEW c \in Callers, NEW result \in {"ok", "error"},
         TaskStarts(c) \/ TaskEnds(c, result), UNCHANGED run
  PROVE  IInv'
  <1>1. /\ Good(registry') /\ registry'.awaiting = registry.awaiting
        /\ \A d \in Callers : registry'.task[d] # None => registry.task[d] # None
    BY TaskKeeps DEF IInv
  <1>2. Good(registry)'
    BY <1>1 DEF Good, Registries
  <1>3. ASSUME NEW d \in Callers PROVE Shared(d)'
    BY <1>1 DEF IInv, Shared, Whole, Awaits
  <1> QED  BY <1>2, <1>3 DEF IInv

LEMMA LeaveIsJoint ==
  ASSUME IInv, NEW c \in Callers, NEW s, Whole(s), s.pc \in Ended, s.order = run[c].order
  PROVE  Joint([run |-> s, registry |-> Leave(registry, c)], c, run[c], registry)
  <1> DEFINE g == Leave(registry, c)
  <1>1. /\ Good(g) /\ g.awaiting[c] = None /\ g.task = registry.task
        /\ \A d \in Callers \ {c} : g.awaiting[d] = registry.awaiting[d]
    BY LeaveKeeps DEF IInv
  <1> HIDE DEF g
  <1> DEFINE j == [run |-> s, registry |-> g]
  <1>2. j.run = s /\ j.registry = g  OBVIOUS
  <1> HIDE DEF j
  <1>3. Joint(j, c, run[c], registry)
    BY <1>1, <1>2 DEF Joint, Awaits, Ended
  <1> QED  BY <1>3 DEF j, g

LEMMA UnconfirmedIsWhole ==
  ASSUME NEW c, NEW check, Whole(run[c])
  PROVE  /\ Whole(Unconfirmed(c, check)) /\ Unconfirmed(c, check).order = run[c].order
         /\ Unconfirmed(c, check).pc \in {"buy", "gas", "rate"} \union Ended
  <1> DEFINE a == Aborted(run[c], "broken")
             t == Settle(c, run[c], "route_unavailable", None)
  <1>1. Whole(a) /\ a.pc = "broken" /\ a.order = run[c].order
    BY AbortedIsWhole
  <1>2. Whole(t) /\ t.order = run[c].order
        /\ t.pc \in {"buy", "gas", "rate"} \union Ended
    BY SettleFollows DEF Follows, Ended
  <1> QED  BY <1>1, <1>2 DEF Unconfirmed, Ended

LEMMA StepKeeps ==
  ASSUME IInv, NEW c \in Callers,
         \/ Start(c) \/ VerifyBuy(c) \/ VerifySell(c) \/ FeesArrive(c) \/ GasArrives(c)
         \/ RateArrives(c) \/ TimeOut(c) \/ Cancel(c) \/ Build(c) \/ Save(c)
  PROVE  IInv'
  <1> DEFINE r == run[c]
  <1>r. /\ Whole(r) /\ r.pc \in Waiting \union Ended \union {"idle"}
        /\ r.pc # "idle" => r.order \in Orders[c]
        /\ Awaits(registry, c) <=> r.pc \in {"fees_buy", "fees_sell"}
        /\ registry.task[c] # None /\ registry.awaiting[c] # c => r.pc \in Ended
        /\ Good(registry)
    BY DEF IInv, Shared
  <1>n. r.pc \in {"idle", "buy", "sell"} => registry.awaiting[c] = None /\ registry.task[c] = None
    BY <1>r, NoneIsNoCaller DEF Awaits, Ended
  <1>1. CASE Start(c)
    <2> PICK order \in Orders[c] :
          LET s == [Idle EXCEPT !.started = clock, !.order = order]
          IN  IF Level2(c)
              THEN Become(c, [s EXCEPT !.pc = "buy"]) /\ UNCHANGED registry
              ELSE Continue(c, BuyFees(c, [s EXCEPT !.buy = Given(order).buy,
                                                    !.sell = Given(order).sell], registry))
      BY <1>1 DEF Start
    <2> DEFINE s1 == [Idle EXCEPT !.started = clock]
               s == [s1 EXCEPT !.order = order]
    <2>0. r.pc = "idle"  BY <1>1 DEF Start
    <2>1. Whole(Idle)  BY DEF Idle, Whole
    <2>2. s = [Idle EXCEPT !.started = clock, !.order = order]
      OBVIOUS
    <2>3. Whole(s1)  BY <2>1 DEF Whole
    <2> HIDE DEF s1
    <2>4. Whole(s) /\ s.order = order  BY <2>3 DEF Whole
    <2> HIDE DEF s
    <2>5. CASE Level2(c)
      <3> DEFINE t == [s EXCEPT !.pc = "buy"]
      <3>1. Whole(t) /\ t.order = order /\ t.pc = "buy"  BY <2>4 DEF Whole
      <3>2. Become(c, t) /\ UNCHANGED registry  BY <2>2, <2>5
      <3> HIDE DEF t
      <3> QED  BY <2>0, <3>1, <3>2, BecomeKeeps
    <2>6. CASE ~Level2(c)
      <3> DEFINE t1 == [s EXCEPT !.buy = Given(order).buy]
                 t == [t1 EXCEPT !.sell = Given(order).sell]
      <3>1. t = [s EXCEPT !.buy = Given(order).buy, !.sell = Given(order).sell]
        BY Zenon
      <3>2. Whole(t1) /\ t1.order = order
        <4> DEFINE x == Given(order).buy
        <4> HIDE DEF x
        <4>1. Whole([s EXCEPT !.buy = x]) /\ [s EXCEPT !.buy = x].order = order
          BY <2>4 DEF Whole
        <4> QED  BY <4>1 DEF x
      <3> HIDE DEF t1
      <3>3. Whole(t) /\ t.order = order
        <4> DEFINE x == Given(order).sell
        <4> HIDE DEF x
        <4>1. Whole([t1 EXCEPT !.sell = x]) /\ [t1 EXCEPT !.sell = x].order = order
          BY <3>2 DEF Whole
        <4> QED  BY <4>1 DEF x
      <3>4. Continue(c, BuyFees(c, t, registry))
        BY <2>2, <2>6, <3>1
      <3> HIDE DEF t
      <3>5. Joint(BuyFees(c, t, registry), c, t, registry)
        BY <1>r, <1>n, <2>0, <3>3, FeesAreJoint
      <3> QED  BY <3>3, <3>4, <3>5, ContinueKeeps
    <2> QED  BY <2>5, <2>6
  <1>2. CASE VerifyBuy(c)
    <2>0. r.pc = "buy" /\ r.order \in Orders[c] /\ UNCHANGED registry
      BY <1>2, <1>r DEF VerifyBuy
    <2> PICK check :
          IF check.outcome = "reproduced"
          THEN Become(c, [r EXCEPT !.pc = "sell", !.buy = check.quote, !.last = None])
          ELSE Become(c, Unconfirmed(c, check))
      BY <1>2 DEF VerifyBuy
    <2>1. CASE check.outcome = "reproduced"
      <3> DEFINE x == check.quote
                 t1 == [r EXCEPT !.pc = "sell"]
                 t2 == [t1 EXCEPT !.buy = x]
                 t == [t2 EXCEPT !.last = None]
      <3>1. t = [r EXCEPT !.pc = "sell", !.buy = check.quote, !.last = None]
        BY Zenon
      <3> HIDE DEF x, r
      <3>2. Whole(t1) /\ t1.order = r.order /\ t1.pc = "sell"  BY <1>r DEF Whole
      <3> HIDE DEF t1
      <3>3. Whole(t2) /\ t2.order = r.order /\ t2.pc = "sell"  BY <3>2 DEF Whole
      <3> HIDE DEF t2
      <3>4. Whole(t) /\ t.order = r.order /\ t.pc = "sell"  BY <3>3 DEF Whole
      <3>5. Become(c, t)
        BY <2>1, <3>1
      <3> HIDE DEF t
      <3> QED  BY <2>0, <3>4, <3>5, BecomeKeeps DEF r
    <2>2. CASE check.outcome # "reproduced"
      <3>1. Become(c, Unconfirmed(c, check))  BY <2>2
      <3> QED  BY <1>r, <2>0, <3>1, UnconfirmedIsWhole, BecomeKeeps
    <2> QED  BY <2>1, <2>2
  <1>3. CASE VerifySell(c)
    <2>0. r.pc = "sell" /\ r.order \in Orders[c]
      BY <1>3, <1>r DEF VerifySell
    <2> PICK check :
          IF check.outcome = "reproduced"
          THEN Continue(c, BuyFees(c, [r EXCEPT !.sell = check.quote], registry))
          ELSE Become(c, Unconfirmed(c, check)) /\ UNCHANGED registry
      BY <1>3 DEF VerifySell
    <2>1. CASE check.outcome = "reproduced"
      <3> DEFINE x == check.quote
                 t == [r EXCEPT !.sell = x]
      <3> HIDE DEF x, r
      <3>1. Whole(t) /\ t.order = r.order  BY <1>r DEF Whole
      <3>2. Continue(c, BuyFees(c, t, registry))  BY <2>1 DEF x, r
      <3> HIDE DEF t
      <3>3. Joint(BuyFees(c, t, registry), c, t, registry)
        BY <1>r, <1>n, <2>0, <3>1, FeesAreJoint
      <3> QED  BY <2>0, <3>1, <3>2, <3>3, ContinueKeeps
    <2>2. CASE check.outcome # "reproduced"
      <3>1. Become(c, Unconfirmed(c, check)) /\ UNCHANGED registry  BY <2>2
      <3> QED  BY <1>r, <2>0, <3>1, UnconfirmedIsWhole, BecomeKeeps
    <2> QED  BY <2>1, <2>2
  <1>4. CASE FeesArrive(c)
    <2> DEFINE g == Leave(registry, c)
    <2>0. registry.answer[c] # None  BY <1>4 DEF FeesArrive
    <2>1. registry.awaiting[c] # None /\ r.pc \in {"fees_buy", "fees_sell"} /\ r.order \in Orders[c]
      BY <1>r, <2>0 DEF Good, Awaits
    <2>2. registry.task[c] = None
      BY <1>r, <2>0, <2>1 DEF Good, Ended
    <2>3. /\ Good(g) /\ g.awaiting[c] = None /\ g.task = registry.task
          /\ \A d \in Callers \ {c} : g.awaiting[d] = registry.awaiting[d]
      BY <1>r, LeaveKeeps
    <2>4. \/ Continue(c, [run |-> Aborted(r, "error"), registry |-> g])
          \/ Continue(c, SellFees(c, r, g))
          \/ Continue(c, [run |-> AfterFees(c, r), registry |-> g])
      BY <1>4 DEF FeesArrive
    <2>5. Joint([run |-> Aborted(r, "error"), registry |-> g], c, r, registry)
      <3>1. Whole(Aborted(r, "error")) /\ Aborted(r, "error").pc \in Ended
            /\ Aborted(r, "error").order = r.order
        BY AbortedIsWhole DEF Ended
      <3> QED  BY <3>1, LeaveIsJoint
    <2> HIDE DEF g
    <2>6. /\ Joint([run |-> AfterFees(c, r), registry |-> g], c, r, g)
          /\ Joint(SellFees(c, r, g), c, r, g)
      BY <1>r, <2>1, <2>2, <2>3, FeesAreJoint
    <2>7. /\ Joint([run |-> AfterFees(c, r), registry |-> g], c, r, registry)
          /\ Joint(SellFees(c, r, g), c, r, registry)
      BY <2>3, <2>6 DEF Joint
    <2> QED  BY <2>1, <2>4, <2>5, <2>7, ContinueKeeps
  <1>5. CASE GasArrives(c)
    <2>0. r.pc = "gas" /\ r.order \in Orders[c] /\ UNCHANGED registry
      BY <1>5, <1>r DEF GasArrives
    <2> PICK price :
          IF price.error # None THEN Become(c, Aborted(r, "error"))
          ELSE Become(c, AfterGas(c, [r EXCEPT !.gas = Gas(r, price.value)]))
      BY <1>5 DEF GasArrives
    <2>1. Whole(Aborted(r, "error")) /\ Aborted(r, "error").pc \in Ended
          /\ Aborted(r, "error").order = r.order
      BY AbortedIsWhole DEF Ended
    <2> DEFINE x == Gas(r, price.value)
               t == [r EXCEPT !.gas = x]
    <2> HIDE DEF x, r
    <2>2. Whole(t) /\ t.order = r.order  BY <1>r DEF Whole
    <2>3. \/ Become(c, Aborted(r, "error"))
          \/ Become(c, AfterGas(c, t))
      BY DEF x, r
    <2> HIDE DEF t
    <2>4. Follows(AfterGas(c, t), t)  BY <2>2, CostsFollow
    <2> QED  BY <2>0, <2>1, <2>2, <2>3, <2>4, BecomeKeeps DEF Follows, Ended, r
  <1>6. CASE RateArrives(c)
    <2>0. r.pc = "rate" /\ r.order \in Orders[c] /\ UNCHANGED registry
      BY <1>6, <1>r DEF RateArrives
    <2>1. ASSUME NEW pc \in {"broken", "refused"}
          PROVE  Whole(Aborted(r, pc)) /\ Aborted(r, pc).pc \in Ended /\ Aborted(r, pc).order = r.order
      BY AbortedIsWhole DEF Ended
    <2>2. PICK x : \/ \E pc \in {"broken", "refused"} : Become(c, Aborted(r, pc))
                   \/ Become(c, AfterRate(c, r))
                   \/ Become(c, AfterRate(c, [r EXCEPT !.rate = x]))
      BY <1>6 DEF RateArrives
    <2> DEFINE t == [r EXCEPT !.rate = x]
    <2> HIDE DEF r
    <2>3. Whole(t) /\ t.order = r.order  BY <1>r DEF Whole
    <2> HIDE DEF t
    <2>4. Follows(AfterRate(c, t), t) /\ Follows(AfterRate(c, r), r)  BY <1>r, <2>3, CostsFollow
    <2>5. \/ \E pc \in {"broken", "refused"} : Become(c, Aborted(r, pc))
          \/ Become(c, AfterRate(c, r))
          \/ Become(c, AfterRate(c, t))
      BY <2>2 DEF t
    <2>6. CASE \E pc \in {"broken", "refused"} : Become(c, Aborted(r, pc))
      <3> PICK pc \in {"broken", "refused"} : Become(c, Aborted(r, pc))  BY <2>6
      <3> QED  BY <2>0, <2>1, BecomeKeeps DEF r
    <2>7. CASE Become(c, AfterRate(c, r))
      BY <2>0, <2>4, <2>7, BecomeKeeps DEF Follows, Ended, r
    <2>8. CASE Become(c, AfterRate(c, t))
      BY <2>0, <2>3, <2>4, <2>8, BecomeKeeps DEF Follows, Ended, r
    <2> QED  BY <2>5, <2>6, <2>7, <2>8
  <1>7. CASE TimeOut(c)
    <2>0. r.pc # "idle" /\ r.order \in Orders[c]
      BY <1>7, <1>r DEF TimeOut, Overdue, Waiting
    <2> DEFINE x == [i \in DOMAIN r.order.amounts |-> "failed"]
               a == Aborted(r, "finished")
               t == [a EXCEPT !.results = x]
    <2>1. Continue(c, [registry |-> Leave(registry, c),
                       run |-> IF Level2(c) THEN t ELSE Aborted(r, "cancelled")])
      BY <1>7 DEF TimeOut
    <2>2. Whole(a) /\ a.pc = "finished" /\ a.order = r.order
      BY AbortedIsWhole
    <2>3. Whole(Aborted(r, "cancelled")) /\ Aborted(r, "cancelled").pc = "cancelled"
          /\ Aborted(r, "cancelled").order = r.order
      BY AbortedIsWhole
    <2> HIDE DEF x, a
    <2>4. Whole(t) /\ t.order = r.order /\ t.pc = "finished"
      BY <2>2 DEF Whole
    <2> HIDE DEF t
    <2> DEFINE s == IF Level2(c) THEN t ELSE Aborted(r, "cancelled")
    <2>5. Whole(s) /\ s.pc \in Ended /\ s.order = r.order
      BY <2>3, <2>4 DEF Ended
    <2>6. Continue(c, [run |-> s, registry |-> Leave(registry, c)])
      BY <2>1 DEF Continue
    <2> HIDE DEF s
    <2>7. Joint([run |-> s, registry |-> Leave(registry, c)], c, r, registry)
      BY <2>5, LeaveIsJoint
    <2> QED  BY <2>0, <2>6, <2>7, ContinueKeeps
  <1>8. CASE Cancel(c)
    <2>0. r.pc # "idle" /\ r.order \in Orders[c]
      BY <1>8, <1>r DEF Cancel, Waiting
    <2> DEFINE s == Aborted(r, "cancelled")
    <2>1. Whole(s) /\ s.pc \in Ended /\ s.order = r.order
      BY AbortedIsWhole DEF Ended
    <2>2. Continue(c, [run |-> s, registry |-> Leave(registry, c)])
      BY <1>8 DEF Cancel, Continue
    <2> HIDE DEF s
    <2>3. Joint([run |-> s, registry |-> Leave(registry, c)], c, r, registry)
      BY <2>1, LeaveIsJoint
    <2> QED  BY <2>0, <2>2, <2>3, ContinueKeeps
  <1>9. CASE Build(c)
    BY <1>9, TaskStepKeeps DEF Build, BuildSnapshot
  <1>10. CASE Save(c)
    <2> PICK result \in {"ok", "error"} : TaskEnds(c, result)
      BY <1>10 DEF Save, SaveSnapshot
    <2> QED  BY <1>10, TaskStepKeeps DEF Save
  <1> QED  BY <1>1, <1>2, <1>3, <1>4, <1>5, <1>6, <1>7, <1>8, <1>9, <1>10

LEMMA NextKeeps == IInv /\ [Next]_vars => IInv'
  <1> SUFFICES ASSUME IInv, [Next]_vars PROVE IInv'  OBVIOUS
  <1>1. CASE UNCHANGED <<registry, run>>
    BY <1>1 DEF IInv, Good, Registries, Shared, Whole, Awaits
  <1>2. CASE Next
    BY <1>1, <1>2, StepKeeps DEF Next, Tick
  <1> QED  BY <1>1, <1>2 DEF vars

THEOREM IInvHolds == Spec => []IInv
  BY InitShared, NextKeeps, PTL DEF Spec

(* However requests of the same key overlap, end, fail or are cancelled,   *)
(* two of them are under way together only when the creator of one was     *)
(* cancelled: for any number of callers and keys.                          *)
THEOREM RequestsAreShared == Spec => []OneTaskPerKey
  <1>1. IInv => OneTaskPerKey
    BY NoneIsNoCaller DEF IInv, Good, OneTaskPerKey
  <1> QED  BY <1>1, IInvHolds, PTL

(* No entry of the registry outlives the wait of its creator, so that no   *)
(* caller is ever answered with the result of an earlier request.          *)
THEOREM EntriesAreAwaited == Spec => []EntryIsAwaited
  <1>1. IInv => EntryIsAwaited
    BY DEF IInv, Good, EntryIsAwaited
  <1> QED  BY <1>1, IInvHolds, PTL

-----------------------------------------------------------------------------
(* Quotes.                                                                 *)
LEMMA NoneIsNoError ==
  /\ None \notin Int /\ None \notin QuoteRecords /\ None \notin ResultRecords
  /\ None \notin OutcomeRecords
  /\ None # "base" /\ None # "mid" /\ None # "native"
  /\ None # Raw /\ None # "data" /\ None # "unsupported" /\ None # "configuration"
  /\ \A http \in DOMAIN Transport : Transport[http] # None
  BY NoneAssumption DEF Range

(* What a request that did not fail returned.                              *)
Returned(p, input, a, now, result) ==
    result.error = None =>
        /\ a.out \in Nat /\ a.gas \in Nat \union {None}
        /\ \E mode \in {"classic", a.mode} :
              result.quote = [route |-> [provider |-> p, mode |-> mode, sources |-> a.sources],
                              input |-> input, output |-> a.out, gas |-> a.gas, at |-> now]

LEMMA GetQuoteReturns ==
  ASSUME NEW p \in Adapters, NEW input, NEW a, NEW now,
         a.http \in DOMAIN Transport \union {"ok"}, a.out \in Amount, a.gas \in Amount
  PROVE  Returned(p, input, a, now, GetQuote(p, input, a, now))
  <1>1. ASSUME NEW route, NEW mode \in {"classic", a.mode},
               route = [provider |-> p, mode |-> mode, sources |-> a.sources],
               a.out \in Nat, a.gas \in Nat \union {None}
        PROVE  Returned(p, input, a, now, Normalized(route, input, a, now))
    <2>1. Failed(Raw).error # None
      BY NoneIsNoError DEF Failed
    <2> QED  BY <1>1, <2>1 DEF Normalized, Returned
  <1>2. ASSUME NEW error \in {"data", "unsupported", "configuration"}
        PROVE  Returned(p, input, a, now, Failed(error))
    BY NoneIsNoError DEF Failed, Returned
  <1>3. ASSUME NEW result, Returned(p, input, a, now, result)
        PROVE  Returned(p, input, a, now, Sent(a, result))
    <2>1. CASE a.http = "ok"
      BY <1>3, <2>1 DEF Sent
    <2>2. CASE a.http # "ok"
      <3>1. ErrorOf(a.http) # None
        BY <2>2, NoneIsNoError DEF ErrorOf
      <3> QED  BY <2>2, <3>1 DEF Sent, Failed, Returned
    <2> QED  BY <2>1, <2>2
  <1>4. ~Missing(a.out) /\ ~Unparsed(a.gas) => a.out \in Nat /\ a.gas \in Nat \union {None}
    BY DEF Missing, Unparsed, Amount
  <1>5. CASE p = "oneinch"
    <2>1. Returned(p, input, a, now, OneInchQuote(input, a, now))
      BY <1>1, <1>2, <1>4, <1>5 DEF OneInchQuote, OneInchRoute
    <2> QED  BY <1>2, <1>3, <1>5, <2>1 DEF GetQuote, OneInchGetQuote
  <1>6. CASE p = "zero_x"
    <2>1. Returned(p, input, a, now, ZeroXQuote(input, a, now))
      BY <1>1, <1>2, <1>4, <1>6 DEF ZeroXQuote, ZeroXRoute
    <2> QED  BY <1>2, <1>3, <1>6, <2>1 DEF GetQuote, ZeroXGetQuote
  <1>7. CASE p = "velora"
    <2>1. Returned(p, input, a, now, VeloraQuote(input, a, now))
      BY <1>1, <1>2, <1>4, <1>7 DEF VeloraQuote, VeloraRoute
    <2> QED  BY <1>2, <1>3, <1>7, <2>1 DEF GetQuote, VeloraGetQuote
  <1>8. CASE p = "uniswap"
    <2>1. Returned(p, input, a, now, UniswapQuote(input, a, now))
      BY <1>1, <1>2, <1>4, <1>8 DEF UniswapQuote, UniswapRoute
    <2> QED  BY <1>2, <1>3, <1>8, <2>1 DEF GetQuote, UniswapGetQuote
  <1> QED  BY <1>5, <1>6, <1>7, <1>8, AdaptersAssumption

(* A quote on a route for an amount.                                       *)
Quoted(c, route, input, q) ==
    /\ q.route = route /\ q.input = input
    /\ q.output \in Nat /\ q.gas \in Nat \union {None}
    /\ Level2(c) => q # None

LEMMA VerifyQuotes ==
  ASSUME NEW c, NEW route, NEW input \in Nat, clock \in Nat, NEW check \in Verify(route, input),
         route = [provider |-> route.provider, mode |-> route.mode, sources |-> route.sources],
         check.outcome = "reproduced"
  PROVE  Quoted(c, route, input, check.quote)
  <1>1. route.provider \in Adapters /\ route.provider \notin Blocked
    BY DEF Verify
  <1> PICK a \in Answers[route.provider] :
         check = CheckQuote(ValidateFixedRoute(route, input, a, clock), route, input)
    BY <1>1 DEF Verify
  <1> DEFINE p == route.provider
             result == GetQuote(p, input, a, clock)
             compared == ValidateFixedRoute(route, input, a, clock)
  <1>2. /\ a \in UNION {Answers[x] : x \in Adapters}
        /\ a.http \in DOMAIN Transport \union {"ok"} /\ a.out \in Amount /\ a.gas \in Amount
    BY <1>1, RepliesAssumption
  <1>3. Returned(p, input, a, clock, result)
    BY <1>1, <1>2, GetQuoteReturns
  <1>4. compared = Compared(route, result)
    BY <1>1, AdaptersAssumption
    DEF ValidateFixedRoute, OneInchValidates, ZeroXValidates, VeloraValidates, UniswapValidates,
        GetQuote
  <1> HIDE DEF result, compared
  <1>5. /\ compared.outcome = "reproduced" /\ check = compared /\ ~RouteMismatch(compared.quote, route)
        /\ compared.quote.input = input
    <2>1. \/ compared = [outcome |-> "error", error |-> result.error, quote |-> None]
          \/ compared = [outcome |-> "reproduced", error |-> None, quote |-> result.quote]
          \/ compared = [outcome |-> "mismatch", error |-> None, quote |-> None]
      BY <1>4 DEF Compared
    <2>2. check = CheckQuote(compared, route, input)
      BY DEF compared
    <2> QED  BY <2>1, <2>2 DEF CheckQuote
  <1>6. result.error = None /\ compared.quote = result.quote
    BY <1>4, <1>5 DEF Compared
  <1> PICK mode \in {"classic", a.mode} :
         result.quote = [route |-> [provider |-> p, mode |-> mode, sources |-> a.sources],
                         input |-> input, output |-> a.out, gas |-> a.gas, at |-> clock]
    BY <1>3, <1>6 DEF Returned
  <1> DEFINE q == check.quote
  <1>7. q = [route |-> [provider |-> p, mode |-> mode, sources |-> a.sources],
             input |-> input, output |-> a.out, gas |-> a.gas, at |-> clock]
    BY <1>5, <1>6
  <1>8. a.out \in Nat /\ a.gas \in Nat \union {None}
    BY <1>3, <1>6 DEF Returned
  <1>9. q.route = route
    BY <1>5, <1>7 DEF RouteMismatch, Matches, Fingerprint
  <1>10. q # None
    <2>1. mode \in Modes /\ a.sources \in SUBSET Sources
      BY <1>2 DEF Modes, Sources
    <2>2. [provider |-> p, mode |-> mode, sources |-> a.sources] \in RouteRecords
      BY <1>1, <2>1 DEF RouteRecords
    <2>3. q \in QuoteRecords
      BY <1>7, <1>8, <2>2 DEF QuoteRecords
    <2> QED  BY <2>3, NoneIsNoError
  <1> QED  BY <1>7, <1>8, <1>9, <1>10 DEF Quoted

-----------------------------------------------------------------------------
(* The decision.                                                           *)
RateRecords == [from : {"native"}, to : {"base"}, value : Nat \ {0}, expires : Nat]

UnknownGas == [known |-> FALSE, cost |-> None, token |-> None, inclusion |-> "not_included"]
PaidGas(cost) == [known |-> TRUE, cost |-> cost, token |-> "native", inclusion |-> "not_included"]

(* The two quotes of the amount under way, and what is known of its costs. *)
BuyQuoted(c, r) == Quoted(c, r.order.buy, r.order.amounts[r.index], r.buy)
SellQuoted(c, r) == Quoted(c, r.order.sell, r.buy.output, r.sell)
GasFits(r) ==
    \/ r.gas = UnknownGas
    \/ r.buy.gas # None /\ r.sell.gas # None /\ \E cost \in Nat : r.gas = PaidGas(cost)
RateFits(r) == r.rate \in RateRecords \union {None}

LEMMA EmptySumIsZero ==
  ASSUME NEW account, NEW fees, NEW currency, NEW rates, NEW now,
         \A i \in DOMAIN fees : Value(fees[i], currency, rates, now) = None
  PROVE  SumOf(account, fees, currency, rates, now) = 0
  <1> DEFINE price(i) == Value(fees[i], currency, rates, now)
             body(g) == [s \in SUBSET {} |->
                           IF s = {} THEN 0
                           ELSE LET x == CHOOSE i \in s : TRUE IN price(x) + g[s \ {x}]]
             zero == [s \in SUBSET {} |-> 0]
             iter == CHOOSE g : g = body(g)
  <1>1. zero = body(zero)
    OBVIOUS
  <1>2. iter = body(iter)
    <2> HIDE DEF body, zero
    <2> QED  BY <1>1
  <1>3. iter[{}] = 0
    <2> HIDE DEF iter
    <2>1. {} \in SUBSET {}  OBVIOUS
    <2> QED  BY <1>2, <2>1
  <1>4. {i \in DOMAIN fees : Account(fees[i]) = account /\ price(i) # None} = {}
    OBVIOUS
  <1>5. SumOf(account, fees, currency, rates, now)
          = MapThenFoldSet(+, 0, LAMBDA i : price(i), LAMBDA S : CHOOSE i \in S : TRUE, {})
    BY <1>4 DEF SumOf
  <1>6. MapThenFoldSet(+, 0, LAMBDA i : price(i), LAMBDA S : CHOOSE i \in S : TRUE, {}) = iter[{}]
    BY DEF MapThenFoldSet
  <1> QED  BY <1>3, <1>5, <1>6

(* Fees that are part of the quote cost nothing more; those of a provider  *)
(* without rules are unknown.                                              *)
Costless(fees, k, l, currency, rates, now) ==
    /\ \A i \in DOMAIN fees : /\ Value(fees[i], currency, rates, now) = None
                              /\ FeeIsConsistent(fees[i])
                              /\ fees[i].currency \in {"base", "mid", None}
    /\ (\E i \in DOMAIN fees : FeeIsUnknown(fees[i], currency, rates, now))
          <=> ~({k.provider, l.provider} \subseteq Policies)

LEMMA FeesCostNothing ==
  ASSUME NEW k, NEW l, NEW currency, NEW rates, NEW now,
         k.output \in {"base", "mid"}, l.output \in {"base", "mid"}
  PROVE  Costless(Components(k) \o Components(l), k, l, currency, rates, now)
  <1> DEFINE fee(x) == Components(x)[1]
             fees == Components(k) \o Components(l)
  <1>1. ASSUME NEW x, x.output \in {"base", "mid"}
        PROVE  /\ Components(x) = <<fee(x)>>
               /\ Value(fee(x), currency, rates, now) = None
               /\ FeeIsConsistent(fee(x)) /\ fee(x).currency \in {"base", "mid", None}
               /\ FeeIsUnknown(fee(x), currency, rates, now) <=> x.provider \notin Policies
    <2>1. CASE x.provider \in Policies
      <3>1. fee(x) = [known |-> TRUE, amount |-> 0, currency |-> x.output,
                      kind |-> "aggregator", inclusion |-> "included_in_quote"]
            /\ Components(x) = <<fee(x)>>
        BY <2>1 DEF Components, QuoteInclusive
      <3>2. 0 # None /\ "base" # None /\ "mid" # None
        BY NoneIsNoError
      <3> HIDE DEF fee
      <3> QED  BY <1>1, <2>1, <3>1, <3>2 DEF Value, Counted, FeeIsConsistent, FeeIsUnknown
    <2>2. CASE x.provider \notin Policies
      <3>1. fee(x) = [known |-> FALSE, amount |-> None, currency |-> None,
                      kind |-> "aggregator", inclusion |-> "unknown"]
            /\ Components(x) = <<fee(x)>>
        BY <2>2 DEF Components, UnknownFee
      <3> HIDE DEF fee
      <3> QED  BY <2>2, <3>1 DEF Value, Counted, FeeIsConsistent, FeeIsUnknown
    <2> QED  BY <2>1, <2>2
  <1>2. Components(k) = <<fee(k)>> /\ Components(l) = <<fee(l)>>
    BY <1>1
  <1> HIDE DEF fee
  <1>3. DOMAIN fees = {1, 2} /\ fees[1] = fee(k) /\ fees[2] = fee(l)
    BY <1>2
  <1>4. /\ \A i \in DOMAIN fees : /\ Value(fees[i], currency, rates, now) = None
                                  /\ FeeIsConsistent(fees[i])
                                  /\ fees[i].currency \in {"base", "mid", None}
        /\ (\E i \in DOMAIN fees : FeeIsUnknown(fees[i], currency, rates, now))
              <=> ~({k.provider, l.provider} \subseteq Policies)
    BY <1>1, <1>3 DEF fee
  <1>5. Costless(fees, k, l, currency, rates, now)
    <2> HIDE DEF fees
    <2> QED  BY <1>4 DEF Costless
  <1> QED  BY <1>5

(* Either the gas is not known in the currency of the calculation, or it   *)
(* is what the evidence says.                                              *)
LEMMA GasIsCounted ==
  ASSUME NEW r, GasFits(r), RateFits(r), clock \in Nat
  PROVE  LET rates == IF r.rate = None THEN {} ELSE {r.rate}
             cost == GasCost(r.gas, "base", rates, clock)
         IN  /\ cost \in Nat \union {None}
             /\ r.gas # None => GasIsConsistent(r.gas) /\ r.gas.token \in {"native", None}
             /\ \/ GasIsUnknown(r.gas, "base", rates, clock)
                \/ /\ ~GasIsUnknown(r.gas, "base", rates, clock)
                   /\ r.gas.known /\ r.buy.gas # None /\ r.sell.gas # None
                   /\ r.rate # None /\ r.rate \in RateRecords /\ clock < r.rate.expires
                   /\ cost # None /\ cost = r.gas.cost * r.rate.value
  <1> DEFINE rates == IF r.rate = None THEN {} ELSE {r.rate}
             cost == GasCost(r.gas, "base", rates, clock)
  <1>1. CASE r.gas = UnknownGas
    BY <1>1 DEF UnknownGas, GasCost, GasIsUnknown, GasIsConsistent
  <1>2. CASE r.buy.gas # None /\ r.sell.gas # None /\ \E x \in Nat : r.gas = PaidGas(x)
    <2> PICK x \in Nat : r.gas = PaidGas(x)
      BY <1>2
    <2>1. /\ r.gas.known /\ r.gas.cost = x /\ r.gas.token = "native"
          /\ r.gas.inclusion = "not_included"
      BY DEF PaidGas
    <2>2. r.gas # None => cost = Convert(x, "native", "base", rates, clock)
      BY <2>1 DEF GasCost
    <2>3. /\ r.gas = None => cost = None
          /\ r.gas = None => GasIsUnknown(r.gas, "base", rates, clock)
          /\ r.gas # None => (GasIsUnknown(r.gas, "base", rates, clock) <=> cost = None)
      BY <2>1 DEF GasCost, GasIsUnknown
    <2>4. GasIsConsistent(r.gas)
      BY <2>1, NoneIsNoError DEF GasIsConsistent
    <2> DEFINE usable == {y \in rates : y.from = "native" /\ y.to = "base" /\ Fresh(y, clock)}
    <2>5. Convert(x, "native", "base", rates, clock)
            = IF usable = {} THEN None ELSE x * (CHOOSE y \in usable : TRUE).value
      BY DEF Convert
    <2>6. CASE r.rate = None
      <3>1. usable = {}  BY <2>6
      <3> QED  BY <1>2, <2>1, <2>2, <2>3, <2>4, <2>5, <3>1
    <2>7. CASE r.rate # None /\ clock < r.rate.expires
      <3>1. r.rate \in RateRecords  BY <2>7 DEF RateFits
      <3>2. usable = {r.rate}  BY <2>7, <3>1 DEF RateRecords, Fresh
      <3>3. (CHOOSE y \in usable : TRUE) = r.rate  BY <3>2
      <3>4. Convert(x, "native", "base", rates, clock) = x * r.rate.value
        BY <2>5, <3>2, <3>3
      <3>5. x * r.rate.value \in Nat /\ x * r.rate.value # None
        <4>1. r.rate.value \in Nat  BY <3>1 DEF RateRecords
        <4>2. x * r.rate.value \in Nat  BY <4>1
        <4> QED  BY <4>2, NoneIsNoError
      <3> QED  BY <1>2, <2>1, <2>2, <2>3, <2>4, <2>7, <3>1, <3>4, <3>5
    <2>8. CASE r.rate # None /\ ~(clock < r.rate.expires)
      <3>1. usable = {}  BY <2>8 DEF Fresh
      <3> QED  BY <1>2, <2>1, <2>2, <2>3, <2>4, <2>5, <3>1
    <2> QED  BY <2>6, <2>7, <2>8
  <1> QED  BY <1>1, <1>2 DEF GasFits

Verdicts == {"profitable", "unprofitable", "unknown", "failed", "route_unavailable"}

EvidenceOf(r) == [buy |-> r.buy, sell |-> r.sell, gas |-> r.gas, rate |-> r.rate, at |-> clock]

(* What stands behind the verdict on the i-th amount of an order.          *)
Supports(order, i, status, e) ==
    e # None /\ status \in {"profitable", "unprofitable"} =>
        /\ e.buy.route = order.buy /\ e.sell.route = order.sell
        /\ e.buy.input = order.amounts[i] /\ e.sell.input = e.buy.output
        /\ FullyKnown(e)
        /\ (status = "profitable") <=> MeetsThreshold(e)

LEMMA AmountsArePositive ==
  ASSUME NEW c \in Callers, NEW order \in Orders[c], NEW i \in DOMAIN order.amounts
  PROVE  order.amounts[i] \in Nat \ {0}
  <1>1. order.amounts \in Seq(Nat \ {0})  BY OrdersAssumption
  <1> QED  BY <1>1

LEMMA DecisionIsSound ==
  ASSUME NEW c \in Callers, NEW r, r.order \in Orders[c], r.index \in DOMAIN r.order.amounts,
         clock \in Nat, BuyQuoted(c, r), SellQuoted(c, r), GasFits(r), RateFits(r)
  PROVE  LET data == Data(c, r)
             result == Calculate(data, clock)
             status == StatusFor(result)
         IN  /\ CalculationIsConsistent(data, result)
             /\ Level2(c) => AmountIsConsistent(status, r.buy, r.sell, result)
             /\ status \in Verdicts
             /\ Supports(r.order, r.index, status, EvidenceOf(r))
  <1> DEFINE data == Data(c, r)
             result == Calculate(data, clock)
             status == StatusFor(result)
             rates == IF r.rate = None THEN {} ELSE {r.rate}
             fees == Components(BuyKey(r)) \o Components(SellKey(r))
             cost == GasCost(r.gas, "base", rates, clock)
             gas == IF cost = None THEN 0 ELSE cost
             unknown == \/ GasIsUnknown(r.gas, "base", rates, clock)
                        \/ \E i \in DOMAIN fees : FeeIsUnknown(fees[i], "base", rates, clock)
             gross == r.sell.output - r.order.amounts[r.index]
             sound == /\ CalculationIsConsistent(data, result)
                      /\ Level2(c) => AmountIsConsistent(status, r.buy, r.sell, result)
                      /\ status \in Verdicts
                      /\ Supports(r.order, r.index, status, EvidenceOf(r))
  <1>1. /\ data.version = FormulaVersion /\ data.threshold = Threshold
        /\ data.network = {"base", "mid", "native"}
        /\ data.input = r.order.amounts[r.index]
        /\ data.inputToken = "base" /\ data.outputToken = "base"
        /\ data.buyOutput = r.buy.output /\ data.sellOutput = r.sell.output
        /\ data.fees = fees /\ data.gas = r.gas /\ data.rates = rates
    BY DEF Data
  <1>2. /\ BuyKey(r).output = "mid" /\ SellKey(r).output = "base"
        /\ BuyKey(r).provider = r.order.buy.provider /\ SellKey(r).provider = r.order.sell.provider
    BY DEF BuyKey, SellKey, FeeKey
  <1>3. /\ \A i \in DOMAIN fees : /\ Value(fees[i], "base", rates, clock) = None
                                  /\ FeeIsConsistent(fees[i])
                                  /\ fees[i].currency \in {"base", "mid", None}
        /\ (\E i \in DOMAIN fees : FeeIsUnknown(fees[i], "base", rates, clock))
              <=> ~({r.order.buy.provider, r.order.sell.provider} \subseteq Policies)
    <2> DEFINE k == BuyKey(r)
               l == SellKey(r)
    <2>1. k.output \in {"base", "mid"} /\ l.output \in {"base", "mid"}
      BY <1>2
    <2>2. k.provider = r.order.buy.provider /\ l.provider = r.order.sell.provider
      BY <1>2
    <2>3. fees = Components(k) \o Components(l)
      OBVIOUS
    <2> HIDE DEF rates
    <2>4. Costless(Components(k) \o Components(l), k, l, "base", rates, clock)
      <3>1. k.output = "mid" /\ l.output = "base"
        BY <1>2
      <3> HIDE DEF k, l
      <3> QED  BY <3>1, FeesCostNothing
    <2> QED  BY <2>2, <2>4 DEF Costless
  <1>4. /\ cost \in Nat \union {None}
        /\ r.gas # None => GasIsConsistent(r.gas) /\ r.gas.token \in {"native", None}
        /\ \/ GasIsUnknown(r.gas, "base", rates, clock)
           \/ /\ ~GasIsUnknown(r.gas, "base", rates, clock)
              /\ r.gas.known /\ r.buy.gas # None /\ r.sell.gas # None
              /\ r.rate # None /\ r.rate \in RateRecords /\ clock < r.rate.expires
              /\ cost # None /\ cost = r.gas.cost * r.rate.value
    BY GasIsCounted
  <1>5. /\ r.order.amounts[r.index] \in Nat \ {0}
        /\ r.buy.output \in Nat /\ r.sell.output \in Nat
        /\ r.buy.route = r.order.buy /\ r.sell.route = r.order.sell
        /\ r.buy.input = r.order.amounts[r.index] /\ r.sell.input = r.buy.output
        /\ Level2(c) => r.buy # None /\ r.sell # None
    BY AmountsArePositive DEF BuyQuoted, SellQuoted, Quoted
  <1> HIDE DEF data, rates, fees, cost
  <1>6. Costs(data, clock)
          = [fees |-> 0, other |-> 0, rebates |-> 0, gas |-> gas, unknown |-> unknown]
    <2>1. ASSUME NEW account PROVE SumOf(account, fees, "base", rates, clock) = 0
      BY <1>3, EmptySumIsZero
    <2> QED  BY <1>1, <2>1 DEF Costs, cost
  <1>7. gas \in Nat /\ gross \in Int
    BY <1>4, <1>5
  <1> HIDE DEF gas, unknown
  <1>8. TotalCosts(Costs(data, clock)) = gas
    BY <1>6, <1>7 DEF TotalCosts
  <1>9. Convert(data.sellOutput, data.outputToken, data.inputToken, data.rates, clock) = r.sell.output
    BY <1>1 DEF Convert
  <1>10. Contradictory(data) <=> r.buy.output = 0 \/ r.sell.output = 0
    BY <1>1, <1>3, <1>4, <1>5 DEF Contradictory
  <1>11. ASSUME Contradictory(data) PROVE sound
    <2>1. result = NoResult("invalid")
      BY <1>11 DEF Calculate
    <2> HIDE DEF result
    <2>2. status = "failed"
      BY <2>1 DEF StatusFor, NoResult
    <2> HIDE DEF status
    <2>3. CalculationIsConsistent(data, result)
      BY <1>1, <1>3, <1>4, <1>5, <2>1
      DEF CalculationIsConsistent, NoResult, InputIsConsistent, ResultIsConsistent
    <2> QED  BY <1>5, <2>2, <2>3 DEF AmountIsConsistent, Supports, Verdicts, sound
  <1>12. ASSUME ~Contradictory(data) PROVE sound
    <2> DEFINE net == gross - gas
               outcome == Evaluate(gross, net, data, unknown)
    <2>1. result = [status |-> IF unknown THEN "partial" ELSE "complete", net |-> net,
                    costs |-> Costs(data, clock), unknown |-> unknown, outcome |-> outcome]
      <3>1. r.sell.output # None
        BY <1>5, NoneIsNoError
      <3> QED  BY <1>1, <1>6, <1>8, <1>9, <1>12, <3>1 DEF Calculate
    <2> HIDE DEF result
    <2>2. outcome = [blocked |-> unknown /\ Metric \in CostSensitiveMetrics,
                     passed  |-> /\ ~(unknown /\ Metric \in CostSensitiveMetrics)
                                 /\ Reaches(gross, net, data.input, data.threshold)]
      BY DEF Evaluate
    <2> HIDE DEF outcome
    <2>3. ~(outcome.blocked /\ outcome.passed)
      BY <2>2
    <2>4. net \in Int /\ net # None
      BY <1>7, NoneIsNoError
    <2>5. outcome \in OutcomeRecords
      BY <2>2, Zenon DEF OutcomeRecords
    <2>6. unknown \in BOOLEAN
      BY DEF unknown
    <2>7. result \in ResultRecords
      <3>1. Costs(data, clock) \in BreakdownRecords
        BY <1>6, <1>7, <2>6 DEF BreakdownRecords
      <3> HIDE DEF net, unknown
      <3>2. (IF unknown THEN "partial" ELSE "complete") \in {"partial", "complete"}
        OBVIOUS
      <3> QED  BY <2>1, <2>4, <2>5, <2>6, <3>1, <3>2 DEF ResultRecords
    <2>8. result # None
      BY <2>7, NoneIsNoError
    <2>9. CalculationIsConsistent(data, result)
      <3>1. BreakdownIsConsistent(result.costs)
        BY <1>6, <1>7, <2>1 DEF BreakdownIsConsistent
      <3>2. OutcomeIsConsistent(result.outcome)
        BY <2>1, <2>3 DEF OutcomeIsConsistent
      <3>3. ResultIsConsistent(result)
        <4>1. outcome # None
          BY <2>5, NoneIsNoError
        <4> QED  BY <2>1, <2>4, <4>1 DEF ResultIsConsistent
      <3> QED  BY <1>1, <1>3, <1>4, <1>5, <3>1, <3>2, <3>3
               DEF CalculationIsConsistent, InputIsConsistent
    <2>10. CASE unknown
      <3>1. status = "unknown"
        BY <2>1, <2>10 DEF StatusFor
      <3> HIDE DEF status
      <3> QED  BY <1>5, <2>9, <3>1 DEF AmountIsConsistent, Supports, Verdicts, sound
    <2>11. CASE ~unknown
      <3> DEFINE e == EvidenceOf(r)
      <3>1. outcome.passed <=> Reaches(gross, net, data.input, data.threshold)
        BY <2>2, <2>11
      <3>2. /\ status \in {"profitable", "unprofitable"}
            /\ status = "profitable" <=> outcome.passed
            /\ status = "profitable" => IsProfitable(result)
        <4>1. result.status = "complete" /\ result.outcome = outcome /\ outcome # None
          BY <2>1, <2>5, <2>11, NoneIsNoError
        <4>2. IsProfitable(result) <=> outcome.passed
          BY <4>1 DEF IsProfitable
        <4> QED  BY <4>1, <4>2 DEF StatusFor
      <3> HIDE DEF status
      <3>3. /\ ~GasIsUnknown(r.gas, "base", rates, clock)
            /\ {r.order.buy.provider, r.order.sell.provider} \subseteq Policies
        BY <1>3, <2>11 DEF unknown
      <3>4. /\ e.buy = r.buy /\ e.sell = r.sell /\ e.gas = r.gas /\ e.rate = r.rate /\ e.at = clock
        BY DEF EvidenceOf
      <3>5. FullyKnown(e)
        BY <1>4, <1>5, <3>3, <3>4 DEF FullyKnown
      <3>6. gas = r.gas.cost * r.rate.value
        <4>1. cost = r.gas.cost * r.rate.value
          BY <1>4, <3>3
        <4>2. cost # None
          BY <1>4, <3>3
        <4> QED  BY <4>1, <4>2 DEF gas
      <3>7. Gain(e) = gross /\ Margin(e) = net
        <4>1. Gain(e) = gross
          BY <1>5, <3>4 DEF Gain
        <4> QED  BY <3>4, <3>6, <4>1 DEF Margin
      <3>8. MeetsThreshold(e) <=> Reaches(gross, net, data.input, data.threshold)
        <4>1. data.input = e.buy.input /\ data.threshold = Threshold
          BY <1>1, <1>5, <3>4
        <4> HIDE DEF gross, net, e
        <4>2. CASE Metric = "gross_roi"
          BY <3>7, <4>1, <4>2 DEF MeetsThreshold, Reaches
        <4>3. CASE Metric = "net_roi"
          BY <3>7, <4>1, <4>3 DEF MeetsThreshold, Reaches
        <4>4. CASE Metric = "net_profit"
          BY <3>7, <4>1, <4>4 DEF MeetsThreshold, Reaches
        <4> QED  BY <4>2, <4>3, <4>4, MetricAssumption
      <3>9. Supports(r.order, r.index, status, e)
        BY <1>5, <3>1, <3>2, <3>4, <3>5, <3>8 DEF Supports
      <3> QED  BY <1>5, <2>8, <2>9, <3>2, <3>9 DEF AmountIsConsistent, Verdicts, sound
    <2> QED  BY <2>10, <2>11
  <1> QED  BY <1>11, <1>12 DEF sound, data

-----------------------------------------------------------------------------
(* From the start of an amount to its decision.                            *)
Ordered(c, r) ==
    /\ r.order \in Orders[c] /\ r.index \in DOMAIN r.order.amounts
    /\ r.results \in Seq(Verdicts) /\ Len(r.results) = r.index - 1
    /\ RateFits(r)

Priced(c, r) == Ordered(c, r) /\ BuyQuoted(c, r) /\ SellQuoted(c, r) /\ r.last = None

Supported(r) == Supports(r.order, Len(r.results), r.results[Len(r.results)], r.last)

(* The inductive invariant of the verdicts: what is known of the amount    *)
(* under way at each wait, and what stands behind the last result.         *)
Sound(c, r) ==
    /\ r.pc # "refused" /\ Supported(r)
    /\ r.pc \in Waiting => Ordered(c, r)
    /\ r.pc \in Waiting \ {"buy"} => BuyQuoted(c, r) /\ r.last = None
    /\ r.pc \in Waiting \ {"buy", "sell"} => SellQuoted(c, r)
    /\ r.pc = "rate" /\ Level2(c) => GasFits(r)

LEMMA PricedIsSound ==
  ASSUME NEW c, NEW r, Priced(c, r), r.pc \in {"fees_buy", "fees_sell", "gas", "rate"},
         r.pc = "rate" /\ Level2(c) => GasFits(r)
  PROVE  Sound(c, r)
  <1>1. Supported(r)
    BY DEF Priced, Supported, Supports
  <1> QED  BY <1>1 DEF Priced, Sound

LEMMA AbortedIsSound ==
  ASSUME NEW c, NEW r, NEW pc \in {"finished", "cancelled", "error", "broken"}
  PROVE  Sound(c, Aborted(r, pc))
  <1> DEFINE s == Aborted(r, pc)
  <1>1. s.pc = pc /\ s.last = None  BY AbortedIsWhole
  <1> HIDE DEF s
  <1>2. Sound(c, s)  BY <1>1 DEF Sound, Supported, Supports, Waiting
  <1> QED  BY <1>2 DEF s

LEMMA SettleIsSound ==
  ASSUME NEW c \in Callers, NEW r, NEW status \in Verdicts, NEW evidence, Whole(r), Ordered(c, r),
         Supports(r.order, r.index, status, evidence)
  PROVE  Sound(c, Settle(c, r, status, evidence))
  <1> DEFINE s == Settle(c, r, status, evidence)
  <1>1. /\ Follows(s, r) /\ s.order = r.order
        /\ s.results = Append(r.results, status) /\ s.last = evidence /\ s.rate = None
        /\ \/ s.pc = "finished"
           \/ s.pc = "buy" /\ s.index = r.index + 1 /\ r.index # Len(r.order.amounts)
    BY SettleFollows DEF Follows
  <1> HIDE DEF s
  <1>2. /\ r.order.amounts \in Seq(Nat \ {0}) /\ r.index \in 1..Len(r.order.amounts)
        /\ Len(r.order.amounts) \in Nat
    <2>1. r.order.amounts \in Seq(Nat \ {0})
      BY OrdersAssumption DEF Ordered
    <2> QED  BY <2>1 DEF Ordered
  <1>3. /\ s.results \in Seq(Verdicts) /\ Len(s.results) = r.index
        /\ s.results[Len(s.results)] = status
    BY <1>1, <1>2 DEF Ordered
  <1>4. Supported(s)
    <2> DEFINE i == Len(s.results)
               v == s.results[i]
    <2>1. i = r.index /\ v = status /\ s.order = r.order /\ s.last = evidence
      BY <1>1, <1>3
    <2> HIDE DEF i, v
    <2>2. Supports(s.order, i, v, s.last)
      BY <2>1
    <2> QED  BY <2>2 DEF Supported, i, v
  <1>5. ASSUME s.pc = "finished" PROVE Sound(c, s)
    BY <1>4, <1>5 DEF Sound, Waiting
  <1>6. ASSUME s.pc = "buy", s.index = r.index + 1, r.index # Len(r.order.amounts)
        PROVE  Sound(c, s)
    <2>1. s.index \in 1..Len(r.order.amounts) /\ Len(s.results) = s.index - 1
      BY <1>2, <1>3, <1>6
    <2>2. Ordered(c, s)
      BY <1>1, <1>2, <1>3, <2>1 DEF Ordered, RateFits
    <2> QED  BY <1>4, <1>6, <2>2 DEF Sound, Waiting
  <1> QED  BY <1>1, <1>5, <1>6 DEF s

(* No record refuses the data of a decision, and its result is supported.  *)
LEMMA JudgeIsSound ==
  ASSUME NEW c \in Callers, NEW r, Whole(r), clock \in Nat, Priced(c, r), GasFits(r)
  PROVE  Sound(c, Judge(c, r))
  <1> DEFINE data == Data(c, r)
             result == Calculate(data, clock)
             status == StatusFor(result)
  <1>1. /\ CalculationIsConsistent(data, result)
        /\ Level2(c) => AmountIsConsistent(status, r.buy, r.sell, result)
        /\ status \in Verdicts
        /\ Supports(r.order, r.index, status, EvidenceOf(r))
    BY DecisionIsSound DEF Priced, Ordered
  <1>2. Judge(c, r) = Settle(c, r, status, EvidenceOf(r))
    BY <1>1 DEF Judge, EvidenceOf
  <1> HIDE DEF status
  <1>3. Sound(c, Settle(c, r, status, EvidenceOf(r)))
    BY <1>1, SettleIsSound DEF Priced
  <1> QED  BY <1>2, <1>3

(* A record that differs from another in what is known of its costs only.  *)
LEMMA PricedKeeps ==
  ASSUME NEW c, NEW r, NEW s, Priced(c, r), RateFits(s),
         s.order = r.order, s.index = r.index, s.results = r.results, s.buy = r.buy,
         s.sell = r.sell, s.last = r.last
  PROVE  Priced(c, s)
  BY DEF Priced, Ordered, BuyQuoted, SellQuoted

RateCacheFits == clock \in Nat /\ rateCache \in RateRecords \union {None}

LEMMA GasFitsWhenKnown ==
  ASSUME NEW c, NEW r, Priced(c, r), NEW price \in Nat \union {None}
  PROVE  \/ Gas(r, price) = UnknownGas
         \/ /\ r.buy.gas # None /\ r.sell.gas # None
            /\ \E cost \in Nat : Gas(r, price) = PaidGas(cost)
  <1>1. r.buy.gas \in Nat \union {None} /\ r.sell.gas \in Nat \union {None}
    BY DEF Priced, BuyQuoted, SellQuoted, Quoted
  <1>2. CASE price = None \/ GasUnits(r) = None
    BY <1>2 DEF Gas, UnknownGas
  <1>3. CASE price # None /\ GasUnits(r) # None
    <2>1. r.buy.gas \in Nat /\ r.sell.gas \in Nat /\ r.buy.gas # None /\ r.sell.gas # None
          /\ GasUnits(r) = r.buy.gas + r.sell.gas
      BY <1>1, <1>3 DEF GasUnits
    <2>2. GasUnits(r) \in Nat /\ price \in Nat  BY <1>3, <2>1
    <2>3. GasUnits(r) * price \in Nat  BY <2>2
    <2>4. Gas(r, price) = PaidGas(GasUnits(r) * price)
      BY <1>3 DEF Gas, PaidGas
    <2> QED  BY <2>1, <2>3, <2>4
  <1> QED  BY <1>2, <1>3

LEMMA AsksArePriced ==
  ASSUME NEW c, NEW r, Whole(r), Priced(c, r), RateCacheFits
  PROVE  /\ Priced(c, AskGas(r)) /\ Priced(c, AskRate(r))
         /\ AskGas(r).pc = "known" => GasFits(AskGas(r))
         /\ GasFits(r) => GasFits(AskRate(r))
  <1> DEFINE x == Gas(r, None)
             known == [r EXCEPT !.pc = "known"]
             s == [known EXCEPT !.gas = x]
             t == [r EXCEPT !.pc = "gas"]
             u == [known EXCEPT !.rate = rateCache]
             v == [r EXCEPT !.pc = "rate"]
  <1>1. /\ AskGas(r) = IF GasUnits(r) = None THEN s ELSE t
        /\ AskRate(r) = IF rateCache # None /\ Fresh(rateCache, clock) THEN u ELSE v
    <2>1. s = [r EXCEPT !.pc = "known", !.gas = Gas(r, None)]
      BY Zenon
    <2>2. u = [r EXCEPT !.pc = "known", !.rate = rateCache]
      BY Zenon
    <2> QED  BY <2>1, <2>2 DEF AskGas, AskRate
  <1>2. x = UnknownGas
    BY DEF Gas, UnknownGas
  <1> HIDE DEF x
  <1> DEFINE Like(q) == /\ q.order = r.order /\ q.index = r.index /\ q.results = r.results
                        /\ q.buy = r.buy /\ q.sell = r.sell /\ q.last = r.last
  <1>3. Whole(known) /\ Like(known) /\ known.pc = "known" /\ known.rate = r.rate
        /\ known.gas = r.gas
    BY DEF Whole
  <1> HIDE DEF known
  <1>4. /\ Like(s) /\ s.rate = r.rate /\ s.gas = x
        /\ Like(u) /\ u.rate = rateCache /\ u.gas = r.gas
    BY <1>3 DEF Whole
  <1>5. /\ Like(t) /\ t.rate = r.rate /\ t.pc = "gas"
        /\ Like(v) /\ v.rate = r.rate /\ v.gas = r.gas
    BY DEF Whole
  <1> HIDE DEF s, t, u, v
  <1>6. RateFits(s) /\ RateFits(t) /\ RateFits(u) /\ RateFits(v)
    BY <1>4, <1>5 DEF RateFits, Priced, Ordered, RateCacheFits
  <1>7. Priced(c, s) /\ Priced(c, t) /\ Priced(c, u) /\ Priced(c, v)
    BY <1>4, <1>5, <1>6, PricedKeeps
  <1>8. GasFits(s) /\ (GasFits(r) => GasFits(u) /\ GasFits(v))
    BY <1>2, <1>4, <1>5 DEF GasFits
  <1> QED  BY <1>1, <1>5, <1>7, <1>8

LEMMA CostsAreSound ==
  ASSUME NEW c \in Callers, NEW r, Whole(r), Priced(c, r), RateCacheFits
  PROVE  /\ GasFits(r) => Sound(c, AfterGas(c, r))
         /\ (Level2(c) => GasFits(r)) => Sound(c, AfterRate(c, r))
         /\ Sound(c, AfterFees(c, r))
  <1>1. ASSUME NEW s, Whole(s), Priced(c, s), GasFits(s)
        PROVE  Sound(c, AfterGas(c, s))
    <2> DEFINE t == AskRate(s)
    <2>1. Whole(t) /\ t.pc \in {"known", "rate"} /\ Priced(c, t) /\ GasFits(t)
      BY <1>1, AsksAreWhole, AsksArePriced
    <2> HIDE DEF t
    <2>2. Sound(c, JudgeIfKnown(c, t))
      BY <2>1, JudgeIsSound, PricedIsSound DEF JudgeIfKnown, RateCacheFits
    <2>3. Sound(c, Judge(c, s))
      BY <1>1, JudgeIsSound DEF RateCacheFits
    <2> QED  BY <2>2, <2>3 DEF AfterGas, t
  <1>2. ASSUME NEW s, Whole(s), Priced(c, s), Level2(c) => GasFits(s)
        PROVE  Sound(c, AfterRate(c, s))
    <2> DEFINE t == AskGas(s)
    <2>1. Whole(t) /\ t.pc \in {"known", "gas"} /\ Priced(c, t) /\ (t.pc = "known" => GasFits(t))
      BY <1>2, AsksAreWhole, AsksArePriced
    <2> HIDE DEF t
    <2>2. Sound(c, JudgeIfKnown(c, t))
      BY <2>1, JudgeIsSound, PricedIsSound DEF JudgeIfKnown, RateCacheFits
    <2>3. Level2(c) => Sound(c, Judge(c, s))
      BY <1>2, JudgeIsSound DEF RateCacheFits
    <2> QED  BY <2>2, <2>3 DEF AfterRate, t
  <1>3. Sound(c, AfterFees(c, r))
    <2>1. CASE Level2(c)
      <3> DEFINE t == AskGas(r)
      <3>1. Whole(t) /\ t.pc \in {"known", "gas"} /\ Priced(c, t) /\ (t.pc = "known" => GasFits(t))
        BY AsksAreWhole, AsksArePriced
      <3> HIDE DEF t
      <3>2. t.pc = "known" => Sound(c, AfterGas(c, t))
        BY <1>1, <3>1
      <3>3. t.pc # "known" => Sound(c, t)
        BY <3>1, PricedIsSound
      <3> QED  BY <2>1, <3>2, <3>3 DEF AfterFees, t
    <2>2. CASE ~Level2(c)
      <3> DEFINE t == AskRate(r)
      <3>1. Whole(t) /\ t.pc \in {"known", "rate"} /\ Priced(c, t)
        BY AsksAreWhole, AsksArePriced
      <3> HIDE DEF t
      <3>2. t.pc = "known" => Sound(c, AfterRate(c, t))
        BY <1>2, <2>2, <3>1
      <3>3. t.pc # "known" => Sound(c, t)
        BY <2>2, <3>1, PricedIsSound
      <3> QED  BY <2>2, <3>2, <3>3 DEF AfterFees, t
    <2> QED  BY <2>1, <2>2
  <1> QED  BY <1>1, <1>2, <1>3

LEMMA FeesAreSound ==
  ASSUME NEW c \in Callers, NEW r, Whole(r), Priced(c, r), RateCacheFits, NEW g
  PROVE  Sound(c, SellFees(c, r, g).run) /\ Sound(c, BuyFees(c, r, g).run)
  <1>1. ASSUME NEW pc \in {"fees_buy", "fees_sell"}
        PROVE  Sound(c, [r EXCEPT !.pc = pc])
    <2> DEFINE s == [r EXCEPT !.pc = pc]
    <2>1. /\ s.pc = pc /\ s.rate = r.rate /\ s.order = r.order /\ s.index = r.index
          /\ s.results = r.results /\ s.buy = r.buy /\ s.sell = r.sell /\ s.last = r.last
      BY DEF Whole
    <2> HIDE DEF s
    <2>2. RateFits(s)  BY <2>1 DEF RateFits, Priced, Ordered
    <2>3. Priced(c, s)  BY <2>1, <2>2, PricedKeeps
    <2>4. Sound(c, s)  BY <2>1, <2>3, PricedIsSound
    <2> QED  BY <2>4 DEF s
  <1>2. Sound(c, AfterFees(c, r))  BY CostsAreSound
  <1>3. Sound(c, SellFees(c, r, g).run)
    BY <1>1, <1>2 DEF SellFees
  <1>4. Sound(c, BuyFees(c, r, g).run)
    BY <1>1, <1>3 DEF BuyFees
  <1> QED  BY <1>3, <1>4

-----------------------------------------------------------------------------
(* The prices that arrive.                                                 *)
LEMMA FirstIsOneOfThem ==
  ASSUME NEW x, NEW y
  PROVE  FirstAvailable(<<x, y>>) \in {x, y, Unavailable}
  <1> DEFINE outcomes == <<x, y>>
             ended == {i \in DOMAIN outcomes : outcomes[i] # Unavailable}
  <1>1. DOMAIN outcomes = {1, 2} /\ outcomes[1] = x /\ outcomes[2] = y
    OBVIOUS
  <1>2. ended = {} \/ Min(ended) \in {1, 2}
    <2> SUFFICES ASSUME ended # {} PROVE Min(ended) \in ended
      BY <1>1
    <2>1. \E i \in ended : \A j \in ended : i <= j
      <3>1. CASE 1 \in ended
        BY <1>1, <3>1
      <3>2. CASE 1 \notin ended
        BY <1>1, <3>2
      <3> QED  BY <3>1, <3>2
    <2> HIDE DEF ended
    <2> QED  BY <2>1 DEF Min
  <1> QED  BY <1>1, <1>2 DEF FirstAvailable

LEMMA GasPricesFit ==
  ASSUME NEW price \in GasPrices
  PROVE  price.value \in Nat \union {None}
  <1> PICK legacy \in GasReplies, history \in FeeReplies :
         price = FirstAvailable(<<StaticGasPrice, RpcGasPrice(legacy, history)>>)
    BY DEF GasPrices
  <1>1. legacy \in Amount \union {Lost} /\ history \in Amount \union {Lost}
        /\ StaticPrice \in Nat \union {None} /\ PriorityFee \in Nat
    BY RepliesAssumption
  <1>2. StaticGasPrice.value \in Nat \union {None} /\ Unavailable.value = None
    BY <1>1 DEF StaticGasPrice, Unavailable, Found
  <1>3. RpcGasPrice(legacy, history).value \in Nat \union {None}
    <2> DEFINE base == BaseFee(history)
    <2>1. base.value \in Nat \union {None}
      BY <1>1 DEF BaseFee, Unreadable, Raised, Found, Amount
    <2> HIDE DEF base
    <2>2. base.value # None => base.value + PriorityFee \in Nat
      BY <1>1, <2>1
    <2>3. \/ RpcGasPrice(legacy, history) = Raised("data")
          \/ ~Unreadable(legacy) /\ RpcGasPrice(legacy, history) \in {Unavailable, base, Found(legacy)}
          \/ base.value # None /\ RpcGasPrice(legacy, history) = Found(base.value + PriorityFee)
      BY DEF RpcGasPrice, base
    <2> QED  BY <1>1, <1>2, <2>1, <2>2, <2>3 DEF Raised, Found, Unreadable, Amount
  <1> QED  BY <1>2, <1>3, FirstIsOneOfThem

LEMMA QuotationsFit ==
  ASSUME clock \in Nat, NEW quoted \in Quotations(clock)
  PROVE  quoted.value \in (Nat \ {0}) \union {None}
  <1> PICK answer \in ProbeAnswers, reply \in PriceReplies :
         quoted = FirstAvailable(<<QuotedRate(GetQuote(PriceAdapter, ProbeAmount, answer, clock)),
                                   HttpRate(reply)>>)
    BY DEF Quotations
  <1> DEFINE result == GetQuote(PriceAdapter, ProbeAmount, answer, clock)
  <1>1. /\ PriceAdapter \in Adapters /\ ProbeAmount \in Nat \ {0}
        /\ answer.http \in DOMAIN Transport \union {"ok"} /\ answer.out \in Amount
        /\ answer.gas \in Amount
        /\ answer.out \in Nat => answer.out = 0 \/ answer.out >= ProbeAmount
        /\ reply \in Int \union {None, Bad, Lost}
    <2>1. answer \in (UNION {Answers[p] : p \in Adapters}) \union ProbeAnswers
      OBVIOUS
    <2>2. /\ answer.http \in DOMAIN Transport \union {"ok"} /\ answer.out \in Amount
          /\ answer.gas \in Amount
      BY <2>1, RepliesAssumption
    <2>3. answer.out \in Nat => answer.out = 0 \/ answer.out >= ProbeAmount
      BY RepliesAssumption
    <2>4. PriceAdapter \in Adapters /\ ProbeAmount \in Nat \ {0}
      BY RepliesAssumption
    <2>5. reply \in Int \union {None, Bad, Lost}
      BY RepliesAssumption
    <2> QED  BY <2>2, <2>3, <2>4, <2>5
  <1>2. Returned(PriceAdapter, ProbeAmount, answer, clock, result)
    BY <1>1, GetQuoteReturns
  <1> HIDE DEF result
  <1>3. Unavailable.value = None /\ Raised(Raw).value = None
    BY DEF Unavailable, Raised, Found
  <1>4. QuotedRate(result).value \in (Nat \ {0}) \union {None}
    <2>1. CASE result.error # None \/ result.quote.output = 0
      BY <1>3, <2>1 DEF QuotedRate
    <2>2. CASE result.error = None /\ result.quote.output # 0
      <3>1. result.quote.output = answer.out /\ answer.out \in Nat
        BY <1>2, <2>2 DEF Returned
      <3>2. answer.out \div ProbeAmount \in Nat \ {0}
        BY <1>1, <2>2, <3>1
      <3>3. QuotedRate(result) = Found(answer.out \div ProbeAmount)
        BY <2>2, <3>1, NoneIsNoError DEF QuotedRate
      <3> QED  BY <3>2, <3>3 DEF Found
    <2> QED  BY <2>1, <2>2
  <1>5. HttpRate(reply).value \in (Nat \ {0}) \union {None}
    BY <1>1, <1>3 DEF HttpRate, Found
  <1> QED  BY <1>3, <1>4, <1>5, FirstIsOneOfThem DEF result

-----------------------------------------------------------------------------
(* The steps.                                                              *)
Proven == \A c \in Callers : Sound(c, run[c])

VInv == IInv /\ RateCacheFits /\ Proven

LEMMA BecomeIsSound ==
  ASSUME VInv, NEW c \in Callers, NEW s, Become(c, s), Sound(c, s)
  PROVE  Proven'
  <1>1. /\ run = [d \in Callers |-> run[d]]
        /\ \A d \in Callers : Sound(d, run[d])
    BY DEF VInv, IInv, Proven
  <1>2. run' = [run EXCEPT ![c] = s]
    BY DEF Become
  <1>3. ASSUME NEW d \in Callers PROVE Sound(d, run'[d])
    BY <1>1, <1>2
  <1>4. ASSUME NEW d \in Callers PROVE Sound(d, run[d])'
    BY <1>3
  <1> QED  BY <1>4 DEF Proven

LEMMA StartIsSound ==
  ASSUME VInv, NEW c \in Callers, Start(c)
  PROVE  Proven'
  <1> PICK order \in Orders[c] :
         LET s == [Idle EXCEPT !.started = clock, !.order = order]
         IN  IF Level2(c)
             THEN Become(c, [s EXCEPT !.pc = "buy"]) /\ UNCHANGED registry
             ELSE Continue(c, BuyFees(c, [s EXCEPT !.buy = Given(order).buy,
                                                   !.sell = Given(order).sell], registry))
    BY DEF Start
  <1> DEFINE s1 == [Idle EXCEPT !.started = clock]
             s == [s1 EXCEPT !.order = order]
             New(r) == /\ Whole(r) /\ r.index = 1 /\ r.results = <<>> /\ r.rate = None
                       /\ r.last = None
  <1>1. New(Idle)
    BY DEF Idle, Whole
  <1>2. s = [Idle EXCEPT !.started = clock, !.order = order]
    OBVIOUS
  <1>3. New(s1)  BY <1>1 DEF Whole
  <1> HIDE DEF s1
  <1>4. New(s) /\ s.order = order  BY <1>3 DEF Whole
  <1> HIDE DEF s
  <1>5. 1 \in DOMAIN order.amounts
    <2>1. order.amounts \in Seq(Nat \ {0}) /\ order.amounts # <<>>
      BY OrdersAssumption
    <2> QED  BY <2>1
  <1>6. ASSUME NEW r, New(r), r.order = order PROVE Ordered(c, r)
    <2>1. <<>> \in Seq(Verdicts) /\ Len(<<>>) = 0
      OBVIOUS
    <2> QED  BY <1>5, <1>6, <2>1 DEF Ordered, RateFits
  <1>7. CASE Level2(c)
    <2> DEFINE t == [s EXCEPT !.pc = "buy"]
    <2>1. New(t) /\ t.order = order /\ t.pc = "buy"
      BY <1>4 DEF Whole
    <2>2. Become(c, t)  BY <1>2, <1>7
    <2> HIDE DEF t
    <2>3. Ordered(c, t)  BY <1>6, <2>1
    <2>4. Supported(t)  BY <2>1 DEF Supported, Supports
    <2>5. Sound(c, t)  BY <2>1, <2>3, <2>4 DEF Sound
    <2> QED  BY <2>2, <2>5, BecomeIsSound
  <1>8. CASE ~Level2(c)
    <2> DEFINE x == Given(order).buy
               y == Given(order).sell
               t1 == [s EXCEPT !.buy = x]
               t == [t1 EXCEPT !.sell = y]
    <2>1. t = [s EXCEPT !.buy = Given(order).buy, !.sell = Given(order).sell]
      BY Zenon
    <2>2. /\ x.route = order.buy /\ y.route = order.sell
          /\ x.input = order.amounts[1] /\ y.input = x.output
          /\ x.output \in Nat /\ y.output \in Nat
          /\ x.gas \in Nat \union {None} /\ y.gas \in Nat \union {None}
      <3>1. c \in Evaluations  BY <1>8, CallerAssumption DEF Level2
      <3> QED  BY <3>1, OrdersAssumption
    <2> HIDE DEF x, y
    <2>3. New(t1) /\ t1.order = order /\ t1.buy = x
      BY <1>4 DEF Whole
    <2> HIDE DEF t1
    <2>4. New(t) /\ t.order = order /\ t.buy = x /\ t.sell = y
      BY <2>3 DEF Whole
    <2>5. Continue(c, BuyFees(c, t, registry))
      BY <1>2, <1>8, <2>1
    <2> HIDE DEF t
    <2>6. BuyQuoted(c, t) /\ SellQuoted(c, t)
      BY <1>8, <2>2, <2>4 DEF BuyQuoted, SellQuoted, Quoted
    <2>7. Priced(c, t)
      BY <1>6, <2>4, <2>6 DEF Priced
    <2>8. Sound(c, BuyFees(c, t, registry).run)
      BY <2>4, <2>7, FeesAreSound DEF VInv
    <2> QED  BY <2>5, <2>8, BecomeIsSound DEF Continue
  <1> QED  BY <1>7, <1>8

LEMMA UnconfirmedIsSound ==
  ASSUME NEW c \in Callers, Whole(run[c]), Ordered(c, run[c]), NEW check
  PROVE  Sound(c, Unconfirmed(c, check))
  <1>1. Sound(c, Aborted(run[c], "broken"))
    BY AbortedIsSound
  <1>2. Sound(c, Settle(c, run[c], "route_unavailable", None))
    BY SettleIsSound DEF Verdicts, Supports
  <1> QED  BY <1>1, <1>2 DEF Unconfirmed

LEMMA RoutesAreRecords ==
  ASSUME NEW c \in Callers, NEW order \in Orders[c], NEW route \in {order.buy, order.sell}
  PROVE  route = [provider |-> route.provider, mode |-> route.mode, sources |-> route.sources]
  BY OrdersAssumption

LEMMA VerifyBuyIsSound ==
  ASSUME VInv, NEW c \in Callers, VerifyBuy(c)
  PROVE  Proven'
  <1> DEFINE r == run[c]
             route == r.order.buy
             input == r.order.amounts[r.index]
  <1>1. Whole(r) /\ Sound(c, r) /\ r.pc = "buy"
    BY DEF VInv, IInv, Shared, Proven, VerifyBuy
  <1>2. Ordered(c, r)
    BY <1>1 DEF Sound, Waiting
  <1> PICK check \in Verify(route, input) :
         IF check.outcome = "reproduced"
         THEN Become(c, [r EXCEPT !.pc = "sell", !.buy = check.quote, !.last = None])
         ELSE Become(c, Unconfirmed(c, check))
    BY DEF VerifyBuy
  <1>3. CASE check.outcome = "reproduced"
    <2>1. input \in Nat
      BY <1>2, AmountsArePositive DEF Ordered
    <2>2. route = [provider |-> route.provider, mode |-> route.mode, sources |-> route.sources]
      BY <1>2, RoutesAreRecords DEF Ordered
    <2>3. Quoted(c, route, input, check.quote)
      <3> HIDE DEF route, input
      <3> QED  BY <1>3, <2>1, <2>2, VerifyQuotes DEF VInv, RateCacheFits
    <2> DEFINE x == check.quote
               t1 == [r EXCEPT !.pc = "sell"]
               t2 == [t1 EXCEPT !.buy = x]
               t == [t2 EXCEPT !.last = None]
               Like(s) == /\ Whole(s) /\ s.order = r.order /\ s.index = r.index
                          /\ s.results = r.results /\ s.rate = r.rate /\ s.pc = "sell"
    <2>4. Become(c, t)
      <3>1. t = [r EXCEPT !.pc = "sell", !.buy = check.quote, !.last = None]
        BY Zenon
      <3> QED  BY <1>3, <3>1
    <2>5. x = check.quote  OBVIOUS
    <2> HIDE DEF x, r
    <2>6. Like(t1)  BY <1>1 DEF Whole
    <2> HIDE DEF t1
    <2>7. Like(t2) /\ t2.buy = x  BY <2>6 DEF Whole
    <2> HIDE DEF t2
    <2>8. Like(t) /\ t.buy = x /\ t.last = None  BY <2>7 DEF Whole
    <2> HIDE DEF t
    <2>9. Ordered(c, t)
      BY <1>2, <2>8 DEF Ordered, RateFits
    <2>10. BuyQuoted(c, t)
      BY <2>3, <2>5, <2>8 DEF BuyQuoted
    <2>11. Supported(t)
      BY <2>8 DEF Supported, Supports
    <2>12. Sound(c, t)
      BY <2>8, <2>9, <2>10, <2>11 DEF Sound
    <2> QED  BY <2>4, <2>12, BecomeIsSound
  <1>4. CASE check.outcome # "reproduced"
    <2>1. Sound(c, Unconfirmed(c, check))
      BY <1>1, <1>2, UnconfirmedIsSound
    <2> QED  BY <1>4, <2>1, BecomeIsSound
  <1> QED  BY <1>3, <1>4

LEMMA VerifySellIsSound ==
  ASSUME VInv, NEW c \in Callers, VerifySell(c)
  PROVE  Proven'
  <1> DEFINE r == run[c]
             route == r.order.sell
             input == r.buy.output
  <1>1. Whole(r) /\ Sound(c, r) /\ r.pc = "sell"
    BY DEF VInv, IInv, Shared, Proven, VerifySell
  <1>2. Ordered(c, r) /\ BuyQuoted(c, r) /\ r.last = None
    BY <1>1 DEF Sound, Waiting
  <1> PICK check \in Verify(route, input) :
         IF check.outcome = "reproduced"
         THEN Continue(c, BuyFees(c, [r EXCEPT !.sell = check.quote], registry))
         ELSE Become(c, Unconfirmed(c, check)) /\ UNCHANGED registry
    BY DEF VerifySell
  <1>3. CASE check.outcome = "reproduced"
    <2>1. input \in Nat
      BY <1>2 DEF BuyQuoted, Quoted
    <2>2. route = [provider |-> route.provider, mode |-> route.mode, sources |-> route.sources]
      BY <1>2, RoutesAreRecords DEF Ordered
    <2>3. Quoted(c, route, input, check.quote)
      <3> HIDE DEF route, input
      <3> QED  BY <1>3, <2>1, <2>2, VerifyQuotes DEF VInv, RateCacheFits
    <2> DEFINE x == check.quote
               t == [r EXCEPT !.sell = x]
    <2>4. Continue(c, BuyFees(c, t, registry))
      BY <1>3
    <2>5. x = check.quote  OBVIOUS
    <2> HIDE DEF x, r
    <2>6. /\ Whole(t) /\ t.order = r.order /\ t.index = r.index /\ t.results = r.results
          /\ t.rate = r.rate /\ t.buy = r.buy /\ t.last = r.last /\ t.sell = x
      BY <1>1 DEF Whole
    <2> HIDE DEF t
    <2>7. Ordered(c, t)
      BY <1>2, <2>6 DEF Ordered, RateFits
    <2>8. BuyQuoted(c, t) /\ SellQuoted(c, t)
      BY <1>2, <2>3, <2>5, <2>6 DEF BuyQuoted, SellQuoted
    <2>9. Priced(c, t)
      BY <1>2, <2>6, <2>7, <2>8 DEF Priced
    <2>10. Sound(c, BuyFees(c, t, registry).run)
      BY <2>6, <2>9, FeesAreSound DEF VInv
    <2> QED  BY <2>4, <2>10, BecomeIsSound DEF Continue
  <1>4. CASE check.outcome # "reproduced"
    <2>1. Sound(c, Unconfirmed(c, check))
      BY <1>1, <1>2, UnconfirmedIsSound
    <2> QED  BY <1>4, <2>1, BecomeIsSound
  <1> QED  BY <1>3, <1>4

LEMMA WaitingIsPriced ==
  ASSUME VInv, NEW c \in Callers, run[c].pc \in {"fees_buy", "fees_sell", "gas", "rate"}
  PROVE  /\ Whole(run[c]) /\ Priced(c, run[c])
         /\ run[c].pc = "rate" /\ Level2(c) => GasFits(run[c])
  <1>1. Whole(run[c]) /\ Sound(c, run[c])
    BY DEF VInv, IInv, Shared, Proven
  <1> QED  BY <1>1 DEF Sound, Waiting, Priced

LEMMA FeesArriveIsSound ==
  ASSUME VInv, NEW c \in Callers, FeesArrive(c)
  PROVE  Proven'
  <1> DEFINE r == run[c]
             g == Leave(registry, c)
  <1>1. r.pc \in {"fees_buy", "fees_sell"}
    BY DEF FeesArrive, VInv, IInv, Good, Shared, Awaits
  <1>2. Whole(r) /\ Priced(c, r)
    BY <1>1, WaitingIsPriced
  <1>3. \/ Continue(c, [run |-> Aborted(r, "error"), registry |-> g])
        \/ Continue(c, SellFees(c, r, g))
        \/ Continue(c, [run |-> AfterFees(c, r), registry |-> g])
    BY DEF FeesArrive
  <1>4. \/ Become(c, Aborted(r, "error"))
        \/ Become(c, SellFees(c, r, g).run)
        \/ Become(c, AfterFees(c, r))
    BY <1>3 DEF Continue
  <1>5. Sound(c, Aborted(r, "error"))
    BY AbortedIsSound
  <1>6. Sound(c, SellFees(c, r, g).run) /\ Sound(c, AfterFees(c, r))
    BY <1>2, FeesAreSound, CostsAreSound DEF VInv
  <1> QED  BY <1>4, <1>5, <1>6, BecomeIsSound

LEMMA GasArrivesIsSound ==
  ASSUME VInv, NEW c \in Callers, GasArrives(c)
  PROVE  Proven'
  <1> DEFINE r == run[c]
  <1>1. r.pc = "gas"
    BY DEF GasArrives
  <1>2. Whole(r) /\ Priced(c, r)
    BY <1>1, WaitingIsPriced
  <1> PICK price \in GasPrices :
         IF price.error # None THEN Become(c, Aborted(r, "error"))
         ELSE Become(c, AfterGas(c, [r EXCEPT !.gas = Gas(r, price.value)]))
    BY DEF GasArrives
  <1> DEFINE x == Gas(r, price.value)
             t == [r EXCEPT !.gas = x]
  <1>3. \/ x = UnknownGas
        \/ r.buy.gas # None /\ r.sell.gas # None /\ \E cost \in Nat : x = PaidGas(cost)
    BY <1>2, GasPricesFit, GasFitsWhenKnown
  <1>4. \/ Become(c, Aborted(r, "error"))
        \/ Become(c, AfterGas(c, t))
    OBVIOUS
  <1>5. Sound(c, Aborted(r, "error"))
    BY AbortedIsSound
  <1>6. Sound(c, AfterGas(c, t))
    <2> HIDE DEF x, r
    <2>1. /\ Whole(t) /\ t.order = r.order /\ t.index = r.index /\ t.results = r.results
          /\ t.rate = r.rate /\ t.buy = r.buy /\ t.last = r.last /\ t.sell = r.sell /\ t.gas = x
      BY <1>2 DEF Whole
    <2> HIDE DEF t
    <2>2. RateFits(t)
      BY <1>2, <2>1 DEF RateFits, Priced, Ordered
    <2>3. Priced(c, t)
      BY <1>2, <2>1, <2>2, PricedKeeps
    <2>4. GasFits(t)
      BY <1>3, <2>1 DEF GasFits
    <2> QED  BY <2>1, <2>3, <2>4, CostsAreSound DEF VInv
  <1> QED  BY <1>4, <1>5, <1>6, BecomeIsSound

(* A rate that arrives is accepted, and kept for the callers to come.      *)
LEMMA RateArrivesIsSound ==
  ASSUME VInv, NEW c \in Callers, RateArrives(c)
  PROVE  Proven' /\ rateCache' \in RateRecords \union {None}
  <1> DEFINE r == run[c]
  <1>1. r.pc = "rate" /\ clock \in Nat /\ rateCache \in RateRecords \union {None}
    BY DEF RateArrives, VInv, RateCacheFits
  <1>2. Whole(r) /\ Priced(c, r) /\ (Level2(c) => GasFits(r))
    BY <1>1, WaitingIsPriced
  <1> PICK quoted \in Quotations(clock) :
         LET rate == [from |-> "native", to |-> "base", value |-> quoted.value,
                      expires |-> clock + RateTtl]
         IN  \/ /\ quoted.error # None
                /\ Become(c, Aborted(r, "broken")) /\ UNCHANGED rateCache
             \/ /\ quoted = Unavailable
                /\ Become(c, AfterRate(c, r)) /\ UNCHANGED rateCache
             \/ /\ quoted.value # None
                /\ Become(c, IF RateIsConsistent(rate, clock)
                             THEN AfterRate(c, [r EXCEPT !.rate = rate])
                             ELSE Aborted(r, "refused"))
                /\ rateCache' = IF RateIsConsistent(rate, clock) THEN rate ELSE rateCache
    BY DEF RateArrives
  <1> DEFINE rate == [from |-> "native", to |-> "base", value |-> quoted.value,
                      expires |-> clock + RateTtl]
             t == [r EXCEPT !.rate = rate]
  <1>3. quoted.value # None => rate \in RateRecords /\ RateIsConsistent(rate, clock)
    <2>1. quoted.value \in (Nat \ {0}) \union {None}
      BY <1>1, QuotationsFit
    <2>2. clock + RateTtl \in Nat /\ clock < clock + RateTtl
      BY <1>1, LimitAssumption
    <2> QED  BY <2>1, <2>2 DEF RateRecords, RateIsConsistent
  <1>4. \/ Become(c, Aborted(r, "broken")) /\ UNCHANGED rateCache
        \/ Become(c, AfterRate(c, r)) /\ UNCHANGED rateCache
        \/ quoted.value # None /\ Become(c, AfterRate(c, t)) /\ rateCache' = rate
    BY <1>3
  <1>5. Sound(c, Aborted(r, "broken"))
    BY AbortedIsSound
  <1>6. Sound(c, AfterRate(c, r))
    BY <1>2, CostsAreSound DEF VInv
  <1>7. quoted.value # None => Sound(c, AfterRate(c, t))
    <2> HIDE DEF rate, r
    <2>1. /\ Whole(t) /\ t.order = r.order /\ t.index = r.index /\ t.results = r.results
          /\ t.rate = rate /\ t.buy = r.buy /\ t.last = r.last /\ t.sell = r.sell /\ t.gas = r.gas
      BY <1>2 DEF Whole
    <2> HIDE DEF t
    <2> SUFFICES ASSUME quoted.value # None PROVE Sound(c, AfterRate(c, t))
      OBVIOUS
    <2>2. RateFits(t)
      BY <1>3, <2>1 DEF RateFits
    <2>3. Priced(c, t)
      BY <1>2, <2>1, <2>2, PricedKeeps
    <2>4. Level2(c) => GasFits(t)
      BY <1>2, <2>1 DEF GasFits
    <2> QED  BY <2>1, <2>3, <2>4, CostsAreSound DEF VInv
  <1> HIDE DEF rate, t
  <1> QED  BY <1>1, <1>3, <1>4, <1>5, <1>6, <1>7, BecomeIsSound

LEMMA EndIsSound ==
  ASSUME VInv, NEW c \in Callers, TimeOut(c) \/ Cancel(c)
  PROVE  Proven'
  <1> DEFINE r == run[c]
             x == [i \in DOMAIN r.order.amounts |-> "failed"]
             a == Aborted(r, "finished")
             t == [a EXCEPT !.results = x]
  <1>1. Become(c, t) \/ Become(c, Aborted(r, "cancelled"))
    BY DEF TimeOut, Cancel, Continue
  <1>2. Sound(c, Aborted(r, "cancelled"))
    BY AbortedIsSound
  <1>3. Whole(a) /\ a.pc = "finished" /\ a.last = None
    BY AbortedIsWhole
  <1>4. Sound(c, t)
    <2> HIDE DEF x, a
    <2>1. t.pc = "finished" /\ t.last = None
      BY <1>3 DEF Whole
    <2> HIDE DEF t
    <2> QED  BY <2>1 DEF Sound, Supported, Supports, Waiting
  <1> HIDE DEF t
  <1> QED  BY <1>1, <1>2, <1>4, BecomeIsSound

LEMMA InitProven == Init => VInv
  <1> SUFFICES ASSUME Init PROVE VInv  OBVIOUS
  <1>1. clock = 0 /\ rateCache = None /\ run = [c \in Callers |-> Idle]
    BY DEF Init
  <1>2. ASSUME NEW c \in Callers PROVE Sound(c, run[c])
    BY <1>1 DEF Sound, Supported, Supports, Idle, Waiting
  <1> QED  BY <1>1, <1>2, InitShared DEF VInv, RateCacheFits, Proven

LEMMA NextProves == VInv /\ [Next]_vars => VInv'
  <1> SUFFICES ASSUME VInv, [Next]_vars PROVE VInv'  OBVIOUS
  <1>1. IInv'
    BY NextKeeps DEF VInv
  <1>2. CASE UNCHANGED <<clock, rateCache, run>>
    BY <1>1, <1>2 DEF VInv, RateCacheFits, Proven
  <1>3. CASE Tick
    <2>1. clock' = clock + 1 /\ UNCHANGED <<rateCache, run>>
      BY <1>3 DEF Tick
    <2>2. clock' \in Nat
      BY <2>1 DEF VInv, RateCacheFits
    <2> QED  BY <1>1, <2>1, <2>2 DEF VInv, RateCacheFits, Proven
  <1>4. ASSUME NEW c \in Callers,
               \/ Start(c) \/ VerifyBuy(c) \/ VerifySell(c) \/ FeesArrive(c) \/ GasArrives(c)
               \/ TimeOut(c) \/ Cancel(c)
        PROVE  VInv'
    <2>1. Proven'
      BY <1>4, StartIsSound, VerifyBuyIsSound, VerifySellIsSound, FeesArriveIsSound,
         GasArrivesIsSound, EndIsSound
    <2>2. UNCHANGED <<clock, rateCache>>
      BY <1>4 DEF Start, VerifyBuy, VerifySell, FeesArrive, GasArrives, TimeOut, Cancel
    <2>3. RateCacheFits'
      BY <2>2 DEF VInv, RateCacheFits
    <2> QED  BY <1>1, <2>1, <2>3 DEF VInv
  <1>5. ASSUME NEW c \in Callers, RateArrives(c)
        PROVE  VInv'
    <2>1. Proven' /\ rateCache' \in RateRecords \union {None}
      BY <1>5, RateArrivesIsSound
    <2>2. UNCHANGED clock
      BY <1>5 DEF RateArrives
    <2>3. RateCacheFits'
      BY <2>1, <2>2 DEF VInv, RateCacheFits
    <2> QED  BY <1>1, <2>1, <2>3 DEF VInv
  <1>6. ASSUME NEW c \in Callers, Build(c) \/ Save(c)
        PROVE  VInv'
    BY <1>2, <1>6 DEF Build, Save
  <1> QED  BY <1>2, <1>3, <1>4, <1>5, <1>6 DEF Next, vars

(* For any answers of the services and any orders: a verdict is given only *)
(* on quotes of the fixed routes and on costs that are known when it is    *)
(* given, it agrees with the threshold, and no record refuses the data.    *)
THEOREM VerdictsRestOnEvidence == Spec => []VerdictsAreProven
  <1>1. VInv => VerdictsAreProven
    <2> SUFFICES ASSUME VInv, NEW c \in Callers
                 PROVE  /\ run[c].pc # "refused" /\ Supported(run[c])
      BY DEF VerdictsAreProven, Supported, Supports
    <2> QED  BY DEF VInv, Proven, Sound
  <1> QED  BY <1>1, InitProven, NextProves, PTL DEF Spec
================================================================================
