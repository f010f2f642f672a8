------------------------------ MODULE V2Proofs ------------------------------
(***************************************************************************)
(* Proofs about ForecastV2, for every cadence, interval, startup time,     *)
(* allowance and number of edits: a published lead never shrinks, and a    *)
(* write that used a forecast used its own, in time, without a gap after   *)
(* the window before it.                                                   *)
(*                                                                         *)
(* The inductive invariant follows a forecast through one reconcile: the   *)
(* lead is long enough when it is published, the answer is for that lead   *)
(* and origin wherever it came from, and the deadline held when the write  *)
(* began.                                                                  *)
(***************************************************************************)
EXTENDS ForecastV2, TLAPS

(* Most leaves are first-order: Zenon comes first, then the SMT solver.    *)
USE ZenonT(10), SMTT(30)

(* The lead covers startup, the time to the next decision, the allowance   *)
(* and one cadence (forecast_v2.go:353-357).                               *)
Long(l, dt) == l.seconds >= l.startup + LeadDecisionInterval(Interval, dt) + l.allowance + dt

Own == /\ rec.answer.gen = rec.copy.gen /\ rec.answer.lead = rec.lead
       /\ rec.answer.origin = Origin

CacheCoherent ==
  cached # None => /\ cached.answer.gen = cached.binding.gen
                   /\ cached.answer.lead = cached.binding.lead
                   /\ cached.answer.origin = cached.binding.origin

Progress ==
  /\ pc # "idle" => rec.copy # None
  /\ pc = "wait" => rec.lead # None
  /\ pc \in {"idle", "prepare"} => rec.lead = None /\ rec.answer = None /\ ~rec.used /\ rec.before = None
  /\ pc = "verdict" \/ rec.used => rec.answer # None

LeadsLong ==
  /\ rec.lead # None => rec.copy # None /\ Long(rec.lead, Cfg.dt)
  /\ last # None => Long(last.lead, last.dt)
  /\ rec.before # None => Long(rec.before.lead, rec.before.dt)

AnswerOwn == rec.answer # None => rec.copy # None /\ rec.lead # None /\ Own

Timely ==
  /\ pc \in {"guard", "write"} => rec.began <= now
  /\ pc = "write" /\ rec.used =>
       rec.began + rec.answer.lead.allowance < rec.answer.origin + Cfg.dt

V2Inv == TypeOK /\ Progress /\ CacheCoherent /\ LeadsLong /\ AnswerOwn /\ Timely

----------------------------------------------------------------------------
(* Arithmetic of the grid                                                  *)

(* A whole quotient rounds down, by less than the divisor.                 *)
LEMMA DivBounds ==
  ASSUME NEW n \in Nat, NEW d \in Nat \ {0}
  PROVE  /\ n \div d \in Nat /\ (n \div d) * d \in Nat
         /\ (n \div d) * d <= n /\ n < (n \div d) * d + d
<1>1. n \div d \in Nat /\ (n \div d) * d <= n /\ n < (n \div d) * d + d
  BY SMTT(30)
<1> DEFINE q == n \div d
<1>2. q \in Nat
  BY <1>1
<1> HIDE DEF q
<1>3. q * d \in Nat
  BY <1>2
<1> QED
  BY <1>1, <1>3 DEF q

(* Rounding a duration up to the grid never shortens it (ceil to dt in     *)
(* v2DecisionInterval and v2AutomaticLead).                                *)
LEMMA OnGridBounds ==
  ASSUME NEW n \in Nat, NEW d \in Nat \ {0}
  PROVE  OnGrid(n, d) \in Nat /\ OnGrid(n, d) >= n
<1>1. n + d - 1 \in Nat
  OBVIOUS
<1>2. ((n + d - 1) \div d) * d \in Nat /\ n + d - 1 < ((n + d - 1) \div d) * d + d
  BY <1>1, DivBounds
<1> DEFINE g == ((n + d - 1) \div d) * d
<1>3. g \in Nat /\ n + d - 1 < g + d
  BY <1>2
<1> HIDE DEF g
<1>4. g \in Nat /\ g >= n
  BY <1>3
<1> QED
  BY <1>4 DEF g, OnGrid, CeilDivide

(* A configuration's fields, as V2Constants gives them.                    *)
LEMMA CfgFields ==
  ASSUME NEW cfg \in Cfgs
  PROVE  /\ cfg.dt \in Nat \ {0} /\ cfg.horizon \in Nat /\ cfg.allowance \in Nat
         /\ cfg.minimum \in Nat /\ cfg.fallback \in Nat \cup {None}
  BY V2Constants DEF Cfgs

(* The decision interval is a duration.                                    *)
LEMMA IntervalType ==
  ASSUME NEW d \in Nat \ {0}
  PROVE  DecisionInterval(Interval, d) \in Nat /\ LeadDecisionInterval(Interval, d) \in Nat
<1>1. OnGrid(Interval, d) \in Nat
  BY OnGridBounds, V2Constants
<1> QED
  BY <1>1, V2Constants DEF DecisionInterval, LeadDecisionInterval, Up

(* The startup budget is a duration or none.                               *)
LEMMA BudgetType ==
  ASSUME NEW obs \in Observations, NEW cfg \in Cfgs
  PROVE  StartupBudget(obs, cfg) \in Nat \cup {None}
<1>1. obs.p90 \in Nat \cup {None} /\ obs.pending \in Nat \cup {None}
  BY V2Constants
<1>2. cfg.minimum \in Nat /\ cfg.fallback \in Nat \cup {None}
  BY CfgFields
<1>3. ASSUME NEW d \in Nat
      PROVE  Up(Up(d, cfg.minimum), IF obs.pending = None THEN 0 ELSE obs.pending) \in Nat
  BY <1>1, <1>2 DEF Up
<1>4. ASSUME obs.p90 # None
      PROVE  CeilDivide(obs.p90 * (100 + MarginPercent), 100) \in Nat
  <2>1. obs.p90 \in Nat /\ 100 + MarginPercent \in Nat
    BY <1>1, <1>4, V2Constants
  <2>2. obs.p90 * (100 + MarginPercent) \in Nat
    BY <2>1
  <2> DEFINE w == obs.p90 * (100 + MarginPercent)
  <2>3. w \in Nat
    BY <2>2
  <2> HIDE DEF w
  <2>4. (w + 100 - 1) \div 100 \in Nat
    BY <2>3
  <2> QED
    BY <2>4 DEF w, CeilDivide
<1> QED
  BY <1>1, <1>2, <1>3, <1>4 DEF StartupBudget

(* prepareV2 publishes a well-typed prediction; its lead, if any, is long  *)
(* enough, and its length is at least the frozen length of the same basis. *)
LEMMA WantedLong ==
  ASSUME NEW a \in Autoscalers, NEW obs \in Observations
  PROVE  LET w == Wanted(a, obs) IN
         /\ w \in Predictions
         /\ w.basis = a.spec.cfg
         /\ w.lead # None => Long(w.lead, a.spec.cfg.dt)
         /\ a.pred # None /\ a.pred.basis = a.spec.cfg => w.frozen >= a.pred.frozen
<1> DEFINE cfg    == a.spec.cfg
           frozen == Frozen(a.pred, cfg)
           budget == StartupBudget(obs, cfg)
           C      == LeadDecisionInterval(Interval, cfg.dt)
           auto   == AutomaticLead(budget, C, cfg.allowance, cfg.dt)
           length == Up(frozen, auto)
           lead   == [seconds |-> length, startup |-> budget, allowance |-> cfg.allowance, gen |-> a.gen]
<1>1. cfg \in Cfgs /\ a.gen \in Nat /\ a.pred \in Predictions \cup {None}
  BY DEF Autoscalers, Cfgs
<1>2. cfg.dt \in Nat \ {0} /\ cfg.allowance \in Nat
  BY <1>1, CfgFields
<1>3. frozen \in Nat
  BY <1>1 DEF Frozen, Predictions
<1>4. budget \in Nat \cup {None}
  BY <1>1, BudgetType
<1>5. C \in Nat
  BY <1>2, IntervalType
<1>6. Wanted(a, obs) = IF budget # None /\ length <= cfg.horizon /\ LeadAccepted(lead, cfg, a.gen)
                       THEN [basis |-> cfg, frozen |-> length, lead |-> lead]
                       ELSE [basis |-> cfg, frozen |-> frozen, lead |-> None]
  BY DEF Wanted
<1>7. a.pred # None /\ a.pred.basis = cfg => frozen = a.pred.frozen
  BY DEF Frozen
<1>8. ASSUME budget # None
      PROVE  /\ length \in Nat /\ length >= frozen
             /\ length >= budget + C + cfg.allowance + cfg.dt
  <2> HIDE DEF cfg, frozen, budget, C
  <2>1. budget + C + cfg.allowance + cfg.dt \in Nat
    BY <1>2, <1>4, <1>5, <1>8
  <2>2. auto \in Nat /\ auto >= budget + C + cfg.allowance + cfg.dt
    BY <2>1, <1>2, OnGridBounds DEF AutomaticLead
  <2> HIDE DEF auto
  <2> QED
    BY <2>1, <2>2, <1>3 DEF Up
<1>9. CASE budget # None /\ length <= cfg.horizon /\ LeadAccepted(lead, cfg, a.gen)
  <2> HIDE DEF cfg, frozen, budget, C, length
  <2>1. lead \in Leads
    BY <1>1, <1>2, <1>4, <1>8, <1>9 DEF Leads
  <2>2. Wanted(a, obs) = [basis |-> cfg, frozen |-> length, lead |-> lead]
    BY <1>6, <1>9
  <2>3. Long(lead, cfg.dt)
    BY <1>2, <1>4, <1>5, <1>8, <1>9 DEF Long, C
  <2> HIDE DEF lead
  <2>4. /\ Wanted(a, obs) \in Predictions /\ Wanted(a, obs).basis = cfg
        /\ Wanted(a, obs).lead = lead /\ Wanted(a, obs).frozen = length
    BY <2>1, <2>2, <1>1, <1>8, <1>9 DEF Predictions
  <2> QED
    BY <2>3, <2>4, <1>7, <1>8, <1>9 DEF cfg
<1>10. CASE ~(budget # None /\ length <= cfg.horizon /\ LeadAccepted(lead, cfg, a.gen))
  <2>1. Wanted(a, obs) = [basis |-> cfg, frozen |-> frozen, lead |-> None]
    BY <1>6, <1>10
  <2> HIDE DEF frozen, budget, C, length, lead
  <2> QED
    BY <2>1, <1>1, <1>3, <1>7 DEF Predictions
<1> QED
  BY <1>9, <1>10

----------------------------------------------------------------------------
(* The invariant                                                           *)

(* The invariant holds when the operator and the object are new.           *)
LEMMA InitV2 == Init => V2Inv
<1> SUFFICES ASSUME Init PROVE V2Inv
  OBVIOUS
<1>1. TypeOK
  <2>1. pa \in Autoscalers /\ paSeen \in Autoscalers
    <3>1. PICK s \in Specs : pa = [gen |-> 1, spec |-> s, pred |-> None]
      BY DEF Init
    <3> QED
      BY <3>1 DEF Init, Autoscalers
  <2>2. rec \in Records
    BY DEF Init, NoRec, Records
  <2> QED
    BY <2>1, <2>2 DEF Init, TypeOK
<1> QED
  BY <1>1 DEF Init, V2Inv, Progress, CacheCoherent, LeadsLong, AnswerOwn, Timely, NoRec

(* A step that leaves the reconcile alone and does not turn back the clock *)
(* keeps what the invariant says of it.                                    *)
LEMMA OutsideStep ==
  ASSUME V2Inv, TypeOK', UNCHANGED <<cached, pc, rec, last>>, now' >= now
  PROVE  V2Inv'
<1>1. now \in Nat /\ now' \in Nat /\ rec.began \in Nat
  BY DEF V2Inv, TypeOK, Records
<1> QED
  BY <1>1 DEF V2Inv, Progress, CacheCoherent, LeadsLong, Long, AnswerOwn, Own, Origin, Cfg, Timely

(* A reconcile that returns leaves nothing behind but memory.              *)
LEMMA ReturnStep ==
  ASSUME V2Inv, NEW retry \in BOOLEAN, Return(retry),
         UNCHANGED <<now, pa, paSeen, lastOrigin, cached, last>>
  PROVE  V2Inv'
<1>1. TypeOK'
  BY DEF V2Inv, TypeOK, Records, Return, NoRec
<1>2. rec' = NoRec /\ pc' = "idle"
  BY DEF Return
<1> QED
  BY <1>1, <1>2 DEF V2Inv, Progress, CacheCoherent, LeadsLong, Long, AnswerOwn, Own, Timely, NoRec

(* The origin of a typed time on a typed grid is typed and at most dt old. *)
LEMMA OriginBounds ==
  ASSUME NEW t \in Nat, NEW d \in Nat \ {0}
  PROVE  GridOrigin(t, d) \in Nat /\ GridOrigin(t, d) <= t /\ t < GridOrigin(t, d) + d
  BY DivBounds DEF GridOrigin

(* Every step keeps the invariant.                                         *)
LEMMA StepV2 == V2Inv /\ [Next]_vars => V2Inv'
<1> SUFFICES ASSUME V2Inv, [Next]_vars PROVE V2Inv'
  OBVIOUS
<1> USE DEF V2Inv
<1>a. ASSUME NEW a \in Autoscalers
      PROVE  a.spec.cfg \in Cfgs /\ a.spec.cfg.dt \in Nat \ {0}
  BY CfgFields DEF Autoscalers, Cfgs
<1>1. CASE UNCHANGED vars
  <2>1. TypeOK'
    BY <1>1 DEF vars, mem, TypeOK
  <2> QED
    BY <1>1, <2>1, OutsideStep DEF vars, mem, TypeOK
<1>2. CASE Start
  <2>1. TypeOK'
    <3>1. GridOrigin(now, paSeen.spec.cfg.dt) \in Nat
      BY <1>a, OriginBounds DEF Records, TypeOK
    <3>2. rec' = [NoRec EXCEPT !.copy = paSeen, !.at = now]
      BY <1>2 DEF Start
    <3>3. rec' \in Records
      BY <3>2 DEF NoRec, Records, TypeOK
    <3> QED
      BY <1>2, <3>1, <3>3 DEF Start, TypeOK
  <2>2. rec' = [NoRec EXCEPT !.copy = paSeen, !.at = now] /\ pc' = "prepare" /\ paSeen # None
    BY <1>2, V2Constants DEF Start, TypeOK
  <2>3. UNCHANGED <<cached, last>>
    BY <1>2 DEF Start
  <2> QED
    BY <2>1, <2>2, <2>3 DEF Progress, CacheCoherent, LeadsLong, AnswerOwn, Timely, NoRec
<1>3. CASE OtherEngine
  <2>1. TypeOK'
    BY <1>3 DEF OtherEngine, TypeOK, Autoscalers
  <2> QED
    BY <1>3, <2>1 DEF OtherEngine, Progress, CacheCoherent, LeadsLong, Long, AnswerOwn, Own,
                      Origin, Cfg, Timely
<1>4. CASE PublishFails
  BY <1>4, ReturnStep DEF PublishFails
<1>5. ASSUME NEW obs \in Observations, NEW t \in 0 .. now, Prepare(obs, t) PROVE V2Inv'
  <2> DEFINE want == Wanted(rec.copy, obs)
  <2>1. rec.copy \in Autoscalers /\ pc = "prepare"
    BY <1>5 DEF Prepare, TypeOK, Records, Progress
  <2>2. /\ want \in Predictions /\ want.lead \in Leads \cup {None}
        /\ want.lead # None => Long(want.lead, rec.copy.spec.cfg.dt)
    BY <2>1, WantedLong DEF Predictions
  <2>3. rec' = [rec EXCEPT !.copy.pred = want, !.at = t, !.lead = want.lead] /\ pc' = "ask"
        /\ UNCHANGED <<now, paSeen, mem, last>> /\ (pa' = pa \/ pa' = [pa EXCEPT !.pred = want])
    BY <1>5 DEF Prepare
  <2> HIDE DEF want
  <2>4. TypeOK'
    <3>1. [rec.copy EXCEPT !.pred = want] \in Autoscalers /\ t \in Nat
      BY <2>1, <2>2 DEF Autoscalers, TypeOK
    <3>2. rec' = [[[rec EXCEPT !.copy = [rec.copy EXCEPT !.pred = want]] EXCEPT !.at = t] EXCEPT !.lead = want.lead]
      BY <2>3 DEF TypeOK, Records
    <3>3. rec' \in Records
      BY <3>1, <3>2, <2>2 DEF TypeOK, Records
    <3>4. pa' \in Autoscalers
      BY <2>2, <2>3 DEF TypeOK, Autoscalers
    <3> QED
      BY <2>3, <3>3, <3>4 DEF TypeOK, mem
  <2>5. /\ rec'.copy # None /\ rec'.copy.spec = rec.copy.spec
        /\ rec'.lead = want.lead /\ rec'.answer = rec.answer
        /\ rec'.used = rec.used /\ rec'.before = rec.before
    <3>1. rec'.copy = [rec.copy EXCEPT !.pred = want]
      BY <2>3 DEF Records, TypeOK
    <3>2. rec'.copy \in Autoscalers /\ rec'.copy.spec = rec.copy.spec
      BY <3>1, <2>1, <2>2 DEF Autoscalers
    <3> QED
      BY <3>2, <2>3, V2Constants DEF Records, TypeOK
  <2>6. rec.answer = None /\ rec.used = FALSE /\ rec.before = None
    BY <2>1 DEF Progress, NoRec
  <2>7. UNCHANGED <<cached, last>>
    BY <2>3 DEF mem
  <2> QED
    BY <2>2, <2>3, <2>4, <2>5, <2>6, <2>7
       DEF Progress, CacheCoherent, LeadsLong, AnswerOwn, Timely, Cfg
<1>6. CASE NoLead
  <2>1. TypeOK'
    BY <1>6 DEF NoLead, TypeOK
  <2> QED
    BY <1>6, <2>1 DEF NoLead, Progress, CacheCoherent, LeadsLong, Long, AnswerOwn, Own,
                      Origin, Cfg, Timely
<1>b. ASSUME rec.copy # None, rec.lead # None
      PROVE  Binding \in Bindings /\ Origin \in Int
  <2>1. rec.copy \in Autoscalers /\ rec.lead \in Leads /\ rec.at \in Nat
    BY <1>b DEF Records, TypeOK
  <2>2. Cfg \in Cfgs /\ Cfg.dt \in Nat \ {0} /\ rec.copy.gen \in Nat
    BY <2>1, <1>a DEF Cfg, Autoscalers
  <2>3. Origin \in Int
    BY <2>1, <2>2, OriginBounds DEF Origin
  <2> QED
    BY <2>1, <2>2, <2>3 DEF Binding, Bindings
<1>c. CASE NoCapacity
  <2>1. TypeOK'
    BY <1>c DEF NoCapacity, TypeOK, mem
  <2> QED
    BY <1>c, <2>1 DEF NoCapacity, Progress, CacheCoherent, LeadsLong, Long, AnswerOwn, Own,
                      Origin, Cfg, Timely, mem
<1>7. CASE FromCache
  <2>1. cached \in CacheEntries /\ cached.binding = Binding /\ rec.lead # None /\ pc = "ask"
    BY <1>7 DEF FromCache, Reusable, TypeOK
  <2>2. /\ cached.answer \in Responses /\ cached.answer # None
        /\ cached.answer.gen = rec.copy.gen /\ cached.answer.lead = rec.lead
        /\ cached.answer.origin = Origin
    BY <2>1, <1>7, V2Constants DEF FromCache, CacheEntries, CacheCoherent, Binding
  <2>3. rec' = [rec EXCEPT !.answer = cached.answer] /\ pc' = "verdict"
        /\ UNCHANGED <<now, pa, paSeen, mem, last>>
    BY <1>7 DEF FromCache
  <2>4. TypeOK'
    BY <2>2, <2>3 DEF Records, TypeOK, mem
  <2>5. /\ rec'.answer = cached.answer /\ rec'.copy = rec.copy /\ rec'.lead = rec.lead
        /\ rec'.at = rec.at /\ rec'.before = rec.before
    BY <2>3 DEF Records, TypeOK
  <2> QED
    BY <2>1, <2>2, <2>3, <2>4, <2>5
       DEF Progress, CacheCoherent, LeadsLong, Long, AnswerOwn, Own, Origin, Cfg, Timely, mem
<1>8. CASE Ask
  <2>1. TypeOK'
    BY <1>8 DEF Ask, TypeOK
  <2> QED
    BY <1>8, <2>1 DEF Ask, Progress, CacheCoherent, LeadsLong, Long, AnswerOwn, Own,
                      Origin, Cfg, Timely
<1>9. CASE NoAnswer
  <2>1. TypeOK'
    BY <1>9 DEF NoAnswer, TypeOK, mem
  <2> QED
    BY <1>9, <2>1 DEF NoAnswer, Progress, CacheCoherent, LeadsLong, Long, AnswerOwn, Own,
                      Origin, Cfg, Timely, mem
<1>10. ASSUME pc = "wait", NEW x \in Answers, Receive(x) PROVE V2Inv'
  <2>1. rec.copy # None /\ rec.lead # None /\ rec.copy \in Autoscalers /\ rec.lead \in Leads
    BY <1>10 DEF Progress, TypeOK, Records
  <2>2. Binding \in Bindings /\ Origin \in Int
    BY <2>1, <1>b
  <2>3. x.gen = rec.copy.gen /\ x.origin = Origin /\ x.lead = rec.lead
    BY <1>10 DEF Receive, Bound
  <2>4. x \in Responses
    <3>1. \E g, o, l : x \in [gen : g, origin : o, lead : l, eligible : BOOLEAN]
      BY DEF Answers
    <3>2. x = [gen |-> x.gen, origin |-> x.origin, lead |-> x.lead, eligible |-> x.eligible]
          /\ x.eligible \in BOOLEAN
      BY <3>1
    <3>3. x.gen \in Nat /\ x.origin \in Int /\ x.lead \in Leads
      BY <2>1, <2>2, <2>3 DEF Autoscalers
    <3> QED
      BY <3>2, <3>3 DEF Responses
  <2>5. /\ rec' = [rec EXCEPT !.answer = x] /\ pc' = "verdict"
        /\ cached' = [binding |-> Binding, answer |-> x]
        /\ UNCHANGED <<now, pa, paSeen, lastOrigin, throttled, last>>
    BY <1>10 DEF Receive
  <2>6. cached' \in CacheEntries
    BY <2>2, <2>4, <2>5 DEF CacheEntries
  <2>7. TypeOK'
    BY <2>4, <2>5, <2>6 DEF Records, TypeOK
  <2>8. /\ rec'.answer = x /\ rec'.copy = rec.copy /\ rec'.lead = rec.lead
        /\ rec'.at = rec.at /\ rec'.before = rec.before
    BY <2>5 DEF Records, TypeOK
  <2>9. x # None
    BY <2>4, V2Constants
  <2>10. CacheCoherent'
    BY <2>3, <2>5 DEF CacheCoherent, Binding
  <2> QED
    BY <2>1, <2>3, <2>5, <2>7, <2>8, <2>9, <2>10
       DEF Progress, LeadsLong, Long, AnswerOwn, Own, Origin, Cfg, Timely
<1>11. ASSUME NEW evidence \in BOOLEAN, Verdict(evidence) PROVE V2Inv'
  <2> DEFINE e == Eligible(evidence)
             w == [origin |-> rec.answer.origin, dt |-> Cfg.dt, lead |-> rec.answer.lead]
  <2>1. rec.answer \in Responses /\ rec.answer # None /\ rec.copy \in Autoscalers /\ rec.copy # None
    BY <1>11 DEF Verdict, Progress, TypeOK, Records
  <2>2. Cfg.dt \in Nat
    BY <2>1, <1>a DEF Cfg
  <2>3. w \in Windows /\ w.lead = rec.answer.lead /\ w.dt = Cfg.dt
    BY <2>1, <2>2 DEF Windows, Responses
  <2>4. Long(w.lead, w.dt)
    BY <2>1, <2>3 DEF AnswerOwn, Own, LeadsLong
  <2>5. e \in BOOLEAN
    BY <2>1 DEF Eligible, Responses
  <2>6. /\ rec' = [rec EXCEPT !.used = e, !.before = last]
        /\ last' = IF e THEN w ELSE last
        /\ pc = "verdict" /\ pc' = "decide" /\ UNCHANGED <<now, pa, paSeen, mem>>
    BY <1>11 DEF Verdict
  <2> HIDE DEF e, w
  <2>7. TypeOK'
    BY <2>3, <2>5, <2>6 DEF Records, TypeOK, mem
  <2>8. /\ rec'.answer = rec.answer /\ rec'.copy = rec.copy /\ rec'.lead = rec.lead
        /\ rec'.at = rec.at /\ rec'.before = last
    BY <2>6 DEF Records, TypeOK
  <2> QED
    BY <2>1, <2>4, <2>6, <2>7, <2>8
       DEF Progress, CacheCoherent, LeadsLong, Long, AnswerOwn, Own, Origin, Cfg, Timely, mem
<1>12. CASE Hold
  BY <1>12, ReturnStep DEF Hold
<1>13. CASE Decide
  <2>1. rec' = [rec EXCEPT !.began = now] /\ pc = "decide" /\ pc' = "guard"
        /\ UNCHANGED <<now, pa, paSeen, mem, last>>
    BY <1>13 DEF Decide
  <2>2. TypeOK'
    BY <2>1 DEF Records, TypeOK, mem
  <2>3. /\ rec'.answer = rec.answer /\ rec'.copy = rec.copy /\ rec'.lead = rec.lead
        /\ rec'.at = rec.at /\ rec'.before = rec.before /\ rec'.used = rec.used /\ rec'.began = now
    BY <2>1 DEF Records, TypeOK
  <2> QED
    BY <2>1, <2>2, <2>3
       DEF Progress, CacheCoherent, LeadsLong, Long, AnswerOwn, Own, Origin, Cfg, Timely, mem, TypeOK, Records
<1>14. CASE Guard
  <2>1. TypeOK'
    BY <1>14 DEF Guard, TypeOK, mem
  <2>2. Timely'
    <3>1. ASSUME rec.used
          PROVE  rec.began + rec.answer.lead.allowance < rec.answer.origin + Cfg.dt
      <4>1. rec.answer \in Responses /\ rec.copy \in Autoscalers
        BY <1>14, <3>1 DEF Guard, Progress, TypeOK, Records
      <4>2. rec.answer.lead.allowance \in Nat /\ rec.answer.origin \in Int /\ Cfg.dt \in Nat
        BY <4>1, <1>a DEF Responses, Leads, Cfg
      <4>3. now + rec.answer.lead.allowance < rec.answer.origin + Cfg.dt
        BY <1>14, <3>1 DEF Guard, StillActionable, ActionableAt
      <4>4. rec.began <= now /\ rec.began \in Nat /\ now \in Nat
        BY <1>14 DEF Guard, Timely, TypeOK, Records
      <4> QED
        BY <4>2, <4>3, <4>4
    <3> QED
      BY <1>14, <3>1 DEF Guard, Timely, Cfg, mem
  <2> QED
    BY <1>14, <2>1, <2>2 DEF Guard, Progress, CacheCoherent, LeadsLong, Long, AnswerOwn, Own,
                             Origin, Cfg, mem
<1>15. CASE GuardAborts
  BY <1>15, ReturnStep DEF GuardAborts
<1>16. CASE Write
  BY <1>16, ReturnStep DEF Write
<1>17. CASE WriteFails
  BY <1>17, ReturnStep DEF WriteFails
<1>18. ASSUME NEW s \in Specs, Edit(s) PROVE V2Inv'
  <2>1. pa' \in Autoscalers
    <3>1. pa' = [[pa EXCEPT !.gen = pa.gen + 1] EXCEPT !.spec = s]
      BY <1>18 DEF Edit, TypeOK, Autoscalers
    <3>2. pa.gen + 1 \in Nat /\ [pa EXCEPT !.gen = pa.gen + 1] \in Autoscalers
      BY DEF Records, TypeOK, Autoscalers
    <3> QED
      BY <3>1, <3>2 DEF Autoscalers
  <2>2. TypeOK'
    BY <1>18, <2>1 DEF Edit, TypeOK, mem
  <2> QED
    BY <1>18, <2>2, OutsideStep DEF Edit, TypeOK, mem
<1>19. CASE Sync
  <2>1. TypeOK'
    BY <1>19 DEF Sync, TypeOK, mem
  <2> QED
    BY <1>19, <2>1, OutsideStep DEF Sync, TypeOK, mem
<1>20. CASE Restart
  <2>1. TypeOK'
    BY <1>20 DEF Restart, Records, TypeOK, NoRec
  <2> QED
    BY <1>20, <2>1 DEF Restart, Progress, CacheCoherent, LeadsLong, Long, AnswerOwn, Timely, NoRec
<1>21. CASE Tick
  <2>1. TypeOK' /\ now' >= now
    BY <1>21 DEF Tick, TypeOK, mem
  <2> QED
    BY <1>21, <2>1, OutsideStep DEF Tick, mem
<1> QED
  BY <1>1, <1>2, <1>3, <1>4, <1>5, <1>6, <1>c, <1>7, <1>8, <1>9, <1>10, <1>11, <1>12, <1>13, <1>14,
     <1>15, <1>16, <1>17, <1>18, <1>19, <1>20, <1>21 DEF Next

----------------------------------------------------------------------------
(* The theorems                                                            *)

(* The invariant holds throughout.                                         *)
THEOREM V2Invariant == Spec => []V2Inv
  BY InitV2, StepV2, PTL DEF Spec

(* docs/configuration.md: the lead of one configuration never shrinks, for *)
(* every sequence of measurements, restarts, edits and stale copies.       *)
THEOREM LeadOnlyGrows == Spec => LeadNeverShortens
<1> DEFINE Grows == pa.pred # None /\ pa'.pred # None /\ pa'.pred.basis = pa.pred.basis
                      => pa'.pred.frozen >= pa.pred.frozen
<1>1. V2Inv /\ [Next]_vars => [Grows]_vars
  <2> SUFFICES ASSUME V2Inv, [Next]_vars PROVE Grows
    OBVIOUS
  <2>1. pa \in Autoscalers /\ (pa.pred # None => pa.pred.frozen \in Nat)
    BY DEF V2Inv, TypeOK, Autoscalers, Predictions
  <2>2. CASE pa'.pred = pa.pred
    BY <2>1, <2>2
  <2>3. CASE pa'.pred = None
    BY <2>3
  <2>4. ASSUME NEW obs \in Observations, NEW t \in 0 .. now, Prepare(obs, t) PROVE Grows
    <3>1. CASE UNCHANGED pa
      BY <3>1, <2>2
    <3>2. CASE pa = rec.copy /\ pa' = [pa EXCEPT !.pred = Wanted(rec.copy, obs)]
      <4>1. pa'.pred = Wanted(pa, obs)
        BY <3>2, <2>1 DEF Autoscalers
      <4> DEFINE w == Wanted(pa, obs)
      <4>2. w.basis = pa.spec.cfg
            /\ (pa.pred # None /\ pa.pred.basis = pa.spec.cfg => w.frozen >= pa.pred.frozen)
        BY <2>1, WantedLong
      <4> HIDE DEF w
      <4>3. pa'.pred = w
        BY <4>1 DEF w
      <4> QED
        BY <4>2, <4>3
    <3> QED
      BY <2>4, <3>1, <3>2 DEF Prepare
  <2>5. CASE OtherEngine
    BY <2>1, <2>2, <2>3, <2>5 DEF OtherEngine, Autoscalers
  <2>6. ASSUME NEW s \in Specs, Edit(s) PROVE Grows
    <3>1. pa'.pred = pa.pred
      BY <2>1, <2>6 DEF Edit, Autoscalers
    <3> QED
      BY <3>1, <2>2
  <2>7. CASE UNCHANGED pa
    BY <2>2, <2>7
  <2> QED
    BY <2>4, <2>5, <2>6, <2>7
       DEF Next, Start, PublishFails, NoLead, NoCapacity, FromCache, Ask, NoAnswer, Receive, Verdict, Hold,
           Decide, Guard, GuardAborts, Write, WriteFails, Sync, Restart, Tick, vars
<1> QED
  BY <1>1, V2Invariant, PTL DEF Spec, LeadNeverShortens

(* What holds when a write that used a forecast lands.                     *)
LEMMA UsedWrite ==
  ASSUME V2Inv, Write, rec.used
  PROVE  /\ rec.copy \in Autoscalers /\ Cfg.dt \in Nat \ {0} /\ now \in Nat /\ rec.at \in Nat
         /\ rec.answer \in Responses /\ rec.answer.lead \in Leads /\ Own
         /\ now + rec.answer.lead.allowance < rec.answer.origin + Cfg.dt + WriteWindow
<1>1. rec.copy \in Autoscalers /\ rec.answer \in Responses /\ Own /\ rec.began \in Nat /\ rec.at \in Nat
  BY DEF Write, V2Inv, Progress, AnswerOwn, TypeOK, Records
<1>2. Cfg \in Cfgs /\ rec.answer.lead \in Leads /\ rec.answer.origin \in Int
  BY <1>1 DEF Cfg, Cfgs, Autoscalers, Responses
<1>3. Cfg.dt \in Nat \ {0} /\ rec.answer.lead.allowance \in Nat
  BY <1>2, CfgFields DEF Leads
<1>4. /\ rec.began + rec.answer.lead.allowance < rec.answer.origin + Cfg.dt
      /\ now <= rec.began + WriteWindow /\ now \in Nat
  BY DEF Write, V2Inv, Timely, TypeOK
<1>5. now + rec.answer.lead.allowance < rec.answer.origin + Cfg.dt + WriteWindow
  BY <1>1, <1>2, <1>3, <1>4, V2Constants
<1> QED
  BY <1>1, <1>2, <1>3, <1>4, <1>5

(* A write that used a forecast used one made for this very reconcile,     *)
(* from the service or from the cache, and lands within the write timeout  *)
(* of that window's deadline, for every cadence, lead and delay.           *)
THEOREM WritesOwnInTime == Spec => UsedOwnInTime
<1> DEFINE Right ==
       /\ now + rec.answer.lead.allowance < rec.answer.origin + Cfg.dt + WriteWindow
       /\ rec.answer.gen = rec.copy.gen /\ rec.answer.lead = rec.lead
       /\ rec.answer.origin <= rec.at /\ rec.at < rec.answer.origin + Cfg.dt
<1>1. V2Inv /\ [Next]_vars => [Write /\ rec.used => Right]_vars
  <2> SUFFICES ASSUME V2Inv, Write, rec.used PROVE Right
    OBVIOUS
  <2>1. Cfg.dt \in Nat \ {0} /\ rec.at \in Nat /\ Own
    BY UsedWrite
  <2>2. Origin <= rec.at /\ rec.at < Origin + Cfg.dt
    BY <2>1, OriginBounds DEF Origin
  <2>3. now + rec.answer.lead.allowance < rec.answer.origin + Cfg.dt + WriteWindow
    BY UsedWrite
  <2> QED
    BY <2>1, <2>2, <2>3 DEF Own
<1> QED
  BY <1>1, V2Invariant, PTL DEF Spec, UsedOwnInTime

(* Consecutive windows leave no gap that pods cannot be started for.       *)
THEOREM WindowsOverlap == Spec => NoGap
<1> DEFINE A == Write /\ rec.used /\ rec.before # None =>
       LET b == rec.before
           l == rec.answer.lead
       IN (/\ b.dt = Cfg.dt /\ WriteWindow <= Slack + l.allowance
           /\ b.lead.startup >= l.startup /\ b.lead.allowance >= l.allowance
           /\ rec.answer.origin - b.origin \in 0 .. DecisionInterval(Interval, Cfg.dt))
            => now + l.allowance + l.startup <= b.origin + b.lead.seconds
<1>1. V2Inv /\ [Next]_vars => [A]_vars
  <2> DEFINE b == rec.before
             l == rec.answer.lead
             I == DecisionInterval(Interval, Cfg.dt)
  <2> SUFFICES ASSUME V2Inv, Write, rec.used, b # None,
                      b.dt = Cfg.dt, WriteWindow <= Slack + l.allowance,
                      b.lead.startup >= l.startup, b.lead.allowance >= l.allowance,
                      rec.answer.origin - b.origin \in 0 .. I
               PROVE  now + l.allowance + l.startup <= b.origin + b.lead.seconds
    OBVIOUS
  <2>1. /\ Cfg.dt \in Nat \ {0} /\ now \in Nat /\ rec.answer \in Responses /\ l \in Leads
        /\ now + l.allowance < rec.answer.origin + Cfg.dt + WriteWindow
    BY UsedWrite
  <2>2. rec.answer.origin \in Int /\ l.allowance \in Nat /\ l.startup \in Nat
    BY <2>1 DEF Responses, Leads
  <2>3. b \in Windows /\ Long(b.lead, b.dt)
    BY DEF V2Inv, TypeOK, Records, LeadsLong
  <2>4. /\ b.origin \in Int /\ b.lead.seconds \in Nat /\ b.lead.startup \in Nat
        /\ b.lead.allowance \in Nat
    BY <2>3 DEF Windows, Leads
  <2>5. I \in Nat
    BY <2>1, IntervalType
  <2>6. b.lead.seconds >= b.lead.startup + (I + Slack) + b.lead.allowance + Cfg.dt
    BY <2>3 DEF Long, LeadDecisionInterval
  <2>7. Slack \in Nat /\ WriteWindow \in Nat
    BY V2Constants
  <2>8. rec.answer.origin - b.origin <= I
    BY <2>2, <2>4, <2>5
  <2> HIDE DEF b, l, I
  <2> QED
    BY <2>1, <2>2, <2>4, <2>5, <2>6, <2>7, <2>8
<1> QED
  BY <1>1, V2Invariant, PTL DEF Spec, NoGap
=============================================================================
