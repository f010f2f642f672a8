----------------------------- MODULE ForecastV2 -----------------------------
(***************************************************************************)
(* The operator's side of forecast contract v2 (engine statistical,        *)
(* k8s-operator/controllers/v2_reconcile.go and forecast_v2.go): the       *)
(* decision schedule, the published lead, the request and its verified     *)
(* answer, the per-window cache, and the deadline check before the write.  *)
(*                                                                         *)
(* A reconcile works on a copy of the autoscaler from a cache that lags.   *)
(* Its reads, its request and its write each take time, so the clock, a    *)
(* user and a restart may come between any two steps.  What the startup    *)
(* tracker reports and what the forecasting service answers are inputs,    *)
(* and so is a configured capacity.  The settings of a spec are valid.     *)
(* Replica counts, holds and the other guards of a write are Reconciler's. *)
(***************************************************************************)
EXTENDS Integers

CONSTANTS Slack,         \* v2ScheduleSlackSeconds (code: 5)
          MarginPercent, \* startupMarginPercent (code: 25)
          Specs,         \* [engine, cfg, other]: cfg is all a lead depends on
          Observations,  \* [p90, pending]: what observeStartup may report
          Interval,      \* the reconcile interval
          WriteWindow,   \* scaleWriteTimeout
          MaxTime, MaxGen,
          None

-----------------------------------------------------------------------------
(* The arithmetic of the contract, as constant operators: the startup      *)
(* budget D, the decision interval C, the lead L, the window               *)
(* {t + dt, ..., t + L} of a forecast made at the grid origin t, and its   *)
(* deadline.  Times are whole units of one clock; the code compares the    *)
(* same instants in milliseconds.                                          *)

Up(a, b) == IF a < b THEN b ELSE a
Down(a, b) == IF a < b THEN a ELSE b
CeilDivide(a, b) == (a + b - 1) \div b

(* The grid point at or before t, and the one at or after n.               *)
GridOrigin(t, dt) == (t \div dt) * dt
OnGrid(n, dt) == CeilDivide(n, dt) * dt

(* The reconcile interval rounded up to the grid, at least one cadence.    *)
DecisionInterval(interval, dt) == Up(OnGrid(interval, dt), dt)

LeadDecisionInterval(interval, dt) == DecisionInterval(interval, dt) + Slack

(* D: the measured 90th percentile plus the margin, or the configured      *)
(* fallback, or none; at least the configured minimum, and a pod that is   *)
(* not Ready yet and older than the budget raises it to its age.           *)
StartupBudget(obs, cfg) ==
  LET raised(d) == Up(Up(d, cfg.minimum), IF obs.pending = None THEN 0 ELSE obs.pending)
  IN CASE obs.p90 # None -> raised(CeilDivide(obs.p90 * (100 + MarginPercent), 100))
       [] obs.p90 = None /\ cfg.fallback # None -> raised(cfg.fallback)
       [] OTHER -> None

(* Mutant: the time to the next decision is left out.                      *)
AutomaticLeadNoInterval(startup, interval, allowance, dt) == OnGrid(startup + allowance + dt, dt)

AutomaticLead(startup, interval, allowance, dt) == OnGrid(startup + interval + allowance + dt, dt)

(* The service accepts a lead of this generation, on the grid, within the  *)
(* horizon, that covers startup, one cadence and the allowance.            *)
LeadAccepted(lead, cfg, gen) ==
  /\ lead.gen = gen
  /\ lead.seconds >= cfg.dt /\ lead.seconds % cfg.dt = 0 /\ lead.seconds <= cfg.horizon
  /\ lead.seconds >= lead.startup + cfg.dt + lead.allowance

(* The last instant a write may act on the window.                         *)
ValidUntil(origin, dt, lead) ==
  Down(origin + dt - lead.allowance, origin + lead.seconds - lead.startup - dt - lead.allowance)

ActionableAt(t, origin, dt, lead) ==
  t + lead.allowance < origin + dt /\ t < ValidUntil(origin, dt, lead)

-----------------------------------------------------------------------------
(* The state of the operator.                                              *)

Cfgs == {s.cfg : s \in Specs}
Leads == [seconds : Nat, startup : Nat, allowance : Nat, gen : Nat]
Predictions == [basis : Cfgs, frozen : Nat, lead : Leads \cup {None}]
Autoscalers == [gen : Nat, spec : Specs, pred : Predictions \cup {None}]
Responses == [gen : Nat, origin : Int, lead : Leads, eligible : BOOLEAN]
Bindings == [gen : Nat, cfg : Cfgs, origin : Int, lead : Leads]
CacheEntries == [binding : Bindings, answer : Responses]
Windows == [origin : Int, dt : Nat, lead : Leads]

Records == [copy : Autoscalers \cup {None}, at : Nat, lead : Leads \cup {None},
            answer : Responses \cup {None}, used : BOOLEAN, before : Windows \cup {None}, began : Nat]

ASSUME V2Constants ==
  /\ Interval \in Nat /\ WriteWindow \in Nat /\ Slack \in Nat /\ MarginPercent \in Nat
  /\ MaxTime \in Nat /\ MaxGen \in Nat /\ None \notin Nat
  /\ \A s \in Specs : s.cfg \in [dt : Nat \ {0}, horizon : Nat, fallback : Nat \cup {None},
                               minimum : Nat, allowance : Nat]
  /\ None \notin Leads /\ None \notin Predictions /\ None \notin Autoscalers
  /\ None \notin Responses /\ None \notin CacheEntries /\ None \notin Windows
  /\ Observations \subseteq [p90 : Nat \cup {None}, pending : Nat \cup {None}]

VARIABLES now,
          pa,         \* the autoscaler: [gen, spec, pred], pred its status.prediction
          paSeen,     \* the operator's cached copy
          lastOrigin, \* v2LastOrigin, or None
          throttled,  \* lastReconcileMap has an entry
          cached,     \* v2Cache: [binding, answer] or None
          pc,
          rec,        \* the reconcile in progress
          last        \* history: the window of the last forecast used, [origin, dt, lead] or None

mem == <<lastOrigin, throttled, cached>>
vars == <<now, pa, paSeen, mem, pc, rec, last>>

NoRec == [copy |-> None, at |-> 0, lead |-> None, answer |-> None, used |-> FALSE, before |-> None, began |-> 0]

Init ==
  /\ now = 0
  /\ \E s \in Specs : pa = [gen |-> 1, spec |-> s, pred |-> None]
  /\ paSeen = pa
  /\ lastOrigin = None /\ throttled = FALSE /\ cached = None
  /\ pc = "idle" /\ rec = NoRec /\ last = None

Statistical(a) == a.spec.engine = "statistical"
Cfg == rec.copy.spec.cfg
Origin == GridOrigin(rec.at, Cfg.dt)

(* The reconcile returns; a fast retry deletes the throttle entry.         *)
Return(retry) ==
  /\ pc' = "idle" /\ rec' = NoRec
  /\ throttled' = (throttled /\ ~retry)

----------------------------------------------------------------------------
(* At most one decision per decision interval, unless the throttle entry   *)
(* was deleted.                                                            *)
Due(a) ==
  \/ lastOrigin = None \/ ~throttled
  \/ lastOrigin # None /\ GridOrigin(now, a.spec.cfg.dt) >= lastOrigin + DecisionInterval(Interval, a.spec.cfg.dt)

Start ==
  /\ pc = "idle" /\ Statistical(paSeen) /\ Due(paSeen)
  /\ lastOrigin' = GridOrigin(now, paSeen.spec.cfg.dt) /\ throttled' = TRUE
  /\ pc' = "prepare"
  /\ rec' = [NoRec EXCEPT !.copy = paSeen, !.at = now]
  /\ UNCHANGED <<now, pa, paSeen, cached, last>>

(* The other engines drop the cached answer and clear status.prediction.   *)
OtherEngine ==
  /\ pc = "idle" /\ ~Statistical(paSeen)
  /\ cached' = None /\ throttled' = TRUE
  /\ \/ pa = paSeen /\ pa' = [pa EXCEPT !.pred = None]
     \/ UNCHANGED pa
  /\ UNCHANGED <<now, paSeen, lastOrigin, pc, rec, last>>

(* Mutant: the lead is chosen anew every time.                             *)
FrozenNever(prev, basis) == 0

(* The lead of the same basis that must not shrink.                        *)
Frozen(prev, basis) == IF prev # None /\ prev.basis = basis THEN prev.frozen ELSE 0

(* What prepareV2 publishes: a lead when there is a budget and the lead    *)
(* fits the horizon.                                                       *)
Wanted(a, obs) ==
  LET cfg    == a.spec.cfg
      frozen == Frozen(a.pred, cfg)
      budget == StartupBudget(obs, cfg)
      length == Up(frozen, AutomaticLead(budget, LeadDecisionInterval(Interval, cfg.dt),
                                         cfg.allowance, cfg.dt))
      lead   == [seconds |-> length, startup |-> budget, allowance |-> cfg.allowance, gen |-> a.gen]
  IN IF budget # None /\ length <= cfg.horizon /\ LeadAccepted(lead, cfg, a.gen)
     THEN [basis |-> cfg, frozen |-> length, lead |-> lead]
     ELSE [basis |-> cfg, frozen |-> frozen, lead |-> None]

(* prepareV2: the lead is published, by a conditional update of the copy,  *)
(* before any request.  The reconcile's time t was read some time before.  *)
Prepare(obs, t) ==
  LET want == Wanted(rec.copy, obs) IN
  /\ pc = "prepare" /\ rec.at <= t
  /\ \/ /\ want = rec.copy.pred
        /\ UNCHANGED pa
     \/ /\ want # rec.copy.pred /\ pa = rec.copy
        /\ pa' = [pa EXCEPT !.pred = want]
  /\ rec' = [rec EXCEPT !.copy.pred = want, !.at = t, !.lead = want.lead]
  /\ pc' = "ask"
  /\ UNCHANGED <<now, paSeen, mem, last>>

(* The publication failed or met a newer object: no request is made.       *)
PublishFails ==
  /\ pc = "prepare"
  /\ Return(TRUE)
  /\ UNCHANGED <<now, pa, paSeen, lastOrigin, cached, last>>

----------------------------------------------------------------------------
(* The forecast: everything an answer must echo.                           *)
Binding == [gen |-> rec.copy.gen, cfg |-> Cfg, origin |-> Origin, lead |-> rec.lead]

(* A cached answer serves exactly the same request, within its own window. *)
Reusable(c) == c.binding = Binding /\ ActionableAt(rec.at, c.answer.origin, Cfg.dt, c.answer.lead)

NoLead ==
  /\ pc = "ask" /\ rec.lead = None
  /\ cached' = None
  /\ pc' = "decide"
  /\ UNCHANGED <<now, pa, paSeen, lastOrigin, throttled, rec, last>>

(* Without a configured capacity no forecast is requested.                 *)
NoCapacity ==
  /\ pc = "ask"
  /\ pc' = "decide"
  /\ UNCHANGED <<now, pa, paSeen, mem, rec, last>>

FromCache ==
  /\ pc = "ask" /\ rec.lead # None
  /\ cached # None /\ Reusable(cached)
  /\ rec' = [rec EXCEPT !.answer = cached.answer]
  /\ pc' = "verdict"
  /\ UNCHANGED <<now, pa, paSeen, mem, last>>

Ask ==
  /\ pc = "ask" /\ rec.lead # None
  /\ cached = None \/ (cached # None /\ ~Reusable(cached))
  /\ cached' = None
  /\ pc' = "wait"
  /\ UNCHANGED <<now, pa, paSeen, lastOrigin, throttled, rec, last>>

(* What the service may answer: for the request or for the object as it    *)
(* reads it, of this origin or the one before, offered as eligible only if *)
(* it was issued while its window was actionable.                          *)
Answers ==
  LET live == IF pa.pred = None THEN None ELSE pa.pred.lead IN
  {x \in [gen : {rec.copy.gen, pa.gen}, origin : {Origin, Origin - Cfg.dt},
          lead : {rec.lead, live} \ {None}, eligible : BOOLEAN] :
     x.eligible => ActionableAt(rec.at, x.origin, Cfg.dt, x.lead)}

(* bound: the answer is for exactly the request sent.                      *)
Bound(x) == x.gen = rec.copy.gen /\ x.origin = Origin /\ x.lead = rec.lead

Receive(x) ==
  /\ pc = "wait" /\ Bound(x)
  /\ cached' = [binding |-> Binding, answer |-> x]
  /\ rec' = [rec EXCEPT !.answer = x]
  /\ pc' = "verdict"
  /\ UNCHANGED <<now, pa, paSeen, lastOrigin, throttled, last>>

(* No answer, a refusal, or an answer that is not for the request.         *)
NoAnswer ==
  /\ pc = "wait"
  /\ pc' = "decide"
  /\ UNCHANGED <<now, pa, paSeen, mem, rec, last>>

(* The operator's own verdict, by the clock after the request; evidence is *)
(* whether counts and ages meet the settings.                              *)
Eligible(evidence) ==
  rec.answer.eligible /\ evidence /\ ActionableAt(now, rec.answer.origin, Cfg.dt, rec.answer.lead)

Verdict(evidence) ==
  /\ pc = "verdict"
  /\ rec' = [rec EXCEPT !.used = Eligible(evidence), !.before = last]
  /\ last' = IF Eligible(evidence) THEN [origin |-> rec.answer.origin, dt |-> Cfg.dt, lead |-> rec.answer.lead] ELSE last
  /\ pc' = "decide"
  /\ UNCHANGED <<now, pa, paSeen, mem>>

----------------------------------------------------------------------------
(* The decision and its write                                              *)

Hold ==
  /\ pc = "decide"
  /\ Return(FALSE)
  /\ UNCHANGED <<now, pa, paSeen, lastOrigin, cached, last>>

Decide ==
  /\ pc = "decide"
  /\ pc' = "guard"
  /\ rec' = [rec EXCEPT !.began = now]
  /\ UNCHANGED <<now, pa, paSeen, mem, last>>

(* Mutant: a forecast found eligible authorizes the write.                 *)
StillActionableOnce == TRUE

(* A decision that used a forecast is written only while its window is     *)
(* actionable, by the clock after the slow reads.                          *)
StillActionable == rec.used => ActionableAt(now, rec.answer.origin, Cfg.dt, rec.answer.lead)

Guard ==
  /\ pc = "guard" /\ pa.gen = rec.copy.gen /\ StillActionable
  /\ pc' = "write"
  /\ UNCHANGED <<now, pa, paSeen, mem, rec, last>>

GuardAborts ==
  /\ pc = "guard"
  /\ \/ pa.gen # rec.copy.gen /\ Return(FALSE)
     \/ pa.gen = rec.copy.gen /\ ~StillActionable /\ Return(TRUE)
  /\ UNCHANGED <<now, pa, paSeen, lastOrigin, cached, last>>

(* The update of /scale lands within the write timeout.                    *)
Write ==
  /\ pc = "write" /\ now <= rec.began + WriteWindow
  /\ Return(FALSE)
  /\ UNCHANGED <<now, pa, paSeen, lastOrigin, cached, last>>

(* A stale Scale or a conflict asks for a fast retry; an error or a        *)
(* timeout does not.                                                       *)
WriteFails ==
  /\ pc \in {"guard", "write"}
  /\ \E retry \in BOOLEAN : Return(retry)
  /\ UNCHANGED <<now, pa, paSeen, lastOrigin, cached, last>>

----------------------------------------------------------------------------
(* The environment                                                         *)

Edit(s) ==
  /\ pa.gen < MaxGen /\ s # pa.spec
  /\ pa' = [pa EXCEPT !.gen = @ + 1, !.spec = s]
  /\ UNCHANGED <<now, paSeen, mem, pc, rec, last>>

Sync ==
  /\ paSeen # pa
  /\ paSeen' = pa
  /\ UNCHANGED <<now, pa, mem, pc, rec, last>>

Restart ==
  /\ lastOrigin' = None /\ throttled' = FALSE /\ cached' = None
  /\ pc' = "idle" /\ rec' = NoRec
  /\ UNCHANGED <<now, pa, paSeen, last>>

Tick ==
  /\ now < MaxTime
  /\ now' = now + 1
  /\ UNCHANGED <<pa, paSeen, mem, pc, rec, last>>

Next ==
  \/ Start \/ OtherEngine \/ PublishFails
  \/ \E obs \in Observations, t \in 0 .. now : Prepare(obs, t)
  \/ NoLead \/ NoCapacity \/ FromCache \/ Ask \/ NoAnswer
  \/ pc = "wait" /\ \E x \in Answers : Receive(x)
  \/ \E evidence \in BOOLEAN : Verdict(evidence)
  \/ Hold \/ Decide \/ Guard \/ GuardAborts \/ Write \/ WriteFails
  \/ \E s \in Specs : Edit(s)
  \/ Sync \/ Restart \/ Tick

Spec == Init /\ [][Next]_vars

----------------------------------------------------------------------------
(* Properties                                                              *)

(* The variables hold what the reconciler's maps and objects can hold.     *)
TypeOK ==
  /\ now \in Nat
  /\ pa \in Autoscalers /\ paSeen \in Autoscalers
  /\ lastOrigin \in Int \cup {None} /\ throttled \in BOOLEAN
  /\ cached \in CacheEntries \cup {None}
  /\ pc \in {"idle", "prepare", "ask", "wait", "verdict", "decide", "guard", "write"}
  /\ rec \in Records
  /\ last \in Windows \cup {None}

(* A forecast raises a count only as what it is.  The write lands within   *)
(* the write timeout of the window's deadline, and so before the first     *)
(* target when the allowance covers that timeout, although the answer may  *)
(* come from the cache and every read and call takes time; and the answer  *)
(* is of this reconcile's generation, lead and grid origin                 *)
(* (forecast_v2.go:384-410, the check before writeScale; bound, key).      *)
UsedOwnInTime ==
  [][Write /\ rec.used =>
       /\ now + rec.answer.lead.allowance < rec.answer.origin + Cfg.dt + WriteWindow
       /\ rec.answer.gen = rec.copy.gen /\ rec.answer.lead = rec.lead
       /\ rec.answer.origin <= rec.at /\ rec.at < rec.answer.origin + Cfg.dt]_vars

(* docs/configuration.md: "Within one configuration the lead never shrinks *)
(* automatically", across restarts, lost samples and stale copies.         *)
LeadNeverShortens ==
  [][pa.pred # None /\ pa'.pred # None /\ pa'.pred.basis = pa.pred.basis =>
       pa'.pred.frozen >= pa.pred.frozen]_vars

(* No gap between windows: when the decision before used a forecast of the *)
(* same cadence, was at most one decision interval earlier and assumed     *)
(* starts as slow, the pods this write starts are Ready before the earlier *)
(* window ends, if slack and allowance cover the write timeout             *)
(* (v2_reconcile.go:47-51, forecast_v2.go:354-357).                        *)
NoGap ==
  [][Write /\ rec.used /\ rec.before # None =>
       LET b == rec.before
           l == rec.answer.lead
       IN (/\ b.dt = Cfg.dt /\ WriteWindow <= Slack + l.allowance
           /\ b.lead.startup >= l.startup /\ b.lead.allowance >= l.allowance
           /\ rec.answer.origin - b.origin \in 0 .. DecisionInterval(Interval, Cfg.dt))
            => now + l.allowance + l.startup <= b.origin + b.lead.seconds]_vars
=============================================================================
