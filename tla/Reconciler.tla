----------------------------- MODULE Reconciler -----------------------------
(***************************************************************************)
(* One PredictiveAutoscaler (an engine other than "statistical") and its   *)
(* target Deployment: the operator's reconcile as the sequence of API      *)
(* reads, decisions and the conditional /scale write it really is, with    *)
(* everything that may happen between two of them: users editing,          *)
(* deleting or re-creating the autoscaler, other writers scaling or        *)
(* replacing the Deployment, informer caches that lag, API failures, slow  *)
(* calls (ticks of the clock) and operator restarts.                       *)
(*                                                                         *)
(* Time is counted in ticks and kept as ages that saturate at the          *)
(* threshold the code compares them with: an age at its bound also stands  *)
(* for the zero time.  Object identities (revisions, UIDs, resource        *)
(* versions) are compared for equality only, so a new one is any one that  *)
(* nobody remembers.                                                       *)
(***************************************************************************)
EXTENDS Integers

CONSTANTS
  ScaleDownMinPods,     \* scaleDownMinPods: pods a step may always remove (code: 2)
  ScaleDownMaxPercent,  \* scaleDownMaxPercent: percent a step may remove (code: 10)
  StreakRequired,       \* overestimateStreakRequired (code: 3)
  MaxStreak,            \* overestimateMaxStreak (code: 10)
  ReEvalInterval,       \* overestimateReEvalInterval (code: 30)
  Specs,        \* autoscaler specs a user may apply: records of SpecType
  Signals,      \* compiled metric queries (a spec with signal None has an invalid one)
  Revs,         \* (UID, generation) pairs of autoscaler objects
  Uids,         \* Deployment UIDs
  RVs,          \* Deployment resourceVersions
  Counts,       \* replica counts other writers may set
  Rates,        \* measured request rates (requests per minute)
  Forecasts,    \* what a usable v1 forecast shows: [near, peak, confidence, ramp]
  Stabilization,\* scaleDownStabilization in ticks (code: 5 minutes)
  Cooldown,     \* scaleDownCooldown in ticks (code: 2 minutes)
  Interval,     \* the reconcile interval in ticks
  WriteWindow,  \* scaleWriteTimeout in ticks: the calls of one write fail later
  Events,       \* what may happen around a reconcile, a subset of EventKinds
  None          \* model value: absent

ASSUME RuleConstants ==
  /\ ScaleDownMinPods \in Nat \ {0}
  /\ ScaleDownMaxPercent \in 0..100
  /\ StreakRequired \in Nat \ {0}
  /\ MaxStreak \in Nat /\ MaxStreak >= StreakRequired
  /\ ReEvalInterval \in Nat \ {0}

-----------------------------------------------------------------------------
(* The arithmetic of the decision, as constant operators: forecast and     *)
(* measured rate to replica counts, the unified decision, the headroom     *)
(* floor, the gradual scale-down step and the overestimate cap.  Rates are *)
(* requests per minute.  The code divides float64 values and takes         *)
(* math.Ceil; here the same quotients are exact rationals, rounded up once.*)

MaxInt32 == 2147483647

CeilDiv(a, b) == (a + b - 1) \div b

Larger(a, b) == IF a < b THEN b ELSE a

Smaller(a, b) == IF a < b THEN a ELSE b

(* math.Ceil(rate / perReplica) as an int32: the quotient saturates.       *)
ReplicasFor(rate, perReplica) == Smaller(CeilDiv(rate, perReplica), MaxInt32)

(* The bounds of the spec; the maximum wins, as it is applied last.        *)
Clamp(v, lo, hi) == Smaller(Larger(v, lo), hi)

-----------------------------------------------------------------------------
(* The predictive term of contract v1: the peak of the lead window, moved  *)
(* towards minReplicas when the confidence (percent) is positive and below *)
(* 70, within the bounds of the spec.                                      *)
CalculatePredicted(peak, confidence, capacity, min, max) ==
  LET raw    == ReplicasFor(peak, capacity)
      damped == Smaller(CeilDiv(100 * min + confidence * (raw - min), 100), MaxInt32)
  IN  Clamp(IF confidence \in 1..69 THEN damped ELSE raw, min, max)

(* A forecast whose first step exceeds ten times a positive measured rate  *)
(* is discarded as diverged.                                               *)
Diverged(near, rpm) == rpm > 0 /\ near > 10 * rpm

(* Mutant: a missing measurement reads as zero traffic.                    *)
UnifiedDesiredUnheld(predicted, reactive, min, max, current, forecastUsed, measured) ==
  Clamp(IF forecastUsed THEN Larger(predicted, reactive) ELSE reactive, min, max)

(* The one decision rule.  Without a measured need the current count is    *)
(* kept, within the bounds.                                                *)
UnifiedDesired(predicted, reactive, min, max, current, forecastUsed, measured) ==
  IF ~measured
  THEN Clamp(current, min, max)
  ELSE Clamp(IF forecastUsed THEN Larger(predicted, reactive) ELSE reactive, min, max)

(* The smallest count that leaves the headroom (percent) spare at the      *)
(* measured rate, capped at maxReplicas; 0 when the headroom is off.       *)
HeadroomFloor(rpm, capacity, headroom, max) ==
  IF headroom \in 1..99
  THEN Smaller(ReplicasFor(100 * rpm, capacity * (100 - headroom)), max)
  ELSE 0

(* Rule 4 of calculateScaleDownTarget: one gradual step towards desired.   *)
ScaleDownStep(current, desired) ==
  LET maxRemove == Larger(CeilDiv(current * ScaleDownMaxPercent, 100), ScaleDownMinPods)
  IN  Larger(Larger(current - maxRemove, desired), 1)

-----------------------------------------------------------------------------
(* Overestimate tracking: streak, reEval (counter since the streak passed  *)
(* its maximum) and override (holds bypassed).                             *)
NoOverestimate == [streak |-> 0, reEval |-> 0, override |-> FALSE]

(* The rate rose more than 2 percent since the previous reconcile.         *)
RampUp(lastRPM, rpm) == lastRPM > 0 /\ rpm > 0 /\ 100 * (rpm - lastRPM) > 2 * lastRPM

(* ceil(reactive * 1.1), the count a capped forecast may ask for.  The     *)
(* float64 product is exact enough below 50 replicas; at 50, 90, 100 and   *)
(* some larger counts it lands just above the integer and rounds up once   *)
(* more.                                                                   *)
OverestimateCap(reactive) == CeilDiv(11 * reactive, 10)

(* adjustForOverestimation: the tracking after this reconcile and the      *)
(* predicted count it leaves.  ramp: the forecast itself rises by more     *)
(* than 20 percent.                                                        *)
AdjustForOverestimation(ov, predicted, reactive, lastRPM, rpm, ramp) ==
  LET streak  == IF 10 * predicted > 12 * reactive THEN ov.streak + 1 ELSE 0
      counted == [ov EXCEPT !.streak = streak]
  IN  CASE \/ reactive = 0
           \/ predicted <= reactive
           \/ RampUp(lastRPM, rpm)
           \/ ramp                          -> [ov |-> NoOverestimate, replicas |-> predicted]
        [] OTHER ->
             IF streak > MaxStreak
             THEN [ov |-> IF ov.reEval + 1 >= ReEvalInterval
                          THEN NoOverestimate
                          ELSE [counted EXCEPT !.reEval = @ + 1],
                   replicas |-> predicted]
             ELSE IF streak >= StreakRequired /\ OverestimateCap(reactive) < predicted
             THEN [ov |-> [counted EXCEPT !.override = TRUE],
                   replicas |-> OverestimateCap(reactive)]
             ELSE [ov |-> counted, replicas |-> predicted]

-----------------------------------------------------------------------------
(* v2PredictiveReplicas: the replicas the upper bound asks for, at most    *)
(* the smaller of two allowances above the reactive need.                  *)
V2PredictiveReplicas(upper, capacity, reactive, min, extraMax, extraPercent) ==
  LET extra == Smaller(extraMax, CeilDiv(extraPercent * Larger(reactive, min), 100))
  IN  Smaller(ReplicasFor(upper, capacity), reactive + extra)

-----------------------------------------------------------------------------
(* The autoscaler and its target.                                          *)

EventKinds ==
  {"edit", "delete", "rescale", "replace",                           \* users, other writers
   "publish", "telemetry", "conflict", "read", "write", "lostReply", \* failing calls
   "restart"}

SpecType == [mode: {"Active", "Recommend"}, min: Nat, max: Nat, signal: Signals \cup {None},
             capacity: Nat, headroom: 0..99, forecasting: BOOLEAN]

ForecastType == [near: Nat, peak: Nat, confidence: 0..100, ramp: BOOLEAN]

ASSUME ReconcilerConstants ==
  /\ Specs \subseteq SpecType
  /\ \A s \in Specs : 1 <= s.min /\ s.min <= s.max
  /\ Counts \subseteq Nat /\ Rates \subseteq Nat
  /\ Forecasts \subseteq ForecastType
  /\ Stabilization \in Nat /\ Cooldown \in Nat /\ Interval \in Nat /\ WriteWindow \in Nat
  /\ Cooldown <= Stabilization
  /\ Events \subseteq EventKinds
  /\ Revs # {} /\ Uids # {} /\ RVs # {}
  /\ None \notin Nat \cup Revs \cup RVs \cup Uids \cup Signals

VARIABLES
  pa,       \* the autoscaler in the API server, None when deleted: its [rev, spec] and
            \* source, the target UID status.metricSource of this generation is for
  paSeen,   \* the operator's informer cache of it
  dep,      \* the Deployment in the API server: [uid, rv, replicas]; uid None: deleted
  depSeen,  \* the operator's informer cache of it: [uid, replicas]
  st,       \* scaleState of the autoscaler's key, or None
  throttle, \* ticks since the throttle entry was set (Interval: none, or expired)
  pc,       \* where the reconcile is
  snap,     \* what it read first: [rev, spec, uid, from]
  plan,     \* what it decided: see NoPlan
  hist      \* history, for the properties: see InitHist

vars == <<pa, paSeen, dep, depSeen, st, throttle, pc, snap, plan, hist>>

Older(age, bound) == Smaller(age + 1, bound)

(* A new identity is one that nobody remembers.                            *)
FreshIn(pool, remembered) == pool \ remembered # {}

Fresh(pool, remembered) == CHOOSE v \in pool \ remembered : TRUE

-----------------------------------------------------------------------------
(* scaleState: up, down and below are the ages of lastScaleUp,             *)
(* lastScaleDown and belowCurrentSince; a fresh Active state is treated as *)
(* if a write had just happened.                                           *)
FreshState(mode, uid) ==
  [up       |-> IF mode = "Active" THEN 0 ELSE Stabilization,
   down     |-> IF mode = "Active" THEN 0 ELSE Cooldown,
   below    |-> None,
   ov       |-> NoOverestimate,
   lastRPM  |-> 0,
   mode     |-> mode,
   uid      |-> uid,
   signal   |-> None]

(* Mutant: every reconcile starts from a fresh state.                      *)
StateForReset(mode, uid) == FreshState(mode, uid)

(* The state describes one mode and one target object.                     *)
StateFor(mode, uid) ==
  IF st = None \/ (st # None /\ (st.mode # mode \/ st.uid # uid))
  THEN FreshState(mode, uid)
  ELSE st

(* Its signal-dependent part describes one compiled query.                 *)
OnSignal(s, signal) ==
  IF s.signal = signal
  THEN s
  ELSE [s EXCEPT !.ov = NoOverestimate, !.lastRPM = 0, !.below = None, !.signal = signal]

(* calculateScaleDownTarget: the holds, unless the overestimate override   *)
(* skips them, then the cooldown, then one gradual step.                   *)
Held(s) ==
  /\ ~s.ov.override
  /\ \/ s.up < Stabilization
     \/ s.below = None
     \/ s.below # None /\ s.below < Stabilization

(* Mutant: the override skips the cooldown as well.                        *)
CoolingDownUnlessOverride(s) == ~s.ov.override /\ s.down < Cooldown

CoolingDown(s) == s.down < Cooldown

CalculateScaleDownTarget(s, current, desired) ==
  IF Held(s) \/ CoolingDown(s) THEN current ELSE ScaleDownStep(current, desired)

(* The below-current timer starts at the first evaluation past the         *)
(* scale-up hold.                                                          *)
BelowTimer(s) ==
  IF ~s.ov.override /\ s.up >= Stabilization /\ s.below = None THEN 0 ELSE s.below

-----------------------------------------------------------------------------
(* desired, floor: the decision and the headroom floor; measured, forecast: *)
(* what it rests on; to, bypass: the write, and whether the override       *)
(* skipped the holds; rv: of the fresh Scale; window: the age of write().  *)
NoPlan == [desired |-> 0, floor |-> 0, measured |-> FALSE, forecast |-> "unused",
           to |-> 0, bypass |-> FALSE, rv |-> None, window |-> 0]

(* History: ticks since the operator's last applied scale-up and           *)
(* scale-down, since the current state began and since the reconcile's     *)
(* spec was superseded.                                                    *)
InitHist == [up |-> Stabilization, down |-> Cooldown, born |-> 0, stale |-> 0]

Init ==
  /\ \E s \in Specs : pa = [rev |-> Fresh(Revs, {}), spec |-> s, source |-> None]
  /\ paSeen = pa
  /\ \E n \in Counts : dep = [uid |-> Fresh(Uids, {}), rv |-> Fresh(RVs, {}), replicas |-> n]
  /\ depSeen = [uid |-> dep.uid, replicas |-> dep.replicas]
  /\ st = None
  /\ throttle = Interval
  /\ pc = "idle"
  /\ snap = None
  /\ plan = NoPlan
  /\ hist = InitHist

(* Return from Reconcile; released: the throttle entry was deleted, so the *)
(* next reconcile is not held back.                                        *)
Return(released) ==
  /\ pc' = "idle"
  /\ snap' = None
  /\ plan' = NoPlan
  /\ throttle' = IF released THEN Interval ELSE throttle

apiVars == <<pa, paSeen, dep, depSeen>>

(* The objects are read from the informer caches and the state is reset    *)
(* for another mode or target.  A compiled query that the cached status    *)
(* does not show is published first, with an update conditional on the     *)
(* resourceVersion of the cached object.  (While the target is missing     *)
(* from the cache the throttle entry is released again: no step.)          *)
Superseded(by, rev) == by = None \/ (by # None /\ by.rev # rev)

Published == paSeen.source = depSeen.uid

Start ==
  /\ pc = "idle"
  /\ paSeen # None
  /\ depSeen.uid # None
  /\ throttle = Interval
  /\ LET spec == paSeen.spec
         kept == StateFor(spec.mode, depSeen.uid)
         born == IF kept = st THEN hist.born ELSE 0
     IN  \/ /\ spec.signal = None
            /\ st' = kept
            /\ throttle' = 0
            /\ hist' = [hist EXCEPT !.born = born]
            /\ UNCHANGED <<pa, pc, snap>>
         \/ /\ spec.signal # None
            /\ ~Published
            /\ pa # paSeen \/ "publish" \in Events
            /\ st' = OnSignal(kept, spec.signal)
            /\ hist' = [hist EXCEPT !.born = born]
            /\ UNCHANGED <<pa, pc, snap, throttle>>
         \/ /\ spec.signal # None
            /\ IF Published
               THEN UNCHANGED pa
               ELSE pa = paSeen /\ pa' = [pa EXCEPT !.source = depSeen.uid]
            /\ st' = OnSignal(kept, spec.signal)
            /\ pc' = "started"
            /\ snap' = [rev |-> paSeen.rev, spec |-> spec,
                        uid |-> depSeen.uid, from |-> depSeen.replicas]
            /\ throttle' = 0
            /\ hist' = [hist EXCEPT !.born = born,
                          !.stale = IF Superseded(pa, paSeen.rev) THEN WriteWindow + 1 ELSE 0]
  /\ UNCHANGED <<paSeen, dep, depSeen, plan>>

(* clearForecastOverride: no usable forecast takes part in this reconcile. *)
(* Mutant: only the streak is dropped.                                     *)
ClearForecastOverrideStreak(ov) == [ov EXCEPT !.streak = 0, !.reEval = 0]

ClearForecastOverride(ov) == NoOverestimate

(* The forecast (slow) and the measurement arrive; overestimate tracking   *)
(* and the unified decision follow from them.                              *)
Decide ==
  /\ pc = "started"
  /\ \E fc \in Forecasts \cup {None}, rate \in Rates \cup {None} :
       /\ fc # None => snap.spec.forecasting /\ snap.spec.capacity > 0
       /\ rate = None => "telemetry" \in Events
       /\ LET spec      == snap.spec
              measured  == rate # None /\ spec.capacity > 0
              rpm       == IF rate = None THEN 0 ELSE rate
              reactive  == IF measured THEN ReplicasFor(rpm, spec.capacity) ELSE 0
              used      == IF fc = None THEN FALSE ELSE ~Diverged(fc.near, rpm)
              predicted == IF used
                           THEN CalculatePredicted(fc.peak, fc.confidence, spec.capacity, spec.min, spec.max)
                           ELSE 0
              adjusted  == IF used
                           THEN AdjustForOverestimation(st.ov, predicted, reactive, st.lastRPM, rpm, fc.ramp)
                           ELSE [ov |-> ClearForecastOverride(st.ov), replicas |-> 0]
          IN  /\ st' = [st EXCEPT !.ov = adjusted.ov, !.lastRPM = rpm]
              /\ plan' = [plan EXCEPT
                   !.desired = UnifiedDesired(adjusted.replicas, reactive, spec.min, spec.max,
                                              snap.from, used, measured),
                   !.floor   = IF measured
                               THEN HeadroomFloor(rpm, spec.capacity, spec.headroom, spec.max)
                               ELSE 0,
                   !.measured = measured,
                   !.forecast = IF ~used THEN "unused"
                                ELSE IF adjusted.replicas = predicted THEN "used" ELSE "capped"]
  /\ pc' = "decided"
  /\ UNCHANGED <<apiVars, throttle, snap, hist>>

(* The coexistence check, then the branch it and the decision lead to.     *)
Proceed(to, bypass) ==
  /\ pc' = "fresh"
  /\ plan' = [plan EXCEPT !.to = to, !.bypass = bypass]
  /\ UNCHANGED <<snap, throttle>>

Recommend ==
  /\ snap.spec.mode = "Recommend"
  /\ Return(FALSE)
  /\ UNCHANGED <<st, hist>>

ConflictHold ==
  /\ snap.spec.mode = "Active"
  /\ "conflict" \in Events
  /\ st' = [st EXCEPT !.below = None]
  /\ Return(FALSE)
  /\ UNCHANGED hist

ScaleUp ==
  /\ snap.spec.mode = "Active"
  /\ plan.desired > snap.from
  /\ Proceed(plan.desired, FALSE)
  /\ UNCHANGED <<st, hist>>

AtTarget ==
  /\ snap.spec.mode = "Active"
  /\ plan.desired = snap.from
  /\ st' = [st EXCEPT !.below = None]
  /\ Return(FALSE)
  /\ UNCHANGED hist

ScaleDown ==
  /\ snap.spec.mode = "Active"
  /\ plan.desired < snap.from
  /\ LET eventual == Larger(plan.desired, plan.floor)
         target   == CalculateScaleDownTarget(st, snap.from, eventual)
     IN  \/ /\ eventual >= snap.from
            /\ st' = [st EXCEPT !.below = None]
            /\ Return(FALSE)
         \/ /\ eventual < snap.from
            /\ st' = [st EXCEPT !.below = BelowTimer(st)]
            /\ IF target < snap.from THEN Proceed(target, st.ov.override) ELSE Return(FALSE)
  /\ UNCHANGED hist

Apply ==
  /\ pc = "decided"
  /\ Recommend \/ ConflictHold \/ ScaleUp \/ AtTarget \/ ScaleDown
  /\ UNCHANGED apiVars

(* write(): the fresh Scale, the identity guard and the update share one   *)
(* timeout.  A call that fails or is late ends the reconcile with          *)
(* ScalingError and leaves the throttle in place.                          *)
InTime == plan.window <= WriteWindow

ScalingError ==
  /\ pc \in {"fresh", "write"}
  /\ "write" \in Events \/ ~InTime \/ dep.uid = None
  /\ Return(FALSE)
  /\ UNCHANGED <<apiVars, st, hist>>

FreshScale ==
  /\ pc = "fresh"
  /\ InTime
  /\ dep.uid # None
  /\ IF dep.uid = snap.uid /\ dep.replicas = snap.from
     THEN /\ pc' = "guard"
          /\ plan' = [plan EXCEPT !.rv = dep.rv]
          /\ UNCHANGED <<snap, throttle>>
     ELSE Return(TRUE)
  /\ UNCHANGED <<apiVars, st, hist>>

(* Mutant: the generation is not compared.                                 *)
AuthorizedAnyGeneration == pa # None /\ pa.spec.mode = "Active" /\ dep.uid = snap.uid

Authorized ==
  /\ pa # None
  /\ pa.rev = snap.rev
  /\ pa.spec.mode = "Active"
  /\ dep.uid = snap.uid

IdentityGuard ==
  /\ pc = "guard"
  /\ \/ /\ Authorized /\ InTime
        /\ pc' = "write"
        /\ UNCHANGED <<snap, plan, throttle>>
     \/ /\ ~Authorized \/ ~InTime \/ "read" \in Events
        /\ Return(FALSE)
  /\ UNCHANGED <<apiVars, st, hist>>

(* Mutant: the update does not carry the resourceVersion.                  *)
UpdateAppliesAnyVersion == dep.uid = snap.uid

(* The conditional update: the API server applies it only to the same      *)
(* object at the resourceVersion of the fresh Scale.                       *)
UpdateApplies == dep.uid = snap.uid /\ dep.rv = plan.rv

ScaledBy(n) ==
  /\ FreshIn(RVs, {plan.rv})
  /\ dep' = [dep EXCEPT !.replicas = n, !.rv = Fresh(RVs, {plan.rv})]
  /\ hist' = IF n > snap.from THEN [hist EXCEPT !.up = 0] ELSE [hist EXCEPT !.down = 0]

WriteScale ==
  /\ pc = "write"
  /\ InTime
  /\ UpdateApplies
  /\ ScaledBy(plan.to)
  /\ st' = IF plan.to > snap.from
           THEN [st EXCEPT !.up = 0, !.below = None]
           ELSE [st EXCEPT !.down = 0, !.ov.override = FALSE]
  /\ Return(FALSE)
  /\ UNCHANGED <<pa, paSeen, depSeen>>

(* The update is applied but its answer is lost: the operator records a    *)
(* ScalingError and no write time.                                         *)
WriteReplyLost ==
  /\ pc = "write"
  /\ InTime
  /\ "lostReply" \in Events
  /\ UpdateApplies
  /\ ScaledBy(plan.to)
  /\ Return(FALSE)
  /\ UNCHANGED <<pa, paSeen, depSeen, st>>

WriteConflict ==
  /\ pc = "write"
  /\ InTime
  /\ dep.uid # None
  /\ ~UpdateApplies
  /\ Return(TRUE)
  /\ UNCHANGED <<apiVars, st, hist>>

-----------------------------------------------------------------------------
(* The environment.                                                        *)
PaRevs == {r \in Revs : \/ paSeen # None /\ paSeen.rev = r
                        \/ snap # None /\ snap.rev = r}

EditAutoscaler ==
  /\ "edit" \in Events
  /\ FreshIn(Revs, PaRevs)
  /\ \E s \in Specs : /\ pa # None => s # pa.spec
                      /\ pa' = [rev |-> Fresh(Revs, PaRevs), spec |-> s, source |-> None]
  /\ UNCHANGED <<paSeen, dep, depSeen, st, throttle, pc, snap, plan, hist>>

DeleteAutoscaler ==
  /\ "delete" \in Events
  /\ pa # None
  /\ pa' = None
  /\ UNCHANGED <<paSeen, dep, depSeen, st, throttle, pc, snap, plan, hist>>

(* Another writer scales the Deployment, or its status moves (replicas     *)
(* unchanged): either way its resourceVersion moves.                       *)
ChangeDeployment ==
  /\ "rescale" \in Events
  /\ dep.uid # None
  /\ FreshIn(RVs, {plan.rv})
  /\ \E n \in Counts \cup {dep.replicas} :
       dep' = [dep EXCEPT !.replicas = n, !.rv = Fresh(RVs, {plan.rv})]
  /\ UNCHANGED <<pa, paSeen, depSeen, st, throttle, pc, snap, plan, hist>>

DepUids == {u \in Uids : \/ u = depSeen.uid
                         \/ snap # None /\ snap.uid = u
                         \/ st # None /\ st.uid = u}

DeleteDeployment ==
  /\ "replace" \in Events
  /\ dep.uid # None
  /\ dep' = [dep EXCEPT !.uid = None, !.replicas = 0]
  /\ UNCHANGED <<pa, paSeen, depSeen, st, throttle, pc, snap, plan, hist>>

CreateDeployment ==
  /\ dep.uid = None
  /\ FreshIn(Uids, DepUids)
  /\ FreshIn(RVs, {plan.rv})
  /\ \E n \in Counts :
       dep' = [uid |-> Fresh(Uids, DepUids), rv |-> Fresh(RVs, {plan.rv}), replicas |-> n]
  /\ UNCHANGED <<pa, paSeen, depSeen, st, throttle, pc, snap, plan, hist>>

SyncAutoscaler ==
  /\ paSeen # pa
  /\ paSeen' = pa
  /\ UNCHANGED <<pa, dep, depSeen, st, throttle, pc, snap, plan, hist>>

SyncDeployment ==
  /\ depSeen # [uid |-> dep.uid, replicas |-> dep.replicas]
  /\ depSeen' = [uid |-> dep.uid, replicas |-> dep.replicas]
  /\ UNCHANGED <<pa, paSeen, dep, st, throttle, pc, snap, plan, hist>>

(* A restart, or leadership moving to another instance: the memory is gone *)
(* and the caches are listed anew.                                         *)
Restart ==
  /\ "restart" \in Events
  /\ st' = None
  /\ pc' = "idle" /\ snap' = None /\ plan' = NoPlan
  /\ throttle' = Interval
  /\ paSeen' = pa
  /\ depSeen' = [uid |-> dep.uid, replicas |-> dep.replicas]
  /\ UNCHANGED <<pa, dep, hist>>

OlderOrNone(age, bound) == IF age = None THEN None ELSE Older(age, bound)

Tick ==
  /\ st' = IF st = None
           THEN None
           ELSE [st EXCEPT !.up = Older(@, Stabilization), !.down = Older(@, Cooldown),
                           !.below = OlderOrNone(@, Stabilization)]
  /\ throttle' = Older(throttle, Interval)
  /\ plan' = IF pc \in {"fresh", "guard", "write"}
             THEN [plan EXCEPT !.window = Older(@, WriteWindow + 1)]
             ELSE plan
  /\ hist' = [hist EXCEPT !.up = Older(@, Stabilization), !.down = Older(@, Cooldown),
                          !.born = Older(@, 2 * Stabilization),
                          !.stale = IF snap # None /\ Superseded(pa, snap.rev)
                                    THEN Older(@, WriteWindow + 1) ELSE 0]
  /\ UNCHANGED <<apiVars, pc, snap>>

-----------------------------------------------------------------------------
Write == WriteScale \/ WriteReplyLost

Reconcile ==
  \/ Start \/ Decide \/ Apply
  \/ FreshScale \/ IdentityGuard \/ ScalingError
  \/ Write \/ WriteConflict

Environment ==
  \/ EditAutoscaler \/ DeleteAutoscaler
  \/ ChangeDeployment \/ DeleteDeployment \/ CreateDeployment
  \/ Restart

Next ==
  \/ Reconcile
  \/ Environment
  \/ SyncAutoscaler \/ SyncDeployment
  \/ Tick

Spec == Init /\ [][Next]_vars

(* The clock and the informers run, the workqueue keeps calling Reconcile  *)
(* (every return requeues), and API calls tried again and again succeed    *)
(* in time now and then.                                                   *)
FairSpec ==
  /\ Spec
  /\ WF_vars(Tick) /\ WF_vars(SyncAutoscaler) /\ WF_vars(SyncDeployment)
  /\ WF_vars(Reconcile)
  /\ SF_vars(FreshScale) /\ SF_vars(IdentityGuard /\ pc' = "write") /\ SF_vars(WriteScale)
-----------------------------------------------------------------------------
(* Every variable has its shape, ages stay within their bounds, a          *)
(* reconcile in progress has a snapshot and a state of its mode, and one   *)
(* that read the Scale holds its resourceVersion.                          *)
PaType == [rev: Revs, spec: Specs, source: Uids \cup {None}]

OvType == [streak: Nat, reEval: Nat, override: BOOLEAN]

StateType ==
  [up: 0..Stabilization, down: 0..Cooldown, below: 0..Stabilization \cup {None},
   ov: OvType, lastRPM: Nat,
   mode: {"Active", "Recommend"}, uid: Uids, signal: Signals \cup {None}]

SnapType == [rev: Revs, spec: Specs, uid: Uids, from: Nat]

PlanType ==
  [desired: Nat, floor: Nat, measured: BOOLEAN, forecast: {"unused", "used", "capped"},
   to: Nat, bypass: BOOLEAN, rv: RVs \cup {None}, window: 0..WriteWindow + 1]

HistType ==
  [up: 0..Stabilization, down: 0..Cooldown, born: 0..2 * Stabilization,
   stale: 0..WriteWindow + 1]

ASSUME NoneIsNoRecord == None \notin PaType \cup StateType \cup SnapType

TypeOK ==
  /\ pa \in PaType \cup {None} /\ paSeen \in PaType \cup {None}
  /\ dep \in [uid: Uids \cup {None}, rv: RVs, replicas: Nat]
  /\ depSeen \in [uid: Uids \cup {None}, replicas: Nat]
  /\ st \in StateType \cup {None}
  /\ throttle \in 0..Interval
  /\ pc \in {"idle", "started", "decided", "fresh", "guard", "write"}
  /\ snap \in SnapType \cup {None}
  /\ plan \in PlanType
  /\ hist \in HistType
  /\ pc = "idle" <=> snap = None
  /\ pc = "idle" => plan = NoPlan
  /\ pc # "idle" => st # None /\ st.mode = snap.spec.mode
  /\ pc \in {"guard", "write"} => plan.rv # None

ScalesDown == Write /\ plan.to < snap.from

(* No lost update: the count the operator replaces is the count, of the    *)
(* same Deployment object, that it decided from, whoever else scaled or    *)
(* replaced the Deployment since (freshScale and the conditional write).   *)
WriteFromDecision == [][Write => dep.uid = snap.uid /\ dep.replicas = snap.from]_vars

(* A spec that was edited, switched out of Active or deleted stops driving *)
(* writes within the write timeout, however stale the informer cache the   *)
(* reconcile started from (identityGuard and scaleWriteTimeout).           *)
SupersededSpecStops == [][Write => hist.stale <= WriteWindow]_vars

(* docs/configuration.md: after a restart, a switch to Active or a         *)
(* re-created target a scale-down waits for both windows, and under the    *)
(* override for the cooldown.                                              *)
FreshStateWaits ==
  [][ScalesDown => hist.born >= IF plan.bypass THEN Cooldown ELSE 2 * Stabilization]_vars

(* docs/configuration.md, the scale-down rules together: "at least 2        *)
(* minutes since the previous scale-down (cooldown)", override or not; none *)
(* within the stabilization window of an applied scale-up, unless the       *)
(* overestimate override skips the hold; and the wait of a fresh state.     *)
(* All of it across restarts, mode switches and re-created targets.         *)
ScaleDownWaits ==
  [][ScalesDown =>
       /\ hist.down >= Cooldown
       /\ ~plan.bypass => hist.up >= Stabilization
       /\ hist.born >= IF plan.bypass THEN Cooldown ELSE 2 * Stabilization]_vars

(* docs/configuration.md: without a measured need the count is held: the   *)
(* operator writes only to bring it within the bounds of the spec.         *)
UnmeasuredHolds ==
  [][Write /\ ~plan.measured =>
       /\ snap.from \notin snap.spec.min..snap.spec.max
       /\ plan.to <= snap.spec.max \/ plan.to < snap.from]_vars

(* A scale-down never passes the headroom floor of the measured rate, the  *)
(* decision or minReplicas, and a scale-up stays within the bounds.        *)
WritesWithinBounds ==
  [][Write => /\ plan.to >= snap.spec.min
              /\ plan.to < snap.from => plan.to >= plan.floor /\ plan.to >= plan.desired
              /\ plan.to > snap.from => plan.to <= snap.spec.max]_vars

(* README: whenever no usable forecast takes part in a reconcile, an       *)
(* override of earlier forecasts no longer skips the holds.                *)
BypassNeedsForecast == [][ScalesDown /\ plan.bypass => plan.forecast # "unused"]_vars

(* Once users, other writers and restarts leave the system alone, an       *)
(* Active autoscaler brings the Deployment to a count between the decision *)
(* for the (then steady) rate and its headroom floor, and keeps it there:  *)
(* no throttle, hold, cooldown or stale cache blocks it for ever.          *)
SettledFor(rate, spec) ==
  LET need == Clamp(ReplicasFor(rate, spec.capacity), spec.min, spec.max)
  IN  need..Larger(need, HeadroomFloor(rate, spec.capacity, spec.headroom, spec.max))

Settles ==
  <>[][~Environment]_vars =>
    <>[](pa # None /\ pa.spec.mode = "Active" /\ dep.uid # None =>
           \E rate \in Rates : dep.replicas \in SettledFor(rate, pa.spec))
=============================================================================
