-------------------------- MODULE ReconcilerProofs --------------------------
(***************************************************************************)
(* Proofs about Reconciler, for all specs, rates, forecasts, windows and   *)
(* kinds of trouble: type correctness, the write-path properties and the   *)
(* scale-down holds.                                                       *)
(***************************************************************************)
EXTENDS Reconciler, TLAPS

(* Most leaves are first-order: Zenon comes first, then the SMT solver.    *)
USE ZenonT(10), SMTT(30)

-----------------------------------------------------------------------------
(* Arithmetic of the decision.                                             *)

(* The rounded-up quotient of naturals is a natural.                       *)
LEMMA CeilDivNat ==
  ASSUME NEW a \in Nat, NEW b \in Nat \ {0}
  PROVE  CeilDiv(a, b) \in Nat
BY DEF CeilDiv

(* A replica count computed from a rate is a natural (boundedReplicas).    *)
LEMMA ReplicasForNat ==
  ASSUME NEW a \in Nat, NEW b \in Nat \ {0}
  PROVE  ReplicasFor(a, b) \in Nat
BY CeilDivNat, SMT DEF ReplicasFor, Smaller, MaxInt32

(* A product of two positive numbers is positive.                          *)
LEMMA ProductPositive ==
  ASSUME NEW a \in Nat \ {0}, NEW b \in Nat \ {0}
  PROVE  a * b \in Nat \ {0}
OBVIOUS

(* The headroom floor is a natural (headroomFloor).                        *)
LEMMA HeadroomFloorNat ==
  ASSUME NEW rpm \in Nat, NEW capacity \in Nat \ {0}, NEW headroom \in 0..99, NEW max \in Nat
  PROVE  HeadroomFloor(rpm, capacity, headroom, max) \in Nat
<1>1. CASE headroom \in 1..99
  <2>1. 100 - headroom \in Nat \ {0}
    BY <1>1
  <2>2. capacity * (100 - headroom) \in Nat \ {0}
    BY <2>1, ProductPositive
  <2>3. 100 * rpm \in Nat
    OBVIOUS
  <2>4. ReplicasFor(100 * rpm, capacity * (100 - headroom)) \in Nat
    BY <2>2, <2>3, ReplicasForNat
  <2>q. QED
    BY <1>1, <2>4 DEF HeadroomFloor, Smaller
<1>2. CASE headroom \notin 1..99
  BY <1>2 DEF HeadroomFloor
<1>q. QED
  BY <1>1, <1>2

(* The predictive term is a natural within the bounds of the spec.         *)
LEMMA PredictedNat ==
  ASSUME NEW peak \in Nat, NEW confidence \in 0..100, NEW capacity \in Nat \ {0},
         NEW min \in Nat, NEW max \in Nat
  PROVE  CalculatePredicted(peak, confidence, capacity, min, max) \in Nat
<1> DEFINE raw == ReplicasFor(peak, capacity)
           num == 100 * min + confidence * (raw - min)
           damped == Smaller(CeilDiv(num, 100), MaxInt32)
<1>1. raw \in Nat
  BY ReplicasForNat
<1>2. num \in Int
  <2> HIDE DEF raw
  <2>q. QED
    BY <1>1
<1>3. damped \in Int
  <2> HIDE DEF num
  <2>q. QED
    BY <1>2, SMT DEF Smaller, CeilDiv, MaxInt32
<1>4. Clamp(raw, min, max) \in Nat /\ Clamp(damped, min, max) \in Nat
  <2> HIDE DEF raw, damped
  <2>q. QED
    BY <1>1, <1>3 DEF Clamp, Larger, Smaller
<1>q. QED
  BY <1>4 DEF CalculatePredicted

(* Overestimate tracking keeps its shape and returns a natural             *)
(* (adjustForOverestimation).                                              *)
LEMMA AdjustType ==
  ASSUME NEW ov \in OvType, NEW predicted \in Nat, NEW reactive \in Nat,
         NEW lastRPM \in Nat, NEW rpm \in Nat, NEW ramp \in BOOLEAN
  PROVE  LET adj == AdjustForOverestimation(ov, predicted, reactive, lastRPM, rpm, ramp)
         IN  adj.ov \in OvType /\ adj.replicas \in Nat
<1> DEFINE streak == IF 10 * predicted > 12 * reactive THEN ov.streak + 1 ELSE 0
           counted == [ov EXCEPT !.streak = streak]
           waiting == [counted EXCEPT !.reEval = @ + 1]
           capped == [counted EXCEPT !.override = TRUE]
<1>1. streak \in Nat
  BY DEF OvType
<1>2. counted \in OvType /\ waiting \in OvType /\ capped \in OvType
  <2>1. counted \in OvType
    <3> HIDE DEF streak
    <3>q. QED
      BY <1>1 DEF OvType
  <2> HIDE DEF counted
  <2>2. waiting \in OvType
    BY <2>1 DEF OvType
  <2>3. capped \in OvType
    BY <2>1 DEF OvType
  <2>q. QED
    BY <2>1, <2>2, <2>3
<1>3. NoOverestimate \in OvType
  BY DEF NoOverestimate, OvType
<1>4. OverestimateCap(reactive) \in Nat
  BY CeilDivNat DEF OverestimateCap
<1> DEFINE skip == reactive = 0 \/ predicted <= reactive \/ RampUp(lastRPM, rpm) \/ ramp
<1>5. AdjustForOverestimation(ov, predicted, reactive, lastRPM, rpm, ramp) =
        IF skip THEN [ov |-> NoOverestimate, replicas |-> predicted]
        ELSE IF streak > MaxStreak
        THEN [ov |-> IF ov.reEval + 1 >= ReEvalInterval THEN NoOverestimate ELSE waiting,
              replicas |-> predicted]
        ELSE IF streak >= StreakRequired /\ OverestimateCap(reactive) < predicted
        THEN [ov |-> capped, replicas |-> OverestimateCap(reactive)]
        ELSE [ov |-> counted, replicas |-> predicted]
  BY Zenon DEF AdjustForOverestimation
<1> HIDE DEF streak, counted, waiting, capped, skip
<1>q. QED
  BY <1>2, <1>3, <1>4, <1>5

(* The decision is a natural (unifiedDesired).                             *)
LEMMA UnifiedNat ==
  ASSUME NEW predicted \in Nat, NEW reactive \in Nat, NEW min \in Nat, NEW max \in Nat,
         NEW current \in Nat, NEW used \in BOOLEAN, NEW measured \in BOOLEAN
  PROVE  UnifiedDesired(predicted, reactive, min, max, current, used, measured) \in Nat
BY DEF UnifiedDesired, Clamp, Larger, Smaller

-----------------------------------------------------------------------------
(* Ages and identities.                                                    *)

(* An age stays within its bound.                                          *)
LEMMA OlderType ==
  ASSUME NEW bound \in Nat, NEW age \in 0..bound
  PROVE  Older(age, bound) \in 0..bound /\ Older(age, bound) >= age
BY DEF Older, Smaller

(* A fresh identity belongs to its pool and is not remembered.             *)
LEMMA FreshMember ==
  ASSUME NEW pool, NEW remembered, FreshIn(pool, remembered)
  PROVE  Fresh(pool, remembered) \in pool /\ Fresh(pool, remembered) \notin remembered
<1>1. \E v : v \in pool \ remembered
  BY DEF FreshIn
<1>q. QED
  BY <1>1, Zenon DEF Fresh
-----------------------------------------------------------------------------
(* Type correctness.                                                       *)

(* A state read or reset for a mode and a target has its shape, that mode  *)
(* and that target (getOrCreateScaleState and the resets of Reconcile).    *)
LEMMA StateForType ==
  ASSUME st \in StateType \cup {None}, NEW mode \in {"Active", "Recommend"}, NEW uid \in Uids,
         NEW signal \in Signals \cup {None}
  PROVE  /\ StateFor(mode, uid) \in StateType
         /\ StateFor(mode, uid).mode = mode
         /\ OnSignal(StateFor(mode, uid), signal) \in StateType
         /\ OnSignal(StateFor(mode, uid), signal).mode = mode
<1>1. NoOverestimate \in OvType
  BY DEF NoOverestimate, OvType
<1>2. FreshState(mode, uid) \in StateType /\ FreshState(mode, uid).mode = mode
  <2>1. Stabilization \in Nat /\ Cooldown \in Nat
    BY ReconcilerConstants
  <2>q. QED
    BY <1>1, <2>1 DEF FreshState, StateType
<1>3. StateFor(mode, uid) \in StateType /\ StateFor(mode, uid).mode = mode
  BY <1>2 DEF StateFor
<1>4. ASSUME NEW s \in StateType
      PROVE  OnSignal(s, signal) \in StateType /\ OnSignal(s, signal).mode = s.mode
  BY <1>1 DEF OnSignal, StateType
<1>q. QED
  BY <1>3, <1>4

LEMMA InitType == Init => TypeOK
<1> SUFFICES ASSUME Init PROVE TypeOK
  OBVIOUS
<1>1. FreshIn(Revs, {}) /\ FreshIn(Uids, {}) /\ FreshIn(RVs, {})
  BY ReconcilerConstants DEF FreshIn
<1>2. Fresh(Revs, {}) \in Revs /\ Fresh(Uids, {}) \in Uids /\ Fresh(RVs, {}) \in RVs
  BY <1>1, FreshMember
<1>q. QED
  BY <1>2, ReconcilerConstants
  DEF Init, TypeOK, PaType, NoPlan, PlanType, InitHist, HistType

(* A reconcile that returns leaves nothing behind but the throttle entry.  *)
LEMMA ReturnType ==
  ASSUME TypeOK, NEW released \in BOOLEAN, Return(released)
  PROVE  /\ pc' = "idle" /\ snap' = None /\ plan' = NoPlan
         /\ plan' \in PlanType /\ throttle' \in 0..Interval
BY ReconcilerConstants DEF TypeOK, Return, NoPlan, PlanType

(* A state with one field replaced is a state.                             *)
LEMMA StateFields ==
  ASSUME NEW s \in StateType
  PROVE  /\ \A x \in 0..Stabilization : [s EXCEPT !.up = x] \in StateType
         /\ \A x \in 0..Cooldown : [s EXCEPT !.down = x] \in StateType
         /\ \A x \in 0..Stabilization \cup {None} : [s EXCEPT !.below = x] \in StateType
         /\ \A x \in OvType : [s EXCEPT !.ov = x] \in StateType
         /\ \A x \in Nat : [s EXCEPT !.lastRPM = x] \in StateType
BY DEF StateType

(* The updates of the state by the apply branches keep its shape.          *)
LEMMA StateUpdates ==
  ASSUME NEW s \in StateType
  PROVE  /\ [s EXCEPT !.below = None] \in StateType
         /\ [s EXCEPT !.up = 0, !.below = None] \in StateType
         /\ [s EXCEPT !.down = 0, !.ov.override = FALSE] \in StateType
         /\ BelowTimer(s) \in 0..Stabilization \cup {None}
         /\ [s EXCEPT !.below = BelowTimer(s)] \in StateType
<1>1. Stabilization \in Nat /\ Cooldown \in Nat
  BY ReconcilerConstants
<1>2. [s EXCEPT !.below = None] \in StateType
  BY StateFields
<1>3. [s EXCEPT !.up = 0, !.below = None] \in StateType
  <2>1. [s EXCEPT !.up = 0, !.below = None] = [[s EXCEPT !.up = 0] EXCEPT !.below = None]
    OBVIOUS
  <2>2. [s EXCEPT !.up = 0] \in StateType
    BY <1>1, StateFields
  <2>q. QED
    BY <2>1, <2>2, StateFields
<1>4. [s EXCEPT !.down = 0, !.ov.override = FALSE] \in StateType
  <2> DEFINE t == [s EXCEPT !.down = 0]
  <2>1. t \in StateType
    BY <1>1, StateFields
  <2>2. [t.ov EXCEPT !.override = FALSE] \in OvType
    BY <2>1 DEF StateType, OvType
  <2>3. [s EXCEPT !.down = 0, !.ov.override = FALSE]
          = [t EXCEPT !.ov = [t.ov EXCEPT !.override = FALSE]]
    OBVIOUS
  <2>q. QED
    BY <2>1, <2>2, <2>3, StateFields
<1>5. BelowTimer(s) \in 0..Stabilization \cup {None}
  BY <1>1 DEF StateType, BelowTimer
<1>6. [s EXCEPT !.below = BelowTimer(s)] \in StateType
  BY <1>5, StateFields
<1>q. QED
  BY <1>2, <1>3, <1>4, <1>5, <1>6

(* An applied write keeps the types of the Deployment and the history.     *)
LEMMA ScaledByType ==
  ASSUME TypeOK, NEW n \in Nat, ScaledBy(n)
  PROVE  dep' \in [uid: Uids \cup {None}, rv: RVs, replicas: Nat] /\ hist' \in HistType
<1>1. Stabilization \in Nat /\ Cooldown \in Nat
  BY ReconcilerConstants
<1>2. Fresh(RVs, {plan.rv}) \in RVs
  BY FreshMember DEF ScaledBy
<1>3. dep' \in [uid: Uids \cup {None}, rv: RVs, replicas: Nat]
  BY <1>2 DEF ScaledBy, TypeOK
<1>4. hist' \in HistType
  BY <1>1 DEF ScaledBy, TypeOK, HistType
<1>q. QED
  BY <1>3, <1>4

(* The decision keeps the types of the state and the plan; it lies within  *)
(* the bounds of the spec, holds the current count without a measurement,  *)
(* and leaves an override only where a forecast was used.                  *)
LEMMA DecideEffect ==
  ASSUME TypeOK, Decide
  PROVE  /\ TypeOK'
         /\ plan'.desired \in snap.spec.min..snap.spec.max
         /\ plan'.measured \/ plan'.desired = Clamp(snap.from, snap.spec.min, snap.spec.max)
         /\ ~st'.ov.override \/ plan'.forecast # "unused"
<1> DEFINE spec == snap.spec
<1>1. /\ snap \in SnapType /\ st \in StateType /\ st.mode = snap.spec.mode /\ plan \in PlanType
      /\ spec \in SpecType /\ spec.min <= spec.max
  BY ReconcilerConstants DEF TypeOK, Decide, SnapType
<1>2. PICK fc \in Forecasts \cup {None}, rate \in Rates \cup {None} :
        Decide!2!(fc, rate)
  BY DEF Decide
<1> DEFINE measured  == rate # None /\ spec.capacity > 0
           rpm       == IF rate = None THEN 0 ELSE rate
           reactive  == IF measured THEN ReplicasFor(rpm, spec.capacity) ELSE 0
           used      == IF fc = None THEN FALSE ELSE ~Diverged(fc.near, rpm)
           predicted == IF used
                        THEN CalculatePredicted(fc.peak, fc.confidence, spec.capacity, spec.min, spec.max)
                        ELSE 0
           adjusted  == IF used
                        THEN AdjustForOverestimation(st.ov, predicted, reactive, st.lastRPM, rpm, fc.ramp)
                        ELSE [ov |-> ClearForecastOverride(st.ov), replicas |-> 0]
           desired   == UnifiedDesired(adjusted.replicas, reactive, spec.min, spec.max,
                                       snap.from, used, measured)
           floor     == IF measured
                        THEN HeadroomFloor(rpm, spec.capacity, spec.headroom, spec.max)
                        ELSE 0
           label     == IF ~used THEN "unused"
                        ELSE IF adjusted.replicas = predicted THEN "used" ELSE "capped"
<1>3. /\ st' = [st EXCEPT !.ov = adjusted.ov, !.lastRPM = rpm]
      /\ plan' = [plan EXCEPT !.desired = desired, !.floor = floor, !.measured = measured,
                              !.forecast = label]
      /\ fc # None => spec.capacity > 0
  BY <1>2
<1>4. rpm \in Nat /\ measured \in BOOLEAN /\ used \in BOOLEAN
  BY ReconcilerConstants
<1>5. spec.capacity \in Nat /\ spec.min \in Nat /\ spec.max \in Nat /\ spec.headroom \in 0..99
  BY <1>1 DEF SpecType
<1>6. reactive \in Nat
  <2> HIDE DEF rpm
  <2>q. QED
    BY <1>4, <1>5, ReplicasForNat
<1>7. used => fc \in ForecastType /\ spec.capacity \in Nat \ {0}
  BY <1>3, <1>5, ReconcilerConstants
<1>8. predicted \in Nat
  <2> HIDE DEF used
  <2>q. QED
    BY <1>5, <1>7, PredictedNat DEF ForecastType
<1>9. adjusted.ov \in OvType /\ adjusted.replicas \in Nat
  <2>1. st.ov \in OvType /\ st.lastRPM \in Nat
    BY <1>1 DEF StateType
  <2>2. NoOverestimate \in OvType
    BY DEF NoOverestimate, OvType
  <2> HIDE DEF used, predicted, reactive, rpm
  <2>3. CASE used
    <3>1. fc.ramp \in BOOLEAN
      BY <1>7, <2>3 DEF ForecastType
    <3>q. QED
      BY <1>4, <1>6, <1>8, <2>1, <2>3, <3>1, AdjustType
  <2>4. CASE ~used
    BY <2>2, <2>4 DEF ClearForecastOverride
  <2>q. QED
    BY <2>3, <2>4
<1>10. desired \in Nat
  <2> HIDE DEF adjusted, reactive, used, measured
  <2>1. snap.from \in Nat
    BY <1>1 DEF SnapType
  <2>q. QED
    BY <1>4, <1>5, <1>6, <1>9, <2>1, UnifiedNat
<1>11. floor \in Nat
  <2>1. measured => spec.capacity \in Nat \ {0}
    BY <1>5
  <2> HIDE DEF rpm, measured
  <2>q. QED
    BY <1>4, <1>5, <2>1, HeadroomFloorNat
<1>12. label \in {"unused", "used", "capped"} /\ (used => label # "unused")
  OBVIOUS
<1>13. desired \in spec.min..spec.max
  <2> HIDE DEF adjusted, reactive, used, measured
  <2>1. snap.from \in Nat
    BY <1>1 DEF SnapType
  <2>q. QED
    BY <1>1, <1>4, <1>5, <1>6, <1>9, <2>1 DEF UnifiedDesired, Clamp, Larger, Smaller
<1>14. measured \/ desired = Clamp(snap.from, spec.min, spec.max)
  <2> HIDE DEF adjusted, reactive, used, measured
  <2>q. QED
    BY DEF UnifiedDesired
<1>15. used \/ ~adjusted.ov.override
  <2> HIDE DEF used
  <2>q. QED
    BY DEF ClearForecastOverride, NoOverestimate
<1> HIDE DEF measured, rpm, reactive, used, predicted, adjusted, desired, floor, label
<1>16. st' \in StateType /\ st'.mode = st.mode /\ st'.ov = adjusted.ov
  <2> DEFINE t == [st EXCEPT !.ov = adjusted.ov]
  <2>1. t \in StateType /\ t.mode = st.mode /\ t.ov = adjusted.ov
    BY <1>1, <1>9, StateFields DEF StateType
  <2>2. st' = [t EXCEPT !.lastRPM = rpm]
    BY <1>3
  <2> HIDE DEF t
  <2>q. QED
    BY <1>4, <2>1, <2>2, StateFields DEF StateType
<1>17. plan' \in PlanType
  <2> DEFINE p == [plan EXCEPT !.desired = desired]
             q == [p EXCEPT !.floor = floor]
             r == [q EXCEPT !.measured = measured]
  <2>1. p \in PlanType
    BY <1>1, <1>10 DEF PlanType
  <2>2. plan' = [r EXCEPT !.forecast = label]
    BY <1>3
  <2> HIDE DEF p
  <2>3. q \in PlanType
    BY <2>1, <1>11 DEF PlanType
  <2> HIDE DEF q
  <2>4. r \in PlanType
    BY <2>3, <1>4 DEF PlanType
  <2> HIDE DEF r
  <2>q. QED
    BY <1>12, <2>2, <2>4 DEF PlanType
<1>18. pc' = "decided" /\ UNCHANGED <<pa, paSeen, dep, depSeen, throttle, snap, hist>>
  BY DEF Decide, apiVars
<1>19. snap # None
  BY DEF TypeOK, Decide
<1>20. /\ pa' \in PaType \cup {None} /\ paSeen' \in PaType \cup {None}
       /\ dep' \in [uid: Uids \cup {None}, rv: RVs, replicas: Nat]
       /\ depSeen' \in [uid: Uids \cup {None}, replicas: Nat]
       /\ throttle' \in 0..Interval /\ snap' \in SnapType /\ hist' \in HistType
  BY <1>1, <1>18 DEF TypeOK
<1>21. pc' # "idle" /\ pc' \notin {"guard", "write"} /\ snap' # None /\ st' # None
  BY <1>16, <1>18, <1>19, NoneIsNoRecord
<1>22. st'.mode = snap'.spec.mode
  BY <1>1, <1>16, <1>18
<1>23. TypeOK'
  BY <1>16, <1>17, <1>18, <1>20, <1>21, <1>22 DEF TypeOK
<1>24. plan'.desired = desired /\ plan'.measured = measured /\ plan'.forecast = label
  BY <1>1, <1>3 DEF PlanType
<1>q. QED
  BY <1>12, <1>16, <1>13, <1>14, <1>15, <1>23, <1>24

(* A returning step that changes neither the objects nor the mode of the   *)
(* state keeps the types.                                                  *)
LEMMA ReturnKeepsType ==
  ASSUME TypeOK, NEW released \in BOOLEAN, Return(released),
         UNCHANGED <<pa, paSeen, depSeen>>, st' \in StateType \cup {None},
         dep' \in [uid: Uids \cup {None}, rv: RVs, replicas: Nat], hist' \in HistType
  PROVE  TypeOK'
<1>1. /\ pc' = "idle" /\ snap' = None /\ plan' = NoPlan
      /\ plan' \in PlanType /\ throttle' \in 0..Interval
  BY ReturnType
<1>q. QED
  BY <1>1 DEF TypeOK

(* The apply branches keep the types.                                      *)
LEMMA ApplyType == TypeOK /\ Apply => TypeOK'
<1> SUFFICES ASSUME TypeOK, Apply PROVE TypeOK'
  OBVIOUS
<1>1. /\ snap \in SnapType /\ snap # None /\ st \in StateType /\ st # None
      /\ st.mode = snap.spec.mode
      /\ plan \in PlanType /\ hist \in HistType
      /\ dep \in [uid: Uids \cup {None}, rv: RVs, replicas: Nat]
  BY DEF TypeOK, Apply
<1>2. UNCHANGED <<pa, paSeen, dep, depSeen>>
  BY DEF Apply, apiVars
<1>3. /\ [st EXCEPT !.below = None] \in StateType
      /\ [st EXCEPT !.below = BelowTimer(st)] \in StateType
      /\ [st EXCEPT !.below = BelowTimer(st)].mode = st.mode
  BY <1>1, StateUpdates DEF StateType
<1>5. ASSUME NEW to \in Nat, NEW b \in BOOLEAN, Proceed(to, b),
             st' \in StateType, st'.mode = st.mode, hist' \in HistType
      PROVE  TypeOK'
  <2>1. pc' = "fresh" /\ UNCHANGED <<snap, throttle>> /\ plan' = [plan EXCEPT !.to = to, !.bypass = b]
    BY <1>5 DEF Proceed
  <2>2. plan' \in PlanType
    <3>1. [plan EXCEPT !.to = to] \in PlanType
      BY <1>1 DEF PlanType
    <3>2. plan' = [[plan EXCEPT !.to = to] EXCEPT !.bypass = b]
      BY <2>1
    <3>q. QED
      BY <3>1, <3>2 DEF PlanType
  <2>3. st' # None
    BY <1>5, NoneIsNoRecord
  <2>q. QED
    BY <1>1, <1>2, <1>5, <2>1, <2>2, <2>3 DEF TypeOK
<1>6. CASE Recommend
  BY <1>1, <1>2, <1>6, ReturnKeepsType DEF Recommend
<1>7. CASE ConflictHold
  BY <1>1, <1>2, <1>3, <1>7, ReturnKeepsType DEF ConflictHold
<1>8. CASE ScaleUp
  <2>1. plan.desired \in Nat
    BY <1>1 DEF PlanType
  <2>2. hist' \in HistType
    BY <1>1, <1>8 DEF ScaleUp
  <2>q. QED
    BY <1>1, <1>5, <1>8, <2>1, <2>2 DEF ScaleUp
<1>9. CASE AtTarget
  BY <1>1, <1>2, <1>3, <1>9, ReturnKeepsType DEF AtTarget
<1>10. CASE ScaleDown
  <2> DEFINE eventual == Larger(plan.desired, plan.floor)
             target   == CalculateScaleDownTarget(st, snap.from, eventual)
  <2>1. hist' \in HistType
    BY <1>1, <1>10 DEF ScaleDown
  <2>2. CASE eventual >= snap.from /\ st' = [st EXCEPT !.below = None] /\ Return(FALSE)
    BY <1>1, <1>2, <1>3, <2>1, <2>2, ReturnKeepsType
  <2>3. CASE st' = [st EXCEPT !.below = BelowTimer(st)] /\ Return(FALSE)
    BY <1>1, <1>2, <1>3, <2>1, <2>3, ReturnKeepsType
  <2>4. CASE st' = [st EXCEPT !.below = BelowTimer(st)] /\ Proceed(target, st.ov.override)
    <3>1. target \in Nat
      BY <1>1, ReconcilerConstants, RuleConstants
      DEF SnapType, PlanType, CalculateScaleDownTarget, ScaleDownStep, Larger, CeilDiv
    <3>2. st.ov.override \in BOOLEAN
      BY <1>1 DEF StateType, OvType
    <3>q. QED
      BY <1>3, <1>5, <2>1, <2>4, <3>1, <3>2
  <2>q. QED
    BY <1>10, <2>2, <2>3, <2>4 DEF ScaleDown
<1>q. QED
  BY <1>6, <1>7, <1>8, <1>9, <1>10 DEF Apply

(* The first reads keep the types.                                         *)
LEMMA StartType == TypeOK /\ Start => TypeOK'
<1> SUFFICES ASSUME TypeOK, Start PROVE TypeOK'
  OBVIOUS
<1> DEFINE spec == paSeen.spec
           kept == StateFor(spec.mode, depSeen.uid)
           sig  == OnSignal(kept, spec.signal)
           born == IF kept = st THEN hist.born ELSE 0
<1>1. /\ paSeen \in PaType /\ spec \in Specs /\ spec \in SpecType /\ depSeen.uid \in Uids
      /\ depSeen.replicas \in Nat /\ paSeen.rev \in Revs
  BY ReconcilerConstants DEF TypeOK, Start, PaType
<1>2. /\ kept \in StateType /\ kept.mode = spec.mode
      /\ sig \in StateType /\ sig.mode = spec.mode
  BY <1>1, StateForType DEF TypeOK, SpecType
<1>3. born \in 0..2 * Stabilization /\ hist \in HistType
  BY ReconcilerConstants DEF TypeOK, HistType
<1>4. [hist EXCEPT !.born = born] \in HistType
  <2> HIDE DEF born
  <2>q. QED
    BY <1>3 DEF HistType
<1>5. UNCHANGED <<paSeen, dep, depSeen, plan>> /\ pc = "idle"
  BY DEF Start
<1> HIDE DEF kept, sig, born
<1>6. CASE /\ st' \in {kept, sig} /\ throttle' \in {0, throttle}
           /\ hist' = [hist EXCEPT !.born = born] /\ UNCHANGED <<pa, pc, snap>>
  BY <1>2, <1>4, <1>5, <1>6, ReconcilerConstants DEF TypeOK
<1>7. CASE /\ IF Published THEN UNCHANGED pa
              ELSE pa = paSeen /\ pa' = [pa EXCEPT !.source = depSeen.uid]
           /\ st' = sig /\ pc' = "started" /\ throttle' = 0
           /\ snap' = [rev |-> paSeen.rev, spec |-> spec,
                       uid |-> depSeen.uid, from |-> depSeen.replicas]
           /\ hist' = [hist EXCEPT !.born = born,
                         !.stale = IF Superseded(pa, paSeen.rev) THEN WriteWindow + 1 ELSE 0]
  <2>1. pa' \in PaType \cup {None}
    BY <1>1, <1>7 DEF TypeOK, PaType
  <2>2. hist' \in HistType
    <3> DEFINE stale == IF Superseded(pa, paSeen.rev) THEN WriteWindow + 1 ELSE 0
    <3>1. stale \in 0..WriteWindow + 1
      BY ReconcilerConstants
    <3>2. hist' = [[hist EXCEPT !.born = born] EXCEPT !.stale = stale]
      BY <1>7
    <3> HIDE DEF stale
    <3>q. QED
      BY <1>4, <3>1, <3>2 DEF HistType
  <2>3. snap' \in SnapType /\ snap' # None /\ snap'.spec = spec
    BY <1>1, <1>7, NoneIsNoRecord DEF SnapType
  <2>4. st' \in StateType /\ st' # None /\ st'.mode = spec.mode
    BY <1>2, <1>7, NoneIsNoRecord
  <2>q. QED
    BY <1>5, <1>7, <2>1, <2>2, <2>3, <2>4, ReconcilerConstants DEF TypeOK
<1>q. QED
  BY <1>6, <1>7 DEF Start, kept, sig, born

(* The clock keeps the types: every age saturates at its bound.            *)
LEMMA TickType == TypeOK /\ Tick => TypeOK'
<1> SUFFICES ASSUME TypeOK, Tick PROVE TypeOK'
  OBVIOUS
<1>1. /\ Stabilization \in Nat /\ Cooldown \in Nat /\ Interval \in Nat
      /\ WriteWindow + 1 \in Nat /\ 2 * Stabilization \in Nat /\ None \notin Nat
  BY ReconcilerConstants
<1>2. st' \in StateType \cup {None} /\ (st # None => st' # None /\ st'.mode = st.mode)
  <2>1. CASE st = None
    BY <2>1 DEF Tick
  <2>2. CASE st # None
    <3> DEFINE t == [st EXCEPT !.up = Older(@, Stabilization)]
               u == [t EXCEPT !.down = Older(@, Cooldown)]
               v == [u EXCEPT !.below = OlderOrNone(@, Stabilization)]
    <3>1. st \in StateType
      BY <2>2 DEF TypeOK
    <3>2. t \in StateType /\ t.mode = st.mode
      BY <1>1, <3>1, OlderType DEF StateType
    <3>3. st' = v
      BY <2>2 DEF Tick
    <3> HIDE DEF t
    <3>4. u \in StateType /\ u.mode = st.mode
      BY <1>1, <3>2, OlderType DEF StateType
    <3> HIDE DEF u
    <3>5. OlderOrNone(u.below, Stabilization) \in 0..Stabilization \cup {None}
      BY <1>1, <3>4, OlderType DEF OlderOrNone, StateType
    <3>6. v \in StateType /\ v.mode = st.mode
      BY <3>4, <3>5 DEF StateType
    <3>q. QED
      BY <3>3, <3>6, NoneIsNoRecord
  <2>q. QED
    BY <2>1, <2>2
<1>3. throttle' \in 0..Interval
  BY <1>1, OlderType DEF Tick, TypeOK
<1>4. plan' \in PlanType /\ plan'.rv = plan.rv /\ (pc = "idle" => plan' = plan)
  BY <1>1, OlderType DEF Tick, TypeOK, PlanType
<1>5. hist' \in HistType
  <2> DEFINE stale == IF snap # None /\ Superseded(pa, snap.rev)
                      THEN Older(hist.stale, WriteWindow + 1) ELSE 0
             h1 == [hist EXCEPT !.up = Older(@, Stabilization)]
             h2 == [h1 EXCEPT !.down = Older(@, Cooldown)]
             h3 == [h2 EXCEPT !.born = Older(@, 2 * Stabilization)]
  <2>1. stale \in 0..WriteWindow + 1
    <3>1. hist.stale \in 0..WriteWindow + 1
      BY DEF TypeOK, HistType
    <3>2. Older(hist.stale, WriteWindow + 1) \in 0..WriteWindow + 1
      BY <1>1, <3>1, OlderType
    <3>q. QED
      BY <1>1, <3>2
  <2>2. h1 \in HistType
    BY <1>1, OlderType DEF TypeOK, HistType
  <2>3. hist' = [h3 EXCEPT !.stale = stale]
    BY DEF Tick
  <2> HIDE DEF h1, stale
  <2>4. h2 \in HistType
    BY <1>1, <2>2, OlderType DEF HistType
  <2> HIDE DEF h2
  <2>5. h3 \in HistType
    BY <1>1, <2>4, OlderType DEF HistType
  <2> HIDE DEF h3
  <2>q. QED
    BY <2>1, <2>3, <2>5 DEF HistType
<1>6. UNCHANGED <<pa, paSeen, dep, depSeen, pc, snap>>
  BY DEF Tick, apiVars
<1>q. QED
  BY <1>2, <1>3, <1>4, <1>5, <1>6 DEF TypeOK

(* Every step of the reconcile and of its surroundings keeps the types.    *)
LEMMA NextType == TypeOK /\ [Next]_vars => TypeOK'
<1> SUFFICES ASSUME TypeOK, [Next]_vars PROVE TypeOK'
  OBVIOUS
<1> DEFINE DepType == [uid: Uids \cup {None}, rv: RVs, replicas: Nat]
<1>0. pc # "idle" => snap \in SnapType /\ st \in StateType
  BY DEF TypeOK
<1>1. CASE Start
  BY <1>1, StartType
<1>2. CASE Decide
  BY <1>2, DecideEffect
<1>3. CASE Apply
  BY <1>3, ApplyType
<1>4. CASE FreshScale
  <2>1. CASE Return(TRUE)
    BY <1>4, <2>1, ReturnKeepsType DEF FreshScale, apiVars, TypeOK
  <2>2. CASE pc' = "guard" /\ plan' = [plan EXCEPT !.rv = dep.rv] /\ UNCHANGED <<snap, throttle>>
    <3>1. plan' \in PlanType /\ plan'.rv # None
      BY <2>2, ReconcilerConstants DEF TypeOK, PlanType
    <3>q. QED
      BY <1>4, <2>2, <3>1 DEF FreshScale, apiVars, TypeOK
  <2>q. QED
    BY <1>4, <2>1, <2>2 DEF FreshScale
<1>5. CASE IdentityGuard
  <2>1. CASE Return(FALSE)
    BY <1>5, <2>1, ReturnKeepsType DEF IdentityGuard, apiVars, TypeOK
  <2>2. CASE pc' = "write" /\ UNCHANGED <<snap, plan, throttle>>
    BY <1>5, <2>2 DEF IdentityGuard, apiVars, TypeOK
  <2>q. QED
    BY <1>5, <2>1, <2>2 DEF IdentityGuard
<1>6. CASE ScalingError
  BY <1>6, ReturnKeepsType DEF ScalingError, apiVars, TypeOK
<1>7. CASE WriteScale
  <2>1. plan.to \in Nat
    BY DEF TypeOK, PlanType
  <2>2. dep' \in DepType /\ hist' \in HistType
    BY <1>7, <2>1, ScaledByType DEF WriteScale
  <2>3. st' \in StateType
    BY <1>0, <1>7, StateUpdates DEF WriteScale
  <2>q. QED
    BY <1>7, <2>2, <2>3, ReturnKeepsType DEF WriteScale
<1>8. CASE WriteReplyLost
  <2>1. plan.to \in Nat
    BY DEF TypeOK, PlanType
  <2>2. dep' \in DepType /\ hist' \in HistType
    BY <1>8, <2>1, ScaledByType DEF WriteReplyLost
  <2>q. QED
    BY <1>8, <2>2, ReturnKeepsType DEF WriteReplyLost, TypeOK
<1>9. CASE WriteConflict
  BY <1>9, ReturnKeepsType DEF WriteConflict, apiVars, TypeOK
<1>10. CASE EditAutoscaler
  BY <1>10, FreshMember DEF EditAutoscaler, PaType, TypeOK
<1>11. CASE DeleteAutoscaler
  BY <1>11 DEF DeleteAutoscaler, TypeOK
<1>12. CASE ChangeDeployment
  <2>1. Fresh(RVs, {plan.rv}) \in RVs
    BY <1>12, FreshMember DEF ChangeDeployment
  <2>2. dep' \in DepType
    BY <1>12, <2>1, ReconcilerConstants DEF ChangeDeployment, TypeOK
  <2>q. QED
    BY <1>12, <2>2 DEF ChangeDeployment, TypeOK
<1>13. CASE DeleteDeployment
  BY <1>13 DEF DeleteDeployment, TypeOK
<1>14. CASE CreateDeployment
  <2>1. Fresh(RVs, {plan.rv}) \in RVs /\ Fresh(Uids, DepUids) \in Uids
    BY <1>14, FreshMember DEF CreateDeployment
  <2>2. dep' \in DepType
    BY <1>14, <2>1, ReconcilerConstants DEF CreateDeployment
  <2>q. QED
    BY <1>14, <2>2 DEF CreateDeployment, TypeOK
<1>15. CASE Restart
  BY <1>15, ReconcilerConstants DEF Restart, NoPlan, PlanType, TypeOK
<1>16. CASE SyncAutoscaler
  BY <1>16 DEF SyncAutoscaler, TypeOK
<1>17. CASE SyncDeployment
  BY <1>17 DEF SyncDeployment, TypeOK
<1>18. CASE Tick
  BY <1>18, TickType
<1>19. CASE UNCHANGED vars
  BY <1>19 DEF vars, TypeOK
<1>q. QED
  BY <1>1, <1>2, <1>3, <1>4, <1>5, <1>6, <1>7, <1>8, <1>9, <1>10, <1>11, <1>12,
     <1>13, <1>14, <1>15, <1>16, <1>17, <1>18, <1>19
  DEF Next, Reconcile, Environment, Write

(* Type correctness of the reconciler: in particular a reconcile that      *)
(* reached the identity guard holds the resourceVersion its update will be *)
(* conditional on, and works on a state of the mode it read.               *)
THEOREM TypeCorrect == Spec => []TypeOK
BY InitType, NextType, PTL DEF Spec

-----------------------------------------------------------------------------
(* The write-path properties and the scale-down holds.  Each rests on one  *)
(* of the inductive invariants below, which TLC also confirms on the       *)
(* instances of MCReconciler.                                              *)

(* A Deployment still at the resourceVersion of the fresh Scale has the    *)
(* count the decision started from.                                        *)
VersionInv ==
  pc \in {"guard", "write"} /\ dep.uid = snap.uid /\ dep.rv = plan.rv => dep.replicas = snap.from

(* Until a newer spec exists nothing is superseded, and past the identity  *)
(* guard the age of a superseding spec is bounded by the age of the write. *)
StaleInv ==
  /\ pc # "idle" /\ ~Superseded(pa, snap.rev) => hist.stale = 0
  /\ pc = "write" => hist.stale <= plan.window

-----------------------------------------------------------------------------
(* What the apply branches leave alone, and what they plan: a return, or a *)
(* write towards the decision, or a step down that no hold blocks.         *)
LEMMA ApplyEffect ==
  ASSUME TypeOK, Apply
  PROVE  /\ UNCHANGED <<pa, paSeen, dep, depSeen>>
         /\ hist'.up = hist.up /\ hist'.down = hist.down
         /\ hist'.born = hist.born /\ hist'.stale = hist.stale
         /\ st'.up = st.up /\ st'.down = st.down /\ st'.mode = st.mode
         /\ \/ st'.below \in {st.below, None}
            \/ st'.below = 0 /\ st.up >= Stabilization
         /\ \/ pc' = "idle"
            \/ /\ pc' = "fresh" /\ snap' = snap /\ snap.spec.mode = "Active"
               /\ plan' = [plan EXCEPT !.to = plan'.to, !.bypass = plan'.bypass]
               /\ \/ plan'.to = plan.desired /\ plan.desired > snap.from /\ ~plan'.bypass
                  \/ /\ plan'.to < snap.from /\ plan.desired < snap.from
                     /\ plan'.to >= plan.desired /\ plan'.to >= plan.floor
                     /\ ~CoolingDown(st) /\ ~Held(st) /\ plan'.bypass = st.ov.override
<1>1. /\ snap \in SnapType /\ st \in StateType /\ plan \in PlanType /\ hist \in HistType
  BY DEF TypeOK, Apply
<1>2. UNCHANGED <<pa, paSeen, dep, depSeen>>
  BY DEF Apply, apiVars
<1>3. ASSUME NEW to \in Nat, NEW b \in BOOLEAN, Proceed(to, b)
      PROVE  /\ pc' = "fresh" /\ snap' = snap /\ plan'.to = to /\ plan'.bypass = b
             /\ plan' = [plan EXCEPT !.to = plan'.to, !.bypass = plan'.bypass]
  BY <1>1, <1>3 DEF Proceed, PlanType
<1>4. CASE Recommend \/ ConflictHold \/ AtTarget
  BY <1>1, <1>2, <1>4 DEF Recommend, ConflictHold, AtTarget, Return, StateType
<1>5. CASE ScaleUp
  <2>1. plan.desired \in Nat /\ Proceed(plan.desired, FALSE)
    BY <1>1, <1>5 DEF PlanType, ScaleUp
  <2>2. hist'.up = hist.up /\ hist'.down = hist.down /\ hist'.born = hist.born
        /\ hist'.stale = hist.stale /\ st' = st
    BY <1>1, <1>5 DEF ScaleUp, HistType
  <2>q. QED
    BY <1>2, <1>3, <1>5, <2>1, <2>2 DEF ScaleUp
<1>6. CASE ScaleDown
  <2> DEFINE eventual == Larger(plan.desired, plan.floor)
             target   == CalculateScaleDownTarget(st, snap.from, eventual)
  <2>1. hist'.up = hist.up /\ hist'.down = hist.down /\ hist'.born = hist.born
        /\ hist'.stale = hist.stale
    BY <1>1, <1>6 DEF ScaleDown, HistType
  <2>2. \/ st' = [st EXCEPT !.below = None]
        \/ st' = [st EXCEPT !.below = BelowTimer(st)]
    BY <1>6 DEF ScaleDown
  <2>3. /\ st'.up = st.up /\ st'.down = st.down /\ st'.mode = st.mode
        /\ \/ st'.below \in {st.below, None}
           \/ st'.below = 0 /\ st.up >= Stabilization
    BY <1>1, <2>2 DEF StateType, BelowTimer
  <2>4. CASE Return(FALSE)
    BY <1>2, <2>1, <2>3, <2>4 DEF Return
  <2>5. CASE Proceed(target, st.ov.override) /\ target < snap.from /\ eventual < snap.from
    <3>1. eventual \in Nat /\ eventual >= plan.desired /\ eventual >= plan.floor
          /\ snap.from \in Nat
      BY <1>1 DEF SnapType, PlanType, Larger
    <3>2. target = ScaleDownStep(snap.from, eventual) /\ ~Held(st) /\ ~CoolingDown(st)
      BY <2>5, <3>1 DEF CalculateScaleDownTarget
    <3>3. target \in Nat /\ target >= eventual
      <4> HIDE DEF eventual
      <4>q. QED
        BY <3>1, <3>2, RuleConstants DEF ScaleDownStep, Larger, CeilDiv
    <3>4. st.ov.override \in BOOLEAN /\ plan.desired \in Nat /\ plan.floor \in Nat
      BY <1>1 DEF StateType, OvType, PlanType
    <3>5. snap.spec.mode = "Active" /\ plan.desired < snap.from
      BY <1>6 DEF ScaleDown
    <3> HIDE DEF eventual, target
    <3>6. /\ pc' = "fresh" /\ snap' = snap /\ plan'.to = target /\ plan'.bypass = st.ov.override
          /\ plan' = [plan EXCEPT !.to = plan'.to, !.bypass = plan'.bypass]
      BY <1>3, <2>5, <3>3, <3>4
    <3>7. plan'.to < snap.from /\ plan'.to >= plan.desired /\ plan'.to >= plan.floor
      BY <2>5, <3>1, <3>3, <3>4, <3>6
    <3>q. QED
      BY <1>2, <2>1, <2>3, <3>2, <3>5, <3>6, <3>7
  <2>q. QED
    BY <1>6, <2>4, <2>5 DEF ScaleDown
<1>q. QED
  BY <1>4, <1>5, <1>6 DEF Apply

-----------------------------------------------------------------------------
(* No lost update.                                                         *)

LEMMA VersionStep == TypeOK /\ TypeOK' /\ VersionInv /\ [Next]_vars => VersionInv'
<1> SUFFICES ASSUME TypeOK, TypeOK', VersionInv, [Next]_vars,
                    pc' \in {"guard", "write"}, dep'.uid = snap'.uid, dep'.rv = plan'.rv
             PROVE  dep'.replicas = snap'.from
  BY DEF VersionInv
<1>1. CASE Start
  BY <1>1 DEF Start, TypeOK
<1>2. CASE Decide \/ Apply
  BY <1>2 DEF Decide, Apply, Recommend, ConflictHold, ScaleUp, AtTarget, ScaleDown, Proceed, Return
<1>3. CASE FreshScale
  BY <1>3 DEF FreshScale, Return, apiVars
<1>4. CASE IdentityGuard
  BY <1>4 DEF IdentityGuard, Return, apiVars, VersionInv
<1>5. CASE ScalingError \/ Write \/ WriteConflict
  BY <1>5 DEF ScalingError, Write, WriteScale, WriteReplyLost, WriteConflict, Return
<1>6. CASE EditAutoscaler \/ DeleteAutoscaler \/ SyncAutoscaler \/ SyncDeployment
  BY <1>6 DEF EditAutoscaler, DeleteAutoscaler, SyncAutoscaler, SyncDeployment, VersionInv
<1>7. CASE ChangeDeployment \/ CreateDeployment
  <2>1. FreshIn(RVs, {plan.rv})
    BY <1>7 DEF ChangeDeployment, CreateDeployment
  <2>2. Fresh(RVs, {plan.rv}) # plan.rv
    BY <2>1, FreshMember
  <2>3. plan' = plan /\ dep \in [uid: Uids \cup {None}, rv: RVs, replicas: Nat]
    BY <1>7 DEF ChangeDeployment, CreateDeployment, TypeOK
  <2>4. CASE ChangeDeployment
    <3>1. PICK n \in Counts \cup {dep.replicas} :
            dep' = [dep EXCEPT !.replicas = n, !.rv = Fresh(RVs, {plan.rv})]
      BY <2>4 DEF ChangeDeployment
    <3>q. QED
      BY <2>2, <2>3, <3>1
  <2>5. CASE CreateDeployment
    <3>1. PICK n \in Counts :
            dep' = [uid |-> Fresh(Uids, DepUids), rv |-> Fresh(RVs, {plan.rv}), replicas |-> n]
      BY <2>5 DEF CreateDeployment
    <3>q. QED
      BY <2>2, <2>3, <3>1
  <2>q. QED
    BY <1>7, <2>4, <2>5
<1>8. CASE DeleteDeployment
  BY <1>8, ReconcilerConstants DEF DeleteDeployment, TypeOK, SnapType
<1>9. CASE Restart
  BY <1>9 DEF Restart
<1>10. CASE Tick
  <2>1. plan'.rv = plan.rv
    BY <1>10 DEF Tick, TypeOK, PlanType
  <2>q. QED
    BY <1>10, <2>1 DEF Tick, apiVars, VersionInv
<1>11. CASE UNCHANGED vars
  BY <1>11 DEF vars, VersionInv
<1>q. QED
  BY <1>1, <1>2, <1>3, <1>4, <1>5, <1>6, <1>7, <1>8, <1>9, <1>10, <1>11
  DEF Next, Reconcile, Environment

(* No lost update, for every number of writers and every interleaving:     *)
(* freshScale and the conditional update of writeScale make the operator   *)
(* replace exactly the count, of the same object, that it decided from.    *)
THEOREM NoLostUpdate == Spec => WriteFromDecision
<1>1. Init => VersionInv
  BY DEF Init, VersionInv
<1>2. TypeOK /\ VersionInv /\ [Next]_vars
        => [Write => dep.uid = snap.uid /\ dep.replicas = snap.from]_vars
  BY DEF VersionInv, Write, WriteScale, WriteReplyLost, UpdateApplies
<1>q. QED
  BY <1>1, <1>2, TypeCorrect, VersionStep, PTL DEF Spec, WriteFromDecision
-----------------------------------------------------------------------------
(* A superseded spec stops writing.                                        *)

LEMMA StaleStep == TypeOK /\ TypeOK' /\ StaleInv /\ [Next]_vars => StaleInv'
<1> SUFFICES ASSUME TypeOK, TypeOK', StaleInv, [Next]_vars PROVE StaleInv'
  OBVIOUS
<1>1. CASE Start
  <2>1. CASE pc' = "idle"
    BY <2>1 DEF StaleInv
  <2>2. CASE pc' = "started"
    <3> DEFINE stale == IF Superseded(pa, paSeen.rev) THEN WriteWindow + 1 ELSE 0
    <3>1. \E born : hist' = [hist EXCEPT !.born = born, !.stale = stale]
      BY <1>1, <2>2 DEF Start
    <3>2. hist'.stale = stale
      <4> HIDE DEF stale
      <4>q. QED
        BY <3>1 DEF TypeOK, HistType
    <3>3. /\ snap'.rev = paSeen.rev
          /\ pa' = pa \/ (pa = paSeen /\ paSeen # None /\ pa' = [pa EXCEPT !.source = depSeen.uid])
      BY <1>1, <2>2 DEF Start
    <3>4. Superseded(pa, paSeen.rev) <=> Superseded(pa, paSeen.rev)'
      <4>1. paSeen' = paSeen
        BY <1>1 DEF Start
      <4>2. CASE pa' = pa
        BY <4>1, <4>2 DEF Superseded
      <4>3. CASE pa \in PaType /\ pa' = [pa EXCEPT !.source = depSeen.uid] /\ depSeen.uid \in Uids
        <5>1. pa' \in PaType /\ pa'.rev = pa.rev
          BY <4>3 DEF PaType
        <5>q. QED
          BY <4>1, <4>3, <5>1, NoneIsNoRecord DEF Superseded
      <4>q. QED
        BY <1>1, <3>3, <4>2, <4>3 DEF TypeOK, Start
    <3>5. paSeen' = paSeen
      BY <1>1 DEF Start
    <3>6. ~Superseded(pa', snap'.rev) => hist'.stale = 0
      BY <3>2, <3>3, <3>4, <3>5 DEF Superseded
    <3>q. QED
      BY <2>2, <3>6 DEF StaleInv, Superseded
  <2>q. QED
    BY <1>1, <2>1, <2>2 DEF Start
<1>2. CASE Decide
  BY <1>2 DEF Decide, apiVars, StaleInv, Superseded
<1>3. CASE Apply
  <2>1. pa' = pa /\ hist'.stale = hist.stale /\ (pc' = "idle" \/ (pc' = "fresh" /\ snap' = snap))
    BY <1>3, ApplyEffect
  <2>2. pc # "idle"
    BY <1>3 DEF Apply
  <2>q. QED
    BY <2>1, <2>2 DEF StaleInv, Superseded
<1>4. CASE FreshScale
  BY <1>4 DEF FreshScale, Return, apiVars, StaleInv, Superseded
<1>5. CASE IdentityGuard
  <2>1. CASE pc' = "write"
    <3>1. ~Superseded(pa, snap.rev) /\ UNCHANGED <<pa, snap, plan, hist>>
      BY <1>5, <2>1 DEF IdentityGuard, Return, apiVars, Authorized, Superseded
    <3>2. hist.stale = 0 /\ 0 <= plan.window
      BY <1>5, <3>1 DEF IdentityGuard, StaleInv, TypeOK, PlanType
    <3>q. QED
      BY <2>1, <3>1, <3>2 DEF StaleInv, Superseded
  <2>2. CASE pc' = "idle"
    BY <2>2 DEF StaleInv
  <2>q. QED
    BY <1>5, <2>1, <2>2 DEF IdentityGuard, Return
<1>6. CASE ScalingError \/ Write \/ WriteConflict \/ Restart
  BY <1>6 DEF ScalingError, Write, WriteScale, WriteReplyLost, WriteConflict, Restart, Return, StaleInv
<1>7. CASE EditAutoscaler
  <2>1. CASE pc = "idle"
    BY <1>7, <2>1 DEF EditAutoscaler, StaleInv
  <2>2. CASE pc # "idle"
    <3>1. FreshIn(Revs, PaRevs) /\ pa'.rev = Fresh(Revs, PaRevs) /\ UNCHANGED <<pc, snap, plan, hist>>
      BY <1>7 DEF EditAutoscaler
    <3>2. snap.rev \in PaRevs
      BY <2>2 DEF PaRevs, TypeOK, SnapType
    <3>3. pa' # None
      BY <1>7, FreshMember, NoneIsNoRecord DEF EditAutoscaler, PaType
    <3>4. Superseded(pa', snap.rev)
      BY <3>1, <3>2, <3>3, FreshMember DEF Superseded
    <3>q. QED
      BY <3>1, <3>4 DEF StaleInv, Superseded
  <2>q. QED
    BY <2>1, <2>2
<1>8. CASE DeleteAutoscaler
  BY <1>8 DEF DeleteAutoscaler, StaleInv, Superseded
<1>9. CASE ChangeDeployment \/ DeleteDeployment \/ CreateDeployment \/ SyncAutoscaler \/ SyncDeployment
  BY <1>9 DEF ChangeDeployment, DeleteDeployment, CreateDeployment, SyncAutoscaler, SyncDeployment,
              StaleInv, Superseded
<1>10. CASE Tick
  <2>1. /\ hist'.stale = IF snap # None /\ Superseded(pa, snap.rev)
                         THEN Older(hist.stale, WriteWindow + 1) ELSE 0
        /\ UNCHANGED <<pa, pc, snap>>
    BY <1>10 DEF Tick, apiVars, TypeOK, HistType
  <2>2. pc = "write" => plan'.window = Older(plan.window, WriteWindow + 1)
    BY <1>10 DEF Tick, TypeOK, PlanType
  <2>3. hist.stale \in Nat /\ plan.window \in Nat /\ WriteWindow + 1 \in Nat
    BY ReconcilerConstants DEF TypeOK, HistType, PlanType
  <2>q. QED
    BY <2>1, <2>2, <2>3 DEF StaleInv, Superseded, Older, Smaller
<1>11. CASE UNCHANGED vars
  BY <1>11 DEF vars, StaleInv, Superseded
<1>q. QED
  BY <1>1, <1>2, <1>3, <1>4, <1>5, <1>6, <1>7, <1>8, <1>9, <1>10, <1>11
  DEF Next, Reconcile, Environment

(* A spec that was edited, switched out of Active or deleted causes no     *)
(* write once the write timeout has passed, however old the caches the     *)
(* reconcile started from (identityGuard within scaleWriteTimeout).        *)
THEOREM SupersededStops == Spec => SupersededSpecStops
<1>1. Init => StaleInv
  BY DEF Init, StaleInv
<1>2. TypeOK /\ StaleInv /\ [Next]_vars => [Write => hist.stale <= WriteWindow]_vars
  <2> SUFFICES ASSUME TypeOK, StaleInv, Write PROVE hist.stale <= WriteWindow
    BY DEF Write
  <2>1. pc = "write" /\ plan.window <= WriteWindow
    BY DEF Write, WriteScale, WriteReplyLost, InTime
  <2>q. QED
    BY <2>1, ReconcilerConstants DEF StaleInv, TypeOK, HistType, PlanType
<1>q. QED
  BY <1>1, <1>2, TypeCorrect, StaleStep, PTL DEF Spec, SupersededSpecStops

-----------------------------------------------------------------------------
(* The scale-down holds, the cooldown and the bounds of the decision       *)

(* The windows of a fresh Active state have passed as far as its ages say. *)
BornInv ==
  /\ st # None /\ st.mode = "Active" =>
       /\ st.up <= hist.born /\ st.down <= hist.born
       /\ st.below # None => Stabilization + st.below <= hist.born
  /\ pc \in {"fresh", "guard", "write"} /\ plan.to < snap.from =>
       hist.born >= IF plan.bypass THEN Cooldown ELSE 2 * Stabilization

(* The ages an Active state holds are no older than the writes they record.*)
AgeInv ==
  /\ st # None /\ st.mode = "Active" => st.up <= hist.up /\ st.down <= hist.down
  /\ pc \in {"fresh", "guard", "write"} /\ plan.to < snap.from =>
       /\ hist.down >= Cooldown
       /\ plan.bypass \/ hist.up >= Stabilization

(* What a decision and the write planned from it may be.                   *)
PlanInv ==
  /\ pc \notin {"idle", "started"} =>
       /\ plan.desired \in snap.spec.min..snap.spec.max
       /\ plan.measured \/ plan.desired = Clamp(snap.from, snap.spec.min, snap.spec.max)
  /\ pc = "decided" => ~st.ov.override \/ plan.forecast # "unused"
  /\ pc \in {"fresh", "guard", "write"} =>
       /\ plan.to # snap.from
       /\ plan.to > snap.from => plan.to = plan.desired
       /\ plan.to < snap.from => /\ plan.desired < snap.from
                                 /\ plan.to >= plan.desired /\ plan.to >= plan.floor
                                 /\ ~plan.bypass \/ plan.forecast # "unused"

-----------------------------------------------------------------------------
(* What the steps do to the ages.                                          *)

(* The first reads keep the state (but for its signal-dependent part) or   *)
(* begin a fresh one.                                                      *)
LEMMA StartAges ==
  ASSUME TypeOK, Start
  PROVE  /\ hist'.up = hist.up /\ hist'.down = hist.down
         /\ \/ /\ st # None /\ st'.up = st.up /\ st'.down = st.down /\ st'.mode = st.mode
               /\ st'.below \in {st.below, None} /\ hist'.born = hist.born
            \/ /\ st'.mode = "Active" => st'.up = 0 /\ st'.down = 0
               /\ st'.below = None /\ hist'.born = 0
         /\ pc' \in {"idle", "started"}
<1> DEFINE spec == paSeen.spec
           kept == StateFor(spec.mode, depSeen.uid)
           sig  == OnSignal(kept, spec.signal)
           born == IF kept = st THEN hist.born ELSE 0
<1>1. spec \in SpecType /\ depSeen.uid \in Uids /\ hist \in HistType
  BY ReconcilerConstants DEF TypeOK, Start, PaType
<1>2. kept \in StateType
  BY <1>1, StateForType DEF TypeOK, SpecType
<1>3. \/ st # None /\ kept = st
      \/ kept = FreshState(spec.mode, depSeen.uid) /\ kept # st
  <2>1. CASE st = None \/ st.mode # spec.mode \/ st.uid # depSeen.uid
    <3>1. kept = FreshState(spec.mode, depSeen.uid)
      BY <2>1 DEF StateFor
    <3>2. kept.mode = spec.mode /\ kept.uid = depSeen.uid
      BY <3>1 DEF FreshState
    <3>q. QED
      BY <1>2, <2>1, <3>1, <3>2, NoneIsNoRecord
  <2>2. CASE ~(st = None \/ st.mode # spec.mode \/ st.uid # depSeen.uid)
    BY <2>2 DEF StateFor
  <2>q. QED
    BY <2>1, <2>2
<1>4. ASSUME NEW s \in {kept, sig}
      PROVE  s.up = kept.up /\ s.down = kept.down /\ s.mode = kept.mode /\ s.below \in {kept.below, None}
  <2> HIDE DEF kept
  <2>q. QED
    BY <1>2, <1>4 DEF OnSignal, StateType
<1>5. st' \in {kept, sig} /\ pc' \in {"idle", "started"}
  BY DEF Start
<1>6. \/ hist' = [hist EXCEPT !.born = born]
      \/ \E x : hist' = [hist EXCEPT !.born = born, !.stale = x]
  BY DEF Start
<1>7. hist'.up = hist.up /\ hist'.down = hist.down /\ hist'.born = born
  <2> HIDE DEF born
  <2>q. QED
    BY <1>1, <1>6 DEF HistType
<1>8. CASE st # None /\ kept = st
  <2> HIDE DEF kept, sig
  <2>1. born = hist.born
    BY <1>8
  <2> HIDE DEF born
  <2>q. QED
    BY <1>4, <1>5, <1>7, <1>8, <2>1
<1>9. CASE kept = FreshState(spec.mode, depSeen.uid) /\ kept # st
  <2>1. kept.below = None /\ (kept.mode = "Active" => kept.up = 0 /\ kept.down = 0)
    BY <1>9 DEF FreshState
  <2> HIDE DEF kept, sig
  <2>2. born = 0
    BY <1>9
  <2> HIDE DEF born
  <2>q. QED
    BY <1>4, <1>5, <1>7, <2>1, <2>2
<1>q. QED
  BY <1>3, <1>8, <1>9

(* The clock advances every age of the state and of the history.           *)
LEMMA TickAges ==
  ASSUME TypeOK, Tick
  PROVE  /\ UNCHANGED <<pc, snap>>
         /\ plan'.to = plan.to /\ plan'.bypass = plan.bypass
         /\ hist'.up = Older(hist.up, Stabilization) /\ hist'.down = Older(hist.down, Cooldown)
         /\ hist'.born = Older(hist.born, 2 * Stabilization)
         /\ st = None => st' = None
         /\ st # None => /\ st'.up = Older(st.up, Stabilization)
                         /\ st'.down = Older(st.down, Cooldown)
                         /\ st'.below = OlderOrNone(st.below, Stabilization)
                         /\ st'.mode = st.mode
<1>1. UNCHANGED <<pc, snap>>
  BY DEF Tick
<1>2. plan'.to = plan.to /\ plan'.bypass = plan.bypass
  BY DEF Tick, TypeOK, PlanType
<1>3. /\ hist'.up = Older(hist.up, Stabilization) /\ hist'.down = Older(hist.down, Cooldown)
      /\ hist'.born = Older(hist.born, 2 * Stabilization)
  BY DEF Tick, TypeOK, HistType
<1>4. st # None => /\ st'.up = Older(st.up, Stabilization)
                   /\ st'.down = Older(st.down, Cooldown)
                   /\ st'.below = OlderOrNone(st.below, Stabilization)
                   /\ st'.mode = st.mode
  BY DEF Tick, TypeOK, StateType
<1>q. QED
  BY <1>1, <1>2, <1>3, <1>4 DEF Tick

(* The steps that touch neither the state nor the history.                 *)
Quiet ==
  \/ FreshScale \/ IdentityGuard \/ ScalingError \/ WriteConflict
  \/ EditAutoscaler \/ DeleteAutoscaler
  \/ ChangeDeployment \/ DeleteDeployment \/ CreateDeployment
  \/ SyncAutoscaler \/ SyncDeployment
  \/ UNCHANGED vars

Writing == {"fresh", "guard", "write"}

LEMMA QuietAges ==
  ASSUME TypeOK, Quiet
  PROVE  /\ UNCHANGED <<st, hist>>
         /\ pc' \in Writing => /\ pc \in Writing /\ snap' = snap
                               /\ plan'.to = plan.to /\ plan'.bypass = plan.bypass
<1>1. CASE FreshScale
  BY <1>1 DEF FreshScale, Return, Writing, TypeOK, PlanType
<1>2. CASE IdentityGuard
  BY <1>2 DEF IdentityGuard, Return, Writing
<1>3. CASE ScalingError \/ WriteConflict
  BY <1>3 DEF ScalingError, WriteConflict, Return, Writing
<1>4. CASE EditAutoscaler \/ DeleteAutoscaler \/ SyncAutoscaler \/ SyncDeployment
  BY <1>4 DEF EditAutoscaler, DeleteAutoscaler, SyncAutoscaler, SyncDeployment
<1>5. CASE ChangeDeployment \/ DeleteDeployment \/ CreateDeployment
  BY <1>5 DEF ChangeDeployment, DeleteDeployment, CreateDeployment
<1>6. CASE UNCHANGED vars
  BY <1>6 DEF vars
<1>q. QED
  BY <1>1, <1>2, <1>3, <1>4, <1>5, <1>6 DEF Quiet

(* The decision touches no age.                                            *)
LEMMA DecideAges ==
  ASSUME TypeOK, Decide
  PROVE  /\ hist' = hist /\ pc' = "decided" /\ snap' = snap
         /\ st'.up = st.up /\ st'.down = st.down /\ st'.below = st.below /\ st'.mode = st.mode
<1>1. PICK fc \in Forecasts \cup {None}, rate \in Rates \cup {None} : Decide!2!(fc, rate)
  BY DEF Decide
<1>2. st \in StateType
  BY DEF TypeOK, Decide
<1>3. st'.up = st.up /\ st'.down = st.down /\ st'.below = st.below /\ st'.mode = st.mode
  BY <1>1, <1>2 DEF StateType
<1>q. QED
  BY <1>3 DEF Decide

(* A write resets the age it records, in the history and, unless its       *)
(* answer is lost, in the state.                                           *)
LEMMA WriteAges ==
  ASSUME TypeOK, Write
  PROVE  /\ pc' = "idle" /\ hist'.born = hist.born
         /\ \/ hist'.up = 0 /\ hist'.down = hist.down /\ plan.to > snap.from
            \/ hist'.down = 0 /\ hist'.up = hist.up /\ ~(plan.to > snap.from)
         /\ st'.mode = st.mode
         /\ \/ "lostReply" \in Events /\ st' = st
            \/ /\ plan.to > snap.from
               /\ st'.up = 0 /\ st'.down = st.down /\ st'.below = None
            \/ /\ ~(plan.to > snap.from)
               /\ st'.down = 0 /\ st'.up = st.up /\ st'.below = st.below
<1>1. st \in StateType /\ hist \in HistType
  BY DEF TypeOK, Write, WriteScale, WriteReplyLost
<1>2. /\ pc' = "idle"
      /\ hist' = IF plan.to > snap.from THEN [hist EXCEPT !.up = 0] ELSE [hist EXCEPT !.down = 0]
  BY DEF Write, WriteScale, WriteReplyLost, ScaledBy, Return
<1>3. /\ hist'.born = hist.born
      /\ \/ hist'.up = 0 /\ hist'.down = hist.down /\ plan.to > snap.from
         \/ hist'.down = 0 /\ hist'.up = hist.up /\ ~(plan.to > snap.from)
  BY <1>1, <1>2 DEF HistType
<1>4. \/ "lostReply" \in Events /\ st' = st
      \/ st' = IF plan.to > snap.from
               THEN [st EXCEPT !.up = 0, !.below = None]
               ELSE [st EXCEPT !.down = 0, !.ov.override = FALSE]
  BY DEF Write, WriteScale, WriteReplyLost
<1>q. QED
  BY <1>1, <1>2, <1>3, <1>4 DEF StateType

-----------------------------------------------------------------------------
(* The windows after a fresh state.                                        *)

LEMMA BornStep == TypeOK /\ TypeOK' /\ BornInv /\ [Next]_vars => BornInv'
<1> SUFFICES ASSUME TypeOK, TypeOK', BornInv, [Next]_vars PROVE BornInv'
  OBVIOUS
<1> USE DEF Writing
<1>0. /\ Stabilization \in Nat /\ Cooldown \in Nat /\ Cooldown <= Stabilization /\ None \notin Nat
      /\ hist \in HistType /\ (st # None => st \in StateType)
      /\ hist' \in HistType /\ (st' # None => st' \in StateType)
  BY ReconcilerConstants DEF TypeOK
<1>1. CASE Start
  BY <1>0, <1>1, StartAges DEF BornInv, StateType, HistType
<1>2. CASE Decide
  BY <1>0, <1>2, DecideAges DEF BornInv, Decide, TypeOK
<1>3. CASE Apply
  <2>1. pc = "decided" /\ st # None /\ st \in StateType /\ st.mode = snap.spec.mode
    BY <1>3 DEF Apply, TypeOK
  <2>2. st' # None /\ st'.mode = "Active" =>
          /\ st'.up <= hist'.born /\ st'.down <= hist'.born
          /\ st'.below # None => Stabilization + st'.below <= hist'.born
    BY <1>0, <1>3, <2>1, ApplyEffect DEF BornInv, StateType, HistType
  <2>3. ASSUME pc' \in Writing, plan'.to < snap'.from
        PROVE  hist'.born >= IF plan'.bypass THEN Cooldown ELSE 2 * Stabilization
    <3>1. /\ st.mode = "Active" /\ hist'.born = hist.born
          /\ ~CoolingDown(st) /\ ~Held(st) /\ plan'.bypass = st.ov.override
      BY <1>3, <2>1, <2>3, ApplyEffect DEF TypeOK, PlanType, SnapType
    <3>2. st.down >= Cooldown /\ hist.born >= Cooldown
      BY <1>0, <2>1, <3>1 DEF CoolingDown, BornInv, StateType, HistType
    <3>3. ~st.ov.override => hist.born >= 2 * Stabilization
      BY <1>0, <2>1, <3>1 DEF Held, BornInv, StateType, HistType
    <3>q. QED
      BY <3>1, <3>2, <3>3
  <2>q. QED
    BY <2>2, <2>3 DEF BornInv
<1>4. CASE Write
  <2>1. st # None /\ pc' = "idle"
    BY <1>4, WriteAges DEF TypeOK, Write, WriteScale, WriteReplyLost
  <2>q. QED
    BY <1>0, <1>4, <2>1, WriteAges DEF BornInv, StateType, HistType
<1>5. CASE Restart
  BY <1>5 DEF Restart, BornInv
<1>6. CASE Tick
  <2>1. CASE st = None
    BY <1>0, <1>6, <2>1, TickAges DEF BornInv, HistType, Older, Smaller
  <2>2. CASE st # None
    BY <1>0, <1>6, <2>2, TickAges DEF BornInv, HistType, StateType, Older, OlderOrNone, Smaller
  <2>q. QED
    BY <2>1, <2>2
<1>7. CASE Quiet
  BY <1>7, QuietAges DEF BornInv
<1>q. QED
  BY <1>1, <1>2, <1>3, <1>4, <1>5, <1>6, <1>7 DEF Next, Reconcile, Environment, Quiet

(* docs/configuration.md, the fresh Active state: after a restart, a       *)
(* switch to Active or a re-created target no scale-down happens before    *)
(* both windows have passed, nor under the override before the cooldown.   *)
THEOREM FreshWaits == Spec => FreshStateWaits
<1>1. Init => BornInv
  BY DEF Init, BornInv
<1>2. TypeOK /\ BornInv /\ [Next]_vars
        => [ScalesDown => hist.born >= IF plan.bypass THEN Cooldown ELSE 2 * Stabilization]_vars
  BY DEF ScalesDown, Write, WriteScale, WriteReplyLost, BornInv
<1>q. QED
  BY <1>1, <1>2, TypeCorrect, BornStep, PTL DEF Spec, FreshStateWaits

-----------------------------------------------------------------------------
(* The holds after real writes.                                            *)

LEMMA AgeStep ==
  ASSUME "lostReply" \notin Events
  PROVE  TypeOK /\ TypeOK' /\ AgeInv /\ [Next]_vars => AgeInv'
<1> SUFFICES ASSUME TypeOK, TypeOK', AgeInv, [Next]_vars PROVE AgeInv'
  OBVIOUS
<1> USE DEF Writing
<1>0. /\ Stabilization \in Nat /\ Cooldown \in Nat /\ None \notin Nat
      /\ hist \in HistType /\ (st # None => st \in StateType)
      /\ hist' \in HistType /\ (st' # None => st' \in StateType)
  BY ReconcilerConstants DEF TypeOK
<1>1. CASE Start
  BY <1>0, <1>1, StartAges DEF AgeInv, StateType, HistType
<1>2. CASE Decide
  BY <1>0, <1>2, DecideAges DEF AgeInv, Decide, TypeOK
<1>3. CASE Apply
  <2>1. pc = "decided" /\ st # None /\ st \in StateType /\ st.mode = snap.spec.mode
    BY <1>3 DEF Apply, TypeOK
  <2>2. st' # None /\ st'.mode = "Active" => st'.up <= hist'.up /\ st'.down <= hist'.down
    BY <1>3, <2>1, ApplyEffect DEF AgeInv
  <2>3. ASSUME pc' \in Writing, plan'.to < snap'.from
        PROVE  hist'.down >= Cooldown /\ (plan'.bypass \/ hist'.up >= Stabilization)
    <3>1. /\ st.mode = "Active" /\ hist'.up = hist.up /\ hist'.down = hist.down
          /\ ~CoolingDown(st) /\ ~Held(st) /\ plan'.bypass = st.ov.override
      BY <1>3, <2>1, <2>3, ApplyEffect DEF TypeOK, PlanType, SnapType
    <3>2. hist.down >= Cooldown
      BY <1>0, <2>1, <3>1 DEF CoolingDown, AgeInv, StateType, HistType
    <3>3. st.ov.override \/ hist.up >= Stabilization
      BY <1>0, <2>1, <3>1 DEF Held, AgeInv, StateType, HistType
    <3>q. QED
      BY <3>1, <3>2, <3>3
  <2>q. QED
    BY <2>2, <2>3 DEF AgeInv
<1>4. CASE Write
  <2>1. st # None /\ pc' = "idle"
    BY <1>4, WriteAges DEF TypeOK, Write, WriteScale, WriteReplyLost
  <2>q. QED
    BY <1>0, <1>4, <2>1, WriteAges DEF AgeInv, StateType, HistType
<1>5. CASE Restart
  BY <1>5 DEF Restart, AgeInv
<1>6. CASE Tick
  <2>1. CASE st = None
    BY <1>0, <1>6, <2>1, TickAges DEF AgeInv, HistType, Older, Smaller
  <2>2. CASE st # None
    BY <1>0, <1>6, <2>2, TickAges DEF AgeInv, HistType, StateType, Older, Smaller
  <2>q. QED
    BY <2>1, <2>2
<1>7. CASE Quiet
  BY <1>7, QuietAges DEF AgeInv
<1>q. QED
  BY <1>1, <1>2, <1>3, <1>4, <1>5, <1>6, <1>7 DEF Next, Reconcile, Environment, Quiet

LEMMA AgeInit == Init => AgeInv
BY DEF Init, AgeInv

(* docs/configuration.md, the scale-down rules: as long as no answer of an *)
(* applied write is lost, the cooldown lies between two scale-downs, the   *)
(* stabilization window after a scale-up unless the override skips it, and *)
(* both windows after a fresh start, whatever restarts, edits or other     *)
(* writers intervene.                                                      *)
THEOREM ScaleDownsWait ==
  ASSUME "lostReply" \notin Events
  PROVE  Spec => ScaleDownWaits
<1> DEFINE Waits == ScalesDown =>
             /\ hist.down >= Cooldown
             /\ ~plan.bypass => hist.up >= Stabilization
             /\ hist.born >= IF plan.bypass THEN Cooldown ELSE 2 * Stabilization
<1>1. TypeOK /\ AgeInv /\ BornInv /\ [Next]_vars => [Waits]_vars
  BY DEF ScalesDown, Write, WriteScale, WriteReplyLost, AgeInv, BornInv
<1>2. Init => BornInv
  BY DEF Init, BornInv
<1>q. QED
  BY <1>1, <1>2, AgeInit, TypeCorrect, AgeStep, BornStep, PTL DEF Spec, ScaleDownWaits

(* The steps other than those of the decision leave it alone.              *)
LEMMA PlanKept ==
  ASSUME TypeOK, Quiet \/ Tick
  PROVE  \/ pc' = "idle"
         \/ /\ snap' = snap /\ (pc' = pc \/ (pc \in Writing /\ pc' \in Writing))
            /\ plan'.desired = plan.desired /\ plan'.floor = plan.floor
            /\ plan'.measured = plan.measured /\ plan'.forecast = plan.forecast
            /\ plan'.to = plan.to /\ plan'.bypass = plan.bypass
            /\ pc = "decided" => st'.ov = st.ov
<1>0. plan \in PlanType /\ (pc # "idle" => st # None /\ st \in StateType)
  BY DEF TypeOK
<1>1. CASE FreshScale
  BY <1>0, <1>1 DEF FreshScale, Return, Writing, PlanType
<1>2. CASE IdentityGuard
  BY <1>2 DEF IdentityGuard, Return, Writing
<1>3. CASE ScalingError \/ WriteConflict
  BY <1>3 DEF ScalingError, WriteConflict, Return
<1>4. CASE EditAutoscaler \/ DeleteAutoscaler \/ SyncAutoscaler \/ SyncDeployment
  BY <1>4 DEF EditAutoscaler, DeleteAutoscaler, SyncAutoscaler, SyncDeployment
<1>5. CASE ChangeDeployment \/ DeleteDeployment \/ CreateDeployment
  BY <1>5 DEF ChangeDeployment, DeleteDeployment, CreateDeployment
<1>6. CASE UNCHANGED vars
  BY <1>6 DEF vars
<1>7. CASE Tick
  <2>1. pc' = pc /\ snap' = snap
    BY <1>7 DEF Tick
  <2>2. /\ plan'.desired = plan.desired /\ plan'.floor = plan.floor
        /\ plan'.measured = plan.measured /\ plan'.forecast = plan.forecast
        /\ plan'.to = plan.to /\ plan'.bypass = plan.bypass
    BY <1>0, <1>7 DEF Tick, PlanType
  <2>3. pc = "decided" => st'.ov = st.ov
    BY <1>0, <1>7 DEF Tick, StateType
  <2>q. QED
    BY <2>1, <2>2, <2>3
<1>q. QED
  BY <1>1, <1>2, <1>3, <1>4, <1>5, <1>6, <1>7 DEF Quiet

LEMMA PlanStep == TypeOK /\ TypeOK' /\ PlanInv /\ [Next]_vars => PlanInv'
<1> SUFFICES ASSUME TypeOK, TypeOK', PlanInv, [Next]_vars PROVE PlanInv'
  OBVIOUS
<1>1. CASE Start
  BY <1>1, StartAges DEF PlanInv
<1>2. CASE Decide
  BY <1>2, DecideEffect, DecideAges DEF PlanInv
<1>3. CASE Apply
  <2>0. CASE pc' = "idle"
    BY <2>0 DEF PlanInv
  <2>1. CASE pc' # "idle"
    <3>1. /\ pc = "decided" /\ pc' = "fresh" /\ snap' = snap /\ plan \in PlanType
          /\ plan' = [plan EXCEPT !.to = plan'.to, !.bypass = plan'.bypass]
          /\ snap.from \in Nat /\ plan.desired \in Nat /\ plan'.to \in Nat
      BY <1>3, <2>1, ApplyEffect DEF Apply, TypeOK, SnapType, PlanType
    <3>2. /\ plan'.desired = plan.desired /\ plan'.floor = plan.floor
          /\ plan'.measured = plan.measured /\ plan'.forecast = plan.forecast
      BY <3>1 DEF PlanType
    <3>3. \/ plan'.to = plan.desired /\ plan.desired > snap.from
          \/ /\ plan'.to < snap.from /\ plan.desired < snap.from
             /\ plan'.to >= plan.desired /\ plan'.to >= plan.floor
             /\ plan'.bypass = st.ov.override
      BY <1>3, <2>1, ApplyEffect
    <3>q. QED
      BY <3>1, <3>2, <3>3 DEF PlanInv
  <2>q. QED
    BY <2>0, <2>1
<1>4. CASE Write \/ Restart
  BY <1>4, WriteAges DEF Restart, PlanInv
<1>5. CASE Quiet \/ Tick
  <2>1. CASE pc' = "idle"
    BY <2>1 DEF PlanInv
  <2>2. CASE /\ snap' = snap /\ (pc' = pc \/ (pc \in Writing /\ pc' \in Writing))
             /\ plan'.desired = plan.desired /\ plan'.floor = plan.floor
             /\ plan'.measured = plan.measured /\ plan'.forecast = plan.forecast
             /\ plan'.to = plan.to /\ plan'.bypass = plan.bypass
             /\ pc = "decided" => st'.ov = st.ov
    BY <2>2 DEF PlanInv, Writing
  <2>q. QED
    BY <1>5, <2>1, <2>2, PlanKept
<1>q. QED
  BY <1>1, <1>2, <1>3, <1>4, <1>5 DEF Next, Reconcile, Environment, Quiet

LEMMA PlanInvariant == Spec => [](TypeOK /\ PlanInv)
<1>1. Init => PlanInv
  BY DEF Init, PlanInv
<1>q. QED
  BY <1>1, TypeCorrect, PlanStep, PTL DEF Spec

LEMMA WritePlan ==
  ASSUME TypeOK, PlanInv, Write
  PROVE  /\ pc = "write" /\ plan.to \in Nat /\ plan.desired \in Nat /\ snap.from \in Nat
         /\ snap.spec.min \in Nat /\ snap.spec.max \in Nat /\ plan.floor \in Nat
         /\ plan.desired \in snap.spec.min..snap.spec.max
BY ReconcilerConstants
DEF TypeOK, PlanInv, Write, WriteScale, WriteReplyLost, SnapType, PlanType, SpecType

(* A scale-down stops at the decision and at the headroom floor of the     *)
(* measured rate, a scale-up at maxReplicas, and no write goes below       *)
(* minReplicas, for every forecast and every override.                     *)
THEOREM WritesBounded == Spec => WritesWithinBounds
<1>1. TypeOK /\ PlanInv /\ [Next]_vars =>
        [Write => /\ plan.to >= snap.spec.min
                  /\ plan.to < snap.from => plan.to >= plan.floor /\ plan.to >= plan.desired
                  /\ plan.to > snap.from => plan.to <= snap.spec.max]_vars
  BY WritePlan DEF PlanInv
<1>q. QED
  BY <1>1, PlanInvariant, PTL DEF Spec, WritesWithinBounds

(* docs/configuration.md: without a measured need the operator writes only *)
(* to bring the count within the bounds of the spec.                       *)
THEOREM UnmeasuredKeeps == Spec => UnmeasuredHolds
<1>1. TypeOK /\ PlanInv /\ [Next]_vars =>
        [Write /\ ~plan.measured =>
           /\ snap.from \notin snap.spec.min..snap.spec.max
           /\ plan.to <= snap.spec.max \/ plan.to < snap.from]_vars
  BY WritePlan DEF PlanInv, Clamp, Larger, Smaller
<1>q. QED
  BY <1>1, PlanInvariant, PTL DEF Spec, UnmeasuredHolds

(* README: without a usable forecast in the reconcile no override skips    *)
(* the holds (clearForecastOverride).                                      *)
THEOREM BypassIsForecast == Spec => BypassNeedsForecast
<1>1. TypeOK /\ PlanInv /\ [Next]_vars =>
        [ScalesDown /\ plan.bypass => plan.forecast # "unused"]_vars
  BY WritePlan DEF PlanInv, ScalesDown
<1>q. QED
  BY <1>1, PlanInvariant, PTL DEF Spec, BypassNeedsForecast

=============================================================================
