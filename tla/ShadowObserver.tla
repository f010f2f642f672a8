--------------------------- MODULE ShadowObserver ---------------------------
(***************************************************************************)
(* observer/shadow.py: the forecast components are replayed at the origins *)
(* the controller recorded, long after the fact, when later observations   *)
(* exist.  One time unit is half a grid slot (five minutes), so points off *)
(* the grid occur.  A recorded step is its status and the set of instants  *)
(* whose observations its value rests on; the value itself is left out.    *)
(***************************************************************************)
EXTENDS Integers, Sequences, FiniteSets

CONSTANTS
  Day,          \* timedelta(days=1), in units
  SeasonDays,   \* days of seasonal history read
  Tolerance,    \* tolerance_min of _previous_day
  StepCap,      \* the longest valid issuance (6 steps)
  Lengths,      \* sequence lengths an issuance may record
  MaxFlaws,     \* bound: observations that are missing, repeated, not finite
  MaxIssuances, \* bound: issuances in the log that is replayed
  MaxTime       \* bound on the clock

Grid == 2
Replayed == {"raw_network", "seasonal_only"}
PREDICTORS == Replayed \cup {"served_hybrid", "previous_day", "persistence"}

VARIABLES
  now,        \* the clock
  hist,       \* per instant: "ok", "none", "nan" or "twice"
  issuances,  \* what the controller recorded, in order
  next,       \* the issuance run() takes next
  records     \* the append-only log: <<issuance, record>>

vars == <<now, hist, issuances, next, records>>

Flawed == {t \in 0..now : t % Grid = 0 /\ hist[t] # "ok"}

Init ==
  /\ now = 0
  /\ hist = [t \in 0..MaxTime |-> IF t = 0 THEN "ok" ELSE "none"]
  /\ issuances = <<>> /\ next = 1 /\ records = <<>>

(* Time passes and the signal is observed, on the grid or off it.          *)
Tick(kind) ==
  /\ now < MaxTime
  /\ kind # "ok" =>
       IF (now + 1) % Grid = 0 THEN Cardinality(Flawed) < MaxFlaws ELSE kind = "none"
  /\ now' = now + 1
  /\ hist' = [hist EXCEPT ![now + 1] = kind]
  /\ UNCHANGED <<issuances, next, records>>

(* The controller records an issuance: its input end, sequence length and  *)
(* forecasts, in a form that may be damaged (no step count, targets off    *)
(* the grid, a recorded RPM missing or not finite).                        *)
Issue(steps, len, form) ==
  /\ Len(issuances) < MaxIssuances
  /\ issuances' = Append(issuances,
       [end |-> now, steps |-> steps, len |-> len, form |-> form])
  /\ UNCHANGED <<now, hist, next, records>>

(* ShadowRecord and StepObservation: one predictor's steps, with the       *)
(* instants each value rests on.                                           *)
AllSteps(n, status, basis) == [i \in 1..n |-> [status |-> status, basis |-> basis]]
Unavailable(n) == AllSteps(n, "unavailable", {})
Failed(n) == AllSteps(n, "failed", {})

(* history_lookup, supplied by the caller: the instants of [lo, hi] that   *)
(* hold an observation, or every instant it has when it is not exact.      *)
Lookup(lo, hi, exact) ==
  {t \in 0..now : hist[t] # "none" /\ (exact => t \in lo..hi)}

(* _window_from_snapshot: what was returned, cut to the recorded window.   *)
Window(e, len, exact) ==
  Lookup(e - Grid * (len - 1), e, exact) \cap (e - Grid * (len - 1))..e

(* rec.window_complete: exactly the slots of the window, all finite.       *)
Complete(w, e, len) ==
  /\ w = {e - Grid * i : i \in 0..(len - 1)}
  /\ \A t \in w : hist[t] = "ok"

(* _persistence: the one finite observation at the recorded origin.        *)
Persistence(n, w, e) ==
  IF e \notin w \/ hist[e] = "twice" THEN Unavailable(n)
  ELSE IF hist[e] = "nan" THEN AllSteps(n, "non_finite", {})
  ELSE AllSteps(n, "ok", {e})

Distance(a, b) == IF a < b THEN b - a ELSE a - b

(* _previous_day: the nearest observation to the same time yesterday; of   *)
(* two equally near ones, the one the lookup returned first.               *)
PreviousDay(n, e, exact) ==
  LET want(i) == e + Grid * i - Day
      near(i) == Lookup(want(i) - Tolerance, want(i) + Tolerance, exact)
                   \cap (want(i) - Tolerance)..(want(i) + Tolerance)
      nearest(i) == CHOOSE t \in near(i) : \A u \in near(i) :
                      Distance(t, want(i)) =< Distance(u, want(i))
  IN  [i \in 1..n |->
        IF near(i) = {} THEN [status |-> "unavailable", basis |-> {}]
        ELSE IF hist[nearest(i)] = "nan" THEN [status |-> "non_finite", basis |-> {}]
        ELSE [status |-> "ok", basis |-> {nearest(i)}]]

(* The seasonal history: eight days up to the origin, dropped whole when   *)
(* an instant repeats or a value is not finite, or the lookup failed.      *)
Seasonal(e, exact, failed) ==
  LET got == Lookup(e - SeasonDays * Day, e, exact) \cap (e - SeasonDays * Day)..e
  IN  IF failed \/ \E t \in got : hist[t] # "ok" THEN {} ELSE got

(* _from_model: a loaded model answers both components, fails as a whole,  *)
(* or is not there.  The seasonal one needs the feedback state of that     *)
(* origin and, per step, genuine backing from the day before.              *)
FromModel(n, w, e, seasonal, model, feedback) ==
  LET backed(i) == e + Grid * i - Day \in seasonal
  IN  CASE model = "none" -> [k \in Replayed |-> Unavailable(n)]
        [] model = "fails" -> [k \in Replayed |-> Failed(n)]
        [] model = "nan" -> [k \in Replayed |->
             IF k = "seasonal_only" /\ ~feedback THEN Unavailable(n)
             ELSE AllSteps(n, "non_finite", {})]
        [] OTHER -> [k \in Replayed |->
             IF k = "raw_network" THEN AllSteps(n, "ok", w)
             ELSE IF ~feedback THEN Unavailable(n)
             ELSE [i \in 1..n |-> IF backed(i)
                    THEN [status |-> "ok", basis |-> w \cup seasonal]
                    ELSE [status |-> "unavailable", basis |-> {}]]]

(* The recorded RPM, kept as it was recorded.                              *)
Served(x) ==
  CASE x.form = "no rpm" -> Unavailable(x.steps)
    [] x.form = "nan rpm" -> AllSteps(x.steps, "non_finite", {})
    [] OTHER -> AllSteps(x.steps, "ok", {})

(* Mutant: the number of steps is not bounded.                             *)
GridAnyLength(x) == x.end % Grid = 0 /\ x.form # "off grid"

(* The issuance target grid: a slot for an origin, at most StepCap steps,  *)
(* and the targets that follow it.                                         *)
GridValid(x) == x.steps =< StepCap /\ x.end % Grid = 0 /\ x.form # "off grid"

(* The record of an issuance whose window could not be read.               *)
LookupFailed(x) ==
  [k \in PREDICTORS |-> IF k = "served_hybrid" THEN Served(x) ELSE Failed(x.steps)]

(* observe: fails is the set of collaborators that raised.                 *)
Observe(x, exact, fails, model) ==
  IF x.steps = 0 \/ x.len = 0 THEN [k \in PREDICTORS |-> <<>>]
  ELSE IF ~GridValid(x) THEN [k \in PREDICTORS |-> Failed(x.steps)]
  ELSE IF "window" \in fails THEN LookupFailed(x)
  ELSE LET w == Window(x.end, x.len, exact)
           season == Seasonal(x.end, exact, "season" \in fails)
           replayed == IF Complete(w, x.end, x.len)
                       THEN FromModel(x.steps, w, x.end, season, model, "state" \notin fails)
                       ELSE [k \in Replayed |-> Unavailable(x.steps)]
       IN  [k \in PREDICTORS |->
              CASE k \in Replayed -> replayed[k]
                [] k = "served_hybrid" -> Served(x)
                [] k = "persistence" -> Persistence(x.steps, w, x.end)
                [] OTHER -> IF "day" \in fails THEN Failed(x.steps)
                            ELSE PreviousDay(x.steps, x.end, exact)]

(* run, one issuance: observe, then append_record; an append that fails is *)
(* counted and the next issuance is taken.                                 *)
Run(exact, fails, model, appended) ==
  /\ next =< Len(issuances)
  /\ next' = next + 1
  /\ records' = IF appended
                THEN Append(records, <<issuances[next],
                                       Observe(issuances[next], exact, fails, model)>>)
                ELSE records
  /\ UNCHANGED <<now, hist, issuances>>

Next ==
  \/ \E kind \in {"ok", "none", "nan", "twice"} : Tick(kind)
  \/ \E steps \in 0..(StepCap + 1), len \in Lengths,
        form \in {"ok", "no rpm", "nan rpm", "off grid"} : Issue(steps, len, form)
  \/ \E exact, appended \in BOOLEAN,
        fails \in SUBSET {"window", "season", "state", "day"},
        model \in {"none", "fails", "nan", "answers"} :
       Run(exact, fails, model, appended)

Spec == Init /\ [][Next]_vars

-----------------------------------------------------------------------------
(* No value in the log rests on an observation later than the recorded     *)
(* input end, however much later the observer runs, whatever the lookup    *)
(* returned and whichever predictor answered: a day before the last step   *)
(* the grid check admits is still in the past, tolerance included.         *)
NothingLater ==
  \A r \in {records[i] : i \in 1..Len(records)} :
    \A k \in DOMAIN r[2] : \A i \in 1..Len(r[2][k]) :
      \A t \in r[2][k][i].basis : t =< r[1].end

(* A predictor that cannot answer is a result and not a gap: each record   *)
(* holds all five predictors, each with every step of the issuance (none   *)
(* for an unusable one), whichever of the lookups, the replay state or the *)
(* model failed.                                                           *)
EveryStepRecorded ==
  \A r \in {records[i] : i \in 1..Len(records)} :
    /\ DOMAIN r[2] = {"served_hybrid", "raw_network", "seasonal_only",
                      "previous_day", "persistence"}
    /\ \A k \in DOMAIN r[2] :
         Len(r[2][k]) = IF r[1].len = 0 THEN 0 ELSE r[1].steps
=============================================================================
