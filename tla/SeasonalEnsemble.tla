-------------------------- MODULE SeasonalEnsemble --------------------------
(***************************************************************************)
(* The seasonal forecasters behind /predict for an experiment              *)
(* (models/seasonal_ensemble.py, models/relative_profile_ar.py): a         *)
(* generation is fitted per refit boundary and cached under a fingerprint  *)
(* of what it was fitted on; a forecast advances it to the newest          *)
(* observation and adds a margin from the errors of the forecasts that the *)
(* same code would have made before.  Requests run in executor threads and *)
(* share the cache.                                                        *)
(*                                                                         *)
(* Time is in grid slots.  A value is the slot it was observed at, so what *)
(* a fit or a forecast rests on is a set of slots; the numbers are left    *)
(* out.  Observations reach the source up to MaxLate slots late, or never. *)
(***************************************************************************)
EXTENDS Integers, Sequences, FiniteSets, FiniteSetsExt, SequencesExt

CONSTANTS Season, Steps, Refit, HwWindow, ProfileDays, ArWindow, ArOrder,
          MinRows, MarginWindow, MaxAge, History, CacheSize,
          Diverging,          \* boundaries where the optimiser does not converge
          Threads,
          MaxLate, MaxTime, MaxRequests   \* bounds of the model

VARIABLES exp,           \* the experiment: its forecaster and partial rule
          now, source,   \* the clock; the slots whose observation the source holds
          cache,         \* _CACHE, oldest first
          req,           \* thread -> the request it serves
          served         \* requests taken so far

vars == <<exp, now, source, cache, req, served>>

Experiments == {[forecaster |-> "ensemble", rule |-> "refuse"],
                [forecaster |-> "ensemble", rule |-> "finite"],
                [forecaster |-> "relative", rule |-> "refuse"]}

Ensemble == exp.forecaster = "ensemble"

Idle == [at |-> "idle"]

Init ==
  /\ exp \in Experiments
  /\ now = 0 /\ source = {0} /\ cache = <<>> /\ served = 0
  /\ req = [h \in Threads |-> Idle]

----------------------------------------------------------------------------
(* The input grid and what is read from it                                 *)

(* Grid.from_points: from the first to the last observation.               *)
First(G) == Min(G)
Origin(G) == Max(G)

NoSlot == -1

(* Grid.filled: the last observation carried forward.                      *)
Filled(G, t) == LET before == {s \in G : s <= t} IN IF before = {} THEN NoSlot ELSE Max(before)

(* profile_at: the same slot on the previous days, observed values only.   *)
Profile(G, t) == G \cap {t - Season * d : d \in 1 .. ProfileDays}

(* residuals, relative_residuals; {} is a missing one.                     *)
Residual(G, t) ==
  IF t < First(G) \/ Filled(G, t) = NoSlot \/ Profile(G, t) = {} THEN {}
  ELSE Profile(G, t) \cup {Filled(G, t)}

(* fit_ar, fit_generation: the rows of the trailing window with a complete *)
(* target and lags.                                                        *)
ArRows(G, b) ==
  {t \in Max({First(G), b - ArWindow + 1}) + ArOrder .. b :
     \A k \in 0 .. ArOrder : Residual(G, t - k) # {}}

----------------------------------------------------------------------------
(* Generations                                                             *)

HwLow(G, b) == Max({First(G), b - HwWindow + 1})
ArLow(G, b) == Max({First(G), b - ArWindow - ProfileDays * Season})
RelativeLow(G, b) == Max({First(G), b - ArWindow + 1 - ProfileDays * Season})

(* heuristic_init, fit_hw: two full seasons, and an optimiser that         *)
(* converges.                                                              *)
FitHw(G, b) == b - HwLow(G, b) + 1 >= 2 * Season /\ b \notin Diverging

(* What the fit at b reads, slot by slot.                                  *)
Inputs(G, b) ==
  [hw |-> IF Ensemble THEN [t \in HwLow(G, b) .. b |-> Filled(G, t)] ELSE <<>>,
   ar |-> [t \in ArRows(G, b) |-> [k \in 0 .. ArOrder |-> Residual(G, t - k)]]]

FitAr(G, b) == Cardinality(ArRows(G, b)) >= MinRows

Fits(G, b) == First(G) <= b /\ (Ensemble => FitHw(G, b)) /\ FitAr(G, b)

(* The cache key: the boundary, and the hash of the observations from the  *)
(* oldest slot the fit reads.                                              *)
EnsembleKey(G, b) == <<b, HwLow(G, b), ArLow(G, b), G \cap (ArLow(G, b) .. b)>>
RelativeKey(G, b) == <<b, NoSlot, RelativeLow(G, b), G \cap (RelativeLow(G, b) .. b)>>

(* Mutant: the key names the boundary only.                                *)
KeyBoundary(G, b) == <<b, NoSlot, NoSlot, {}>>

Key(G, b) == IF Ensemble THEN EnsembleKey(G, b) ELSE RelativeKey(G, b)

BoundaryOf(t) == (t \div Refit) * Refit

Cached(key) == {i \in DOMAIN cache : cache[i].key = key}

MoveToEnd(i) == Append(SubSeq(cache, 1, i - 1) \o SubSeq(cache, i + 1, Len(cache)), cache[i])

Inserted(g) ==
  LET same == Cached(g.key)
      all == IF same = {} THEN Append(cache, g)
             ELSE [cache EXCEPT ![CHOOSE i \in same : TRUE] = g]
  IN IF Len(all) > CacheSize THEN SubSeq(all, Len(all) - CacheSize + 1, Len(all)) ELSE all

----------------------------------------------------------------------------
(* Forecasts                                                               *)

(* hw_run from the boundary to the origin.                                 *)
Advance(G, b, j) == {Filled(G, t) : t \in b + 1 .. j}

Seeds(j) == {j, j - 1, j - 2}

Seeded(G, j) == \A t \in Seeds(j) : t >= 0 /\ Residual(G, t) # {}

(* components_at: Holt-Winters always comes out finite once it is fitted,  *)
(* the profile-AR steps when the recursion is seeded and the target slot   *)
(* has a profile.                                                          *)
ArSteps(G, j) == IF Seeded(G, j) THEN {s \in 1 .. Steps : Profile(G, j + s) # {}} ELSE {}
EnsembleSteps(G, j) == IF exp.rule = "finite" THEN 1 .. Steps ELSE ArSteps(G, j)

(* raw_at: refused without its seeds.                                      *)
RelativeSteps(G, j) == {s \in 1 .. Steps : Seeded(G, j) /\ Profile(G, j + s) # {}}

RawSteps(G, j) == IF Ensemble THEN EnsembleSteps(G, j) ELSE RelativeSteps(G, j)

(* The observations the forecast from j with generation g rests on.        *)
Basis(G, j, g) ==
  UNION {Profile(G, j + s) : s \in 1 .. Steps}
    \cup UNION {Residual(G, t) : t \in {t \in Seeds(j) : t >= 0 /\ Residual(G, t) # {}}}
    \cup (IF Ensemble THEN Advance(G, g.boundary, j) \ {NoSlot} ELSE {})
    \cup UNION {UNION Range(g.inputs.ar[t]) : t \in DOMAIN g.inputs.ar}
    \cup (IF Ensemble THEN Range(g.inputs.hw) \ {NoSlot} ELSE {})

(* margin_at: the past origins of the last day whose two lead targets and  *)
(* own slot were observed.                                                 *)
MarginOrigins(G) ==
  SetToSortSeq({j \in Max({First(G), Origin(G) - MarginWindow + 1}) .. Origin(G) - 2 :
                  {j, j + 1, j + 2} \subseteq G}, <)

----------------------------------------------------------------------------
(* Requests                                                                *)

(* forecast: the source history is read, a stale one is refused.  todo are *)
(* the origins to forecast from: the newest, then those of the margin.     *)
Ask(h) ==
  LET G == {s \in source : s > now - History}
  IN /\ req[h].at = "idle" /\ served < MaxRequests /\ served' = served + 1
     /\ G # {} /\ now - Origin(G) <= MaxAge
     /\ req' = [req EXCEPT ![h] = [at |-> "lookup", grid |-> G, back |-> 0, used |-> {},
                                   todo |-> <<Origin(G)>> \o MarginOrigins(G)]]
     /\ UNCHANGED <<exp, now, source, cache>>

Current(h) == BoundaryOf(Head(req[h].todo)) - req[h].back * Refit

(* After the newest origin a forecast with a step that is not finite is    *)
(* refused; after the last one of the margin it is answered.               *)
Onward(h, used) ==
  LET q == [req[h] EXCEPT !.used = used]
      newest == Head(q.todo) = Origin(q.grid)
  IN IF newest /\ RawSteps(q.grid, Origin(q.grid)) # 1 .. Steps THEN [q EXCEPT !.at = "refused"]
     ELSE IF Len(q.todo) = 1 THEN [q EXCEPT !.at = "answered"]
     ELSE [q EXCEPT !.at = "lookup", !.back = 0, !.todo = Tail(@)]

Using(h, g) == req[h].used \cup {[origin |-> Head(req[h].todo), gen |-> g, back |-> req[h].back]}

(* generation_for, its first critical section.                             *)
Lookup(h) ==
  LET key == Key(req[h].grid, Current(h))
      hit == Cached(key)
  IN /\ req[h].at = "lookup"
     /\ IF hit = {} \/ Current(h) < First(req[h].grid)
        THEN req' = [req EXCEPT ![h].at = "fit"] /\ UNCHANGED cache
        ELSE LET i == CHOOSE i \in hit : TRUE
             IN /\ cache' = MoveToEnd(i)
                /\ req' = [req EXCEPT ![h] = Onward(h, Using(h, cache[i]))]
     /\ UNCHANGED <<exp, now, source, served>>

(* generation_for, the fit and its second critical section; a failed fit   *)
(* falls back to the previous boundary once (_usable_generation), then the *)
(* forecast is refused, or the margin goes without that origin.            *)
Fit(h) ==
  LET G == req[h].grid  b == Current(h)
      g == [key |-> Key(G, b), boundary |-> b, inputs |-> Inputs(G, b)]
      first == Head(req[h].todo) = Origin(G)
  IN /\ req[h].at = "fit"
     /\ IF Fits(G, b)
        THEN /\ cache' = Inserted(g)
             /\ req' = [req EXCEPT ![h] = Onward(h, Using(h, g))]
        ELSE /\ UNCHANGED cache
             /\ req' = [req EXCEPT ![h] =
                          CASE req[h].back = 0 -> [@ EXCEPT !.at = "lookup", !.back = 1]
                            [] req[h].back = 1 /\ first -> [@ EXCEPT !.at = "refused"]
                            [] OTHER -> Onward(h, req[h].used)]
     /\ UNCHANGED <<exp, now, source, served>>

Done(h) ==
  /\ req[h].at \in {"answered", "refused"}
  /\ req' = [req EXCEPT ![h] = Idle]
  /\ UNCHANGED <<exp, now, source, cache, served>>

Tick == now < MaxTime /\ now' = now + 1 /\ UNCHANGED <<exp, source, cache, req, served>>

Arrive(s) ==
  /\ s \notin source /\ s >= now - MaxLate
  /\ source' = source \cup {s}
  /\ UNCHANGED <<exp, now, cache, req, served>>

Next ==
  \/ Tick
  \/ \E s \in 0 .. now : Arrive(s)
  \/ \E h \in Threads : Ask(h) \/ Lookup(h) \/ Fit(h) \/ Done(h)

Spec == Init /\ [][Next]_vars

----------------------------------------------------------------------------
(* Properties                                                              *)

Used == UNION {{[q |-> req[h], u |-> u] : u \in req[h].used} : h \in {h \in Threads : req[h].at # "idle"}}

(* A request uses the generation that a fit on its own history would give, *)
(* whatever another thread cached from another history, so a restart       *)
(* reproduces the same forecasts (seasonal_ensemble.py:19-23, 324-335).    *)
CacheTransparent ==
  \A x \in Used : x.u.gen.inputs = Inputs(x.q.grid, x.u.gen.boundary)

(* A past forecast that the margin measures an error of is the one that    *)
(* could have been made then: neither its generation nor its inputs know a *)
(* slot after its origin (seasonal_ensemble.py:393-433).                   *)
PastOnly ==
  \A x \in Used : \A s \in Basis(x.q.grid, x.u.origin, x.u.gen) : s <= x.u.origin
=============================================================================
