----------------------------- MODULE StatKernel -----------------------------
(***************************************************************************)
(* The statistical kernel (forecasting/statistical.py): the E1 fit at the  *)
(* newest observation of a read, and the forecasts made later from that    *)
(* fit and newer reads, next to the seasonal-naive one.                    *)
(*                                                                         *)
(* Time is in grid slots.  An observed value is its slot, a fit or a       *)
(* forecast is the set of slots it was computed from; the numbers are left *)
(* out.  A read is the last HistorySlots slots up to its end.              *)
(***************************************************************************)
EXTENDS Integers, FiniteSets, FiniteSetsExt

CONSTANTS Season, ProfileDays, MinSupport, ArOrder, ArWindow, MinRows, MinSpan,
          HwMin, HwMax, MinHistory, MinObserved, Steps, HistorySlots,
          FirstEnd, LastSlot, MaxFits    \* bounds of the model

VARIABLES world,    \* the slots that were observed
          end,      \* end of the newest read
          fits,     \* the fits made so far
          points    \* the newest forecasts: family -> what each step rests on

vars == <<world, end, fits, points>>

Families == {"seasonal_naive", "statistical"}
Unavailable == [s \in {} |-> {}]

Init ==
  /\ world \in SUBSET (0 .. LastSlot)
  /\ end = FirstEnd /\ fits = {}
  /\ points = [f \in Families |-> Unavailable]

----------------------------------------------------------------------------
(* Series.from_grid: the read that ends at e.                              *)
StartOf(e) == Max({0, e - HistorySlots + 1})
SeriesOf(e) == {s \in world : StartOf(e) <= s /\ s <= e}

LatestObserved(S) == Max(S)

(* profile: the same slot on earlier days, with enough support.            *)
Profile(S, t) ==
  LET days == S \cap {t - d * Season : d \in 1 .. ProfileDays}
  IN IF Cardinality(days) >= MinSupport THEN days ELSE {}

(* residual, {} when it is missing.                                        *)
Residual(S, t) == IF t \in S /\ Profile(S, t) # {} THEN Profile(S, t) \cup {t} ELSE {}

(* fit_ar: the rows of the window with their lags.                         *)
ArRows(S, start, cutoff) ==
  {t \in Max({start + ArOrder, cutoff - ArWindow + 1 + ArOrder}) .. cutoff :
     \A k \in 0 .. ArOrder : Residual(S, t - k) # {}}

FitAr(rows) == Cardinality(rows) >= MinRows /\ Max(rows) - Min(rows) >= MinSpan

(* complete_segment_start: the longest complete run that ends at cutoff.   *)
SegmentStart(S, start, cutoff) ==
  Min({j \in Max({start, cutoff - HwMax + 1}) .. cutoff : j .. cutoff \subseteq S})

(* fit_e1: enough history, most of the window, and a complete segment for  *)
(* Holt-Winters.                                                           *)
Fits(S, start, cutoff) ==
  /\ cutoff - start + 1 >= MinHistory
  /\ Cardinality(S \cap (cutoff - ArWindow + 1 .. cutoff)) >= MinObserved
  /\ cutoff - SegmentStart(S, start, cutoff) + 1 >= HwMin
  /\ FitAr(ArRows(S, start, cutoff))

(* The first slot of input_sha256.                                         *)
InputLow(S, start, cutoff) ==
  Max({start, Min({SegmentStart(S, start, cutoff),
                   cutoff - ArWindow + 1 - ProfileDays * Season - ArOrder})})

(* fit_hw: the segment the Holt-Winters state was fitted through.          *)
FitHw(S, start, cutoff) == SegmentStart(S, start, cutoff) .. cutoff

(* Series.digest.                                                          *)
Digest(S, lo, hi) == <<lo, hi, S \cap (lo .. hi)>>

E1Fit(S, start, cutoff) ==
  LET lo == InputLow(S, start, cutoff)
  IN [cutoff |-> cutoff, sha |-> Digest(S, lo, cutoff),
      hw |-> FitHw(S, start, cutoff),
      ar |-> [t \in ArRows(S, start, cutoff) |-> [k \in 0 .. ArOrder |-> Residual(S, t - k)]]]

----------------------------------------------------------------------------
Targets(e) == e + 1 .. e + Steps

(* seasonal_naive: all lagged slots, or nothing.                           *)
SeasonalNaive(S, from, targets) ==
  IF \A s \in targets : s - Season \in S /\ s - Season <= from
  THEN [s \in targets |-> {s - Season}] ELSE Unavailable

(* The guards of forecast_e1 on the fit and the targets.                   *)
Reaches(f, S, from, targets) ==
  f.cutoff <= from /\ \A s \in targets : s > from /\ s - from <= Season

(* Mutant: the observations since the fit may have gaps.                   *)
SupportedGappy(f, S, from, targets) ==
  \A k \in 0 .. ArOrder - 1 : Residual(S, from - k) # {} /\ \A s \in targets : Profile(S, s) # {}

(* The observations since the fit are complete, the recursion is seeded    *)
(* and every target has its profile.                                       *)
Supported(f, S, from, targets) ==
  /\ f.cutoff + 1 .. from \subseteq S
  /\ \A k \in 0 .. ArOrder - 1 : Residual(S, from - k) # {}
  /\ \A s \in targets : Profile(S, s) # {}

(* forecast_e1: no partial result.                                         *)
ForecastE1(f, S, from, targets) ==
  IF Reaches(f, S, from, targets) /\ Supported(f, S, from, targets)
  THEN [s \in targets |->
          Profile(S, s) \cup (f.cutoff + 1 .. from) \cup f.hw
            \cup UNION {Residual(S, from - k) : k \in 0 .. ArOrder - 1}]
  ELSE Unavailable

----------------------------------------------------------------------------
Slide ==
  /\ end < LastSlot /\ end' = end + 1
  /\ points' = [f \in Families |-> Unavailable]
  /\ UNCHANGED <<world, fits>>

Fit ==
  LET S == SeriesOf(end)
  IN /\ S # {} /\ Cardinality(fits) < MaxFits
     /\ Fits(S, StartOf(end), LatestObserved(S))
     /\ fits' = fits \cup {E1Fit(S, StartOf(end), LatestObserved(S))}
     /\ UNCHANGED <<world, end, points>>

(* shadow_candidates: each family under its own name, or unavailable.  The *)
(* targets follow the decision origin, at or after the read.               *)
Forecast ==
  LET S == SeriesOf(end)
  IN /\ S # {}
     /\ \E f \in fits, origin \in {end, end + 1} :
          points' = [n \in Families |->
                       IF n = "statistical"
                       THEN ForecastE1(f, S, LatestObserved(S), Targets(origin))
                       ELSE SeasonalNaive(S, LatestObserved(S), Targets(origin))]
     /\ UNCHANGED <<world, end, fits>>

Next == Slide \/ Fit \/ Forecast

Spec == Init /\ [][Next]_vars

----------------------------------------------------------------------------
(* Properties                                                              *)

(* A forecast rests only on values observed by its read's end, whatever    *)
(* gaps the history has and however old its fit is (statistical.py:143,    *)
(* 351-386): nothing missing is invented, nothing later is read.           *)
PointsObserved ==
  \A n \in Families : \A s \in DOMAIN points[n] :
    points[n][s] # {} /\ points[n][s] \subseteq world /\ \A t \in points[n][s] : t <= end /\ t < s

(* The input digest of a fit covers every value the fit was computed from, *)
(* wherever its read starts (statistical.py:346-348).                      *)
DigestCovers ==
  \A f \in fits :
    (f.hw \cup UNION UNION {{f.ar[t][k] : k \in 0 .. ArOrder} : t \in DOMAIN f.ar}) \subseteq f.sha[3]
=============================================================================
