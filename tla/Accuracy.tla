------------------------------ MODULE Accuracy ------------------------------
(***************************************************************************)
(* The LSTM service's own accuracy: every answered request scores the      *)
(* forecasts that its latest observation matures, queues its own steps and *)
(* scores its components (the /predict handler of api/main.py with         *)
(* api/accuracy.py), for one signal.  The handler has no await here, so a  *)
(* request is one step.  A benchmark arm is served by the ensemble path of *)
(* the same handler, whose only component is the margin-free forecast.     *)
(*                                                                         *)
(* A queued forecast is the number of the request that issued it and its   *)
(* target time; its value is left out.  "final" stands for the served      *)
(* steps, "part" for any component.  Time is in units of the tolerance, *)
(* Grid of them to a forecast step.                                        *)
(***************************************************************************)
EXTENDS Integers, Sequences, FiniteSets, SequencesExt

CONSTANTS Grid, Tolerance,      \* step and tolerance_s
          Steps,                \* steps of the longest horizon
          WindowSize,           \* WINDOW_SIZE
          MaxPending,           \* maxlen of the pending queue
          Day,                  \* the 24 hours WINDOW_SIZE stands for
          MaxTime, MaxRequests  \* bounds of the model

VARIABLES arm,       \* "lstm", or "ensemble" for a benchmark experiment
          pending,   \* kind -> forecasts waiting for their target
          history,   \* kind -> scored forecasts, the newest WINDOW_SIZE
          last,      \* time of the latest observation
          issued,    \* requests answered so far
          gauge,     \* step -> the request its component gauge shows, 0 for none
          scored     \* history: every forecast ever scored, [kind, id, target, at]

vars == <<arm, pending, history, last, issued, gauge, scored>>

Kinds == {"final", "part"}

Init ==
  /\ arm \in {"lstm", "ensemble"} /\ gauge = [i \in 1 .. Steps |-> 0]
  /\ pending = [k \in Kinds |-> <<>>] /\ history = [k \in Kinds |-> <<>>]
  /\ last = 0 /\ issued = 0 /\ scored = {}

Newest(s, n) == IF Len(s) > n THEN SubSeq(s, Len(s) - n + 1, Len(s)) ELSE s

(* Mutant: an observation up to the tolerance before the target counts.    *)
NearTarget(at, f) == at - f.target <= Tolerance /\ f.target - at <= Tolerance

(* take_matured: the target has passed, by at most the tolerance.          *)
Matured(at, f) == at >= f.target /\ at - f.target <= Tolerance

Takes(at, queue) == SelectSeq(queue, LAMBDA f : Matured(at, f))
Keeps(at, queue) == SelectSeq(queue, LAMBDA f : at < f.target)

(* record, record_component.                                               *)
Recorded(k, taken, at) ==
  Newest(history[k] \o [i \in DOMAIN taken |-> [f |-> taken[i], at |-> at]],
         WindowSize)

(* store_forecast for the steps S of the forecast from origin.             *)
Queued(queue, origin, S) ==
  LET steps == SelectSeq([i \in 1 .. Steps |-> i], LAMBDA i : i \in S)
  IN Newest(queue \o [i \in DOMAIN steps |-> [id |-> issued + 1, target |-> origin + Grid * steps[i]]],
            MaxPending)

(* PREDICTION_RPM_GAUGE: the steps of this answer are shown, a step that   *)
(* has no value is removed, and a step beyond the answer is left alone.    *)
Shown(n, S) ==
  [i \in 1 .. Steps |-> IF i \in S THEN issued + 1 ELSE IF i =< n THEN 0 ELSE gauge[i]]

(* What a request at the observation at leaves, given what it takes.       *)
Scores(at, final, part) ==
  /\ issued < MaxRequests /\ issued' = issued + 1 /\ last' = at
  /\ history' = [k \in Kinds |-> Recorded(k, IF k = "final" THEN final ELSE part, at)]
  /\ scored' = scored \cup {[kind |-> "final", f |-> f, at |-> at] : f \in ToSet(final)}
                      \cup {[kind |-> "part", f |-> f, at |-> at] : f \in ToSet(part)}
  /\ UNCHANGED arm

(* predict, from the prediction to the response, for a horizon of n steps. *)
(* The newest observation may lie in a masked interval, then the forecast  *)
(* starts one step before it.  S are the steps the component could         *)
(* forecast.  A zero observation scores nothing.  The served steps are     *)
(* scored before the new ones are queued, the components after.            *)
Serve(at, scores, origin, n, S) ==
  LET final == IF scores THEN Takes(at, pending["final"]) ELSE <<>>
      kept == IF scores THEN Keeps(at, pending["final"]) ELSE pending["final"]
      mid == Queued(pending["part"], origin, S)
      part == IF scores THEN Takes(at, mid) ELSE <<>>
  IN /\ arm = "lstm" /\ Scores(at, final, part)
     /\ pending' = [k \in Kinds |-> IF k = "final" THEN Queued(kept, origin, 1 .. n)
                                    ELSE IF scores THEN Keeps(at, mid) ELSE mid]
     /\ gauge' = Shown(n, S)

(* predict_ensemble: one horizon only, every step finite or the request is *)
(* refused; the served and the margin-free forecasts are both scored       *)
(* before the new ones are queued.                                         *)
ServeEnsemble(at, scores, origin) ==
  LET take(k) == IF scores THEN Takes(at, pending[k]) ELSE <<>>
      kept(k) == IF scores THEN Keeps(at, pending[k]) ELSE pending[k]
  IN /\ arm = "ensemble" /\ Scores(at, take("final"), take("part"))
     /\ pending' = [k \in Kinds |-> Queued(kept(k), origin, 1 .. Steps)]
     /\ gauge' = Shown(Steps, 1 .. Steps)

(* predict, up to the forecast: a request that is malformed, refused or    *)
(* unavailable scores, queues and shows nothing, though it read history.   *)
Refused(at) ==
  /\ last' = at
  /\ UNCHANGED <<arm, pending, history, issued, gauge, scored>>

Next ==
  \E at \in last .. MaxTime :
    \/ Refused(at)
    \/ \E scores \in BOOLEAN, origin \in {at, at - Grid} \cap Nat :
         \/ ServeEnsemble(at, scores, origin)
         \/ \E n \in 1 .. Steps : \E S \in {{}, {1}, 1 .. n} :
              Serve(at, scores, origin, n, S)

Spec == Init /\ [][Next]_vars

----------------------------------------------------------------------------
(* Properties                                                              *)

(* A forecast is scored at most once, only by an observation at or after   *)
(* its target and within the tolerance, whatever order requests, gaps and  *)
(* empty observations come in (C-48, C-87, accuracy.py:117-149).           *)
ScoredOnTime ==
  \A s \in scored :
    /\ s.f.target <= s.at /\ s.at <= s.f.target + Tolerance
    /\ \A q \in scored : q.kind = s.kind /\ q.f = s.f => q.at = s.at

(* The component gauges show the latest answer or nothing: "an unavailable *)
(* step must not keep showing last time's value" (main.py:1086-1090).      *)
GaugesCurrent == \A i \in 1 .. Steps : gauge[i] \in {0, issued}

(* The history is the rolling day that its size stands for: what was       *)
(* scored within the last day still counts (accuracy.py:3-5).              *)
WindowIsADay ==
  \A s \in scored : s.at > last - Day => \E i \in DOMAIN history[s.kind] : history[s.kind][i].f = s.f
============================================================================
