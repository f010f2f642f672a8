----------------------------- MODULE EventRules -----------------------------
(***************************************************************************)
(* The rules of deploy/prodcluster/infra_events.py that turn observations  *)
(* into intervals and intervals into the class of a capacity slot: gaps,   *)
(* bad_runs, Events.add, gate_status and Classifier.  Times are ticks of   *)
(* one scrape; Lo and Hi bound the history that is read.                   *)
(***************************************************************************)
EXTENDS Integers, FiniteSets, FiniteSetsExt

CONSTANTS Lo, Hi, SlotLen, HourLen, Washout, KsmGap, None

Window == Lo + Washout + HourLen
Grid == {t \in Window..(Hi - 1) : (t - Window) % SlotLen = 0}

Before(S, t) == {x \in S : x < t}
After(S, t) == {x \in S : x > t}
Neighbours(S) == {<<t, Min(After(S, t))>> : t \in S \ {Max(S)}}

(* gaps: the stretches of a..b without observations at most KsmGap apart. *)
Missing(S, a, b) ==
  LET inside == {t \in S : a <= t /\ t <= b}
  IN  IF b < a THEN {}
      ELSE IF inside = {} THEN {<<a, b>>}
      ELSE {g \in Neighbours(inside) \union {<<a, Min(inside)>>, <<Max(inside), b>>} : g[2] - g[1] > KsmGap}

(* bad_runs: the maximal runs of observations obs that are not healthy, with *)
(* the healthy observations that bracket them.                               *)
BadRuns(obs, healthy) ==
  LET bad == obs \ healthy
      first == {t \in bad : Before(obs, t) = {} \/ Max(Before(obs, t)) \in healthy}
      run(t) == {x \in bad : x >= t /\ ~\E y \in healthy : t < y /\ y < x}
  IN  {[first |-> t, last |-> Max(run(t)),
        before |-> IF Before(obs, t) = {} THEN None ELSE Max(Before(obs, t)),
        after |-> IF After(obs, Max(run(t))) = {} THEN None ELSE Min(After(obs, Max(run(t))))] : t \in first}

(* Mutant: an event lasts from its first to its last observation. *)
SegmentsBare(r, status, floor) ==
  IF status = "system_outcome" THEN {} ELSE {<<r.first, r.last, status>>}

(* Events.add: the bracketed interval keeps the event's status; a side with  *)
(* no bracket is unknown to the edge of the history or of the subject's life. *)
Segments(r, status, floor) ==
  (IF status = "system_outcome" THEN {}
   ELSE {<<IF r.before = None THEN r.first ELSE r.before, IF r.after = None THEN r.last ELSE r.after, status>>})
  \union (IF r.before = None /\ Max({Lo, floor}) < r.first THEN {<<Max({Lo, floor}), r.first, "unknown">>} ELSE {})
  \union (IF r.after = None /\ r.last < Hi THEN {<<r.last, Hi, "unknown">>} ELSE {})

Unknown(gaps) == {<<g[1], g[2], "unknown">> : g \in gaps}

(* gate_status: "verified" needs a finalized qualifying pass of every arm. *)
GateStatus(rows, arms) ==
  IF DOMAIN rows # arms THEN "unverified"
  ELSE IF \A a \in arms : rows[a] = "pass" THEN "verified"
  ELSE IF \A a \in arms : rows[a] \in {"pass", "fail"} THEN "gate_fail"
  ELSE "unverified"

(* Classifier.capacity: the worst of what touches [t, t + SlotLen), every   *)
(* interval extended by the washout.                                         *)
Hour(t) == HourLen * (t \div HourLen)
Capacity(t, segments, gates) ==
  LET hit == {s[3] : s \in {s \in segments : s[1] < t + SlotLen /\ s[2] + Washout >= t}}
      status == {gates[Hour(h)] : h \in t..(t + SlotLen - 1)}
  IN  IF "invalid" \in hit THEN "invalid"
      ELSE IF "unknown" \in hit THEN "unknown"
      ELSE IF "unverified" \in status THEN "unverified"
      ELSE IF "gate_fail" \in status THEN "gate_fail"
      ELSE "verified_clean"

Resolved(attribution) ==
  [none |-> "unknown", infrastructure |-> "invalid", system |-> "system_outcome"][attribution]
=============================================================================
