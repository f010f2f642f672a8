------------------------------ MODULE LoadGate ------------------------------
(***************************************************************************)
(* deploy/prodcluster/collect_load_evidence.py: the verdict of one arm and *)
(* hour from bounds on three counts (gate), and the coverage test used by  *)
(* every observation of it (covers).  Bounds are pairs <<low, high>>.      *)
(***************************************************************************)
EXTENDS Integers, FiniteSets, FiniteSetsExt

CONSTANTS
  Planned,     \* requests the profile plans for the hour
  Slack,       \* 5 % of them
  MaxFailed,   \* 0.1 % of them
  MaxDropped,  \* 0.05 % of them: iterations the generator may drop
  None

(* Timestamps bracket [a, b] and no two neighbours there are more than gap apart. *)
Covers(ts, a, b, gap) ==
  LET left == {t \in ts : t <= a}
      right == {t \in ts : t >= b}
      seg == {t \in ts : t >= Max(left) /\ t <= Min(right)}
  IN  /\ left # {} /\ right # {}
      /\ \A t \in seg : t = Max(seg) \/ \E u \in seg : t < u /\ u - t <= gap

Within(n) == Planned - Slack <= n /\ n <= Planned + Slack

(* Mutant: the verdict rests on the lower bounds. *)
GateByLow(observed, failed, dropped) ==
  IF Within(observed[1]) /\ failed[1] <= MaxFailed /\ dropped[1] <= MaxDropped THEN "PASS" ELSE "FAIL"

(* PASS when every value of the bounds passes, FAIL when none does. *)
Gate(observed, failed, dropped) ==
  LET worst == Within(observed[1]) /\ Within(observed[2]) /\ failed[2] <= MaxFailed /\ dropped[2] <= MaxDropped
      best == /\ observed[1] <= Planned + Slack /\ observed[2] >= Planned - Slack
              /\ failed[1] <= MaxFailed /\ dropped[1] <= MaxDropped
  IN  CASE worst -> "PASS" [] ~best -> "FAIL" [] OTHER -> "INCOMPLETE"

(* What the verdict claims of the true counts. *)
Sound(verdict, requests, failures) ==
  /\ verdict = "PASS" => Within(requests) /\ failures <= MaxFailed
  /\ verdict = "FAIL" => ~(Within(requests) /\ failures <= MaxFailed)
=============================================================================
