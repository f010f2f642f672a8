---------------------------- MODULE Calibration ----------------------------
(***************************************************************************)
(* Adaptive calibration of one candidate                                   *)
(* (ml-engine/forecasting/calibration.py): the buffer of cohort residuals, *)
(* the working miscoverage level and the upper bound read from them.       *)
(*                                                                         *)
(* Outcomes arrive in journal order, which need not be the order of their  *)
(* windows, and may be delivered again.  The level is an exact integer in  *)
(* units of 1 / Bps^2, as in the code.  Sums of errors and losses are left *)
(* out.                                                                    *)
(***************************************************************************)
EXTENDS Integers, Sequences, FiniteSets, FiniteSetsExt, SequencesExt

CONSTANTS Bps,                          \* basis points of one (10 000 in the code)
          Nominal, Eta, MinBps, MaxBps, \* the policy, in basis points
          MinWindows, MaxScores,        \* min_windows, max_scores
          Retention, Lead,
          Scores,                       \* possible residuals Y - b
          Origins, MaxRecords           \* bounds of the model

(* CalibrationPolicy.__post_init__ and contracts._check_feasible.          *)
PolicyFeasible ==
  /\ Bps \in Nat \ {0}
  /\ Nominal \in Nat /\ Eta \in 0 .. Bps /\ MinBps \in Nat /\ MaxBps \in Nat
  /\ 0 < MinBps /\ MinBps <= Nominal /\ Nominal <= MaxBps /\ MaxBps < Bps
  /\ MinWindows \in Nat \ {0} /\ MaxScores \in Nat /\ MaxScores >= MinWindows
  /\ Lead \in Nat \ {0} /\ Retention \in Nat
  /\ (MinWindows + 1) * MinBps >= Bps

VARIABLES level,     \* a_e8
          scores,    \* the buffer: <<window end, residual>> pairs
          newest,    \* newest_window_end, 0 for none
          bounded,   \* gate.bounded
          covered,   \* gate.covered
          atBound,   \* at_bound
          lastSeq,   \* last_seq
          journal    \* the outcomes in sequence order

state == <<level, scores, newest, bounded, covered, atBound, lastSeq>>
vars == <<state, journal>>

E8 == Bps * Bps
Statuses == {"unscorable", "unbounded", "covered", "missed"}
Record == [origin : Origins, status : Statuses, score : Scores]

TypeOK ==
  /\ level \in MinBps * Bps .. MaxBps * Bps
  /\ scores \subseteq (Nat \X Scores) /\ Cardinality(scores) <= MaxScores
  /\ newest \in Nat
  /\ bounded \in Nat /\ covered \in 0 .. bounded /\ atBound \in 0 .. bounded
  /\ lastSeq \in 0 .. Len(journal)
  /\ journal \in Seq(Record)

Init ==
  /\ level = Nominal * Bps
  /\ scores = {} /\ newest = 0
  /\ bounded = 0 /\ covered = 0 /\ atBound = 0
  /\ lastSeq = 0 /\ journal = <<>>

InCohort(origin) == origin % Lead = 0
End(r) == r.origin + Lead

----------------------------------------------------------------------------
(* Applying a record                                                       *)

Later(a, b) == IF a > b THEN a ELSE b

(* Mutant: the newest scores by arrival are kept, not by window end.       *)
TrimArrived(S, n, added) ==
  LET recent == {x \in S : x[1] > n - Retention}
  IN IF Cardinality(recent) <= MaxScores THEN recent
     ELSE recent \ {CHOOSE x \in recent \ {added} : TRUE}

(* Within the retention of the newest end, the newest MaxScores by end.    *)
Trim(S, n, added) ==
  LET recent == {x \in S : x[1] > n - Retention}
  IN {x \in recent : Cardinality({y \in recent : y[1] > x[1]}) < MaxScores}

Clip(a) == IF a < MinBps * Bps THEN MinBps * Bps ELSE IF a > MaxBps * Bps THEN MaxBps * Bps ELSE a

Moved(miss) == level + Eta * (Nominal - miss * Bps)

(* apply: only a bound actually issued moves the level.                    *)
UpdateLevel(r) ==
  LET miss == IF r.status = "missed" THEN 1 ELSE 0
      a == Moved(miss)
  IN /\ bounded' = bounded + 1
     /\ covered' = covered + 1 - miss
     /\ atBound' = atBound + IF a <= MinBps * Bps \/ a >= MaxBps * Bps THEN 1 ELSE 0
     /\ level' = Clip(a)

(* apply for a record not applied before.                                  *)
Fold(r) ==
  /\ lastSeq' = lastSeq + 1
  /\ \/ /\ r.status = "unscorable" \/ ~InCohort(r.origin)
        /\ UNCHANGED <<level, scores, newest, bounded, covered, atBound>>
     \/ /\ r.status # "unscorable" /\ InCohort(r.origin)
        /\ newest' = Later(End(r), newest)
        /\ scores' = Trim(scores \cup {<<End(r), r.score>>}, newest', <<End(r), r.score>>)
        /\ \/ r.status = "unbounded" /\ UNCHANGED <<level, bounded, covered, atBound>>
           \/ r.status # "unbounded" /\ UpdateLevel(r)

(* An outcome is journaled, in any order of the windows.                   *)
Outcome(r) ==
  /\ Len(journal) < MaxRecords
  /\ \A n \in DOMAIN journal : journal[n].origin # r.origin
  /\ journal' = Append(journal, r)
  /\ UNCHANGED state

(* apply: records are delivered in sequence order, a record applied before *)
(* may be delivered again and changes nothing.                             *)
Deliver(n) ==
  /\ n <= lastSeq + 1
  /\ \/ n > lastSeq /\ Fold(journal[n])
     \/ n <= lastSeq /\ UNCHANGED state
  /\ UNCHANGED journal

Next ==
  \/ \E r \in Record : Outcome(r)
  \/ \E n \in DOMAIN journal : Deliver(n)

Spec == Init /\ [][Next]_vars

----------------------------------------------------------------------------
(* Reading the bound                                                       *)

(* rank: ceil((n + 1)(1 - a)).                                             *)
Rank(n, a) == -((-((n + 1) * (E8 - a))) \div E8)

(* buffered_scores.                                                        *)
Buffered(t) == {x \in scores : t - Retention < x[1] /\ x[1] <= t}

(* upper_bound has a quantile to add to the point maximum.                 *)
BoundAvailable(t) ==
  LET n == Cardinality(Buffered(t)) IN n >= MinWindows /\ Rank(n, level) <= n

----------------------------------------------------------------------------
(* Properties                                                              *)

(* The buffer depends on the outcomes, not on the order they arrived in:   *)
(* the newest MaxScores cohort residuals by window end, within the         *)
(* retention of the newest end (calibration.py:198-202).                   *)
BufferExact ==
  LET scored == {r \in Range(SubSeq(journal, 1, lastSeq)) : r.status # "unscorable" /\ InCohort(r.origin)}
      last == Max({0} \cup {End(r) : r \in scored})
      kept == {r \in scored : End(r) > last - Retention}
  IN scores = {<<End(r), r.score>> : r \in {q \in kept :
                 Cardinality({p \in kept : End(p) > End(q)}) < MaxScores}}

(* While the level was never clipped, it carries exactly the coverage      *)
(* debt: the nominal misses so far less the actual ones, times the gain.   *)
(* Bounded levels then bound how far coverage can be from nominal          *)
(* (calibration.py:203-212).                                               *)
LevelTracksCoverage ==
  atBound = 0 => level = Nominal * Bps + Eta * (Nominal * bounded - Bps * (bounded - covered))

(* A calibrated candidate always has a bound: with MinWindows scores the   *)
(* rank never exceeds the sample, however far the level has moved          *)
(* (contracts.py:314-316).                                                 *)
CalibratedHasBound ==
  \A o \in Origins : Cardinality(Buffered(o + Lead)) >= MinWindows => BoundAvailable(o + Lead)
============================================================================
