------------------------------ MODULE LstmBlend ------------------------------
(***************************************************************************)
(* The hybrid forecaster: the blend weight each training selects on its    *)
(* held-out partition, the evidence it hands to the next training through  *)
(* the sidecar, and the blend a forecast serves.  Code:                    *)
(* ml-engine/training/blend_selection.py, the selection part of            *)
(* training/train_lstm_from_vm.py, and predict, _pattern_forecast and      *)
(* evaluate of models/lstm_model.py.                                       *)
(*                                                                         *)
(* Errors are small integers, one per candidate and partition; partitions  *)
(* hold the same number of origins, so pooled means compare as sums.  The  *)
(* block bootstrap gives any answer ("bounded": the candidates whose lower *)
(* bound over the reference is positive).  A weight is 0, 1 or            *)
(* something between, which is all that decides which terms are served.    *)
(***************************************************************************)
EXTENDS Integers, Sequences, FiniteSets, FiniteSetsExt, SequencesExt

CONSTANTS
  Order,      \* CANDIDATES by name, in order; the last is BASELINE
  Errors,     \* held-out errors tried
  Margin,     \* 1 / min_gain
  Pool,       \* pool_partitions
  Steps,      \* steps of a forecast
  None,
  MaxTrainings

VARIABLES
  sidecar,    \* the previous training's blend_selection record, or None
  past,       \* evidence of every training since the sidecar was lost, newest first
  verdict,    \* the latest decision: chosen, the partitions pooled, the path taken
  out         \* the latest forecast, or None

vars == <<sidecar, past, verdict, out>>

Candidates == ToSet(Order)
Baseline == Last(Order)
Index(c) == CHOOSE i \in 1..Len(Order) : Order[i] = c
Network == Candidates \ {Baseline}

-----------------------------------------------------------------------------
(* decide *)

Pooled(parts, c) == FoldLeft(LAMBDA sum, p : sum + p[c], 0, parts)

(* Candidates scored on every pooled partition. *)
Usable(parts) == {c \in Candidates : \A i \in 1..Len(parts) : c \in DOMAIN parts[i]}

(* The gain is 0 when the reference's error is 0. *)
GainReaches(parts, c, ref) ==
  LET r == Pooled(parts, ref) IN r > 0 /\ (r - Pooled(parts, c)) * Margin >= r

(* Mutant: a stored choice is kept whatever the evidence says. *)
HoldsAlways(parts, c) == TRUE

(* hold_gain is 0. *)
Holds(parts, c) == LET r == Pooled(parts, Baseline) IN r = 0 \/ Pooled(parts, c) <= r

Beats(parts, c, ref, bounded) == GainReaches(parts, c, ref) /\ c \in bounded

(* The largest gain; ties keep the earlier candidate. *)
Best(parts, S) ==
  CHOOSE c \in S : \A d \in S :
    \/ Pooled(parts, c) < Pooled(parts, d)
    \/ Pooled(parts, c) = Pooled(parts, d) /\ Index(c) <= Index(d)

Decide(parts, previous, bounded) ==
  LET network == Usable(parts) \ {Baseline}
      incumbent == previous \in network /\ Holds(parts, previous)
      ref == IF incumbent THEN previous ELSE Baseline
      winners == {c \in network \ {previous} : Beats(parts, c, ref, bounded)}
                   \union {c \in network \intersect {previous} : ~incumbent /\ Beats(parts, c, ref, bounded)}
  IN  [chosen |-> IF winners # {} THEN Best(parts, winners) ELSE ref,
       parts  |-> parts,
       path   |-> IF winners # {} THEN "beat" ELSE IF incumbent THEN "held" ELSE "default"]

-----------------------------------------------------------------------------
(* history_from_sidecar and the pooling of select_blend_weight *)

Unscored == [chosen |-> Order[1], parts |-> <<>>, path |-> "unscored"]

Newest(s, n) == SubSeq(s, 1, IF Len(s) < n THEN Len(s) ELSE n)

(* A record without a decision under this rule contributes nothing. *)
History(rec) == IF rec = None THEN <<>> ELSE Newest(rec.parts, Pool - 1)

Previous(rec) == IF rec = None \/ rec.path = "unscored" THEN None ELSE rec.chosen

(* evaluate: with a finite network every candidate is scored.  With a network *)
(* that is not, only the pattern alone is, and only where every held-out step *)
(* has its own previous-day observation; no pattern at all makes every        *)
(* candidate the network.                                                     *)
Evidence(net, pat) ==
  CASE net /\ pat # "none"  -> [Candidates -> Errors]
    [] net /\ pat = "none"  -> {[c \in Candidates |-> e] : e \in Errors}
    [] ~net /\ pat = "all"  -> [{Baseline} -> Errors]
    [] OTHER                -> {<<>>}

(* The network candidates whose block-bootstrap lower bound lies above the *)
(* threshold: any of them, by the seeded resampling of gain_stats.         *)
Resampled == SUBSET Network

-----------------------------------------------------------------------------
(* predict *)

(* The steps at which the network gives a finite number, none when it fails, and *)
(* the steps for which _pattern_forecast finds a previous day's observation.     *)
Networks == [Steps -> BOOLEAN]
Patterns == [Steps -> BOOLEAN]

(* The override is None for the ramp, a constant for the others. *)
Schedule(c) == IF c = Baseline THEN "all" ELSE "part"

WeightFor(c, available) == IF available THEN Schedule(c) ELSE "zero"

StepWeight(c, finite, available) ==
  IF ~finite /\ available THEN "all" ELSE WeightFor(c, available)

Terms(weight) ==
  CASE weight = "all"  -> {"pattern"}
    [] weight = "zero" -> {"network"}
    [] OTHER           -> {"network", "pattern"}

(* What the confidence rests on.  The pattern's per-step support stands in when *)
(* the network has no share of what is served or there is nothing to compare.   *)
Rests(weights, finite, available) ==
  CASE \A s \in Steps : ~available[s] -> "neutral"
    [] /\ \E s \in Steps : weights[s] # "all"
       /\ \E s \in Steps : available[s] /\ finite[s] -> "agreement"
    [] OTHER -> "support"

-----------------------------------------------------------------------------
Init == sidecar = None /\ past = <<>> /\ verdict = Unscored /\ out = None

(* train_lstm_for_metric hands the selection's record to the sidecar. *)
HandsOn(v) == verdict' = v /\ sidecar' = v

(* One training: score the candidates, pool, decide, set the weight, write the *)
(* record the next training reads.  Without a scored baseline the deployed ramp *)
(* is kept and the chain of evidence ends.                                      *)
Train(e, bounded) ==
  LET parts == <<e>> \o History(sidecar)
      v == IF Baseline \in DOMAIN e THEN Decide(parts, Previous(sidecar), bounded) ELSE Unscored
  IN  /\ Len(past) < MaxTrainings
      /\ HandsOn(v)
      /\ past' = <<e>> \o past
      /\ out' = None

(* The sidecar of another signal, another rule, or none at all. *)
SidecarLost == sidecar # None /\ sidecar' = None /\ past' = <<>> /\ UNCHANGED <<verdict, out>>

(* One forecast: a network that fails is not finite at any step. *)
Predict(finite, available) ==
  LET w == [s \in Steps |-> StepWeight(verdict.chosen, finite[s], available[s])]
  IN  /\ past # <<>>
      /\ out = None
      /\ out' = [terms |-> [s \in Steps |-> Terms(w[s])], finite |-> finite,
                 available |-> available, rests |-> Rests(w, finite, available)]
      /\ UNCHANGED <<sidecar, past, verdict>>

Next ==
  \/ \E e \in UNION {Evidence(net, pat) : net \in BOOLEAN, pat \in {"all", "some", "none"}} :
       \E bounded \in Resampled : Train(e, bounded)
  \/ SidecarLost
  \/ \E finite \in Networks, available \in Patterns : Predict(finite, available)

Spec == Init /\ [][Next]_vars

-----------------------------------------------------------------------------
(* The evidence a decision rests on is the held-out partitions of the latest *)
(* consecutive scored trainings of the signal, newest first, never more than *)
(* pool_partitions of them and every one with the baseline scored            *)
(* (history_from_sidecar over any run of trainings).                         *)
PoolIsRecent ==
  verdict.path # "unscored" /\ past # <<>> =>
    LET scored == {n \in 1..Len(past) : \A i \in 1..n : Baseline \in DOMAIN past[i]}
    IN  verdict.parts = Newest(past, Min({Pool, Max(scored)}))

(* The network earns its share: the blend a training leaves behind is never  *)
(* worse than the pattern alone on the evidence it pooled, the incumbent kept *)
(* by hysteresis included (decide).  A baseline without error has no gain     *)
(* defined over it, and there the incumbent stays.                            *)
NetworkEarns ==
  verdict.path # "unscored" /\ Pooled(verdict.parts, Baseline) > 0 =>
    Pooled(verdict.parts, verdict.chosen) <= Pooled(verdict.parts, Baseline)

(* A served step uses only terms that exist: a network that is not finite and *)
(* a pattern without an observation reach no served value unless neither can  *)
(* serve it, and the confidence compares the two only where both are in what  *)
(* is served (predict, serve_step).                                           *)
ServedGenuine ==
  out # None =>
    /\ \A s \in Steps : out.finite[s] \/ out.available[s] =>
         /\ "network" \in out.terms[s] => out.finite[s]
         /\ "pattern" \in out.terms[s] => out.available[s]
    /\ out.rests = "agreement" => \E s \in Steps : "network" \in out.terms[s]
=============================================================================
