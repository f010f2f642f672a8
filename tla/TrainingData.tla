---------------------------- MODULE TrainingData ----------------------------
(***************************************************************************)
(* How a fetched history becomes the rows a network is trained on, or the  *)
(* window a forecast is made from: ml-engine/data/gapfill.py, the preflight *)
(* of ml-engine/training/train_lstm_from_vm.py and the split of             *)
(* ml-engine/models/lstm_model.py.                                          *)
(*                                                                         *)
(* A history is the set of ten-minute slots that hold a finite sample; the *)
(* values play no part in any decision made here.  Slots are counted in    *)
(* grid steps, so "GRID_S" is 1 and a row of the selected run is the slot   *)
(* minus the run's first slot.                                             *)
(***************************************************************************)
EXTENDS Integers, FiniteSets, FiniteSetsExt

CONSTANTS
    Last,             \* the newest slot a history can hold
    SequenceLength,   \* rows a sequence reads
    StepsAhead,       \* rows a sequence is labelled by
    MinRows,          \* min_data_points: 60 or 120 rows, fewer than the preflight wants
    MaxMissing,       \* MAX_MISSING_SLOTS
    FillParts,        \* 1 / MAX_FILL_FRACTION
    MaxAge,           \* max_age_s of an inference input, in slots
    Masks,            \* the validity masks tried: sets of intervals <<a, b>>
    Starts,           \* the benchmark_history_start values tried
    Boundaried        \* the raw run length from which a boundary is declared

VARIABLES
    phase,    \* "fetch" -> "mask" -> "fill" -> "cap" -> "decide" -> "train" -> "done" | "refused"
    use,      \* "train" or "infer"
    points,   \* the observed slots
    mask, start,
    bounds,   \* partition boundaries declared to the fill
    filled,   \* the slots filled by interpolation
    budget,   \* what the preflight promises: training and validation sequences
    split     \* what training gets: the same two sets, or the inference window

vars == <<phase, use, points, mask, start, bounds, filled, budget, split>>

Slots == 0..Last
NoSplit == [train |-> {}, val |-> {}]

-----------------------------------------------------------------------------
(* Runs of consecutive slots. *)

\* the slots of S reachable from e through consecutive slots of S
RunEndingAt(S, e) == {s \in S : s <= e /\ s..e \subseteq S}

\* the first of the longest contiguous runs
LongestRun(S) ==
    LET ends == {e \in S : e + 1 \notin S}
        best == Max({Cardinality(RunEndingAt(S, e)) : e \in ends})
    IN  RunEndingAt(S, Min({e \in ends : Cardinality(RunEndingAt(S, e)) = best}))

Select(S) == IF use = "infer" THEN RunEndingAt(S, Max(points)) ELSE LongestRun(S)

\* int(0.8 * n)
FourFifths(n) == (8 * n) \div 10

-----------------------------------------------------------------------------
(* The fill rule. *)

Gaps(S) == {g \in S \X S : /\ g[2] - g[1] > 1
                           /\ \A t \in S : t <= g[1] \/ t >= g[2]}

Inside(g) == (g[1] + 1)..(g[2] - 1)

Partition(t, cuts) == Cardinality({b \in cuts : t >= b})

\* Mutant: the validity mask does not stop a fill.
FillableMasked(g, cuts) ==
    /\ Cardinality(Inside(g)) <= MaxMissing
    /\ Partition(g[1], cuts) = Partition(g[2], cuts)

\* the cutoff is the newest observation of the same history, in training and in
\* inference, so no right endpoint is ever later than it
Fillable(g, cuts) ==
    /\ Cardinality(Inside(g)) <= MaxMissing
    /\ Partition(g[1], cuts) = Partition(g[2], cuts)
    /\ \A i \in mask : ~ (i[1] <= g[2] - 1 /\ i[2] >= g[1] + 1)

FilledGaps == {g \in Gaps(points) : Inside(g) \subseteq filled}

Run == Select(points \union filled)

OverCap == Cardinality(Run \intersect filled) * FillParts > Cardinality(Run)

-----------------------------------------------------------------------------
(* Sequence i of n rows reads rows i..i+SequenceLength-1 and is labelled by *)
(* the StepsAhead rows after them.                                          *)

Labels(i) == (i + SequenceLength)..(i + SequenceLength + StepsAhead - 1)

Sequences(n) == 0..(n - SequenceLength - StepsAhead)

\* Mutant: the list of sequences is cut, not the time axis.
CutSequences(n, imputed) ==
    LET k == FourFifths(Cardinality(Sequences(n)))
    IN  [train |-> {i \in Sequences(n) : i < k},
         val   |-> {i \in Sequences(n) : i >= k /\ Labels(i) \intersect imputed = {}}]

\* purged_split_indices over n rows, of which the rows in "imputed" are filled
PurgedSplit(n, imputed) ==
    LET row == FourFifths(n)
        train == {i \in Sequences(n) : Max(Labels(i)) < row}
    IN  [train |-> train,
         val   |-> {i \in Sequences(n) \ train : /\ Min(Labels(i)) >= row
                                                 /\ Labels(i) \intersect imputed = {}}]

Row(s) == s - Min(Run)
ImputedRows == {Row(s) : s \in Run \intersect filled}

\* the rows of the outer training part, the only ones the network is given
TrainRows == FourFifths(Cardinality(Run))
InTraining(rows) == {r \in rows : r < TrainRows}

\* Mutant: the preflight counts sequences whose labels were filled.
PromisedUnfiltered == PurgedSplit(TrainRows, {})

\* the split the preflight counts
Promised == PurgedSplit(TrainRows, InTraining(ImputedRows))

-----------------------------------------------------------------------------
Init ==
    /\ phase = "fetch"
    /\ use = "train"
    /\ points = {} /\ mask = {} /\ start = 0
    /\ bounds = {} /\ filled = {}
    /\ budget = NoSplit /\ split = NoSplit

\* query_history: whatever the metric store has of the range asked for
Histories == SUBSET Slots

\* Samples that are not finite, off the grid or doubled are dropped before
\* anything is decided, so what is left is any set of slots.
Fetch ==
    /\ phase = "fetch"
    /\ use' \in {"train", "infer"}
    /\ points' \in Histories
    /\ mask' \in Masks
    /\ start' \in Starts
    /\ phase' = IF points' = {} THEN "refused" ELSE "mask"
    /\ UNCHANGED <<bounds, filled, budget, split>>

\* The history start only binds the benchmark role, which inference is not.
Kept == {t \in points : /\ use = "train" => t >= start
                        /\ \A i \in mask : ~ (i[1] <= t /\ t <= i[2])}

ApplyMask ==
    /\ phase = "mask"
    /\ points' = Kept
    /\ phase' = IF Kept = {} THEN "refused"
                ELSE IF use = "infer" /\ Last - Max(Kept) > MaxAge THEN "refused"
                ELSE "fill"
    /\ UNCHANGED <<use, mask, start, bounds, filled, budget, split>>

\* The boundary declared to the fill is the outer split of the run that would
\* be selected without filling; inference declares none.
Boundaries ==
    LET raw == LongestRun(points)
    IN  IF use = "train" /\ Cardinality(raw) >= Boundaried
        THEN {Min(raw) + FourFifths(Cardinality(raw))}
        ELSE {}

FillGaps ==
    /\ phase = "fill"
    /\ bounds' = Boundaries
    /\ filled' = UNION {Inside(g) : g \in {h \in Gaps(points) : Fillable(h, Boundaries)}}
    /\ phase' = "cap"
    /\ UNCHANGED <<use, points, mask, start, budget, split>>

\* one turn of the cap loop: the latest filled gap of the run is given up
GiveUpLatest ==
    /\ phase = "cap"
    /\ OverCap
    /\ LET latest == Max(Run \intersect filled)
       IN  filled' = filled \ UNION {Inside(g) : g \in {h \in FilledGaps : latest \in Inside(h)}}
    /\ UNCHANGED <<phase, use, points, mask, start, bounds, budget, split>>

CapHolds ==
    /\ phase = "cap"
    /\ ~ OverCap
    /\ phase' = IF use = "infer" THEN "window" ELSE "decide"
    /\ UNCHANGED <<use, points, mask, start, bounds, filled, budget, split>>

\* check_inference_window: the run already ends at the newest observation
Window ==
    /\ phase = "window"
    /\ IF Cardinality(Run) < SequenceLength
       THEN phase' = "refused" /\ UNCHANGED split
       ELSE /\ phase' = "done"
            /\ split' = [NoSplit EXCEPT !.train = (Max(Run) - SequenceLength + 1)..Max(Run)]
    /\ UNCHANGED <<use, points, mask, start, bounds, filled, budget>>

\* preflight_history's verdict
Preflight ==
    /\ phase = "decide"
    /\ budget' = Promised
    /\ phase' = IF Promised.train = {} \/ Promised.val = {} THEN "refused" ELSE "train"
    /\ UNCHANGED <<use, points, mask, start, bounds, filled, split>>

\* train_lstm_for_metric raises on too few rows, and LSTMForecastModel.train on
\* the outer training rows when either part is empty
Train ==
    /\ phase = "train"
    /\ split' = PurgedSplit(TrainRows, InTraining(ImputedRows))
    /\ phase' = IF Cardinality(Run) < MinRows \/ split'.train = {} \/ split'.val = {} THEN "raised" ELSE "done"
    /\ UNCHANGED <<use, points, mask, start, bounds, filled, budget>>

Next == \/ Fetch \/ ApplyMask \/ FillGaps \/ GiveUpLatest
        \/ CapHolds \/ Window \/ Preflight \/ Train

Spec == Init /\ [][Next]_vars

-----------------------------------------------------------------------------
TypeOK ==
    /\ phase \in {"fetch", "mask", "fill", "cap", "window", "decide", "train",
                  "done", "refused", "raised"}
    /\ points \subseteq Slots /\ filled \subseteq Slots
    /\ bounds \subseteq Slots

\* A history that the preflight accepts is never refused by the training it was
\* accepted for: both count the same sequences, the ones whose labels were filled
\* excluded, and the rows it wants are more than the training's minimum
\* (preflight_history, train_lstm_for_metric and LSTMForecastModel.train).
PromiseKept == phase # "raised" /\ (phase = "done" /\ use = "train" => split = budget)

\* No timestamp is at once a training label and a validation label, and no filled
\* slot is a validation label (purged_split_indices, after mask, fill, cap and
\* re-selection).
LabelsClean ==
    phase = "done" /\ use = "train" =>
        LET rows(S) == UNION {Labels(i) : i \in S}
        IN  /\ rows(split.train) \intersect rows(split.val) = {}
            /\ rows(split.val) \intersect ImputedRows = {}
            /\ rows(split.train) \union rows(split.val) \subseteq 0..(TrainRows - 1)

\* The rows or the window used are consecutive, end in observations, hold no masked
\* slot, and at most the declared share of them was filled, each between two
\* observations at most MaxMissing + 1 apart (fill_interior_gaps and its cap loop).
FillWithinRule ==
    phase = "done" =>
        /\ Run = Min(Run)..Max(Run)
        /\ {Min(Run), Max(Run)} \subseteq points
        /\ \A t \in Run, i \in mask : ~ (i[1] <= t /\ t <= i[2])
        /\ Cardinality(Run \intersect filled) * FillParts <= Cardinality(Run)
        /\ \A t \in Run \intersect filled :
               \E a, b \in points : a < t /\ t < b /\ b - a <= MaxMissing + 1
        /\ use = "infer" => Last - Max(Run) <= MaxAge /\ Max(split.train) \in points

\* "No fill may cross a train/validation/test boundary, and no fill may use an
\* observation from a later partition than the slot it fills" (gapfill.py), with
\* the boundaries at which the selected run is really cut.
FillKeepsPartition ==
    phase = "done" /\ use = "train" =>
        \A g \in FilledGaps : Inside(g) \subseteq Run =>
            (Row(g[1]) < TrainRows <=> Row(g[2]) < TrainRows)
=============================================================================
