------------------------------- MODULE MCLstm -------------------------------
(***************************************************************************)
(* The LSTM engine, its training and the offline evaluation, component by  *)
(* component: the model registry and its trainers, the accuracy window,    *)
(* the bounded HTTP exchange, the seasonal ensemble, the training data,    *)
(* the blend policy, the trace replay and the archive of trained pairs.    *)
(* They are checked in one run; a behaviour is one of the component that   *)
(* part names.                                                             *)
(***************************************************************************)
EXTENDS ModelServing, TLC

CONSTANTS caller1, caller2, solo, other1, other2

(* Two sets of interchangeable values: threads, requests, trainers and the *)
(* contents of archived files; digests of queries.  solo is the only       *)
(* trainer beside two clients, and the only client beside two trainers.    *)
Callers == {caller1, caller2}
Others == {other1, other2}
Symmetry == Permutations(Callers) \cup Permutations(Others)

VARIABLES
  part,  \* the component this behaviour is of
  v1, v2, v3, v4, v5, v6, v7, v8, v9, v10, v11, v12, v13, v14, v15, v16,
  v17, v18  \* its variables, in the order it declares them

Training == INSTANCE ModelServing WITH
  Clients <- {solo}, Trainers <- Callers, Shas <- Others, MaxChanges <- 1,
  MaxArt <- 2, MaxFaults <- 0, pa <- v1, live <- v2, disk <- v3,
  trained <- v4, job <- v5, plock <- v6, registry <- v7, refs <- v8,
  retired <- v9, freed <- v10, stamps <- v11, retry <- v12, load <- v13,
  up <- v14, req <- v15, window <- v16, rlock <- v17, faults <- v18

Scores == INSTANCE Accuracy WITH
  Grid <- 2, Tolerance <- 1, Steps <- 2, WindowSize <- 2, MaxPending <- 4,
  Day <- 4, MaxTime <- 5, MaxRequests <- 3, arm <- v1, pending <- v2,
  history <- v3, last <- v4, issued <- v5, gauge <- v6, scored <- v7

Http == INSTANCE BoundedHttp WITH
  ResolverSlots <- 1, Addresses <- 2, pc <- v1, addr <- v2, late <- v3,
  expired <- v4, timer <- v5, victim <- v6, live <- v7, open <- v8,
  shut <- v9, result <- v10, lookups <- v11

Seasonal == INSTANCE SeasonalEnsemble WITH
  Season <- 2, Steps <- 2, Refit <- 3, HwWindow <- 5, ProfileDays <- 1,
  ArWindow <- 3, ArOrder <- 1, MinRows <- 1, MarginWindow <- 4, MaxAge <- 2,
  History <- 7, CacheSize <- 2, Diverging <- {6}, Threads <- Callers,
  MaxLate <- 2, MaxTime <- 6, MaxRequests <- 2, exp <- v1, now <- v2,
  source <- v3, cache <- v4, req <- v5, served <- v6

Data == INSTANCE TrainingData WITH
  Last <- 11, SequenceLength <- 2, StepsAhead <- 2, MinRows <- 6,
  MaxMissing <- 2, FillParts <- 5, MaxAge <- 2,
  Masks <- {{}, {<<2, 3>>}, {<<6, 6>>}}, Starts <- {0, 1}, Boundaried <- 5,
  phase <- v1, use <- v2, points <- v3, mask <- v4, start <- v5,
  bounds <- v6, filled <- v7, budget <- v8, split <- v9

Blend == INSTANCE LstmBlend WITH
  Order <- <<"ramp", "p95", "only">>, Errors <- {1, 2}, Margin <- 2,
  Pool <- 2, Steps <- {1, 2}, MaxTrainings <- 3, sidecar <- v1, past <- v2,
  verdict <- v3, out <- v4

Replay == INSTANCE Replay WITH
  FirstOrigin <- 1, LastOrigin <- 5, Lead <- 1, Settlement <- 1, Grace <- 1,
  Delays <- {0, 1, 2}, ExcludedSets <- {{}, {2}}, MaxKills <- 2,
  available <- v1, excluded <- v2, observations <- v3, issuances <- v4,
  outcomes <- v5, checkpoints <- v6, pc <- v7, tick <- v8, received <- v9,
  state <- v10, kills <- v11

Pairs == INSTANCE PairArchive WITH
  Runs <- {"r1", "r2"}, Contents <- Callers, Cutoffs <- {1},
  MaxTrainings <- 2, MaxKills <- 1, art <- v1, side <- v2, trained <- v3,
  trainer <- v4, archive <- v5, index <- v6, job <- v7, result <- v8,
  kills <- v9

LstmVars == <<part, v1, v2, v3, v4, v5, v6, v7, v8, v9, v10, v11, v12, v13,
          v14, v15, v16, v17, v18, vars>>

pool == <<v1, v2, v3, v4, v5, v6, v7, v8, v9, v10, v11, v12, v13, v14, v15,
        v16, v17, v18>>

(* The variables a component does not have stay None.                      *)
Idle1 ==
  /\ v2 = None /\ v3 = None /\ v4 = None /\ v5 = None /\ v6 = None
  /\ v7 = None /\ v8 = None /\ v9 = None /\ v10 = None /\ v11 = None
  /\ v12 = None /\ v13 = None /\ v14 = None /\ v15 = None /\ v16 = None
  /\ v17 = None /\ v18 = None
Idle4 ==
  /\ v5 = None /\ v6 = None /\ v7 = None /\ v8 = None /\ v9 = None
  /\ v10 = None /\ v11 = None /\ v12 = None /\ v13 = None /\ v14 = None
  /\ v15 = None /\ v16 = None /\ v17 = None /\ v18 = None
Idle6 ==
  /\ v7 = None /\ v8 = None /\ v9 = None /\ v10 = None /\ v11 = None
  /\ v12 = None /\ v13 = None /\ v14 = None /\ v15 = None /\ v16 = None
  /\ v17 = None /\ v18 = None
Idle7 ==
  /\ v8 = None /\ v9 = None /\ v10 = None /\ v11 = None /\ v12 = None
  /\ v13 = None /\ v14 = None /\ v15 = None /\ v16 = None /\ v17 = None
  /\ v18 = None
Idle9 ==
  /\ v10 = None /\ v11 = None /\ v12 = None /\ v13 = None /\ v14 = None
  /\ v15 = None /\ v16 = None /\ v17 = None /\ v18 = None
Idle11 ==
  /\ v12 = None /\ v13 = None /\ v14 = None /\ v15 = None /\ v16 = None
  /\ v17 = None /\ v18 = None

LstmInit ==
  /\ Init
  /\ \/ part = "serving" /\ v1 = None /\ Idle1
     \/ part = "training" /\ Training!Init /\ v1 = pa
     \/ part = "scores" /\ Scores!Init /\ Idle7
     \/ part = "http" /\ Http!Init /\ Idle11
     \/ part = "seasonal" /\ Seasonal!Init /\ Idle6
     \/ part = "data" /\ Data!Init /\ Idle9
     \/ part = "blend" /\ Blend!Init /\ Idle4
     \/ part = "replay" /\ Replay!Init /\ Idle11
     \/ part = "pairs" /\ Pairs!Init /\ Idle9

LstmNext ==
  /\ UNCHANGED part
  /\ \/ part = "serving" /\ Next /\ UNCHANGED pool
     \/ part = "training" /\ Training!Next /\ UNCHANGED vars
     \/ part = "scores" /\ Scores!Next
        /\ UNCHANGED <<vars, v8, v9, v10, v11, v12, v13, v14, v15, v16, v17,
                       v18>>
     \/ part = "http" /\ Http!Next
        /\ UNCHANGED <<vars, v12, v13, v14, v15, v16, v17, v18>>
     \/ part = "seasonal" /\ Seasonal!Next
        /\ UNCHANGED <<vars, v7, v8, v9, v10, v11, v12, v13, v14, v15, v16,
                       v17, v18>>
     \/ part = "data" /\ Data!Next
        /\ UNCHANGED <<vars, v10, v11, v12, v13, v14, v15, v16, v17, v18>>
     \/ part = "blend" /\ Blend!Next
        /\ UNCHANGED <<vars, v5, v6, v7, v8, v9, v10, v11, v12, v13, v14,
                       v15, v16, v17, v18>>
     \/ part = "replay" /\ Replay!Next
        /\ UNCHANGED <<vars, v12, v13, v14, v15, v16, v17, v18>>
     \/ part = "pairs" /\ Pairs!Next
        /\ UNCHANGED <<vars, v10, v11, v12, v13, v14, v15, v16, v17, v18>>

LstmSpec == LstmInit /\ [][LstmNext]_LstmVars

-----------------------------------------------------------------------------
(* Properties                                                              *)

(* A forecast is scored at most once, and only by an observation at its    *)
(* target or within the tolerance after it (accuracy.py:117-149).          *)
ScoredOnTime == part = "scores" => Scores!ScoredOnTime

(* When the watchdog has run no thread still waits on a connection that is *)
(* not shut down, an exchange leaves no descriptor open and yields only    *)
(* complete bodies, and abandoned lookups keep their permits               *)
(* (bounded_http.py:35-49, 102-193).                                       *)
ExchangeEnds ==
  part = "http" => Http!WatchdogReaches /\ Http!EndsClean /\ Http!LookupsBounded

(* A cached generation is the one a fit on the request's own history would *)
(* give, and a past forecast knows nothing after its origin                *)
(* (seasonal_ensemble.py:19-23, 324-335, 393-433).                         *)
CacheTransparent == part = "seasonal" => Seasonal!CacheTransparent /\ Seasonal!PastOnly

(* No timestamp is a label of both partitions and no filled one a          *)
(* validation label, what the preflight accepts the training accepts, and  *)
(* filling stays within its rule (gapfill.py, preflight_history).  With    *)
(* two training jobs that overlap and die, a forecast is still answered by *)
(* a model of its own signal and evidence is pooled within one signal      *)
(* (train_nginx_test.py:80-95).                                            *)
TrainingClean ==
  /\ part = "data" => Data!LabelsClean /\ Data!PromiseKept /\ Data!FillWithinRule
  /\ part = "training" => Training!AnswersAttested /\ Training!PinnedUntilDone

(* The network's share is earned on the latest consecutive scored          *)
(* trainings, and a served step uses only terms that exist                 *)
(* (blend_selection.py, LSTMForecastModel.predict).                        *)
BlendEarned ==
  part = "blend" => Blend!PoolIsRecent /\ Blend!NetworkEarns /\ Blend!ServedGenuine

(* However often a replay is killed its journal is the one an              *)
(* uninterrupted run leaves, and no forecast in it uses what was not       *)
(* received and settled at its origin (run_replay).                        *)
SameJournal == part = "replay" => Replay!SameJournal /\ Replay!NoFuture

(* An archived directory holds an artifact and the sidecar that describes  *)
(* it, a run that reports it archived left it and its index line, also     *)
(* after a kill between the two (one that noted another run's finalize     *)
(* relies on that run for both), and no directory ever changes             *)
(* (archive.py, archive_pair).                                             *)
PairsRecorded ==
  [][part = "pairs" => Pairs!PairGenuine' /\ Pairs!Recorded' /\ Pairs!ArchiveImmutable]_LstmVars
=============================================================================
