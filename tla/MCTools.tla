------------------------------- MODULE MCTools ------------------------------
(***************************************************************************)
(* The tools around a deployment, component by component: log collection,  *)
(* the request counts of an hour, the comparison run, the events of        *)
(* workers and pods, the frozen baseline and its package, the migration of *)
(* the API group, the shadow observer and the shortage scorer.  They are   *)
(* checked in one run; a behaviour is one of the component that part       *)
(* names.                                                                  *)
(***************************************************************************)
EXTENDS Integers, TLC

CONSTANTS None, Damaged, caller1, caller2, other1, other2

(* Two sets of interchangeable values: pods, jobs, runs and exporters;     *)
(* chunks and files.                                                       *)
Callers == {caller1, caller2}
Others == {other1, other2}
Symmetry == Permutations(Callers) \cup Permutations(Others)

VARIABLES
  part,  \* the component this behaviour is of
  v1, v2, v3, v4, v5, v6, v7, v8, v9, v10, v11, v12, v13, v14  \* its variables, in the order it declares them

Logs == INSTANCE LogArchive WITH
  Pods <- Callers, MaxTime <- 3, MaxRestarts <- 2, MaxRuns <- 2,
  MaxKills <- 1, clock <- v1, pod <- v2, log <- v3, coverage <- v4,
  saved <- v5, run <- v6, runs <- v7, kills <- v8

Envoy == INSTANCE EnvoyCount WITH
  Planned <- 1, Slack <- 0, MaxFailed <- 1, MaxDropped <- 0, T0 <- 2,
  T1 <- 4, End <- 5, Second <- 2, KsmGap <- 4, EpochLow <- -1,
  EpochHigh <- 1, MaxRequests <- 2, MaxScrapes <- 2, MaxObservations <- 2,
  now <- v1, pod <- v2, start <- v3, counter <- v4, restarts <- v5,
  proxyStart <- v6, served <- v7, scrapes <- v8, observed <- v9,
  snapshot <- v10

K6 == INSTANCE K6Count WITH
  Planned <- 2, Slack <- 0, MaxFailed <- 0, MaxDropped <- 0, T0 <- 1,
  T1 <- 7, End <- 12, Lag <- 3, Push <- 2, HbGap <- 3, MaxFailures <- 3,
  MaxFaults <- 2, now <- v1, flushed <- v2, failed <- v3, pending <- v4,
  exported <- v5, sparse <- v6, dense <- v7, beats <- v8, faults <- v9,
  hasDense <- v10

Reruns == INSTANCE P8Run WITH
  Jobs <- Callers, Chunks <- Others, Hours <- {"h1"}, Damaged <- 0,
  MaxVersion <- 2, MaxKills <- 1, MaxStarts <- 4, MaxEvaluations <- 2,
  lock <- v1, job <- v2, attempts <- v3, gates <- v4, finals <- v5,
  retained <- v6, version <- v7, damaged <- v8, kills <- v9, starts <- v10

Workers == INSTANCE InfraWorkers WITH
  Lo <- 0, Hi <- 6, SlotLen <- 1, HourLen <- 1, Washout <- 2, KsmGap <- 2,
  Conds <- {"Ready", "Pressure"}, Arms <- {"a"}, Joins <- {None, 3},
  MaxFaults <- 2, MaxChanges <- 2, now <- v1, since <- v2, trouble <- v3,
  scraped <- v4, faults <- v5, report <- v6, slots <- v7

Pods == INSTANCE InfraPods WITH
  Lo <- 0, Hi <- 8, SlotLen <- 2, HourLen <- 2, Washout <- 2, KsmGap <- 1,
  SchedAlert <- 3, MaxFaults <- 2, now <- v1, pod <- v2, exporter <- v3,
  info <- v4, states <- v5, dated <- v6, marks <- v7, other <- v8,
  faults <- v9

Capture == INSTANCE FreezeCapture WITH
  COLLECTOR <- "v10", Writer <- "v10", MaxSlots <- 3, MaxWrites <- 2,
  MaxRows <- 1, clock <- v1, template <- v2, map <- v3, pod <- v4,
  slot <- v5, young <- v6, job <- v7, done <- v8, served <- v9, pair <- v10,
  issued <- v11, checks <- v12, rows <- v13, cap <- v14

Settings == INSTANCE FreezeCapture WITH
  COLLECTOR <- "v10", Writer <- "v10", MaxSlots <- 2, MaxWrites <- 5,
  MaxRows <- 1, clock <- v1, template <- v2, map <- v3, pod <- v4,
  slot <- v5, young <- v6, job <- v7, done <- v8, served <- v9, pair <- v10,
  issued <- v11, checks <- v12, rows <- v13, cap <- v14

Package == INSTANCE FreezePackage WITH
  Runs <- Callers, Files <- Others, MaxFaults <- 2, out <- v1, run <- v2,
  faults <- v3, baseline <- v4

Migrate == INSTANCE Migration WITH
  Pas <- {"a"}, Specs <- {1, 2}, Attempts <- 2, MaxChanges <- 2,
  MaxCommands <- 5, legacy <- v1, fresh <- v2, oper <- v3, inv <- v4,
  tool <- v5, after <- v6, stamp <- v7, changes <- v8, commands <- v9

Shadow == INSTANCE ShadowObserver WITH
  Day <- 6, SeasonDays <- 1, Tolerance <- 1, StepCap <- 2,
  Lengths <- {0, 2}, MaxFlaws <- 1, MaxIssuances <- 1, MaxTime <- 4,
  now <- v1, hist <- v2, issuances <- v3, next <- v4, records <- v5

Shortage == INSTANCE ShortageEvents WITH
  STEP <- 2, FRESH <- 2, Lead <- 2, Lookback <- 6, Exporters <- Callers,
  Counts <- {1, 2}, MaxLost <- 2, MaxChanges <- 2, MaxTime <- 8, now <- v1,
  lost <- v2, changes <- v3, applied <- v4, pods <- v5, need <- v6,
  latest <- v7, ready <- v8, rows <- v9

vars == <<part, v1, v2, v3, v4, v5, v6, v7, v8, v9, v10, v11, v12, v13, v14>>

(* The variables a component does not have stay None.                      *)
Idle4 ==
  /\ v5 = None /\ v6 = None /\ v7 = None /\ v8 = None /\ v9 = None
  /\ v10 = None /\ v11 = None /\ v12 = None /\ v13 = None /\ v14 = None
Idle5 ==
  /\ v6 = None /\ v7 = None /\ v8 = None /\ v9 = None /\ v10 = None
  /\ v11 = None /\ v12 = None /\ v13 = None /\ v14 = None
Idle7 ==
  /\ v8 = None /\ v9 = None /\ v10 = None /\ v11 = None /\ v12 = None
  /\ v13 = None /\ v14 = None
Idle8 ==
  /\ v9 = None /\ v10 = None /\ v11 = None /\ v12 = None /\ v13 = None
  /\ v14 = None
Idle9 == v10 = None /\ v11 = None /\ v12 = None /\ v13 = None /\ v14 = None
Idle10 == v11 = None /\ v12 = None /\ v13 = None /\ v14 = None

Init ==
  \/ part = "logs" /\ Logs!Init /\ Idle8
  \/ part = "envoy" /\ Envoy!Init /\ Idle10
  \/ part = "k6" /\ K6!Init /\ Idle10
  \/ part = "reruns" /\ Reruns!Init /\ Idle10
  \/ part = "workers" /\ Workers!Init /\ Idle7
  \/ part = "pods" /\ Pods!Init /\ Idle9
  \/ part = "capture" /\ Capture!Init
  \/ part = "settings" /\ Settings!Init
  \/ part = "package" /\ Package!Init /\ Idle4
  \/ part = "migrate" /\ Migrate!Init /\ Idle9
  \/ part = "shadow" /\ Shadow!Init /\ Idle5
  \/ part = "shortage" /\ Shortage!Init /\ Idle9

Next ==
  /\ UNCHANGED part
  /\ \/ part = "logs" /\ Logs!Next
        /\ UNCHANGED <<v9, v10, v11, v12, v13, v14>>
     \/ part = "envoy" /\ Envoy!Next /\ UNCHANGED <<v11, v12, v13, v14>>
     \/ part = "k6" /\ K6!Next /\ UNCHANGED <<v11, v12, v13, v14>>
     \/ part = "reruns" /\ Reruns!Next /\ UNCHANGED <<v11, v12, v13, v14>>
     \/ part = "workers" /\ Workers!Next
        /\ UNCHANGED <<v8, v9, v10, v11, v12, v13, v14>>
     \/ part = "pods" /\ Pods!Next /\ UNCHANGED <<v10, v11, v12, v13, v14>>
     \/ part = "capture" /\ Capture!Next
     \/ part = "settings" /\ Settings!Next
     \/ part = "package" /\ Package!Next
        /\ UNCHANGED <<v5, v6, v7, v8, v9, v10, v11, v12, v13, v14>>
     \/ part = "migrate" /\ Migrate!Next
        /\ UNCHANGED <<v10, v11, v12, v13, v14>>
     \/ part = "shadow" /\ Shadow!Next
        /\ UNCHANGED <<v6, v7, v8, v9, v10, v11, v12, v13, v14>>
     \/ part = "shortage" /\ Shortage!Next
        /\ UNCHANGED <<v10, v11, v12, v13, v14>>

Spec == Init /\ [][Next]_vars

-----------------------------------------------------------------------------
(* Properties                                                              *)

(* Once the state says a pod was read up to a line, every line before it   *)
(* that its instance still holds is in the archive, although collections   *)
(* fail or are killed part way (archive.py, collect_api_reloads).          *)
HeldLinesKept == part = "logs" => Logs!HeldLinesKept

(* The bounds of an hour hold the requests really served and really failed *)
(* in it, whichever scrapes, flushes and restarts fall where, so that a    *)
(* PASS or a FAIL of the gate is true (collect_load_evidence.py).          *)
HourBounded ==
  /\ part = "envoy" => Envoy!CountBounded
  /\ part = "k6" => K6!FailuresBounded

(* All results of a comparison come from one attempt and the same bytes,   *)
(* none from damaged ones, and a final one from final gates, through       *)
(* kills, resumes and concurrent starts (p8_launcher.py).                  *)
ResultsAgree ==
  part = "reruns" => Reruns!ResultsAgree /\ Reruns!OneAttempt /\ Reruns!GatesFinal

(* No slot classified clean lies in or shortly after an outage, and no     *)
(* long wait of a pod is passed over, whichever scrapes were lost          *)
(* (infra_events.py).                                                      *)
IncidentsReported ==
  /\ part = "workers" => Workers!CleanIsHealthy
  /\ part = "pods" => Pods!WaitReported

(* A capture that passes froze what was really running, although its parts *)
(* are read one after the other while the pipeline and the settings change, *)
(* and a baseline is the whole package of one such capture                 *)
(* (freeze_capture.py).                                                    *)
FrozenIsWhole ==
  /\ part = "capture" => Capture!ServedIsVerified
  /\ part = "settings" => Settings!RunsAsCaptured /\ Settings!CapturedIsRendered
  /\ part = "package" => Package!BaselineWhole

(* The tool deletes only what the inventory recorded, with its replacement *)
(* in place and the legacy operator stopped when it looked, activates a    *)
(* replacement only as it was checked and beside no legacy object it could *)
(* have seen, and a published package is never replaced                    *)
(* (migrate-api-group.py, freeze_capture.py).                              *)
HandedOver ==
  [][/\ part = "migrate" => Migrate!HandedOver /\ Migrate!DeletesRecorded /\ Migrate!ActivatesChecked
     /\ part = "package" => Package!PublishedStays]_vars

(* No shadow forecast rests on an observation later than its recorded      *)
(* input, and a predictor that cannot answer is recorded as such           *)
(* (observer/shadow.py).                                                   *)
NothingLater == part = "shadow" => Shadow!NothingLater /\ Shadow!EveryStepRecorded

(* A Ready count is one the workload had within the last instant, a        *)
(* complete shortage is seen from before it to its recovery, and one       *)
(* tagged as applied ahead really was (capacity.py, shortage_events.py).   *)
ShortageTrue ==
  part = "shortage" => Shortage!ReadyIsRecent /\ Shortage!CompleteIsWhole /\ Shortage!AheadIsAhead
=============================================================================
