# A TLA+ model of the predictive autoscaler

The repository is an autoscaler for Kubernetes Deployments. A Go operator
(`k8s-operator/`) reconciles `PredictiveAutoscaler` objects: it measures the
request rate, asks a forecasting service for the rate to come, decides a replica
count and writes it through `/scale`. A Python service (`ml-engine/`) makes the
forecasts, in one of two engines. The statistical engine (contract v2) issues
calibrated upper bounds from an append-only journal and earns the right to raise
a count by prospective evidence. The LSTM engine (contract v1) serves trained
networks. Around them are tools that archive, replay, score and migrate.

This directory models the parts whose correctness depends on order, time,
failure and concurrency. TLC explores every module on small instances. TLAPS
proves, for all values of the constants, the safety of the reconciler, of the
operator's side of contract v2, of the forecast service, of its journal, of the
trust decision, of the fit worker, of model serving, of admission and of the
bounded exchanges.

Paths below are relative to the repository root.

## The parts and their modules

| Part | Code | Modules |
|---|---|---|
| Reconcile and its decision rules | `k8s-operator/controllers/predictiveautoscaler_controller.go`, `overestimate.go`, `capacity.go` | `Reconciler` |
| Contract v2, operator side | `forecast_v2.go`, `v2_reconcile.go`, `startup.go` | `ForecastV2` |
| `/v2/predict`: evidence and issuance | `ml-engine/forecasting/service.py`, `maturation.py` | `ForecastService` |
| `/v2/predict`: one request | `service.py`, `contracts.py`, `history.py`, `metrics.py` | `ForecastRequest` |
| Journal | `forecasting/store.py` | `ForecastStore`, implements `WriteOnce` |
| Evidence ledger, trust, calibration | `forecasting/trust.py`, `calibration.py` | `EvidenceLedger`, `Trust`, `Calibration` |
| Statistical kernel | `forecasting/statistical.py` | `StatKernel` |
| Fit worker, artifact store | `forecasting/worker.py`, `artifacts.py` | `FitWorker` |
| Model publication, reload, pinning | `ml-engine/api/main.py`, `registry.py`, `identity.py`, `training/train_nginx_test.py` | `ModelServing` |
| Authentication, admission | `api/auth.py`, `admission.py`, `statistical.py` | `Gate` |
| Served accuracy | `api/accuracy.py` | `Accuracy` |
| Bounded HTTP | `data/bounded_http.py` | `BoundedHttp` |
| Gap filling, split; blend | `data/gapfill.py`, `training/`, `models/lstm_model.py` | `TrainingData`, `LstmBlend` |
| Seasonal forecasters | `models/seasonal_ensemble.py`, `relative_profile_ar.py` | `SeasonalEnsemble` |
| Shadow observer, replay | `observer/shadow.py`, `evaluation/forecast_replay.py` | `ShadowObserver`, `Replay` |
| Benchmark archive | `deploy/eks-benchmark/instrumentation/archive.py` | `PairArchive`, `LogArchive` |
| Load evidence | `deploy/prodcluster/collect_load_evidence.py` | `LoadGate`, `EnvoyCount`, `K6Count` |
| Infrastructure events | `deploy/prodcluster/infra_events.py`, `p8_launcher.py` | `EventRules`, `InfraWorkers`, `InfraPods`, `P8Run` |
| Freeze capture | `deploy/prodcluster/freeze_capture.py` | `FreezeCapture`, `FreezePackage` |
| Shortage scoring | `deploy/prodcluster/scoring/` | `ShortageEvents` |
| API group migration | `hack/migrate-api-group.py` | `Migration` |

`MC*` modules instantiate these for TLC. `*Proofs` and `NaturalOrder` hold the
theorems. `PROJECT.json` maps every definition to the lines it models.

How the parts interact: the operator publishes the metric query and the lead in
the object's status; the service reads both from the live object, so a request
carries references only. An answer is bound to generation, settings, origin and
lead, and the operator verifies all of it again before it lets the answer raise a
count. Inside the service a request reads the metric store, records receipts,
closes matured windows in the journal, folds journal records into ledger,
calibration and trust state, checkpoints that state, and only then commits the
issuance it answers with.

## The central modules

### `Reconciler`

The arithmetic of one decision as constant operators (the code's `float64`
quotients are exact rationals, rounded where the code takes `math.Ceil`), and
`Reconcile` as a sequence of steps:

| Action | Code |
|---|---|
| `Start` | throttle, reads from the caches, state reset, publication of the query |
| `Decide` | forecast, measurement, override, `unifiedDesired` |
| `Apply` | mode, coexistence verdict, scale up, scale down with its holds, at target |
| `FreshScale`, `IdentityGuard`, `WriteScale` | the three calls of `write()` in order |
| `WriteConflict`, `WriteReplyLost`, `ScalingError` | its error paths |

Between any two steps users edit, delete and re-create the autoscaler, others
scale or replace the Deployment, caches lag, calls fail, the clock ticks and the
operator restarts. Timers are ages that saturate at the threshold the code
compares them with. Identities are compared for equality only, so they are drawn
from small pools and re-used once nobody remembers them. `hist` is history for
the properties.

### `ForecastV2`

Grid, decision interval, startup budget, lead and deadline, and one reconcile of
the statistical engine: `Start` (the grid schedule), `Prepare` (the lead is
published by a conditional update before any request), `FromCache`, `Ask`,
`Receive`, `NoAnswer`, `Verdict` (by the operator's clock after the request),
`Guard` (the deadline once more, after the slow reads) and `Write`. What the
startup tracker reports and what the service answers are inputs. A conditional
update compares whole objects where the code compares resource versions, which
allows more updates than the API server does.

### `ForecastService`

One autoscaler and one forecast family. `Bind` and `Read` come before the
service's lock, everything else under it: `Enter` (the time is read again and the
history recorded), `Mature` (one outcome per step), `Recover`, `Decide` (the
evaluated state is checkpointed), `Commit` (the clock decides once more),
`FoldAgain` (second recovery and checkpoint) and `Answer` (compaction). Each
journal transaction is one step, so `Crash` may come between any two. A
checkpointed state is how often it has folded in each record.

### `ForecastStore`, `WriteOnce`, `Trust`, `EvidenceLedger`, `Calibration`

Each method of the store that writes is one SQLite transaction and one action;
`recover()` takes the lock twice and is two. `WriteOnce` is the journal's promise
to its callers: a key's answer, once given, never changes. The ledger and the
calibration are folds over the journal, compared with definitions over the whole
journal. `Trust` gets the verdict of the gates and of the paired tests as inputs.

### `FitWorker`

`submit()`, worker threads with their condition variable, child processes with a
deadline, reaping, publication under the lock and `close()`, with the two files
of the artifact store and readers that follow the pointer. Threads sleep until a
notify, so a lost wake-up shows. The files survive `Crash`.

### `Migration`, `FreezeCapture`

Both tools read a cluster that goes on meanwhile, so every call they make is a
step. In `Migration` users edit, delete and recreate legacy objects and
replacements, scale the legacy operator up again or replace its Deployment,
finalizers hold deleted objects, the new operator writes status, and the tool is
stopped anywhere and run again. `after` remembers what came or changed since the
tool last checked it: `HandedOver` holds at every deletion except for that, and
the calls between a check and the deletion are where the tool cannot know
better. `verify` makes the checks of a cutover and writes nothing; a user who
sets a replacement to Active by hand is left out. In `FreezeCapture` a
ConfigMap and the template carry when they were written, the pod when it
started and which environment it took.

### The other modules

Each module's head says what it models and what it abstracts. Common to all: a
content is named by the step that produced it, a hash is the content hashed, a
forecast or a fit is the set of observations it rests on, and numerics are left
out. Processes may be killed between any two steps that the code does not make
atomic.

## Runs

| Run | Question | Properties |
|---|---|---|
| `reconcile_write` | Other writers, edits, replaced targets, lagging caches, failing calls: does the write path lose updates or act on a superseded spec? | `WriteFromDecision`, `SupersededSpecStops` |
| `reconcile_holds` | Restarts, edited bounds, missing measurements, overestimates: do the holds keep? | `ScaleDownWaits`, `UnmeasuredHolds`, `BypassNeedsForecast` |
| `reconcile_settles` | Left alone, does the target reach its count? | `Settles` |
| `forecast_v2` | Is a forecast used only for its own request and window, in time, under a lead that never shrinks? | `UsedOwnInTime`, `LeadNeverShortens`, `NoGap` |
| `forecast_service_live` | With a crash anywhere, is recovery exact and every issued window closed, from values in time? | `EachFoldedOnce`, `EveryWindowClosesInTime` |
| `fit_worker` | Hanging, failing and late children, promotion, `close()` and a crash in every order | `FitsConsistent`, `PromotesForward`, `EveryCallReturns` |
| `engine` | The statistical engine, component by component, with the admission both services have | `JournalExact`, `AnswersWriteOnce`, `TrustWaits`, `WindowsExact`, `CalibrationExact`, `ServedInTurn`, `RequestsExact`, `AdmissionExact`, `ForecastsFromObserved` |
| `lstm` | The LSTM engine, its training, the replay and the pair archive | `PinnedUntilDone`, `AnswersAttested`, `ScoredOnTime`, `ExchangeEnds`, `CacheTransparent`, `TrainingClean`, `BlendEarned`, `SameJournal`, `PairsRecorded` |
| `tools` | The tools while the cluster goes on, calls fail and processes are killed | `HeldLinesKept`, `HourBounded`, `ResultsAgree`, `IncidentsReported`, `FrozenIsWhole`, `HandedOver`, `NothingLater`, `ShortageTrue` |
| `trust_absent` | A candidate without a forecast for one evaluation; violated | `RepromotionWaits` |
| `request_retry` | A retry after the startup budget was republished; violated | `RetryAnswered` |
| `frozen_rows` | The collector a freeze names against the one that writes; violated | `FrozenRowsQualify` |

`engine`, `lstm` and `tools` check independent components in one run. `MCEngine`
extends `ForecastStore` and `MCLstm` extends `ModelServing`, so that the runs
check the very definitions the theorems name; the other components are
instances that share a pool of variables. A variable
`part`, fixed by the initial state, says which component a behaviour is of; the
others' variables stay unused, so each component is explored exactly as it would
be alone. Interchangeable threads, names and contents are symmetric there.

`PROJECT.json` names, for every property of a passing run, a change of the model
that a plausible bug would make and that violates it.

### The violated runs

- `trust_absent`: `trust.py:32-34` promises that a demoted model is promoted again
  only after its gates have held for `repromotion_hours` with enough new bounds.
  `evaluate()` returns a state that holds only the candidates of that evaluation,
  and the service stores it. A candidate without a forecast for one origin loses
  its demotion and is trusted again at once.
- `request_retry`: `service.py:17-18` promises a retry the same bytes. The bundle
  carries the startup delay it was issued under; when the operator republishes
  another one at the same lead, `check_response` refuses the committed bundle.
- `frozen_rows`: `freeze_capture.py:776` names version 9 of the collector of this
  checkout; the collector writes version 10, so no row qualifies.

### Bounds

Times are small numbers that keep the order of the code's thresholds. Every bound
is a `CONSTANT` (`Max...`, `Last...`, `End`, `Hi`).

- `reconcile_*`: two or three revisions of the object, one or two Deployment
  objects, two resource versions, one or two rates. Three revisions let an edit
  come during and after a reconcile; two versions are "same" and "other". A
  stabilization window of two ticks and a cooldown of one end at different times.
- `forecast_v2`: a cadence of three units, two origins, three startup observations
  (leads of 9, of 12, and one beyond the horizon), one edit. Two origins are one
  pair of consecutive windows.
- `forecast_service_live`: one interval per window, two settings, one thread, one
  crash, one edit. In `engine` the same module has two threads and no crash; the
  proofs cover any number of both.
- `fit_worker`: two signals, one thread, one reader, a queue of one, two tickets,
  one crash. Two threads share only the lock; the proofs cover any number.
- `engine`: a journal of two windows with different ends and two models, so that
  an issuance can be partly matured when retention reaches it; the naive and one
  challenger over four hours; two issuances over nine intervals with buckets of
  two; four outcomes with a buffer of two scores; two overlapping requests and
  three edits; two requests with two tokens at the gate; two fits over ten slots of a season of two. The requests have one
  startup budget, since the case of two is the run `request_retry`.
- `lstm`: model serving twice, with two clients, one trainer and one fault
  (`PinnedUntilDone`, `AnswersAttested`) and with one client and two trainers
  (`TrainingClean`), two trainings each; two addresses for an exchange; two threads that share a cache of two
  fits; every history of twelve slots; three trainings; a replay killed twice.
- `tools`: two pods or jobs or exporters, one or two kills, and histories just
  longer than the gap, the washout and the lookback they are judged by. The
  k6 hour has three failures and two faults (an event that misses a flush, a
  flush whose write fails), so that PASS and FAIL are reached with either
  counter; the server-side hour has two requests, one proxy restart, and an
  epoch window of one tick around the start. The freeze is checked twice: with
  three training slots and no change of settings (`ServedIsVerified`), and with
  two slots and three writes or restarts after the pod's start
  (`RunsAsCaptured`, `CapturedIsRendered`). The migration has one autoscaler,
  two interferences, five commands (one is a second run) and two of the three
  patch attempts; its loops over autoscalers have one turn. A shortage is
  scored with a decision interval, a freshness and a lead of two units each.

The clock of most modules stops at its bound, so those runs do not report
deadlock. `reconcile_*` and `forecast_v2` do.

### Fairness

- `Settles`: the clock, the informers and the work queue keep running (every
  return of `Reconcile` requeues), and an API call that is tried again and again
  succeeds now and then. Nothing is assumed of users, other writers or restarts:
  the property says what follows once they stop.
- `EveryCallReturns`: the interpreter schedules threads, the kill timer and the
  caller of `close()`. A child owes nothing; it may hang.
- `EveryWindowClosesInTime`: the operator asks again every interval, requests end,
  the metric store catches up and time passes.

## Proofs

Every theorem holds for all values of the constants that satisfy the assumptions
named with it. `ReconcilerConstants`, `RuleConstants`, `NoneIsNoRecord`,
`V2Constants`, `FitConstants`, `ServiceConstants` and `ServingConstants` are
`ASSUME`s; `StoreConstants` and `TrustConstants` are hypotheses of the theorems, and
the runs evaluate them on their instances. They state what the CRD's validation or the configuration
guarantees (`1 <= min <= max`, a positive cadence, a lead on the grid) and that
`None` is no ordinary value. The bounds on clocks, crashes, edits and tickets are
arbitrary naturals.

No property below is inductive alone: each speaks about a step whose guards were
evaluated several steps earlier, or about a state several transactions built. The
invariants carry what was established then through every step of everyone else.
TLC confirmed them on small instances before they were proved.

### `ReconcilerProofs`

| Theorem | Property | Argument |
|---|---|---|
| `TypeCorrect` | `TypeOK` | inductive as stated: a reconcile in progress has a snapshot and a state of its mode |
| `NoLostUpdate` | `WriteFromDecision` | `VersionInv`: a Deployment still at the version of the fresh Scale has the count decided from |
| `SupersededStops` | `SupersededSpecStops` | `StaleInv`: past the identity guard a superseding spec is no older than the write |
| `FreshWaits` | `FreshStateWaits` | `BornInv`: the ages in a fresh Active state are bounded by its own age |
| `ScaleDownsWait` | `ScaleDownWaits` | `AgeInv`: recorded ages never exceed true ages, if no answer of an applied write is lost (`"lostReply" \notin Events`) |
| `WritesBounded`, `UnmeasuredKeeps`, `BypassIsForecast` | `WritesWithinBounds`, `UnmeasuredHolds`, `BypassNeedsForecast` | `PlanInv`: what a plan may be between decision and write |

### `V2Proofs`

| Theorem | Property | Argument |
|---|---|---|
| `LeadOnlyGrows` | `LeadNeverShortens` | a lead of the same basis is at least the frozen one; publication is conditional on the copy |
| `WritesOwnInTime` | `UsedOwnInTime` | `CacheCoherent`, `AnswerOwn`: a cached answer belongs to its binding, and the binding to the request. `Timely`: the deadline held when the write began |
| `WindowsOverlap` | `NoGap` | `LeadsLong`: every lead in use covers startup, decision interval, allowance and a cadence |

`WindowsOverlap` shows what the margins buy: consecutive windows leave no gap
when slack and allowance together cover the write timeout (5 s + 15 s against
10 s with the defaults). With an allowance below 5 s, which the CRD admits, the
theorem says nothing.

### `ServiceProofs`

`ServiceInv` has five parts besides the types. `Exact` of the checkpoint: with the
records after its cursors it makes up everything committed, each once.
`JournalInv`: an outcome has its issuance, and a window that was issued and is
gone has ended. `RequestInv`: a request's time is not ahead of the clock.
`HeldInv`: what the holder of the lock has folded is exact, nothing was committed
after it when it decides, and the checkpoint covers everything when it issues and
when it compacts. `ScoredInv`: a scored window has ended and its values came by
its deadline.

| Theorem | Property | Argument |
|---|---|---|
| `EachRecordFoldedOnce` | `EachFoldedOnce` | folding keeps a state exact (`FoldedExact`). A commit adds one record after every cursor, and it is new: `MayIssue` puts the window's end ahead of the clock, while a removed window has ended. Compaction removes only what the checkpoint covers |
| `IssuancesRestOnCheckpoint` | `IssuedFromAll` | `HeldInv` at the commit, and the clock read just before it |
| `ScoresAreInTime` | `ScoredInTime` | the cutoff of a maturation is the earlier of its time and the deadline; first receipts never change |

### `StoreProofs`

| Theorem | Property | Argument |
|---|---|---|
| `AnswersAreFinal` | `AnswersWriteOnce` | refinement of `WriteOnce`, for any number of callers. `AnswerInv`: a key once committed is either still there or below the horizon, so an insertion fills an empty register |
| `NothingLost` | `NothingUncounted` | `ScoreInv`: outcomes leave only with their issuance; counting by finite sets |
| `JournalIsExact` | `JournalExact` | `RecoverInv`, with one caller at a time (`OneCaller`), which is how the service uses the store |

### `LstmProofs`

Artifact and sidecar are written and read in separate steps, and a reload takes
no lock that a training job knows. What makes an installed pair genuine is order
alone, so `ServingInv` is mostly about order: `PairInv` (the artifact is the newest
training's, the sidecar never newer, and only the holder of the publication lock
is about to write it), `LoadInv` (what a reload has read lies between the stamp it
took first and what is on disk now), `StampInv` (a recorded stamp is installed
unless the disk has moved on), `LifeInv` (the pin count of a record is the number
of requests that hold it; a retired record is older than the installed one),
`ReqInv` (what a request has at each step) and `EvidenceInv`.

| Theorem | Property | Argument |
|---|---|---|
| `ServingInvariant` | `ServingInv` | one lemma per action; most steps go through a lemma for all steps of a job, of a reload or of a request |
| `PinsHold` | `PinnedUntilDone` | `LifeInv`: pins are counted as a cardinality, so a record somebody holds has a positive count |
| `AnswersAreAttested` | `AnswersAttested` | `LoadInv` at the second stat: equal stamps before and after the reads pin both files; `ReqInv` for the window under the record's lock |
| `ReloadsGoForward` | `ReloadsForward` | the stamp of a reload differs from the recorded one and is not older, and a pair has equal halves |

### `GuardProofs`

| Theorem | Property | Argument |
|---|---|---|
| `SelectionTrusted` | `SelectedIsTrusted` of `Trust` | inductive with the types; absent candidates included |
| `TrustIsEarned` | `TrustWaits` of `Trust` | `WaitInv`: a demoted candidate's state records its demotion, and its clocks never run ahead of what evaluations found. Needs `MayBeAbsent = FALSE`; without it `trust_absent` is the counterexample |
| `ExchangesEnd` | `WatchdogReaches`, `EndsClean`, `LookupsBounded` of `BoundedHttp` | `HttpInv`: once the timer has fired the event is set, so a thread that goes on waits on the connection the timer took; waiting threads are counted against the permits. Needs finitely many threads |
| `SlotsAreExact` | `SlotsExact`, `NoWorkAfterClose` of `Gate` | `GateInv`: free slots and unfinished futures of a kind add up to the slots of that kind, and a future exists only from its step of the coroutine on, so a slot changes hands exactly when a future begins or ends to use it. Needs finitely many requests (`GateConstants`) |

These are properties of the components; `TrustWaits` and `AdmissionExact` in `engine`
and `ExchangeEnds` in `lstm` state the same of one instance each.

### `FitProofs`

`FitInv` says where each unresolved ticket is (queue, thread, or taken by
`close()`), that its signal leads to it, that no ticket is in two places, what a
thread has at each step, and what a thread about to write the pointer may rely on
because it holds the lock.

| Theorem | Property | Argument |
|---|---|---|
| `FitsAreConsistent` | `FitsConsistent` | a ticket in a thread stays findable until the thread has reported; `close()` ends when every thread has exited, and none exits with a ticket or a child |
| `PromotionsGoForward` | `PromotesForward` | the pointer is written by the holder of the lock, after the file and only while its cutoff is newer; `close()` needs the same lock |

`NaturalOrder` proves what `Min` and `Max` of a set of naturals are.

### Only model-checked

- The liveness properties: `Settles`, `EveryCallReturns` and the first half of
  `EveryWindowClosesInTime`. Temporal reasoning under fairness is out of the
  prover's reach.
- `WindowsExact`, `CalibrationExact`, `BlendEarned`, `SameJournal`: what a fold
  over a whole journal computes needs induction over data, which the provers do
  not instantiate.
- `AdmittedFresh`, a part of `AdmissionExact`: what filtering leaves of the cache is
  again induction over data.
- The other properties of `engine`, `lstm` and `tools`, which have no proof yet.

## Not modelled

- The v1 forecast lookup with its five-minute cache, the startup tracker and the
  detection of conflicting autoscalers: inputs of `Reconciler` and `ForecastV2`.
- Status conditions, events, metrics and log records: nothing reads them back.
- Encodings, canonical hashes, wire formats, TLS, and the numerics of kernels,
  networks and bootstraps: a value, a failure or nothing in time.
- The trainer-log and model-capture collectors of the archive, the detectors of
  restarts, rollouts and volumes (they follow the rules of `EventRules`), the
  freeze gates that compare single objects, manual termination records.
- Batch studies and score tables (`eval/`, `scoring/forecasts.py`), release
  checks, charts, dashboards and demo traffic: no state that a step can break.

## Observations

Where code and text disagree, or a promise has a limit, beyond the violated runs.
No run checks these; a name in parentheses is a definition of the module that
states the promise and does not hold.

Operator:

- `docs/configuration.md:90` promises two minutes between scale-downs. If the
  answer of an applied `/scale` update is lost, `lastScaleDown` is not set and
  the next scale-down does not wait.
- `docs/configuration.md:89`: a scale-up that was planned but not written leaves
  `belowCurrentSince` running.
- `overestimate.go:30`, `docs/user-guide.md:341`: the override outlives the cap
  that set it until the next evaluation.

Statistical engine:

- `store.py:16-17, 249`: `recover()` reads the checkpoint and the outcomes under
  two separate holds of the lock. With a second direct user of the store a
  compaction between them loses outcomes; the service's own lock prevents it.
- `maturation.py:5-7`: a request that waits past a truth deadline closes a
  window as unscorable although its values were in the metric store in time.
- `trust.py:168-169`: an edit of the settings within one decision interval issues
  the same window twice in one evidence epoch.
- `metrics.py:11-12`: slots of deleted autoscalers are not given back, since
  nothing calls `forget()` (`service.py:386-388`).
- A slow request bound to an old UID can overwrite the metrics snapshot of the
  object that replaced it.

LSTM engine:

- `api/main.py:1086-1090` (`GaugesCurrent`): the gauge of a step that an answer
  does not have keeps the value of an earlier answer. `accuracy.py:3-5`
  (`WindowIsADay`): the window is a number of scores, which is less than a day
  when requests come more often.
- A masked newest sample scores a component forecast that was just issued.
- `gapfill.py:14-15` (`FillKeepsPartition`): a filled gap can lie across the cut
  that the training really makes.
- `seasonal_ensemble.py:324-325`: a gap at the start of both fitted ranges is
  filled from an observation before them, which the fingerprint does not cover.
- A trainer resolves its signal before it takes the publication lock.

Tools:

- `archive.py:17-18` (`WindowsHonest`): a line lost between two collections can
  lie in the window of a coverage record that reports no gap. `archive.py:341-342`: a crash between the meta file and the index line
  loses the line.
- `p8_launcher.py`: a kill between the attempt directory and `run.json` leaves an
  attempt that can be neither exported nor resumed; damage between the rename and
  the re-read of a chunk is recorded as its content.
- `infra_events.py`: the staleness marker of a failed scrape can be taken as the
  end of a pod.
- `archive.py:266`: a run that lost the rename reports `already_archived` before
  the winner wrote its index line, and the pair stays without one until a later
  run if the winner dies; `freeze_capture.py:741` accepts that answer as it is.
- `collect_load_evidence.py` (`EarlyRestart`): a proxy restart within the epoch
  window of the pod's start that kube-state-metrics never saw is accepted, and
  the requests before it are not counted.
- `freeze_capture.py`: a value that changes and changes back between two reads,
  or changes between the last comparison and the verdict, is not seen; times are
  compared in whole seconds, so a ConfigMap written in the second a container
  started counts as read by it; a failure right after the reservation of a
  package leaves the reservation.
- `migrate-api-group.py:524-528`: a replacement deleted or changed between its
  last check and the delete of the original is not noticed, and neither is a
  legacy operator whose pods come back after line 516. The legacy objects are
  listed once before the attempts to activate (line 552), so one created after
  that is only found by the wait for the operator's report. The loop of a
  cutover compares the configuration and not the generation, so an edit that was
  taken back passes there.
- `train_lstm_from_vm.py:225-232`: with a `TRAINING_SEQUENCE_LENGTH` of a smoke
  test the preflight accepts fewer rows than the minimum of `cpu` and `memory`,
  and the training raises (`MinRows` is below the preflight's need in the run,
  as it is at the default length).
- `shortage_events.py`: a decision row says what was applied at its moment, not
  that the count stayed; what is shown is that at every moment of the lead the
  needed count was applied no longer ago than the freshness bound and one unit.
- `shadow.py`: the history may have changed since the origin; records that
  `observe()` raised on are skipped.

## Running

    tlc -config MCReconcilerWrite.cfg MCReconciler
    tlc -config MCForecastService.cfg ForecastService
    tlapm ServiceProofs.tla

`PROJECT.json` lists the module and the configuration of every run.
