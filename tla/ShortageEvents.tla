--------------------------- MODULE ShortageEvents ---------------------------
(***************************************************************************)
(* deploy/prodcluster/scoring: how a capacity shortage is read off the     *)
(* samples of the Ready count (capacity.py) and explained from the         *)
(* operator's decision rows (shortage_events.py).  The operator applies a  *)
(* count and records it afterwards, or records the old one when the write  *)
(* failed, or dies before it records anything; another writer may change   *)
(* the count too.  The workload's Ready count follows it late, two         *)
(* exporters report it in samples that get lost, and the demand steps up   *)
(* and down.  The tools then see the samples and the decision rows only.   *)
(*                                                                         *)
(* Time is in units of half a scoring instant (15 s).  A sample is <<time, *)
(* value>> with Marker for the value of a staleness marker; a decision row *)
(* is <<time, applied>>.                                                   *)
(***************************************************************************)
EXTENDS Integers, FiniteSets, FiniteSetsExt

CONSTANTS
  STEP,       \* units between two instants
  FRESH,      \* the oldest decision that still counts
  Lead,       \* how long a count must have been applied to be ahead
  Lookback,   \* the window before an onset that decisions must cover
  Exporters,  \* exporter series of the Ready count
  Counts,     \* replica counts
  MaxLost,    \* bound: scrapes that fail, decisions that fail or leave no row
  MaxChanges, \* bound: changes of the applied count and of the demand
  MaxTime     \* bound on the clock

Marker == -1
Missing == -1

VARIABLES
  now, lost, changes,
  applied,   \* history: the applied count at every unit up to now
  pods,      \* history: the Ready count at every unit up to now
  need,      \* the planned requirement at every unit up to now
  latest,    \* exporter -> its latest sample
  ready,     \* instant -> the count read for it, or Missing
  rows       \* the operator's decision rows

vars == <<now, lost, changes, applied, pods, need, latest, ready, rows>>

Init ==
  /\ now = 0 /\ lost = 0 /\ changes = 0 /\ rows = {}
  /\ \E c \in Counts, n \in Counts :
       /\ applied = [t \in {0} |-> c] /\ pods = [t \in {0} |-> c]
       /\ need = [t \in {0} |-> n]
  /\ latest = [x \in Exporters |-> <<0, Marker>>]
  /\ ready = [t \in {} |-> Missing]

(* Mutant: the latest sample counts however old it is.                     *)
CountsAtAnyAge(q, tau) == q[2] # Marker

(* The latest sample of a series counts when it is a value inside          *)
(* (tau - STEP, tau]; a staleness marker as the latest takes the series    *)
(* out.                                                                    *)
CountsAt(q, tau) == q[2] # Marker /\ q[1] > tau - STEP

(* ready_at: the largest across the series, or nothing.                    *)
ReadyAt(series, tau) ==
  LET counts == {series[x][2] : x \in {x \in Exporters : CountsAt(series[x], tau)}}
  IN  IF counts = {} THEN Missing ELSE Max(counts)

Extend(f, v) == [t \in 0 .. now + 1 |-> IF t =< now THEN f[t] ELSE v]

(* The row a reconcile leaves, after its write: the count it wrote or kept *)
(* ("states"); the count it had read, when the write returned an error,    *)
(* although it may have landed ("error"); none, when the operator died in  *)
(* between, could not append to its log or did not run ("none").           *)
RowOf(row, c) ==
  CASE row = "states" -> {<<now + 1, c>>}
    [] row = "error" -> {<<now + 1, applied[now]>>}
    [] OTHER -> {}

(* One unit: between two instants the operator decides, or fails to; the   *)
(* count changes with its decision or by another writer; the Ready count   *)
(* follows the applied count or not yet, the demand moves at an instant,   *)
(* and each exporter is scraped, leaves a staleness marker or is missed.   *)
Tick(row, c, p, n, seen) ==
  /\ now < MaxTime
  /\ lost' = lost + Cardinality({x \in Exporters : seen[x] # "scraped"})
                  + (IF now % STEP = 0 /\ row # "states" THEN 1 ELSE 0)
  /\ lost' =< MaxLost
  /\ now' = now + 1
  /\ changes' = changes + (IF c # applied[now] THEN 1 ELSE 0)
                        + (IF n # need[now] THEN 1 ELSE 0)
  /\ changes' =< MaxChanges
  /\ applied' = Extend(applied, c)
  /\ pods' = Extend(pods, p)
  /\ need' = Extend(need, n)
  /\ rows' = rows \cup RowOf(row, c)
  /\ latest' = [x \in Exporters |->
       CASE seen[x] = "scraped" -> <<now + 1, p>>
         [] seen[x] = "marked" -> <<now + 1, Marker>>
         [] OTHER -> latest[x]]
  /\ ready' = IF (now + 1) % STEP # 0 THEN ready
              ELSE [t \in DOMAIN ready \cup {now + 1} |->
                      IF t =< now THEN ready[t] ELSE ReadyAt(latest', t)]

Next ==
  \E seen \in [Exporters -> {"scraped", "marked", "missed"}],
     row \in IF now % STEP = 0 THEN {"states", "error", "none"} ELSE {"none"},
     c \in Counts,
     p \in {pods[now], applied[now]},
     n \in IF now % STEP = STEP - 1 THEN Counts ELSE {need[now]} :
    Tick(row, c, p, n, seen)

Spec == Init /\ [][Next]_vars

-----------------------------------------------------------------------------
(* shortage_events.py over the instants of the window [STEP, now]          *)

Taus == DOMAIN ready
Short(t) == t \in Taus /\ ready[t] # Missing /\ ready[t] < need[t]

(* The instants of the event that starts at t.                             *)
Instants(t) == {u \in Taus : u >= t /\ \A w \in t .. u : w \in Taus => Short(w)}
Onsets == {t \in Taus : Short(t) /\ ~Short(t - STEP)}

(* An event is censored on the left when no instant before it was read, on *)
(* the right when none after it was.                                       *)
LeftCensored(t) == t = STEP \/ ready[t - STEP] = Missing

(* events: the onset, the instants, the censoring and the recovery.        *)
Event(t) ==
  LET last == Max(Instants(t))
      seen == last + STEP \in Taus /\ ready[last + STEP] # Missing
  IN  [start |-> t, last |-> last, instants |-> Instants(t),
       left |-> LeftCensored(t), right |-> ~seen,
       recovered |-> IF seen THEN last + STEP ELSE Missing,
       cause |-> IF ~seen THEN "none"
                 ELSE IF ready[last + STEP] > ready[last] THEN "ready_rose"
                 ELSE "demand_fell"]

Times(lo, hi) == {r[1] : r \in {r \in rows : r[1] \in lo .. hi}}

(* covered: decisions at most FRESH apart over [lo, hi], edges included.   *)
Covered(lo, hi) ==
  LET ts == Times(lo, hi)
  IN  /\ ts # {} /\ Min(ts) - lo =< FRESH /\ hi - Max(ts) =< FRESH
      /\ \A a \in ts : a = Max(ts) \/ \E b \in ts : b > a /\ b - a =< FRESH

(* The run of decisions up to the onset that all applied what it needs:    *)
(* the times such a run may be said to start.                              *)
RunStarts(t) ==
  {r[1] : r \in {r \in rows :
     r[1] \in (t - Lookback) .. t /\
     \A q \in rows : q[1] \in r[1] .. t => q[2] >= need[t]}}

(* operator_timeline: the count was applied ahead and Ready came late.     *)
AppliedAhead(t) ==
  /\ Times(t - FRESH, t) # {} /\ Covered(t - Lookback, t)
  /\ RunStarts(t) # {} /\ t - Min(RunStarts(t)) >= Lead

-----------------------------------------------------------------------------
(* Properties                                                              *)

(* A Ready count the scorer uses is a count the workload really had within *)
(* the last instant, whichever exporter reported it and however many       *)
(* scrapes were lost or marked stale in between (capacity.py:89-106).      *)
ReadyIsRecent ==
  \A t \in Taus : ready[t] # Missing =>
    \E u \in (t - STEP + 1) .. t : pods[u] = ready[t]

(* A complete event, the only kind that enters the recovery statistics, is *)
(* seen from the instant before it through its recovery: the requirement   *)
(* was met on both sides, every instant between was short, and a recovery  *)
(* put down to the demand follows a real drop of the demand                *)
(* (shortage_events.py:57-84).                                             *)
CompleteIsWhole ==
  \A t \in Onsets : LET e == Event(t) IN
    ~e.left /\ ~e.right =>
      /\ t - STEP \in Taus /\ ready[t - STEP] >= need[t - STEP]
      /\ ready[e.recovered] >= need[e.recovered]
      /\ e.recovered - t = STEP * Cardinality(e.instants)
      /\ e.cause = "demand_fell" => need[e.recovered] < need[e.last]

(* When an event is tagged applied_ahead_ready_late, the replicas it needed *)
(* really were applied, at every moment of the lead before its onset, no    *)
(* longer ago than FRESH and the decision that found them: a row is true    *)
(* when its reconcile reads or writes the count, and the rows of the run    *)
(* leave no wider gap.  That the count stayed applied in between, no row    *)
(* can say (shortage_events.py:87-110, controller.go:676-695).              *)
AheadIsAhead ==
  \A t \in Onsets : AppliedAhead(t) =>
    \A u \in (t - Lead) .. t :
      \E w \in (u - FRESH - 1) .. u : w >= 0 /\ applied[w] >= need[t]
=============================================================================
