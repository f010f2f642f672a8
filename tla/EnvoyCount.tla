----------------------------- MODULE EnvoyCount -----------------------------
(***************************************************************************)
(* The server-side request count of one arm pod over the hour [T0, T1), as *)
(* collect_load_evidence.py bounds it (arm_envoy, verify_snapshot,         *)
(* target_series_bounds) from the scrapes of its Envoy counter, from what  *)
(* kube-state-metrics saw of its proxy, and from the final snapshot its    *)
(* termination hook stores.  Scrapes may be missed, the proxy may restart  *)
(* and lose its counter, and the pod may start or end at any time.         *)
(*                                                                         *)
(* Time is in ticks, Second of them to a second.  The requests are those   *)
(* of one series; at most one is served in a tick, before anything looks   *)
(* at the pod in that tick.                                                *)
(***************************************************************************)
EXTENDS LoadGate

CONSTANTS
  T0, T1, End, Second, KsmGap,
  EpochLow, EpochHigh,  \* the proxy's own start may differ that much from the observed one
  MaxRequests, MaxScrapes, MaxObservations

VARIABLES
  now,
  pod,         \* "absent", "running", "captured" (its final snapshot is taken) or "gone"
  start,       \* when the pod started
  counter,     \* the proxy's request counter
  restarts,    \* the proxy's restarts, and when it last started
  proxyStart,
  served,      \* ticks in which a request was served
  scrapes,     \* scrape time -> counter value
  observed,    \* kube-state-metrics sample time -> [restarts, started]
  snapshot     \* None or [at |-> whole second, final |-> value, started |-> proxy start]

vars == <<now, pod, start, counter, restarts, proxyStart, served, scrapes, observed, snapshot>>

Put(f, t, v) == [u \in DOMAIN f \union {t} |-> IF u = t THEN v ELSE f[u]]

Init ==
  /\ now = 0 /\ pod = "absent" /\ start = None /\ counter = 0 /\ restarts = 0 /\ proxyStart = None
  /\ served = {} /\ scrapes = <<>> /\ observed = <<>> /\ snapshot = None

-----------------------------------------------------------------------------
(* The pod, the scrapers and the termination hook (external) *)
Tick == now < End /\ now' = now + 1
        /\ UNCHANGED <<pod, start, counter, restarts, proxyStart, served, scrapes, observed, snapshot>>

PodStarts ==
  /\ pod = "absent"
  /\ pod' = "running" /\ start' = now /\ proxyStart' = now
  /\ UNCHANGED <<now, counter, restarts, served, scrapes, observed, snapshot>>

Serve ==
  /\ pod = "running" /\ Cardinality(served) < MaxRequests
  /\ now \notin served \union DOMAIN scrapes \union DOMAIN observed
  /\ served' = served \union {now} /\ counter' = counter + 1
  /\ UNCHANGED <<now, pod, start, restarts, proxyStart, scrapes, observed, snapshot>>

(* between two ticks *)
ProxyRestarts ==
  /\ pod = "running" /\ restarts = 0 /\ now < End
  /\ now' = now + 1
  /\ restarts' = 1 /\ proxyStart' = now' /\ counter' = 0
  /\ UNCHANGED <<pod, start, served, scrapes, observed, snapshot>>

Scrape ==
  /\ pod \in {"running", "captured"} /\ now \notin DOMAIN scrapes /\ Cardinality(DOMAIN scrapes) < MaxScrapes
  /\ scrapes' = Put(scrapes, now, counter)
  /\ UNCHANGED <<now, pod, start, counter, restarts, proxyStart, served, observed, snapshot>>

Observe ==
  /\ pod \in {"running", "captured"} /\ now \notin DOMAIN observed \union DOMAIN scrapes
  /\ Cardinality(DOMAIN observed) < MaxObservations
  /\ observed' = Put(observed, now, [restarts |-> restarts, started |-> proxyStart])
  /\ UNCHANGED <<now, pod, start, counter, restarts, proxyStart, served, scrapes, snapshot>>

(* The hook captures once the listeners are closed, and stamps whole seconds. *)
Capture ==
  /\ pod = "running"
  /\ pod' = "captured"
  /\ snapshot' = [at |-> now - (now % Second), final |-> counter, started |-> proxyStart]
  /\ UNCHANGED <<now, start, counter, restarts, proxyStart, served, scrapes, observed>>

Gone ==
  /\ pod \in {"running", "captured"}
  /\ pod' = "gone"
  /\ UNCHANGED <<now, start, counter, restarts, proxyStart, served, scrapes, observed, snapshot>>

Next == Tick \/ PodStarts \/ Serve \/ ProxyRestarts \/ Scrape \/ Observe \/ Capture \/ Gone

Spec == Init /\ [][Next]_vars

-----------------------------------------------------------------------------
(* The collection, at End *)
Values(f) == {f[t] : t \in DOMAIN f}
Before(t) == {s \in DOMAIN scrapes : s < t}
From(t) == {s \in DOMAIN scrapes : s >= t}

(* The whole capture second lies before t. *)
CapturedBefore(t) == snapshot.at + Second <= t

(* A pod without a scrape after the hour needs its final snapshot. *)
NeedsSnapshot == {s \in DOMAIN scrapes : s > T1} = {}

(* proxy_start_at_capture: one start is observed around and after the capture, *)
(* and observed shortly before it.                                             *)
Around == {observed[t].started : t \in {u \in DOMAIN observed : u >= snapshot.at - KsmGap}}
SeenAround ==
  /\ \E t \in DOMAIN observed : snapshot.at - KsmGap <= t /\ t <= snapshot.at
  /\ Cardinality(Around) = 1

(* check_snapshot: the proxy's start by its own uptime lies within the epoch   *)
(* window of the start that kube-state-metrics saw.                            *)
Captured == \E seen \in Around : snapshot.started - seen \in EpochLow .. EpochHigh

(* verify_snapshot: and the scrapes around the capture agree with it.          *)
SnapshotAccepted ==
  /\ snapshot # None /\ SeenAround /\ Captured
  /\ \A s \in DOMAIN scrapes : IF s <= snapshot.at THEN scrapes[s] <= snapshot.final
                                                  ELSE scrapes[s] = snapshot.final

(* The counter never decreases over the scrapes. *)
Monotone == \A s, u \in DOMAIN scrapes : s <= u => scrapes[s] <= scrapes[u]

(* The scrapes the bounds rest on lie between a and b: the proxy's restart *)
(* counter is one value throughout, and observed from a to b.              *)
FirstUsed == IF Before(T0) # {} THEN Max(Before(T0)) ELSE Min(DOMAIN scrapes)
LastUsed == LET b == IF From(T1) # {} THEN Min(From(T1)) ELSE Max(DOMAIN scrapes)
            IN  IF NeedsSnapshot THEN Min({b, snapshot.at}) ELSE b

SameProxy ==
  /\ Cardinality(Values(observed)) = 1
  /\ LET first == observed[Min(DOMAIN observed)]
         seen == DOMAIN observed \union (IF first.restarts = 0 THEN {first.started} ELSE {})
     IN  Covers(seen, FirstUsed, LastUsed, KsmGap)

AtStart ==
  IF start >= T0 THEN <<0, 0>>
  ELSE <<IF Before(T0) # {} THEN scrapes[Max(Before(T0))] ELSE 0,
         IF From(T0) # {} THEN scrapes[Min(From(T0))] ELSE snapshot.final>>

AtEnd ==
  LET low == IF Before(T1) # {} THEN scrapes[Max(Before(T1))] ELSE 0
  IN  CASE start >= T1 -> <<0, 0>>
        [] start < T1 /\ From(T1) # {} -> <<low, scrapes[Min(From(T1))]>>
        [] OTHER -> IF CapturedBefore(T1) THEN <<snapshot.final, snapshot.final>> ELSE <<low, snapshot.final>>

(* The inventory: a pod with any record. *)
Inventoried == DOMAIN observed # {} \/ DOMAIN scrapes # {} \/ snapshot # None
CreatedAfter == DOMAIN observed # {} /\ start >= T1

(* None stands for Incomplete. *)
Bounds ==
  CASE ~Inventoried -> <<0, 0>>
    [] Inventoried /\ NeedsSnapshot /\ CreatedAfter -> <<0, 0>>
    [] Inventoried /\ NeedsSnapshot /\ ~CreatedAfter /\ ~SnapshotAccepted -> None
    [] Inventoried /\ NeedsSnapshot /\ SnapshotAccepted /\ CapturedBefore(T0) -> <<0, 0>>
    [] OTHER ->
         IF DOMAIN scrapes = {} \/ DOMAIN observed = {} \/ ~Monotone \/ ~SameProxy THEN None
         ELSE <<Max({0, AtEnd[1] - AtStart[2]}), AtEnd[2] - AtStart[1]>>

Verdict == IF Bounds = None THEN "INCOMPLETE" ELSE Gate(Bounds, <<0, 0>>, <<0, 0>>)

-----------------------------------------------------------------------------
Truth == Cardinality({t \in served : T0 <= t /\ t < T1})

(* What nobody saw leaves no trace: a pod without any record, a proxy that     *)
(* restarted before kube-state-metrics first saw it, and a restart so early    *)
(* that the epoch window of the final snapshot covers it, which                *)
(* kube-state-metrics never saw.                                               *)
EarlyRestart ==
  /\ NeedsSnapshot
  /\ restarts = 1 /\ proxyStart - start <= EpochHigh
  /\ \A t \in DOMAIN observed : observed[t].restarts = 0

Unseen ==
  \/ ~Inventoried
  \/ restarts = 1 /\ \A t \in DOMAIN observed : observed[t].restarts = 1
  \/ EarlyRestart

(* The bounds hold the number of requests the pod really served in the hour, *)
(* whichever scrapes were missed, wherever it started, restarted or ended;   *)
(* so a PASS or a FAIL of G1 is true of that number.                         *)
CountBounded ==
  now = End /\ ~Unseen =>
    /\ Bounds # None => Bounds[1] <= Truth /\ Truth <= Bounds[2]
    /\ Sound(Verdict, Truth, 0)
=============================================================================
