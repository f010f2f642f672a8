------------------------------- MODULE K6Count -------------------------------
(***************************************************************************)
(* The generator-side count of failed requests over the hour [T0, T1), as  *)
(* collect_load_evidence.py bounds it (collect, k6_bounds, k6_failed) from  *)
(* the samples k6 pushes: the built-in counter has a sample only in a flush *)
(* that brings a later failure, the dense one in every flush with a later   *)
(* request.  Failed writes are not retried, and an event reaches the        *)
(* exporter at most Lag after it happened.                                  *)
(*                                                                         *)
(* Time is in ticks; every tick has a request, which may fail.             *)
(***************************************************************************)
EXTENDS LoadGate

CONSTANTS T0, T1, End, Lag, Push, HbGap, MaxFailures, MaxFaults

VARIABLES
  now, flushed,  \* the clock, and the last flush
  failed,        \* ticks whose request failed
  pending,       \* requests that did not reach the exporter yet
  exported,      \* requests the exporter has counted
  sparse, dense, \* stored samples: latest event time -> failures counted
  beats,         \* stored heartbeats
  faults,        \* events that missed a flush, and flushes whose write failed
  hasDense       \* the generator script has the dense counter

vars == <<now, flushed, failed, pending, exported, sparse, dense, beats, faults, hasDense>>

Init ==
  /\ now = 0 /\ flushed = 0 /\ failed = {} /\ pending = {} /\ exported = {}
  /\ sparse = <<>> /\ dense = <<>> /\ beats = {0} /\ faults = 0
  /\ hasDense \in BOOLEAN

-----------------------------------------------------------------------------
(* k6 and its remote-write output (external) *)
FlushDue == now % Push = 0 /\ flushed < now

Request(fails) ==
  /\ ~FlushDue /\ now < End
  /\ fails => Cardinality(failed) < MaxFailures
  /\ failed' = IF fails THEN failed \union {now} ELSE failed
  /\ pending' = pending \union {now}
  /\ now' = now + 1
  /\ UNCHANGED <<flushed, exported, sparse, dense, beats, faults, hasDense>>

Newest(S) == IF S = {} THEN -1 ELSE Max(S)

(* A counter is pushed when the flush brings an event later than any before. *)
Pushed(samples, old, new) ==
  IF Newest(new) <= Newest(old) THEN samples
  ELSE [t \in DOMAIN samples \union {Newest(new)} |->
          IF t = Newest(new) THEN Cardinality(exported' \intersect failed) ELSE samples[t]]

Flush(arrived, stored) ==
  /\ FlushDue
  /\ {t \in pending : now - t >= Lag} \subseteq arrived
  /\ faults' = faults + Cardinality(pending \ arrived) + (IF stored THEN 0 ELSE 1) /\ faults' <= MaxFaults
  /\ flushed' = now
  /\ pending' = pending \ arrived /\ exported' = exported \union arrived
  /\ IF stored
     THEN /\ sparse' = Pushed(sparse, exported \intersect failed, arrived \intersect failed)
          /\ dense' = IF hasDense THEN Pushed(dense, exported, arrived) ELSE dense
          /\ beats' = beats \union {now}
     ELSE UNCHANGED <<sparse, dense, beats>>
  /\ UNCHANGED <<now, failed, hasDense>>

Next ==
  \/ \E fails \in BOOLEAN : Request(fails)
  \/ \E arrived \in SUBSET pending, stored \in BOOLEAN : Flush(arrived, stored)

Spec == Init /\ [][Next]_vars

-----------------------------------------------------------------------------
(* k6_bounds; None stands for a tail that no sample bounds yet. *)
LastBefore(samples, t) ==
  LET S == {L \in DOMAIN samples : L < t} IN IF S = {} THEN 0 ELSE samples[Max(S)]

FirstFrom(samples, t) ==
  LET S == {L \in DOMAIN samples : L >= t + Lag} IN IF S = {} THEN None ELSE samples[Min(S)]

K6Bounds(samples, zeroAllowed) ==
  LET tail == FirstFrom(samples, T1)
      head == FirstFrom(samples, T0)
      low == IF head = None THEN 0 ELSE Max({0, LastBefore(samples, T1) - head})
  IN  IF tail # None THEN <<low, tail - LastBefore(samples, T0)>>
      ELSE IF zeroAllowed /\ \A L \in DOMAIN samples : L < T0 THEN <<0, 0>> ELSE None

(* The heartbeat of every flush from the hour to the last one that matters. *)
NoLostFlush == Covers(beats, T0, T1 + Lag + Push, HbGap)

(* k6_failed: the dense counter decides when the run has one, and may not *)
(* contradict the built-in one.                                           *)
Failures ==
  LET builtin == K6Bounds(sparse, TRUE)
      counted == K6Bounds(dense, FALSE)
  IN  CASE ~NoLostFlush -> None
        [] NoLostFlush /\ DOMAIN dense = {} -> builtin
        [] OTHER -> IF counted # None /\ builtin # None /\ (counted[1] > builtin[2] \/ builtin[1] > counted[2])
                    THEN None ELSE counted

Verdict(bounds) == IF bounds = None THEN "INCOMPLETE" ELSE Gate(<<Planned, Planned>>, bounds, <<0, 0>>)

-----------------------------------------------------------------------------
Truth == Cardinality({t \in failed : T0 <= t /\ t < T1})

(* The bounds hold the number of requests that failed in the hour, however  *)
(* late their samples, whichever flushes were lost and whichever counter    *)
(* the generator has; so a PASS or a FAIL of G3 is true of that number.     *)
FailuresBounded ==
  now = End /\ ~FlushDue =>
    LET bounds == Failures
    IN  /\ bounds # None => bounds[1] <= Truth /\ Truth <= bounds[2]
        /\ Sound(Verdict(bounds), Planned, Truth)
=============================================================================
