----------------------------- MODULE InfraPods -----------------------------
(***************************************************************************)
(* The lifetime deploy/prodcluster/infra_events.py reconstructs for a      *)
(* benchmark pod from its inventory series (inventory) and what it then    *)
(* says about the time the pod was unscheduled (detect, part c).  The pod  *)
(* is created, waits to be scheduled and is deleted; scrapes of            *)
(* kube-state-metrics fail, which writes a staleness marker for every      *)
(* series; the exporter is replaced by another instance; the inventory or  *)
(* the state series may be missing from a scrape.                          *)
(***************************************************************************)
EXTENDS EventRules

CONSTANTS SchedAlert, MaxFaults

VARIABLES
  now,
  pod,           \* [created, scheduled, deleted]: ticks or None
  exporter,      \* the instance scraped
  info,          \* kube_pod_info: set of <<tick, exporter>>
  states,        \* scheduled series: ticks scraped together
  dated,         \* kube_pod_created was scraped
  marks,         \* staleness markers of kube_pod_info
  other,         \* scrapes of the exporter's inventory: set of <<tick, exporter>>
  faults

vars == <<now, pod, exporter, info, states, dated, marks, other, faults>>

Init ==
  /\ now = Lo /\ exporter = 1 /\ faults = 0 /\ dated = FALSE
  /\ pod = [created |-> None, scheduled |-> None, deleted |-> None]
  /\ info = {} /\ states = {} /\ marks = {} /\ other = {}

Alive(p) == p.created # None /\ p.deleted = None

(* The pod's own life within one tick. *)
Lives(p) ==
  {p} \union (IF p.created = None THEN {[p EXCEPT !.created = now]} ELSE {})
      \union (IF Alive(p) THEN {[p EXCEPT !.deleted = now]} ELSE {})
      \union (IF Alive(p) /\ p.scheduled = None THEN {[p EXCEPT !.scheduled = now]} ELSE {})

(* A scrape of one instant: everything, or nothing (markers for what the     *)
(* previous scrape had), or without the pod's inventory or its state series. *)
Tick ==
  /\ now <= Hi /\ now' = now + 1
  /\ \E p \in Lives(pod), kind \in {"ok", "failed", "no inventory", "no states", "replaced"} :
       /\ faults' = IF kind = "ok" THEN faults ELSE faults + 1
       /\ faults' <= MaxFaults
       /\ pod' = p
       /\ exporter' = IF kind = "replaced" THEN exporter + 1 ELSE exporter
       /\ LET there == Alive(p) /\ kind # "failed"
              listed == there /\ kind # "no inventory"
              was == \E i \in info : i[1] = now - 1
          IN  /\ info' = IF listed THEN info \union {<<now, exporter'>>} ELSE info
              /\ states' = IF there /\ kind # "no states" THEN states \union {now} ELSE states
              /\ dated' = (dated \/ listed)
              /\ marks' = IF was /\ (~listed \/ kind = "replaced") THEN marks \union {now} ELSE marks
              /\ other' = IF kind # "failed" THEN other \union {<<now, exporter'>>} ELSE other

Next == Tick
Spec == Init /\ [][Next]_vars

-----------------------------------------------------------------------------
(* inventory: the first and last inventory sample, its gaps, and the marker *)
(* that is still in force at the end.                                       *)
Seen == {i[1] : i \in info}
AnySeen == states    \* any_first, any_last: the pod's other series
First == Min(Seen)
LastSeen == Max(Seen)
Marker == IF After(marks, LastSeen) = {} THEN None ELSE Min(After(marks, LastSeen))

(* The end of the life: a marker, or the next inventory scrape of the same   *)
(* exporter without the pod; none when other series continue.                *)
Begin == IF dated THEN Min({pod.created, First} \union AnySeen) ELSE Min({First} \union AnySeen)
StillThere == Hi - LastSeen <= KsmGap
Contradicted == AnySeen # {} /\ Max(AnySeen) > LastSeen + KsmGap
Own == {o[1] : o \in {o \in other : \E i \in info : i[1] = LastSeen /\ i[2] = o[2]}}

End ==
  IF StillThere \/ Contradicted THEN None
  ELSE IF Marker # None THEN Marker
  ELSE IF After(Own, LastSeen) # {} THEN Min(After(Own, LastSeen)) ELSE None

LifeEnd == Max({LastSeen} \union AnySeen)

LifeGaps ==
  (IF Contradicted \/ (~StillThere /\ End = None) THEN {<<LastSeen, Hi>>} ELSE {})
  \union Missing(Seen \union {LastSeen}, Max({Lo, Begin}), LastSeen)

(* detect (c): the scheduled states over the life; a run that starts with   *)
(* the pod starts at its creation, one that lasts to its end ends there.    *)
Scheduled(t) == pod.scheduled # None /\ t >= pod.scheduled
Runs ==
  {[r EXCEPT !.before = IF @ = None /\ dated /\ Begin >= Lo THEN Begin ELSE @,
             !.after = IF @ = None THEN End ELSE @] : r \in BadRuns(states, {t \in states : Scheduled(t)})}

Long(r) ==
  (IF r.after = None THEN Hi ELSE r.after) - (IF r.before = None THEN Lo ELSE r.before) > SchedAlert

(* What is reported; the exporter's own gaps show in every worker's series. *)
Found ==
  Unknown(Missing({o[1] : o \in other}, Lo, Hi)) \union
  IF info = {}
  THEN IF states # {} THEN {<<Min(states), Max(states), "unknown">>}
       ELSE IF marks # {} THEN {<<Lo, Max(marks), "unknown">>} ELSE {}
  ELSE Unknown(LifeGaps \union Missing(states, Max({Lo, Begin}), Min({Hi, LifeEnd})))
       \union UNION {Segments(r, "unknown", Lo) : r \in {r \in Runs : Long(r)}}

-----------------------------------------------------------------------------
(* A pod that stayed unscheduled for longer than the alert plus one coverage *)
(* gap, and whose inventory was scraped at all, is never passed over: some   *)
(* of that wait lies in an interval reported as a candidate or unknown,      *)
(* whatever scrapes failed and however its life ended.                       *)
WaitEnd ==
  IF pod.scheduled # None THEN pod.scheduled ELSE IF pod.deleted # None THEN pod.deleted ELSE Hi

WaitReported ==
  (now > Hi /\ info # {} /\ WaitEnd - pod.created > SchedAlert + KsmGap)
    => \E s \in Found : s[1] <= WaitEnd /\ s[2] >= pod.created
=============================================================================
