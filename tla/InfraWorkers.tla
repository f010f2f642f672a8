---------------------------- MODULE InfraWorkers ----------------------------
(***************************************************************************)
(* What deploy/prodcluster/infra_events.py detects about a worker node     *)
(* (detect, part a) while the node fails and recovers and single scrapes   *)
(* of single conditions are lost, and what classify makes of it together   *)
(* with the load gates and the attribution records of a later revision.    *)
(* A node may be declared as joined during the history.                    *)
(***************************************************************************)
EXTENDS EventRules

CONSTANTS Conds, Arms, Joins, MaxFaults, MaxChanges

VARIABLES
  now,
  since,         \* the declared join of the worker, or None
  trouble,       \* tick -> a condition of the node is wrong
  scraped,       \* condition -> ticks at which it was scraped
  faults,
  report,        \* coverage gaps and candidate runs found by detect, or None
  slots          \* classification of the last revision, or None

vars == <<now, since, trouble, scraped, faults, report, slots>>

Init ==
  /\ now = Lo /\ since \in Joins /\ faults = 0 /\ report = None /\ slots = None
  /\ trouble = <<>>
  /\ scraped = [c \in Conds |-> {}]

Exists(t) == since = None \/ t >= since

(* The node breaks and recovers, and scrapes of conditions are lost. *)
Tick ==
  /\ now <= Hi /\ now' = now + 1
  /\ \E wrong \in BOOLEAN, lost \in SUBSET Conds :
       /\ ~Exists(now) => ~wrong /\ lost = {}
       /\ trouble' = [t \in DOMAIN trouble \union {now} |-> IF t = now THEN wrong ELSE trouble[t]]
       /\ faults' = IF lost = {} THEN faults ELSE faults + 1
       /\ faults' <= MaxFaults
       /\ Cardinality({t \in Before(DOMAIN trouble', now) : trouble'[t] # trouble'[t + 1]}) <= MaxChanges
       /\ scraped' = [c \in Conds |-> IF Exists(now) /\ c \notin lost THEN scraped[c] \union {now} ELSE scraped[c]]
  /\ UNCHANGED <<since, report, slots>>

-----------------------------------------------------------------------------
(* detect: every condition covered from the join on; states are read only at *)
(* scrapes that carry all the conditions.                                     *)
From == IF since = None THEN Lo ELSE since
Joint == {t \in Lo..Hi : \A c \in Conds : t \in scraped[c]}
Healthy == {t \in Joint : ~trouble[t]}
Uncovered == UNION {Missing(scraped[c], From, Hi) : c \in Conds} \union Missing(Joint, From, Hi)
Candidates == BadRuns(Joint, Healthy)

Detect ==
  /\ now > Hi /\ report = None
  /\ report' = [gaps |-> Unknown(Uncovered), runs |-> Candidates]
  /\ UNCHANGED <<now, since, trouble, scraped, faults, slots>>

(* A revision: the records that attribute candidates and the rows of the    *)
(* load gates, here the same for every hour.                                *)
Analyse ==
  /\ report # None /\ slots = None
  /\ \E att \in [report.runs -> {"none", "infrastructure", "system"}], rows \in [Arms -> {"pass", "fail", "open"}] :
       LET segments == report.gaps \union UNION {Segments(r, Resolved(att[r]), From) : r \in report.runs}
           gates == [h \in {Hour(t) : t \in Window..(Hi - 1)} |-> GateStatus(rows, Arms)]
       IN  slots' = [class |-> [t \in Grid |-> Capacity(t, segments, gates)],
                     system |-> {r \in report.runs : att[r] = "system"}]
  /\ UNCHANGED <<now, since, trouble, scraped, faults, report>>

Next == Tick \/ Detect \/ Analyse
Spec == Init /\ [][Next]_vars

-----------------------------------------------------------------------------
(* A stretch of trouble longer than the coverage limit that no attribution  *)
(* calls the system's own outcome touches no slot classified verified_clean *)
(* and none within the washout after it, whichever scrapes were lost.       *)
Outages == {t \in Lo..(Hi - KsmGap - 1) : \A x \in t..(t + KsmGap + 1) : trouble[x]}

CleanIsHealthy ==
  slots # None =>
    \A o \in Outages :
      \/ \E r \in slots.system : r.first <= o + KsmGap + 1 /\ r.last >= o
      \/ \A t \in Grid : slots.class[t] = "verified_clean" => o >= t + SlotLen \/ o + KsmGap + 1 + Washout < t
=============================================================================
