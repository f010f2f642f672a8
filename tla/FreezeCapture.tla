--------------------------- MODULE FreezeCapture ---------------------------
(***************************************************************************)
(* The read-only freeze capture of deploy/prodcluster/freeze_capture.py:   *)
(* its reads of the cluster, one after the other while the cluster goes    *)
(* on, and the gates that decide PASS.  The cluster is what the gates      *)
(* compare: the ml-api template, the ConfigMap its environment comes from, *)
(* the running pod, the six-hourly training with the reload, the archive   *)
(* pair and the issuances that follow it, the evaluated qualification      *)
(* hours.  An artifact is named by the slot it was trained for.            *)
(***************************************************************************)
EXTENDS Integers, Sequences, FiniteSets, FiniteSetsExt

CONSTANTS
  COLLECTOR,     \* the collector version the qualification gate accepts
  Writer,        \* the version the frozen collector writes into its rows
  None, MaxSlots, MaxWrites, MaxRows

VARIABLES
  clock,         \* counts writes and container starts, no two in the same second
  template, map, \* the Deployment's template and the ConfigMap: [data, written]
  pod,           \* [template, env, started]: the running ml-api pod
  slot, young,   \* the newest scheduled slot; it began less than 300 s ago
  job,           \* state of the newest slot's training: "due", "active", "Complete", "Failed"
  done,          \* [slot, result]: the latest finished training
  served, pair, issued,   \* artifact ml-api loaded, archived last, issued last
  checks,        \* slots with a verified four-leg training check
  rows,          \* final rows of the qualification hours
  cap            \* the capture: its step, what it has read, its verdict

config == <<template, map, pod, clock>>
pipeline == <<slot, young, job, done, served, pair, issued, checks>>
vars == <<config, pipeline, rows, cap>>

Rendered == 1
Versions == {Rendered, Rendered + 1}
Off == [pc |-> "off", checks |-> {}, issued |-> 0, rows |-> <<>>, diff0 |-> FALSE, template |-> None, jobs |-> None,
        map |-> None, pod |-> None, slot |-> 0, young |-> FALSE, atNow |-> 0, pair |-> 0, reload |-> 0, again |-> <<>>,
        failed |-> {}]

(* The ConfigMap may have been written since the pod started. *)
Init ==
  /\ clock = 2 /\ template = [data |-> Rendered, written |-> 0]
  /\ \E w \in {0, 2}, v \in Versions :
       /\ map = [data |-> Rendered, written |-> w]
       /\ pod = [template |-> Rendered, env |-> IF w = 0 THEN Rendered ELSE v, started |-> 1]
  /\ slot = 2 /\ young = FALSE /\ job = "Complete" /\ done = [slot |-> 2, result |-> "Complete"]
  /\ served = 2 /\ pair = 2 /\ issued = 2 /\ checks = {1, 2}
  /\ rows = <<>> /\ cap = Off

-----------------------------------------------------------------------------
(* The cluster *)
WriteMap(v) ==
  /\ clock < MaxWrites /\ clock' = clock + 1
  /\ map' = [data |-> v, written |-> clock']
  /\ UNCHANGED <<template, pod, pipeline, rows, cap>>

ApplyTemplate(v) ==
  /\ clock < MaxWrites /\ clock' = clock + 1
  /\ v # template.data /\ template' = [data |-> v, written |-> clock']
  /\ UNCHANGED <<map, pod, pipeline, rows, cap>>

PodStarts ==
  /\ clock < MaxWrites /\ clock' = clock + 1
  /\ pod' = [template |-> template.data, env |-> map.data, started |-> clock']
  /\ UNCHANGED <<template, map, pipeline, rows, cap>>

SlotTurns ==
  /\ slot < MaxSlots /\ slot' = slot + 1 /\ young' = TRUE /\ job' = "due"
  /\ UNCHANGED <<config, done, served, pair, issued, checks, rows, cap>>

SlotAges ==
  /\ young /\ young' = FALSE
  /\ UNCHANGED <<config, slot, job, done, served, pair, issued, checks, rows, cap>>

TrainingRuns ==
  /\ job = "due" /\ job' = "active"
  /\ UNCHANGED <<config, slot, young, done, served, pair, issued, checks, rows, cap>>

TrainingEnds(result) ==
  /\ job = "active" /\ job' = result
  /\ done' = [slot |-> slot, result |-> result]
  /\ UNCHANGED <<config, slot, young, served, pair, issued, checks, rows, cap>>

Latest == IF done.result = "Complete" THEN done.slot ELSE done.slot - 1

Reloads ==
  /\ served # Latest /\ served' = Latest
  /\ UNCHANGED <<config, slot, young, job, done, pair, issued, checks, rows, cap>>

Archives ==
  /\ pair # Latest /\ pair' = Latest
  /\ UNCHANGED <<config, slot, young, job, done, served, issued, checks, rows, cap>>

Issues ==
  /\ issued # served /\ issued' = served
  /\ UNCHANGED <<config, slot, young, job, done, served, pair, checks, rows, cap>>

(* training-check.sh: the job, the reload, the archive pair, the first issuance. *)
Verifies ==
  /\ done.slot \notin checks /\ done.result = "Complete"
  /\ served = done.slot /\ pair = done.slot /\ issued = done.slot
  /\ checks' = checks \union {done.slot}
  /\ UNCHANGED <<config, slot, young, job, done, served, pair, issued, rows, cap>>

Evaluates(status) ==
  /\ Len(rows) < MaxRows
  /\ rows' = Append(rows, [status |-> status, collector |-> Writer])
  /\ UNCHANGED <<config, pipeline, cap>>

-----------------------------------------------------------------------------
(* The reads of the capture, in the order of main *)
Read(pc, next, m) == cap.pc = pc /\ cap' = [m EXCEPT !.pc = next] /\ UNCHANGED <<config, pipeline, rows>>

ReadEvidence == Read("off", "diff0", [cap EXCEPT !.checks = checks, !.issued = issued, !.rows = rows])
Equals == template.data = Rendered /\ map.data = Rendered
DiffStart == Read("diff0", "objects", [cap EXCEPT !.diff0 = Equals])
CollectObjects == Read("objects", "maps", [cap EXCEPT !.template = template, !.jobs = [done |-> done, active |-> job = "active"]])
CollectMaps == Read("maps", "pods", [cap EXCEPT !.map = map])
ListPods == Read("pods", "now", [cap EXCEPT !.pod = pod])
TakeNow == Read("now", "logs", [cap EXCEPT !.slot = slot, !.young = young, !.atNow = served])
ReadLogs == Read("logs", "again", [cap EXCEPT !.pair = pair, !.reload = served])
CollectAgain == Read("again", "diff1", [cap EXCEPT !.again = <<template, map>>])

(* The gates *)
(* stable_during: the second collection found the same content; when it was *)
(* written is not part of the fingerprint.                                  *)
Stable == cap.again[1].data = cap.template.data /\ cap.again[2].data = cap.map.data

(* gate_runtime: the pod is of the current template, and no ConfigMap of its  *)
(* environment was written after the container started.                       *)
Runtime == cap.pod.template = cap.template.data /\ cap.map.written <= cap.pod.started

(* Mutant: the latest finished training stands for the newest slot. *)
ExpectedFinished == cap.jobs.done.slot

(* gate_processes: the slot is the newest by the capture's own time. *)
Expected == cap.slot

Processes ==
  /\ ~(cap.young \/ (cap.jobs.active /\ cap.jobs.done.slot + 1 = Expected))
  /\ cap.jobs.done = [slot |-> Expected, result |-> "Complete"]
  /\ cap.pair = Expected /\ cap.reload = Expected
  /\ {Expected - 1, Expected} \subseteq cap.checks

FreshIssuances == cap.issued = Expected

Qualification ==
  /\ cap.rows # <<>>
  /\ \A i \in 1..Len(cap.rows) : cap.rows[i].status = "PASS" /\ cap.rows[i].collector = COLLECTOR

Failed ==
  (IF cap.diff0 /\ Equals THEN {} ELSE {"live_equals_render"}) \union
  (IF Stable THEN {} ELSE {"stable_during"}) \union
  (IF Runtime THEN {} ELSE {"runtime"}) \union
  (IF Processes THEN {} ELSE {"declared_processes"}) \union
  (IF FreshIssuances THEN {} ELSE {"fresh_issuances"}) \union
  (IF Qualification THEN {} ELSE {"qualification"})

Decide == Read("diff1", "published", [cap EXCEPT !.failed = Failed])

World ==
  \/ \E v \in Versions : WriteMap(v) \/ ApplyTemplate(v)
  \/ PodStarts \/ SlotTurns \/ SlotAges \/ TrainingRuns
  \/ \E r \in {"Complete", "Failed"} : TrainingEnds(r)
  \/ Reloads \/ Archives \/ Issues \/ Verifies
  \/ \E s \in {"PASS", "FAIL"} : Evaluates(s)

Capture ==
  \/ ReadEvidence \/ DiffStart \/ CollectObjects \/ CollectMaps \/ ListPods \/ TakeNow \/ ReadLogs
  \/ CollectAgain \/ Decide

Next == (cap.pc # "published" /\ World) \/ Capture
Spec == Init /\ [][Next]_vars

-----------------------------------------------------------------------------
Pass == cap.pc = "published" /\ cap.failed = {}

(* A capture that passes was taken while ml-api served the artifact of the   *)
(* newest scheduled training, the one its checks, its archive pair and its   *)
(* newest issuance name, although all of these were read at other moments.   *)
ServedIsVerified == Pass => cap.atNow = cap.slot /\ cap.issued = cap.slot /\ cap.slot \in cap.checks

(* In a capture that passes the running pod has the environment the captured *)
(* ConfigMap says, unless the ConfigMap was rewritten after it was read.     *)
RunsAsCaptured == (Pass /\ map = cap.map) => cap.pod.env = cap.map.data

(* What a capture that passes has captured is the rendered configuration,    *)
(* although it is read between the two comparisons with the cluster and may  *)
(* change and change back in between, unless it was written again between    *)
(* the second collection and the last comparison.                            *)
CapturedIsRendered ==
  (Pass /\ cap.again = <<template, map>>) => cap.template.data = Rendered /\ cap.map.data = Rendered

(* Hours whose final rows are all PASS and written by the frozen collector   *)
(* qualify ("every final row is PASS with qualifies=True and was written by  *)
(* the frozen collector").                                                   *)
FrozenRowsQualify ==
  (cap.pc = "published" /\ cap.rows # <<>>
     /\ \A i \in 1..Len(cap.rows) : cap.rows[i].status = "PASS" /\ cap.rows[i].collector = Writer)
  => "qualification" \notin cap.failed
=============================================================================
