----------------------------- MODULE Migration -----------------------------
(***************************************************************************)
(* hack/migrate-api-group.py: the hand-over of PredictiveAutoscalers from  *)
(* the legacy API group (plan, prepare, cutover, activate), while users    *)
(* edit, delete and recreate legacy objects, replacements and the legacy   *)
(* operator, and the tool is stopped anywhere and run again.  Every        *)
(* kubectl call of the tool is a step of its own.  verify makes the calls  *)
(* that open a cutover, and writes nothing.                                *)
(*                                                                         *)
(* An object is its uid, its configuration (one value) and its generation; *)
(* a replacement also has its mode, the uid it was made from, what the new *)
(* operator last reported, and the resourceVersion all of these move.      *)
(***************************************************************************)
EXTENDS Integers, FiniteSets

CONSTANTS Pas, Specs, None, Attempts, MaxChanges, MaxCommands

VARIABLES
  legacy,        \* PA -> None or [uid, spec, gen, going]; going: deleted, and a finalizer holds it
  fresh,         \* PA -> None or its replacement
  oper,          \* the legacy operator: [uid, replicas, pods, rv]
  inv,           \* the inventory: None or [pas: PA -> [uid, spec, gen], oper: uid]
  tool,          \* the running command
  after,         \* what has come or changed since the tool last checked it: "replacement", "pods", "legacy"
  stamp, changes, commands

vars == <<legacy, fresh, oper, inv, tool, after, stamp, changes, commands>>

Idle == [cmd |-> None, pc |-> "idle", pa |-> None, todo |-> {}, again |-> FALSE, seen |-> None, tries |-> 0]
Report == [gen |-> 0, mode |-> None, conflict |-> TRUE]

Init ==
  /\ legacy \in [Pas -> {[uid |-> 1, spec |-> s, gen |-> 1, going |-> FALSE] : s \in Specs}]
  /\ fresh = [p \in Pas |-> None]
  /\ oper = [uid |-> 1, replicas |-> 1, pods |-> 1, rv |-> 1]
  /\ inv = None /\ tool = Idle /\ after = {}
  /\ stamp = 1 /\ changes = 0 /\ commands = 0

New == stamp' = stamp + 1

-----------------------------------------------------------------------------
(* Users and the cluster *)
Interferes == changes < MaxChanges /\ changes' = changes + 1 /\ UNCHANGED <<inv, tool, commands>>
Notes(what) == after' = IF tool.cmd \in {"cutover", "activate"} THEN after \union what ELSE {}

EditLegacy(p, s) ==
  /\ legacy[p] # None /\ legacy[p].spec # s /\ Interferes
  /\ legacy' = [legacy EXCEPT ![p].spec = s, ![p].gen = @ + 1]
  /\ UNCHANGED <<fresh, oper, after, stamp>>

RecreateLegacy(p, s) ==
  /\ Interferes /\ New
  /\ legacy' = [legacy EXCEPT ![p] = [uid |-> stamp', spec |-> s, gen |-> 1, going |-> FALSE]]
  /\ Notes({"legacy"})
  /\ UNCHANGED <<fresh, oper>>

DeleteLegacy(p) ==
  /\ legacy[p] # None /\ Interferes
  /\ legacy' = [legacy EXCEPT ![p] = None]
  /\ UNCHANGED <<fresh, oper, after, stamp>>

EditReplacement(p, s) ==
  /\ fresh[p] # None /\ fresh[p].spec # s /\ Interferes
  /\ fresh' = [fresh EXCEPT ![p].spec = s, ![p].gen = @ + 1, ![p].rv = @ + 1]
  /\ Notes({"replacement"})
  /\ UNCHANGED <<legacy, oper, stamp>>

DeleteReplacement(p) ==
  /\ fresh[p] # None /\ Interferes
  /\ fresh' = [fresh EXCEPT ![p] = None]
  /\ Notes({"replacement"})
  /\ UNCHANGED <<legacy, oper, stamp>>

Object(uid, from, spec) ==
  [uid |-> uid, from |-> from, spec |-> spec, gen |-> 1, mode |-> "Recommend", status |-> Report, rv |-> 1]

(* A new object under the replacement's name, not made from a legacy one. *)
RecreateReplacement(p, s) ==
  /\ Interferes /\ New
  /\ fresh' = [fresh EXCEPT ![p] = Object(stamp', None, s)]
  /\ Notes({"replacement"})
  /\ UNCHANGED <<legacy, oper>>

ScaleOperator ==
  /\ oper.replicas = 0 /\ Interferes
  /\ oper' = [oper EXCEPT !.replicas = 1, !.rv = @ + 1]
  /\ UNCHANGED <<legacy, fresh, after, stamp>>

ReplaceOperator ==
  /\ Interferes /\ New
  /\ oper' = [uid |-> stamp', replicas |-> 1, pods |-> oper.pods, rv |-> 1]
  /\ UNCHANGED <<legacy, fresh, after>>

PodsFollow ==
  /\ oper.pods # oper.replicas /\ oper' = [oper EXCEPT !.pods = oper.replicas]
  /\ IF oper.pods = 0 THEN Notes({"pods"}) ELSE UNCHANGED after
  /\ UNCHANGED <<legacy, fresh, inv, tool, stamp, changes, commands>>

(* The last finalizer of a deleted legacy object is done. *)
Finalized(p) ==
  /\ legacy[p] # None /\ legacy[p].going
  /\ legacy' = [legacy EXCEPT ![p] = None]
  /\ UNCHANGED <<fresh, oper, inv, tool, after, stamp, changes, commands>>

(* The new operator reports a replacement: any legacy PA on the target is a  *)
(* writer it refuses to write next to.                                       *)
NewOperator(p) ==
  /\ fresh[p] # None
  /\ LET r == [gen |-> fresh[p].gen, mode |-> fresh[p].mode, conflict |-> legacy[p] # None]
     IN  fresh[p].status # r /\ fresh' = [fresh EXCEPT ![p].status = r, ![p].rv = @ + 1]
  /\ UNCHANGED <<legacy, oper, inv, tool, after, stamp, changes, commands>>

(* Any other part of its status. *)
NewStatus(p) ==
  /\ fresh[p] # None /\ Interferes
  /\ fresh' = [fresh EXCEPT ![p].rv = @ + 1]
  /\ UNCHANGED <<legacy, oper, after, stamp>>

-----------------------------------------------------------------------------
(* Commands: a step makes one call and goes on, or the command ends. *)
Ends == tool' = Idle /\ after' = {}
Goes(t) == tool' = t /\ UNCHANGED after
Reads == UNCHANGED <<legacy, fresh, oper, inv, stamp, changes, commands>>
Writes == UNCHANGED <<oper, inv, changes, commands>>

Check(ok, t) == (IF ok THEN Goes(t) ELSE Ends) /\ Reads

Command(cmd, p) ==
  /\ tool = Idle /\ commands < MaxCommands /\ commands' = commands + 1
  /\ cmd # "plan" => inv # None
  /\ cmd = "activate" => p \in DOMAIN inv.pas
  /\ Goes([Idle EXCEPT !.cmd = cmd, !.pc = "list", !.pa = p])
  /\ UNCHANGED <<legacy, fresh, oper, inv, stamp, changes>>

Existing == {p \in Pas : legacy[p] # None}

(* cmd_plan: the legacy objects, what is there under each replacement's name, *)
(* the legacy operator; the inventory is written at the end, or not at all.   *)
PlanList ==
  /\ tool.cmd = "plan" /\ tool.pc = "list"
  /\ Check(Existing # {}, [tool EXCEPT !.pc = "plan", !.todo = Existing, !.seen = legacy])

PlanLook(p) ==
  /\ tool.pc = "plan" /\ p \in tool.todo
  /\ Check(fresh[p] = None \/ fresh[p].from = tool.seen[p].uid, [tool EXCEPT !.todo = @ \ {p}])

PlanWrite ==
  /\ tool.pc = "plan" /\ tool.todo = {}
  /\ inv' = [oper |-> oper.uid,
             pas |-> [p \in {q \in Pas : tool.seen[q] # None} |->
                        [uid |-> tool.seen[p].uid, spec |-> tool.seen[p].spec, gen |-> tool.seen[p].gen]]]
  /\ Ends /\ UNCHANGED <<legacy, fresh, oper, stamp, changes, commands>>

(* check_inventory: the live objects are the recorded ones, and so is the *)
(* legacy operator.                                                       *)
Recorded(o, p) == p \in DOMAIN inv.pas /\ inv.pas[p] = [uid |-> o.uid, spec |-> o.spec, gen |-> o.gen]

CheckInventory ==
  /\ tool.pc = "list" /\ tool.cmd # "plan"
  /\ Check(/\ \A p \in Existing : Recorded(legacy[p], p)
           /\ tool.cmd = "prepare" => DOMAIN inv.pas \subseteq Existing,
           [tool EXCEPT !.pc = "operator", !.todo = Existing])

SameOperator == oper.uid = inv.oper

CheckOperator ==
  /\ tool.pc = "operator"
  /\ Check(SameOperator, [tool EXCEPT !.pc = CASE tool.cmd = "prepare" -> "prepare"
                                               [] tool.cmd = "activate" -> "legacies"
                                               [] OTHER -> IF tool.again THEN "verify" ELSE "markers"])

(* cmd_prepare: create what is missing, refuse what is somebody else's. *)
PrepareLook(p) ==
  /\ tool.pc = "prepare" /\ p \in tool.todo
  /\ IF fresh[p] = None
     THEN Check(TRUE, [tool EXCEPT !.pc = "create", !.pa = p, !.todo = @ \ {p}])
     ELSE Check(fresh[p].from = inv.pas[p].uid, [tool EXCEPT !.todo = @ \ {p}])

Prepared == tool.pc = "prepare" /\ tool.todo = {} /\ Ends /\ Reads

(* replacement_for: the recorded spec in Recommend mode, bound to the object *)
(* it was made from.                                                        *)
Replacement(p, uid) == Object(uid, inv.pas[p].uid, inv.pas[p].spec)

Create ==
  /\ tool.pc = "create"
  /\ IF fresh[tool.pa] = None
     THEN /\ New /\ fresh' = [fresh EXCEPT ![tool.pa] = Replacement(tool.pa, stamp')]
          /\ Goes([tool EXCEPT !.pc = "prepare"])
     ELSE Ends /\ UNCHANGED <<fresh, stamp>>
  /\ UNCHANGED legacy /\ Writes

(* identity_problems: made from the recorded source, with its configuration. *)
AsRecorded(p) == fresh[p].from = inv.pas[p].uid /\ fresh[p].spec = inv.pas[p].spec

(* Mutant: a conflict with an inventoried legacy object is always acceptable. *)
ReadyDespite(p, legacyOk) ==
  /\ fresh[p] # None /\ AsRecorded(p)
  /\ fresh[p].mode = "Recommend" /\ fresh[p].status.mode = "Recommend"
  /\ fresh[p].status.gen = fresh[p].gen

(* check_replacement: the recorded object in Recommend mode, observed by the *)
(* operator at its generation.                                               *)
Ready(p, legacyOk) ==
  /\ fresh[p] # None /\ AsRecorded(p)
  /\ fresh[p].mode = "Recommend" /\ fresh[p].status.mode = "Recommend"
  /\ fresh[p].status.gen = fresh[p].gen
  /\ fresh[p].status.conflict => legacyOk

(* cmd_cutover: whose the operator is, and verify_all over the listed objects, *)
(* before anything stops and again before the deletions.                       *)
ReadMarkers == tool.pc = "markers" /\ Check(SameOperator, [tool EXCEPT !.pc = "verify"])

Verify(p) ==
  /\ tool.pc = "verify" /\ p \in tool.todo
  /\ Check(Ready(p, TRUE), [tool EXCEPT !.todo = @ \ {p}])

Verified ==
  /\ tool.pc = "verify" /\ tool.todo = {}
  /\ Check(TRUE, [tool EXCEPT !.pc = IF tool.again THEN "loop" ELSE "read", !.todo = DOMAIN inv.pas])

(* The scale to zero is bound to the resourceVersion that was read. *)
ReadOperator ==
  /\ tool.pc = "read"
  /\ Check(SameOperator, [tool EXCEPT !.pc = IF oper.replicas = 0 THEN "wait" ELSE "scale", !.seen = oper])

ScaleDown ==
  /\ tool.pc = "scale"
  /\ IF oper.uid = tool.seen.uid /\ oper.rv = tool.seen.rv
     THEN oper' = [oper EXCEPT !.replicas = 0, !.rv = @ + 1] /\ Goes([tool EXCEPT !.pc = "wait", !.seen = None])
     ELSE Ends /\ UNCHANGED oper
  /\ UNCHANGED <<legacy, fresh, inv, stamp, changes, commands>>

(* operator_pods: the Deployment, then its pods, until there are none; then *)
(* the inventory and every replacement are checked again.                   *)
Wait == tool.pc = "wait" /\ Check(SameOperator, [tool EXCEPT !.pc = "drain", !.seen = None])

Drained ==
  /\ tool.pc = "drain"
  /\ Check(TRUE, [tool EXCEPT !.pc = IF oper.pods = 0 THEN "list" ELSE "wait", !.again = (oper.pods = 0)])

(* The loop over the recorded autoscalers: operator and pods, legacy object, *)
(* replacement, deletion with preconditions, and the wait until it is gone.  *)
NextPa(p) ==
  /\ tool.pc = "loop" /\ p \in tool.todo
  /\ Check(SameOperator, [tool EXCEPT !.pc = "pods", !.pa = p, !.todo = @ \ {p}])

NoPods ==
  /\ tool.pc = "pods"
  /\ IF oper.pods = 0 THEN tool' = [tool EXCEPT !.pc = "look"] /\ after' = after \ {"pods"} ELSE Ends
  /\ Reads

LookLegacy ==
  /\ tool.pc = "look"
  /\ LET o == legacy[tool.pa]
     IN  IF o = None THEN Check(TRUE, [tool EXCEPT !.pc = "loop"])
         ELSE Check(o.uid = inv.pas[tool.pa].uid /\ o.spec = inv.pas[tool.pa].spec,
                    [tool EXCEPT !.pc = "ready", !.seen = o])

CheckReady ==
  /\ tool.pc = "ready"
  /\ IF Ready(tool.pa, TRUE)
     THEN tool' = [tool EXCEPT !.pc = "delete"] /\ after' = after \ {"replacement"}
     ELSE Ends
  /\ Reads

(* Kube.delete_legacy: the uid and the resourceVersion that were read. *)
Preconditions(o) == o = tool.seen

Delete ==
  /\ tool.pc = "delete"
  /\ IF Preconditions(legacy[tool.pa])
     THEN /\ legacy' = [legacy EXCEPT ![tool.pa].going = TRUE, ![tool.pa].gen = @ + 1]
          /\ Goes([tool EXCEPT !.pc = "gone", !.seen = None])
     ELSE Ends /\ UNCHANGED legacy
  /\ UNCHANGED <<fresh, stamp>> /\ Writes

Gone ==
  /\ tool.pc = "gone"
  /\ legacy[tool.pa] # None => legacy[tool.pa].uid # inv.pas[tool.pa].uid
  /\ Check(TRUE, [tool EXCEPT !.pc = "loop"])

CutoverDone == tool.pc = "loop" /\ tool.todo = {} /\ Ends /\ Reads

(* cmd_activate: no legacy PA on the target, once; then in Attempts tries: an *)
(* Active object as recorded is taken as it is, another must be ready without *)
(* any other writer and is patched, bound to what was checked.                *)
NoLegacy ==
  /\ tool.pc = "legacies"
  /\ IF legacy[tool.pa] = None THEN tool' = [tool EXCEPT !.pc = "try"] /\ after' = after \ {"legacy"} ELSE Ends
  /\ Reads

LookActive ==
  /\ tool.pc = "try"
  /\ LET o == fresh[tool.pa]
     IN  IF o # None /\ o.mode = "Active"
         THEN Check(AsRecorded(tool.pa), [tool EXCEPT !.pc = "await", !.seen = o.uid])
         ELSE Check(TRUE, [tool EXCEPT !.pc = "check"])

CheckActivate ==
  /\ tool.pc = "check"
  /\ Check(Ready(tool.pa, FALSE), [tool EXCEPT !.pc = "patch", !.seen = fresh[tool.pa]])

PatchBound(o) == o.uid = tool.seen.uid /\ o.rv = tool.seen.rv

Patch ==
  /\ tool.pc = "patch"
  /\ LET p == tool.pa
     IN  IF fresh[p] # None /\ PatchBound(fresh[p])
         THEN /\ fresh' = [fresh EXCEPT ![p].mode = "Active", ![p].gen = @ + 1, ![p].rv = @ + 1]
              /\ Goes([tool EXCEPT !.pc = "await", !.seen = tool.seen.uid])
         ELSE /\ IF fresh[p] = None \/ tool.tries = Attempts - 1 THEN Ends
                 ELSE Goes([tool EXCEPT !.pc = "try", !.tries = @ + 1, !.seen = None])
              /\ UNCHANGED fresh
  /\ UNCHANGED <<legacy, stamp>> /\ Writes

(* Until the operator reports the pinned object Active without a conflict, or *)
(* the object is no longer the one that was activated.                        *)
AwaitActive ==
  /\ tool.pc = "await"
  /\ LET o == fresh[tool.pa]
         same == o # None /\ o.uid = tool.seen /\ AsRecorded(tool.pa)
     IN  same => o.status = [gen |-> o.gen, mode |-> "Active", conflict |-> FALSE]
  /\ Ends /\ Reads

(* A timeout, GitOps markers, a failed call or the user stops a command anywhere. *)
Stops == tool # Idle /\ Ends /\ Reads

Next ==
  \/ \E p \in Pas :
       \/ \E s \in Specs : \/ EditLegacy(p, s) \/ RecreateLegacy(p, s)
                           \/ EditReplacement(p, s) \/ RecreateReplacement(p, s)
       \/ DeleteLegacy(p) \/ DeleteReplacement(p) \/ Finalized(p) \/ NewOperator(p) \/ NewStatus(p)
       \/ \E c \in {"plan", "prepare", "cutover", "activate"} : Command(c, p)
       \/ PlanLook(p) \/ PrepareLook(p) \/ Verify(p) \/ NextPa(p)
  \/ ScaleOperator \/ ReplaceOperator \/ PodsFollow
  \/ PlanList \/ PlanWrite \/ CheckInventory \/ CheckOperator \/ Prepared \/ Create
  \/ ReadMarkers \/ Verified \/ ReadOperator \/ ScaleDown \/ Wait \/ Drained
  \/ NoPods \/ LookLegacy \/ CheckReady \/ Delete \/ Gone \/ CutoverDone
  \/ NoLegacy \/ LookActive \/ CheckActivate \/ Patch \/ AwaitActive \/ Stops
Spec == Init /\ [][Next]_vars

-----------------------------------------------------------------------------
Deletes(p) == legacy[p] # None /\ legacy'[p] # None /\ ~legacy[p].going /\ legacy'[p].going

(* What the tool deletes is the object the inventory recorded, with the     *)
(* configuration it had then: one recreated or edited after the plan, even  *)
(* after its last check, stays (the loop does not look at the generation,   *)
(* so an edit that was taken back meanwhile passes).                        *)
DeletesRecorded ==
  \A p \in Pas : Deletes(p) =>
    p \in DOMAIN inv.pas /\ legacy[p].uid = inv.pas[p].uid /\ legacy[p].spec = inv.pas[p].spec

(* When the tool deletes a legacy object, its replacement, made from that   *)
(* very object and with its configuration, is there in Recommend mode and   *)
(* no pod of the legacy operator runs, unless a user changed the            *)
(* replacement, or the pods came back, after the checks of that deletion.   *)
HandedOver ==
  \A p \in Pas : Deletes(p) =>
    /\ "replacement" \notin after => fresh[p] # None /\ AsRecorded(p) /\ fresh[p].mode = "Recommend"
    /\ "pods" \notin after => oper.pods = 0

(* A replacement becomes Active only in the configuration that was recorded, *)
(* while the operator's report on it was current and free of conflicts, and  *)
(* with no legacy object on its target unless one was created after the tool *)
(* listed them.                                                              *)
ActivatesChecked ==
  \A p \in Pas : (fresh[p] # None /\ fresh'[p] # None /\ fresh[p].mode = "Recommend" /\ fresh'[p].mode = "Active")
    => /\ AsRecorded(p) /\ fresh[p].status = [gen |-> fresh[p].gen, mode |-> "Recommend", conflict |-> FALSE]
       /\ "legacy" \notin after => legacy[p] = None
=============================================================================
