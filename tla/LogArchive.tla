----------------------------- MODULE LogArchive -----------------------------
(***************************************************************************)
(* deploy/eks-benchmark/instrumentation/archive.py, collect_api_reloads:   *)
(* the periodic collection of one API pod's log.  The kubelet serves the   *)
(* log of the current container and of the one before it; the container    *)
(* may restart, and the pod may be replaced, between any two requests of a *)
(* collection, and a collection may be killed.                             *)
(*                                                                         *)
(* A log line is its timestamp (a clock that every event advances); every  *)
(* line stands for a line the archive keeps.                               *)
(***************************************************************************)
EXTENDS Integers, Sequences, FiniteSets, FiniteSetsExt

CONSTANTS Pods, None, MaxTime, MaxRestarts, MaxRuns, MaxKills

VARIABLES
  clock,
  pod,        \* uid -> the lines of its instances, the restarts and the last start
  log,        \* api-reload.jsonl: the lines kept, as <<uid, line>>
  coverage,   \* api-coverage.jsonl: the records of each collection
  saved,      \* api-state.json
  run,        \* the collection in progress
  runs, kills

vars == <<clock, pod, log, coverage, saved, run, runs, kills>>

Fresh == [up |-> FALSE, restarts |-> 0, started |-> 0, current |-> {}, previous |-> {}, lost |-> {}]
Idle == [pc |-> "idle", at |-> 0, todo |-> {}, seen |-> {}, state |-> <<>>, listed |-> None, got |-> {}]

Init ==
  /\ clock = 0
  /\ pod \in {p \in [Pods -> {Fresh, [Fresh EXCEPT !.up = TRUE]}] : Cardinality({u \in Pods : p[u].up}) = 1}
  /\ log = {} /\ coverage = {} /\ saved = <<>>
  /\ run = Idle /\ runs = 0 /\ kills = 0

archived == <<log, coverage, saved>>

-----------------------------------------------------------------------------
(* The API pod and the kubelet (external) *)
Advance == clock < MaxTime /\ clock' = clock + 1

Emit(u) ==
  /\ pod[u].up /\ Advance
  /\ pod' = [pod EXCEPT ![u].current = @ \union {clock'}]
  /\ UNCHANGED <<archived, run, runs, kills>>

Restart(u) ==
  /\ pod[u].up /\ pod[u].restarts < MaxRestarts
  /\ pod' = [pod EXCEPT ![u] = [@ EXCEPT !.restarts = @ + 1, !.started = clock, !.current = {},
                                         !.previous = pod[u].current, !.lost = @ \union pod[u].previous]]
  /\ UNCHANGED <<clock, archived, run, runs, kills>>

(* A pod that goes takes its logs with it; another one takes its place. *)
Replace(u, v) ==
  /\ pod[u].up /\ pod[v] = Fresh
  /\ pod' = [pod EXCEPT ![u] = [@ EXCEPT !.up = FALSE, !.current = {}, !.previous = {},
                                         !.lost = @ \union pod[u].current \union pod[u].previous],
                        ![v] = [@ EXCEPT !.up = TRUE, !.started = clock]]
  /\ UNCHANGED <<clock, archived, run, runs, kills>>

-----------------------------------------------------------------------------
(* _lines_after *)
After(lines, t) == {l \in lines : l > t}

(* list_pods: the pods that are up, with their restart counts and starts *)
Begin ==
  /\ run.pc = "idle" /\ runs < MaxRuns
  /\ runs' = runs + 1
  /\ LET up == {u \in Pods : pod[u].up}
     IN  run' = [Idle EXCEPT !.pc = "pod", !.at = clock, !.seen = up, !.state = saved,
                   !.todo = {[uid |-> u, restarts |-> pod[u].restarts, started |-> pod[u].started] : u \in up}]
  /\ UNCHANGED <<clock, pod, archived, kills>>

Known(p) == p.uid \in DOMAIN run.state
LastSeen(p) == IF Known(p) THEN run.state[p.uid].last ELSE 0
RestartsSince(p) == IF Known(p) THEN p.restarts - run.state[p.uid].restarts ELSE 0

NextPod ==
  /\ run.pc = "pod"
  /\ \E p \in run.todo :
       run' = [run EXCEPT !.pc = IF RestartsSince(p) > 0 THEN "previous" ELSE "current",
                          !.todo = @ \ {p}, !.listed = p, !.got = {}]
  /\ UNCHANGED <<clock, pod, archived, runs, kills>>

(* The log of the instance before, for a restart since the last collection; *)
(* its failure is tolerated when instances in between are lost anyway.      *)
ReadPrevious ==
  /\ run.pc = "previous"
  /\ \/ /\ pod[run.listed.uid].up
        /\ run' = [run EXCEPT !.pc = "current",
                              !.got = After(pod[run.listed.uid].previous, LastSeen(run.listed))]
     \/ RestartsSince(run.listed) > 1 /\ run' = [run EXCEPT !.pc = "current"]
  /\ UNCHANGED <<clock, pod, archived, runs, kills>>

(* The window a coverage record speaks for: from the end of the last one, or *)
(* from the start of the container of a pod not seen before.                 *)
Record(p, end, flags) ==
  [uid |-> p.uid, from |-> IF Known(p) THEN run.state[p.uid].end ELSE p.started, to |-> end, flags |-> flags]

Collected(p, last) ==
  [u \in DOMAIN run.state \union {p.uid} |->
     IF u = p.uid THEN [restarts |-> p.restarts, last |-> last, end |-> run.at, gone |-> FALSE]
                  ELSE run.state[u]]

(* Mutant: a failed collection remembers the pod as collected. *)
StateAdvanced(p) == Collected(p, run.at)

(* A failed request leaves the pod's state as it was, for the next collection. *)
StateAfterFailure(p) == run.state

RequestFails ==
  /\ run.pc = "current" \/ (run.pc = "previous" /\ RestartsSince(run.listed) = 1)
  /\ coverage' = coverage \union {Record(run.listed, None, {"collection failed"})}
  /\ run' = [run EXCEPT !.pc = "pod", !.state = StateAfterFailure(run.listed)]
  /\ UNCHANGED <<clock, pod, log, saved, runs, kills>>

Flags(p) == CASE RestartsSince(p) > 1 -> {"gap"}
              [] RestartsSince(p) = 1 -> {"restart: previous instance log recovered"}
              [] OTHER -> IF ~Known(p) /\ DOMAIN run.state # {} THEN {"new pod"} ELSE {}

(* The current instance is read from the last line seen, from its start *)
(* when the pod is new or has restarted.                                *)
ReadCurrent ==
  /\ run.pc = "current" /\ pod[run.listed.uid].up
  /\ LET p == run.listed
         since == IF RestartsSince(p) > 0 THEN 0 ELSE LastSeen(p)
         got == run.got \union After(pod[p.uid].current, since)
     IN  /\ log' = log \union {<<p.uid, l>> : l \in got}
         /\ coverage' = coverage \union {Record(p, run.at, Flags(p))}
         /\ run' = [run EXCEPT !.pc = "pod",
                               !.state = Collected(p, IF got = {} THEN LastSeen(p) ELSE Max(got))]
  /\ UNCHANGED <<clock, pod, saved, runs, kills>>

(* The pods known and gone get a gap record once; the state is written last. *)
Finish ==
  /\ run.pc = "pod" /\ run.todo = {}
  /\ LET gone == {u \in DOMAIN run.state : u \notin run.seen /\ ~run.state[u].gone}
     IN  /\ coverage' = coverage \union {[uid |-> u, from |-> run.state[u].end, to |-> None, flags |-> {"gap"}] :
                                           u \in gone}
         /\ saved' = [u \in DOMAIN run.state |->
                        IF u \in gone THEN [run.state[u] EXCEPT !.gone = TRUE] ELSE run.state[u]]
  /\ run' = Idle
  /\ UNCHANGED <<clock, pod, log, runs, kills>>

Killed ==
  /\ run.pc # "idle" /\ kills < MaxKills
  /\ kills' = kills + 1 /\ run' = Idle
  /\ UNCHANGED <<clock, pod, archived, runs>>

Next ==
  \/ \E u \in Pods : Emit(u) \/ Restart(u)
  \/ \E u, v \in Pods : Replace(u, v)
  \/ Begin \/ NextPod \/ ReadPrevious \/ RequestFails \/ ReadCurrent \/ Finish \/ Killed

Spec == Init /\ [][Next]_vars

-----------------------------------------------------------------------------
Kept(u, l) == <<u, l>> \in log

(* Once the state says a pod was read up to a line, every line before it that *)
(* its instance still holds is in the archive: collections that fail or are   *)
(* killed part way repeat lines and lose none.                                *)
HeldLinesKept ==
  \A u \in DOMAIN saved :
    pod[u].restarts = saved[u].restarts =>
      \A l \in pod[u].current : l <= saved[u].last => Kept(u, l)

(* "a restart, a replaced pod or a failed collection shows up as a flagged gap *)
(* rather than as silence": every line that is gone for good and was logged    *)
(* inside the window of a coverage record that reports no loss is in the       *)
(* archive.                                                                    *)
WindowsHonest ==
  \A c \in coverage :
    c.flags \intersect {"gap", "collection failed"} = {} =>
      \A l \in pod[c.uid].lost : c.from < l /\ l <= c.to => Kept(c.uid, l)
=============================================================================
