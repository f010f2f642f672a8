--------------------------- MODULE FreezePackage ---------------------------
(***************************************************************************)
(* The package a freeze capture writes (freeze_capture.py: Staging) and    *)
(* what a later capture accepts as its baseline (verify_capture).  Several *)
(* captures may be started for the same destination; any of them may fail  *)
(* a write or be killed; the operator may remove an empty reservation; a   *)
(* published file may be damaged, removed or added.  A hash is the content *)
(* hashed: a file holds the run that wrote it, or Damaged.                 *)
(***************************************************************************)
EXTENDS Integers, Sequences, FiniteSets

CONSTANTS Runs, Files, None, Damaged, MaxFaults

VARIABLES
  out,           \* the destination: None, or its files
  run,           \* run -> [pc, stage, verdict]
  faults,
  baseline       \* packages accepted by verify_capture

vars == <<out, run, faults, baseline>>

Empty == <<>>
Init ==
  /\ out = None /\ faults = 0 /\ baseline = {}
  /\ run = [r \in Runs |-> [pc |-> "off", stage |-> Empty, verdict |-> None]]

Put(f, k, v) == [x \in DOMAIN f \union {k} |-> IF x = k THEN v ELSE f[x]]
Steps(r, pc) == run' = [run EXCEPT ![r].pc = pc]
Data(f) == DOMAIN f \ {"SHA256SUMS", "COMPLETE"}
Sums(f) == [k \in Data(f) |-> f[k]]

(* os.mkdir(out): exclusive. *)
Reserve(r) ==
  /\ run[r].pc = "off" /\ out = None
  /\ out' = Empty /\ Steps(r, "write")
  /\ UNCHANGED <<faults, baseline>>

(* _write of a file into the private staging directory. *)
Write(r) ==
  /\ run[r].pc = "write"
  /\ \E f \in Files \ DOMAIN run[r].stage :
       run' = [run EXCEPT ![r].stage = Put(@, f, r)]
  /\ UNCHANGED <<out, faults, baseline>>

(* capture.json with the verdict is the last of the files. *)
Decide(r, verdict) ==
  /\ run[r].pc = "write" /\ DOMAIN run[r].stage = Files
  /\ run' = [run EXCEPT ![r].stage = Put(@, "capture.json", <<r, verdict>>), ![r].pc = "publish", ![r].verdict = verdict]
  /\ UNCHANGED <<out, faults, baseline>>

(* publish: SHA256SUMS, COMPLETE.json, then the rename, which takes an empty *)
(* or absent destination and refuses any other.                              *)
Seal(r) ==
  /\ run[r].pc = "publish"
  /\ LET s == Put(run[r].stage, "SHA256SUMS", Sums(run[r].stage))
     IN  run' = [run EXCEPT ![r].stage = Put(s, "COMPLETE", [sums |-> Sums(s), verdict |-> run[r].verdict]),
                            ![r].pc = "rename"]
  /\ UNCHANGED <<out, faults, baseline>>

Rename(r) ==
  /\ run[r].pc = "rename"
  /\ out' = IF out \in {None, Empty} THEN run[r].stage ELSE out
  /\ Steps(r, "ended")
  /\ UNCHANGED <<faults, baseline>>

(* abort: an empty destination is released, a published one stays. *)
Fails(r) ==
  /\ run[r].pc \in {"write", "publish", "rename"} /\ faults < MaxFaults
  /\ faults' = faults + 1
  /\ out' = IF out = Empty THEN None ELSE out
  /\ Steps(r, "ended") /\ UNCHANGED baseline

Killed(r) ==
  /\ run[r].pc \in {"write", "publish", "rename"} /\ faults < MaxFaults
  /\ faults' = faults + 1
  /\ Steps(r, "ended") /\ UNCHANGED <<out, baseline>>

RemoveReservation == out = Empty /\ out' = None /\ UNCHANGED <<run, faults, baseline>>

Tamper ==
  /\ out \notin {None, Empty} /\ faults < MaxFaults /\ faults' = faults + 1
  /\ \/ \E f \in DOMAIN out : out' = [out EXCEPT ![f] = Damaged]
     \/ \E f \in DOMAIN out : out' = [k \in DOMAIN out \ {f} |-> out[k]]
     \/ out' = Put(out, "extra", Damaged)
  /\ UNCHANGED <<run, baseline>>

(* verify_capture: the sums are the ones COMPLETE.json names, every listed   *)
(* file is there with its hash, nothing else is, both files say PASS.        *)
Verified(d) ==
  /\ {"COMPLETE", "SHA256SUMS", "capture.json"} \subseteq DOMAIN d
  /\ d["COMPLETE"] # Damaged /\ d["SHA256SUMS"] # Damaged
  /\ d["SHA256SUMS"] = d["COMPLETE"].sums
  /\ Sums(d) = d["SHA256SUMS"]
  /\ d["capture.json"][2] = "PASS" /\ d["COMPLETE"].verdict = "PASS"

Compare ==
  /\ out \notin {None, Empty} /\ Verified(out)
  /\ baseline' = baseline \union {out}
  /\ UNCHANGED <<out, run, faults>>

Next ==
  \/ \E r \in Runs : \/ Reserve(r) \/ Write(r) \/ Seal(r) \/ Rename(r) \/ Fails(r) \/ Killed(r)
                     \/ \E v \in {"PASS", "FAIL"} : Decide(r, v)
  \/ RemoveReservation \/ Tamper \/ Compare
Spec == Init /\ [][Next]_vars

-----------------------------------------------------------------------------
(* A baseline is the whole, undamaged package of one capture that passed:   *)
(* never a mixture of two runs, a partial package or a changed one.          *)
BaselineWhole ==
  \A d \in baseline : \E r \in Runs :
    /\ run[r].verdict = "PASS"
    /\ Data(d) = Files \union {"capture.json"} /\ \A f \in Files : d[f] = r
    /\ d["capture.json"][1] = r

(* A published package is never replaced by another capture.                *)
PublishedStays ==
  (out \notin {None, Empty} /\ faults' = faults) => out' = out
=============================================================================
