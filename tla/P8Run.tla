------------------------------- MODULE P8Run -------------------------------
(***************************************************************************)
(* One run of the infrastructure-event detector: deploy/prodcluster/       *)
(* p8_launcher.py (modes export, resume, gates and final under the run     *)
(* lock) and the attempt archive of infra_events.py (Archive, main), fed   *)
(* by the load-gate attempts collect_load_evidence.py writes.  Jobs of any *)
(* mode may be started together and killed at any step, the queried series *)
(* may still change, and a stored chunk may be damaged.                    *)
(*                                                                         *)
(* A chunk's content is the version of the series it was exported from; a  *)
(* hash is the content hashed.  Directories created in order stand for     *)
(* their time-stamped names.                                               *)
(***************************************************************************)
EXTENDS Integers, Sequences, FiniteSets, FiniteSetsExt, SequencesExt

CONSTANTS Jobs, Chunks, Hours, None, Damaged, MaxVersion, MaxKills, MaxStarts, MaxEvaluations

VARIABLES
  lock,          \* the job that holds .run.lock
  job,           \* job -> mode, step and memory
  attempts,      \* sequence of attempt directories
  gates,         \* sequence of published gates directories: hour -> [file: the attempt copied or 0, of: the attempts listed]
  finals,        \* sequence of final results
  retained,      \* hour -> sequence of load-gate attempts, each "provisional", "final" or "malformed"
  version, damaged, kills, starts

vars == <<lock, job, attempts, gates, finals, retained, version, damaged, kills, starts>>

Off == [mode |-> None, pc |-> "off", todo |-> <<>>, entries |-> <<>>, data |-> <<>>, dir |-> <<>>]
Plan == SetToSeq(Chunks)

Init ==
  /\ lock = None /\ job = [j \in Jobs |-> Off]
  /\ attempts = <<>> /\ gates = <<>> /\ finals = <<>>
  /\ retained = [h \in Hours |-> <<>>]
  /\ version = 1 /\ damaged = FALSE /\ kills = 0 /\ starts = 0

world == <<version, damaged, retained>>
disk == <<attempts, gates, finals>>

(* The last record of a chunk in manifest.jsonl. *)
Entries(log) ==
  [k \in {log[i].chunk : i \in 1..Len(log)} |-> log[Max({i \in 1..Len(log) : log[i].chunk = k})].content]

-----------------------------------------------------------------------------
(* The series, the volume and the hourly evaluations *)
SeriesChange ==
  /\ version < MaxVersion /\ version' = version + 1
  /\ UNCHANGED <<lock, job, disk, retained, damaged, kills, starts>>

Damage ==
  /\ ~damaged /\ damaged' = TRUE
  /\ \E a \in 1..Len(attempts) : \E k \in DOMAIN Entries(attempts[a].log) :
       attempts' = [attempts EXCEPT ![a].raw[k] = Damaged]
  /\ UNCHANGED <<lock, job, gates, finals, retained, version, kills, starts>>

(* write_rows: an immutable attempt per evaluation; it is final when made in *)
(* the sixth scheduled window, and an hour may be evaluated again by hand,   *)
(* in that window or later.                                                  *)
Evaluate(h, kind) ==
  /\ Len(retained[h]) < MaxEvaluations
  /\ retained' = [retained EXCEPT ![h] = Append(@, kind)]
  /\ UNCHANGED <<lock, job, disk, version, damaged, kills, starts>>

-----------------------------------------------------------------------------
(* Starting a mode *)
Exits(j) == job' = [job EXCEPT ![j] = Off] /\ lock' = None
Goes(j, m) == job' = [job EXCEPT ![j] = m] /\ UNCHANGED lock

(* Mutant: the run lock is not exclusive. *)
LockShared(j) == TRUE

LockFree(j) == lock = None

Start(j, mode) ==
  /\ job[j].pc = "off" /\ starts < MaxStarts
  /\ LockFree(j)
  /\ lock' = j /\ starts' = starts + 1
  /\ job' = [job EXCEPT ![j] = [Off EXCEPT !.mode = mode, !.pc = "begin"]]
  /\ UNCHANGED <<world, disk, kills>>

NewAttempt == [bound |-> FALSE, raw |-> <<>>, log |-> <<>>, torn |-> FALSE, manifest |-> None, results |-> <<>>, complete |-> FALSE]

(* Archive.__init__: a torn last line is dropped, an attempt without its   *)
(* identity or, to resume, with its result is refused, and the analysis    *)
(* for the final result needs published gates.                             *)
Opens(j) == [job[j] EXCEPT !.pc = "chunk", !.todo = Plan, !.entries = Entries(attempts[1].log)]

BeginExport(j) ==
  /\ job[j].pc = "begin" /\ job[j].mode = "export"
  /\ IF attempts # <<>>
     THEN Exits(j) /\ UNCHANGED attempts
     ELSE Goes(j, [job[j] EXCEPT !.pc = "create"]) /\ UNCHANGED attempts
  /\ UNCHANGED <<world, gates, finals, kills, starts>>

CreateAttempt(j) ==
  /\ job[j].pc = "create"
  /\ attempts' = Append(attempts, NewAttempt)
  /\ Goes(j, [job[j] EXCEPT !.pc = "bind"])
  /\ UNCHANGED <<world, gates, finals, kills, starts>>

BindAttempt(j) ==
  /\ job[j].pc = "bind"
  /\ attempts' = [attempts EXCEPT ![1].bound = TRUE]
  /\ Goes(j, [job[j] EXCEPT !.pc = "chunk", !.todo = Plan])
  /\ UNCHANGED <<world, gates, finals, kills, starts>>

BeginAgain(j) ==
  /\ job[j].pc = "begin" /\ job[j].mode \in {"resume", "final"}
  /\ IF Len(attempts) # 1 \/ ~attempts[1].bound
                         \/ (job[j].mode = "resume" /\ attempts[1].complete)
                         \/ (job[j].mode = "final" /\ gates = <<>>)
     THEN Exits(j) /\ UNCHANGED attempts
     ELSE Goes(j, Opens(j)) /\ attempts' = [attempts EXCEPT ![1].torn = FALSE]
  /\ UNCHANGED <<world, gates, finals, kills, starts>>

-----------------------------------------------------------------------------
(* Archive._chunk *)
Put(f, k, v) == [x \in DOMAIN f \union {k} |-> IF x = k THEN v ELSE f[x]]
Current(j) == Head(job[j].todo)

(* A recorded chunk whose bytes match its record is used as it is. *)
Matches(j) ==
  /\ Current(j) \in DOMAIN job[j].entries /\ Current(j) \in DOMAIN attempts[1].raw
  /\ attempts[1].raw[Current(j)] = job[j].entries[Current(j)]

Reuse(j) ==
  /\ job[j].pc = "chunk" /\ job[j].todo # <<>> /\ Matches(j)
  /\ Goes(j, [job[j] EXCEPT !.todo = Tail(@), !.data = Put(@, Current(j), attempts[1].raw[Current(j)])])
  /\ UNCHANGED <<world, disk, kills, starts>>

(* Offline, a chunk that is missing or does not match ends the job; so does *)
(* an export that keeps failing until its deadline.                         *)
ChunkFails(j) ==
  /\ job[j].pc = "chunk" /\ job[j].todo # <<>> /\ ~Matches(j)
  /\ Exits(j)
  /\ UNCHANGED <<world, disk, kills, starts>>

(* Otherwise it is exported again: renamed into place, then recorded. *)
Export(j) ==
  /\ job[j].pc = "chunk" /\ job[j].todo # <<>> /\ ~Matches(j) /\ job[j].mode # "final"
  /\ attempts' = [attempts EXCEPT ![1].raw = Put(@, Current(j), version)]
  /\ Goes(j, [job[j] EXCEPT !.pc = "record"])
  /\ UNCHANGED <<world, gates, finals, kills, starts>>

RecordChunk(j) ==
  /\ job[j].pc = "record"
  /\ LET v == attempts[1].raw[Current(j)]
     IN  /\ attempts' = [attempts EXCEPT ![1].log = Append(@, [chunk |-> Current(j), content |-> v])]
         /\ Goes(j, [job[j] EXCEPT !.pc = "chunk", !.todo = Tail(@), !.entries = Put(@, Current(j), v),
                                   !.data = Put(@, Current(j), v)])
  /\ UNCHANGED <<world, gates, finals, kills, starts>>

(* finish and the result: the manifest is written unless offline, where it *)
(* must be there; the result of an export completes the attempt.           *)
Finish(j) ==
  /\ job[j].pc = "chunk" /\ job[j].todo = <<>>
  /\ IF job[j].mode = "final"
     THEN /\ IF attempts[1].manifest = None THEN Exits(j) ELSE Goes(j, [job[j] EXCEPT !.pc = "result"])
          /\ UNCHANGED attempts
     ELSE /\ attempts' = [attempts EXCEPT ![1].manifest = job[j].entries]
          /\ Goes(j, [job[j] EXCEPT !.pc = "result"])
  /\ UNCHANGED <<world, gates, finals, kills, starts>>

WriteResult(j) ==
  /\ job[j].pc = "result"
  /\ attempts' = [attempts EXCEPT ![1].results = Append(@, job[j].data),
                                  ![1].complete = @ \/ job[j].mode # "final"]
  /\ finals' = IF job[j].mode = "final" THEN Append(finals, [data |-> job[j].data, gates |-> Len(gates)]) ELSE finals
  /\ Exits(j)
  /\ UNCHANGED <<world, gates, kills, starts>>

-----------------------------------------------------------------------------
(* copy_gates: an hour with two final attempts or a malformed one publishes *)
(* nothing; an hour without a final one is an explicit slot.                *)
Finals(h) == {i \in 1..Len(retained[h]) : retained[h][i] = "final"}
Admissible(h) == "malformed" \notin ToSet(retained[h]) /\ Cardinality(Finals(h)) <= 1

Selected(h) == [file |-> IF Finals(h) = {} THEN 0 ELSE Min(Finals(h)), of |-> Len(retained[h])]

CopyHour(j) ==
  /\ job[j].mode = "gates" /\ job[j].pc = "begin" /\ DOMAIN job[j].dir # Hours
  /\ \E h \in Hours \ DOMAIN job[j].dir :
       IF Admissible(h) THEN Goes(j, [job[j] EXCEPT !.dir = Put(@, h, Selected(h))]) ELSE Exits(j)
  /\ UNCHANGED <<world, disk, kills, starts>>

Publish(j) ==
  /\ job[j].mode = "gates" /\ job[j].pc = "begin" /\ DOMAIN job[j].dir = Hours
  /\ gates' = Append(gates, job[j].dir)
  /\ Exits(j)
  /\ UNCHANGED <<world, attempts, finals, kills, starts>>

(* A kill releases the lock; it may leave the last manifest line torn. *)
Killed(j) ==
  /\ job[j].pc # "off" /\ kills < MaxKills
  /\ kills' = kills + 1
  /\ attempts' = IF job[j].pc = "record" THEN [attempts EXCEPT ![1].torn = TRUE] ELSE attempts
  /\ job' = [job EXCEPT ![j] = Off] /\ lock' = None
  /\ UNCHANGED <<world, gates, finals, starts>>

Next ==
  \/ SeriesChange \/ Damage
  \/ \E h \in Hours, kind \in {"provisional", "final", "malformed"} : Evaluate(h, kind)
  \/ \E j \in Jobs :
       \/ \E mode \in {"export", "resume", "gates", "final"} : Start(j, mode)
       \/ BeginExport(j) \/ CreateAttempt(j) \/ BindAttempt(j) \/ BeginAgain(j) \/ Reuse(j) \/ ChunkFails(j) \/ Export(j)
       \/ RecordChunk(j) \/ Finish(j) \/ WriteResult(j) \/ CopyHour(j) \/ Publish(j) \/ Killed(j)

Spec == Init /\ [][Next]_vars

-----------------------------------------------------------------------------
(* Every result of a run comes from one attempt, however the modes are      *)
(* started together or again.                                               *)
OneAttempt == Len(attempts) <= 1

(* All the results of an attempt were computed from the same bytes, and     *)
(* none from damaged ones, unless a repair is on record; kills, resumes     *)
(* and re-analyses do not change what a complete attempt says.              *)
Repaired(a) == \E i, k \in 1..Len(a.log) : i # k /\ a.log[i].chunk = a.log[k].chunk

ResultsAgree ==
  \A i \in 1..Len(attempts) :
    LET a == attempts[i]
    IN  /\ \A r \in 1..Len(a.results) : \A k \in Chunks : a.results[r][k] # Damaged
        /\ ~Repaired(a) => \A r, s \in 1..Len(a.results) : a.results[r] = a.results[s]

(* A final result rests on gates for every hour, and each is the only final *)
(* evaluation among those that were retained when the gates were copied, or *)
(* a declared slot when there was none; an hour with conflicting or         *)
(* malformed evaluations is not among them (copy_gates, verified_gates).    *)
GatesFinal ==
  \A i \in 1..Len(finals) :
    \A h \in Hours :
      LET g == gates[finals[i].gates][h]
          known == 1..g.of
      IN  /\ \A k \in known : retained[h][k] # "malformed"
          /\ {k \in known : retained[h][k] = "final"} = {g.file} \ {0}
=============================================================================
