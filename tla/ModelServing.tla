---------------------------- MODULE ModelServing ----------------------------
(***************************************************************************)
(* How a trained model reaches an answer: the training jobs that publish   *)
(* an artifact and its sidecar (training/train_nginx_test.py), the         *)
(* identity checks against the live objects (api/identity.py), the reload  *)
(* and the registry of pinned records (api/registry.py) and the forecast   *)
(* itself (LSTMPredictor in api/main.py), for one model key.               *)
(*                                                                         *)
(* An artifact is the number of the training that produced it, which also  *)
(* stands for its digest and for the modification time of its file; its    *)
(* sidecar carries the same number.  A query is its hash.  What a request  *)
(* infers from, its input window, is the request's own name.  The refusal  *)
(* of an artifact in the old Dense(1) format is left out: no training job  *)
(* writes one with a sidecar.                                              *)
(***************************************************************************)
EXTENDS Integers, Sequences, FiniteSets

CONSTANTS Clients,      \* forecasts in flight at once
          Trainers,     \* training jobs
          Shas,         \* compiled queries
          None, Boot,   \* Boot: the service's startup load
          MaxChanges, MaxArt, MaxFaults   \* bounds of the model: changes of the autoscaler or
                                          \* its target, candidates, transient load failures

VARIABLES pa,        \* the autoscaler: generation, spec and status.metricSource
          live,      \* UID of the live target Deployment
          disk,      \* artifact and sidecar under their final names, 0 for none
          trained,   \* what each candidate was trained for, in order
          job,       \* trainer -> its step, resolved signal and candidate
          plock,     \* holder of the publication lock
          registry,  \* the installed record, or None
          refs, retired, freed,   \* the records' life: pins, retired, model object released
          stamps, retry,          \* record_stamps, _reload_retry
          load,      \* the one reload in progress
          up,        \* the service has finished its startup load
          req,       \* request -> its step, reference, signal, record and answer
          window,    \* artifact -> the request whose window its model object holds
          rlock,     \* artifact -> holder of the record's lock
          faults     \* transient load failures so far

world == <<pa, live>>
store == <<disk, trained, job, plock>>
records == <<registry, refs, retired, freed>>
loading == <<stamps, retry, load, up>>
using == <<req, window, rlock>>
vars == <<world, store, records, loading, using, faults>>

Arts == 1 .. MaxArt
Stamps == (0 .. MaxArt) \X (0 .. MaxArt)
Records == [art : Arts, label : Arts]
Answers == [rec : Records, win : Clients \cup {None}]

ASSUME ServingConstants ==
  /\ IsFiniteSet(Clients) /\ {None, Boot} \cap Clients = {} /\ Boot # None /\ None \notin Trainers
  /\ MaxArt \in Nat /\ MaxFaults \in Nat
  /\ None \notin Stamps \cup Records \cup Answers

NoLoad == [by |-> None, pc |-> "off", pkl |-> 0, stamp |-> None, data |-> 0, meta |-> 0]
NoReq == [pc |-> "idle", exp |-> FALSE, ref |-> None, sig |-> None, rec |-> None, out |-> None]
NoJob == [pc |-> "idle", sig |-> None, art |-> 0, pool |-> {}]

Init ==
  /\ pa \in {[gen |-> 1, spec |-> s, obs |-> 1, sha |-> s, uid |-> 1] : s \in Shas} /\ live = 1
  /\ disk = [pkl |-> 0, meta |-> 0] /\ trained = <<>>
  /\ job = [t \in Trainers |-> NoJob] /\ plock = None
  /\ registry = None /\ refs = [a \in Arts |-> 0] /\ retired = {} /\ freed = {}
  /\ stamps = None /\ retry = None
  /\ load = [NoLoad EXCEPT !.by = Boot, !.pc = "stat"] /\ up = FALSE
  /\ req = [c \in Clients |-> NoReq]
  /\ window = [a \in Arts |-> None] /\ rlock = [a \in Arts |-> None]
  /\ faults = 0

----------------------------------------------------------------------------
(* The cluster: the operator and the users of the autoscaler.              *)

MayChange == pa.gen + live - 2 < MaxChanges

EditSpec(s) ==
  /\ MayChange
  /\ pa' = [pa EXCEPT !.gen = @ + 1, !.spec = s]
  /\ UNCHANGED <<live, store, records, loading, using, faults>>

ReplaceTarget ==
  /\ MayChange /\ live' = live + 1
  /\ UNCHANGED <<pa, store, records, loading, using, faults>>

(* The operator compiles the metric source of the current generation.      *)
Compile ==
  /\ pa' = [pa EXCEPT !.obs = pa.gen, !.sha = pa.spec, !.uid = live]
  /\ pa' # pa
  /\ UNCHANGED <<live, store, records, loading, using, faults>>

----------------------------------------------------------------------------
(* resolve_autoscaler: two reads of the API server.                        *)

CompiledNow == pa.obs = pa.gen
Compiled == [gen |-> pa.obs, sha |-> pa.sha, uid |-> pa.uid]

StillTarget(sig) == sig.uid = live

----------------------------------------------------------------------------
(* A training job (main of train_nginx_test.py).                           *)

JobGoes(t, j) == job' = [job EXCEPT ![t] = j]
JobEnds(t) == JobGoes(t, NoJob) /\ plock' = IF plock = t THEN None ELSE plock
JobOnly == UNCHANGED <<world, records, loading, using, faults>>

TrainReadsAutoscaler(t) ==
  /\ job[t].pc = "idle" /\ Len(trained) < MaxArt
  /\ CompiledNow
  /\ JobGoes(t, [NoJob EXCEPT !.pc = "target", !.sig = Compiled])
  /\ UNCHANGED <<disk, trained, plock>> /\ JobOnly

TrainReadsTarget(t) ==
  /\ job[t].pc = "target"
  /\ \/ StillTarget(job[t].sig) /\ JobGoes(t, [job[t] EXCEPT !.pc = "lock"])
     \/ ~StillTarget(job[t].sig) /\ JobGoes(t, NoJob)
  /\ UNCHANGED <<disk, trained, plock>> /\ JobOnly

Same(a, sig) == trained[a].sha = sig.sha /\ trained[a].uid = sig.uid

(* previous_evidence: the trainings whose blend evidence is pooled, none   *)
(* when the sidecar belongs to another signal.                             *)
Evidence(sig) ==
  IF disk.meta # 0 /\ Same(disk.meta, sig) THEN trained[disk.meta].pool \cup {disk.meta} ELSE {}

(* acquire_publication_lock.                                               *)
PublicationLock(t) == plock = None /\ plock' = t

TrainLocks(t) ==
  /\ job[t].pc = "lock" /\ PublicationLock(t)
  /\ JobGoes(t, [job[t] EXCEPT !.pc = "train", !.pool = Evidence(job[t].sig)])
  /\ UNCHANGED <<disk, trained>> /\ JobOnly

(* publish_candidate: the digest is taken before the rename.               *)
Published(art) == disk' = [disk EXCEPT !.pkl = art]

(* The training succeeds, its candidate passes the sanity check and is     *)
(* published.                                                              *)
TrainPublishes(t) ==
  /\ job[t].pc = "train" /\ Len(trained) < MaxArt
  /\ trained' = Append(trained, [sha |-> job[t].sig.sha, uid |-> job[t].sig.uid, pool |-> job[t].pool])
  /\ Published(Len(trained) + 1)
  /\ JobGoes(t, [job[t] EXCEPT !.pc = "sidecar", !.art = Len(trained) + 1])
  /\ UNCHANGED plock /\ JobOnly

TrainWritesSidecar(t) ==
  /\ job[t].pc = "sidecar"
  /\ disk' = [disk EXCEPT !.meta = job[t].art]
  /\ JobEnds(t) /\ UNCHANGED trained /\ JobOnly

(* The job ends without going on: the lock wait times out, the training is *)
(* skipped, fails or fails its sanity check, or the process dies.          *)
TrainStops(t) ==
  /\ job[t].pc \in {"lock", "train", "sidecar"}
  /\ JobEnds(t) /\ UNCHANGED <<disk, trained>> /\ JobOnly

----------------------------------------------------------------------------
(* _reload_locked, by Boot or by the request that got the reload lock.     *)

Goes(c, pc) == req' = [req EXCEPT ![c].pc = pc]

(* The reload ends and its caller goes on.                                 *)
LoadEnds ==
  /\ load' = NoLoad
  /\ IF load.by = Boot THEN up' = TRUE /\ UNCHANGED req ELSE Goes(load.by, "pin") /\ UNCHANGED up

LoadOnly == UNCHANGED <<world, store, window, rlock>>

(* _artifact_stamp stats the artifact, then the sidecar.                   *)
StatArtifact ==
  /\ load.pc \in {"stat", "restat"}
  /\ load' = [load EXCEPT !.pc = IF @ = "stat" THEN "known" ELSE "settled", !.pkl = disk.pkl]
  /\ UNCHANGED <<stamps, retry, up, req, records, faults>> /\ LoadOnly

Stamp == IF load.pkl = 0 \/ disk.meta = 0 THEN None ELSE <<load.pkl, disk.meta>>

LoadNeeded ==
  /\ load.pc = "known"
  /\ \/ /\ Stamp \notin {None, stamps, retry}
        /\ load' = [load EXCEPT !.pc = "bytes", !.stamp = Stamp]
        /\ UNCHANGED <<up, req>>
     \/ Stamp \in {None, stamps, retry} /\ LoadEnds
  /\ UNCHANGED <<stamps, retry, records, faults>> /\ LoadOnly

ReadBytes ==
  /\ load.pc = "bytes"
  /\ load' = [load EXCEPT !.pc = "sidecar", !.data = disk.pkl]
  /\ UNCHANGED <<stamps, retry, up, req, records, faults>> /\ LoadOnly

(* load_record: the sidecar's digest is the digest of the bytes read.      *)
Pair(data, meta) == data = meta

(* Mutant: a transient failure is remembered as a finished load.           *)
LoadForgotten == stamps' = load.stamp /\ retry' = None

(* A transient failure backs off and leaves the pair unloaded.             *)
LoadFailed == retry' = load.stamp /\ UNCHANGED stamps

ReadSidecar ==
  /\ load.pc = "sidecar"
  /\ \/ /\ ~Pair(load.data, disk.meta)
        /\ stamps' = load.stamp /\ retry' = None /\ LoadEnds
        /\ UNCHANGED faults
     \/ /\ Pair(load.data, disk.meta)
        /\ load' = [load EXCEPT !.pc = "restat", !.meta = disk.meta]
        /\ UNCHANGED <<stamps, retry, up, req, faults>>
     \/ /\ faults < MaxFaults /\ faults' = faults + 1
        /\ LoadFailed /\ LoadEnds
  /\ UNCHANGED records /\ LoadOnly

(* The backoff after a transient failure is over.                          *)
BackoffEnds ==
  /\ retry # None /\ retry' = None
  /\ UNCHANGED <<stamps, load, up, req, records, faults>> /\ LoadOnly

(* _retire: nobody holds the record.                                       *)
Released(old) == refs[old] = 0

(* ModelRegistry.install.                                                  *)
Install(r) ==
  /\ registry' = r
  /\ IF registry = None THEN UNCHANGED <<retired, freed>>
     ELSE /\ retired' = retired \cup {registry.art}
          /\ freed' = IF Released(registry.art) THEN freed \cup {registry.art} ELSE freed
  /\ UNCHANGED refs

(* Mutant: the files may have changed while they were loaded.              *)
NotRechecked == TRUE

(* The pair is the one whose stamp was taken before it was read.           *)
Unchanged == Stamp = load.stamp

LoadSettles ==
  /\ load.pc = "settled"
  /\ IF Unchanged
     THEN /\ stamps' = load.stamp /\ retry' = None
          /\ Install([art |-> load.data, label |-> load.meta])
     ELSE UNCHANGED <<stamps, retry, records>>
  /\ LoadEnds /\ UNCHANGED faults /\ LoadOnly

----------------------------------------------------------------------------
(* A forecast request.                                                     *)

ReqOnly == UNCHANGED <<world, store, stamps, retry, up, faults>>

(* The operator asks for a forecast of the source it has compiled.         *)
Ask(c) ==
  /\ up /\ req[c].pc = "idle"
  /\ req' = [req EXCEPT ![c] = [NoReq EXCEPT !.pc = "read", !.ref = Compiled]]
  /\ UNCHANGED <<window, rlock, records, load>> /\ ReqOnly

(* An experiment arm forecasts from its source's record, never reloads it. *)
AskExperiment(c) ==
  /\ up /\ req[c].pc = "idle"
  /\ req' = [req EXCEPT ![c] = [NoReq EXCEPT !.pc = "pin", !.exp = TRUE]]
  /\ UNCHANGED <<window, rlock, records, load>> /\ ReqOnly

ReadAutoscaler(c) ==
  /\ req[c].pc = "read"
  /\ \/ /\ CompiledNow /\ Compiled = req[c].ref
        /\ req' = [req EXCEPT ![c].pc = "target", ![c].sig = Compiled]
     \/ /\ ~CompiledNow \/ Compiled # req[c].ref
        /\ req' = [req EXCEPT ![c] = NoReq]
  /\ UNCHANGED <<window, rlock, records, load>> /\ ReqOnly

(* The target is read, then the history of the resolved query; a history   *)
(* that is refused or unavailable ends the request.                        *)
ReadTarget(c) ==
  /\ req[c].pc = "target"
  /\ \/ StillTarget(req[c].sig) /\ Goes(c, "reload")
     \/ req' = [req EXCEPT ![c] = NoReq]
  /\ UNCHANGED <<window, rlock, records, load>> /\ ReqOnly

(* _reload_if_changed: a second caller does not wait.                      *)
Reload(c) ==
  /\ req[c].pc = "reload"
  /\ \/ load.by = None /\ load' = [NoLoad EXCEPT !.by = c, !.pc = "stat"] /\ Goes(c, "loading")
     \/ load.by # None /\ Goes(c, "pin") /\ UNCHANGED load
  /\ UNCHANGED <<window, rlock, records>> /\ ReqOnly

(* ModelRecord.incompatibility, for a product request.                     *)
Compatible(c, rec) == ~req[c].exp => Same(rec.label, req[c].sig)

Pinned(rec) == refs' = [refs EXCEPT ![rec.art] = @ + 1] /\ UNCHANGED <<registry, retired, freed>>

Unpin(rec) ==
  /\ refs' = [refs EXCEPT ![rec.art] = @ - 1]
  /\ freed' = IF rec.art \in retired /\ refs[rec.art] = 1 THEN freed \cup {rec.art} ELSE freed
  /\ UNCHANGED <<registry, retired>>

(* pin, the compatibility check and the input window: without a record the *)
(* forecast is refused, and either check may refuse it.                    *)
Pin(c) ==
  /\ req[c].pc = "pin"
  /\ \/ /\ registry # None /\ Compatible(c, registry)
        /\ Pinned(registry)
        /\ req' = [req EXCEPT ![c].rec = registry, ![c].pc = "lock"]
     \/ req' = [req EXCEPT ![c] = NoReq] /\ UNCHANGED records
  /\ UNCHANGED <<window, rlock, load>> /\ ReqOnly

LockFree(a) == rlock[a] = None

(* The request's window goes into the model object, an experiment's into   *)
(* its own copy of it.                                                     *)
SetWindow(c) ==
  LET a == req[c].rec.art
  IN /\ req[c].pc = "lock" /\ LockFree(a)
     /\ rlock' = [rlock EXCEPT ![a] = c]
     /\ window' = IF req[c].exp THEN window ELSE [window EXCEPT ![a] = c]
     /\ Goes(c, "infer")
     /\ UNCHANGED <<records, load>> /\ ReqOnly

(* model.predict, still under the lock.                                    *)
Infer(c) ==
  LET a == req[c].rec.art
  IN /\ req[c].pc = "infer"
     /\ rlock' = [rlock EXCEPT ![a] = None]
     /\ req' = [req EXCEPT ![c].pc = "answer",
                           ![c].out = [rec |-> req[c].rec, win |-> IF req[c].exp THEN c ELSE window[a]]]
     /\ UNCHANGED <<window, records, load>> /\ ReqOnly

(* The answer, or the refusal of a non-finite step; the record is unpinned. *)
Answer(c) ==
  /\ req[c].pc = "answer"
  /\ req' = [req EXCEPT ![c] = NoReq] /\ Unpin(req[c].rec)
  /\ UNCHANGED <<window, rlock, load>> /\ ReqOnly

(* The service's process ends and starts over.                             *)
Restart ==
  /\ up /\ registry # None
  /\ registry' = None /\ refs' = [a \in Arts |-> 0] /\ retired' = {} /\ freed' = {}
  /\ stamps' = None /\ retry' = None
  /\ load' = [NoLoad EXCEPT !.by = Boot, !.pc = "stat"] /\ up' = FALSE
  /\ req' = [c \in Clients |-> NoReq]
  /\ window' = [a \in Arts |-> None] /\ rlock' = [a \in Arts |-> None]
  /\ UNCHANGED <<world, store, faults>>

Cluster == (\E s \in Shas : EditSpec(s)) \/ ReplaceTarget \/ Compile

Train(t) ==
  \/ TrainReadsAutoscaler(t) \/ TrainReadsTarget(t) \/ TrainLocks(t) \/ TrainPublishes(t)
  \/ TrainWritesSidecar(t) \/ TrainStops(t)

Load == StatArtifact \/ LoadNeeded \/ ReadBytes \/ ReadSidecar \/ LoadSettles

Serve(c) ==
  \/ ReadAutoscaler(c) \/ ReadTarget(c) \/ Reload(c) \/ Pin(c)
  \/ SetWindow(c) \/ Infer(c) \/ Answer(c)

Next ==
  \/ Cluster
  \/ \E t \in Trainers : Train(t)
  \/ Load \/ BackoffEnds \/ Restart
  \/ \E c \in Clients : Ask(c) \/ AskExperiment(c) \/ Serve(c)

Spec == Init /\ [][Next]_vars

----------------------------------------------------------------------------
(* Properties                                                              *)

(* A model object is never released while a request holds its record, and  *)
(* a retired record nobody holds is released: no use after release and no  *)
(* leak, whatever reload happens during a forecast (registry.py:141-179).  *)
PinnedUntilDone ==
  /\ \A c \in Clients : req[c].rec # None => req[c].rec.art \notin freed
  /\ \A a \in retired : (\A c \in Clients : req[c].rec = None \/ req[c].rec.art # a) => a \in freed

(* Two requests that share one model object never forecast from each       *)
(* other's input window (C-47, main.py:569-599).                           *)
OwnWindow == \A c \in Clients : req[c].out # None => req[c].out.win = c

(* A product answer attests the request's own query and target: the bytes  *)
(* that produced it were trained for exactly them, although artifact and   *)
(* sidecar are published and read in separate steps, jobs die in between   *)
(* and the autoscaler changes during the request (main.py:216-271,         *)
(* registry.py:76-122, identity.py:121-193).                               *)
AnswerAttested ==
  \A c \in Clients : req[c].out # None /\ ~req[c].exp => Same(req[c].out.rec.art, req[c].ref)

(* A stamp is recorded only for the pair that was really loaded: once the  *)
(* files keep still and the service believes it has loaded them, the       *)
(* published model is the installed one (main.py:239-271).                 *)
StampMeansLoaded ==
  /\ stamps # None /\ stamps = <<disk.pkl, disk.meta>> /\ disk.pkl = disk.meta
  => registry = [art |-> disk.pkl, label |-> disk.meta]

(* Blend evidence is pooled only over trainings for the same signal, also  *)
(* when jobs overlap or one died between its two files                     *)
(* (train_nginx_test.py:80-95).                                            *)
EvidenceOwnSignal ==
  \A a \in DOMAIN trained : \A b \in trained[a].pool : Same(b, trained[a])

(* An answer is computed from the request's own window by bytes trained    *)
(* for its own query and target, a load stamp means that the published     *)
(* pair is installed, and evidence is pooled only over trainings of the    *)
(* same signal, although artifact and sidecar are written and read in      *)
(* separate steps and jobs overlap or die (main.py:216-271, 569-599,       *)
(* train_nginx_test.py:80-95).                                             *)
AnswersAttested == OwnWindow /\ AnswerAttested /\ StampMeansLoaded /\ EvidenceOwnSignal
============================================================================
