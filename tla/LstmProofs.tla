----------------------------- MODULE LstmProofs -----------------------------
(***************************************************************************)
(* Proofs about ModelServing, for any number of clients and of training    *)
(* jobs, any number of trainings, faults and changes of the autoscaler.    *)
(***************************************************************************)
EXTENDS ModelServing, FiniteSetTheorems, TLAPS

(* Most leaves are first-order: Zenon comes first, then the SMT solver.    *)
USE ZenonT(10), SMTT(30)

Signals == [gen : Nat, sha : Shas, uid : Nat]
Trainings == [sha : Shas, uid : Nat, pool : SUBSET Arts]
Jobs == [pc : {"idle", "target", "lock", "train", "sidecar"}, sig : Signals \cup {None},
         art : 0 .. MaxArt, pool : SUBSET Arts]
Loads == [by : Clients \cup {Boot, None},
          pc : {"off", "stat", "known", "bytes", "sidecar", "restat", "settled"},
          pkl : 0 .. MaxArt, stamp : Stamps \cup {None}, data : 0 .. MaxArt, meta : 0 .. MaxArt]
Reqs == [pc : {"idle", "read", "target", "reload", "loading", "pin", "lock", "infer", "answer"},
         exp : BOOLEAN, ref : Signals \cup {None}, sig : Signals \cup {None},
         rec : Records \cup {None}, out : Answers \cup {None}]

StoreTypes ==
  /\ pa \in [gen : Nat, spec : Shas, obs : Nat, sha : Shas, uid : Nat] /\ live \in Nat
  /\ disk \in [pkl : 0 .. MaxArt, meta : 0 .. MaxArt]
  /\ trained \in Seq(Trainings) /\ Len(trained) <= MaxArt
  /\ job \in [Trainers -> Jobs] /\ plock \in Trainers \cup {None}

LoadTypes ==
  /\ registry \in Records \cup {None} /\ stamps \in Stamps \cup {None} /\ retry \in Stamps \cup {None}
  /\ load \in Loads /\ up \in BOOLEAN /\ faults \in Nat

UseTypes ==
  /\ refs \in [Arts -> Int] /\ retired \subseteq Arts /\ freed \subseteq Arts
  /\ req \in [Clients -> Reqs]
  /\ window \in [Arts -> Clients \cup {None}] /\ rlock \in [Arts -> Clients \cup {None}]

TypeOK == StoreTypes /\ LoadTypes /\ UseTypes

(* The artifact is the newest training's, the sidecar never a newer one's, *)
(* and only the holder of the publication lock is about to write it.       *)
PairInv ==
  /\ disk.pkl = Len(trained) /\ disk.meta <= disk.pkl
  /\ \A t \in Trainers :
       /\ job[t].pc \in {"train", "sidecar"} <=> plock = t
       /\ job[t].pc # "idle" => job[t].sig \in Signals
       /\ job[t].pc = "sidecar" => job[t].art = Len(trained)

(* What is pooled, also by a job that has not finished, is of its signal.  *)
EvidenceInv ==
  /\ \A a \in 1 .. Len(trained) : \A b \in trained[a].pool : b <= Len(trained) /\ Same(b, trained[a])
  /\ \A t \in Trainers : job[t].pc = "train" =>
       \A b \in job[t].pool : b <= Len(trained) /\ Same(b, job[t].sig)

Within(s, t) == s[1] <= t[1] /\ s[2] <= t[2]
OnDisk == <<disk.pkl, disk.meta>>

(* What a reload has read so far lies between the stamp it took first, and *)
(* everything stamped before, and what is on disk now.                     *)
LoadInv ==
  /\ load.pc = "off" <=> load.by = None
  /\ load.by \in Clients => req[load.by].pc = "loading"
  /\ load.pkl <= disk.pkl /\ (stamps # None => Within(stamps, OnDisk))
  /\ load.pc \in {"known"} /\ stamps # None => stamps[1] <= load.pkl
  /\ load.pc \in {"bytes", "sidecar", "restat", "settled"} =>
       /\ load.stamp \in Stamps /\ load.stamp # stamps /\ Within(load.stamp, OnDisk)
       /\ load.stamp[1] > 0 /\ load.stamp[2] > 0
       /\ stamps # None => Within(stamps, load.stamp)
  /\ load.pc \in {"sidecar", "restat", "settled"} => load.stamp[1] <= load.data /\ load.data <= disk.pkl
  /\ load.pc \in {"restat", "settled"} =>
       load.meta = load.data /\ load.stamp[2] <= load.meta /\ load.meta <= disk.meta
  /\ load.pc = "settled" => load.data <= load.pkl

(* The installed record is a matching pair that was stamped, and the pair  *)
(* that was stamped last is installed unless the disk has moved on.        *)
StampInv ==
  /\ registry # None =>
       registry.label = registry.art /\ stamps # None /\ Within(<<registry.art, registry.art>>, stamps)
  /\ stamps # None /\ stamps[1] = stamps[2] =>
       registry = [art |-> stamps[1], label |-> stamps[1]] \/ stamps[1] < disk.pkl

Holders(a) == {c \in Clients : req[c].rec # None /\ req[c].rec.art = a}

(* The pins of a record are the requests that hold it, and retired records *)
(* are older than the installed one and released when nobody holds them.   *)
LifeInv ==
  /\ \A a \in Arts : refs[a] = Cardinality(Holders(a))
  /\ \A a \in retired : registry # None /\ a < registry.art
  /\ freed = {a \in retired : refs[a] = 0}

(* What a request has at each step.                                        *)
ReqHas(c) ==
  /\ req[c].rec # None <=> req[c].pc \in {"lock", "infer", "answer"}
  /\ req[c].out # None => req[c].pc = "answer"
  /\ req[c].pc = "infer" =>
       rlock[req[c].rec.art] = c /\ (~req[c].exp => window[req[c].rec.art] = c)
  /\ ~req[c].exp /\ req[c].pc \notin {"idle", "read"} => req[c].sig = req[c].ref
  /\ req[c].rec # None => req[c].rec.label = req[c].rec.art /\ req[c].rec.art <= Len(trained)
  /\ req[c].rec # None /\ ~req[c].exp => Same(req[c].rec.art, req[c].ref)
  /\ req[c].out # None => req[c].out.rec = req[c].rec /\ req[c].out.win = c

ReqInv == \A c \in Clients : ReqHas(c)

ServingInv ==
  TypeOK /\ PairInv /\ EvidenceInv /\ LoadInv /\ StampInv /\ LifeInv /\ ReqInv

(* The installed model never goes back to an older or an equal one while   *)
(* the service runs (_reload_locked, install).                             *)
ReloadsForward ==
  [][registry # None /\ registry' # None /\ registry' # registry => registry.art < registry'.art]_vars

-----------------------------------------------------------------------------
(* Steps of the cluster and of the training jobs                           *)

(* A step of the cluster touches nothing the invariant reads.              *)
LEMMA ClusterKeeps ==
  ASSUME ServingInv, Cluster
  PROVE  ServingInv'
<1>1. UNCHANGED <<disk, trained, job, plock, registry, refs, retired, freed, stamps, retry, load, up,
                  req, window, rlock, faults>>
  BY DEF Cluster, EditSpec, ReplaceTarget, Compile, store, records, loading, using
<1>2. /\ pa' \in [gen : Nat, spec : Shas, obs : Nat, sha : Shas, uid : Nat] /\ live' \in Nat
  <2>1. pa \in [gen : Nat, spec : Shas, obs : Nat, sha : Shas, uid : Nat] /\ live \in Nat
    BY DEF ServingInv, TypeOK, StoreTypes
  <2>2. CASE \E s \in Shas : EditSpec(s)
    <3> PICK s \in Shas : EditSpec(s)
      BY <2>2
    <3>1. pa.gen + 1 \in Nat
      BY <2>1, SMT
    <3>q. QED
      BY <2>1, <3>1 DEF EditSpec
  <2>3. CASE ReplaceTarget
    BY <2>1, <2>3, SMT DEF ReplaceTarget
  <2>4. CASE Compile
    BY <2>1, <2>4 DEF Compile
  <2>q. QED
    BY <2>2, <2>3, <2>4 DEF Cluster
<1>3. TypeOK'
  BY <1>1, <1>2 DEF ServingInv, TypeOK, StoreTypes, LoadTypes, UseTypes
<1>4. PairInv' /\ EvidenceInv'
  BY <1>1 DEF ServingInv, PairInv, EvidenceInv, Same
<1>5. LoadInv' /\ StampInv'
  BY <1>1 DEF ServingInv, LoadInv, StampInv, Within, OnDisk
<1>6. LifeInv'
  BY <1>1 DEF ServingInv, LifeInv, Holders
<1>7. ReqInv'
  BY <1>1 DEF ServingInv, ReqInv, ReqHas, Same
<1>q. QED
  BY <1>3, <1>4, <1>5, <1>6, <1>7 DEF ServingInv

(* What the jobs do to the store as the service sees it: files and         *)
(* trainings only go forward.                                              *)
StoreGrows ==
  /\ disk'.pkl >= disk.pkl /\ disk'.meta >= disk.meta
  /\ Len(trained') >= Len(trained)
  /\ \A a \in 1 .. Len(trained) : trained'[a] = trained[a]

(* The service's invariants survive whatever only lets the store grow.     *)
LEMMA GrowthKeeps ==
  ASSUME ServingInv, JobOnly, StoreTypes', PairInv', EvidenceInv', StoreGrows
  PROVE  ServingInv'
<1>1. UNCHANGED <<pa, live, registry, refs, retired, freed, stamps, retry, load, up, req, window, rlock,
                  faults>>
  BY DEF JobOnly, world, records, loading, using
<1>2. TypeOK'
  BY <1>1 DEF ServingInv, TypeOK, LoadTypes, UseTypes
<1>3. LoadInv'
  <2>1. disk \in [pkl : 0 .. MaxArt, meta : 0 .. MaxArt] /\ disk' \in [pkl : 0 .. MaxArt, meta : 0 .. MaxArt]
        /\ load \in Loads /\ stamps \in Stamps \cup {None}
    BY DEF ServingInv, TypeOK, StoreTypes, LoadTypes
  <2>2. LoadInv
    BY DEF ServingInv
  <2>3. ASSUME NEW s \in Stamps, Within(s, OnDisk) PROVE Within(s, OnDisk)'
    <3>1. s[1] \in Int /\ s[2] \in Int
      BY ServingConstants, SMT DEF Stamps
    <3>2. disk.pkl \in Int /\ disk.meta \in Int /\ disk'.pkl \in Int /\ disk'.meta \in Int
      BY <2>1, ServingConstants, SMT
    <3>q. QED
      BY <2>3, <3>1, <3>2, SMT DEF Within, OnDisk, StoreGrows
  <2>4. (load.pc = "off" <=> load.by = None)' /\ (load.by \in Clients => req[load.by].pc = "loading")'
        /\ (load.pc = "settled" => load.data <= load.pkl)'
        /\ (load.pc \in {"known"} /\ stamps # None => stamps[1] <= load.pkl)'
    BY <1>1, <2>2 DEF LoadInv
  <2>5. (load.pkl <= disk.pkl)' /\ (stamps # None => Within(stamps, OnDisk))'
    <3>1. load.pkl \in Int /\ disk.pkl \in Int /\ disk'.pkl \in Int
      BY <2>1, ServingConstants, SMT DEF Loads
    <3>2. (load.pkl <= disk.pkl)'
      BY <1>1, <2>2, <3>1, SMT DEF LoadInv, StoreGrows
    <3>q. QED
      BY <1>1, <2>1, <2>2, <2>3, <3>2 DEF LoadInv
  <2>6. (load.pc \in {"bytes", "sidecar", "restat", "settled"} =>
          /\ load.stamp \in Stamps /\ load.stamp # stamps /\ Within(load.stamp, OnDisk)
          /\ load.stamp[1] > 0 /\ load.stamp[2] > 0
          /\ stamps # None => Within(stamps, load.stamp))'
    BY <1>1, <2>2, <2>3 DEF LoadInv, Within
  <2>7. (load.pc \in {"sidecar", "restat", "settled"} => load.stamp[1] <= load.data /\ load.data <= disk.pkl)'
        /\ (load.pc \in {"restat", "settled"} =>
              load.meta = load.data /\ load.stamp[2] <= load.meta /\ load.meta <= disk.meta)'
    <3>1. load.data \in Int /\ load.meta \in Int /\ disk.pkl \in Int /\ disk'.pkl \in Int
          /\ disk.meta \in Int /\ disk'.meta \in Int
      BY <2>1, ServingConstants, SMT DEF Loads
    <3>q. QED
      BY <1>1, <2>2, <3>1, SMT DEF LoadInv, StoreGrows
  <2>q. QED
    BY <2>4, <2>5, <2>6, <2>7 DEF LoadInv
<1>4. StampInv'
  <2>1. stamps # None => stamps[1] \in Int
    BY ServingConstants, SMT DEF Stamps, ServingInv, TypeOK, LoadTypes
  <2>2. disk.pkl \in Int /\ disk'.pkl \in Int
    BY ServingConstants, SMT DEF ServingInv, TypeOK, StoreTypes
  <2>3. stamps # None /\ stamps[1] < disk.pkl => stamps[1] < disk'.pkl
    BY <2>1, <2>2, SMT DEF StoreGrows
  <2>q. QED
    BY <1>1, <2>3 DEF ServingInv, StampInv, Within
<1>5. LifeInv'
  BY <1>1 DEF ServingInv, LifeInv, Holders
<1>6. ReqInv'
  <2> SUFFICES ASSUME NEW c \in Clients PROVE ReqHas(c)'
    BY DEF ReqInv
  <2>1. ReqHas(c) /\ req[c] \in Reqs
    BY DEF ServingInv, ReqInv, TypeOK, UseTypes
  <2>2. req[c].rec # None => req[c].rec.art \in 1 .. Len(trained) /\ req[c].rec.art <= Len(trained')
    <3>1. Len(trained) \in Nat /\ Len(trained') \in Nat
      BY SMT DEF ServingInv, TypeOK, StoreTypes
    <3>2. req[c].rec # None => req[c].rec.art \in 1 .. MaxArt /\ req[c].rec.art <= Len(trained)
      BY <2>1, SMT DEF Reqs, Records, Arts, ReqHas
    <3>q. QED
      BY <3>1, <3>2, ServingConstants, SMT DEF StoreGrows
  <2>3. req[c].rec # None /\ Same(req[c].rec.art, req[c].ref) => Same(req[c].rec.art, req[c].ref)'
    BY <1>1, <2>2 DEF Same, StoreGrows
  <2>q. QED
    BY <1>1, <2>1, <2>2, <2>3 DEF ReqHas
<1>q. QED
  BY <1>2, <1>3, <1>4, <1>5, <1>6 DEF ServingInv

(* A step of a job that leaves files and trainings alone.                  *)
LEMMA JobStepKeeps ==
  ASSUME ServingInv, JobOnly, UNCHANGED <<disk, trained>>, NEW t \in Trainers, NEW j \in Jobs,
         job' = [job EXCEPT ![t] = j], plock' \in Trainers \cup {None},
         \A u \in Trainers \ {t} : plock' = u <=> plock = u,
         j.pc \in {"train", "sidecar"} <=> plock' = t,
         j.pc # "idle" => j.sig \in Signals,
         j.pc # "sidecar",
         j.pc = "train" => \A b \in j.pool : b <= Len(trained) /\ Same(b, j.sig)
  PROVE  ServingInv'
<1>1. /\ job \in [Trainers -> Jobs] /\ job' \in [Trainers -> Jobs]
      /\ job'[t] = j /\ \A u \in Trainers \ {t} : job'[u] = job[u]
  BY DEF ServingInv, TypeOK, StoreTypes
<1>2. UNCHANGED <<pa, live>>
  BY DEF JobOnly, world
<1>3. StoreTypes'
  BY <1>1, <1>2 DEF ServingInv, TypeOK, StoreTypes
<1>4. PairInv'
  <2>1. (disk.pkl = Len(trained) /\ disk.meta <= disk.pkl)'
    BY DEF ServingInv, PairInv
  <2>2. ASSUME NEW u \in Trainers
        PROVE  (/\ job[u].pc \in {"train", "sidecar"} <=> plock = u
                /\ job[u].pc # "idle" => job[u].sig \in Signals
                /\ job[u].pc = "sidecar" => job[u].art = Len(trained))'
    <3>1. CASE u = t
      BY <1>1, <3>1
    <3>2. CASE u # t
      BY <1>1, <3>2 DEF ServingInv, PairInv
    <3>q. QED
      BY <3>1, <3>2
  <2>q. QED
    BY <2>1, <2>2 DEF PairInv
<1>5. EvidenceInv'
  <2>1. ASSUME NEW a \in 1 .. Len(trained), NEW b \in trained[a].pool
        PROVE  b <= Len(trained) /\ Same(b, trained[a])
    BY DEF ServingInv, EvidenceInv
  <2>2. ASSUME NEW u \in Trainers, job'[u].pc = "train", NEW b \in job'[u].pool
        PROVE  b <= Len(trained) /\ Same(b, job'[u].sig)
    <3>1. CASE u = t
      BY <1>1, <2>2, <3>1
    <3>2. CASE u # t
      BY <1>1, <2>2, <3>2 DEF ServingInv, EvidenceInv
    <3>q. QED
      BY <3>1, <3>2
  <2>q. QED
    BY <2>1, <2>2 DEF EvidenceInv, Same
<1>6. StoreGrows
  <2>1. disk.pkl \in Int /\ disk.meta \in Int /\ Len(trained) \in Int
    BY ServingConstants, SMT DEF ServingInv, TypeOK, StoreTypes
  <2>q. QED
    BY <2>1, SMT DEF StoreGrows
<1>q. QED
  BY <1>3, <1>4, <1>5, <1>6, GrowthKeeps

(* A job that has only resolved its signal or ends.                        *)
LEMMA NoJobIsJob == NoJob \in Jobs /\ NoJob.pc = "idle"
BY ServingConstants DEF NoJob, Jobs

(* A job that ends gives back the lock it holds, and only that.            *)
LEMMA JobEndKeeps ==
  ASSUME ServingInv, JobOnly, UNCHANGED <<disk, trained>>, NEW t \in Trainers, JobEnds(t)
  PROVE  ServingInv'
<1>1. plock \in Trainers \cup {None} /\ None \notin Trainers
  BY ServingConstants DEF ServingInv, TypeOK, StoreTypes
<1>2. job' = [job EXCEPT ![t] = NoJob] /\ plock' = IF plock = t THEN None ELSE plock
  BY DEF JobEnds, JobGoes
<1>3. plock' \in Trainers \cup {None} /\ plock' # t /\ \A u \in Trainers \ {t} : plock' = u <=> plock = u
  BY <1>1, <1>2
<1>q. QED
  BY <1>2, <1>3, NoJobIsJob, JobStepKeeps

(* The two reads of a job only move the job on (compiled signal and target *)
(* in the training main).                                                  *)
LEMMA TrainReadsKeeps ==
  ASSUME ServingInv, NEW t \in Trainers, TrainReadsAutoscaler(t) \/ TrainReadsTarget(t)
  PROVE  ServingInv'
<1>1. job[t] \in Jobs /\ plock \in Trainers \cup {None} /\ Compiled \in Signals
  BY DEF ServingInv, TypeOK, StoreTypes, Compiled, Signals
<1>2. JobOnly /\ UNCHANGED <<disk, trained, plock>>
  BY DEF TrainReadsAutoscaler, TrainReadsTarget
<1>3. job[t].pc \in {"idle", "target"} /\ plock # t
  BY DEF TrainReadsAutoscaler, TrainReadsTarget, ServingInv, PairInv
<1>4. CASE TrainReadsAutoscaler(t)
  <2> DEFINE j == [NoJob EXCEPT !.pc = "target", !.sig = Compiled]
  <2>1. j \in Jobs /\ j.pc = "target" /\ j.sig = Compiled
    BY <1>1, NoJobIsJob DEF Jobs
  <2>2. job' = [job EXCEPT ![t] = j]
    BY <1>4 DEF TrainReadsAutoscaler, JobGoes
  <2> HIDE DEF j
  <2>q. QED
    BY <1>1, <1>2, <1>3, <2>1, <2>2, JobStepKeeps
<1>5. CASE TrainReadsTarget(t)
  <2>1. CASE JobGoes(t, [job[t] EXCEPT !.pc = "lock"])
    <3> DEFINE j == [job[t] EXCEPT !.pc = "lock"]
    <3>1. j \in Jobs /\ j.pc = "lock" /\ j.sig = job[t].sig
      BY <1>1 DEF Jobs
    <3>2. job[t].sig \in Signals
      BY <1>5 DEF ServingInv, PairInv, TrainReadsTarget
    <3>3. job' = [job EXCEPT ![t] = j]
      BY <2>1 DEF JobGoes
    <3> HIDE DEF j
    <3>q. QED
      BY <1>1, <1>2, <1>3, <3>1, <3>2, <3>3, JobStepKeeps
  <2>2. CASE JobGoes(t, NoJob)
    <3>1. job' = [job EXCEPT ![t] = NoJob]
      BY <2>2 DEF JobGoes
    <3>q. QED
      BY <1>1, <1>2, <1>3, <3>1, NoJobIsJob, JobStepKeeps
  <2>q. QED
    BY <1>5, <2>1, <2>2 DEF TrainReadsTarget
<1>q. QED
  BY <1>4, <1>5

(* The pooled evidence is of the job's own signal (previous_evidence).     *)
LEMMA EvidenceIsOwn ==
  ASSUME ServingInv, NEW sig \in Signals
  PROVE  Evidence(sig) \subseteq Arts /\ \A b \in Evidence(sig) : b <= Len(trained) /\ Same(b, sig)
<1>1. CASE disk.meta # 0 /\ Same(disk.meta, sig)
  <2>1. disk.meta \in Arts /\ disk.meta \in 1 .. Len(trained) /\ disk.meta <= Len(trained)
    <3>1. disk.meta \in 0 .. MaxArt /\ disk.pkl = Len(trained) /\ disk.meta <= disk.pkl /\ Len(trained) \in Nat
      BY DEF ServingInv, TypeOK, StoreTypes, PairInv
    <3>q. QED
      BY <1>1, <3>1, ServingConstants, SMT DEF Arts
  <2>2. trained[disk.meta].pool \subseteq Arts
    <3>1. trained \in Seq(Trainings)
      BY DEF ServingInv, TypeOK, StoreTypes
    <3>2. trained[disk.meta] \in Trainings
      BY <2>1, <3>1, SMT
    <3>q. QED
      BY <3>2 DEF Trainings
  <2>3. \A b \in trained[disk.meta].pool : b <= Len(trained) /\ Same(b, trained[disk.meta])
    BY <2>1 DEF ServingInv, EvidenceInv
  <2>4. \A b \in trained[disk.meta].pool : Same(b, sig)
    BY <1>1, <2>3 DEF Same
  <2>5. Evidence(sig) = trained[disk.meta].pool \cup {disk.meta}
    BY <1>1 DEF Evidence
  <2>q. QED
    BY <1>1, <2>1, <2>2, <2>3, <2>4, <2>5
<1>2. CASE ~(disk.meta # 0 /\ Same(disk.meta, sig))
  BY <1>2 DEF Evidence
<1>q. QED
  BY <1>1, <1>2

(* A job that takes the publication lock pools evidence of its own signal. *)
LEMMA TrainLocksKeeps ==
  ASSUME ServingInv, NEW t \in Trainers, TrainLocks(t)
  PROVE  ServingInv'
<1> DEFINE j == [job[t] EXCEPT !.pc = "train", !.pool = Evidence(job[t].sig)]
<1>1. job[t] \in Jobs /\ job[t].sig \in Signals
  BY DEF ServingInv, TypeOK, StoreTypes, PairInv, TrainLocks
<1>2. JobOnly /\ UNCHANGED <<disk, trained>> /\ plock = None /\ plock' = t
  BY DEF TrainLocks, PublicationLock
<1>3. j \in Jobs /\ j.pc = "train" /\ j.sig = job[t].sig /\ j.pool = Evidence(job[t].sig)
  BY <1>1, EvidenceIsOwn DEF Jobs
<1>4. job' = [job EXCEPT ![t] = j]
  BY DEF TrainLocks, JobGoes
<1>5. \A u \in Trainers \ {t} : plock' = u <=> plock = u
  BY <1>2, ServingConstants
<1> HIDE DEF j
<1>6. \A b \in j.pool : b <= Len(trained) /\ Same(b, j.sig)
  BY <1>1, <1>3, EvidenceIsOwn
<1>q. QED
  BY <1>1, <1>2, <1>3, <1>4, <1>5, <1>6, JobStepKeeps

(* A new training is the last one and leaves the earlier ones in place.    *)
LEMMA Appended ==
  ASSUME ServingInv, NEW r \in Trainings, trained' = Append(trained, r)
  PROVE  /\ trained' \in Seq(Trainings) /\ Len(trained') = Len(trained) + 1
         /\ trained'[Len(trained) + 1] = r
         /\ \A a \in 1 .. Len(trained) : trained'[a] = trained[a]
<1>1. trained \in Seq(Trainings)
  BY DEF ServingInv, TypeOK, StoreTypes
<1>q. QED
  BY <1>1, SMT

(* Publishing appends the training and replaces the artifact in one step.  *)
LEMMA TrainPublishesKeeps ==
  ASSUME ServingInv, NEW t \in Trainers, TrainPublishes(t)
  PROVE  ServingInv'
<1> DEFINE r == [sha |-> job[t].sig.sha, uid |-> job[t].sig.uid, pool |-> job[t].pool]
           n == Len(trained) + 1
           j == [job[t] EXCEPT !.pc = "sidecar", !.art = n]
<1>1. /\ job[t] \in Jobs /\ job \in [Trainers -> Jobs] /\ job[t].sig \in Signals /\ plock = t
      /\ trained \in Seq(Trainings) /\ disk \in [pkl : 0 .. MaxArt, meta : 0 .. MaxArt]
      /\ disk.pkl = Len(trained) /\ disk.meta <= disk.pkl
  BY DEF ServingInv, TypeOK, StoreTypes, PairInv, TrainPublishes
<1>2. r \in Trainings
  BY <1>1 DEF Trainings, Signals, Jobs
<1>3. /\ JobOnly /\ UNCHANGED plock /\ trained' = Append(trained, r)
      /\ disk' = [disk EXCEPT !.pkl = n] /\ job' = [job EXCEPT ![t] = j]
  BY DEF TrainPublishes, Published, JobGoes
<1>4. n \in 1 .. MaxArt /\ n <= MaxArt /\ n >= Len(trained) /\ Len(trained) \in Nat
  BY <1>1, ServingConstants, SMT DEF TrainPublishes
<1>5. j \in Jobs /\ j.pc = "sidecar" /\ j.sig = job[t].sig /\ j.art = n
  <2>1. n \in 0 .. MaxArt
    BY <1>4, SMT
  <2> HIDE DEF n
  <2>q. QED
    BY <1>1, <2>1 DEF Jobs
<1>6. disk' \in [pkl : 0 .. MaxArt, meta : 0 .. MaxArt] /\ disk'.pkl = n /\ disk'.meta = disk.meta
  <2>1. n \in 0 .. MaxArt
    BY <1>4, SMT
  <2> HIDE DEF n
  <2>q. QED
    BY <1>1, <1>3, <2>1
<1>7. /\ trained' \in Seq(Trainings) /\ Len(trained') = n /\ trained'[n] = r
      /\ \A a \in 1 .. Len(trained) : trained'[a] = trained[a]
  BY <1>2, <1>3, Appended
<1>8. job' \in [Trainers -> Jobs] /\ job'[t] = j /\ \A u \in Trainers \ {t} : job'[u] = job[u]
  <2> HIDE DEF j
  <2>q. QED
    BY <1>1, <1>3, <1>5
<1>9. r.sha = job[t].sig.sha /\ r.uid = job[t].sig.uid /\ r.pool = job[t].pool
  OBVIOUS
<1>10. UNCHANGED <<pa, live>>
  BY <1>3 DEF JobOnly, world
<1>11. StoreTypes'
  <2> HIDE DEF n
  <2>q. QED
    BY <1>3, <1>4, <1>6, <1>7, <1>8, <1>10 DEF ServingInv, TypeOK, StoreTypes
<1>12. StoreGrows
  <2> HIDE DEF r, j
  <2>q. QED
    BY <1>1, <1>4, <1>6, <1>7, SMT DEF StoreGrows
<1>13. PairInv'
  <2>1. (disk.pkl = Len(trained) /\ disk.meta <= disk.pkl)'
    <3>1. disk.meta \in Int
      BY <1>1, SMT
    <3>q. QED
      BY <1>1, <1>4, <1>6, <1>7, <3>1, SMT
  <2>2. ASSUME NEW u \in Trainers
        PROVE  (/\ job[u].pc \in {"train", "sidecar"} <=> plock = u
                /\ job[u].pc # "idle" => job[u].sig \in Signals
                /\ job[u].pc = "sidecar" => job[u].art = Len(trained))'
    <3> HIDE DEF j, n, r
    <3>1. CASE u = t
      BY <1>1, <1>3, <1>5, <1>7, <1>8, <3>1
    <3>2. CASE u # t
      BY <1>1, <1>3, <1>8, <3>2 DEF ServingInv, PairInv
    <3>q. QED
      BY <3>1, <3>2
  <2>q. QED
    BY <2>1, <2>2 DEF PairInv
<1>14. EvidenceInv'
  <2> HIDE DEF j, r
  <2>1. ASSUME NEW b \in Arts, NEW sig, b <= Len(trained), Same(b, sig)
        PROVE  b <= Len(trained') /\ trained'[b] = trained[b]
               /\ trained'[b].sha = sig.sha /\ trained'[b].uid = sig.uid
    <3>1. b \in 1 .. Len(trained) /\ b <= n
      BY <1>1, <1>4, <2>1, SMT DEF Arts
    <3>q. QED
      BY <1>7, <2>1, <3>1 DEF Same
  <2>2. ASSUME NEW a \in 1 .. n, NEW b \in trained'[a].pool
        PROVE  b <= Len(trained') /\ trained'[b].sha = trained'[a].sha /\ trained'[b].uid = trained'[a].uid
    <3>1. CASE a = n
      <4>1. b \in job[t].pool /\ b \in Arts
        BY <1>1, <1>7, <1>9, <2>2, <3>1 DEF Jobs
      <4>2. b <= Len(trained) /\ Same(b, job[t].sig)
        BY <4>1 DEF ServingInv, EvidenceInv, TrainPublishes
      <4>q. QED
        BY <1>7, <1>9, <2>1, <3>1, <4>1, <4>2
    <3>2. CASE a # n
      <4>1. a \in 1 .. Len(trained)
        BY <1>4, <3>2, SMT
      <4>2. trained'[a] = trained[a] /\ trained[a] \in Trainings
        BY <1>1, <1>7, <4>1, SMT
      <4>3. b \in Arts /\ b <= Len(trained) /\ Same(b, trained[a])
        BY <2>2, <4>1, <4>2 DEF ServingInv, EvidenceInv, Trainings
      <4>q. QED
        BY <2>1, <4>2, <4>3
    <3>q. QED
      BY <3>1, <3>2
  <2>3. ASSUME NEW u \in Trainers, job'[u].pc = "train", NEW b \in job'[u].pool
        PROVE  b <= Len(trained') /\ trained'[b].sha = job'[u].sig.sha /\ trained'[b].uid = job'[u].sig.uid
    <3>1. job'[u] = job[u] /\ job[u] \in Jobs
      BY <1>1, <1>5, <1>8, <2>3
    <3>2. b \in Arts /\ b <= Len(trained) /\ Same(b, job[u].sig)
      BY <2>3, <3>1 DEF ServingInv, EvidenceInv, Jobs
    <3>q. QED
      BY <2>1, <3>1, <3>2
  <2> HIDE DEF n
  <2>q. QED
    BY <1>7, <2>2, <2>3 DEF EvidenceInv, Same
<1>q. QED
  BY <1>3, <1>11, <1>12, <1>13, <1>14, GrowthKeeps

(* The sidecar written under the lock is the newest artifact's.            *)
LEMMA TrainWritesKeeps ==
  ASSUME ServingInv, NEW t \in Trainers, TrainWritesSidecar(t)
  PROVE  ServingInv'
<1>1. /\ job[t] \in Jobs /\ job \in [Trainers -> Jobs] /\ plock = t /\ job[t].art = Len(trained)
      /\ disk \in [pkl : 0 .. MaxArt, meta : 0 .. MaxArt] /\ disk.pkl = Len(trained) /\ disk.meta <= disk.pkl
  BY DEF ServingInv, TypeOK, StoreTypes, PairInv, TrainWritesSidecar
<1>2. /\ JobOnly /\ UNCHANGED trained /\ disk' = [disk EXCEPT !.meta = job[t].art]
      /\ job' = [job EXCEPT ![t] = NoJob] /\ plock' = None
  BY <1>1 DEF TrainWritesSidecar, JobEnds, JobGoes
<1>3. disk' \in [pkl : 0 .. MaxArt, meta : 0 .. MaxArt] /\ disk'.pkl = disk.pkl /\ disk'.meta = disk.pkl
  BY <1>1, <1>2
<1>4. job' \in [Trainers -> Jobs] /\ job'[t] = NoJob /\ \A u \in Trainers \ {t} : job'[u] = job[u]
  BY <1>1, <1>2, NoJobIsJob
<1>5. disk.pkl \in Int /\ disk.meta \in Int /\ Len(trained) \in Int
  BY <1>1, SMT
<1>6. StoreTypes'
  <2>1. UNCHANGED <<pa, live>>
    BY <1>2 DEF JobOnly, world
  <2>q. QED
    BY <1>2, <1>3, <1>4, <2>1 DEF ServingInv, TypeOK, StoreTypes
<1>7. StoreGrows
  BY <1>1, <1>2, <1>3, <1>5, SMT DEF StoreGrows
<1>8. PairInv'
  <2>1. (disk.pkl = Len(trained) /\ disk.meta <= disk.pkl)'
    BY <1>1, <1>2, <1>3, <1>5, SMT
  <2>2. ASSUME NEW u \in Trainers
        PROVE  (/\ job[u].pc \in {"train", "sidecar"} <=> plock = u
                /\ job[u].pc # "idle" => job[u].sig \in Signals
                /\ job[u].pc = "sidecar" => job[u].art = Len(trained))'
    <3>1. plock' # u
      BY <1>2, ServingConstants
    <3>2. CASE u = t
      BY <1>4, <3>1, <3>2, NoJobIsJob
    <3>3. CASE u # t
      BY <1>1, <1>2, <1>4, <3>1, <3>3 DEF ServingInv, PairInv
    <3>q. QED
      BY <3>2, <3>3
  <2>q. QED
    BY <2>1, <2>2 DEF PairInv
<1>9. EvidenceInv'
  <2>1. ASSUME NEW u \in Trainers, job'[u].pc = "train"
        PROVE  job'[u] = job[u]
    BY <1>4, <2>1, NoJobIsJob
  <2>q. QED
    BY <1>2, <2>1 DEF ServingInv, EvidenceInv, Same
<1>q. QED
  BY <1>2, <1>6, <1>7, <1>8, <1>9, GrowthKeeps

(* Every step of a training job, its death included.                       *)
LEMMA TrainKeeps ==
  ASSUME ServingInv, NEW t \in Trainers, Train(t)
  PROVE  ServingInv'
<1>1. CASE TrainStops(t)
  BY <1>1, JobEndKeeps DEF TrainStops
<1>q. QED
  BY <1>1, TrainReadsKeeps, TrainLocksKeeps, TrainPublishesKeeps, TrainWritesKeeps DEF Train

-----------------------------------------------------------------------------
(* Steps of the reload                                                     *)

(* What the end of a reload does to the requests: its caller goes on.      *)
CallerGoesOn ==
  /\ req' \in [Clients -> Reqs]
  /\ \A c \in Clients :
       \/ req'[c] = req[c]
       \/ req[c].pc = "loading" /\ req'[c] = [req[c] EXCEPT !.pc = "pin"]

(* Whether a reload goes on or ends, requests keep what they have.         *)
LEMMA RequestsKeep ==
  ASSUME ServingInv, CallerGoesOn, UNCHANGED <<trained, window, rlock>>
  PROVE  /\ ReqInv'
         /\ \A a \in Arts : Holders(a)' = Holders(a)
<1>1. ASSUME NEW c \in Clients
      PROVE  /\ req'[c].exp = req[c].exp /\ req'[c].ref = req[c].ref /\ req'[c].sig = req[c].sig
             /\ req'[c].rec = req[c].rec /\ req'[c].out = req[c].out
             /\ req'[c].pc = req[c].pc \/ (req[c].pc = "loading" /\ req'[c].pc = "pin")
  <2>1. req[c] \in Reqs
    BY DEF ServingInv, TypeOK, UseTypes
  <2>q. QED
    BY <2>1 DEF CallerGoesOn, Reqs
<1>2. ASSUME NEW c \in Clients PROVE ReqHas(c)'
  <2>1. ReqHas(c)
    BY DEF ServingInv, ReqInv
  <2>2. CASE req'[c].pc = req[c].pc
    BY <1>1, <2>1, <2>2 DEF ReqHas, Same
  <2>3. CASE req[c].pc = "loading" /\ req'[c].pc = "pin"
    BY <1>1, <2>1, <2>3 DEF ReqHas, Same
  <2>q. QED
    BY <1>1, <2>2, <2>3
<1>3. \A a \in Arts : Holders(a)' = Holders(a)
  BY <1>1 DEF Holders
<1>q. QED
  BY <1>2, <1>3 DEF ReqInv

(* When a reload ends its caller goes on, and no other request moves.      *)
LEMMA LoadEndsGoesOn ==
  ASSUME ServingInv, LoadEnds, load.pc # "off"
  PROVE  CallerGoesOn /\ load' = NoLoad /\ up' \in BOOLEAN
<1>1. load \in Loads /\ req \in [Clients -> Reqs] /\ up \in BOOLEAN /\ load.by # None
  BY DEF ServingInv, TypeOK, LoadTypes, UseTypes, LoadInv
<1>2. CASE load.by = Boot
  <2>1. load' = NoLoad /\ up' = TRUE /\ UNCHANGED req
    BY <1>2 DEF LoadEnds
  <2>q. QED
    BY <1>1, <2>1 DEF CallerGoesOn
<1>3. CASE load.by # Boot
  <2>1. load.by \in Clients /\ req[load.by].pc = "loading"
    BY <1>1, <1>3 DEF Loads, ServingInv, LoadInv
  <2>2. req' = [req EXCEPT ![load.by].pc = "pin"] /\ UNCHANGED up
    BY <1>3 DEF LoadEnds, Goes
  <2>3. [req[load.by] EXCEPT !.pc = "pin"] \in Reqs
    BY <1>1, <2>1 DEF Reqs
  <2>4. req' \in [Clients -> Reqs] /\ req'[load.by] = [req[load.by] EXCEPT !.pc = "pin"]
        /\ \A c \in Clients \ {load.by} : req'[c] = req[c]
    BY <1>1, <2>1, <2>2, <2>3
  <2>5. load' = NoLoad
    BY DEF LoadEnds
  <2>q. QED
    BY <1>1, <2>1, <2>2, <2>4, <2>5 DEF CallerGoesOn
<1>q. QED
  BY <1>2, <1>3

(* A reload in progress, as long as nothing is installed.                  *)
LEMMA LoadStepKeeps ==
  ASSUME ServingInv, LoadOnly, UNCHANGED records, CallerGoesOn, up' \in BOOLEAN, faults' \in Nat,
         stamps' \in Stamps \cup {None}, retry' \in Stamps \cup {None}, load' \in Loads,
         LoadInv', StampInv'
  PROVE  ServingInv'
<1>1. UNCHANGED <<pa, live, disk, trained, job, plock, window, rlock, registry, refs, retired, freed>>
  BY DEF LoadOnly, world, store, records
<1>2. TypeOK'
  BY <1>1 DEF ServingInv, TypeOK, StoreTypes, LoadTypes, UseTypes, CallerGoesOn
<1>3. PairInv' /\ EvidenceInv'
  BY <1>1 DEF ServingInv, PairInv, EvidenceInv, Same
<1>4. ReqInv' /\ \A a \in Arts : Holders(a)' = Holders(a)
  BY <1>1, RequestsKeep
<1>5. LifeInv'
  BY <1>1, <1>4 DEF ServingInv, LifeInv
<1>q. QED
  BY <1>2, <1>3, <1>4, <1>5 DEF ServingInv

(* Artifacts are numbers, and a stamp is a pair of them.                   *)
LEMMA Numbers ==
  ASSUME ServingInv
  PROVE  /\ disk.pkl \in 0 .. MaxArt /\ disk.meta \in 0 .. MaxArt /\ load.pkl \in 0 .. MaxArt
         /\ load.data \in 0 .. MaxArt /\ load.meta \in 0 .. MaxArt
         /\ disk.pkl \in Int /\ disk.meta \in Int /\ load.pkl \in Int /\ load.data \in Int /\ load.meta \in Int
         /\ \A s \in Stamps : s[1] \in Int /\ s[2] \in Int /\ s = <<s[1], s[2]>>
         /\ \A p, m \in 0 .. MaxArt : <<p, m>> \in Stamps
<1>1. /\ disk.pkl \in 0 .. MaxArt /\ disk.meta \in 0 .. MaxArt /\ load.pkl \in 0 .. MaxArt
      /\ load.data \in 0 .. MaxArt /\ load.meta \in 0 .. MaxArt
  BY DEF ServingInv, TypeOK, StoreTypes, LoadTypes, Loads
<1>2. \A s \in Stamps : s[1] \in Int /\ s[2] \in Int /\ s = <<s[1], s[2]>>
  BY ServingConstants, SMT DEF Stamps
<1>3. \A p, m \in 0 .. MaxArt : <<p, m>> \in Stamps
  BY DEF Stamps
<1>4. disk.pkl \in Int /\ disk.meta \in Int /\ load.pkl \in Int /\ load.data \in Int /\ load.meta \in Int
  BY <1>1, ServingConstants, SMT
<1>q. QED
  BY <1>1, <1>2, <1>3, <1>4

(* Nothing is read while no request goes on.                               *)
LEMMA NobodyGoes ==
  ASSUME ServingInv, UNCHANGED req
  PROVE  CallerGoesOn
BY DEF ServingInv, TypeOK, UseTypes, CallerGoesOn

(* The stat of the artifact, before the reads and again after them.        *)
LEMMA StatArtifactKeeps ==
  ASSUME ServingInv, StatArtifact
  PROVE  ServingInv'
<1>1. /\ LoadOnly /\ UNCHANGED records /\ UNCHANGED <<stamps, retry, up, req, faults, disk, registry>>
      /\ load.pc \in {"stat", "restat"}
  BY DEF StatArtifact, LoadOnly, store, records
<1>2. load \in Loads
  BY DEF ServingInv, TypeOK, LoadTypes
<1>3. /\ load'.pc = (IF load.pc = "stat" THEN "known" ELSE "settled") /\ load'.pkl = disk.pkl
      /\ load'.by = load.by /\ load'.stamp = load.stamp /\ load'.data = load.data /\ load'.meta = load.meta
      /\ load' \in Loads
  BY <1>2, Numbers DEF StatArtifact, Loads
<1>4. LoadInv
  BY DEF ServingInv
<1>5. LoadInv'
  <2>1. CASE load.pc = "stat"
    <3>1. load'.pc = "known"
      BY <1>3, <2>1
    <3>2. stamps # None => stamps[1] <= load'.pkl
      BY <1>3, <1>4 DEF LoadInv, Within, OnDisk
    <3>3. load'.pkl <= disk.pkl
      BY <1>3, Numbers, SMT
    <3>q. QED
      BY <1>1, <1>3, <1>4, <2>1, <3>1, <3>2, <3>3 DEF LoadInv, Within, OnDisk
  <2>2. CASE load.pc = "restat"
    <3>1. load'.pc = "settled"
      BY <1>3, <2>2
    <3>2. load'.data <= load'.pkl
      BY <1>3, <1>4, <2>2 DEF LoadInv
    <3>3. load'.pkl <= disk.pkl
      BY <1>3, Numbers, SMT
    <3>q. QED
      BY <1>1, <1>3, <1>4, <2>2, <3>1, <3>2, <3>3 DEF LoadInv, Within, OnDisk
  <2>q. QED
    BY <1>1, <2>1, <2>2
<1>6. StampInv'
  BY <1>1 DEF ServingInv, StampInv, Within
<1>q. QED
  BY <1>1, <1>3, <1>5, <1>6, NobodyGoes, LoadStepKeeps DEF ServingInv, TypeOK, LoadTypes

(* The end of a reload that installs nothing.                              *)
LEMMA LoadEndKeeps ==
  ASSUME ServingInv, LoadOnly, UNCHANGED records, LoadEnds, load.pc # "off", faults' \in Nat,
         stamps' \in Stamps \cup {None}, retry' \in Stamps \cup {None},
         stamps' # None => Within(stamps', OnDisk), StampInv'
  PROVE  ServingInv'
<1>1. CallerGoesOn /\ load' = NoLoad /\ up' \in BOOLEAN
  BY LoadEndsGoesOn
<1>2. UNCHANGED disk
  BY DEF LoadOnly, store
<1>3. 0 \in 0 .. MaxArt
  BY ServingConstants, SMT
<1>4. NoLoad \in Loads /\ NoLoad.pc = "off" /\ NoLoad.by = None /\ NoLoad.pkl = 0
  BY <1>3 DEF NoLoad, Loads
<1>5. 0 <= disk.pkl
  BY Numbers, SMT
<1>6. LoadInv'
  BY <1>1, <1>2, <1>4, <1>5, ServingConstants DEF LoadInv, OnDisk, Within
<1>q. QED
  BY <1>1, <1>4, <1>6, LoadStepKeeps

(* The stamp comparison: an unchanged stamp or a backoff ends the reload.  *)
LEMMA LoadNeededKeeps ==
  ASSUME ServingInv, LoadNeeded
  PROVE  ServingInv'
<1>1. LoadOnly /\ UNCHANGED records /\ UNCHANGED <<stamps, retry, faults, disk, registry>> /\ load.pc = "known"
  BY DEF LoadNeeded, LoadOnly, store, records
<1>2. load \in Loads /\ LoadInv /\ StampInv /\ stamps \in Stamps \cup {None}
      /\ retry \in Stamps \cup {None} /\ faults \in Nat
  BY DEF ServingInv, TypeOK, LoadTypes
<1>3. StampInv'
  BY <1>1, <1>2 DEF StampInv, Within
<1>4. CASE LoadEnds
  <2>1. stamps' # None => Within(stamps', OnDisk)
    BY <1>1, <1>2 DEF LoadInv
  <2>q. QED
    BY <1>1, <1>2, <1>3, <1>4, <2>1, LoadEndKeeps
<1>5. CASE /\ Stamp \notin {None, stamps, retry} /\ load' = [load EXCEPT !.pc = "bytes", !.stamp = Stamp]
           /\ UNCHANGED <<up, req>>
  <2>1. Stamp = <<load.pkl, disk.meta>> /\ load.pkl # 0 /\ disk.meta # 0 /\ Stamp # stamps
    BY <1>5 DEF Stamp
  <2>2. Stamp \in Stamps /\ Stamp[1] = load.pkl /\ Stamp[2] = disk.meta
    BY <2>1, Numbers
  <2>3. /\ load' \in Loads /\ load'.pc = "bytes" /\ load'.stamp = Stamp /\ load'.by = load.by
        /\ load'.pkl = load.pkl
    <3> HIDE DEF Stamp
    <3>q. QED
      BY <1>2, <1>5, <2>2 DEF Loads
  <2>4. Stamp[1] > 0 /\ Stamp[2] > 0 /\ Within(Stamp, OnDisk)
    <3>1. load.pkl <= disk.pkl
      BY <1>2 DEF LoadInv
    <3> HIDE DEF Stamp
    <3>2. load.pkl \in 0 .. MaxArt /\ disk.meta \in 0 .. MaxArt
      BY Numbers
    <3>q. QED
      BY <2>1, <2>2, <3>1, <3>2, ServingConstants, SMT DEF Within, OnDisk
  <2>5. stamps # None => Within(stamps, Stamp)
    BY <1>1, <1>2, <2>2 DEF LoadInv, Within, OnDisk
  <2> HIDE DEF Stamp
  <2>6. LoadInv'
    BY <1>1, <1>2, <1>5, <2>1, <2>2, <2>3, <2>4, <2>5 DEF LoadInv, Within, OnDisk
  <2>q. QED
    BY <1>1, <1>2, <1>3, <1>5, <2>3, <2>6, NobodyGoes, LoadStepKeeps DEF ServingInv, TypeOK, LoadTypes
<1>q. QED
  BY <1>4, <1>5 DEF LoadNeeded

(* The artifact's bytes are at least as new as the stamp taken before.     *)
LEMMA ReadBytesKeeps ==
  ASSUME ServingInv, ReadBytes
  PROVE  ServingInv'
<1>1. /\ LoadOnly /\ UNCHANGED records /\ UNCHANGED <<stamps, retry, up, req, faults, disk, registry>>
      /\ load.pc = "bytes"
  BY DEF ReadBytes, LoadOnly, store, records
<1>2. load \in Loads /\ LoadInv
  BY DEF ServingInv, TypeOK, LoadTypes
<1>3. /\ load' \in Loads /\ load'.pc = "sidecar" /\ load'.data = disk.pkl /\ load'.by = load.by
      /\ load'.pkl = load.pkl /\ load'.stamp = load.stamp
  BY <1>2, Numbers DEF ReadBytes, Loads
<1>4. load'.stamp[1] <= load'.data /\ load'.data <= disk.pkl
  <2>1. load.stamp[1] <= disk.pkl
    BY <1>1, <1>2 DEF LoadInv, Within, OnDisk
  <2>2. disk.pkl <= disk.pkl
    BY Numbers, SMT
  <2>q. QED
    BY <1>3, <2>1, <2>2
<1>5. LoadInv'
  BY <1>1, <1>2, <1>3, <1>4 DEF LoadInv, Within, OnDisk
<1>6. StampInv'
  BY <1>1 DEF ServingInv, StampInv, Within
<1>q. QED
  BY <1>1, <1>3, <1>5, <1>6, NobodyGoes, LoadStepKeeps DEF ServingInv, TypeOK, LoadTypes

(* A stamp of a pair that did not match is never that of a matching pair   *)
(* which is still on disk.                                                 *)
LEMMA MismatchMovedOn ==
  ASSUME ServingInv, load.pc = "sidecar", load.data # disk.meta, load.stamp[1] = load.stamp[2]
  PROVE  load.stamp[1] < disk.pkl
<1>1. /\ load.stamp \in Stamps /\ Within(load.stamp, OnDisk)
      /\ load.stamp[1] <= load.data /\ load.data <= disk.pkl /\ disk.meta <= disk.pkl
  BY DEF ServingInv, LoadInv, PairInv
<1>2. load.stamp[1] <= disk.pkl /\ load.stamp[2] <= disk.meta
  BY <1>1 DEF Within, OnDisk
<1>3. load.stamp[1] \in Int /\ load.stamp[2] \in Int /\ load.data \in Int /\ disk.pkl \in Int /\ disk.meta \in Int
  BY <1>1, Numbers
<1>q. QED
  BY <1>1, <1>2, <1>3, SMT

(* The sidecar is read after the bytes, and a mismatch ends the reload.    *)
LEMMA ReadSidecarKeeps ==
  ASSUME ServingInv, ReadSidecar
  PROVE  ServingInv'
<1>1. LoadOnly /\ UNCHANGED records /\ UNCHANGED <<disk, registry>> /\ load.pc = "sidecar"
  BY DEF ReadSidecar, LoadOnly, store, records
<1>2. /\ load \in Loads /\ LoadInv /\ StampInv /\ load.stamp \in Stamps /\ Within(load.stamp, OnDisk)
      /\ stamps \in Stamps \cup {None} /\ retry \in Stamps \cup {None} /\ faults \in Nat
      /\ (stamps # None => Within(stamps, load.stamp))
  BY <1>1 DEF ServingInv, TypeOK, LoadTypes, LoadInv
<1>3. CASE ~Pair(load.data, disk.meta) /\ stamps' = load.stamp /\ retry' = None /\ LoadEnds /\ UNCHANGED faults
  <2>1. ASSUME registry # None PROVE Within(<<registry.art, registry.art>>, load.stamp)
    <3>1. Within(<<registry.art, registry.art>>, stamps) /\ stamps \in Stamps /\ Within(stamps, load.stamp)
      BY <1>2, <2>1 DEF StampInv
    <3>2. stamps[1] \in Int /\ stamps[2] \in Int /\ load.stamp[1] \in Int /\ load.stamp[2] \in Int
      BY <1>2, <3>1, Numbers
    <3>3. registry.art \in Int
      BY <2>1, ServingConstants, SMT DEF ServingInv, TypeOK, LoadTypes, Records, Arts
    <3>q. QED
      BY <3>1, <3>2, <3>3, SMT DEF Within
  <2>2. load.stamp[1] = load.stamp[2] => load.stamp[1] < disk.pkl
    BY <1>1, <1>3, MismatchMovedOn DEF Pair
  <2>3. StampInv'
    <3>1. load.stamp # None
      BY <1>2, ServingConstants
    <3>q. QED
      BY <1>1, <1>2, <1>3, <2>1, <2>2, <3>1 DEF StampInv, Within
  <2>4. stamps' # None => Within(stamps', OnDisk)
    BY <1>2, <1>3
  <2>q. QED
    BY <1>1, <1>2, <1>3, <2>3, <2>4, LoadEndKeeps
<1>4. CASE /\ Pair(load.data, disk.meta) /\ load' = [load EXCEPT !.pc = "restat", !.meta = disk.meta]
           /\ UNCHANGED <<stamps, retry, up, req, faults>>
  <2>1. /\ load' \in Loads /\ load'.pc = "restat" /\ load'.meta = disk.meta /\ load'.by = load.by
        /\ load'.pkl = load.pkl /\ load'.stamp = load.stamp /\ load'.data = load.data
    BY <1>2, <1>4, Numbers DEF Loads
  <2>2. load'.meta = load'.data /\ load'.stamp[2] <= load'.meta /\ load'.meta <= disk.meta
    <3>1. disk.meta <= disk.meta
      BY Numbers, SMT
    <3>q. QED
      BY <1>2, <1>4, <2>1, <3>1 DEF Pair, Within, OnDisk
  <2>3. LoadInv'
    BY <1>1, <1>2, <1>4, <2>1, <2>2 DEF LoadInv, Within, OnDisk
  <2>4. StampInv'
    BY <1>1, <1>2, <1>4 DEF StampInv, Within
  <2>q. QED
    BY <1>1, <1>2, <1>4, <2>1, <2>3, <2>4, NobodyGoes, LoadStepKeeps DEF ServingInv, TypeOK, LoadTypes
<1>5. CASE faults' = faults + 1 /\ LoadFailed /\ LoadEnds
  <2>1. faults' \in Nat
    BY <1>2, <1>5, SMT
  <2>2. stamps' = stamps /\ retry' = load.stamp
    BY <1>5 DEF LoadFailed
  <2>3. StampInv' /\ (stamps' # None => Within(stamps', OnDisk))
    BY <1>1, <1>2, <2>2 DEF StampInv, Within, LoadInv
  <2>q. QED
    BY <1>1, <1>2, <1>5, <2>1, <2>2, <2>3, LoadEndKeeps
<1>q. QED
  BY <1>3, <1>4, <1>5 DEF ReadSidecar

(* The end of the backoff only forgets the stamp that failed.              *)
LEMMA BackoffEndsKeeps ==
  ASSUME ServingInv, BackoffEnds
  PROVE  ServingInv'
<1>1. LoadOnly /\ UNCHANGED records /\ UNCHANGED <<disk, registry, stamps, load, up, req, faults>> /\ retry' = None
  BY DEF BackoffEnds, LoadOnly, store, records
<1>2. LoadInv' /\ StampInv'
  BY <1>1 DEF ServingInv, LoadInv, StampInv, Within, OnDisk
<1>q. QED
  BY <1>1, <1>2, NobodyGoes, LoadStepKeeps DEF ServingInv, TypeOK, LoadTypes

(* The pair that is installed is the one that was stamped, and newer than  *)
(* the installed one.                                                      *)
LEMMA InstalledIsNewer ==
  ASSUME ServingInv, load.pc = "settled", Unchanged
  PROVE  /\ load.meta = load.data /\ load.data \in Arts
         /\ load.stamp = <<load.data, load.data>>
         /\ load.stamp[1] = load.data /\ load.stamp[2] = load.data
         /\ registry # None => registry.art < load.data
<1>1. /\ load.stamp \in Stamps /\ load.stamp # stamps /\ load.stamp[1] > 0
      /\ load.stamp[1] <= load.data /\ load.meta = load.data
      /\ load.stamp[2] <= load.meta /\ load.meta <= disk.meta /\ load.data <= load.pkl
      /\ (stamps # None => Within(stamps, load.stamp))
  BY DEF ServingInv, LoadInv
<1>2. load.stamp = <<load.pkl, disk.meta>>
  BY <1>1, ServingConstants DEF Unchanged, Stamp
<1>3. /\ load.pkl \in Int /\ load.data \in Int /\ disk.meta \in Int /\ load.stamp[1] \in Int
      /\ load.stamp[2] \in Int /\ load.stamp = <<load.stamp[1], load.stamp[2]>> /\ load.data \in 0 .. MaxArt
  BY <1>1, Numbers
<1>4. load.stamp[1] = load.pkl /\ load.stamp[2] = disk.meta
  BY <1>2
<1>5. load.stamp[1] = load.data /\ load.stamp[2] = load.data /\ load.data > 0
  BY <1>1, <1>3, <1>4, SMT
<1>6. load.data \in Arts
  BY <1>3, <1>5, ServingConstants, SMT DEF Arts
<1>7. ASSUME registry # None PROVE registry.art < load.data
  <2>1. stamps \in Stamps /\ Within(<<registry.art, registry.art>>, stamps) /\ Within(stamps, load.stamp)
    BY <1>1, <1>7 DEF ServingInv, StampInv, TypeOK, LoadTypes
  <2>2. stamps[1] \in Int /\ stamps[2] \in Int /\ stamps = <<stamps[1], stamps[2]>>
    BY <2>1, Numbers
  <2>3. registry.art \in Int
    BY <1>7, ServingConstants, SMT DEF ServingInv, TypeOK, LoadTypes, Records, Arts
  <2>4. ~(stamps[1] = load.data /\ stamps[2] = load.data)
    BY <1>1, <1>3, <1>5, <2>2
  <2>q. QED
    BY <1>3, <1>5, <2>1, <2>2, <2>3, <2>4, SMT DEF Within
<1>q. QED
  BY <1>1, <1>3, <1>5, <1>6, <1>7

(* With no reload in progress the reload's invariant asks little.          *)
LEMMA NoLoadKeeps ==
  ASSUME ServingInv, load' = NoLoad, UNCHANGED disk, stamps' # None => Within(stamps', OnDisk)
  PROVE  LoadInv' /\ NoLoad \in Loads
<1>1. 0 \in 0 .. MaxArt
  BY ServingConstants, SMT
<1>2. NoLoad \in Loads /\ NoLoad.pc = "off" /\ NoLoad.by = None /\ NoLoad.pkl = 0
  BY <1>1 DEF NoLoad, Loads
<1>3. 0 <= disk.pkl
  BY Numbers, SMT
<1>q. QED
  BY <1>2, <1>3, ServingConstants DEF LoadInv, OnDisk, Within

(* The old record is retired, and released at once when nobody holds it.   *)
LEMMA InstallKeeps ==
  ASSUME ServingInv, NEW r \in Records, Install(r), \A a \in Arts : Holders(a)' = Holders(a),
         registry # None => registry.art < r.art
  PROVE  LifeInv' /\ UNCHANGED refs /\ registry' = r /\ retired' \subseteq Arts /\ freed' \subseteq Arts
<1>1. registry' = r /\ UNCHANGED refs
  BY DEF Install
<1>2. LifeInv /\ registry \in Records \cup {None} /\ retired \subseteq Arts /\ None \notin Records
  BY ServingConstants DEF ServingInv, TypeOK, LoadTypes, UseTypes
<1>3. \A a \in Arts : refs'[a] = Cardinality(Holders(a)')
  BY <1>1, <1>2 DEF LifeInv
<1>4. CASE registry = None
  <2>1. retired = {} /\ UNCHANGED <<retired, freed>>
    BY <1>2, <1>4 DEF LifeInv, Install
  <2>q. QED
    BY <1>1, <1>2, <1>3, <2>1 DEF LifeInv
<1>5. CASE registry # None
  <2>1. /\ registry.art \in Arts /\ retired' = retired \cup {registry.art}
        /\ freed' = IF Released(registry.art) THEN freed \cup {registry.art} ELSE freed
    BY <1>2, <1>5 DEF Install, Records
  <2>2. freed' = {a \in retired' : refs'[a] = 0}
    BY <1>1, <1>2, <2>1 DEF LifeInv, Released
  <2>3. ASSUME NEW a \in retired' PROVE registry' # None /\ a < registry'.art
    <3>1. CASE a = registry.art
      BY <1>1, <1>2, <1>5, <3>1
    <3>2. CASE a \in retired
      <4>1. a < registry.art /\ a \in Arts /\ registry.art \in Arts /\ r.art \in Arts
        BY <1>2, <2>1, <3>2 DEF LifeInv, Records
      <4>2. a < r.art
        BY <1>5, <4>1, ServingConstants, SMT DEF Arts
      <4>q. QED
        BY <1>1, <1>2, <4>2
    <3>q. QED
      BY <2>1, <3>1, <3>2
  <2>4. retired' \subseteq Arts /\ freed' \subseteq Arts
    BY <1>2, <2>1, <2>2
  <2>q. QED
    BY <1>1, <1>3, <2>2, <2>3, <2>4 DEF LifeInv
<1>q. QED
  BY <1>4, <1>5

(* The last stat: the pair is installed, or the files moved and it is not. *)
LEMMA LoadSettlesKeeps ==
  ASSUME ServingInv, LoadSettles
  PROVE  ServingInv'
<1>1. LoadOnly /\ LoadEnds /\ UNCHANGED faults /\ load.pc = "settled"
  BY DEF LoadSettles
<1>2. UNCHANGED <<pa, live, disk, trained, job, plock, window, rlock>>
  BY <1>1 DEF LoadOnly, world, store
<1>3. CASE ~Unchanged
  <2>1. UNCHANGED <<stamps, retry, registry>> /\ UNCHANGED records
    BY <1>3 DEF LoadSettles, records
  <2>2. StampInv' /\ (stamps' # None => Within(stamps', OnDisk))
    BY <1>2, <2>1 DEF ServingInv, StampInv, LoadInv, Within, OnDisk
  <2>q. QED
    BY <1>1, <2>1, <2>2, LoadEndKeeps DEF ServingInv, TypeOK, LoadTypes
<1>4. CASE Unchanged
  <2> DEFINE r == [art |-> load.data, label |-> load.meta]
  <2>1. stamps' = load.stamp /\ retry' = None /\ Install(r)
    BY <1>4 DEF LoadSettles
  <2>2. /\ load.meta = load.data /\ load.data \in Arts
        /\ load.stamp[1] = load.data /\ load.stamp[2] = load.data
        /\ (registry # None => registry.art < load.data)
    BY <1>1, <1>4, InstalledIsNewer
  <2>3. r \in Records /\ r.art = load.data /\ r.label = load.data /\ r = [art |-> load.data, label |-> load.data]
    BY <2>2 DEF Records
  <2> HIDE DEF r
  <2>4. CallerGoesOn /\ load' = NoLoad /\ up' \in BOOLEAN
    BY <1>1, LoadEndsGoesOn
  <2>5. ReqInv' /\ \A a \in Arts : Holders(a)' = Holders(a)
    BY <1>2, <2>4, RequestsKeep
  <2>6. /\ LifeInv' /\ UNCHANGED refs /\ registry' = r
        /\ retired' \subseteq Arts /\ freed' \subseteq Arts
    BY <2>1, <2>2, <2>3, <2>5, InstallKeeps
  <2>7. load.stamp \in Stamps /\ load.stamp # None /\ Within(load.stamp, OnDisk)
    BY <1>1, ServingConstants DEF ServingInv, LoadInv
  <2>8. LoadInv' /\ NoLoad \in Loads
    BY <1>2, <2>1, <2>4, <2>7, NoLoadKeeps
  <2>9. StampInv'
    <3>1. load.data <= load.data
      BY Numbers, SMT
    <3>q. QED
      BY <2>1, <2>2, <2>3, <2>6, <2>7, <3>1 DEF StampInv, Within
  <2>10. TypeOK'
    BY <1>1, <1>2, <2>1, <2>3, <2>4, <2>6, <2>7, <2>8
       DEF ServingInv, TypeOK, StoreTypes, LoadTypes, UseTypes, CallerGoesOn
  <2>11. PairInv' /\ EvidenceInv'
    BY <1>2 DEF ServingInv, PairInv, EvidenceInv, Same
  <2>q. QED
    BY <2>5, <2>6, <2>8, <2>9, <2>10, <2>11 DEF ServingInv
<1>q. QED
  BY <1>3, <1>4

(* Every step of a reload.                                                 *)
LEMMA LoadKeeps ==
  ASSUME ServingInv, Load
  PROVE  ServingInv'
BY StatArtifactKeeps, LoadNeededKeeps, ReadBytesKeeps, ReadSidecarKeeps, LoadSettlesKeeps DEF Load

-----------------------------------------------------------------------------
(* Steps of a request                                                      *)

(* A step of one request: what has to be shown of it.                      *)
LEMMA RequestStepKeeps ==
  ASSUME ServingInv, ReqOnly, NEW c \in Clients, NEW q \in Reqs, req' = [req EXCEPT ![c] = q],
         UNCHANGED registry, load' \in Loads, LoadInv',
         refs' \in [Arts -> Int], retired' \subseteq Arts, freed' \subseteq Arts, LifeInv',
         window' \in [Arts -> Clients \cup {None}], rlock' \in [Arts -> Clients \cup {None}],
         \A d \in Clients \ {c} : req[d].pc = "infer" =>
           rlock'[req[d].rec.art] = d /\ (~req[d].exp => window'[req[d].rec.art] = d),
         ReqHas(c)'
  PROVE  ServingInv'
<1>1. UNCHANGED <<pa, live, disk, trained, job, plock, stamps, retry, up, faults>>
  BY DEF ReqOnly, world, store
<1>2. req' \in [Clients -> Reqs] /\ req'[c] = q /\ \A d \in Clients \ {c} : req'[d] = req[d]
  BY DEF ServingInv, TypeOK, UseTypes
<1>3. TypeOK'
  BY <1>1, <1>2 DEF ServingInv, TypeOK, StoreTypes, LoadTypes, UseTypes
<1>4. PairInv' /\ EvidenceInv'
  BY <1>1 DEF ServingInv, PairInv, EvidenceInv, Same
<1>5. StampInv'
  BY <1>1 DEF ServingInv, StampInv, Within
<1>6. ReqInv'
  <2>1. ASSUME NEW d \in Clients \ {c} PROVE ReqHas(d)'
    <3>1. ReqHas(d) /\ req'[d] = req[d]
      BY <1>2 DEF ServingInv, ReqInv
    <3>q. QED
      BY <1>1, <3>1 DEF ReqHas, Same
  <2>q. QED
    BY <2>1 DEF ReqInv
<1>q. QED
  BY <1>3, <1>4, <1>5, <1>6 DEF ServingInv

(* A reload in progress is not disturbed by the steps of other requests.   *)
LEMMA LoadAside ==
  ASSUME ServingInv, ReqOnly, UNCHANGED load, NEW c \in Clients, NEW q, req' = [req EXCEPT ![c] = q],
         req[c].pc # "loading"
  PROVE  LoadInv' /\ load' \in Loads
<1>1. UNCHANGED <<disk, stamps>>
  BY DEF ReqOnly, store
<1>2. LoadInv /\ load \in Loads /\ req \in [Clients -> Reqs]
  BY DEF ServingInv, TypeOK, LoadTypes, UseTypes
<1>3. load.by \in Clients => req'[load.by].pc = "loading"
  BY <1>2 DEF LoadInv
<1>q. QED
  BY <1>1, <1>2, <1>3 DEF LoadInv, Within, OnDisk

(* A step of a request that holds no record before or after it.            *)
LEMMA UnpinnedStepKeeps ==
  ASSUME ServingInv, ReqOnly, NEW c \in Clients, NEW q \in Reqs, req' = [req EXCEPT ![c] = q],
         UNCHANGED <<window, rlock, records>>, LoadInv', load' \in Loads,
         req[c].rec = None, q.rec = None, q.out = None, q.pc \notin {"lock", "infer", "answer"},
         ~q.exp /\ q.pc \notin {"idle", "read"} => q.sig = q.ref
  PROVE  ServingInv'
<1>1. UNCHANGED <<registry, refs, retired, freed>>
  BY DEF records
<1>2. req' \in [Clients -> Reqs] /\ req'[c] = q /\ \A d \in Clients \ {c} : req'[d] = req[d]
  BY DEF ServingInv, TypeOK, UseTypes
<1>3. LifeInv'
  <2>1. \A a \in Arts : Holders(a)' = Holders(a)
    BY <1>2 DEF Holders
  <2>q. QED
    BY <1>1, <2>1 DEF ServingInv, LifeInv
<1>4. ReqHas(c)'
  BY <1>2 DEF ReqHas
<1>5. \A d \in Clients \ {c} : req[d].pc = "infer" =>
        rlock'[req[d].rec.art] = d /\ (~req[d].exp => window'[req[d].rec.art] = d)
  BY DEF ServingInv, ReqInv, ReqHas
<1>q. QED
  BY <1>1, <1>3, <1>4, <1>5, RequestStepKeeps DEF ServingInv, TypeOK, UseTypes

(* The idle request has its type.                                          *)
LEMMA NoReqIsReq ==
  NoReq \in Reqs /\ NoReq.pc = "idle" /\ NoReq.rec = None /\ NoReq.out = None /\ NoReq.exp = FALSE
BY DEF NoReq, Reqs

(* A client that asks starts from a request without a record or an answer. *)
LEMMA AsksKeep ==
  ASSUME ServingInv, NEW c \in Clients, Ask(c) \/ AskExperiment(c)
  PROVE  ServingInv'
<1>1. /\ ReqOnly /\ UNCHANGED <<window, rlock, records>> /\ UNCHANGED load /\ req[c].pc = "idle"
      /\ req[c].rec = None
  BY DEF Ask, AskExperiment, ServingInv, ReqInv, ReqHas
<1>2. Compiled \in Signals
  BY DEF ServingInv, TypeOK, StoreTypes, Compiled, Signals
<1>3. CASE Ask(c)
  <2> DEFINE q == [NoReq EXCEPT !.pc = "read", !.ref = Compiled]
  <2>1. q \in Reqs /\ q.rec = None /\ q.out = None /\ q.pc = "read"
    BY <1>2, NoReqIsReq DEF Reqs
  <2>2. req' = [req EXCEPT ![c] = q]
    BY <1>3 DEF Ask
  <2> HIDE DEF q
  <2>q. QED
    BY <1>1, <2>1, <2>2, LoadAside, UnpinnedStepKeeps
<1>4. CASE AskExperiment(c)
  <2> DEFINE q == [NoReq EXCEPT !.pc = "pin", !.exp = TRUE]
  <2>1. q \in Reqs /\ q.rec = None /\ q.out = None /\ q.pc = "pin" /\ q.exp = TRUE
    BY NoReqIsReq DEF Reqs
  <2>2. req' = [req EXCEPT ![c] = q]
    BY <1>4 DEF AskExperiment
  <2> HIDE DEF q
  <2>q. QED
    BY <1>1, <2>1, <2>2, LoadAside, UnpinnedStepKeeps
<1>q. QED
  BY <1>3, <1>4

(* A request that ends without a record.                                   *)
LEMMA RefusedKeeps ==
  ASSUME ServingInv, ReqOnly, NEW c \in Clients, req' = [req EXCEPT ![c] = NoReq],
         UNCHANGED <<window, rlock, records>>, UNCHANGED load, req[c].rec = None, req[c].pc # "loading"
  PROVE  ServingInv'
BY NoReqIsReq, LoadAside, UnpinnedStepKeeps

(* The two cluster reads of a request (autoscaler, then target).           *)
LEMMA ReadsKeep ==
  ASSUME ServingInv, NEW c \in Clients, ReadAutoscaler(c) \/ ReadTarget(c)
  PROVE  ServingInv'
<1>1. /\ ReqOnly /\ UNCHANGED <<window, rlock, records>> /\ UNCHANGED load
      /\ req[c].pc \in {"read", "target"} /\ req[c].rec = None /\ req[c].out = None /\ req[c] \in Reqs
  BY DEF ReadAutoscaler, ReadTarget, ServingInv, ReqInv, ReqHas, TypeOK, UseTypes
<1>2. CASE req' = [req EXCEPT ![c] = NoReq]
  BY <1>1, <1>2, RefusedKeeps
<1>3. CASE ReadAutoscaler(c) /\ Compiled = req[c].ref
           /\ req' = [req EXCEPT ![c].pc = "target", ![c].sig = Compiled]
  <2> DEFINE q == [req[c] EXCEPT !.pc = "target", !.sig = Compiled]
  <2>1. Compiled \in Signals
    BY DEF ServingInv, TypeOK, StoreTypes, Compiled, Signals
  <2>2. q \in Reqs /\ q.rec = None /\ q.out = None /\ q.pc = "target" /\ q.sig = q.ref
    BY <1>1, <1>3, <2>1 DEF Reqs
  <2>3. req' = [req EXCEPT ![c] = q]
    BY <1>3 DEF ServingInv, TypeOK, UseTypes
  <2> HIDE DEF q
  <2>q. QED
    BY <1>1, <2>2, <2>3, LoadAside, UnpinnedStepKeeps
<1>4. CASE ReadTarget(c) /\ Goes(c, "reload")
  <2> DEFINE q == [req[c] EXCEPT !.pc = "reload"]
  <2>1. /\ q \in Reqs /\ q.rec = None /\ q.out = None /\ q.pc = "reload"
        /\ q.exp = req[c].exp /\ q.sig = req[c].sig /\ q.ref = req[c].ref
    BY <1>1 DEF Reqs
  <2>2. ~req[c].exp => req[c].sig = req[c].ref
    BY <1>4 DEF ServingInv, ReqInv, ReqHas, ReadTarget
  <2>3. req' = [req EXCEPT ![c] = q]
    BY <1>4 DEF Goes
  <2> HIDE DEF q
  <2>q. QED
    BY <1>1, <2>1, <2>2, <2>3, LoadAside, UnpinnedStepKeeps
<1>q. QED
  BY <1>2, <1>3, <1>4 DEF ReadAutoscaler, ReadTarget

(* A request starts the reload, or goes on without it when one runs.       *)
LEMMA ReloadKeeps ==
  ASSUME ServingInv, NEW c \in Clients, Reload(c)
  PROVE  ServingInv'
<1>1. /\ ReqOnly /\ UNCHANGED <<window, rlock, records>> /\ UNCHANGED <<disk, stamps>>
      /\ req[c].pc = "reload" /\ req[c].rec = None /\ req[c].out = None /\ req[c] \in Reqs
      /\ (~req[c].exp => req[c].sig = req[c].ref)
  BY DEF Reload, ReqOnly, store, ServingInv, ReqInv, ReqHas, TypeOK, UseTypes
<1>2. CASE Goes(c, "pin") /\ UNCHANGED load
  <2> DEFINE q == [req[c] EXCEPT !.pc = "pin"]
  <2>1. /\ q \in Reqs /\ q.rec = None /\ q.out = None /\ q.pc = "pin"
        /\ q.exp = req[c].exp /\ q.sig = req[c].sig /\ q.ref = req[c].ref
    BY <1>1 DEF Reqs
  <2>2. req' = [req EXCEPT ![c] = q]
    BY <1>2 DEF Goes
  <2> HIDE DEF q
  <2>q. QED
    BY <1>1, <1>2, <2>1, <2>2, LoadAside, UnpinnedStepKeeps
<1>3. CASE load.by = None /\ load' = [NoLoad EXCEPT !.by = c, !.pc = "stat"] /\ Goes(c, "loading")
  <2> DEFINE q == [req[c] EXCEPT !.pc = "loading"]
  <2>1. /\ q \in Reqs /\ q.rec = None /\ q.out = None /\ q.pc = "loading"
        /\ q.exp = req[c].exp /\ q.sig = req[c].sig /\ q.ref = req[c].ref
    BY <1>1 DEF Reqs
  <2>2. req' = [req EXCEPT ![c] = q]
    BY <1>3 DEF Goes
  <2> HIDE DEF q
  <2>3. 0 \in 0 .. MaxArt /\ 0 <= disk.pkl
    BY ServingConstants, Numbers, SMT
  <2>4. load' \in Loads /\ load'.by = c /\ load'.pc = "stat" /\ load'.pkl = 0
    BY <1>3, <2>3 DEF NoLoad, Loads
  <2>5. req'[c].pc = "loading"
    BY <2>1, <2>2 DEF ServingInv, TypeOK, UseTypes
  <2>6. c # None
    BY ServingConstants
  <2>7. LoadInv'
    BY <1>1, <2>3, <2>4, <2>5, <2>6 DEF ServingInv, LoadInv, Within, OnDisk
  <2>q. QED
    BY <1>1, <2>1, <2>2, <2>4, <2>7, UnpinnedStepKeeps
<1>q. QED
  BY <1>2, <1>3 DEF Reload

(* One request more or less among the holders of a record.                 *)
LEMMA HolderCounts ==
  ASSUME ServingInv, NEW a \in Arts, NEW c \in Clients
  PROVE  /\ Cardinality(Holders(a)) \in Nat
         /\ Holders(a) = {} => Cardinality(Holders(a)) = 0
         /\ c \notin Holders(a) => Cardinality(Holders(a) \cup {c}) = Cardinality(Holders(a)) + 1
         /\ c \in Holders(a) => /\ Cardinality(Holders(a) \ {c}) = Cardinality(Holders(a)) - 1
                                /\ Cardinality(Holders(a)) > 0
<1>1. IsFiniteSet(Holders(a))
  BY FS_Subset, ServingConstants DEF Holders
<1>2. Cardinality(Holders(a)) \in Nat
  BY <1>1, FS_CardinalityType
<1>3. Holders(a) = {} => Cardinality(Holders(a)) = 0
  BY FS_EmptySet
<1>4. c \notin Holders(a) => Cardinality(Holders(a) \cup {c}) = Cardinality(Holders(a)) + 1
  BY <1>1, FS_AddElement
<1>5. ASSUME c \in Holders(a)
      PROVE  /\ Cardinality(Holders(a) \ {c}) = Cardinality(Holders(a)) - 1
             /\ Cardinality(Holders(a)) > 0
  <2>1. Cardinality(Holders(a) \ {c}) = Cardinality(Holders(a)) - 1
    BY <1>1, <1>5, FS_RemoveElement
  <2>2. Cardinality(Holders(a)) # 0
    BY <1>1, <1>5, FS_EmptySet
  <2>q. QED
    BY <1>2, <2>1, <2>2, SMT
<1>q. QED
  BY <1>2, <1>3, <1>4, <1>5

(* The record a request pins is installed, so it is not retired.           *)
LEMMA PinnedLife ==
  ASSUME ServingInv, NEW c \in Clients, registry # None, Pinned(registry),
         req[c].rec = None,
         \A a \in Arts : Holders(a)' = IF a = registry.art THEN Holders(a) \cup {c} ELSE Holders(a)
  PROVE  LifeInv' /\ refs' \in [Arts -> Int]
<1>1. /\ registry \in Records /\ registry.art \in Arts /\ refs \in [Arts -> Int]
      /\ retired \subseteq Arts /\ LifeInv
  BY DEF ServingInv, TypeOK, LoadTypes, UseTypes, Records
<1>2. UNCHANGED <<registry, retired, freed>> /\ refs' = [refs EXCEPT ![registry.art] = @ + 1]
  BY DEF Pinned
<1>3. registry.art \notin retired
  <2>1. ~(registry.art < registry.art)
    BY <1>1, ServingConstants, SMT DEF Arts
  <2>q. QED
    BY <1>1, <2>1 DEF LifeInv
<1>4. refs[registry.art] + 1 \in Int
  BY <1>1, SMT
<1>5. /\ refs' \in [Arts -> Int] /\ refs'[registry.art] = refs[registry.art] + 1
      /\ \A a \in Arts \ {registry.art} : refs'[a] = refs[a]
  BY <1>1, <1>2, <1>4
<1>6. ASSUME NEW a \in Arts PROVE refs'[a] = Cardinality(Holders(a)')
  <2>1. CASE a = registry.art
    <3>1. c \notin Holders(a)
      BY DEF Holders
    <3>q. QED
      BY <1>1, <1>5, <2>1, <3>1, HolderCounts DEF LifeInv
  <2>2. CASE a # registry.art
    BY <1>1, <1>5, <2>2 DEF LifeInv
  <2>q. QED
    BY <2>1, <2>2
<1>7. freed' = {a \in retired' : refs'[a] = 0}
  BY <1>1, <1>2, <1>3, <1>5 DEF LifeInv
<1>q. QED
  BY <1>1, <1>2, <1>5, <1>6, <1>7 DEF LifeInv

(* Pinning counts the caller among the holders of the installed record.    *)
LEMMA PinKeeps ==
  ASSUME ServingInv, NEW c \in Clients, Pin(c)
  PROVE  ServingInv'
<1>1. /\ ReqOnly /\ UNCHANGED <<window, rlock>> /\ UNCHANGED load /\ UNCHANGED trained
      /\ req[c].pc = "pin" /\ req[c].rec = None /\ req[c].out = None /\ req[c] \in Reqs
      /\ (~req[c].exp => req[c].sig = req[c].ref)
  BY DEF Pin, ReqOnly, store, ServingInv, ReqInv, ReqHas, TypeOK, UseTypes
<1>2. CASE req' = [req EXCEPT ![c] = NoReq] /\ UNCHANGED records
  BY <1>1, <1>2, RefusedKeeps
<1>3. CASE /\ registry # None /\ Compatible(c, registry) /\ Pinned(registry)
           /\ req' = [req EXCEPT ![c].rec = registry, ![c].pc = "lock"]
  <2> DEFINE q == [req[c] EXCEPT !.rec = registry, !.pc = "lock"]
  <2>1. registry \in Records /\ registry.art \in Arts /\ registry.label = registry.art
    BY <1>3 DEF ServingInv, TypeOK, LoadTypes, StampInv, Records
  <2>2. /\ q \in Reqs /\ q.rec = registry /\ q.out = None /\ q.pc = "lock"
        /\ q.exp = req[c].exp /\ q.sig = req[c].sig /\ q.ref = req[c].ref
    BY <1>1, <2>1 DEF Reqs
  <2>3. req \in [Clients -> Reqs]
    BY DEF ServingInv, TypeOK, UseTypes
  <2>4. req' = [req EXCEPT ![c] = q]
    BY <1>3, <2>3
  <2> HIDE DEF q
  <2>5. req'[c] = q /\ \A d \in Clients \ {c} : req'[d] = req[d]
    BY <2>3, <2>4
  <2>6. \A a \in Arts : Holders(a)' = IF a = registry.art THEN Holders(a) \cup {c} ELSE Holders(a)
    BY <1>1, <1>3, <2>2, <2>5 DEF Holders
  <2>7. LifeInv' /\ refs' \in [Arts -> Int] /\ UNCHANGED <<registry, retired, freed>>
    BY <1>1, <1>3, <2>6, PinnedLife DEF Pinned
  <2>8. registry.art <= Len(trained)
    <3>1. /\ stamps \in Stamps /\ Within(<<registry.art, registry.art>>, stamps)
          /\ Within(stamps, OnDisk) /\ disk.pkl = Len(trained)
      BY <1>3 DEF ServingInv, TypeOK, LoadTypes, StampInv, LoadInv, PairInv
    <3>2. stamps[1] \in Int /\ disk.pkl \in Int
      BY <3>1, Numbers
    <3>3. registry.art \in Int
      BY <2>1, ServingConstants, SMT DEF Arts
    <3>q. QED
      BY <3>1, <3>2, <3>3, SMT DEF Within, OnDisk
  <2>9. ~req[c].exp => Same(registry.art, req[c].ref)
    BY <1>1, <1>3, <2>1 DEF Compatible
  <2>10. ReqHas(c)'
    BY <1>1, <1>3, <2>1, <2>2, <2>5, <2>8, <2>9 DEF ReqHas, Same
  <2>11. \A d \in Clients \ {c} : req[d].pc = "infer" =>
           rlock'[req[d].rec.art] = d /\ (~req[d].exp => window'[req[d].rec.art] = d)
    BY <1>1 DEF ServingInv, ReqInv, ReqHas
  <2>12. LoadInv' /\ load' \in Loads
    BY <1>1, <2>4, LoadAside
  <2>13. retired' \subseteq Arts /\ freed' \subseteq Arts
         /\ window' \in [Arts -> Clients \cup {None}] /\ rlock' \in [Arts -> Clients \cup {None}]
    BY <1>1, <2>7 DEF ServingInv, TypeOK, UseTypes
  <2>q. QED
    BY <1>1, <2>2, <2>4, <2>7, <2>10, <2>11, <2>12, <2>13, RequestStepKeeps
<1>q. QED
  BY <1>2, <1>3 DEF Pin

(* A request keeps its record: the holders stay the same.                  *)
LEMMA SameHolders ==
  ASSUME ServingInv, UNCHANGED records, NEW c \in Clients, NEW q \in Reqs, req' = [req EXCEPT ![c] = q],
         q.rec = req[c].rec
  PROVE  /\ LifeInv' /\ UNCHANGED registry
         /\ refs' \in [Arts -> Int] /\ retired' \subseteq Arts /\ freed' \subseteq Arts
<1>1. UNCHANGED <<registry, refs, retired, freed>>
  BY DEF records
<1>2. req'[c] = q /\ \A d \in Clients \ {c} : req'[d] = req[d]
  BY DEF ServingInv, TypeOK, UseTypes
<1>3. \A a \in Arts : Holders(a)' = Holders(a)
  BY <1>2 DEF Holders
<1>q. QED
  BY <1>1, <1>3 DEF ServingInv, LifeInv, TypeOK, UseTypes

(* The window is set under the record's own lock.                          *)
LEMMA SetWindowKeeps ==
  ASSUME ServingInv, NEW c \in Clients, SetWindow(c)
  PROVE  ServingInv'
<1> DEFINE a == req[c].rec.art
           q == [req[c] EXCEPT !.pc = "infer"]
<1>1. /\ ReqOnly /\ UNCHANGED records /\ UNCHANGED load /\ UNCHANGED trained
      /\ req[c].pc = "lock" /\ rlock[a] = None /\ rlock' = [rlock EXCEPT ![a] = c]
      /\ window' = (IF req[c].exp THEN window ELSE [window EXCEPT ![a] = c])
      /\ req' = [req EXCEPT ![c] = q]
  BY DEF SetWindow, LockFree, Goes, ReqOnly, store
<1>2. /\ req[c] \in Reqs /\ req \in [Clients -> Reqs] /\ ReqHas(c) /\ req[c].rec \in Records /\ a \in Arts
      /\ window \in [Arts -> Clients \cup {None}] /\ rlock \in [Arts -> Clients \cup {None}]
  BY <1>1 DEF ServingInv, ReqInv, ReqHas, TypeOK, UseTypes, Reqs, Records
<1>3. /\ q \in Reqs /\ q.rec = req[c].rec /\ q.out = req[c].out /\ q.pc = "infer"
      /\ q.exp = req[c].exp /\ q.sig = req[c].sig /\ q.ref = req[c].ref
  BY <1>2 DEF Reqs
<1> HIDE DEF q
<1>4. req'[c] = q
  BY <1>1, <1>2
<1>5. /\ rlock' \in [Arts -> Clients \cup {None}] /\ rlock'[a] = c
      /\ \A b \in Arts \ {a} : rlock'[b] = rlock[b]
  BY <1>1, <1>2
<1>6. /\ window' \in [Arts -> Clients \cup {None}] /\ (~req[c].exp => window'[a] = c)
      /\ \A b \in Arts \ {a} : window'[b] = window[b]
  BY <1>1, <1>2
<1>7. ReqHas(c)'
  BY <1>1, <1>2, <1>3, <1>4, <1>5, <1>6 DEF ReqHas, Same
<1>8. ASSUME NEW d \in Clients \ {c}, req[d].pc = "infer"
      PROVE  rlock'[req[d].rec.art] = d /\ (~req[d].exp => window'[req[d].rec.art] = d)
  <2>1. ReqHas(d) /\ req[d] \in Reqs /\ d # None
    BY <1>2, ServingConstants DEF ServingInv, ReqInv
  <2>2. req[d].rec \in Records /\ req[d].rec.art \in Arts
    BY <1>8, <2>1 DEF ReqHas, Reqs, Records
  <2>3. rlock[req[d].rec.art] = d
    BY <1>8, <2>1 DEF ReqHas
  <2>4. req[d].rec.art # a
    BY <1>1, <2>1, <2>3
  <2>q. QED
    BY <1>5, <1>6, <1>8, <2>1, <2>2, <2>3, <2>4 DEF ReqHas
<1>9. LoadInv' /\ load' \in Loads
  BY <1>1, LoadAside
<1>10. /\ LifeInv' /\ UNCHANGED registry
       /\ refs' \in [Arts -> Int] /\ retired' \subseteq Arts /\ freed' \subseteq Arts
  BY <1>1, <1>3, SameHolders
<1>q. QED
  BY <1>1, <1>3, <1>5, <1>6, <1>7, <1>8, <1>9, <1>10, RequestStepKeeps

(* Inference reads the window its own request set, under the same lock.    *)
LEMMA InferKeeps ==
  ASSUME ServingInv, NEW c \in Clients, Infer(c)
  PROVE  ServingInv'
<1> DEFINE a == req[c].rec.art
           out == [rec |-> req[c].rec, win |-> IF req[c].exp THEN c ELSE window[a]]
           q == [req[c] EXCEPT !.pc = "answer", !.out = out]
<1>1. /\ ReqOnly /\ UNCHANGED records /\ UNCHANGED load /\ UNCHANGED <<trained, window>>
      /\ req[c].pc = "infer" /\ rlock' = [rlock EXCEPT ![a] = None]
      /\ req' = [req EXCEPT ![c].pc = "answer", ![c].out = out]
  BY DEF Infer, ReqOnly, store
<1>2. /\ req[c] \in Reqs /\ req \in [Clients -> Reqs] /\ ReqHas(c) /\ req[c].rec \in Records /\ a \in Arts
      /\ window \in [Arts -> Clients \cup {None}] /\ rlock \in [Arts -> Clients \cup {None}]
  BY <1>1 DEF ServingInv, ReqInv, ReqHas, TypeOK, UseTypes, Reqs, Records
<1>3. rlock[a] = c /\ (~req[c].exp => window[a] = c)
  BY <1>1, <1>2 DEF ReqHas
<1>4. out \in Answers /\ out.rec = req[c].rec /\ out.win = c
  BY <1>2, <1>3 DEF Answers
<1>5. /\ q \in Reqs /\ q.rec = req[c].rec /\ q.out = out /\ q.pc = "answer"
      /\ q.exp = req[c].exp /\ q.sig = req[c].sig /\ q.ref = req[c].ref
  <2> HIDE DEF out
  <2>q. QED
    BY <1>2, <1>4 DEF Reqs
<1>6. req' = [req EXCEPT ![c] = q]
  <2> HIDE DEF out
  <2>q. QED
    BY <1>1, <1>2
<1> HIDE DEF q, out
<1>7. req'[c] = q
  BY <1>2, <1>6
<1>8. rlock' \in [Arts -> Clients \cup {None}] /\ \A b \in Arts \ {a} : rlock'[b] = rlock[b]
  BY <1>1, <1>2
<1>9. ReqHas(c)'
  BY <1>1, <1>2, <1>4, <1>5, <1>7 DEF ReqHas, Same
<1>10. ASSUME NEW d \in Clients \ {c}, req[d].pc = "infer"
       PROVE  rlock'[req[d].rec.art] = d /\ (~req[d].exp => window'[req[d].rec.art] = d)
  <2>1. ReqHas(d) /\ req[d] \in Reqs
    BY <1>2 DEF ServingInv, ReqInv
  <2>2. req[d].rec \in Records /\ req[d].rec.art \in Arts
    BY <1>10, <2>1 DEF ReqHas, Reqs, Records
  <2>3. rlock[req[d].rec.art] = d
    BY <1>10, <2>1 DEF ReqHas
  <2>4. req[d].rec.art # a
    BY <1>3, <2>3
  <2>q. QED
    BY <1>1, <1>8, <1>10, <2>1, <2>2, <2>3, <2>4 DEF ReqHas
<1>11. LoadInv' /\ load' \in Loads
  BY <1>1, <1>6, LoadAside
<1>12. /\ LifeInv' /\ UNCHANGED registry
       /\ refs' \in [Arts -> Int] /\ retired' \subseteq Arts /\ freed' \subseteq Arts
  BY <1>1, <1>5, <1>6, SameHolders
<1>13. window' \in [Arts -> Clients \cup {None}]
  BY <1>1, <1>2
<1>q. QED
  BY <1>1, <1>5, <1>6, <1>8, <1>9, <1>10, <1>11, <1>12, <1>13, RequestStepKeeps

(* The last holder of a retired record releases it.                        *)
LEMMA UnpinLife ==
  ASSUME ServingInv, NEW c \in Clients, NEW r \in Records, req[c].rec = r, Unpin(r),
         \A a \in Arts : Holders(a)' = IF a = r.art THEN Holders(a) \ {c} ELSE Holders(a)
  PROVE  LifeInv' /\ refs' \in [Arts -> Int] /\ freed' \subseteq Arts /\ UNCHANGED <<registry, retired>>
<1>1. r.art \in Arts /\ refs \in [Arts -> Int] /\ retired \subseteq Arts /\ freed \subseteq Arts /\ LifeInv
  BY DEF ServingInv, TypeOK, UseTypes, Records
<1>2. /\ UNCHANGED <<registry, retired>> /\ refs' = [refs EXCEPT ![r.art] = @ - 1]
      /\ freed' = IF r.art \in retired /\ refs[r.art] = 1 THEN freed \cup {r.art} ELSE freed
  BY DEF Unpin
<1>3. refs[r.art] - 1 \in Int
  BY <1>1, SMT
<1>4. /\ refs' \in [Arts -> Int] /\ refs'[r.art] = refs[r.art] - 1
      /\ \A a \in Arts \ {r.art} : refs'[a] = refs[a]
  BY <1>1, <1>2, <1>3
<1>5. c \in Holders(r.art)
  BY ServingConstants DEF Holders
<1>6. /\ refs[r.art] = Cardinality(Holders(r.art)) /\ refs[r.art] > 0
      /\ Cardinality(Holders(r.art) \ {c}) = refs[r.art] - 1
  BY <1>1, <1>5, HolderCounts DEF LifeInv
<1>7. ASSUME NEW a \in Arts PROVE refs'[a] = Cardinality(Holders(a)')
  <2>1. CASE a = r.art
    BY <1>4, <1>6, <2>1
  <2>2. CASE a # r.art
    BY <1>1, <1>4, <2>2 DEF LifeInv
  <2>q. QED
    BY <2>1, <2>2
<1>8. freed' = {a \in retired' : refs'[a] = 0}
  <2>1. freed = {a \in retired : refs[a] = 0}
    BY <1>1 DEF LifeInv
  <2>2. refs[r.art] # 0 /\ (refs'[r.art] = 0 <=> refs[r.art] = 1)
    BY <1>1, <1>4, <1>6, SMT
  <2>q. QED
    BY <1>1, <1>2, <1>4, <2>1, <2>2
<1>9. freed' \subseteq Arts
  BY <1>1, <1>2
<1>q. QED
  BY <1>1, <1>2, <1>4, <1>7, <1>8, <1>9 DEF LifeInv

(* An answered request unpins, and the last holder releases the record.    *)
LEMMA AnswerKeeps ==
  ASSUME ServingInv, NEW c \in Clients, Answer(c)
  PROVE  ServingInv'
<1>1. /\ ReqOnly /\ UNCHANGED <<window, rlock>> /\ UNCHANGED load /\ req[c].pc = "answer"
      /\ req' = [req EXCEPT ![c] = NoReq] /\ Unpin(req[c].rec)
  BY DEF Answer
<1>2. req[c] \in Reqs /\ req \in [Clients -> Reqs] /\ req[c].rec \in Records
  BY <1>1 DEF ServingInv, ReqInv, ReqHas, TypeOK, UseTypes, Reqs
<1>3. req'[c] = NoReq /\ \A d \in Clients \ {c} : req'[d] = req[d]
  BY <1>1, <1>2
<1>4. \A a \in Arts : Holders(a)' = IF a = req[c].rec.art THEN Holders(a) \ {c} ELSE Holders(a)
  BY <1>3, NoReqIsReq DEF Holders
<1>5. LifeInv' /\ refs' \in [Arts -> Int] /\ freed' \subseteq Arts /\ UNCHANGED <<registry, retired>>
  BY <1>1, <1>2, <1>4, UnpinLife
<1>6. ReqHas(c)'
  BY <1>3, NoReqIsReq DEF ReqHas
<1>7. \A d \in Clients \ {c} : req[d].pc = "infer" =>
        rlock'[req[d].rec.art] = d /\ (~req[d].exp => window'[req[d].rec.art] = d)
  BY <1>1 DEF ServingInv, ReqInv, ReqHas
<1>8. LoadInv' /\ load' \in Loads
  BY <1>1, LoadAside
<1>9. retired' \subseteq Arts
      /\ window' \in [Arts -> Clients \cup {None}] /\ rlock' \in [Arts -> Clients \cup {None}]
  BY <1>1, <1>5 DEF ServingInv, TypeOK, UseTypes
<1>q. QED
  BY <1>1, <1>5, <1>6, <1>7, <1>8, <1>9, NoReqIsReq, RequestStepKeeps

(* Every step of a request.                                                *)
LEMMA ServeKeeps ==
  ASSUME ServingInv, NEW c \in Clients, Serve(c)
  PROVE  ServingInv'
BY ReadsKeep, ReloadKeeps, PinKeeps, SetWindowKeeps, InferKeeps, AnswerKeeps DEF Serve

-----------------------------------------------------------------------------
(* The start of the service, and the theorems                              *)

(* A service that has just started has nothing installed and nothing held. *)
Started ==
  /\ registry = None /\ refs = [a \in Arts |-> 0] /\ retired = {} /\ freed = {}
  /\ stamps = None /\ retry = None
  /\ load = [NoLoad EXCEPT !.by = Boot, !.pc = "stat"] /\ up = FALSE
  /\ req = [c \in Clients |-> NoReq]
  /\ window = [a \in Arts |-> None] /\ rlock = [a \in Arts |-> None]

(* A service that has just started satisfies the serving invariant.        *)
LEMMA StartedKeeps ==
  ASSUME Started, faults \in Nat, 0 <= disk.pkl
  PROVE  LoadTypes /\ UseTypes /\ LoadInv /\ StampInv /\ LifeInv /\ ReqInv
<1>1. 0 \in 0 .. MaxArt /\ 0 \in Int
  BY ServingConstants, SMT
<1>2. load \in Loads /\ load.by = Boot /\ load.pc = "stat" /\ load.pkl = 0
  BY <1>1 DEF Started, NoLoad, Loads
<1>3. LoadTypes
  BY <1>2 DEF Started, LoadTypes
<1>4. UseTypes
  BY <1>1, NoReqIsReq DEF Started, UseTypes
<1>5. LoadInv
  BY <1>2, ServingConstants DEF Started, LoadInv
<1>6. StampInv
  BY DEF Started, StampInv
<1>7. LifeInv
  <2>1. \A a \in Arts : Holders(a) = {}
    BY NoReqIsReq DEF Started, Holders
  <2>q. QED
    BY <2>1, FS_EmptySet DEF Started, LifeInv
<1>8. ReqInv
  BY NoReqIsReq DEF Started, ReqInv, ReqHas
<1>q. QED
  BY <1>3, <1>4, <1>5, <1>6, <1>7, <1>8

(* A restart forgets the process and keeps the files.                      *)
LEMMA RestartKeeps ==
  ASSUME ServingInv, Restart
  PROVE  ServingInv'
<1>1. Started' /\ UNCHANGED <<pa, live, disk, trained, job, plock, faults>>
  BY DEF Restart, Started, world, store
<1>2. faults' \in Nat /\ 0 <= disk'.pkl
  <2>1. 0 <= disk.pkl
    BY Numbers, SMT
  <2>q. QED
    BY <1>1, <2>1 DEF ServingInv, TypeOK, LoadTypes
<1>3. (Started /\ faults \in Nat /\ 0 <= disk.pkl =>
         LoadTypes /\ UseTypes /\ LoadInv /\ StampInv /\ LifeInv /\ ReqInv)'
  BY StartedKeeps, PTL
<1>4. StoreTypes' /\ PairInv' /\ EvidenceInv'
  BY <1>1 DEF ServingInv, TypeOK, StoreTypes, PairInv, EvidenceInv, Same
<1>q. QED
  BY <1>1, <1>2, <1>3, <1>4 DEF ServingInv, TypeOK

(* The initial states satisfy the invariant.                               *)
LEMMA InitHolds == Init => ServingInv
<1> SUFFICES ASSUME Init PROVE ServingInv
  OBVIOUS
<1>1. 0 \in 0 .. MaxArt /\ 0 \in Nat /\ 1 \in Nat /\ 0 <= MaxArt /\ 0 <= 0
  BY ServingConstants, SMT
<1>2. disk.pkl = 0 /\ disk.meta = 0 /\ trained = <<>> /\ job = [t \in Trainers |-> NoJob] /\ plock = None
  BY DEF Init
<1>3. Len(trained) = 0 /\ trained \in Seq(Trainings)
  BY <1>2, SMT
<1>4. StoreTypes
  BY <1>1, <1>2, <1>3, NoJobIsJob DEF Init, StoreTypes
<1>5. PairInv
  <2>1. \A t \in Trainers : job[t] = NoJob /\ plock # t
    BY <1>2, ServingConstants
  <2>q. QED
    BY <1>1, <1>2, <1>3, <2>1, NoJobIsJob DEF PairInv
<1>6. EvidenceInv
  <2>1. 1 .. Len(trained) = {}
    BY <1>3, SMT
  <2>q. QED
    BY <1>2, <2>1, NoJobIsJob DEF EvidenceInv
<1>7. Started /\ faults \in Nat /\ 0 <= disk.pkl
  BY <1>1, <1>2 DEF Init, Started
<1>q. QED
  BY <1>4, <1>5, <1>6, <1>7, StartedKeeps DEF ServingInv, TypeOK

(* Every step keeps the invariant.                                         *)
LEMMA NextKeeps == ServingInv /\ [Next]_vars => ServingInv'
<1> SUFFICES ASSUME ServingInv, [Next]_vars PROVE ServingInv'
  OBVIOUS
<1>1. CASE UNCHANGED vars
  <2>1. UNCHANGED <<pa, live, disk, trained, job, plock, registry, refs, retired, freed, stamps, retry, load,
                    up, req, window, rlock, faults>>
    BY <1>1 DEF vars, world, store, records, loading, using
  <2>2. TypeOK' /\ PairInv' /\ EvidenceInv'
    BY <2>1 DEF ServingInv, TypeOK, StoreTypes, LoadTypes, UseTypes, PairInv, EvidenceInv, Same
  <2>3. LoadInv' /\ StampInv'
    BY <2>1 DEF ServingInv, LoadInv, StampInv, Within, OnDisk
  <2>4. LifeInv' /\ ReqInv'
    BY <2>1 DEF ServingInv, LifeInv, Holders, ReqInv, ReqHas, Same
  <2>q. QED
    BY <2>2, <2>3, <2>4 DEF ServingInv
<1>2. CASE Next
  BY <1>2, ClusterKeeps, TrainKeeps, LoadKeeps, BackoffEndsKeeps, RestartKeeps, AsksKeep, ServeKeeps DEF Next
<1>q. QED
  BY <1>1, <1>2

(* The inductive invariant of publication, reload, pinning and forecast.   *)
THEOREM ServingInvariant == Spec => []ServingInv
BY InitHolds, NextKeeps, PTL DEF Spec

(* No model object is released while a forecast uses it and none is kept   *)
(* for ever, for any number of concurrent forecasts and reloads            *)
(* (ModelRegistry.install, pin, _retire in registry.py).                   *)
THEOREM PinsHold == Spec => []PinnedUntilDone
<1>1. ServingInv => PinnedUntilDone
  <2> SUFFICES ASSUME ServingInv PROVE PinnedUntilDone
    OBVIOUS
  <2>1. LifeInv /\ retired \subseteq Arts /\ freed \subseteq Arts
    BY DEF ServingInv, TypeOK, UseTypes
  <2>2. ASSUME NEW c \in Clients, req[c].rec # None PROVE req[c].rec.art \notin freed
    <3>1. req[c].rec.art \in Arts
      BY <2>2 DEF ServingInv, TypeOK, UseTypes, Reqs, Records
    <3>2. c \in Holders(req[c].rec.art)
      BY <2>2 DEF Holders
    <3>3. refs[req[c].rec.art] > 0
      BY <2>1, <3>1, <3>2, HolderCounts DEF LifeInv
    <3>4. refs[req[c].rec.art] # 0
      BY <3>3, SMT
    <3>q. QED
      BY <2>1, <3>4 DEF LifeInv
  <2>3. ASSUME NEW a \in retired, \A c \in Clients : req[c].rec = None \/ req[c].rec.art # a
        PROVE  a \in freed
    <3>1. Holders(a) = {} /\ a \in Arts
      BY <2>1, <2>3 DEF Holders
    <3>2. refs[a] = 0
      BY <2>1, <3>1, FS_EmptySet DEF LifeInv
    <3>q. QED
      BY <2>1, <3>2 DEF LifeInv
  <2>q. QED
    BY <2>2, <2>3 DEF PinnedUntilDone
<1>q. QED
  BY <1>1, ServingInvariant, PTL

(* A forecast answers its own window with a model trained for its own      *)
(* query and target, a recorded stamp means that the pair on disk is       *)
(* installed, and evidence is pooled within one signal, for any number of  *)
(* clients and of overlapping, dying jobs (_reload_locked,                 *)
(* LSTMPredictor.predict, previous_evidence).                              *)
THEOREM AnswersAreAttested == Spec => []AnswersAttested
<1>1. ServingInv => AnswersAttested
  <2> SUFFICES ASSUME ServingInv PROVE AnswersAttested
    OBVIOUS
  <2>1. OwnWindow
    BY DEF ServingInv, ReqInv, ReqHas, OwnWindow
  <2>2. AnswerAttested
    <3> SUFFICES ASSUME NEW c \in Clients, req[c].out # None, ~req[c].exp
                 PROVE  Same(req[c].out.rec.art, req[c].ref)
      BY DEF AnswerAttested
    <3>1. ReqHas(c)
      BY DEF ServingInv, ReqInv
    <3>q. QED
      BY <3>1 DEF ReqHas
  <2>3. StampMeansLoaded
    <3> SUFFICES ASSUME stamps # None, stamps = <<disk.pkl, disk.meta>>, disk.pkl = disk.meta
                 PROVE  registry = [art |-> disk.pkl, label |-> disk.meta]
      BY DEF StampMeansLoaded
    <3>1. stamps[1] = disk.pkl /\ stamps[2] = disk.pkl
      OBVIOUS
    <3>2. ~(disk.pkl < disk.pkl)
      BY Numbers, SMT
    <3>q. QED
      BY <3>1, <3>2 DEF ServingInv, StampInv
  <2>4. EvidenceOwnSignal
    <3>1. DOMAIN trained = 1 .. Len(trained)
      BY SMT DEF ServingInv, TypeOK, StoreTypes
    <3>q. QED
      BY <3>1 DEF ServingInv, EvidenceInv, EvidenceOwnSignal
  <2>q. QED
    BY <2>1, <2>2, <2>3, <2>4 DEF AnswersAttested
<1>q. QED
  BY <1>1, ServingInvariant, PTL

(* A reload only ever replaces a model by a newer one, however files and   *)
(* reads interleave (_reload_locked, ModelRegistry.install).               *)
THEOREM ReloadsGoForward == Spec => ReloadsForward
<1>1. ServingInv /\ [Next]_vars =>
        [registry # None /\ registry' # None /\ registry' # registry => registry.art < registry'.art]_vars
  <2> SUFFICES ASSUME ServingInv, Next, registry # None, registry' # None, registry' # registry
               PROVE  registry.art < registry'.art
    OBVIOUS
  <2>1. LoadSettles
    <3>1. ~Cluster /\ ~(\E t \in Trainers : Train(t))
      BY DEF Cluster, EditSpec, ReplaceTarget, Compile, Train, TrainReadsAutoscaler, TrainReadsTarget,
             TrainLocks, TrainPublishes, TrainWritesSidecar, TrainStops, JobOnly, records
    <3>2. ~StatArtifact /\ ~LoadNeeded /\ ~ReadBytes /\ ~ReadSidecar /\ ~BackoffEnds /\ ~Restart
      BY DEF StatArtifact, LoadNeeded, ReadBytes, ReadSidecar, BackoffEnds, Restart, records
    <3>3. ASSUME NEW c \in Clients PROVE ~Ask(c) /\ ~AskExperiment(c) /\ ~Serve(c)
      BY DEF Ask, AskExperiment, Serve, ReadAutoscaler, ReadTarget, Reload, Pin, Pinned, SetWindow, Infer,
             Answer, Unpin, records
    <3>q. QED
      BY <3>1, <3>2, <3>3 DEF Next, Load
  <2>2. Unchanged /\ registry' = [art |-> load.data, label |-> load.meta] /\ load.pc = "settled"
    BY <2>1 DEF LoadSettles, Install, records
  <2>q. QED
    BY <2>2, InstalledIsNewer
<1>q. QED
  BY <1>1, ServingInvariant, PTL DEF Spec, ReloadsForward
=============================================================================
