----------------------------- MODULE PairArchive -----------------------------
(***************************************************************************)
(* deploy/eks-benchmark/instrumentation/archive.py, archive_pair: copying  *)
(* the trainer's artifact and sidecar, which are published by two renames, *)
(* into an immutable archive directory, and one index line per directory.  *)
(* Archive runs may overlap and may be killed at any step.                 *)
(*                                                                         *)
(* A file is its content and the publication it came from (inode, size and *)
(* mtime); a hash is the content hashed.  A sidecar is unique to a training. *)
(***************************************************************************)
EXTENDS Integers, Sequences, FiniteSets, SequencesExt

CONSTANTS
  Runs,          \* archive jobs
  Contents,      \* artifact bytes a training can produce
  Cutoffs,       \* training cutoffs
  None,
  MaxTrainings, MaxKills

VARIABLES
  art, side,     \* the two source files: [sha |-> .., gen |-> ..] and the sidecar
  trained,       \* trainings so far
  trainer,       \* None, or the training whose sidecar is still to be renamed
  archive,       \* directory key -> its artifact, sidecar and manifest
  index,         \* INDEX.jsonl
  job,           \* run -> where it is and what it staged
  result,        \* run -> what the last finished archive_pair returned
  kills

vars == <<art, side, trained, trainer, archive, index, job, result, kills>>

Idle == [pc |-> "idle", sa |-> None, ss |-> None, side |-> None, sha |-> None, key |-> None]

Init ==
  /\ art = None /\ side = None /\ trained = 0 /\ trainer = None
  /\ archive = <<>> /\ index = <<>>
  /\ job = [r \in Runs |-> Idle] /\ result = [r \in Runs |-> None]
  /\ kills = 0

source == <<art, side, trained, trainer>>

-----------------------------------------------------------------------------
(* The trainer (see ModelServing): the artifact is renamed in, then the sidecar. *)
TrainerPublishes ==
  /\ trainer = None /\ trained < MaxTrainings
  /\ trained' = trained + 1
  /\ \E c \in Contents, cut \in Cutoffs :
       /\ art' = [sha |-> c, gen |-> trained']
       /\ trainer' = [training |-> trained', claims |-> c, cutoff |-> cut]
  /\ UNCHANGED <<side, archive, index, job, result, kills>>

TrainerWritesSidecar ==
  /\ trainer # None
  /\ side' = trainer /\ trainer' = None
  /\ UNCHANGED <<art, trained, archive, index, job, result, kills>>

-----------------------------------------------------------------------------
(* archive_pair, one source access at a time *)
Goes(r, j) == job' = [job EXCEPT ![r] = j] /\ UNCHANGED <<source, kills>>

Reports(r, outcome, key, note) ==
  /\ job' = [job EXCEPT ![r] = Idle]
  /\ result' = [result EXCEPT ![r] = [outcome |-> outcome, key |-> key, note |-> note, side |-> job[r].side]]
  /\ UNCHANGED <<source, kills>>

Returns(r, outcome, key) == Reports(r, outcome, key, None)

Proceeds(r, label, key) ==
  Goes(r, [job[r] EXCEPT !.pc = label, !.key = key]) /\ UNCHANGED <<archive, index, result>>

Rejects(r) == Returns(r, "rejected", None) /\ UNCHANGED <<archive, index>>

Begin(r) ==
  /\ job[r].pc = "idle"
  /\ IF art = None \/ side = None
     THEN Rejects(r)
     ELSE /\ Goes(r, [Idle EXCEPT !.pc = "sidecar", !.sa = art, !.ss = side])
          /\ UNCHANGED <<archive, index, result>>

ReadSidecar(r) ==
  /\ job[r].pc = "sidecar"
  /\ Goes(r, [job[r] EXCEPT !.pc = "copy", !.side = side])
  /\ UNCHANGED <<archive, index, result>>

CopyArtifact(r) ==
  /\ job[r].pc = "copy"
  /\ Goes(r, [job[r] EXCEPT !.pc = "verify", !.sha = art.sha])
  /\ UNCHANGED <<archive, index, result>>

(* The pair is stable when neither file was replaced since the first look. *)
Stable(j) == art = j.sa /\ art.sha = j.sha /\ side = j.ss /\ side = j.side

Verified(j) == Stable(j) /\ j.side.claims = j.sha

Key(j) == <<j.side.cutoff, j.sha>>
VariantKey(j) == <<j.side.cutoff, j.sha, j.side.training>>

Verify(r) ==
  /\ job[r].pc = "verify"
  /\ IF Verified(job[r])
     THEN Proceeds(r, "look", None)
     ELSE Rejects(r)

Line(key, training) == [key |-> key, training |-> training]

(* Mutant: a directory that is there needs no index line. *)
IndexAssumed(key, training) == TRUE

Indexed(key, training) == Line(key, training) \in ToSet(index)

(* The directory is there: a missing index line is the mark of a killed run. *)
Settle(r, key) ==
  LET t == job[r].side.training
  IN  IF Indexed(key, t)
      THEN Returns(r, "already_archived", key) /\ UNCHANGED <<archive, index>>
      ELSE /\ Returns(r, "index_recovered", key)
           /\ index' = Append(index, Line(key, t))
           /\ UNCHANGED archive

(* What is already there decides: nothing, this pair, or this artifact with *)
(* another sidecar, which is kept beside it under a key of its own.         *)
Look(r) ==
  /\ job[r].pc = "look"
  /\ LET k == Key(job[r])
         v == VariantKey(job[r])
     IN  CASE k \notin DOMAIN archive -> Proceeds(r, "rename", k)
           [] k \in DOMAIN archive /\ archive[k].side = job[r].side -> Settle(r, k)
           [] OTHER -> IF v \in DOMAIN archive THEN Settle(r, v) ELSE Proceeds(r, "rename_variant", v)

(* os.rename never replaces a directory that is not empty. *)
Free(key) == key \notin DOMAIN archive

(* The staging directory becomes the archive directory.                     *)
Rename(r) ==
  /\ job[r].pc \in {"rename", "rename_variant"} /\ Free(job[r].key)
  /\ archive' = [k \in DOMAIN archive \union {job[r].key} |->
                   IF k = job[r].key THEN [sha |-> job[r].sha, side |-> job[r].side] ELSE archive[k]]
  /\ Goes(r, [job[r] EXCEPT !.pc = "index"])
  /\ UNCHANGED <<index, result>>

(* A run that lost the race for the plain key reports the pair as archived, *)
(* with a note, and leaves the rest to the next run; one that lost it for a *)
(* variant fails.                                                           *)
LostRace(r) ==
  /\ job[r].pc \in {"rename", "rename_variant"} /\ ~Free(job[r].key)
  /\ IF job[r].pc = "rename"
     THEN Reports(r, "already_archived", job[r].key, "concurrent finalize")
     ELSE Returns(r, "error", None)
  /\ UNCHANGED <<archive, index>>

AppendIndex(r) ==
  /\ job[r].pc = "index"
  /\ index' = Append(index, Line(job[r].key, job[r].side.training))
  /\ Returns(r, IF job[r].key = Key(job[r]) THEN "archived" ELSE "sidecar_variant", job[r].key)
  /\ UNCHANGED archive

Killed(r) ==
  /\ job[r].pc # "idle" /\ kills < MaxKills
  /\ kills' = kills + 1
  /\ job' = [job EXCEPT ![r] = Idle]
  /\ UNCHANGED <<source, archive, index, result>>

Next ==
  \/ TrainerPublishes \/ TrainerWritesSidecar
  \/ \E r \in Runs :
       \/ Begin(r) \/ ReadSidecar(r) \/ CopyArtifact(r) \/ Verify(r) \/ Look(r)
       \/ Rename(r) \/ LostRace(r) \/ AppendIndex(r) \/ Killed(r)

Spec == Init /\ [][Next]_vars

-----------------------------------------------------------------------------
(* A directory holds the artifact its sidecar describes, though the trainer *)
(* publishes the two apart and may replace either while they are copied.    *)
PairGenuine == \A k \in DOMAIN archive : archive[k].side.claims = archive[k].sha

Archived == {"archived", "already_archived", "index_recovered", "sidecar_variant"}

(* A run that reports its pair as archived leaves that pair in the directory *)
(* it names and in the index, also when an earlier run was killed between    *)
(* the two.  A run that noted another's finalize promises less: the          *)
(* directory holds the artifact, perhaps with the other run's sidecar, and   *)
(* its index line is there, still to be written by the run that won, or lost *)
(* with a killed run until the next one recovers it.                         *)
Recorded ==
  \A r \in Runs :
    result[r] # None /\ result[r].outcome \in Archived =>
      LET k == result[r].key
      IN  /\ k \in DOMAIN archive /\ archive[k].sha = result[r].side.claims
          /\ result[r].note = None => archive[k].side = result[r].side
          /\ \/ Line(k, archive[k].side.training) \in ToSet(index)
             \/ /\ result[r].note # None
                /\ kills > 0 \/ \E q \in Runs : job[q].pc = "index" /\ job[q].key = k

(* An archive directory, once there, never changes. *)
ArchiveImmutable ==
  \A k \in DOMAIN archive : k \in DOMAIN archive' /\ archive'[k] = archive[k]
=============================================================================
