--------------------------- MODULE ForecastStore ---------------------------
(***************************************************************************)
(* The forecast journal (ml-engine/forecasting/store.py): immutable        *)
(* issuances and outcomes, derived checkpoints, and retention.             *)
(*                                                                         *)
(* Every method that writes holds the store's lock and commits one SQLite  *)
(* transaction, so it is one action; a crash around the commit is the      *)
(* transaction taken or not taken followed by Crash.  recover() is the     *)
(* exception: it takes the lock once to read the checkpoint and once more  *)
(* to read the outcomes, so it is two actions.                             *)
(*                                                                         *)
(* A key is an issuance key; its ID is derived from it and the store's     *)
(* identity, so the key names the issuance.  Bundles and outcome payloads  *)
(* are opaque values.  A checkpointed state is how often it has folded in  *)
(* each outcome, which is what recovery must keep exact.  Only the latest  *)
(* checkpoint of an epoch is ever read; the older ones are left out.       *)
(***************************************************************************)
EXTENDS Integers, FiniteSets, FiniteSetsExt

CONSTANTS Epochs,      \* evidence keys
          Keys,        \* issuance keys: records with fields epoch, end (the window end), id
          Bundles,     \* issuance payloads
          Models,      \* model names
          Payloads,    \* outcome payloads, status included
          Clients,     \* threads that use the store
          Retention,   \* retention_seconds
          MaxTime,     \* bound of the model: the clock
          None

Pairs == Keys \X Models
ModelSets == SUBSET Models \ {{}}
IssuanceType == [seq : Nat, bundle : Bundles, models : ModelSets]
OutcomeType == [seq : Nat, payload : Payloads]
CheckpointType == [last : Nat, folded : [Pairs -> Nat]]

StoreConstants ==
  /\ \A k \in Keys : k.epoch \in Epochs /\ k.end \in Nat
  /\ Retention \in Nat /\ MaxTime \in Nat
  /\ None \notin Bundles \cup Payloads \cup Epochs
  /\ None \notin IssuanceType /\ None \notin OutcomeType /\ None \notin CheckpointType

(* The service calls the store under its own lock.                         *)
OneCaller == \A c, d \in Clients : c = d

VARIABLES issuances,   \* key -> [seq, bundle, models] or None
          outcomes,    \* <<key, model>> -> [seq, payload] or None
          checkpoint,  \* epoch -> the latest [last, folded] or None
          horizon,     \* meta.retention_horizon
          retention,   \* epoch -> counts of what was removed
          issSeq,      \* AUTOINCREMENT of issuances
          outSeq,      \* AUTOINCREMENT of outcomes
          healthy,     \* _problem is None
          now,         \* the clock, in seconds
          client,      \* per client: a recovery in progress or its result
          answered,    \* history: the bundle last returned for a key, or None
          issued,      \* history: the keys ever committed
          scored       \* history: the <<key, model>> outcomes ever committed

journal == <<issuances, outcomes, checkpoint, horizon, retention, issSeq, outSeq>>
ghosts == <<answered, issued, scored>>
vars == <<journal, healthy, now, client, ghosts>>

Unfolded == [p \in Pairs |-> 0]
Idle == [step |-> "idle", epoch |-> None, last |-> 0, folded |-> Unfolded]

TypeOK ==
  /\ issuances \in [Keys -> IssuanceType \cup {None}]
  /\ outcomes \in [Pairs -> OutcomeType \cup {None}]
  /\ \A k \in Keys : issuances[k] # None => issuances[k].seq <= issSeq
  /\ \A p \in Pairs : outcomes[p] # None => outcomes[p].seq <= outSeq
  /\ checkpoint \in [Epochs -> CheckpointType \cup {None}]
  /\ horizon \in Nat
  /\ retention \in [Epochs -> [issued : Nat, outcomes : Nat]]
  /\ issSeq \in Nat /\ outSeq \in Nat
  /\ healthy \in BOOLEAN
  /\ now \in Nat
  /\ client \in [Clients -> [step : {"idle", "fold", "hold"}, epoch : Epochs \cup {None},
                             last : Nat, folded : [Pairs -> Nat]]]
  /\ answered \in [Keys -> Bundles \cup {None}]
  /\ issued \subseteq Keys /\ scored \subseteq Pairs

Init ==
  /\ issuances = [k \in Keys |-> None]
  /\ outcomes = [p \in Pairs |-> None]
  /\ checkpoint = [e \in Epochs |-> None]
  /\ horizon = 0
  /\ retention = [e \in Epochs |-> [issued |-> 0, outcomes |-> 0]]
  /\ issSeq = 0 /\ outSeq = 0
  /\ healthy = TRUE /\ now = 0
  /\ client = [c \in Clients |-> Idle]
  /\ answered = [k \in Keys |-> None]
  /\ issued = {} /\ scored = {}

----------------------------------------------------------------------------
(* Issuances                                                               *)

(* _refuse_retired, and the trigger issuances_not_retired.                 *)
Retired(k) == k.end < horizon

(* The INSERT of commit_issuance, and the record returned.                 *)
Insert(k, b, ms) ==
  /\ ~Retired(k)
  /\ issSeq' = issSeq + 1
  /\ issuances' = [issuances EXCEPT ![k] = [seq |-> issSeq + 1, bundle |-> b, models |-> ms]]
  /\ issued' = issued \cup {k}
  /\ answered' = [answered EXCEPT ![k] = b]
  /\ UNCHANGED <<outcomes, checkpoint, horizon, retention, outSeq, healthy, now, client, scored>>

(* The committed record returned instead of a new one.                     *)
Existing(k) ==
  /\ issuances[k] # None
  /\ answered' = [answered EXCEPT ![k] = issuances[k].bundle]
  /\ UNCHANGED <<journal, healthy, now, client, issued, scored>>

(* commit_issuance: the same bytes again return the committed record,      *)
(* other bytes or models are an IntegrityConflict and change nothing.      *)
CommitIssuance(k, b, ms) ==
  /\ healthy
  /\ \/ /\ issuances[k] # None
        /\ issuances[k].bundle = b /\ issuances[k].models = ms
        /\ Existing(k)
     \/ /\ issuances[k] = None
        /\ Insert(k, b, ms)

(* Mutant: the build wins over what is committed for the key.              *)
GetOrIssueRebuilt(k, b, ms) == healthy /\ Insert(k, b, ms)

(* get_or_issue: a committed issuance is returned whatever would be built. *)
GetOrIssue(k, b, ms) ==
  /\ healthy
  /\ \/ /\ issuances[k] # None
        /\ issuances[k].models = ms
        /\ Existing(k)
     \/ /\ issuances[k] = None
        /\ Insert(k, b, ms)

----------------------------------------------------------------------------
(* Outcomes                                                                *)

(* AUTOINCREMENT: never a number used before, removed rows included.       *)
NextOutSeq == outSeq + 1

(* commit_outcome for an outcome not committed yet.  The same payload      *)
(* again returns the record and another one is a conflict: no change.      *)
CommitOutcome(k, m, v) ==
  /\ healthy
  /\ outcomes[<<k, m>>] = None
  /\ issuances[k] # None
  /\ m \in issuances[k].models
  /\ now >= k.end
  /\ outSeq' = NextOutSeq
  /\ outcomes' = [outcomes EXCEPT ![<<k, m>>] = [seq |-> NextOutSeq, payload |-> v]]
  /\ scored' = scored \cup {<<k, m>>}
  /\ UNCHANGED <<issuances, checkpoint, horizon, retention, issSeq, healthy, now, client, answered, issued>>

(* outcomes_after.                                                         *)
After(e, last) == {p \in Pairs : p[1].epoch = e /\ outcomes[p] # None /\ outcomes[p].seq > last}

----------------------------------------------------------------------------
(* Checkpoints                                                             *)

(* recover(), first part: the latest checkpoint.                           *)
RecoverRead(c, e) ==
  /\ client[c].step = "idle"
  /\ client' = [client EXCEPT ![c] =
       IF checkpoint[e] = None
       THEN [step |-> "fold", epoch |-> e, last |-> 0, folded |-> Unfolded]
       ELSE [step |-> "fold", epoch |-> e, last |-> checkpoint[e].last, folded |-> checkpoint[e].folded]]
  /\ UNCHANGED <<journal, healthy, now, ghosts>>

(* recover(), second part: every later outcome, each folded in once.       *)
RecoverFold(c) ==
  LET r == client[c]
      later == After(r.epoch, r.last)
  IN /\ r.step = "fold"
     /\ client' = [client EXCEPT ![c] =
          [step |-> "hold", epoch |-> r.epoch,
           last |-> Max({r.last} \cup {outcomes[p].seq : p \in later}),
           folded |-> [p \in Pairs |-> r.folded[p] + IF p \in later THEN 1 ELSE 0]]]
     /\ UNCHANGED <<journal, healthy, now, ghosts>>

MayCheckpoint(e, last) == checkpoint[e] # None => last >= checkpoint[e].last

(* write_checkpoint of a recovered state.  One older than the latest is    *)
(* refused; an identical one writes nothing.                               *)
WriteCheckpoint(c) ==
  LET r == client[c] IN
  /\ healthy
  /\ r.step = "hold"
  /\ \/ /\ MayCheckpoint(r.epoch, r.last)
        /\ checkpoint' = [checkpoint EXCEPT ![r.epoch] = [last |-> r.last, folded |-> r.folded]]
     \/ /\ ~MayCheckpoint(r.epoch, r.last)
        /\ UNCHANGED checkpoint
  /\ client' = [client EXCEPT ![c] = Idle]
  /\ UNCHANGED <<issuances, outcomes, horizon, retention, issSeq, outSeq, healthy, now, ghosts>>

----------------------------------------------------------------------------
(* Retention                                                               *)

Covered(e) == IF checkpoint[e] = None THEN 0 ELSE checkpoint[e].last
Matured(k) == {m \in Models : outcomes[<<k, m>>] # None}

(* Mutant: coverage by the checkpoint is not required.                     *)
RemovableUncovered(k, h) ==
  /\ issuances[k] # None
  /\ k.end < h
  /\ Matured(k) = issuances[k].models

(* Every expected model has its terminal outcome, each folded into the     *)
(* epoch's latest checkpoint.                                              *)
Removable(k, h) ==
  /\ issuances[k] # None
  /\ k.end < h
  /\ Matured(k) = issuances[k].models
  /\ \A m \in Matured(k) : outcomes[<<k, m>>].seq <= Covered(k.epoch)

Gone(e, h) == {k \in Keys : k.epoch = e /\ Removable(k, h)}

OutcomeStays(p, h) == ~Removable(p[1], h)

HorizonMoves(h) == h > horizon

(* compact(): the horizon moves first, then removable issuances go with    *)
(* their outcomes and are counted.  A client compacts between its other    *)
(* calls.                                                                  *)
Compact(c) ==
  LET h == now - Retention IN
  /\ healthy
  /\ client[c].step = "idle"
  /\ HorizonMoves(h)
  /\ horizon' = h
  /\ issuances' = [k \in Keys |-> IF Removable(k, h) THEN None ELSE issuances[k]]
  /\ outcomes' = [p \in Pairs |-> IF OutcomeStays(p, h) THEN outcomes[p] ELSE None]
  /\ retention' = [e \in Epochs |->
       [issued |-> retention[e].issued + Cardinality(Gone(e, h)),
        outcomes |-> retention[e].outcomes
                     + Cardinality({p \in Pairs : p[1] \in Gone(e, h) /\ outcomes[p] # None})]]
  /\ UNCHANGED <<checkpoint, issSeq, outSeq, healthy, now, client, ghosts>>

----------------------------------------------------------------------------
(* A full disk, the quota or an I/O error: the transaction is rolled back  *)
(* and the store refuses everything until it is opened again.              *)
Fail ==
  /\ healthy
  /\ healthy' = FALSE
  /\ UNCHANGED <<journal, now, client, ghosts>>

(* The process restarts and opens the journal again.                       *)
Reopen ==
  /\ healthy' = TRUE
  /\ client' = [c \in Clients |-> Idle]
  /\ UNCHANGED <<journal, now, ghosts>>

Tick ==
  /\ now < MaxTime
  /\ now' = now + 1
  /\ UNCHANGED <<journal, healthy, client, ghosts>>

Next ==
  \/ \E k \in Keys, b \in Bundles, ms \in ModelSets : CommitIssuance(k, b, ms) \/ GetOrIssue(k, b, ms)
  \/ \E k \in Keys, m \in Models, v \in Payloads : CommitOutcome(k, m, v)
  \/ \E c \in Clients : \/ \E e \in Epochs : RecoverRead(c, e)
                        \/ RecoverFold(c) \/ WriteCheckpoint(c) \/ Compact(c)
  \/ Fail \/ Reopen \/ Tick

Spec == Init /\ [][Next]_vars

----------------------------------------------------------------------------
(* Properties                                                              *)

(* A removed issuance never comes back, so its ID cannot be reused with    *)
(* other bytes (store.py:25-26).                                           *)
NeverReissued ==
  \A k \in Keys : k \in issued /\ issuances[k] = None => issuances'[k] = None

Promise == INSTANCE WriteOnce WITH reg <- answered, Answers <- Bundles, Unset <- None

(* An answer given for a key is the only one ever given, across retries,   *)
(* recomputation, restarts and compaction (store.py:4-8): the answers are  *)
(* write-once registers, and no removed issuance comes back.               *)
AnswersWriteOnce == Promise!Spec /\ [][NeverReissued]_vars

(* Whenever recovery runs, it folds in every outcome of the epoch exactly  *)
(* once: the checkpoint's and the later ones, before and after compaction  *)
(* and restarts (store.py:16-17, 22-25).                                   *)
RecoverExact ==
  \A p \in Pairs :
    LET e == p[1].epoch
        base == IF checkpoint[e] = None THEN 0 ELSE checkpoint[e].folded[p]
        later == IF p \in After(e, Covered(e)) THEN 1 ELSE 0
    IN base + later = IF p \in scored THEN 1 ELSE 0

(* Nothing disappears uncounted: what retention counted and what is left   *)
(* make up everything ever committed (store.py:24-25).                     *)
NothingUncounted ==
  \A e \in Epochs :
    /\ retention[e].issued + Cardinality({k \in Keys : k.epoch = e /\ issuances[k] # None})
         = Cardinality({k \in issued : k.epoch = e})
    /\ retention[e].outcomes + Cardinality({p \in Pairs : p[1].epoch = e /\ outcomes[p] # None})
         = Cardinality({p \in scored : p[1].epoch = e})

(* Recovery is exact and retention counts what it removes.                 *)
JournalExact == RecoverExact /\ NothingUncounted
============================================================================
