----------------------------- MODULE StoreProofs -----------------------------
(***************************************************************************)
(* Proofs about ForecastStore, for every set of keys, models, payloads and *)
(* callers, every retention and every sequence of commits, recoveries,     *)
(* compactions, failures and restarts.                                     *)
(***************************************************************************)
EXTENDS ForecastStore, FiniteSetTheorems, NaturalOrder

(* Most leaves are first-order: Zenon comes first, then the SMT solver.    *)
USE ZenonT(10), SMTT(30)

(* A key was committed exactly when it was answered; a committed issuance  *)
(* is the answer; one that is gone ended before the horizon.               *)
AnswerInv ==
  \A k \in Keys :
    /\ k \in issued <=> answered[k] # None
    /\ issuances[k] # None => k \in issued /\ answered[k] = issuances[k].bundle
    /\ k \in issued /\ issuances[k] = None => k.end < horizon

(* An outcome is of a committed issuance, and goes only with it.           *)
ScoreInv ==
  \A p \in Pairs :
    /\ outcomes[p] # None => p \in scored /\ issuances[p[1]] # None
    /\ p \in scored => p[1] \in issued
    /\ p \in scored /\ outcomes[p] = None => issuances[p[1]] = None

(* Only finitely much was ever committed.                                  *)
FiniteInv == IsFiniteSet(issued) /\ IsFiniteSet(scored)

StoreInv == TypeOK /\ AnswerInv /\ ScoreInv /\ FiniteInv

Steps ==
  \/ \E k \in Keys, b \in Bundles, ms \in ModelSets : issuances[k] = None /\ Insert(k, b, ms)
  \/ \E k \in Keys : Existing(k)
  \/ \E k \in Keys, m \in Models, v \in Payloads : CommitOutcome(k, m, v)
  \/ \E c \in Clients, e \in Epochs : RecoverRead(c, e)
  \/ \E c \in Clients : RecoverFold(c)
  \/ \E c \in Clients : WriteCheckpoint(c)
  \/ \E c \in Clients : Compact(c)
  \/ Fail
  \/ Reopen
  \/ Tick
  \/ UNCHANGED vars

(* Every step of Next, by what it does to the journal.                     *)
LEMMA NextCases ==
  ASSUME [Next]_vars
  PROVE  Steps
BY Zenon DEF Next, Steps, CommitIssuance, GetOrIssue

(* The issuances and the outcomes of an epoch that are committed, and what *)
(* a compaction up to h removes of them.                                   *)
Issuances(e) == {k \in Keys : k.epoch = e /\ issuances[k] # None}
Outcomes(e) == {p \in Pairs : p[1].epoch = e /\ outcomes[p] # None}
GoneOutcomes(e, h) == {p \in Pairs : p[1] \in Gone(e, h) /\ outcomes[p] # None}

LEMMA CommittedFinite ==
  ASSUME StoreInv, NEW e
  PROVE  IsFiniteSet(Issuances(e)) /\ IsFiniteSet(Outcomes(e))
<1>1. Issuances(e) \subseteq issued /\ Outcomes(e) \subseteq scored
  BY DEF StoreInv, AnswerInv, ScoreInv, Issuances, Outcomes
<1> QED BY <1>1, FS_Subset DEF StoreInv, FiniteInv

LEMMA GoneCommitted ==
  ASSUME StoreInv, NEW e, NEW h
  PROVE  /\ Gone(e, h) \subseteq Issuances(e) /\ GoneOutcomes(e, h) \subseteq Outcomes(e)
         /\ IsFiniteSet(Gone(e, h)) /\ IsFiniteSet(GoneOutcomes(e, h))
         /\ Cardinality(Gone(e, h)) \in Nat /\ Cardinality(GoneOutcomes(e, h)) \in Nat
<1>1. Gone(e, h) \subseteq Issuances(e)
  BY DEF Gone, Removable, Issuances
<1>2. GoneOutcomes(e, h) \subseteq Outcomes(e)
  BY DEF GoneOutcomes, Gone, Outcomes
<1>3. IsFiniteSet(Gone(e, h)) /\ IsFiniteSet(GoneOutcomes(e, h))
  BY <1>1, <1>2, CommittedFinite, FS_Subset
<1> QED BY <1>1, <1>2, <1>3, FS_CardinalityType

-----------------------------------------------------------------------------
(* StoreInv is inductive, one lemma per kind of step.                      *)

LEMMA InsertKeeps ==
  ASSUME StoreConstants, StoreInv, NEW k \in Keys, NEW b \in Bundles, NEW ms \in ModelSets,
         issuances[k] = None, Insert(k, b, ms)
  PROVE  StoreInv' /\ k \notin issued
<1>1. k \notin issued
  BY DEF StoreInv, AnswerInv, Insert, Retired
<1>2. issuances'[k] = [seq |-> issSeq + 1, bundle |-> b, models |-> ms]
      /\ answered'[k] = b
      /\ \A l \in Keys : l # k => issuances'[l] = issuances[l] /\ answered'[l] = answered[l]
  BY DEF Insert, StoreInv, TypeOK
<1>3. issuances'[k] # None /\ issuances'[k] \in IssuanceType /\ answered'[k] # None
  BY <1>2 DEF StoreConstants, IssuanceType, StoreInv, TypeOK
<1>4. TypeOK'
  <2>1. issuances' \in [Keys -> IssuanceType \cup {None}]
    BY <1>2, <1>3 DEF Insert, StoreInv, TypeOK
  <2>2. \A l \in Keys : issuances'[l] # None => issuances'[l].seq <= issSeq'
    <3>1. issSeq \in Nat /\ issSeq' = issSeq + 1
      BY DEF Insert, StoreInv, TypeOK
    <3>2. \A l \in Keys : issuances[l] # None => issuances[l].seq <= issSeq /\ issuances[l].seq \in Nat
      BY DEF StoreInv, TypeOK, IssuanceType
    <3>3. \A l \in Keys : l # k => issuances'[l] = issuances[l]
      BY <1>2
    <3>4. issuances'[k].seq = issSeq + 1
      BY <1>2
    <3> QED BY <3>1, <3>2, <3>3, <3>4
  <2>3. answered' \in [Keys -> Bundles \cup {None}]
    BY DEF Insert, StoreInv, TypeOK
  <2>4. issued' \subseteq Keys
    BY DEF Insert, StoreInv, TypeOK
  <2>5. issSeq' \in Nat
    BY DEF Insert, StoreInv, TypeOK
  <2> QED BY <2>1, <2>2, <2>3, <2>4, <2>5 DEF Insert, StoreInv, TypeOK
<1>5. AnswerInv'
  BY <1>1, <1>2, <1>3 DEF Insert, StoreInv, AnswerInv
<1>6. ScoreInv'
  <2>1. \A p \in Pairs : p[1] \in Keys
    BY DEF Pairs
  <2>2. \A p \in Pairs : p \in scored => p[1] # k
    BY <1>1 DEF StoreInv, ScoreInv
  <2>3. outcomes' = outcomes /\ scored' = scored /\ issued' = issued \cup {k}
    BY DEF Insert
  <2> QED BY <1>2, <2>1, <2>2, <2>3 DEF StoreInv, ScoreInv
<1>7. FiniteInv'
  BY FS_AddElement DEF Insert, StoreInv, FiniteInv
<1> QED BY <1>1, <1>4, <1>5, <1>6, <1>7 DEF StoreInv

LEMMA CommitOutcomeKeeps ==
  ASSUME StoreConstants, StoreInv, NEW k \in Keys, NEW m \in Models, NEW v \in Payloads,
         CommitOutcome(k, m, v)
  PROVE  StoreInv' /\ <<k, m>> \notin scored /\ <<k, m>> \in Pairs
<1> DEFINE q == <<k, m>>
<1>1. q \in Pairs /\ q[1] = k
  BY DEF Pairs
<1>2. q \notin scored /\ k \in issued
  BY <1>1 DEF StoreInv, ScoreInv, AnswerInv, CommitOutcome
<1>3. outcomes'[q] = [seq |-> outSeq + 1, payload |-> v]
      /\ \A p \in Pairs : p # q => outcomes'[p] = outcomes[p]
  BY <1>1 DEF CommitOutcome, NextOutSeq, StoreInv, TypeOK
<1>4. outcomes'[q] # None /\ outcomes'[q] \in OutcomeType
  BY <1>3 DEF StoreConstants, OutcomeType, StoreInv, TypeOK
<1>5. scored' = scored \cup {q} /\ outSeq' = outSeq + 1
  BY DEF CommitOutcome, NextOutSeq
<1>6. DOMAIN outcomes' = Pairs /\ outcomes' = [p \in Pairs |-> outcomes'[p]]
  BY DEF CommitOutcome, StoreInv, TypeOK
<1>7. UNCHANGED <<issuances, checkpoint, horizon, retention, issSeq, healthy, now, client, answered, issued>>
  BY DEF CommitOutcome
<1>8. issuances[k] # None
  BY DEF CommitOutcome
<1> HIDE DEF q
<1>9. TypeOK'
  <2>1. \A p \in Pairs : outcomes'[p] \in OutcomeType \cup {None}
    BY <1>3, <1>4 DEF StoreInv, TypeOK
  <2>2. outcomes' \in [Pairs -> OutcomeType \cup {None}]
    BY <1>6, <2>1
  <2>3. outSeq \in Nat
    BY DEF StoreInv, TypeOK
  <2>4. \A p \in Pairs : outcomes[p] # None => outcomes[p].seq <= outSeq /\ outcomes[p].seq \in Nat
    BY DEF StoreInv, TypeOK, OutcomeType
  <2>5. outcomes'[q].seq = outSeq + 1
    BY <1>3
  <2>6. \A p \in Pairs : outcomes'[p] # None => outcomes'[p].seq <= outSeq'
    BY <1>3, <1>5, <2>3, <2>4, <2>5
  <2>7. scored' \subseteq Pairs /\ outSeq' \in Nat
    BY <1>1, <1>5, <2>3 DEF StoreInv, TypeOK
  <2> QED BY <1>7, <2>2, <2>6, <2>7 DEF StoreInv, TypeOK
<1>10. AnswerInv'
  BY <1>7 DEF StoreInv, AnswerInv
<1>11. ScoreInv'
  BY <1>1, <1>2, <1>3, <1>4, <1>5, <1>7, <1>8 DEF StoreInv, ScoreInv
<1>12. FiniteInv'
  BY <1>5, <1>7, FS_AddElement DEF StoreInv, FiniteInv
<1> QED BY <1>1, <1>2, <1>9, <1>10, <1>11, <1>12 DEF StoreInv, q

(* Steps that leave the journal and its history alone.                     *)
LEMMA QuietKeeps ==
  ASSUME StoreInv, UNCHANGED <<issuances, outcomes, horizon, retention, issSeq, outSeq, ghosts>>,
         checkpoint' \in [Epochs -> CheckpointType \cup {None}], healthy' \in BOOLEAN, now' \in Nat,
         client' \in [Clients -> [step : {"idle", "fold", "hold"}, epoch : Epochs \cup {None},
                                  last : Nat, folded : [Pairs -> Nat]]]
  PROVE  StoreInv'
<1>1. TypeOK'
  BY DEF StoreInv, TypeOK, ghosts
<1>2. AnswerInv' /\ ScoreInv' /\ FiniteInv'
  BY DEF StoreInv, AnswerInv, ScoreInv, FiniteInv, ghosts
<1> QED BY <1>1, <1>2 DEF StoreInv

(* The states of a client that recovers.                                   *)
ClientType == [step : {"idle", "fold", "hold"}, epoch : Epochs \cup {None},
               last : Nat, folded : [Pairs -> Nat]]

LEMMA IdleType == Idle \in ClientType
BY DEF Idle, ClientType, Unfolded

(* What recover's second part returns: the largest sequence number folded. *)
LEMMA FoldLast ==
  ASSUME StoreInv, NEW e, NEW last \in Nat
  PROVE  LET top == Max({last} \cup {outcomes[p].seq : p \in After(e, last)}) IN
         /\ top \in Nat /\ top >= last
         /\ last <= outSeq => top <= outSeq
         /\ \A p \in After(e, last) : outcomes[p].seq <= top
<1> DEFINE T == {last} \cup {outcomes[p].seq : p \in After(e, last)}
           b == IF last <= outSeq THEN outSeq ELSE last
<1>1. \A p \in After(e, last) : outcomes[p].seq \in Nat /\ outcomes[p].seq <= outSeq
  BY DEF After, StoreInv, TypeOK, OutcomeType
<1>2. outSeq \in Nat
  BY DEF StoreInv, TypeOK
<1>3. T \subseteq Nat /\ T # {} /\ b \in Nat /\ last \in T
  BY <1>1, <1>2
<1>4. \A t \in T : t <= b
  BY <1>1, <1>2
<1>5. \A p \in After(e, last) : outcomes[p].seq \in T
  OBVIOUS
<1>6. Max(T) \in T /\ \A t \in T : Max(T) >= t
  <2> HIDE DEF T, b
  <2> QED BY <1>3, <1>4, MaxOfNaturals
<1> SUFFICES /\ Max(T) \in Nat /\ Max(T) >= last
             /\ last <= outSeq => Max(T) <= outSeq
             /\ \A p \in After(e, last) : outcomes[p].seq <= Max(T)
  OBVIOUS
<1> HIDE DEF T
<1>7. Max(T) \in Nat /\ Max(T) >= last
  BY <1>3, <1>6
<1>8. \A p \in After(e, last) : outcomes[p].seq <= Max(T)
  BY <1>1, <1>5, <1>6, <1>7
<1> QED BY <1>2, <1>4, <1>6, <1>7, <1>8

LEMMA RecoverReadKeeps ==
  ASSUME StoreConstants, StoreInv, NEW c \in Clients, NEW e \in Epochs, RecoverRead(c, e)
  PROVE  StoreInv'
<1>1. checkpoint[e] \in CheckpointType \cup {None}
  BY DEF StoreInv, TypeOK
<1>2. [step |-> "fold", epoch |-> e, last |-> 0, folded |-> Unfolded] \in ClientType
  BY DEF ClientType, Unfolded
<1>3. checkpoint[e] # None =>
        [step |-> "fold", epoch |-> e, last |-> checkpoint[e].last, folded |-> checkpoint[e].folded] \in ClientType
  BY <1>1 DEF CheckpointType, ClientType
<1>4. client \in [Clients -> ClientType]
  BY DEF StoreInv, TypeOK, ClientType
<1>5. client' \in [Clients -> ClientType]
  <2> HIDE DEF ClientType
  <2> QED BY <1>2, <1>3, <1>4 DEF RecoverRead
<1>6. /\ UNCHANGED <<issuances, outcomes, horizon, retention, issSeq, outSeq, ghosts>>
      /\ checkpoint' \in [Epochs -> CheckpointType \cup {None}] /\ healthy' \in BOOLEAN /\ now' \in Nat
  BY DEF RecoverRead, journal, StoreInv, TypeOK
<1> QED BY <1>5, <1>6, QuietKeeps DEF ClientType

LEMMA RecoverFoldKeeps ==
  ASSUME StoreConstants, StoreInv, NEW c \in Clients, RecoverFold(c)
  PROVE  StoreInv'
<1> DEFINE r == client[c]
           later == After(r.epoch, r.last)
           top == Max({r.last} \cup {outcomes[p].seq : p \in later})
           fresh == [step |-> "hold", epoch |-> r.epoch, last |-> top,
                     folded |-> [p \in Pairs |-> r.folded[p] + IF p \in later THEN 1 ELSE 0]]
<1>1. client \in [Clients -> ClientType]
  BY DEF StoreInv, TypeOK, ClientType
<1>2. r \in ClientType /\ r.last \in Nat /\ r.epoch \in Epochs \cup {None} /\ r.folded \in [Pairs -> Nat]
  BY <1>1 DEF ClientType
<1>3. top \in Nat
  <2> HIDE DEF r
  <2> QED BY <1>2, FoldLast
<1>4. fresh \in ClientType
  <2> HIDE DEF r, later, top
  <2>1. [p \in Pairs |-> r.folded[p] + IF p \in later THEN 1 ELSE 0] \in [Pairs -> Nat]
    BY <1>2
  <2> QED BY <1>2, <1>3, <2>1 DEF ClientType
<1>5. client' = [client EXCEPT ![c] = fresh]
  BY DEF RecoverFold
<1>6. client' \in [Clients -> ClientType]
  <2> HIDE DEF fresh, ClientType
  <2> QED BY <1>1, <1>4, <1>5
<1>7. /\ UNCHANGED <<issuances, outcomes, horizon, retention, issSeq, outSeq, ghosts>>
      /\ checkpoint' \in [Epochs -> CheckpointType \cup {None}] /\ healthy' \in BOOLEAN /\ now' \in Nat
  BY DEF RecoverFold, journal, StoreInv, TypeOK
<1> QED BY <1>6, <1>7, QuietKeeps DEF ClientType

LEMMA WriteCheckpointKeeps ==
  ASSUME StoreConstants, StoreInv, NEW c \in Clients, WriteCheckpoint(c)
  PROVE  StoreInv'
<1> DEFINE r == client[c]
           fresh == [last |-> r.last, folded |-> r.folded]
<1>1. client \in [Clients -> ClientType] /\ r \in ClientType
  BY DEF StoreInv, TypeOK, ClientType
<1>2. fresh \in CheckpointType
  BY <1>1 DEF ClientType, CheckpointType
<1>3. checkpoint' = [checkpoint EXCEPT ![r.epoch] = fresh] \/ checkpoint' = checkpoint
  BY DEF WriteCheckpoint
<1>4. checkpoint' \in [Epochs -> CheckpointType \cup {None}]
  <2> HIDE DEF fresh, r
  <2> QED BY <1>2, <1>3 DEF StoreInv, TypeOK
<1>5. client' \in [Clients -> ClientType]
  <2> HIDE DEF ClientType
  <2> QED BY <1>1, IdleType DEF WriteCheckpoint
<1>6. /\ UNCHANGED <<issuances, outcomes, horizon, retention, issSeq, outSeq, ghosts>>
      /\ healthy' \in BOOLEAN /\ now' \in Nat
  BY DEF WriteCheckpoint, StoreInv, TypeOK
<1> QED BY <1>4, <1>5, <1>6, QuietKeeps DEF ClientType

LEMMA CompactKeeps ==
  ASSUME StoreConstants, StoreInv, NEW c \in Clients, Compact(c)
  PROVE  StoreInv'
<1> DEFINE h == now - Retention
<1>1. h \in Nat /\ horizon \in Nat /\ h > horizon /\ horizon' = h
  BY DEF Compact, HorizonMoves, StoreInv, TypeOK, StoreConstants
<1>2. /\ issuances' = [k \in Keys |-> IF Removable(k, h) THEN None ELSE issuances[k]]
      /\ outcomes' = [p \in Pairs |-> IF ~Removable(p[1], h) THEN outcomes[p] ELSE None]
      /\ UNCHANGED <<checkpoint, issSeq, outSeq, healthy, now, client, ghosts>>
  BY DEF Compact, OutcomeStays
<1>3. retention' \in [Epochs -> [issued : Nat, outcomes : Nat]]
  <2>1. \A e \in Epochs : /\ Cardinality(Gone(e, h)) \in Nat /\ Cardinality(GoneOutcomes(e, h)) \in Nat
                          /\ retention[e].issued \in Nat /\ retention[e].outcomes \in Nat
    BY GoneCommitted DEF StoreInv, TypeOK
  <2>2. retention' = [e \in Epochs |->
           [issued |-> retention[e].issued + Cardinality(Gone(e, h)),
            outcomes |-> retention[e].outcomes + Cardinality(GoneOutcomes(e, h))]]
    BY DEF Compact, GoneOutcomes
  <2> HIDE DEF h
  <2> QED BY <2>1, <2>2
<1>4. \A k \in Keys : Removable(k, h) => k.end < h
  BY DEF Removable
<1> HIDE DEF h
<1>5. TypeOK'
  <2>1. issuances' \in [Keys -> IssuanceType \cup {None}]
        /\ \A k \in Keys : issuances'[k] # None => issuances'[k].seq <= issSeq'
    BY <1>2 DEF StoreInv, TypeOK
  <2>2. outcomes' \in [Pairs -> OutcomeType \cup {None}]
        /\ \A p \in Pairs : outcomes'[p] # None => outcomes'[p].seq <= outSeq'
    BY <1>2 DEF StoreInv, TypeOK
  <2> QED BY <1>1, <1>2, <1>3, <2>1, <2>2 DEF StoreInv, TypeOK, ghosts
<1>6. AnswerInv'
  <2>1. \A k \in Keys : k.end \in Nat
    BY DEF StoreConstants
  <2> QED BY <1>1, <1>2, <1>4, <2>1 DEF StoreInv, AnswerInv, ghosts
<1>7. ScoreInv'
  <2>1. \A p \in Pairs : p[1] \in Keys
    BY DEF Pairs
  <2> QED BY <1>2, <2>1 DEF StoreInv, ScoreInv, ghosts
<1>8. FiniteInv'
  BY <1>2 DEF StoreInv, FiniteInv, ghosts
<1> QED BY <1>5, <1>6, <1>7, <1>8 DEF StoreInv

LEMMA OthersKeep ==
  ASSUME StoreConstants, StoreInv, Fail \/ Reopen \/ Tick \/ UNCHANGED vars
  PROVE  StoreInv'
<1>1. client \in [Clients -> ClientType]
  BY DEF StoreInv, TypeOK, ClientType
<1>2. client' \in [Clients -> ClientType]
  <2> HIDE DEF ClientType
  <2> QED BY <1>1, IdleType DEF Fail, Reopen, Tick, vars
<1>3. healthy' \in BOOLEAN
  BY DEF Fail, Reopen, Tick, vars, StoreInv, TypeOK
<1>4. now' \in Nat
  BY DEF Fail, Reopen, Tick, vars, StoreInv, TypeOK
<1>5. UNCHANGED <<journal, ghosts>>
  BY DEF Fail, Reopen, Tick, vars
<1>6. checkpoint' \in [Epochs -> CheckpointType \cup {None}]
  BY <1>5 DEF journal, StoreInv, TypeOK
<1> QED BY <1>2, <1>3, <1>4, <1>5, <1>6, QuietKeeps DEF ClientType, journal

(* The committed record is the answer already given.                       *)
LEMMA ExistingQuiet ==
  ASSUME StoreInv, NEW k \in Keys, Existing(k)
  PROVE  UNCHANGED vars
<1>1. answered \in [Keys -> Bundles \cup {None}] /\ answered[k] = issuances[k].bundle
  BY DEF StoreInv, TypeOK, AnswerInv, Existing
<1>2. answered' = answered
  BY <1>1 DEF Existing
<1> QED BY <1>2 DEF Existing, vars, ghosts

LEMMA StepKeeps ==
  ASSUME StoreConstants, StoreInv, [Next]_vars
  PROVE  StoreInv'
<1>1. ASSUME NEW k \in Keys, NEW b \in Bundles, NEW ms \in ModelSets, issuances[k] = None, Insert(k, b, ms)
      PROVE  StoreInv'
  BY <1>1, InsertKeeps
<1>2. ASSUME NEW k \in Keys, Existing(k)
      PROVE  StoreInv'
  BY <1>2, ExistingQuiet, OthersKeep
<1>3. ASSUME NEW k \in Keys, NEW m \in Models, NEW v \in Payloads, CommitOutcome(k, m, v)
      PROVE  StoreInv'
  BY <1>3, CommitOutcomeKeeps
<1>4. ASSUME NEW c \in Clients, NEW e \in Epochs, RecoverRead(c, e)
      PROVE  StoreInv'
  BY <1>4, RecoverReadKeeps
<1>5. ASSUME NEW c \in Clients, RecoverFold(c) \/ WriteCheckpoint(c) \/ Compact(c)
      PROVE  StoreInv'
  BY <1>5, RecoverFoldKeeps, WriteCheckpointKeeps, CompactKeeps
<1>6. CASE Fail \/ Reopen \/ Tick \/ UNCHANGED vars
  BY <1>6, OthersKeep
<1>7. Steps
  BY NextCases
<1> QED BY <1>1, <1>2, <1>3, <1>4, <1>5, <1>6, <1>7, Zenon DEF Steps

(* StoreInv holds from the empty journal on.                               *)
LEMMA StoreInvariant ==
  ASSUME StoreConstants
  PROVE  Spec => []StoreInv
<1>1. Init => StoreInv
  <2> SUFFICES ASSUME Init PROVE StoreInv
    OBVIOUS
  <2>1. TypeOK
    <3>1. client \in [Clients -> ClientType]
      BY IdleType DEF Init
    <3> QED BY <3>1 DEF Init, TypeOK, ClientType
  <2>2. AnswerInv /\ ScoreInv
    BY DEF Init, AnswerInv, ScoreInv
  <2>3. FiniteInv
    BY FS_EmptySet DEF Init, FiniteInv
  <2> QED BY <2>1, <2>2, <2>3 DEF StoreInv
<1>2. StoreInv /\ [Next]_vars => StoreInv'
  BY StepKeeps
<1> QED BY <1>1, <1>2, PTL DEF Spec

-----------------------------------------------------------------------------
(* The answers                                                             *)

(* The journal implements the write-once registers it promises: an answer  *)
(* given for a key is the only one ever given, across retries,             *)
(* recomputation, restarts and compaction, and no removed issuance comes   *)
(* back (store.py:4-8, 25-26).  An insertion fills an empty register,      *)
(* since a key once committed is either still there or below the horizon.  *)
THEOREM AnswersAreFinal ==
  ASSUME StoreConstants
  PROVE  Spec => AnswersWriteOnce
<1>1. Init => Promise!Init
  BY DEF Init, Promise!Init
<1>2. StoreInv /\ [Next]_vars => [Promise!Next]_answered
  <2> SUFFICES ASSUME StoreInv, [Next]_vars PROVE Promise!Next \/ UNCHANGED answered
    OBVIOUS
  <2>1. ASSUME NEW k \in Keys, NEW b \in Bundles, NEW ms \in ModelSets, issuances[k] = None, Insert(k, b, ms)
        PROVE  Promise!Next
    <3>1. answered[k] = None
      BY <2>1, InsertKeeps DEF StoreInv, AnswerInv
    <3> QED BY <2>1, <3>1 DEF Insert, Promise!Next, Promise!Fill
  <2>2. ASSUME NEW k \in Keys, Existing(k)
        PROVE  UNCHANGED answered
    BY <2>2, ExistingQuiet DEF vars, ghosts
  <2>3. ASSUME NEW c \in Clients, RecoverFold(c) \/ WriteCheckpoint(c) \/ Compact(c)
        PROVE  UNCHANGED answered
    BY <2>3 DEF RecoverFold, WriteCheckpoint, Compact, ghosts
  <2>4. ASSUME NEW c \in Clients, NEW e \in Epochs, RecoverRead(c, e)
        PROVE  UNCHANGED answered
    BY <2>4 DEF RecoverRead, ghosts
  <2>5. ASSUME NEW k \in Keys, NEW m \in Models, NEW v \in Payloads, CommitOutcome(k, m, v)
        PROVE  UNCHANGED answered
    BY <2>5 DEF CommitOutcome
  <2>6. CASE Fail \/ Reopen \/ Tick \/ UNCHANGED vars
    BY <2>6 DEF Fail, Reopen, Tick, vars, ghosts
  <2>7. Steps
    BY NextCases
  <2> QED BY <2>1, <2>2, <2>3, <2>4, <2>5, <2>6, <2>7, Zenon DEF Steps
<1>3. StoreInv /\ [Next]_vars => [NeverReissued]_vars
  <2> SUFFICES ASSUME StoreInv, [Next]_vars, NEW l \in Keys, l \in issued, issuances[l] = None
               PROVE  issuances'[l] = None
    BY DEF NeverReissued
  <2>1. ASSUME NEW k \in Keys, NEW b \in Bundles, NEW ms \in ModelSets, issuances[k] = None, Insert(k, b, ms)
        PROVE  issuances'[l] = None
    <3>1. k # l
      BY <2>1, InsertKeeps
    <3> QED BY <2>1, <3>1 DEF Insert, StoreInv, TypeOK
  <2>2. ASSUME NEW k \in Keys, Existing(k)
        PROVE  issuances'[l] = None
    BY <2>2 DEF Existing, journal
  <2>3. ASSUME NEW c \in Clients, RecoverFold(c) \/ WriteCheckpoint(c) \/ Compact(c)
        PROVE  issuances'[l] = None
    BY <2>3 DEF RecoverFold, WriteCheckpoint, Compact, journal
  <2>4. ASSUME NEW c \in Clients, NEW e \in Epochs, RecoverRead(c, e)
        PROVE  issuances'[l] = None
    BY <2>4 DEF RecoverRead, journal
  <2>5. ASSUME NEW k \in Keys, NEW m \in Models, NEW v \in Payloads, CommitOutcome(k, m, v)
        PROVE  issuances'[l] = None
    BY <2>5 DEF CommitOutcome
  <2>6. CASE Fail \/ Reopen \/ Tick \/ UNCHANGED vars
    BY <2>6 DEF Fail, Reopen, Tick, vars, journal
  <2>7. Steps
    BY NextCases
  <2> QED BY <2>1, <2>2, <2>3, <2>4, <2>5, <2>6, <2>7, Zenon DEF Steps
<1> QED BY <1>1, <1>2, <1>3, StoreInvariant, PTL DEF Spec, Promise!Spec, AnswersWriteOnce

-----------------------------------------------------------------------------
(* The counts                                                              *)

IssuedOf(e) == {k \in issued : k.epoch = e}
ScoredOf(e) == {p \in scored : p[1].epoch = e}

(* Every set counted is finite, so every count is a natural.               *)
LEMMA CountsNatural ==
  ASSUME StoreInv, NEW e
  PROVE  /\ IsFiniteSet(Issuances(e)) /\ Cardinality(Issuances(e)) \in Nat
         /\ IsFiniteSet(Outcomes(e)) /\ Cardinality(Outcomes(e)) \in Nat
         /\ IsFiniteSet(IssuedOf(e)) /\ Cardinality(IssuedOf(e)) \in Nat
         /\ IsFiniteSet(ScoredOf(e)) /\ Cardinality(ScoredOf(e)) \in Nat
<1>1. IssuedOf(e) \subseteq issued /\ ScoredOf(e) \subseteq scored
  BY DEF IssuedOf, ScoredOf
<1>2. IsFiniteSet(IssuedOf(e)) /\ IsFiniteSet(ScoredOf(e))
  BY <1>1, FS_Subset DEF StoreInv, FiniteInv
<1> QED BY <1>2, CommittedFinite, FS_CardinalityType

(* What is counted and what is left make up everything ever committed.     *)
Counted(e) ==
  /\ retention[e].issued + Cardinality(Issuances(e)) = Cardinality(IssuedOf(e))
  /\ retention[e].outcomes + Cardinality(Outcomes(e)) = Cardinality(ScoredOf(e))

LEMMA CountedIsAll == NothingUncounted <=> \A e \in Epochs : Counted(e)
BY DEF NothingUncounted, Counted, Issuances, Outcomes, IssuedOf, ScoredOf

(* An insertion adds the key to what is left and to what was committed.    *)
LEMMA InsertCounts ==
  ASSUME StoreConstants, StoreInv, NEW e \in Epochs, Counted(e),
         NEW k \in Keys, NEW b \in Bundles, NEW ms \in ModelSets, issuances[k] = None, Insert(k, b, ms)
  PROVE  Counted(e)'
<1>1. k \notin issued
  BY InsertKeeps
<1>2. /\ issuances'[k] = [seq |-> issSeq + 1, bundle |-> b, models |-> ms]
      /\ \A l \in Keys : l # k => issuances'[l] = issuances[l]
      /\ issSeq + 1 \in Nat
  BY DEF Insert, StoreInv, TypeOK
<1>3. issuances'[k] # None
  BY <1>2 DEF StoreConstants, IssuanceType
<1>4. Outcomes(e)' = Outcomes(e) /\ ScoredOf(e)' = ScoredOf(e) /\ retention' = retention
  BY DEF Outcomes, ScoredOf, Insert
<1>5. CASE k.epoch = e
  <2>1. Issuances(e)' = Issuances(e) \cup {k} /\ k \notin Issuances(e)
    BY <1>2, <1>3, <1>5 DEF Issuances
  <2>2. IssuedOf(e)' = IssuedOf(e) \cup {k} /\ k \notin IssuedOf(e)
    BY <1>1, <1>5 DEF IssuedOf, Insert
  <2>3. Cardinality(Issuances(e)') = Cardinality(Issuances(e)) + 1
        /\ Cardinality(IssuedOf(e)') = Cardinality(IssuedOf(e)) + 1
    BY <2>1, <2>2, CountsNatural, FS_AddElement
  <2>4. retention[e].issued \in Nat
    BY DEF StoreInv, TypeOK
  <2>5. Cardinality(Issuances(e)) \in Nat /\ Cardinality(IssuedOf(e)) \in Nat
    BY CountsNatural
  <2> QED BY <1>4, <2>3, <2>4, <2>5 DEF Counted
<1>6. CASE k.epoch # e
  <2>1. Issuances(e)' = Issuances(e)
    BY <1>2, <1>6 DEF Issuances
  <2>2. IssuedOf(e)' = IssuedOf(e)
    BY <1>6 DEF IssuedOf, Insert
  <2> QED BY <1>4, <2>1, <2>2 DEF Counted
<1> QED BY <1>5, <1>6

LEMMA CommitOutcomeCounts ==
  ASSUME StoreConstants, StoreInv, NEW e \in Epochs, Counted(e),
         NEW k \in Keys, NEW m \in Models, NEW v \in Payloads, CommitOutcome(k, m, v)
  PROVE  Counted(e)'
<1> DEFINE q == <<k, m>>
<1>1. q \in Pairs /\ q \notin scored /\ q[1] = k
  BY CommitOutcomeKeeps
<1>2. /\ outcomes'[q] = [seq |-> outSeq + 1, payload |-> v] /\ outcomes[q] = None
      /\ \A p \in Pairs : p # q => outcomes'[p] = outcomes[p]
      /\ outSeq + 1 \in Nat /\ scored' = scored \cup {q}
  BY <1>1 DEF CommitOutcome, NextOutSeq, StoreInv, TypeOK
<1>3. outcomes'[q] # None
  BY <1>2 DEF StoreConstants, OutcomeType
<1>4. Issuances(e)' = Issuances(e) /\ IssuedOf(e)' = IssuedOf(e) /\ retention' = retention
  BY DEF Issuances, IssuedOf, CommitOutcome
<1> HIDE DEF q
<1>5. CASE k.epoch = e
  <2>1. Outcomes(e)' = Outcomes(e) \cup {q} /\ q \notin Outcomes(e)
    BY <1>1, <1>2, <1>3, <1>5 DEF Outcomes
  <2>2. ScoredOf(e)' = ScoredOf(e) \cup {q} /\ q \notin ScoredOf(e)
    BY <1>1, <1>2, <1>5 DEF ScoredOf
  <2>3. Cardinality(Outcomes(e)') = Cardinality(Outcomes(e)) + 1
        /\ Cardinality(ScoredOf(e)') = Cardinality(ScoredOf(e)) + 1
    BY <2>1, <2>2, CountsNatural, FS_AddElement
  <2>4. retention[e].outcomes \in Nat
    BY DEF StoreInv, TypeOK
  <2>5. Cardinality(Outcomes(e)) \in Nat /\ Cardinality(ScoredOf(e)) \in Nat
    BY CountsNatural
  <2> QED BY <1>4, <2>3, <2>4, <2>5 DEF Counted
<1>6. CASE k.epoch # e
  <2>1. Outcomes(e)' = Outcomes(e)
    BY <1>1, <1>2, <1>6 DEF Outcomes
  <2>2. ScoredOf(e)' = ScoredOf(e)
    BY <1>1, <1>2, <1>6 DEF ScoredOf
  <2> QED BY <1>4, <2>1, <2>2 DEF Counted
<1> QED BY <1>5, <1>6

LEMMA SubsetDifference ==
  ASSUME NEW S, IsFiniteSet(S), NEW T \in SUBSET S
  PROVE  Cardinality(S \ T) = Cardinality(S) - Cardinality(T)
<1>1. S \cap T = T
  OBVIOUS
<1> QED BY <1>1, FS_Difference

(* A compaction counts exactly what it removes.                            *)
LEMMA CompactCounts ==
  ASSUME StoreConstants, StoreInv, NEW e \in Epochs, Counted(e), NEW c \in Clients, Compact(c)
  PROVE  Counted(e)'
<1> DEFINE h == now - Retention
<1>1. /\ issuances' = [k \in Keys |-> IF Removable(k, h) THEN None ELSE issuances[k]]
      /\ outcomes' = [p \in Pairs |-> IF ~Removable(p[1], h) THEN outcomes[p] ELSE None]
      /\ UNCHANGED <<issued, scored>>
  BY DEF Compact, OutcomeStays, ghosts
<1>2. retention'[e] = [issued |-> retention[e].issued + Cardinality(Gone(e, h)),
                       outcomes |-> retention[e].outcomes + Cardinality(GoneOutcomes(e, h))]
  BY DEF Compact, GoneOutcomes
<1> HIDE DEF h
<1>3. Issuances(e)' = Issuances(e) \ Gone(e, h)
  BY <1>1 DEF Issuances, Gone
<1>4. Outcomes(e)' = Outcomes(e) \ GoneOutcomes(e, h)
  <2>1. \A p \in Pairs : p[1] \in Keys
    BY DEF Pairs
  <2> QED BY <1>1, <2>1 DEF Outcomes, GoneOutcomes, Gone
<1>5. IssuedOf(e)' = IssuedOf(e) /\ ScoredOf(e)' = ScoredOf(e)
  BY <1>1 DEF IssuedOf, ScoredOf
<1>6. /\ Gone(e, h) \subseteq Issuances(e) /\ GoneOutcomes(e, h) \subseteq Outcomes(e)
      /\ Cardinality(Gone(e, h)) \in Nat /\ Cardinality(GoneOutcomes(e, h)) \in Nat
  BY GoneCommitted
<1>7. /\ IsFiniteSet(Issuances(e)) /\ Cardinality(Issuances(e)) \in Nat
      /\ IsFiniteSet(Outcomes(e)) /\ Cardinality(Outcomes(e)) \in Nat
      /\ Cardinality(IssuedOf(e)) \in Nat /\ Cardinality(ScoredOf(e)) \in Nat
  BY CountsNatural
<1>8. Cardinality(Issuances(e)') = Cardinality(Issuances(e)) - Cardinality(Gone(e, h))
  BY <1>3, <1>6, <1>7, SubsetDifference, Zenon
<1>9. Cardinality(Outcomes(e)') = Cardinality(Outcomes(e)) - Cardinality(GoneOutcomes(e, h))
  BY <1>4, <1>6, <1>7, SubsetDifference, Zenon
<1>10. retention[e].issued \in Nat /\ retention[e].outcomes \in Nat
  BY DEF StoreInv, TypeOK
<1> QED BY <1>2, <1>5, <1>6, <1>7, <1>8, <1>9, <1>10 DEF Counted

LEMMA QuietCounts ==
  ASSUME NEW e \in Epochs, Counted(e), UNCHANGED <<issuances, outcomes, retention, issued, scored>>
  PROVE  Counted(e)'
BY DEF Counted, Issuances, Outcomes, IssuedOf, ScoredOf

(* Nothing leaves the journal uncounted, whoever calls it (store.py:24-25).*)
THEOREM NothingLost ==
  ASSUME StoreConstants
  PROVE  Spec => []NothingUncounted
<1>1. Init => NothingUncounted
  <2> SUFFICES ASSUME Init, NEW e \in Epochs PROVE Counted(e)
    BY CountedIsAll
  <2>1. Issuances(e) = {} /\ Outcomes(e) = {} /\ IssuedOf(e) = {} /\ ScoredOf(e) = {}
    BY DEF Init, Issuances, Outcomes, IssuedOf, ScoredOf
  <2>2. Cardinality({}) = 0
    BY FS_EmptySet
  <2>3. retention[e].issued = 0 /\ retention[e].outcomes = 0
    BY DEF Init
  <2> QED BY <2>1, <2>2, <2>3 DEF Counted
<1>2. StoreInv /\ NothingUncounted /\ [Next]_vars => NothingUncounted'
  <2> SUFFICES ASSUME StoreInv, NothingUncounted, [Next]_vars, NEW e \in Epochs PROVE Counted(e)'
    BY CountedIsAll DEF NothingUncounted, Counted, Issuances, Outcomes, IssuedOf, ScoredOf
  <2>1. Counted(e)
    BY CountedIsAll
  <2>2. ASSUME NEW k \in Keys, NEW b \in Bundles, NEW ms \in ModelSets, issuances[k] = None, Insert(k, b, ms)
        PROVE  Counted(e)'
    BY <2>1, <2>2, InsertCounts
  <2>3. ASSUME NEW k \in Keys, NEW m \in Models, NEW v \in Payloads, CommitOutcome(k, m, v)
        PROVE  Counted(e)'
    BY <2>1, <2>3, CommitOutcomeCounts
  <2>4. ASSUME NEW c \in Clients, Compact(c)
        PROVE  Counted(e)'
    BY <2>1, <2>4, CompactCounts
  <2>5. ASSUME NEW k \in Keys, Existing(k)
        PROVE  Counted(e)'
    BY <2>1, <2>5, QuietCounts DEF Existing, journal
  <2>6. ASSUME NEW c \in Clients, RecoverFold(c) \/ WriteCheckpoint(c)
        PROVE  Counted(e)'
    BY <2>1, <2>6, QuietCounts DEF RecoverFold, WriteCheckpoint, journal, ghosts
  <2>7. ASSUME NEW c \in Clients, NEW d \in Epochs, RecoverRead(c, d)
        PROVE  Counted(e)'
    BY <2>1, <2>7, QuietCounts DEF RecoverRead, journal, ghosts
  <2>8. CASE Fail \/ Reopen \/ Tick \/ UNCHANGED vars
    BY <2>1, <2>8, QuietCounts DEF Fail, Reopen, Tick, vars, journal, ghosts
  <2>9. Steps
    BY NextCases
  <2> QED BY <2>2, <2>3, <2>4, <2>5, <2>6, <2>7, <2>8, <2>9, Zenon DEF Steps
<1> QED BY <1>1, <1>2, StoreInvariant, PTL DEF Spec

-----------------------------------------------------------------------------
(* Recovery                                                                *)

(* How often the latest checkpoint of an epoch has folded in an outcome.   *)
Base(e, p) == IF checkpoint[e] = None THEN 0 ELSE checkpoint[e].folded[p]

(* A state that folded outcome p in n times, and everything up to sequence *)
(* number last, is exact: with the later ones it has the outcome once.     *)
ExactAt(e, last, n, p) == n + (IF p \in After(e, last) THEN 1 ELSE 0) = IF p \in scored THEN 1 ELSE 0

(* No checkpoint is ahead of the journal, and recovery from it is exact.   *)
CheckpointsExact ==
  /\ \A e \in Epochs : Covered(e) <= outSeq
  /\ \A p \in Pairs : ExactAt(p[1].epoch, Covered(p[1].epoch), Base(p[1].epoch, p), p)

(* A client between the two parts of recover holds the latest checkpoint.  *)
Reading(c) ==
  client[c].step = "fold" =>
    /\ client[c].epoch \in Epochs /\ client[c].last = Covered(client[c].epoch)
    /\ \A p \in Pairs : client[c].folded[p] = Base(client[c].epoch, p)

(* One that recovered holds an exact state.                                *)
Holding(c) ==
  client[c].step = "hold" =>
    /\ client[c].epoch \in Epochs /\ client[c].last <= outSeq
    /\ \A p \in Pairs : p[1].epoch = client[c].epoch =>
         ExactAt(client[c].epoch, client[c].last, client[c].folded[p], p)

RecoverInv == CheckpointsExact /\ \A c \in Clients : Reading(c) /\ Holding(c)

LEMMA ExactIsRecovery == RecoverExact <=> \A p \in Pairs : ExactAt(p[1].epoch, Covered(p[1].epoch), Base(p[1].epoch, p), p)
BY DEF RecoverExact, ExactAt, Base

LEMMA CoveredNat ==
  ASSUME StoreInv, NEW e \in Epochs
  PROVE  Covered(e) \in Nat
BY DEF StoreInv, TypeOK, CheckpointType, Covered

(* A new outcome comes after whatever was folded.                          *)
LEMMA CommitOutcomeExact ==
  ASSUME StoreConstants, StoreInv, NEW k \in Keys, NEW m \in Models, NEW v \in Payloads, CommitOutcome(k, m, v),
         NEW last \in Nat, last <= outSeq, NEW n \in Nat, NEW p \in Pairs, ExactAt(p[1].epoch, last, n, p)
  PROVE  ExactAt(p[1].epoch, last, n, p)'
<1> DEFINE q == <<k, m>>
<1>1. q \in Pairs /\ q \notin scored
  BY CommitOutcomeKeeps
<1>2. /\ outcomes'[q] = [seq |-> outSeq + 1, payload |-> v] /\ outcomes[q] = None
      /\ p # q => outcomes'[p] = outcomes[p]
      /\ outSeq \in Nat /\ scored' = scored \cup {q}
  BY <1>1 DEF CommitOutcome, NextOutSeq, StoreInv, TypeOK
<1>3. outcomes'[q] # None /\ outcomes'[q].seq > last
  BY <1>2 DEF StoreConstants, OutcomeType
<1> HIDE DEF q
<1>4. CASE p = q
  <2>1. p \in After(p[1].epoch, last)' /\ p \notin After(p[1].epoch, last)
    BY <1>2, <1>3, <1>4 DEF After
  <2> QED BY <1>1, <1>2, <1>4, <2>1 DEF ExactAt
<1>5. CASE p # q
  <2>1. p \in After(p[1].epoch, last)' <=> p \in After(p[1].epoch, last)
    BY <1>2, <1>5 DEF After
  <2> QED BY <1>2, <1>5, <2>1 DEF ExactAt
<1> QED BY <1>4, <1>5

(* What a quiet step leaves exact.                                         *)
LEMMA QuietExact ==
  ASSUME UNCHANGED <<outcomes, scored>>, NEW e, NEW last, NEW n, NEW p
  PROVE  ExactAt(e, last, n, p)' <=> ExactAt(e, last, n, p)
BY DEF ExactAt, After

LEMMA PairEpoch ==
  ASSUME StoreConstants, NEW p \in Pairs
  PROVE  p[1] \in Keys /\ p[1].epoch \in Epochs
BY DEF StoreConstants, Pairs

LEMMA BaseNat ==
  ASSUME StoreInv, NEW e \in Epochs, NEW p \in Pairs
  PROVE  Base(e, p) \in Nat
BY DEF StoreInv, TypeOK, CheckpointType, Base

LEMMA CommitOutcomeRecovers ==
  ASSUME StoreConstants, StoreInv, RecoverInv,
         NEW k \in Keys, NEW m \in Models, NEW v \in Payloads, CommitOutcome(k, m, v)
  PROVE  RecoverInv'
<1>1. checkpoint' = checkpoint /\ client' = client /\ outSeq' = outSeq + 1 /\ outSeq \in Nat
  BY DEF CommitOutcome, NextOutSeq, StoreInv, TypeOK
<1>2. \A e : Covered(e)' = Covered(e) /\ \A p : Base(e, p)' = Base(e, p)
  BY <1>1 DEF Covered, Base
<1>3. CheckpointsExact'
  <2>1. \A e \in Epochs : Covered(e)' <= outSeq'
    BY <1>1, <1>2, CoveredNat DEF RecoverInv, CheckpointsExact
  <2>2. ASSUME NEW p \in Pairs
        PROVE  ExactAt(p[1].epoch, Covered(p[1].epoch), Base(p[1].epoch, p), p)'
    <3> DEFINE e == p[1].epoch
               last == Covered(e)
               n == Base(e, p)
    <3>1. e \in Epochs /\ last \in Nat /\ n \in Nat /\ last <= outSeq /\ ExactAt(e, last, n, p)
      BY PairEpoch, CoveredNat, BaseNat DEF RecoverInv, CheckpointsExact
    <3>2. ASSUME NEW l \in Nat, NEW j \in Nat, l <= outSeq, ExactAt(e, l, j, p)
          PROVE  ExactAt(e, l, j, p)'
      BY <3>2, CommitOutcomeExact
    <3> HIDE DEF e
    <3>3. Covered(e)' = last /\ Base(e, p)' = n
      BY <1>2
    <3> HIDE DEF last, n
    <3>4. ExactAt(e, Covered(e), Base(e, p), p)'
      BY <3>1, <3>2, <3>3 DEF ExactAt, After
    <3> QED BY <3>4 DEF e
  <2> QED BY <2>1, <2>2 DEF CheckpointsExact
<1>4. ASSUME NEW c \in Clients
      PROVE  Reading(c)' /\ Holding(c)'
  <2>1. Reading(c) /\ Holding(c)
    BY DEF RecoverInv
  <2>2. Reading(c)'
    BY <1>1, <1>2, <2>1 DEF Reading
  <2>3. ASSUME client[c].step = "hold", NEW p \in Pairs, p[1].epoch = client[c].epoch
        PROVE  ExactAt(client[c].epoch, client[c].last, client[c].folded[p], p)'
    <3> DEFINE r == client[c]
    <3>1. r.last \in Nat /\ r.folded[p] \in Nat /\ r.last <= outSeq
          /\ ExactAt(r.epoch, r.last, r.folded[p], p)
      BY <2>1, <2>3 DEF StoreInv, TypeOK, Holding
    <3>2. ASSUME NEW l \in Nat, NEW j \in Nat, l <= outSeq, ExactAt(p[1].epoch, l, j, p)
          PROVE  ExactAt(p[1].epoch, l, j, p)'
      BY <3>2, CommitOutcomeExact
    <3>3. client[c]' = r
      BY <1>1
    <3> HIDE DEF r
    <3>4. r.epoch = p[1].epoch
      BY <2>3 DEF r
    <3> QED BY <3>1, <3>2, <3>3, <3>4 DEF ExactAt, After
  <2>4. client[c].step = "hold" => client[c].epoch \in Epochs /\ client[c].last \in Nat /\ client[c].last <= outSeq
    BY <2>1 DEF Holding, StoreInv, TypeOK
  <2>5. client[c].last <= outSeq /\ client[c].last \in Nat => client[c].last <= outSeq'
    BY <1>1
  <2>6. Holding(c)'
    BY <1>1, <2>3, <2>4, <2>5 DEF Holding
  <2> QED BY <2>2, <2>6
<1> QED BY <1>3, <1>4 DEF RecoverInv

(* What the journal of a quiet step leaves of the invariant.               *)
LEMMA QuietCheckpoints ==
  ASSUME CheckpointsExact, UNCHANGED <<outcomes, scored, checkpoint, outSeq>>
  PROVE  CheckpointsExact'
BY DEF CheckpointsExact, ExactAt, After, Covered, Base

LEMMA QuietClient ==
  ASSUME NEW c \in Clients, Reading(c) /\ Holding(c), client'[c] = client[c],
         UNCHANGED <<outcomes, scored, checkpoint, outSeq>>
  PROVE  Reading(c)' /\ Holding(c)'
BY DEF Reading, Holding, ExactAt, After, Covered, Base

LEMMA IdleClient ==
  ASSUME NEW c \in Clients, client'[c].step = "idle"
  PROVE  Reading(c)' /\ Holding(c)'
BY DEF Reading, Holding

LEMMA RecoverReadRecovers ==
  ASSUME StoreConstants, OneCaller, StoreInv, RecoverInv,
         NEW c \in Clients, NEW e \in Epochs, RecoverRead(c, e)
  PROVE  RecoverInv'
<1>1. UNCHANGED <<outcomes, scored, checkpoint, outSeq>>
  BY DEF RecoverRead, journal, ghosts
<1>2. CheckpointsExact'
  BY <1>1, QuietCheckpoints DEF RecoverInv
<1>3. client'[c] = IF checkpoint[e] = None
                   THEN [step |-> "fold", epoch |-> e, last |-> 0, folded |-> Unfolded]
                   ELSE [step |-> "fold", epoch |-> e, last |-> checkpoint[e].last,
                         folded |-> checkpoint[e].folded]
  BY DEF RecoverRead, StoreInv, TypeOK
<1>4. client'[c].step = "fold" /\ client'[c].epoch = e /\ client'[c].last = Covered(e)
      /\ \A p \in Pairs : client'[c].folded[p] = Base(e, p)
  BY <1>3 DEF Covered, Base, Unfolded
<1>5. Reading(c)' /\ Holding(c)'
  BY <1>1, <1>4 DEF Reading, Holding, Covered, Base
<1> QED BY <1>2, <1>5 DEF RecoverInv, OneCaller

LEMMA RecoverFoldRecovers ==
  ASSUME StoreConstants, OneCaller, StoreInv, RecoverInv, NEW c \in Clients, RecoverFold(c)
  PROVE  RecoverInv'
<1> DEFINE r == client[c]
           later == After(r.epoch, r.last)
           top == Max({r.last} \cup {outcomes[p].seq : p \in later})
<1>1. UNCHANGED <<outcomes, scored, checkpoint, outSeq>>
  BY DEF RecoverFold, journal, ghosts
<1>2. CheckpointsExact'
  BY <1>1, QuietCheckpoints DEF RecoverInv
<1>3. client'[c] = [step |-> "hold", epoch |-> r.epoch, last |-> top,
                    folded |-> [p \in Pairs |-> r.folded[p] + IF p \in later THEN 1 ELSE 0]]
  BY DEF RecoverFold, StoreInv, TypeOK
<1>4. r.epoch \in Epochs /\ r.last = Covered(r.epoch) /\ r.last \in Nat /\ r.last <= outSeq
      /\ \A p \in Pairs : r.folded[p] = Base(r.epoch, p) /\ r.folded[p] \in Nat
  BY DEF RecoverFold, RecoverInv, Reading, CheckpointsExact, StoreInv, TypeOK
<1>5. top \in Nat /\ top >= r.last /\ top <= outSeq /\ \A p \in later : outcomes[p].seq <= top
  <2> HIDE DEF r
  <2> QED BY <1>4, FoldLast
<1>6. ASSUME NEW p \in Pairs, p[1].epoch = r.epoch
      PROVE  ExactAt(r.epoch, top, r.folded[p] + IF p \in later THEN 1 ELSE 0, p)
  <2>1. ExactAt(r.epoch, r.last, r.folded[p], p)
    BY <1>4, <1>6 DEF RecoverInv, CheckpointsExact
  <2>2. p \notin After(r.epoch, top)
    <3> SUFFICES ASSUME outcomes[p] # None, outcomes[p].seq > top PROVE FALSE
      BY DEF After
    <3>1. outcomes[p].seq \in Nat
      BY DEF StoreInv, TypeOK, OutcomeType
    <3> HIDE DEF r, top
    <3>2. outcomes[p].seq > r.last
      BY <1>4, <1>5, <3>1
    <3>3. p \in later
      BY <1>6, <3>2 DEF After
    <3> HIDE DEF later
    <3> QED BY <1>5, <3>1, <3>3
  <2> HIDE DEF r, top
  <2> QED BY <1>4, <2>1, <2>2 DEF ExactAt
<1>7. Holding(c)'
  <2> HIDE DEF r, later, top
  <2>1. client'[c].step = "hold" /\ client'[c].epoch = r.epoch /\ client'[c].last = top
        /\ \A p \in Pairs : client'[c].folded[p] = r.folded[p] + IF p \in later THEN 1 ELSE 0
    BY <1>3
  <2> QED BY <1>1, <1>4, <1>5, <1>6, <2>1 DEF Holding, ExactAt, After
<1>8. Reading(c)'
  BY <1>3 DEF Reading
<1> QED BY <1>2, <1>7, <1>8 DEF RecoverInv, OneCaller

LEMMA WriteCheckpointRecovers ==
  ASSUME StoreConstants, OneCaller, StoreInv, RecoverInv, NEW c \in Clients, WriteCheckpoint(c)
  PROVE  RecoverInv'
<1> DEFINE r == client[c]
<1>1. UNCHANGED <<outcomes, scored, outSeq>> /\ r.step = "hold"
  BY DEF WriteCheckpoint, ghosts
<1>2. client'[c] = Idle
  BY DEF WriteCheckpoint, StoreInv, TypeOK
<1>3. Reading(c)' /\ Holding(c)'
  BY <1>2, IdleClient DEF Idle
<1>4. r.epoch \in Epochs /\ r.last \in Nat /\ r.last <= outSeq /\ r.folded \in [Pairs -> Nat]
      /\ \A p \in Pairs : p[1].epoch = r.epoch => ExactAt(r.epoch, r.last, r.folded[p], p)
  BY <1>1 DEF RecoverInv, Holding, StoreInv, TypeOK
<1>5. ASSUME checkpoint' = checkpoint
      PROVE  CheckpointsExact'
  BY <1>1, <1>5, QuietCheckpoints DEF RecoverInv
<1>6. ASSUME checkpoint' = [checkpoint EXCEPT ![r.epoch] = [last |-> r.last, folded |-> r.folded]]
      PROVE  CheckpointsExact'
  <2>1. [last |-> r.last, folded |-> r.folded] # None
    BY <1>4 DEF StoreConstants, CheckpointType
  <2>2. checkpoint'[r.epoch] = [last |-> r.last, folded |-> r.folded]
        /\ \A e \in Epochs : e # r.epoch => checkpoint'[e] = checkpoint[e]
    BY <1>4, <1>6 DEF StoreInv, TypeOK
  <2> HIDE DEF r
  <2>3. \A e \in Epochs : Covered(e)' = IF e = r.epoch THEN r.last ELSE Covered(e)
    BY <2>1, <2>2 DEF Covered
  <2>4. \A e \in Epochs, p \in Pairs : Base(e, p)' = IF e = r.epoch THEN r.folded[p] ELSE Base(e, p)
    BY <2>1, <2>2 DEF Base
  <2>5. \A e \in Epochs : Covered(e)' <= outSeq'
    BY <1>1, <1>4, <2>3 DEF RecoverInv, CheckpointsExact
  <2>6. ASSUME NEW p \in Pairs
        PROVE  ExactAt(p[1].epoch, Covered(p[1].epoch), Base(p[1].epoch, p), p)'
    <3>1. p[1].epoch \in Epochs
      BY PairEpoch
    <3>2. CASE p[1].epoch = r.epoch
      BY <1>1, <1>4, <2>3, <2>4, <3>1, <3>2 DEF ExactAt, After
    <3>3. CASE p[1].epoch # r.epoch
      <4>1. ExactAt(p[1].epoch, Covered(p[1].epoch), Base(p[1].epoch, p), p)
        BY DEF RecoverInv, CheckpointsExact
      <4> QED BY <1>1, <2>3, <2>4, <3>1, <3>3, <4>1 DEF ExactAt, After
    <3> QED BY <3>2, <3>3
  <2> QED BY <2>5, <2>6 DEF CheckpointsExact
<1>7. CheckpointsExact'
  BY <1>5, <1>6 DEF WriteCheckpoint
<1> QED BY <1>3, <1>7 DEF RecoverInv, OneCaller

(* A compaction removes only outcomes the checkpoint has folded in, and no *)
(* recovery is under way.                                                  *)
LEMMA CompactRecovers ==
  ASSUME StoreConstants, OneCaller, StoreInv, RecoverInv, NEW c \in Clients, Compact(c)
  PROVE  RecoverInv'
<1> DEFINE h == now - Retention
<1>1. /\ outcomes' = [p \in Pairs |-> IF ~Removable(p[1], h) THEN outcomes[p] ELSE None]
      /\ UNCHANGED <<checkpoint, outSeq, scored, client>>
      /\ client[c].step = "idle"
  BY DEF Compact, OutcomeStays, ghosts
<1> HIDE DEF h
<1>2. Reading(c)' /\ Holding(c)'
  BY <1>1, IdleClient
<1>3. ASSUME NEW p \in Pairs
      PROVE  p \in After(p[1].epoch, Covered(p[1].epoch))' <=> p \in After(p[1].epoch, Covered(p[1].epoch))
  <2>1. p = <<p[1], p[2]>> /\ p[2] \in Models /\ p[1] \in Keys
    BY DEF Pairs
  <2>2. CASE ~Removable(p[1], h)
    BY <1>1, <2>2 DEF After, Covered
  <2>3. CASE Removable(p[1], h) /\ outcomes[p] # None
    <3>1. p[2] \in Matured(p[1])
      BY <2>1, <2>3 DEF Matured
    <3>2. outcomes[p].seq <= Covered(p[1].epoch)
      BY <2>1, <2>3, <3>1 DEF Removable
    <3>3. outcomes[p].seq \in Nat /\ Covered(p[1].epoch) \in Nat
      BY <2>3, PairEpoch, CoveredNat DEF StoreInv, TypeOK, OutcomeType
    <3>4. p \notin After(p[1].epoch, Covered(p[1].epoch))
      BY <3>2, <3>3 DEF After
    <3>5. outcomes'[p] = None
      BY <1>1, <2>3
    <3> QED BY <3>4, <3>5 DEF After
  <2>4. CASE Removable(p[1], h) /\ outcomes[p] = None
    BY <1>1, <2>4 DEF After
  <2> QED BY <2>2, <2>3, <2>4
<1>4. ASSUME NEW p \in Pairs
      PROVE  ExactAt(p[1].epoch, Covered(p[1].epoch), Base(p[1].epoch, p), p)'
  <2>1. ExactAt(p[1].epoch, Covered(p[1].epoch), Base(p[1].epoch, p), p)
    BY DEF RecoverInv, CheckpointsExact
  <2>2. Base(p[1].epoch, p)' = Base(p[1].epoch, p)
    BY <1>1 DEF Base
  <2> QED BY <1>1, <1>3, <2>1, <2>2 DEF ExactAt
<1>5. \A e \in Epochs : Covered(e)' <= outSeq'
  BY <1>1 DEF RecoverInv, CheckpointsExact, Covered
<1> QED BY <1>2, <1>4, <1>5 DEF RecoverInv, CheckpointsExact, OneCaller

LEMMA RecoverInvariant ==
  ASSUME StoreConstants, OneCaller
  PROVE  Spec => [](StoreInv /\ RecoverInv)
<1>1. Init => RecoverInv
  <2> SUFFICES ASSUME Init PROVE RecoverInv
    OBVIOUS
  <2>1. \A e \in Epochs : Covered(e) = 0 /\ \A p : Base(e, p) = 0
    BY DEF Init, Covered, Base
  <2>2. \A p \in Pairs : ExactAt(p[1].epoch, Covered(p[1].epoch), Base(p[1].epoch, p), p)
    BY <2>1, PairEpoch DEF Init, ExactAt, After
  <2>3. CheckpointsExact
    BY <2>1, <2>2 DEF CheckpointsExact, Init
  <2>4. \A c \in Clients : Reading(c) /\ Holding(c)
    BY DEF Init, Reading, Holding, Idle
  <2> QED BY <2>3, <2>4 DEF RecoverInv
<1>2. StoreInv /\ RecoverInv /\ [Next]_vars => RecoverInv'
  <2> SUFFICES ASSUME StoreInv, RecoverInv, [Next]_vars PROVE RecoverInv'
    OBVIOUS
  <2>1. ASSUME UNCHANGED <<outcomes, scored, checkpoint, outSeq, client>>
        PROVE  RecoverInv'
    BY <2>1, QuietCheckpoints, QuietClient DEF RecoverInv
  <2>2. ASSUME NEW k \in Keys, NEW b \in Bundles, NEW ms \in ModelSets, issuances[k] = None, Insert(k, b, ms)
        PROVE  RecoverInv'
    BY <2>1, <2>2 DEF Insert
  <2>3. ASSUME NEW k \in Keys, Existing(k)
        PROVE  RecoverInv'
    BY <2>1, <2>3 DEF Existing, journal
  <2>4. ASSUME NEW k \in Keys, NEW m \in Models, NEW v \in Payloads, CommitOutcome(k, m, v)
        PROVE  RecoverInv'
    BY <2>4, CommitOutcomeRecovers
  <2>5. ASSUME NEW c \in Clients, NEW e \in Epochs, RecoverRead(c, e)
        PROVE  RecoverInv'
    BY <2>5, RecoverReadRecovers
  <2>6. ASSUME NEW c \in Clients, RecoverFold(c) \/ WriteCheckpoint(c) \/ Compact(c)
        PROVE  RecoverInv'
    BY <2>6, RecoverFoldRecovers, WriteCheckpointRecovers, CompactRecovers
  <2>7. CASE Fail \/ Tick \/ UNCHANGED vars
    BY <2>1, <2>7 DEF Fail, Tick, vars, journal, ghosts
  <2>8. CASE Reopen
    <3>1. UNCHANGED <<outcomes, scored, checkpoint, outSeq>> /\ \A c \in Clients : client'[c].step = "idle"
      BY <2>8 DEF Reopen, journal, ghosts, Idle
    <3> QED BY <3>1, QuietCheckpoints, IdleClient DEF RecoverInv
  <2>9. Steps
    BY NextCases
  <2> QED BY <2>2, <2>3, <2>4, <2>5, <2>6, <2>7, <2>8, <2>9, Zenon DEF Steps
<1> QED BY <1>1, <1>2, StoreInvariant, PTL DEF Spec

(* With one caller at a time, as the service's lock has it, recovery folds *)
(* in every outcome of an epoch exactly once whenever it runs, before and  *)
(* after compaction and restarts, and nothing leaves the journal uncounted *)
(* (store.py:16-17, 22-25).                                                *)
THEOREM JournalIsExact ==
  ASSUME StoreConstants, OneCaller
  PROVE  Spec => []JournalExact
<1>1. RecoverInv => RecoverExact
  BY ExactIsRecovery DEF RecoverInv, CheckpointsExact
<1> QED BY <1>1, RecoverInvariant, NothingLost, PTL DEF JournalExact
=============================================================================
