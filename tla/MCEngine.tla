------------------------------ MODULE MCEngine ------------------------------
(***************************************************************************)
(* The statistical forecast engine, component by component: the journal,   *)
(* the trust state, the evidence ledger, the calibration, the issuing and  *)
(* settling of windows, the request path, admission and authentication     *)
(* (the LSTM service has them too) and the numerical kernel.  They are     *)
(* checked in one run; a behaviour is one of the component that part       *)
(* names.                                                                  *)
(***************************************************************************)
EXTENDS ForecastStore, TLC

CONSTANTS e1, payload, c1, s1, statistical, naive, caller1, caller2, name1,
          name2

(* One epoch with two windows that end at different times.                 *)
Key(end) == [epoch |-> e1, end |-> end, id |-> 1]
TwoKeys == {Key(1), Key(2)}

(* Two sets of interchangeable values: the threads of the service and the  *)
(* bundles of the journal; the names of autoscalers and of models.         *)
Callers == {caller1, caller2}
Names == {name1, name2}

VARIABLES
  part,  \* the component this behaviour is of
  v1, v2, v3, v4, v5, v6, v7, v8, v9, v10, v11, v12, v13, v14, v15, v16,
  v17, v18  \* its variables, in the order it declares them

Trust == INSTANCE Trust WITH
  Order <- <<statistical, naive>>, RepromotionHours <- 2,
  RepromotionWindows <- 1, MayBeAbsent <- FALSE, MaxTime <- 4,
  MaxBounds <- 1, hyst <- v1, selected <- v2, entrySince <- v3,
  bounds <- v4, now <- v5, demotion <- v6, gatesHeld <- v7, entryHeld <- v8

Ledger == INSTANCE EvidenceLedger WITH
  Hour <- 2, Day <- 4, Retention <- 6, Lead <- 2, Settlement <- 1,
  Grace <- 1, RecentN <- 2, MaxIssuances <- 2, MaxTime <- 9,
  issuances <- v1, outcomes <- v2, ledger <- v3, now <- v4

Calib == INSTANCE Calibration WITH
  Bps <- 10, Nominal <- 6, Eta <- 3, MinBps <- 5, MaxBps <- 8,
  MinWindows <- 1, MaxScores <- 2, Retention <- 5, Lead <- 2, Scores <- {0},
  Origins <- {0, 1, 2, 4, 6}, MaxRecords <- 4, level <- v1, scores <- v2,
  newest <- v3, bounded <- v4, covered <- v5, atBound <- v6, lastSeq <- v7,
  journal <- v8

Service == INSTANCE ForecastService WITH
  Requests <- Callers, Interval <- 2, Lead <- 2, Settlement <- 1,
  Grace <- 1, Allowance <- 0, Retention <- 1, CompactEvery <- 1,
  Settings <- {s1}, MaxTime <- 4, MaxCrashes <- 0, MaxEdits <- 0, now <- v1,
  settings <- v2, visible <- v3, obs <- v4, iss <- v5, out <- v6,
  checkpoint <- v7, horizon <- v8, issSeq <- v9, outSeq <- v10,
  compacted <- v11, lock <- v12, held <- v13, req <- v14, crashes <- v15,
  edits <- v16, issued <- v17, closed <- v18

Request == INSTANCE ForecastRequest WITH
  Workers <- Callers, Dt <- 2, Horizon <- 12, Settle <- 1, Allowance <- 0,
  Interval <- 2, Budgets <- {2}, HistorySlots <- 2, Deadline <- 3,
  MaxRegistered <- 1, Settings <- {s1}, MaxTime <- 6, MaxEdits <- 3,
  now <- v1, arrival <- v2, pa <- v3, registry <- v4, journal <- v5,
  lock <- v6, req <- v7, edits <- v8

Kernel == INSTANCE StatKernel WITH
  Season <- 2, ProfileDays <- 2, MinSupport <- 1, ArOrder <- 1,
  ArWindow <- 4, MinRows <- 1, MinSpan <- 0, HwMin <- 3, HwMax <- 4,
  MinHistory <- 4, MinObserved <- 3, Steps <- 2, HistorySlots <- 8,
  FirstEnd <- 4, LastSlot <- 10, MaxFits <- 2, world <- v1, end <- v2,
  fits <- v3, points <- v4

Gate == INSTANCE Gate WITH
  Requests <- Callers, Tokens <- {"k1", "k2"},
  Subjects <- [path \in {"predict", "metrics"} |-> IF path = "predict" THEN {"k1"} ELSE {"k1", "k2"}],
  Expiry <- [k1 |-> 1, k2 |-> 0],
  Slots <- [review |-> 1, work |-> 2, infer |-> 1], CacheTtl <- 1,
  Deadline <- 1, MaxEntries <- 1, MaxTime <- 2, lstm <- v1, service <- v2,
  req <- v3, free <- v4, cache <- v5, revoked <- v6, now <- v7

EngineVars == <<part, v1, v2, v3, v4, v5, v6, v7, v8, v9, v10, v11, v12,
          v13, v14, v15, v16, v17, v18, vars>>

pool == <<v1, v2, v3, v4, v5, v6, v7, v8, v9, v10, v11, v12, v13, v14, v15,
        v16, v17, v18>>

(* The variables a component does not have stay None.                      *)
Idle1 ==
  /\ v2 = None /\ v3 = None /\ v4 = None /\ v5 = None /\ v6 = None
  /\ v7 = None /\ v8 = None /\ v9 = None /\ v10 = None /\ v11 = None
  /\ v12 = None /\ v13 = None /\ v14 = None /\ v15 = None /\ v16 = None
  /\ v17 = None /\ v18 = None
Idle4 ==
  /\ v5 = None /\ v6 = None /\ v7 = None /\ v8 = None /\ v9 = None
  /\ v10 = None /\ v11 = None /\ v12 = None /\ v13 = None /\ v14 = None
  /\ v15 = None /\ v16 = None /\ v17 = None /\ v18 = None
Idle7 ==
  /\ v8 = None /\ v9 = None /\ v10 = None /\ v11 = None /\ v12 = None
  /\ v13 = None /\ v14 = None /\ v15 = None /\ v16 = None /\ v17 = None
  /\ v18 = None
Idle8 ==
  /\ v9 = None /\ v10 = None /\ v11 = None /\ v12 = None /\ v13 = None
  /\ v14 = None /\ v15 = None /\ v16 = None /\ v17 = None /\ v18 = None

EngineInit ==
  /\ Init
  /\ \/ part = "store" /\ v1 = None /\ Idle1
     \/ part = "trust" /\ Trust!Init /\ Idle8
     \/ part = "ledger" /\ Ledger!Init /\ Idle4
     \/ part = "calibration" /\ Calib!Init /\ Idle8
     \/ part = "service" /\ Service!Init
     \/ part = "request" /\ Request!Init /\ Idle8
     \/ part = "kernel" /\ Kernel!Init /\ Idle4
     \/ part = "gate" /\ Gate!Init /\ Idle7

EngineNext ==
  /\ UNCHANGED part
  /\ \/ part = "store" /\ Next /\ UNCHANGED pool
     \/ part = "trust" /\ Trust!Next
        /\ UNCHANGED <<vars, v9, v10, v11, v12, v13, v14, v15, v16, v17, v18>>
     \/ part = "ledger" /\ Ledger!Next
        /\ UNCHANGED <<vars, v5, v6, v7, v8, v9, v10, v11, v12, v13, v14,
                       v15, v16, v17, v18>>
     \/ part = "calibration" /\ Calib!Next
        /\ UNCHANGED <<vars, v9, v10, v11, v12, v13, v14, v15, v16, v17, v18>>
     \/ part = "service" /\ Service!Next /\ UNCHANGED vars
     \/ part = "request" /\ Request!Next
        /\ UNCHANGED <<vars, v9, v10, v11, v12, v13, v14, v15, v16, v17, v18>>
     \/ part = "kernel" /\ Kernel!Next
        /\ UNCHANGED <<vars, v5, v6, v7, v8, v9, v10, v11, v12, v13, v14,
                       v15, v16, v17, v18>>
     \/ part = "gate" /\ Gate!Next
        /\ UNCHANGED <<vars, v8, v9, v10, v11, v12, v13, v14, v15, v16, v17,
                       v18>>

EngineSpec == EngineInit /\ [][EngineNext]_EngineVars

-----------------------------------------------------------------------------
ASSUME EngineConstants ==
  StoreConstants /\ Trust!TrustConstants /\ Ledger!LedgerConstants /\ Calib!PolicyFeasible

Symmetry ==
  Permutations(Callers) \cup Permutations(Names)

-----------------------------------------------------------------------------
(* Properties                                                              *)

(* A demoted model is trusted again only after its gates held for the      *)
(* repromotion hours with new bounded windows, and a challenger is         *)
(* selected only after its entry test held as long; what is selected is    *)
(* trusted (trust.py:32-34, 43-46).                                        *)
TrustWaits ==
  [][part = "trust" =>
       Trust!RepromotionStep /\ Trust!EntryHeldLong /\ Trust!SelectedIsTrusted']_EngineVars

(* What the gates read from the ledger is what the journal holds for the   *)
(* trailing window, although buckets are dropped and records are delivered *)
(* again: the counts, what is overdue, what was expected, and the recent   *)
(* run of misses (trust.py:236-244).                                       *)
WindowsExact ==
  part = "ledger" =>
    Ledger!WindowExact /\ Ledger!OverdueExact /\ Ledger!IssuedWithinExpected /\ Ledger!AcuteExact

(* The score buffer is the newest scores of the cohort, the level carries  *)
(* exactly the coverage debt while it was never clipped, and a calibrated  *)
(* window has a bound (calibration.py:203-212).                            *)
CalibrationExact ==
  part = "calibration" =>
    Calib!BufferExact /\ Calib!LevelTracksCoverage /\ Calib!CalibratedHasBound

(* With two requests that wait for each other: a window is issued before   *)
(* its first target and from a state into which everything committed so    *)
(* far was folded, and the latest checkpoint and what the journal holds    *)
(* after it make up everything ever committed, each once                   *)
(* (service.py:21-22, 180-240).                                            *)
ServedInTurn ==
  [][part = "service" =>
       Service!IssuedInTime /\ Service!DecidedFromCheckpoint /\ Service!EachFoldedOnce']_EngineVars

(* What a completed read says of a slot is final: a slot missing from it   *)
(* never fills later (history.py:9-10, the watermark).  And an answer      *)
(* fails the service's own check only when it was issued under another     *)
(* startup budget at the same lead, never because the clock moved on or    *)
(* two requests overlapped (contracts.py:630-701).                         *)
RequestsExact == part = "request" => Request!SlotsFinal /\ Request!ChecksOwnAnswer

(* Every slot is free or held by one unfinished future, a request goes on  *)
(* only with a token reviewed recently enough, and nothing runs on a       *)
(* closed service (admission.py:28-38, auth.py:147-182, 246-258,           *)
(* statistical.py:70-79).                                                  *)
AdmissionExact ==
  part = "gate" => Gate!SlotsExact /\ Gate!AdmittedFresh /\ Gate!NoWorkAfterClose

(* A forecast rests only on values observed by its read's end, and the     *)
(* input digest of a fit covers every value the fit was computed from      *)
(* (statistical.py:143, 346-386).                                          *)
ForecastsFromObserved == part = "kernel" => Kernel!PointsObserved /\ Kernel!DigestCovers

-----------------------------------------------------------------------------
(* The trust state where an evaluation may leave a candidate out.          *)

Absent == INSTANCE Trust WITH
  Order <- <<statistical, naive>>, RepromotionHours <- 2,
  RepromotionWindows <- 1, MayBeAbsent <- TRUE, MaxTime <- 5,
  MaxBounds <- 1, hyst <- v1, selected <- v2, entrySince <- v3,
  bounds <- v4, now <- v5, demotion <- v6, gatesHeld <- v7, entryHeld <- v8

AbsentInit == Init /\ part = "absent" /\ Absent!Init /\ Idle8
AbsentNext ==
  Absent!Next
        /\ UNCHANGED <<part, vars, v9, v10, v11, v12, v13, v14, v15, v16,
                       v17, v18>>
AbsentSpec == AbsentInit /\ [][AbsentNext]_EngineVars

(* Once demoted, a candidate is trusted again only after its gates have    *)
(* held for the repromotion hours and the required number of new gate      *)
(* bounds have matured since the demotion (trust.py:32-34).                *)
RepromotionWaits == [][Absent!RepromotionStep]_EngineVars
=============================================================================
