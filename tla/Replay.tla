------------------------------- MODULE Replay -------------------------------
(***************************************************************************)
(* The chronological replay runner, ml-engine/evaluation/forecast_replay.py, *)
(* over a dataset admitted by evaluation/datasets.py: it walks the decision *)
(* origins, and may be killed between any two of its journal transactions  *)
(* and started again with the same arguments.                              *)
(*                                                                         *)
(* Time is counted in grid steps.  A sample is its event time; its value   *)
(* decides nothing here.  The forecaster is last_value.  A fold's result is *)
(* the sequence of outcomes folded.                                        *)
(***************************************************************************)
EXTENDS Integers, Sequences, FiniteSets, FiniteSetsExt, SequencesExt

CONSTANTS
  FirstOrigin, LastOrigin, Lead, Settlement, Grace,
  Delays,         \* receipt delays tried
  ExcludedSets,   \* exclusion windows tried, as sets of event times
  None,
  MaxKills

VARIABLES
  available,      \* event time -> receipt time, for the rows the dataset has
  excluded,       \* the event times inside a declared exclusion
  observations,   \* the journal: receipts, issuances, outcomes, checkpoints
  issuances,
  outcomes,
  checkpoints,
  pc, tick,       \* where the runner is
  received, state, \* its memory
  kills

journal == <<observations, issuances, outcomes, checkpoints>>
vars == <<available, excluded, journal, pc, tick, received, state, kills>>

Events == FirstOrigin..LastOrigin
Ticks == FirstOrigin..LastOrigin

(* _check_observations: event times in order, and none received before it happened. *)
Datasets == UNION {[S -> Delays] : S \in SUBSET Events}
Receipts(d) == [e \in DOMAIN d |-> e + d[e]]

-----------------------------------------------------------------------------
(* forecasting.maturation.window_outcome for the window issued at t *)
Targets(t) == (t + 1)..(t + Lead)

Outcome(t, have, now) ==
  LET end == t + Lead
      deadline == end + Settlement + Grace
      missing == {e \in Targets(t) : e \notin have \/ available[e] > Min({now, deadline})}
  IN  CASE now < end + Settlement -> None
        [] now >= end + Settlement /\ Targets(t) \intersect excluded # {} -> "excluded"
        [] OTHER -> IF missing = {} THEN "scored" ELSE IF now < deadline THEN None ELSE "missing_truth"

(* VisibleHistory: received by now, not past the settlement watermark, not excluded. *)
View(have, now) == {e \in have : available[e] <= now /\ e <= now - Settlement} \ excluded

Latest(s) == IF s = <<>> THEN None ELSE Last(s)
HasIssued(t) == \E i \in 1..Len(issuances) : issuances[i].origin = t
Closed(t) == \E i \in 1..Len(outcomes) : outcomes[i].origin = t

(* store.recover: the checkpointed fold and the outcomes after it *)
Recovered ==
  LET c == Latest(checkpoints)
  IN  IF c = None THEN outcomes ELSE c.state \o SubSeq(outcomes, c.last + 1, Len(outcomes))

-----------------------------------------------------------------------------
Init ==
  /\ \E d \in Datasets : available = Receipts(d)
  /\ excluded \in ExcludedSets
  /\ observations = {} /\ issuances = <<>> /\ outcomes = <<>> /\ checkpoints = <<>>
  /\ pc = "start" /\ tick = FirstOrigin /\ received = {} /\ state = <<>> /\ kills = 0

Goes(label) == pc' = label /\ UNCHANGED <<available, excluded, kills>>

(* Mutant: a run resumes after the last origin that was issued. *)
ResumeAfterIssued ==
  IF issuances = <<>> THEN FirstOrigin ELSE Last(issuances).origin + 1

(* A run resumes after the last completed tick. *)
ResumeFrom ==
  IF checkpoints = <<>> THEN FirstOrigin ELSE Last(checkpoints).tick + 1

Start ==
  /\ pc = "start"
  /\ tick' = ResumeFrom
  /\ Goes(IF ResumeFrom > LastOrigin THEN "finished" ELSE "ingest")
  /\ UNCHANGED <<journal, received, state>>

(* Step 1: every receipt up to now, in one transaction; a row already in the *)
(* journal stays as it was.                                                  *)
Ingest ==
  /\ pc = "ingest"
  /\ received' = {e \in DOMAIN available : available[e] <= tick}
  /\ observations' = observations \union received'
  /\ Goes("close")
  /\ UNCHANGED <<issuances, outcomes, checkpoints, tick, state>>

(* Step 2: windows that ended by now - settlement, without an outcome, in  *)
(* window-end order; one transaction each.                                 *)
Closable ==
  {t \in Ticks : /\ HasIssued(t) /\ ~Closed(t)
                 /\ t + Lead <= tick - Settlement
                 /\ Outcome(t, received, tick) # None}

CloseOne ==
  /\ pc = "close" /\ Closable # {}
  /\ LET t == Min(Closable)
     IN  outcomes' = Append(outcomes, [origin |-> t, status |-> Outcome(t, received, tick), at |-> tick])
  /\ Goes("close")
  /\ UNCHANGED <<observations, issuances, checkpoints, tick, received, state>>

(* Step 3: the fold the issuance will be made from. *)
Fold ==
  /\ pc = "close" /\ Closable = {}
  /\ state' = Recovered
  /\ Goes("issue")
  /\ UNCHANGED <<journal, tick, received>>

Visible == View(received, tick)

(* Steps 4 and 5: a committed bundle is never recomputed. *)
Issue ==
  /\ pc = "issue"
  /\ issuances' =
       IF Visible = {} \/ HasIssued(tick) THEN issuances
       ELSE Append(issuances, [origin |-> tick, seen |-> Visible, state |-> state])
  /\ Goes("checkpoint")
  /\ UNCHANGED <<observations, outcomes, checkpoints, tick, received, state>>

(* Step 6. *)
Checkpoint ==
  /\ pc = "checkpoint"
  /\ checkpoints' = Append(checkpoints, [tick |-> tick, state |-> state, last |-> Len(state)])
  /\ tick' = tick + 1
  /\ Goes(IF tick = LastOrigin THEN "finished" ELSE "ingest")
  /\ UNCHANGED <<observations, issuances, outcomes, received, state>>

(* The process dies; a later run starts from the journal alone. *)
Kill ==
  /\ pc \notin {"start", "finished"} /\ kills < MaxKills
  /\ kills' = kills + 1
  /\ pc' = "start" /\ tick' = FirstOrigin /\ received' = {} /\ state' = <<>>
  /\ UNCHANGED <<available, excluded, journal>>

Finished == pc = "finished" /\ UNCHANGED vars

Next ==
  \/ Start \/ Ingest \/ CloseOne \/ Fold \/ Issue \/ Checkpoint \/ Kill \/ Finished

Spec == Init /\ [][Next]_vars

-----------------------------------------------------------------------------
(* What a run that nobody interrupts leaves behind, from the dataset alone. *)
SeenAt(t) == {e \in DOMAIN available : available[e] <= t /\ e <= t - Settlement} \ excluded
Origins == {t \in Ticks : SeenAt(t) # {}}
StatusAt(t, n) == Outcome(t, {e \in DOMAIN available : available[e] <= n}, n)
Decided(n) ==
  SetToSortSeq({[origin |-> t, status |-> StatusAt(t, m), at |-> m] :
                  <<t, m>> \in {p \in Origins \X Ticks : /\ p[2] <= n
                                                         /\ StatusAt(p[1], p[2]) # None
                                                         /\ \A k \in Ticks : k < p[2] => StatusAt(p[1], k) = None}},
               LAMBDA a, b : a.at < b.at \/ (a.at = b.at /\ a.origin < b.origin))
Uninterrupted ==
  <<{e \in DOMAIN available : available[e] <= LastOrigin},
    SetToSortSeq({[origin |-> t, seen |-> SeenAt(t), state |-> Decided(t)] : t \in Origins},
                 LAMBDA a, b : a.origin < b.origin),
    Decided(LastOrigin),
    [i \in 1..Cardinality(Ticks) |->
       [tick |-> FirstOrigin + i - 1, state |-> Decided(FirstOrigin + i - 1),
        last |-> Len(Decided(FirstOrigin + i - 1))]]>>

(* However often a replay is killed, and between whichever two transactions,  *)
(* the finished journal (the rows journal_digest hashes, in commit order) is  *)
(* the one an uninterrupted run leaves (run_replay).                          *)
SameJournal == pc = "finished" => journal = Uninterrupted

(* No forecast is made from an observation that was not both received and     *)
(* settled at its origin, and every outcome folded into it was decided by     *)
(* then: a resumed run knows more receipts, never more future.                *)
NoFuture ==
  \A i \in 1..Len(issuances) :
    /\ \A e \in issuances[i].seen : available[e] <= issuances[i].origin /\ e <= issuances[i].origin - Settlement
    /\ \A j \in 1..Len(issuances[i].state) : issuances[i].state[j].at <= issuances[i].origin
=============================================================================
