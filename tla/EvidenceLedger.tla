--------------------------- MODULE EvidenceLedger ---------------------------
(***************************************************************************)
(* The evidence ledger of one candidate (ml-engine/forecasting/trust.py):  *)
(* hourly counts, pending windows, acute state and totals, folded from the *)
(* journal in sequence order and read by the trust gates at any later      *)
(* time.                                                                   *)
(*                                                                         *)
(* The journal is the history the ledger must agree with.  The loss and    *)
(* error sums of a bucket are folded like its counts and left out.  An     *)
(* issuance is named by its origin, one per origin and epoch as the code   *)
(* assumes; the time is in grid intervals.                                 *)
(***************************************************************************)
EXTENDS Integers, Sequences, FiniteSets, SequencesExt, FiniteSetsExt

CONSTANTS Hour, Day, Retention,   \* in grid intervals
          Lead,                   \* lead_s
          Settlement, Grace,      \* settlement_seconds, outcome_grace_seconds
          RecentN,                \* acute_recent_windows
          MaxIssuances, MaxTime,  \* bounds of the model
          None

LedgerConstants ==
  /\ Hour \in Nat \ {0} /\ Day \in Nat \ {0} /\ Lead \in Nat \ {0} /\ RecentN \in Nat \ {0}
  /\ Retention >= Day
  /\ Settlement \in Nat /\ Grace \in Nat /\ MaxIssuances \in Nat /\ MaxTime \in Nat

VARIABLES issuances,   \* the journal's issuances in sequence order: [origin, mode, bounded]
          outcomes,    \* the journal's outcomes in sequence order: [origin, status]
          ledger,
          now

vars == <<issuances, outcomes, ledger, now>>

Modes == {"prospective", "replay"}
Statuses == {"covered", "missed", "unscorable"}
Counts == {"iss", "sc", "un", "g_bd", "g_cv", "r_iss", "r_sc", "r_un"}
Hours == 0 .. (MaxTime \div Hour)
Empty == [f \in Counts |-> 0]

(* A bucket per hour; the code creates them on demand, an absent one       *)
(* counts nothing.                                                         *)
NewLedger ==
  [buckets |-> [h \in Hours |-> Empty], pending |-> {}, recent |-> <<>>, misses |-> 0,
   firstIssue |-> None, lastOut |-> 0, lastIss |-> 0, newest |-> None]

TypeOK ==
  /\ issuances \in Seq([origin : 0 .. MaxTime, mode : Modes, bounded : BOOLEAN])
  /\ outcomes \in Seq([origin : 0 .. MaxTime, status : Statuses])
  /\ ledger.buckets \in [Hours -> [Counts -> 0 .. MaxIssuances]]
  /\ ledger.pending \subseteq 0 .. MaxTime + Lead
  /\ ledger.recent \in Seq(BOOLEAN) /\ Len(ledger.recent) <= RecentN
  /\ ledger.misses \in 0 .. MaxIssuances
  /\ ledger.firstIssue \in 0 .. MaxTime \cup {None} /\ ledger.newest \in 0 .. MaxTime \cup {None}
  /\ ledger.lastIss \in 0 .. Len(issuances) /\ ledger.lastOut \in 0 .. Len(outcomes)
  /\ now \in 0 .. MaxTime

Init ==
  /\ issuances = <<>> /\ outcomes = <<>>
  /\ ledger = NewLedger
  /\ now = 0

----------------------------------------------------------------------------
(* Folding                                                                 *)

InCohort(origin) == origin % Lead = 0
Deadline(end) == end + Settlement + Grace

(* Mutant: a window counts from its hour's start, not from its end.        *)
PruneTight(led, t) ==
  LET newest == IF led.newest = None \/ led.newest < t THEN t ELSE led.newest
      floor == (newest - Retention) \div Hour
  IN [led EXCEPT !.newest = newest,
                 !.buckets = [h \in Hours |-> IF h > floor + 1 THEN @[h] ELSE Empty],
                 !.pending = {e \in @ : e > newest - Day}]

(* _prune.                                                                 *)
Prune(led, t) ==
  LET newest == IF led.newest = None \/ led.newest < t THEN t ELSE led.newest
      floor == (newest - Retention) \div Hour
  IN [led EXCEPT !.newest = newest,
                 !.buckets = [h \in Hours |-> IF h > floor THEN @[h] ELSE Empty],
                 !.pending = {e \in @ : e > newest - Day}]

(* Adds the counts of one record to the bucket of time t (_bucket).        *)
Add(led, t, fields) ==
  [led EXCEPT !.buckets[t \div Hour] = [f \in Counts |-> @[f] + IF f \in fields THEN 1 ELSE 0]]

(* Exactly once by the journal's sequence number.                          *)
Fresh(seq, last) == seq > last

(* note_issuance.                                                          *)
NoteIssuance(led, seq, i) ==
  LET replay == i.mode = "replay"
      a == Add([led EXCEPT !.lastIss = seq], i.origin, IF replay THEN {"r_iss"} ELSE {"iss"})
      b == IF replay THEN a
           ELSE [a EXCEPT !.pending = @ \cup {i.origin + Lead},
                          !.firstIssue = IF @ = None THEN i.origin ELSE @]
  IN IF Fresh(seq, led.lastIss) THEN Prune(b, i.origin) ELSE led

IssuanceOf(origin) == CHOOSE i \in Range(issuances) : i.origin = origin

(* The counts a record adds to its bucket.                                 *)
Counted(i, status) ==
  LET scored == status # "unscorable" IN
  CASE i.mode = "replay" -> {IF scored THEN "r_sc" ELSE "r_un"}
    [] i.mode # "replay" /\ ~scored -> {"un"}
    [] OTHER -> {"sc"} \cup (IF i.bounded /\ InCohort(i.origin)
                             THEN {"g_bd"} \cup (IF status = "covered" THEN {"g_cv"} ELSE {})
                             ELSE {})

(* A prospective bound of the cohort: the only records that move the acute *)
(* state.                                                                  *)
GateBound(i, status) ==
  i.mode = "prospective" /\ status # "unscorable" /\ i.bounded /\ InCohort(i.origin)

(* note_outcome, the acute state.                                          *)
Acute(led, i, status) ==
  IF ~GateBound(i, status) THEN led
  ELSE LET all == Append(led.recent, status = "covered")
           from == IF Len(all) > RecentN THEN Len(all) - RecentN + 1 ELSE 1
       IN [led EXCEPT !.recent = SubSeq(all, from, Len(all)),
                      !.misses = IF status = "covered" THEN 0 ELSE @ + 1]

(* note_outcome.                                                           *)
NoteOutcome(led, seq, o) ==
  LET i == IssuanceOf(o.origin)
      end == o.origin + Lead
      a == [led EXCEPT !.lastOut = seq, !.pending = @ \ {end}]
      b == Acute(Add(a, end, Counted(i, o.status)), i, o.status)
  IN IF Fresh(seq, led.lastOut) THEN Prune(b, end) ELSE led

----------------------------------------------------------------------------
(* Reading                                                                 *)

CeilDiv(a, b) == -((-a) \div b)

(* _hours.                                                                 *)
FirstHour(t, s) == CeilDiv(t - s, Hour)
LastHour(t) == t \div Hour
InWindow(x, t, s) == x \div Hour \in FirstHour(t, s) .. LastHour(t)

(* window_sums.                                                            *)
WindowSum(led, f, t, s) ==
  MapThenSumSet(LAMBDA h : led.buckets[h][f], Hours \cap (FirstHour(t, s) .. LastHour(t)))

(* overdue.                                                                *)
Overdue(led, t, s) == Cardinality({e \in led.pending : InWindow(e, t, s) /\ Deadline(e) <= t})

(* expected_opportunities: grid origins since the first issuance.          *)
Expected(led, t, s) ==
  IF led.firstIssue = None THEN 0
  ELSE LET low == FirstHour(t, s) * Hour
           start == IF low > led.firstIssue THEN low ELSE led.firstIssue
       IN IF t >= start THEN t - start + 1 ELSE 0

----------------------------------------------------------------------------
(* The journal grows by an issuance at the current origin, or by an        *)
(* outcome once its window has settled, and ForecastService._recover folds *)
(* it in before anything reads the ledger.                                 *)

Issue(mode, bounded) ==
  LET i == [origin |-> now, mode |-> mode, bounded |-> bounded] IN
  /\ Len(issuances) < MaxIssuances
  /\ \A j \in Range(issuances) : j.origin # now
  /\ now + Lead <= MaxTime
  /\ issuances' = Append(issuances, i)
  /\ ledger' = NoteIssuance(ledger, Len(issuances) + 1, i)
  /\ UNCHANGED <<outcomes, now>>

Resolve(i, status) ==
  LET o == [origin |-> i.origin, status |-> status] IN
  /\ \A p \in Range(outcomes) : p.origin # i.origin
  /\ now >= i.origin + Lead + Settlement
  /\ outcomes' = Append(outcomes, o)
  /\ ledger' = NoteOutcome(ledger, Len(outcomes) + 1, o)
  /\ UNCHANGED <<issuances, now>>

(* A record that was folded in is delivered again.                         *)
Redeliver ==
  /\ \/ \E n \in DOMAIN issuances : ledger' = NoteIssuance(ledger, n, issuances[n])
     \/ \E n \in DOMAIN outcomes : ledger' = NoteOutcome(ledger, n, outcomes[n])
  /\ UNCHANGED <<issuances, outcomes, now>>

Tick ==
  /\ now < MaxTime
  /\ now' = now + 1
  /\ UNCHANGED <<issuances, outcomes, ledger>>

Next ==
  \/ \E mode \in Modes, bounded \in BOOLEAN : Issue(mode, bounded)
  \/ \E i \in Range(issuances), status \in Statuses : Resolve(i, status)
  \/ Redeliver
  \/ Tick

Spec == Init /\ [][Next]_vars

----------------------------------------------------------------------------
(* Properties.  The reference is the journal itself.                       *)

OutcomesOf(P(_, _)) == {o \in Range(outcomes) : P(IssuanceOf(o.origin), o.status)}

(* A gate reads after everything folded so far.                            *)
Readable == ledger.newest # None => now > ledger.newest

Spans == {Day, Retention}

(* The counts the coverage and shadow gates read are exactly those of the  *)
(* journal's prospective records in the trailing window, although old      *)
(* buckets are dropped and records are delivered again (trust.py:236-244). *)
WindowExact ==
  Readable => \A s \in Spans :
    LET within(S) == {o \in S : InWindow(o.origin + Lead, now, s)}
        scored == OutcomesOf(LAMBDA i, st : i.mode = "prospective" /\ st # "unscorable")
        bounded == OutcomesOf(GateBound)
        covered == {o \in bounded : o.status = "covered"}
        unscorable == OutcomesOf(LAMBDA i, st : i.mode = "prospective" /\ st = "unscorable")
    IN /\ WindowSum(ledger, "sc", now, s) = Cardinality(within(scored))
       /\ WindowSum(ledger, "un", now, s) = Cardinality(within(unscorable))
       /\ WindowSum(ledger, "g_bd", now, s) = Cardinality(within(bounded))
       /\ WindowSum(ledger, "g_cv", now, s) = Cardinality(within(covered))

(* The overdue windows the availability gate counts are exactly the        *)
(* prospective ones of the last day past their deadline without an         *)
(* outcome, although pending windows are dropped (trust.py:247-250).       *)
OverdueExact ==
  Readable =>
    Overdue(ledger, now, Day) =
      Cardinality({i \in Range(issuances) : /\ i.mode = "prospective"
                                  /\ InWindow(i.origin + Lead, now, Day)
                                  /\ Deadline(i.origin + Lead) <= now
                                  /\ \A o \in Range(outcomes) : o.origin # i.origin})

(* Prediction availability is a ratio: never more issuances in the window  *)
(* than grid origins expected in it, so the cap in availability() hides    *)
(* nothing (trust.py:264-271).                                             *)
IssuedWithinExpected ==
  WindowSum(ledger, "iss", now, Day) <= Expected(ledger, now, Day)

(* The acute gate sees the cohort's prospective bounds in sequence order:  *)
(* the run of misses at the end, and the last RecentN (trust.py:218-224).  *)
AcuteExact ==
  LET seen == SelectSeq(outcomes, LAMBDA o : GateBound(IssuanceOf(o.origin), o.status))
      n == Len(seen)
  IN /\ \A k \in 0 .. n : ledger.misses >= k <=> \A j \in n - k + 1 .. n : seen[j].status = "missed"
     /\ Len(ledger.recent) = IF n < RecentN THEN n ELSE RecentN
     /\ \A k \in 1 .. Len(ledger.recent) :
          ledger.recent[k] <=> seen[n - Len(ledger.recent) + k].status = "covered"
=============================================================================
