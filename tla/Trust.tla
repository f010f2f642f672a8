------------------------------- MODULE Trust -------------------------------
(***************************************************************************)
(* Trust hysteresis and selection of forecast candidates                   *)
(* (ml-engine/forecasting/trust.py), as ForecastService._build drives      *)
(* them: every evaluation replaces the whole stored state.                 *)
(*                                                                         *)
(* The state of one evidence epoch.  The epoch and the recipes are         *)
(* constants of a service version, so the checks that start a state of     *)
(* another epoch or recipe over never fire and are left out.  What an      *)
(* evaluation is given is abstracted to the sets it tells apart: the       *)
(* candidates present, those whose gates all hold, those whose paired      *)
(* evidence passes the entry ratio and those that pass the exit ratio.     *)
(* Time is in hours.                                                       *)
(***************************************************************************)
EXTENDS Integers, Sequences, FiniteSetsExt

CONSTANTS Order,               \* FALLBACK_ORDER: challengers first, the naive last
          RepromotionHours,    \* repromotion_hours
          RepromotionWindows,  \* repromotion_windows
          MayBeAbsent,         \* an evaluation may leave candidates out
          MaxTime,             \* bound of the model: the clock
          MaxBounds,           \* bound of the model: matured gate bounds of a candidate
          None

Candidates == {Order[i] : i \in DOMAIN Order}
Naive == Order[Len(Order)]
Challengers == Candidates \ {Naive}

Times == 0 .. MaxTime
Hysteresis == [trusted : BOOLEAN, ever : BOOLEAN, demotedAt : Times \cup {None},
               boundsAt : 0 .. MaxBounds, okSince : Times \cup {None}]
Demotions == [at : Times, bounds : 0 .. MaxBounds]

TrustConstants ==
  /\ Len(Order) \in Nat \ {0} /\ DOMAIN Order = 1 .. Len(Order)
  /\ \A i, j \in DOMAIN Order : Order[i] = Order[j] => i = j
  /\ RepromotionHours \in Nat \ {0} /\ RepromotionWindows \in Nat
  /\ MayBeAbsent \in BOOLEAN /\ MaxTime \in Nat /\ MaxBounds \in Nat
  /\ None \notin Candidates /\ None \notin Nat /\ None \notin Hysteresis /\ None \notin Demotions

VARIABLES hyst,        \* model -> its hysteresis, or None when the state has no entry for it
          selected,    \* the selected candidate or None
          entrySince,  \* challenger -> when its entry test began to hold, or None
          bounds,      \* model -> totals.prospective_gate_bounded of its ledger
          now,
          demotion,    \* history: the last demotion [at, bounds] of a model, or None
          gatesHeld,   \* history: since when every evaluation found the model's gates to hold, or None
          entryHeld    \* history: since when every evaluation passed the challenger's entry test, or None

state == <<hyst, selected, entrySince>>
ghosts == <<demotion, gatesHeld, entryHeld>>
vars == <<state, bounds, now, ghosts>>

TypeOK ==
  /\ hyst \in [Candidates -> Hysteresis \cup {None}]
  /\ selected \in Candidates \cup {None}
  /\ entrySince \in [Challengers -> Times \cup {None}]
  /\ bounds \in [Candidates -> 0 .. MaxBounds]
  /\ now \in Times
  /\ demotion \in [Candidates -> Demotions \cup {None}]
  /\ gatesHeld \in [Candidates -> Times \cup {None}]
  /\ entryHeld \in [Challengers -> Times \cup {None}]

NewHysteresis == [trusted |-> FALSE, ever |-> FALSE, demotedAt |-> None, boundsAt |-> 0, okSince |-> None]

Init ==
  /\ hyst = [m \in Candidates |-> None]
  /\ selected = None
  /\ entrySince = [m \in Challengers |-> None]
  /\ bounds = [m \in Candidates |-> 0]
  /\ now = 0
  /\ demotion = [m \in Candidates |-> None]
  /\ gatesHeld = [m \in Candidates |-> None]
  /\ entryHeld = [m \in Challengers |-> None]

Since(t) == IF t = None THEN now ELSE t
HeldFor(t) == t # None /\ now - Since(t) >= RepromotionHours

----------------------------------------------------------------------------
(* The hysteresis of one candidate                                         *)

(* Mutant: the hours of the gates are required, the new windows are not.   *)
RepromotableUncounted(h, b) == HeldFor(h.okSince) /\ h.demotedAt # None /\ now > h.demotedAt

(* step: the gates have held long enough since the demotion, over enough   *)
(* new bounds.                                                             *)
Repromotable(h, b) ==
  /\ HeldFor(h.okSince)
  /\ h.demotedAt # None /\ now > h.demotedAt
  /\ b - h.boundsAt >= RepromotionWindows

(* step: demoted at once.                                                  *)
Demote(h, b) == [h EXCEPT !.trusted = FALSE, !.demotedAt = now, !.boundsAt = b, !.okSince = None]

(* step for a candidate whose gates hold and that is not trusted.          *)
Waiting(h, b) ==
  LET g == [h EXCEPT !.okSince = Since(h.okSince)]
  IN CASE ~g.ever -> [g EXCEPT !.trusted = TRUE, !.ever = TRUE]
       [] g.ever /\ Repromotable(g, b) -> [g EXCEPT !.trusted = TRUE]
       [] OTHER -> g

(* step.                                                                   *)
Step(h, ok, b) ==
  CASE h.trusted /\ ok -> h
    [] h.trusted /\ ~ok -> Demote(h, b)
    [] ~h.trusted /\ ~ok -> [h EXCEPT !.okSince = None]
    [] OTHER -> Waiting(h, b)

(* evaluate: the new state holds the candidates of this evaluation only.   *)
StepAll(P, Ok) ==
  [m \in Candidates |-> IF m \notin P THEN None
                        ELSE Step(IF hyst[m] = None THEN NewHysteresis ELSE hyst[m], m \in Ok, bounds[m])]

----------------------------------------------------------------------------
(* Selection                                                               *)

Trusts(H, m) == H[m] # None /\ H[m].trusted

(* select: the clock of a challenger whose entry test holds keeps running, *)
(* another one present is cleared.  E are the challengers that enter.      *)
Entries(P, E) ==
  [m \in Challengers |-> CASE m \in E -> Since(entrySince[m])
                           [] m \in P \ E -> None
                           [] OTHER -> entrySince[m]]

(* select: the selection survives a safe evaluation inside the exit band.  *)
Current(H, K) ==
  IF /\ selected # None
     /\ Trusts(H, selected)
     /\ selected = Naive \/ (Trusts(H, Naive) /\ selected \in K)
  THEN selected ELSE None

(* select: a trusted candidate that may be chosen, given the clocks S.     *)
Eligible(H, S, cur, m) ==
  /\ Trusts(H, m)
  /\ m # Naive => (m = cur /\ Trusts(H, Naive)) \/ HeldFor(S[m])

(* select: the first eligible candidate in the fallback order.             *)
First(H, S, cur) ==
  LET can == {i \in DOMAIN Order : Eligible(H, S, cur, Order[i])}
  IN IF can = {} THEN None ELSE Order[Min(can)]

(* evaluate of the candidates P.  The gates hold for Ok, the entry test of *)
(* the paired evidence for Entry, the exit test for Kept; the exit ratio   *)
(* is never below the entry ratio (contracts.py), so Entry is within Kept. *)
Evaluate(P, Ok, Entry, Kept) ==
  LET H == StepAll(P, Ok)
      E == IF Trusts(H, Naive) THEN Entry ELSE {}
      S == Entries(P, E)
      target == First(H, S, Current(H, Kept))
  IN /\ hyst' = H
     /\ entrySince' = S
     /\ selected' = target
     /\ demotion' = [m \in Candidates |-> IF Trusts(hyst, m) /\ m \in P \ Ok
                                          THEN [at |-> now, bounds |-> bounds[m]] ELSE demotion[m]]
     /\ gatesHeld' = [m \in Candidates |-> CASE m \in Ok -> Since(gatesHeld[m])
                                             [] m \in P \ Ok -> None
                                             [] OTHER -> gatesHeld[m]]
     /\ entryHeld' = [m \in Challengers |-> IF m \in E THEN Since(entryHeld[m]) ELSE None]
     /\ UNCHANGED <<bounds, now>>

----------------------------------------------------------------------------
(* A prospective gate bound of the candidate matures (note_outcome).       *)
Mature(m) ==
  /\ bounds[m] < MaxBounds
  /\ bounds' = [bounds EXCEPT ![m] = @ + 1]
  /\ UNCHANGED <<state, now, ghosts>>

Tick ==
  /\ now < MaxTime
  /\ now' = now + 1
  /\ UNCHANGED <<state, bounds, ghosts>>

Presences == IF MayBeAbsent THEN SUBSET Candidates \ {{}} ELSE {Candidates}

Next ==
  \/ \E P \in Presences : \E Ok \in SUBSET P, Kept \in SUBSET (P \ {Naive}) :
       \E Entry \in SUBSET Kept : Evaluate(P, Ok, Entry, Kept)
  \/ \E m \in Candidates : Mature(m)
  \/ Tick

Spec == Init /\ [][Next]_vars

----------------------------------------------------------------------------
(* Properties                                                              *)

(* A step that restores trust finds the gates held for the repromotion     *)
(* hours and enough new bounds since the demotion.                         *)
RepromotionStep ==
  \A m \in Candidates :
    ~Trusts(hyst, m) /\ Trusts(hyst', m) /\ demotion[m] # None =>
      /\ gatesHeld'[m] # None /\ now - gatesHeld'[m] >= RepromotionHours
      /\ bounds[m] - demotion[m].bounds >= RepromotionWindows

(* Once demoted, a candidate is trusted again only after its gates have    *)
(* held for the repromotion hours and the required number of new gate      *)
(* bounds have matured since the demotion (trust.py:32-34).                *)
RepromotionWaits == [][RepromotionStep]_vars

(* What is selected is trusted, and so is the naive it was compared with:  *)
(* a safety failure falls back in the same evaluation (trust.py:43-45).    *)
SelectedIsTrusted == selected # None => Trusts(hyst, selected) /\ Trusts(hyst, Naive)

(* A challenger takes the selection only after its entry test has held     *)
(* for the repromotion hours in every evaluation (trust.py:45-46).         *)
EntryHeldLong ==
  \A m \in Challengers :
    selected # m /\ selected' = m =>
      entryHeld'[m] # None /\ now - entryHeld'[m] >= RepromotionHours

(* While every evaluation sees every candidate, trust is restored and the  *)
(* selection taken only after the waits above, and each evaluation leaves  *)
(* a trusted selection.                                                    *)
TrustWaits == [][RepromotionStep /\ EntryHeldLong /\ SelectedIsTrusted']_vars
============================================================================
