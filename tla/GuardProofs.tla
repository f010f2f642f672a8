----------------------------- MODULE GuardProofs -----------------------------
(***************************************************************************)
(* Proofs about what stands between the forecasting services and a wrong   *)
(* or endless use of them: the trust state (Trust), for every fallback     *)
(* order, repromotion time and history of evaluations; the bounded         *)
(* exchange with another server (BoundedHttp), for any number of threads,  *)
(* addresses and permits; the gate a request passes (Gate), for any number *)
(* of requests and slots.                                                  *)
(***************************************************************************)
EXTENDS Trust, NaturalOrder, FiniteSetTheorems

(* Most leaves are first-order: Zenon comes first, then the SMT solver.    *)
USE ZenonT(10), SMTT(30)

-----------------------------------------------------------------------------
(* Trust, demotion and repromotion (Trust)                                 *)

(* A candidate with a demotion behind it has a hysteresis that records it  *)
(* while it is not trusted, and was trusted before.                        *)
DemotionRecorded ==
  \A m \in Candidates :
    /\ Trusts(hyst, m) => hyst[m].ever
    /\ demotion[m] # None =>
         /\ hyst[m] # None /\ hyst[m].ever
         /\ ~hyst[m].trusted => hyst[m].boundsAt = demotion[m].bounds

(* The clock of the gates never runs ahead of what evaluations found.      *)
GatesClocked ==
  \A m \in Candidates :
    /\ gatesHeld[m] # None => gatesHeld[m] <= now
    /\ hyst[m] # None /\ hyst[m].okSince # None =>
         gatesHeld[m] # None /\ gatesHeld[m] <= hyst[m].okSince

(* The entry clocks are what evaluations found.                            *)
EntryClocked == entrySince = entryHeld

WaitInv == DemotionRecorded /\ GatesClocked /\ EntryClocked

-----------------------------------------------------------------------------
(* The hysteresis of one candidate                                         *)

(* step keeps a hysteresis a hysteresis.                                   *)
LEMMA StepType ==
  ASSUME TrustConstants, now \in Times,
         NEW h \in Hysteresis, NEW ok \in BOOLEAN, NEW b \in 0 .. MaxBounds
  PROVE  Step(h, ok, b) \in Hysteresis
<1>1. Since(h.okSince) \in Times
  BY DEF Since, Hysteresis
<1>2. [h EXCEPT !.okSince = Since(h.okSince)] \in Hysteresis
  BY <1>1 DEF Hysteresis
<1>3. Waiting(h, b) \in Hysteresis
  BY <1>2 DEF Waiting, Hysteresis
<1>4. Demote(h, b) \in Hysteresis
  BY DEF Demote, Hysteresis
<1>5. [h EXCEPT !.okSince = None] \in Hysteresis
  BY DEF Hysteresis
<1> QED BY <1>3, <1>4, <1>5 DEF Step

(* What step does to trust, by the gates and the trust it finds.           *)
LEMMA StepCases ==
  ASSUME TrustConstants, now \in Times,
         NEW h \in Hysteresis, NEW ok \in BOOLEAN, NEW b \in 0 .. MaxBounds
  PROVE  LET g == Step(h, ok, b) IN
         /\ h.trusted /\ ok => g = h
         /\ h.trusted /\ ~ok => ~g.trusted /\ g.ever = h.ever /\ g.boundsAt = b /\ g.okSince = None
         /\ ~h.trusted /\ ~ok =>
              ~g.trusted /\ g.ever = h.ever /\ g.boundsAt = h.boundsAt /\ g.okSince = None
         /\ ~h.trusted /\ ok =>
              /\ g.okSince = Since(h.okSince)
              /\ g.boundsAt = h.boundsAt
              /\ h.ever => g.ever
              /\ g.trusted => g.ever
              /\ g.trusted /\ h.ever => HeldFor(g.okSince) /\ b - h.boundsAt >= RepromotionWindows
<1>1. CASE h.trusted
  BY <1>1 DEF Step, Demote, Hysteresis
<1>2. CASE ~h.trusted /\ ~ok
  BY <1>2 DEF Step, Hysteresis
<1>3. CASE ~h.trusted /\ ok
  <2> DEFINE g == [h EXCEPT !.okSince = Since(h.okSince)]
  <2>1. g.okSince = Since(h.okSince) /\ g.boundsAt = h.boundsAt /\ g.ever = h.ever
        /\ g.trusted = h.trusted /\ g \in [trusted : BOOLEAN, ever : BOOLEAN, demotedAt : Times \cup {None},
               boundsAt : 0 .. MaxBounds, okSince : {Since(h.okSince)}]
    BY DEF Hysteresis
  <2>2. Step(h, ok, b) = CASE ~g.ever -> [g EXCEPT !.trusted = TRUE, !.ever = TRUE]
                           [] g.ever /\ Repromotable(g, b) -> [g EXCEPT !.trusted = TRUE]
                           [] OTHER -> g
    BY <1>3 DEF Step, Waiting
  <2> HIDE DEF g
  <2>3. CASE ~g.ever
    BY <1>3, <2>1, <2>2, <2>3
  <2>4. CASE g.ever /\ Repromotable(g, b)
    BY <1>3, <2>1, <2>2, <2>4 DEF Repromotable
  <2>5. CASE g.ever /\ ~Repromotable(g, b)
    BY <1>3, <2>1, <2>2, <2>5
  <2> QED BY <2>3, <2>4, <2>5
<1> QED BY <1>1, <1>2, <1>3 DEF Hysteresis

-----------------------------------------------------------------------------
(* One evaluation                                                          *)

(* The hysteresis an evaluation steps: a new one when there is none.       *)
Before(m) == IF hyst[m] = None THEN NewHysteresis ELSE hyst[m]

LEMMA BeforeType ==
  ASSUME TrustConstants, TypeOK, NEW m \in Candidates
  PROVE  Before(m) \in Hysteresis
BY DEF Before, TypeOK, NewHysteresis, Hysteresis, TrustConstants

(* evaluate steps each candidate it sees and forgets the others.           *)
LEMMA StepAllAt ==
  ASSUME TrustConstants, TypeOK, NEW P \in SUBSET Candidates, NEW Ok \in SUBSET P, NEW m \in Candidates
  PROVE  /\ m \notin P => StepAll(P, Ok)[m] = None
         /\ m \in P =>
              /\ StepAll(P, Ok)[m] = Step(Before(m), m \in Ok, bounds[m])
              /\ StepAll(P, Ok)[m] \in Hysteresis
              /\ StepAll(P, Ok)[m] # None
<1>1. Before(m) \in Hysteresis /\ bounds[m] \in 0 .. MaxBounds /\ (m \in Ok) \in BOOLEAN /\ now \in Times
  BY BeforeType DEF TypeOK
<1>2. Step(Before(m), m \in Ok, bounds[m]) \in Hysteresis
  BY <1>1, StepType
<1>3. None \notin Hysteresis
  BY DEF TrustConstants
<1> QED BY <1>2, <1>3 DEF StepAll, Before

(* The candidate select chooses is eligible.                               *)
LEMMA FirstEligible ==
  ASSUME TrustConstants, NEW H, NEW S, NEW cur
  PROVE  \/ First(H, S, cur) = None
         \/ First(H, S, cur) \in Candidates /\ Eligible(H, S, cur, First(H, S, cur))
<1> DEFINE can == {i \in DOMAIN Order : Eligible(H, S, cur, Order[i])}
<1>1. CASE can = {}
  BY <1>1 DEF First
<1>2. CASE can # {}
  <2>1. can \subseteq Nat
    BY DEF TrustConstants
  <2>2. Min(can) \in can
    <3> HIDE DEF can
    <3> QED BY <1>2, <2>1, MinOfNaturals
  <2>3. First(H, S, cur) = Order[Min(can)]
    BY <1>2 DEF First
  <2>4. Min(can) \in DOMAIN Order /\ Eligible(H, S, cur, Order[Min(can)])
    BY <2>2
  <2>5. Order[Min(can)] \in Candidates
    BY <2>4 DEF Candidates
  <2> QED BY <2>3, <2>4, <2>5
<1> QED BY <1>1, <1>2

(* An evaluation, as Next takes it.                                        *)
Evaluates(P, Ok, Entry, Kept) ==
  /\ P \in Presences /\ Ok \in SUBSET P /\ Kept \in SUBSET (P \ {Naive}) /\ Entry \in SUBSET Kept
  /\ Evaluate(P, Ok, Entry, Kept)

LEMMA PresencesType ==
  ASSUME NEW P \in Presences
  PROVE  P \in SUBSET Candidates /\ (MayBeAbsent = FALSE => P = Candidates)
BY DEF Presences

(* The last candidate of the order is a candidate.                         *)
LEMMA NaiveIsModel ==
  ASSUME TrustConstants
  PROVE  Naive \in Candidates /\ Challengers \subseteq Candidates
BY DEF TrustConstants, Naive, Candidates, Challengers

(* An evaluation keeps the types.                                          *)
LEMMA EvaluateType ==
  ASSUME TrustConstants, TypeOK, NEW P, NEW Ok, NEW Entry, NEW Kept, Evaluates(P, Ok, Entry, Kept)
  PROVE  TypeOK'
<1> DEFINE H == StepAll(P, Ok)
           E == IF Trusts(H, Naive) THEN Entry ELSE {}
           S == Entries(P, E)
<1>1. P \in SUBSET Candidates /\ Ok \in SUBSET P
  BY PresencesType DEF Evaluates
<1>2. hyst' = H /\ entrySince' = S /\ selected' = First(H, S, Current(H, Kept))
      /\ bounds' = bounds /\ now' = now
  BY DEF Evaluates, Evaluate
<1>3. H \in [Candidates -> Hysteresis \cup {None}]
  <2>1. \A m \in Candidates : H[m] \in Hysteresis \cup {None}
    BY <1>1, StepAllAt
  <2>2. H = [m \in Candidates |-> H[m]]
    BY DEF StepAll
  <2> HIDE DEF H
  <2> QED BY <2>1, <2>2
<1>4. \A t \in Times \cup {None} : Since(t) \in Times
  BY DEF Since, TypeOK
<1>5. S \in [Challengers -> Times \cup {None}]
  <2>1. \A m \in Challengers : entrySince[m] \in Times \cup {None}
    BY DEF TypeOK
  <2> HIDE DEF E
  <2> QED BY <1>4, <2>1 DEF Entries
<1>6. selected' \in Candidates \cup {None}
  <2> HIDE DEF H, S
  <2> QED BY <1>2, FirstEligible
<1>7. demotion' \in [Candidates -> Demotions \cup {None}]
  <2>1. \A m \in Candidates : demotion[m] \in Demotions \cup {None} /\ bounds[m] \in 0 .. MaxBounds
    BY DEF TypeOK
  <2>2. \A m \in Candidates : [at |-> now, bounds |-> bounds[m]] \in Demotions
    BY <2>1 DEF TypeOK, Demotions
  <2>3. demotion' = [m \in Candidates |-> IF Trusts(hyst, m) /\ m \in P \ Ok
                                      THEN [at |-> now, bounds |-> bounds[m]] ELSE demotion[m]]
    BY DEF Evaluates, Evaluate
  <2> QED BY <2>1, <2>2, <2>3
<1>8. gatesHeld' \in [Candidates -> Times \cup {None}]
  <2>1. \A m \in Candidates : gatesHeld[m] \in Times \cup {None}
    BY DEF TypeOK
  <2>2. gatesHeld' = [m \in Candidates |-> CASE m \in Ok -> Since(gatesHeld[m])
                                         [] m \in P \ Ok -> None
                                         [] OTHER -> gatesHeld[m]]
    BY DEF Evaluates, Evaluate
  <2> QED BY <1>4, <2>1, <2>2
<1>9. entryHeld' \in [Challengers -> Times \cup {None}]
  <2>1. \A m \in Challengers : entryHeld[m] \in Times \cup {None}
    BY DEF TypeOK
  <2>2. entryHeld' = [m \in Challengers |-> IF m \in E THEN Since(entryHeld[m]) ELSE None]
    BY DEF Evaluates, Evaluate
  <2> HIDE DEF E
  <2> QED BY <1>4, <2>1, <2>2
<1> QED BY <1>2, <1>3, <1>5, <1>6, <1>7, <1>8, <1>9 DEF TypeOK

(* Every step of Next is an evaluation, a matured bound or a tick.         *)
LEMMA NextCases ==
  ASSUME [Next]_vars
  PROVE  \/ \E P, Ok, Entry, Kept : Evaluates(P, Ok, Entry, Kept)
         \/ \E m \in Candidates : Mature(m)
         \/ Tick
         \/ UNCHANGED vars
BY Zenon DEF Next, Evaluates

(* Every value keeps its type.                                             *)
THEOREM Typing ==
  ASSUME TrustConstants
  PROVE  Spec => []TypeOK
<1>1. Init => TypeOK
  BY DEF Init, TypeOK, TrustConstants, Times
<1>2. TypeOK /\ [Next]_vars => TypeOK'
  <2> SUFFICES ASSUME TypeOK, [Next]_vars PROVE TypeOK'
    OBVIOUS
  <2>1. ASSUME NEW P, NEW Ok, NEW Entry, NEW Kept, Evaluates(P, Ok, Entry, Kept)
        PROVE  TypeOK'
    BY <2>1, EvaluateType
  <2>2. ASSUME NEW m \in Candidates, Mature(m)
        PROVE  TypeOK'
    <3>1. bounds' \in [Candidates -> 0 .. MaxBounds]
      BY <2>2 DEF Mature, TypeOK, TrustConstants
    <3> QED BY <2>2, <3>1 DEF Mature, TypeOK, state, ghosts
  <2>3. CASE Tick
    <3>1. now' \in Times
      BY <2>3 DEF Tick, TypeOK, TrustConstants, Times
    <3> QED BY <2>3, <3>1 DEF Tick, TypeOK, state, ghosts
  <2>4. CASE UNCHANGED vars
    BY <2>4 DEF TypeOK, vars, state, ghosts
  <2> QED BY <2>1, <2>2, <2>3, <2>4, NextCases
<1> QED BY <1>1, <1>2, PTL DEF Spec

(* An evaluation leaves a trusted selection, whoever is absent: a          *)
(* challenger whose clock ran is trusted only when it was seen, and its    *)
(* clock ran only when the naive was trusted (trust.py select).            *)
LEMMA EvaluateSelects ==
  ASSUME TrustConstants, TypeOK, NEW P, NEW Ok, NEW Entry, NEW Kept, Evaluates(P, Ok, Entry, Kept)
  PROVE  SelectedIsTrusted'
<1> DEFINE H == StepAll(P, Ok)
           E == IF Trusts(H, Naive) THEN Entry ELSE {}
           S == Entries(P, E)
           cur == Current(H, Kept)
<1>1. P \in SUBSET Candidates /\ Ok \in SUBSET P
  BY PresencesType DEF Evaluates
<1>2. hyst' = H /\ selected' = First(H, S, cur)
  BY DEF Evaluates, Evaluate
<1>3. ASSUME NEW m \in Candidates, Eligible(H, S, cur, m)
      PROVE  Trusts(H, m) /\ Trusts(H, Naive)
  <2>1. CASE m = Naive
    BY <1>3, <2>1 DEF Eligible
  <2>2. CASE m # Naive /\ m = cur /\ Trusts(H, Naive)
    BY <1>3, <2>2 DEF Eligible
  <2>3. CASE m # Naive /\ HeldFor(S[m])
    <3>1. m \in P
      BY <1>1, <1>3, StepAllAt DEF Eligible, Trusts
    <3>2. m \in Challengers
      BY <2>3 DEF Challengers
    <3>3. m \notin E => S[m] = None
      <4> HIDE DEF E
      <4> QED BY <3>1, <3>2 DEF Entries
    <3>4. m \in E
      BY <2>3, <3>3 DEF HeldFor
    <3> QED BY <1>3, <3>4 DEF Eligible
  <2> HIDE DEF H, S, cur
  <2> QED BY <1>3, <2>1, <2>2, <2>3 DEF Eligible
<1>4. selected' # None => Trusts(H, selected') /\ Trusts(H, Naive)
  <2> HIDE DEF H, S, cur
  <2> QED BY <1>2, <1>3, FirstEligible
<1> HIDE DEF H
<1> QED BY <1>2, <1>4 DEF SelectedIsTrusted, Trusts

(* What is selected is trusted and so is the naive, in every behaviour,    *)
(* candidates missing from evaluations included.                           *)
THEOREM SelectionTrusted ==
  ASSUME TrustConstants
  PROVE  Spec => []SelectedIsTrusted
<1>1. Init => SelectedIsTrusted
  BY DEF Init, SelectedIsTrusted
<1>2. TypeOK /\ SelectedIsTrusted /\ [Next]_vars => SelectedIsTrusted'
  <2> SUFFICES ASSUME TypeOK, SelectedIsTrusted, [Next]_vars PROVE SelectedIsTrusted'
    OBVIOUS
  <2>1. ASSUME NEW P, NEW Ok, NEW Entry, NEW Kept, Evaluates(P, Ok, Entry, Kept)
        PROVE  SelectedIsTrusted'
    BY <2>1, EvaluateSelects
  <2>2. ASSUME UNCHANGED state
        PROVE  SelectedIsTrusted'
    BY <2>2 DEF SelectedIsTrusted, Trusts, state
  <2>3. ASSUME NEW m \in Candidates, Mature(m)
        PROVE  SelectedIsTrusted'
    BY <2>2, <2>3 DEF Mature
  <2>4. CASE Tick
    BY <2>2, <2>4 DEF Tick
  <2>5. CASE UNCHANGED vars
    BY <2>2, <2>5 DEF vars
  <2> QED BY <2>1, <2>3, <2>4, <2>5, NextCases
<1> QED BY <1>1, <1>2, Typing, PTL DEF Spec

-----------------------------------------------------------------------------
(* The waits, while every evaluation sees every candidate                  *)

(* What an evaluation that sees everyone does to one candidate.            *)
LEMMA EvaluateWaits ==
  ASSUME TrustConstants, MayBeAbsent = FALSE, TypeOK, WaitInv,
         NEW P, NEW Ok, NEW Entry, NEW Kept, Evaluates(P, Ok, Entry, Kept), NEW m \in Candidates
  PROVE  /\ Trusts(hyst', m) => hyst'[m].ever
         /\ demotion'[m] # None =>
              /\ hyst'[m] # None /\ hyst'[m].ever
              /\ ~hyst'[m].trusted => hyst'[m].boundsAt = demotion'[m].bounds
         /\ gatesHeld'[m] # None => gatesHeld'[m] <= now
         /\ hyst'[m] # None /\ hyst'[m].okSince # None =>
              gatesHeld'[m] # None /\ gatesHeld'[m] <= hyst'[m].okSince
         /\ ~Trusts(hyst, m) /\ Trusts(hyst', m) /\ demotion[m] # None =>
              /\ gatesHeld'[m] # None /\ now - gatesHeld'[m] >= RepromotionHours
              /\ bounds[m] - demotion[m].bounds >= RepromotionWindows
<1> DEFINE h == Before(m)
           g == hyst'[m]
           ok == m \in Ok
<1>1. P = Candidates /\ Ok \in SUBSET P
  BY PresencesType DEF Evaluates
<1>2. hyst' = StepAll(P, Ok)
  BY DEF Evaluates, Evaluate
<1>3. h \in Hysteresis /\ ok \in BOOLEAN /\ bounds[m] \in 0 .. MaxBounds /\ now \in Times
  BY BeforeType DEF TypeOK
<1>4. g = Step(h, ok, bounds[m]) /\ g # None /\ g \in Hysteresis
  BY <1>1, <1>2, StepAllAt
<1>5. /\ h.trusted /\ ok => g = h
      /\ h.trusted /\ ~ok => ~g.trusted /\ g.ever = h.ever /\ g.boundsAt = bounds[m] /\ g.okSince = None
      /\ ~h.trusted /\ ~ok =>
           ~g.trusted /\ g.ever = h.ever /\ g.boundsAt = h.boundsAt /\ g.okSince = None
      /\ ~h.trusted /\ ok =>
           /\ g.okSince = Since(h.okSince)
           /\ g.boundsAt = h.boundsAt
           /\ h.ever => g.ever
           /\ g.trusted => g.ever
           /\ g.trusted /\ h.ever => HeldFor(g.okSince) /\ bounds[m] - h.boundsAt >= RepromotionWindows
  <2> HIDE DEF h, g, ok
  <2> QED BY <1>3, <1>4, StepCases
<1>6. /\ Trusts(hyst, m) <=> h.trusted
      /\ h.trusted => h.ever
      /\ h.okSince # None => gatesHeld[m] # None /\ gatesHeld[m] <= h.okSince
      /\ demotion[m] # None => h.ever /\ (~h.trusted => h.boundsAt = demotion[m].bounds)
  BY DEF Before, NewHysteresis, Trusts, WaitInv, DemotionRecorded, GatesClocked
<1>7. gatesHeld'[m] = IF ok THEN Since(gatesHeld[m]) ELSE None
  BY <1>1 DEF Evaluates, Evaluate
<1>8. demotion'[m] = IF h.trusted /\ ~ok THEN [at |-> now, bounds |-> bounds[m]] ELSE demotion[m]
  BY <1>1, <1>6 DEF Evaluates, Evaluate
<1>9. gatesHeld[m] \in Times \cup {None} /\ (gatesHeld[m] # None => gatesHeld[m] <= now)
  BY DEF TypeOK, WaitInv, GatesClocked
<1>10. None \notin Times /\ now \in Int /\ \A t \in Times : t \in Int
  BY <1>3 DEF TrustConstants, Times
<1>11. (Trusts(hyst', m) <=> g.trusted) /\ h.okSince \in Times \cup {None} /\ g.okSince \in Times \cup {None}
  BY <1>3, <1>4 DEF Trusts, Hysteresis
<1> HIDE DEF h, g, ok
<1>12. gatesHeld'[m] # None => gatesHeld'[m] <= now
  BY <1>7, <1>9, <1>10 DEF Since
<1>13. g.okSince # None => gatesHeld'[m] # None /\ gatesHeld'[m] <= g.okSince
  <2>1. CASE h.trusted /\ ok
    BY <1>5, <1>6, <1>7, <2>1 DEF Since
  <2>2. CASE ~ok
    BY <1>5, <2>2
  <2>3. CASE ~h.trusted /\ ok
    BY <1>5, <1>6, <1>7, <1>9, <1>10, <1>11, <2>3 DEF Since
  <2> QED BY <2>1, <2>2, <2>3
<1>14. g.trusted => g.ever
  BY <1>5, <1>6
<1>15. demotion'[m] # None => g.ever /\ (~g.trusted => g.boundsAt = demotion'[m].bounds)
  <2>1. CASE h.trusted /\ ~ok
    BY <1>5, <1>6, <1>8, <2>1
  <2>2. CASE h.trusted /\ ok
    BY <1>5, <1>6, <1>8, <2>2
  <2>3. CASE ~h.trusted
    BY <1>5, <1>6, <1>8, <2>3
  <2> QED BY <2>1, <2>2, <2>3
<1>16. ASSUME ~h.trusted, g.trusted, demotion[m] # None
       PROVE  /\ gatesHeld'[m] # None /\ now - gatesHeld'[m] >= RepromotionHours
              /\ bounds[m] - demotion[m].bounds >= RepromotionWindows
  <2>1. ok /\ h.ever /\ h.boundsAt = demotion[m].bounds
    BY <1>5, <1>6, <1>16
  <2>2. HeldFor(g.okSince) /\ bounds[m] - h.boundsAt >= RepromotionWindows
    BY <1>5, <1>16, <2>1
  <2>3. g.okSince # None /\ now - g.okSince >= RepromotionHours
    BY <2>2 DEF HeldFor, Since
  <2>4. gatesHeld'[m] \in Int /\ g.okSince \in Int /\ gatesHeld'[m] <= g.okSince /\ gatesHeld'[m] # None
    BY <1>7, <1>9, <1>10, <1>11, <1>13, <2>1, <2>3 DEF Since
  <2>5. RepromotionHours \in Int
    BY DEF TrustConstants
  <2>6. now - gatesHeld'[m] >= RepromotionHours
    BY <1>10, <2>3, <2>4, <2>5
  <2> QED BY <2>1, <2>2, <2>4, <2>6
<1> QED BY <1>4, <1>6, <1>11, <1>12, <1>13, <1>14, <1>15, <1>16 DEF g

(* The entry clocks and their history are reset and kept together.         *)
LEMMA EvaluateEntries ==
  ASSUME TrustConstants, MayBeAbsent = FALSE, EntryClocked,
         NEW P, NEW Ok, NEW Entry, NEW Kept, Evaluates(P, Ok, Entry, Kept)
  PROVE  entrySince' = entryHeld'
<1> DEFINE E == IF Trusts(StepAll(P, Ok), Naive) THEN Entry ELSE {}
<1>1. P = Candidates
  BY PresencesType DEF Evaluates
<1>2. entrySince' = Entries(P, E)
      /\ entryHeld' = [m \in Challengers |-> IF m \in E THEN Since(entryHeld[m]) ELSE None]
  BY DEF Evaluates, Evaluate
<1> HIDE DEF E
<1>3. Challengers \subseteq P
  BY <1>1 DEF Challengers
<1> QED BY <1>2, <1>3 DEF Entries, EntryClocked

(* A challenger that takes the selection was not the current one, so its   *)
(* clock has run for the repromotion hours (trust.py select).              *)
LEMMA EvaluateEntry ==
  ASSUME TrustConstants, MayBeAbsent = FALSE, TypeOK, EntryClocked,
         NEW P, NEW Ok, NEW Entry, NEW Kept, Evaluates(P, Ok, Entry, Kept)
  PROVE  EntryHeldLong
<1> DEFINE H == StepAll(P, Ok)
           E == IF Trusts(H, Naive) THEN Entry ELSE {}
           S == Entries(P, E)
           cur == Current(H, Kept)
<1> SUFFICES ASSUME NEW m \in Challengers, selected # m, selected' = m
             PROVE  entryHeld'[m] # None /\ now - entryHeld'[m] >= RepromotionHours
  BY DEF EntryHeldLong
<1>1. selected' = First(H, S, cur) /\ S = entrySince'
  BY DEF Evaluates, Evaluate
<1>2. m \in Candidates /\ m # Naive /\ m # None
  BY DEF Challengers, TrustConstants
<1>3. Eligible(H, S, cur, m)
  <2> HIDE DEF H, S, cur
  <2> QED BY <1>1, <1>2, FirstEligible
<1>4. m # cur
  BY <1>2 DEF Current
<1>5. HeldFor(S[m])
  <2> HIDE DEF H, S, cur
  <2> QED BY <1>2, <1>3, <1>4 DEF Eligible
<1>6. HeldFor(entryHeld'[m])
  <2> HIDE DEF S
  <2> QED BY <1>1, <1>5, EvaluateEntries
<1> QED BY <1>6 DEF HeldFor, Since

(* WaitInv is inductive.                                                   *)
LEMMA WaitInvariant ==
  ASSUME TrustConstants, MayBeAbsent = FALSE
  PROVE  Spec => [](TypeOK /\ WaitInv)
<1>1. Init => WaitInv
  BY DEF Init, WaitInv, DemotionRecorded, GatesClocked, EntryClocked, Trusts
<1>2. TypeOK /\ WaitInv /\ [Next]_vars => WaitInv'
  <2> SUFFICES ASSUME TypeOK, WaitInv, [Next]_vars PROVE WaitInv'
    OBVIOUS
  <2>1. ASSUME NEW P, NEW Ok, NEW Entry, NEW Kept, Evaluates(P, Ok, Entry, Kept)
        PROVE  WaitInv'
    <3>1. now' = now
      BY <2>1 DEF Evaluates, Evaluate
    <3>2. DemotionRecorded'
      BY <2>1, EvaluateWaits DEF DemotionRecorded, Trusts
    <3>3. GatesClocked'
      BY <2>1, <3>1, EvaluateWaits DEF GatesClocked
    <3>4. EntryClocked'
      BY <2>1, EvaluateEntries DEF EntryClocked, WaitInv
    <3> QED BY <3>2, <3>3, <3>4 DEF WaitInv
  <2>2. ASSUME UNCHANGED <<state, ghosts>>, now' \in Nat, now <= now'
        PROVE  WaitInv'
    <3>1. DemotionRecorded' /\ EntryClocked'
      BY <2>2 DEF WaitInv, DemotionRecorded, EntryClocked, Trusts, state, ghosts
    <3>2. \A m \in Candidates : gatesHeld[m] # None => gatesHeld[m] \in Int
      BY DEF TypeOK, Times
    <3>3. now \in Int
      BY DEF TypeOK, Times
    <3>4. GatesClocked'
      BY <2>2, <3>2, <3>3 DEF WaitInv, GatesClocked, state, ghosts
    <3> QED BY <3>1, <3>4 DEF WaitInv
  <2>3. now \in Nat
    BY DEF TypeOK, Times, TrustConstants
  <2>4. ASSUME NEW m \in Candidates, Mature(m)
        PROVE  WaitInv'
    BY <2>2, <2>3, <2>4 DEF Mature
  <2>5. CASE Tick
    BY <2>2, <2>3, <2>5 DEF Tick
  <2>6. CASE UNCHANGED vars
    BY <2>2, <2>3, <2>6 DEF vars
  <2> QED BY <2>1, <2>4, <2>5, <2>6, NextCases
<1> QED BY <1>1, <1>2, Typing, PTL DEF Spec

(* While every evaluation sees every candidate, a demoted candidate is     *)
(* trusted again only after its gates held for the repromotion hours over  *)
(* the required new bounds, a challenger is selected only after its entry  *)
(* test held as long, and each evaluation leaves a trusted selection       *)
(* (trust.py:32-34, 43-46).                                                *)
THEOREM TrustIsEarned ==
  ASSUME TrustConstants, MayBeAbsent = FALSE
  PROVE  Spec => TrustWaits
<1>1. TypeOK /\ WaitInv /\ SelectedIsTrusted' /\ [Next]_vars
        => [RepromotionStep /\ EntryHeldLong /\ SelectedIsTrusted']_vars
  <2> SUFFICES ASSUME TypeOK, WaitInv, SelectedIsTrusted', [Next]_vars, vars' # vars
               PROVE  RepromotionStep /\ EntryHeldLong
    BY DEF vars
  <2>1. ASSUME NEW P, NEW Ok, NEW Entry, NEW Kept, Evaluates(P, Ok, Entry, Kept)
        PROVE  RepromotionStep /\ EntryHeldLong
    <3>1. RepromotionStep
      BY <2>1, EvaluateWaits DEF RepromotionStep
    <3>2. EntryHeldLong
      BY <2>1, EvaluateEntry DEF WaitInv
    <3> QED BY <3>1, <3>2
  <2>2. ASSUME UNCHANGED state
        PROVE  RepromotionStep /\ EntryHeldLong
    BY <2>2 DEF RepromotionStep, EntryHeldLong, Trusts, state
  <2>3. ASSUME NEW m \in Candidates, Mature(m)
        PROVE  RepromotionStep /\ EntryHeldLong
    BY <2>2, <2>3 DEF Mature
  <2>4. CASE Tick
    BY <2>2, <2>4 DEF Tick
  <2> QED BY <2>1, <2>3, <2>4, NextCases
<1> QED BY <1>1, WaitInvariant, SelectionTrusted, PTL DEF Spec, TrustWaits

-----------------------------------------------------------------------------
(* The bounded exchange with another server (BoundedHttp)                  *)

CONSTANTS Callers, ResolverSlots, Addresses
VARIABLES pc, addr, late, expired, timer, victim, known, open, shut, result, lookups

Http == INSTANCE BoundedHttp WITH live <- known

Steps == {"idle", "resolve", "lookup", "socket", "known", "connect", "dup", "duped", "talk", "finally", "done"}

HttpTypes ==
  /\ pc \in [Callers -> Steps] /\ addr \in [Callers -> Nat]
  /\ late \in [Callers -> BOOLEAN] /\ expired \in [Callers -> BOOLEAN]
  /\ timer \in [Callers -> {"off", "armed", "killing", "done", "cancelled"}]
  /\ victim \in [Callers -> Nat] /\ known \in [Callers -> Nat]
  /\ open \in [Callers -> SUBSET {"sock", "dup"}] /\ shut \in [Callers -> SUBSET Nat]
  /\ result \in [Callers -> {"none", "ok", "deadline", "transport", "too large"}]
  /\ lookups \in Int

Fired(c) == timer[c] \in {"killing", "done"}
InServer(c) == pc[c] \in {"connect", "dup", "talk"}

(* The watchdog knows the connection a thread may wait on, and once it has *)
(* fired the thread waits only on the connection it took.                  *)
CallerInv(c) ==
  /\ pc[c] \in {"socket", "known", "connect", "dup", "duped", "talk"} => addr[c] # 0
  /\ pc[c] \in {"known", "connect", "dup", "duped", "talk"} => known[c] = addr[c]
  /\ Fired(c) => expired[c]
  /\ Fired(c) /\ InServer(c) => victim[c] = addr[c]
  /\ timer[c] = "done" /\ InServer(c) => addr[c] \in shut[c]
  /\ pc[c] = "done" => open[c] = {}

HttpInv == HttpTypes /\ (\A c \in Callers : CallerInv(c)) /\ Http!LookupsBounded

(* What a step of one caller leaves to the others.                         *)
Alone(c) ==
  \A d \in Callers \ {c} :
    /\ pc'[d] = pc[d] /\ addr'[d] = addr[d] /\ expired'[d] = expired[d] /\ timer'[d] = timer[d]
    /\ victim'[d] = victim[d] /\ known'[d] = known[d] /\ open'[d] = open[d] /\ shut'[d] = shut[d]

(* A step of one caller keeps what the invariant says of the others.       *)
LEMMA AloneKeeps ==
  ASSUME HttpInv, NEW c \in Callers, Alone(c), CallerInv(c)'
  PROVE  \A d \in Callers : CallerInv(d)'
<1> SUFFICES ASSUME NEW d \in Callers, d # c PROVE CallerInv(d)'
  OBVIOUS
<1>1. /\ pc'[d] = pc[d] /\ addr'[d] = addr[d] /\ expired'[d] = expired[d] /\ timer'[d] = timer[d]
      /\ victim'[d] = victim[d] /\ known'[d] = known[d] /\ open'[d] = open[d] /\ shut'[d] = shut[d]
  BY DEF Alone
<1>2. CallerInv(d)
  BY DEF HttpInv
<1>q. QED
  BY <1>1, <1>2 DEF CallerInv, Fired, InServer

(* The deadline and the two steps of kill.                                 *)
LEMMA WatchKeeps ==
  ASSUME HttpInv, NEW c \in Callers, Http!DeadlinePasses(c) \/ Http!KillTakes(c) \/ Http!KillShuts(c)
  PROVE  HttpTypes' /\ Alone(c) /\ CallerInv(c)' /\ UNCHANGED <<pc, lookups>>
<1>1. HttpTypes /\ CallerInv(c)
  BY DEF HttpInv
<1>2. UNCHANGED <<pc, addr, known, open, result, lookups>>
  BY DEF Http!DeadlinePasses, Http!KillTakes, Http!KillShuts, Http!call
<1>3. CASE Http!DeadlinePasses(c)
  <2>1. late' = [late EXCEPT ![c] = TRUE] /\ UNCHANGED <<expired, timer, victim, shut>>
    BY <1>3 DEF Http!DeadlinePasses
  <2>2. HttpTypes'
    BY <1>1, <1>2, <2>1 DEF HttpTypes
  <2>q. QED
    BY <1>1, <1>2, <2>1, <2>2 DEF Alone, CallerInv, Fired, InServer
<1>4. CASE Http!KillTakes(c)
  <2>1. /\ timer' = [timer EXCEPT ![c] = "killing"] /\ expired' = [expired EXCEPT ![c] = TRUE]
        /\ victim' = [victim EXCEPT ![c] = known[c]] /\ UNCHANGED <<late, shut>>
    BY <1>4 DEF Http!KillTakes
  <2>2. HttpTypes'
    BY <1>1, <1>2, <2>1 DEF HttpTypes
  <2>3. Alone(c)
    BY <1>1, <1>2, <2>1 DEF Alone, HttpTypes
  <2>4. timer'[c] = "killing" /\ expired'[c] /\ victim'[c] = known[c]
    BY <1>1, <2>1 DEF HttpTypes
  <2>5. CallerInv(c)'
    BY <1>1, <1>2, <2>4 DEF CallerInv, Fired, InServer
  <2>q. QED
    BY <1>2, <2>2, <2>3, <2>5
<1>5. CASE Http!KillShuts(c)
  <2>1. /\ timer' = [timer EXCEPT ![c] = "done"] /\ timer[c] = "killing"
        /\ shut' = [shut EXCEPT ![c] = shut[c] \cup ({victim[c]} \ {0})] /\ UNCHANGED <<late, expired, victim>>
    BY <1>5 DEF Http!KillShuts
  <2>2. HttpTypes'
    <3>1. shut[c] \cup ({victim[c]} \ {0}) \in SUBSET Nat
      BY <1>1 DEF HttpTypes
    <3>q. QED
      BY <1>1, <1>2, <2>1, <3>1 DEF HttpTypes
  <2>3. Alone(c)
    BY <1>1, <1>2, <2>1 DEF Alone, HttpTypes
  <2>4. timer'[c] = "done" /\ shut'[c] = shut[c] \cup ({victim[c]} \ {0})
    BY <1>1, <2>1 DEF HttpTypes
  <2>5. CallerInv(c)'
    BY <1>1, <1>2, <2>1, <2>4 DEF CallerInv, Fired, InServer
  <2>q. QED
    BY <1>2, <2>2, <2>3, <2>5
<1>q. QED
  BY <1>3, <1>4, <1>5

Results == {"none", "ok", "deadline", "transport", "too large"}

(* A step of the calling thread that leaves the watchdog alone.            *)
Moves(c, p, a, k, o, r) ==
  /\ pc' = [pc EXCEPT ![c] = p] /\ addr' = [addr EXCEPT ![c] = a] /\ known' = [known EXCEPT ![c] = k]
  /\ open' = [open EXCEPT ![c] = o] /\ result' = [result EXCEPT ![c] = r]
  /\ UNCHANGED <<late, expired, timer, victim, shut>>

(* When such a step keeps the invariant.                                   *)
LEMMA MovesKeep ==
  ASSUME HttpInv, NEW c \in Callers, NEW p \in Steps, NEW a \in Nat, NEW k \in Nat,
         NEW o \in SUBSET {"sock", "dup"}, NEW r \in Results, Moves(c, p, a, k, o, r), lookups' \in Int,
         p \in {"socket", "known", "connect", "dup", "duped", "talk"} => a # 0,
         p \in {"known", "connect", "dup", "duped", "talk"} => k = a,
         Fired(c) /\ p \in {"connect", "dup", "talk"} =>
           victim[c] = a /\ (timer[c] = "done" => a \in shut[c]),
         p = "done" => o = {}
  PROVE  HttpTypes' /\ Alone(c) /\ CallerInv(c)' /\ pc' = [pc EXCEPT ![c] = p]
<1>1. HttpTypes /\ CallerInv(c)
  BY DEF HttpInv
<1>2. HttpTypes'
  BY <1>1 DEF HttpTypes, Moves, Results
<1>3. Alone(c)
  BY <1>1 DEF HttpTypes, Moves, Alone
<1>4. pc'[c] = p /\ addr'[c] = a /\ known'[c] = k /\ open'[c] = o
  BY <1>1 DEF HttpTypes, Moves
<1>5. expired' = expired /\ timer' = timer /\ victim' = victim /\ shut' = shut
  BY DEF Moves
<1>6. CallerInv(c)'
  BY <1>1, <1>4, <1>5 DEF CallerInv, Fired, InServer
<1>q. QED
  BY <1>2, <1>3, <1>6 DEF Moves

(* A raised exception, whatever descriptors are closed with it.            *)
LEMMA RaiseKeeps ==
  ASSUME HttpInv, NEW c \in Callers, NEW why \in Results, Http!Raise(c, why), lookups' \in Int,
         UNCHANGED <<addr, known, late, expired, timer, victim, shut>>,
         NEW o \in SUBSET {"sock", "dup"}, open' = [open EXCEPT ![c] = o]
  PROVE  HttpTypes' /\ Alone(c) /\ CallerInv(c)' /\ pc' = [pc EXCEPT ![c] = "finally"]
<1>1. HttpTypes
  BY DEF HttpInv
<1>2. addr[c] \in Nat /\ known[c] \in Nat /\ "finally" \in Steps
  BY <1>1 DEF HttpTypes, Steps
<1>3. addr = [addr EXCEPT ![c] = addr[c]] /\ known = [known EXCEPT ![c] = known[c]]
  BY <1>1 DEF HttpTypes
<1>4. Moves(c, "finally", addr[c], known[c], o, why)
  BY <1>3 DEF Moves, Http!Raise, Http!Goes
<1>q. QED
  BY <1>2, <1>4, MovesKeep

(* A step that changes neither address nor connection nor result.          *)
LEMMA GoesKeeps ==
  ASSUME HttpInv, NEW c \in Callers, NEW p \in Steps, Http!Goes(c, p), lookups' \in Int,
         UNCHANGED <<addr, known, open, result, late, expired, timer, victim, shut>>,
         p \in {"socket", "known", "connect", "dup", "duped", "talk"} => addr[c] # 0,
         p \in {"known", "connect", "dup", "duped", "talk"} => known[c] = addr[c],
         Fired(c) /\ p \in {"connect", "dup", "talk"} =>
           victim[c] = addr[c] /\ (timer[c] = "done" => addr[c] \in shut[c]),
         p # "done"
  PROVE  HttpTypes' /\ Alone(c) /\ CallerInv(c)' /\ pc' = [pc EXCEPT ![c] = p]
<1>1. HttpTypes
  BY DEF HttpInv
<1>2. addr[c] \in Nat /\ known[c] \in Nat /\ open[c] \in SUBSET {"sock", "dup"} /\ result[c] \in Results
  BY <1>1 DEF HttpTypes, Results
<1>3. /\ addr = [addr EXCEPT ![c] = addr[c]] /\ known = [known EXCEPT ![c] = known[c]]
      /\ open = [open EXCEPT ![c] = open[c]] /\ result = [result EXCEPT ![c] = result[c]]
  BY <1>1 DEF HttpTypes
<1>4. Moves(c, p, addr[c], known[c], open[c], result[c])
  BY <1>3 DEF Moves, Http!Goes
<1>q. QED
  BY <1>2, <1>4, MovesKeep

(* What a step of the calling thread keeps, beside the lookups.            *)
Kept(c) ==
  HttpTypes' /\ Alone(c) /\ CallerInv(c)' /\ \E p \in Steps : pc' = [pc EXCEPT ![c] = p]

(* The lookup: refused, running, delivered, failed or abandoned.           *)
LEMMA ResolveKeeps ==
  ASSUME HttpInv, NEW c \in Callers, Http!Lookup(c) \/ Http!LookupEnds(c) \/ Http!Abandon(c)
  PROVE  Kept(c)
<1>1. HttpTypes /\ {"lookup", "socket", "finally"} \subseteq Steps /\ {"deadline", "transport"} \subseteq Results
  BY DEF HttpInv, Steps, Results
<1>2. UNCHANGED <<known, open, late, expired, timer, victim, shut>>
  BY DEF Http!Lookup, Http!LookupEnds, Http!Abandon, Http!watch
<1>3. lookups' \in Int
  <2>1. lookups \in Int /\ lookups' \in {lookups, lookups + 1, lookups - 1}
    BY <1>1 DEF HttpTypes, Http!Lookup, Http!LookupEnds, Http!Abandon
  <2>q. QED
    BY <2>1, SMT
<1>4. open[c] \in SUBSET {"sock", "dup"} /\ open = [open EXCEPT ![c] = open[c]]
  BY <1>1 DEF HttpTypes
<1>5. CASE UNCHANGED addr /\ \E why \in Results : Http!Raise(c, why)
  BY <1>1, <1>2, <1>3, <1>4, <1>5, RaiseKeeps DEF Kept
<1>6. CASE UNCHANGED <<addr, result>> /\ Http!Goes(c, "lookup")
  BY <1>1, <1>2, <1>3, <1>6, GoesKeeps DEF Kept
<1>7. CASE Http!LookupEnds(c) /\ Http!Goes(c, "socket") /\ addr' = [addr EXCEPT ![c] = 1] /\ UNCHANGED result
  <2>1. 1 \in Nat /\ 1 # 0
    BY SMT
  <2>2. known[c] \in Nat /\ result[c] \in Results
    BY <1>1 DEF HttpTypes, Results
  <2>3. known = [known EXCEPT ![c] = known[c]] /\ result = [result EXCEPT ![c] = result[c]]
    BY <1>1 DEF HttpTypes
  <2>4. Moves(c, "socket", 1, known[c], open[c], result[c])
    BY <1>2, <1>4, <1>7, <2>3 DEF Moves, Http!Goes
  <2>q. QED
    BY <1>1, <1>3, <1>4, <2>1, <2>2, <2>4, MovesKeep DEF Kept
<1>8. CASE Http!Lookup(c)
  <2>1. (IF late[c] THEN "deadline" ELSE "transport") \in Results
    BY <1>1
  <2>q. QED
    BY <1>5, <1>6, <1>8, <2>1 DEF Http!Lookup
<1>q. QED
  BY <1>1, <1>5, <1>7, <1>8 DEF Http!LookupEnds, Http!Abandon

(* From the candidate socket to the duplicate descriptor.                  *)
LEMMA ConnectingKeeps ==
  ASSUME HttpInv, NEW c \in Callers,
         Http!OpenSocket(c) \/ Http!CheckExpired(c) \/ Http!Connected(c) \/ Http!ConnectFails(c) \/ Http!Duplicate(c)
  PROVE  Kept(c)
<1>1. HttpTypes /\ CallerInv(c) /\ {"deadline", "transport"} \subseteq Results
  BY DEF HttpInv, Results
<1>2. UNCHANGED <<lookups, late, expired, timer, victim, shut>> /\ lookups' \in Int
  BY <1>1 DEF HttpTypes, Http!OpenSocket, Http!CheckExpired, Http!Connected,
              Http!ConnectFails, Http!Duplicate, Http!watch
<1>3. /\ addr[c] \in Nat /\ known[c] \in Nat /\ open[c] \in SUBSET {"sock", "dup"} /\ result[c] \in Results
      /\ open[c] \cup {"sock"} \in SUBSET {"sock", "dup"} /\ open[c] \cup {"dup"} \in SUBSET {"sock", "dup"}
      /\ open[c] \ {"sock"} \in SUBSET {"sock", "dup"}
  BY <1>1 DEF HttpTypes, Results
<1>4. /\ addr = [addr EXCEPT ![c] = addr[c]] /\ known = [known EXCEPT ![c] = known[c]]
      /\ open = [open EXCEPT ![c] = open[c]] /\ result = [result EXCEPT ![c] = result[c]]
  BY <1>1 DEF HttpTypes
<1>5. {"socket", "known", "connect", "dup", "duped", "talk"} \subseteq Steps
  BY DEF Steps
<1>6. CASE /\ UNCHANGED <<addr, known>> /\ \E why \in Results : Http!Raise(c, why)
           /\ \E o \in SUBSET {"sock", "dup"} : open' = [open EXCEPT ![c] = o]
  BY <1>2, <1>6, RaiseKeeps DEF Kept, Steps
<1>7. CASE /\ pc[c] = "socket" /\ open' = [open EXCEPT ![c] = open[c] \cup {"sock"}]
           /\ known' = [known EXCEPT ![c] = addr[c]] /\ Http!Goes(c, "known") /\ UNCHANGED <<addr, result>>
  <2>1. Moves(c, "known", addr[c], addr[c], open[c] \cup {"sock"}, result[c])
    BY <1>2, <1>4, <1>7 DEF Moves, Http!Goes
  <2>2. addr[c] # 0
    BY <1>1, <1>7 DEF CallerInv
  <2>q. QED
    BY <1>2, <1>3, <1>5, <2>1, <2>2, MovesKeep DEF Kept
<1>8. CASE Http!CheckExpired(c) /\ ~expired[c]
  <2>1. addr[c] # 0 /\ known[c] = addr[c] /\ ~Fired(c)
    BY <1>1, <1>8 DEF CallerInv, Http!CheckExpired
  <2>2. CASE UNCHANGED <<open, result>> /\ Http!Goes(c, IF pc[c] = "known" THEN "connect" ELSE "talk")
    <3>1. \E p \in {"connect", "talk"} : Http!Goes(c, p)
      BY <2>2
    <3>2. UNCHANGED <<addr, known>>
      BY <1>8 DEF Http!CheckExpired
    <3>q. QED
      BY <1>2, <1>5, <2>1, <2>2, <3>1, <3>2, GoesKeeps DEF Kept
  <2>q. QED
    BY <1>1, <1>3, <1>4, <1>6, <1>8, <2>2 DEF Http!CheckExpired
<1>9. CASE Http!Connected(c)
  <2>1. pc[c] = "connect" /\ Http!Goes(c, "dup") /\ UNCHANGED <<addr, known, open, result>>
    BY <1>9 DEF Http!Connected
  <2>q. QED
    BY <1>1, <1>2, <1>5, <2>1, GoesKeeps DEF Kept, CallerInv, InServer
<1>10. CASE Http!ConnectFails(c) /\ Http!Goes(c, "socket")
  <2>1. addr[c] + 1 \in Nat /\ addr[c] + 1 # 0
    BY <1>3, SMT
  <2>2. CASE addr' = [addr EXCEPT ![c] = addr[c] + 1] /\ UNCHANGED result
    <3>1. Moves(c, "socket", addr[c] + 1, known[c], open[c] \ {"sock"}, result[c])
      BY <1>2, <1>4, <1>10, <2>2 DEF Moves, Http!Goes, Http!ConnectFails
    <3>q. QED
      BY <1>2, <1>3, <1>5, <2>1, <3>1, MovesKeep DEF Kept
  <2>q. QED
    BY <1>1, <1>3, <1>6, <1>10, <2>2 DEF Http!ConnectFails
<1>11. CASE Http!Duplicate(c)
  <2>1. Moves(c, "duped", addr[c], addr[c], open[c] \cup {"dup"}, result[c])
    BY <1>2, <1>4, <1>11 DEF Moves, Http!Goes, Http!Duplicate
  <2>2. addr[c] # 0
    BY <1>1, <1>11 DEF CallerInv, Http!Duplicate
  <2>q. QED
    BY <1>2, <1>3, <1>5, <2>1, <2>2, MovesKeep DEF Kept
<1>12. CASE Http!OpenSocket(c)
  BY <1>1, <1>3, <1>4, <1>6, <1>7, <1>12 DEF Http!OpenSocket
<1>13. CASE Http!CheckExpired(c) /\ expired[c]
  BY <1>1, <1>3, <1>4, <1>6, <1>13 DEF Http!CheckExpired
<1>14. CASE Http!ConnectFails(c)
  BY <1>1, <1>3, <1>6, <1>10, <1>14 DEF Http!ConnectFails
<1>q. QED
  BY <1>8, <1>9, <1>11, <1>12, <1>13, <1>14

(* The exchange on a connection and its end.                               *)
LEMMA TalkKeeps ==
  ASSUME HttpInv, NEW c \in Callers,
         Http!Talk(c) \/ Http!TalkFails(c) \/ \E framed \in BOOLEAN : Http!BodyEnds(c, framed)
  PROVE  Kept(c)
<1>1. HttpTypes /\ {"deadline", "transport", "too large", "ok"} \subseteq Results /\ CallerInv(c)
  BY DEF HttpInv, Results
<1>2. UNCHANGED <<addr, known, open, lookups, late, expired, timer, victim, shut>> /\ lookups' \in Int
  BY <1>1 DEF HttpTypes, Http!Talk, Http!TalkFails, Http!BodyEnds, Http!watch
<1>3. open[c] \in SUBSET {"sock", "dup"} /\ open = [open EXCEPT ![c] = open[c]]
  BY <1>1 DEF HttpTypes
<1>4. CASE \E why \in Results : Http!Raise(c, why)
  BY <1>2, <1>3, <1>4, RaiseKeeps DEF Kept, Steps
<1>5. CASE Http!Talk(c)
  <2>1. CASE UNCHANGED <<pc, result>>
    <3>1. pc[c] \in Steps /\ pc = [pc EXCEPT ![c] = pc[c]]
      BY <1>1 DEF HttpTypes
    <3>q. QED
      BY <1>1, <1>2, <2>1, <3>1 DEF Kept, HttpTypes, Alone, CallerInv, Fired, InServer
  <2>q. QED
    BY <1>1, <1>4, <1>5, <2>1 DEF Http!Talk
<1>6. CASE Http!TalkFails(c)
  <2>1. Http!Failure(c) \in Results
    BY <1>1 DEF Http!Failure
  <2>q. QED
    BY <1>1, <1>4, <1>6, <2>1 DEF Http!TalkFails
<1>7. ASSUME NEW framed \in BOOLEAN, Http!BodyEnds(c, framed) PROVE Kept(c)
  <2>1. CASE Http!Complete(c, framed)
    <3>1. framed
      BY <2>1 DEF Http!Complete
    <3>q. QED
      BY <1>1, <1>4, <1>7, <2>1, <3>1 DEF Http!BodyEnds
  <2>2. CASE ~Http!Complete(c, framed) /\ expired[c]
    BY <1>1, <1>4, <1>7, <2>2 DEF Http!BodyEnds
  <2>3. CASE ~Http!Complete(c, framed) /\ ~expired[c]
    BY <1>1, <1>4, <1>7, <2>3 DEF Http!BodyEnds
  <2>q. QED
    BY <2>1, <2>2, <2>3
<1>q. QED
  BY <1>5, <1>6, <1>7

(* The timer is armed first and cancelled last.                            *)
LEMMA StartFinallyKeep ==
  ASSUME HttpInv, NEW c \in Callers, Http!Start(c) \/ Http!Finally(c)
  PROVE  Kept(c)
<1>1. HttpTypes /\ CallerInv(c) /\ {"resolve", "done"} \subseteq Steps
  BY DEF HttpInv, Steps
<1>2. CASE Http!Start(c)
  <2>1. /\ pc' = [pc EXCEPT ![c] = "resolve"] /\ timer' = [timer EXCEPT ![c] = "armed"]
        /\ UNCHANGED <<addr, known, open, result, lookups, late, expired, victim, shut>>
    BY <1>2 DEF Http!Start, Http!Goes
  <2>2. HttpTypes'
    BY <1>1, <2>1 DEF HttpTypes
  <2>3. Alone(c)
    BY <1>1, <2>1 DEF HttpTypes, Alone
  <2>4. pc'[c] = "resolve" /\ timer'[c] = "armed"
    BY <1>1, <2>1 DEF HttpTypes
  <2>5. CallerInv(c)'
    BY <2>4 DEF CallerInv, Fired, InServer
  <2>q. QED
    BY <1>1, <2>1, <2>2, <2>3, <2>5 DEF Kept
<1>3. CASE Http!Finally(c)
  <2>1. /\ pc' = [pc EXCEPT ![c] = "done"] /\ known' = [known EXCEPT ![c] = 0]
        /\ timer' = [timer EXCEPT ![c] = IF timer[c] = "armed" THEN "cancelled" ELSE timer[c]]
        /\ open' = [open EXCEPT ![c] = {}]
        /\ UNCHANGED <<addr, result, lookups, late, expired, victim, shut>>
    BY <1>3 DEF Http!Finally, Http!Goes, Http!LeftOpen
  <2>2. HttpTypes'
    <3>1. 0 \in Nat
      BY SMT
    <3>q. QED
      BY <1>1, <2>1, <3>1 DEF HttpTypes
  <2>3. Alone(c)
    BY <1>1, <2>1 DEF HttpTypes, Alone
  <2>4. /\ pc'[c] = "done" /\ open'[c] = {} /\ expired' = expired
        /\ timer'[c] = "cancelled" \/ timer'[c] = timer[c]
    BY <1>1, <2>1 DEF HttpTypes
  <2>5. CallerInv(c)'
    BY <1>1, <2>4 DEF CallerInv, Fired, InServer
  <2>q. QED
    BY <1>1, <2>1, <2>2, <2>3, <2>5 DEF Kept
<1>q. QED
  BY <1>2, <1>3

(* One more thread waits for its lookup, one fewer, or as many.            *)
LEMMA WaitingCounts ==
  ASSUME HttpInv, IsFiniteSet(Callers), NEW c \in Callers, NEW p \in Steps, pc' = [pc EXCEPT ![c] = p]
  PROVE  /\ Http!Waiting \in Nat
         /\ pc[c] # "lookup" /\ p = "lookup" => Http!Waiting' = Http!Waiting + 1
         /\ pc[c] = "lookup" /\ p # "lookup" => Http!Waiting' = Http!Waiting - 1
         /\ (pc[c] = "lookup" <=> p = "lookup") => Http!Waiting' = Http!Waiting
<1> DEFINE W == {d \in Callers : pc[d] = "lookup"}
           V == {d \in Callers : pc'[d] = "lookup"}
<1>1. IsFiniteSet(W) /\ Cardinality(W) \in Nat
  BY FS_Subset, FS_CardinalityType
<1>2. pc'[c] = p /\ \A d \in Callers \ {c} : pc'[d] = pc[d]
  BY DEF HttpInv, HttpTypes
<1>3. Http!Waiting = Cardinality(W) /\ Http!Waiting' = Cardinality(V)
  BY DEF Http!Waiting, Http!Cardinality, Cardinality
<1>4. ASSUME pc[c] # "lookup", p = "lookup" PROVE Cardinality(V) = Cardinality(W) + 1
  <2>1. V = W \cup {c} /\ c \notin W
    BY <1>2, <1>4
  <2>q. QED
    BY <1>1, <2>1, FS_AddElement
<1>5. ASSUME pc[c] = "lookup", p # "lookup" PROVE Cardinality(V) = Cardinality(W) - 1
  <2>1. V = W \ {c} /\ c \in W
    BY <1>2, <1>5
  <2>q. QED
    BY <1>1, <2>1, FS_RemoveElement
<1>6. ASSUME pc[c] = "lookup" <=> p = "lookup" PROVE V = W
  BY <1>2, <1>6
<1> HIDE DEF W, V
<1>q. QED
  BY <1>1, <1>3, <1>4, <1>5, <1>6

(* A step of the calling thread keeps the permits and the lookups in step. *)
LEMMA LookupsKeep ==
  ASSUME HttpInv, IsFiniteSet(Callers), ResolverSlots \in Nat, NEW c \in Callers,
         Http!Start(c) \/ Http!Thread(c), Kept(c)
  PROVE  Http!LookupsBounded'
<1>1. PICK p \in Steps : pc' = [pc EXCEPT ![c] = p]
  BY DEF Kept
<1>2. lookups \in Int /\ pc \in [Callers -> Steps] /\ Http!Waiting <= lookups /\ lookups <= ResolverSlots
  BY DEF HttpInv, HttpTypes, Http!LookupsBounded
<1>3. pc'[c] = p
  BY <1>1, <1>2
<1>4. CASE lookups' = lookups /\ p # "lookup"
  <2>1. Http!Waiting \in Nat /\ Http!Waiting' \in {Http!Waiting, Http!Waiting - 1}
    BY <1>1, <1>4, WaitingCounts
  <2>2. Http!Waiting' <= lookups' /\ lookups' <= ResolverSlots
    BY <1>2, <1>4, <2>1, SMT
  <2>q. QED
    BY <2>2 DEF Http!LookupsBounded
<1>5. CASE lookups' = lookups + 1 /\ lookups < ResolverSlots /\ pc[c] # "lookup" /\ p = "lookup"
  <2>1. Http!Waiting \in Nat /\ Http!Waiting' = Http!Waiting + 1
    BY <1>1, <1>5, WaitingCounts
  <2>2. Http!Waiting' <= lookups' /\ lookups' <= ResolverSlots
    BY <1>2, <1>5, <2>1, SMT
  <2>q. QED
    BY <2>2 DEF Http!LookupsBounded
<1>6. CASE lookups' = lookups - 1 /\ pc[c] = "lookup" /\ p # "lookup"
  <2>1. Http!Waiting \in Nat /\ Http!Waiting' = Http!Waiting - 1
    BY <1>1, <1>6, WaitingCounts
  <2>2. Http!Waiting' <= lookups' /\ lookups' <= ResolverSlots
    BY <1>2, <1>6, <2>1, SMT
  <2>q. QED
    BY <2>2 DEF Http!LookupsBounded
<1>7. CASE Http!Lookup(c)
  BY <1>1, <1>2, <1>3, <1>4, <1>5, <1>7 DEF Http!Lookup, Http!Goes, Http!Raise
<1>8. CASE Http!LookupEnds(c)
  BY <1>2, <1>3, <1>6, <1>8 DEF Http!LookupEnds, Http!Goes, Http!Raise
<1>9. ASSUME ~Http!Lookup(c), ~Http!LookupEnds(c) PROVE lookups' = lookups /\ p # "lookup"
  BY <1>2, <1>3, <1>9
     DEF Http!Start, Http!Thread, Http!Abandon, Http!OpenSocket, Http!CheckExpired, Http!Connected,
         Http!ConnectFails, Http!Duplicate, Http!Talk, Http!TalkFails, Http!BodyEnds, Http!Finally,
         Http!Goes, Http!Raise
<1>q. QED
  BY <1>4, <1>7, <1>8, <1>9

(* No exchange has begun.                                                  *)
LEMMA HttpInit == ASSUME IsFiniteSet(Callers), ResolverSlots \in Nat PROVE Http!Init => HttpInv
<1> SUFFICES ASSUME Http!Init PROVE HttpInv
  OBVIOUS
<1>1. 0 \in Nat /\ 0 \in Int /\ 0 <= 0 /\ 0 <= ResolverSlots
  BY SMT
<1>2. HttpTypes
  BY <1>1 DEF Http!Init, HttpTypes, Steps
<1>3. \A c \in Callers : CallerInv(c)
  BY DEF Http!Init, CallerInv, Fired, InServer
<1>4. {c \in Callers : pc[c] = "lookup"} = {} /\ lookups = 0
  BY DEF Http!Init
<1>5. Http!Waiting = 0
  BY <1>4, FS_EmptySet DEF Http!Waiting, Http!Cardinality, Cardinality
<1>q. QED
  BY <1>1, <1>2, <1>3, <1>4, <1>5 DEF HttpInv, Http!LookupsBounded

(* Every step of a thread or a watchdog keeps the invariant.               *)
LEMMA HttpNext ==
  ASSUME IsFiniteSet(Callers), ResolverSlots \in Nat
  PROVE  HttpInv /\ [Http!Next]_Http!vars => HttpInv'
<1> SUFFICES ASSUME HttpInv, [Http!Next]_Http!vars PROVE HttpInv'
  OBVIOUS
<1>1. CASE UNCHANGED Http!vars
  BY <1>1 DEF HttpInv, HttpTypes, CallerInv, Fired, InServer, Http!LookupsBounded, Http!Waiting, Http!vars
<1>2. ASSUME NEW c \in Callers, Http!Start(c) \/ Http!Thread(c) PROVE HttpInv'
  <2>1. Kept(c)
    BY <1>2, ResolveKeeps, ConnectingKeeps, TalkKeeps, StartFinallyKeep DEF Http!Thread
  <2>2. Http!LookupsBounded'
    BY <1>2, <2>1, LookupsKeep
  <2>q. QED
    BY <2>1, <2>2, AloneKeeps DEF Kept, HttpInv
<1>3. ASSUME NEW c \in Callers, Http!DeadlinePasses(c) \/ Http!KillTakes(c) \/ Http!KillShuts(c) PROVE HttpInv'
  <2>1. HttpTypes' /\ Alone(c) /\ CallerInv(c)' /\ UNCHANGED <<pc, lookups>>
    BY <1>3, WatchKeeps
  <2>2. Http!LookupsBounded'
    BY <2>1 DEF HttpInv, Http!LookupsBounded, Http!Waiting
  <2>q. QED
    BY <2>1, <2>2, AloneKeeps DEF HttpInv
<1>4. CASE Http!AbandonedEnds
  <2>1. UNCHANGED <<pc, addr, known, open, result, late, expired, timer, victim, shut>> /\ lookups' = lookups - 1
    BY <1>4 DEF Http!AbandonedEnds, Http!watch
  <2>2. HttpTypes'
    <3>1. lookups - 1 \in Int
      <4>1. lookups \in Int
        BY DEF HttpInv, HttpTypes
      <4>q. QED
        BY <4>1, SMT
    <3>q. QED
      BY <2>1, <3>1 DEF HttpInv, HttpTypes
  <2>3. \A c \in Callers : CallerInv(c)'
    BY <2>1 DEF HttpInv, CallerInv, Fired, InServer
  <2>4. Http!LookupsBounded'
    <3>1. Http!Waiting' = Http!Waiting
      BY <2>1 DEF Http!Waiting
    <3>2. Http!Waiting \in Nat
      BY FS_Subset, FS_CardinalityType DEF Http!Waiting, Http!Cardinality, Cardinality
    <3>3. lookups \in Int /\ lookups > Http!Waiting /\ lookups <= ResolverSlots
      BY <1>4 DEF HttpInv, HttpTypes, Http!LookupsBounded, Http!AbandonedEnds
    <3>q. QED
      BY <2>1, <3>1, <3>2, <3>3, SMT DEF Http!LookupsBounded
  <2>q. QED
    BY <2>2, <2>3, <2>4 DEF HttpInv
<1>q. QED
  BY <1>1, <1>2, <1>3, <1>4 DEF Http!Next

(* For any number of threads, addresses and permits: once the watchdog has *)
(* run no thread waits on a connection that was not shut down, an exchange *)
(* leaves no descriptor open and no partial answer, and abandoned lookups  *)
(* never exceed their permits (bounded_http.py:35-49, 102-193).            *)
THEOREM ExchangesEnd ==
  ASSUME IsFiniteSet(Callers), ResolverSlots \in Nat
  PROVE  Http!Spec => [](Http!WatchdogReaches /\ Http!EndsClean /\ Http!LookupsBounded)
<1>1. HttpInv => Http!WatchdogReaches /\ Http!EndsClean /\ Http!LookupsBounded
  BY DEF HttpInv, HttpTypes, CallerInv, InServer, Http!WatchdogReaches, Http!EndsClean
<1>q. QED
  BY <1>1, HttpInit, HttpNext, PTL DEF Http!Spec

-----------------------------------------------------------------------------
(* Authentication, admission and the service's end (Gate)                  *)

CONSTANTS Requests, Tokens, Subjects, Expiry, Slots, CacheTtl, Deadline, MaxEntries
VARIABLES lstm, service, asked, free, cache, revoked, clock

Gate == INSTANCE Gate WITH req <- asked, now <- clock

Kinds == {"review", "work", "infer"}
Fields == {"co", "tok", "path", "review", "work", "sent", "ok", "result", "at"}

(* A request's record, as far as the slots depend on it.                   *)
IsRequest(q) ==
  /\ q = [f \in Fields |-> q[f]]
  /\ q.co \in {"idle", "waiting", "review", "body", "work", "end"}
  /\ q.review \in {"none", "queued", "sent", "answered", "done"}
  /\ q.work \in {"none", "queued", "reading", "inferring", "done"}
  /\ q.co \in {"idle", "waiting", "body", "work"} => q.review = "none"
  /\ q.co \in {"idle", "waiting", "review", "body"} => q.work = "none"

GateTypes ==
  /\ asked = [r \in Requests |-> asked[r]] /\ \A r \in Requests : IsRequest(asked[r])
  /\ free \in [Kinds -> Int]
  /\ service \in {"starting", "up", "stopping", "closed"}

(* The future that holds a slot of kind k.                                 *)
Uses(q, k) ==
  \/ k = "review" /\ q.review \in {"queued", "sent", "answered"}
  \/ k = "work" /\ q.work \in {"queued", "reading", "inferring"}
  \/ k = "infer" /\ q.work = "inferring"

Users(k) == {r \in Requests : Uses(asked[r], k)}
Counted == \A k \in Kinds : free[k] + Cardinality(Users(k)) = Slots[k]

(* No work waits at a service that has stopped, none runs at a closed one. *)
MayWork(q) ==
  /\ service \in {"stopping", "closed"} => q.work # "queued"
  /\ service = "closed" => q.work \notin {"reading", "inferring"}

GateInv == GateTypes /\ Counted /\ \A r \in Requests : MayWork(asked[r])

Bit(b) == IF b THEN 1 ELSE 0

(* Finitely many requests, and a number of slots of each kind.             *)
GateConstants == IsFiniteSet(Requests) /\ Slots \in [Kinds -> Nat]

(* Finitely many requests use a kind of slot.                              *)
LEMMA UsersFinite ==
  ASSUME GateConstants, NEW k
  PROVE  IsFiniteSet(Users(k)) /\ Cardinality(Users(k)) \in Nat
<1>1. Users(k) \subseteq Requests /\ IsFiniteSet(Requests)
  BY DEF Users, GateConstants
<1>q. QED
  BY <1>1, FS_Subset, FS_CardinalityType

(* A slot is taken or returned exactly when its use begins or ends.        *)
LEMMA UserCounts ==
  ASSUME GateConstants, GateInv, NEW r \in Requests, NEW q, asked' = [asked EXCEPT ![r] = q], NEW k \in Kinds,
         free'[k] = (free[k] + Bit(Uses(asked[r], k))) - Bit(Uses(q, k))
  PROVE  free'[k] + Cardinality(Users(k)') = Slots[k]
<1> DEFINE U == Users(k)
           V == Users(k)'
<1>1. IsFiniteSet(U) /\ Cardinality(U) \in Nat
  BY UsersFinite
<1>2. asked'[r] = q /\ \A d \in Requests \ {r} : asked'[d] = asked[d]
  BY DEF GateInv, GateTypes
<1>3. free[k] \in Int /\ free[k] + Cardinality(U) = Slots[k]
  BY DEF GateInv, GateTypes, Counted
<1>4. ASSUME Uses(asked[r], k), ~Uses(q, k) PROVE Cardinality(V) = Cardinality(U) - 1 /\ free'[k] = (free[k] + 1) - 0
  <2>1. V = U \ {r} /\ r \in U
    BY <1>2, <1>4 DEF Users
  <2>2. Cardinality(V) = Cardinality(U) - 1
    BY <1>1, <2>1, FS_RemoveElement
  <2>q. QED
    BY <1>4, <2>2 DEF Bit
<1>5. ASSUME ~Uses(asked[r], k), Uses(q, k) PROVE Cardinality(V) = Cardinality(U) + 1 /\ free'[k] = (free[k] + 0) - 1
  <2>1. V = U \cup {r} /\ r \notin U
    BY <1>2, <1>5 DEF Users
  <2>2. Cardinality(V) = Cardinality(U) + 1
    BY <1>1, <2>1, FS_AddElement
  <2>q. QED
    BY <1>5, <2>2 DEF Bit
<1>6. ASSUME Uses(asked[r], k) <=> Uses(q, k)
      PROVE  V = U /\ \E b \in {0, 1} : free'[k] = (free[k] + b) - b
  <2>1. V = U
    BY <1>2, <1>6 DEF Users
  <2>q. QED
    BY <1>6, <2>1 DEF Bit
<1> HIDE DEF U, V
<1>7. free'[k] + Cardinality(V) = Slots[k]
  <2>1. ASSUME NEW a \in Int, NEW n \in Nat, NEW b \in {0, 1}
        PROVE  /\ ((a + 1) - 0) + (n - 1) = a + n /\ ((a + 0) - 1) + (n + 1) = a + n
               /\ ((a + b) - b) + n = a + n
    BY SMT
  <2>2. CASE Uses(asked[r], k) /\ ~Uses(q, k)
    BY <1>1, <1>3, <1>4, <2>1, <2>2, Zenon
  <2>3. CASE ~Uses(asked[r], k) /\ Uses(q, k)
    BY <1>1, <1>3, <1>5, <2>1, <2>3, Zenon
  <2>4. CASE Uses(asked[r], k) <=> Uses(q, k)
    BY <1>1, <1>3, <1>6, <2>1, <2>4, Zenon
  <2>q. QED
    BY <2>2, <2>3, <2>4
<1>q. QED
  BY <1>7 DEF V

(* A step of one request, coroutine or future.                             *)
LEMMA BecomesKeeps ==
  ASSUME GateConstants, GateInv, NEW r \in Requests, NEW q, Gate!Becomes(r, q), IsRequest(q), UNCHANGED service,
         MayWork(q), free' \in [Kinds -> Int],
         \A k \in Kinds : free'[k] = (free[k] + Bit(Uses(asked[r], k))) - Bit(Uses(q, k))
  PROVE  GateInv'
<1>1. asked' = [asked EXCEPT ![r] = q]
  BY DEF Gate!Becomes
<1>2. /\ asked'[r] = q /\ \A d \in Requests \ {r} : asked'[d] = asked[d]
      /\ asked' = [d \in Requests |-> asked'[d]]
  BY <1>1 DEF GateInv, GateTypes
<1>3. GateTypes'
  BY <1>2 DEF GateInv, GateTypes
<1>4. Counted'
  <2> SUFFICES ASSUME NEW k \in Kinds PROVE free'[k] + Cardinality(Users(k)') = Slots[k]
    BY DEF Counted
  <2>q. QED
    BY <1>1, UserCounts
<1>5. \A d \in Requests : MayWork(asked[d])'
  BY <1>2 DEF GateInv, MayWork
<1>q. QED
  BY <1>3, <1>4, <1>5 DEF GateInv

(* A step that takes or returns no slot.                                   *)
LEMMA SameSlotsKeeps ==
  ASSUME GateConstants, GateInv, NEW r \in Requests, NEW q, Gate!Becomes(r, q), IsRequest(q),
         UNCHANGED <<service, free>>, MayWork(q), \A k \in Kinds : Uses(asked[r], k) <=> Uses(q, k)
  PROVE  GateInv'
<1>1. free \in [Kinds -> Int]
  BY DEF GateInv, GateTypes
<1>2. ASSUME NEW a \in Int, NEW b \in {0, 1} PROVE a = (a + b) - b
  BY SMT
<1>3. ASSUME NEW k \in Kinds PROVE free'[k] = (free[k] + Bit(Uses(asked[r], k))) - Bit(Uses(q, k))
  <2>1. Bit(Uses(asked[r], k)) = Bit(Uses(q, k)) /\ Bit(Uses(q, k)) \in {0, 1} /\ free[k] \in Int
    BY <1>1 DEF Bit
  <2>q. QED
    BY <1>2, <2>1
<1>q. QED
  BY <1>1, <1>3, BecomesKeeps

(* A step that takes a slot, or returns one.                               *)
LEMMA TakeKeeps ==
  ASSUME GateConstants, GateInv, NEW r \in Requests, NEW q, Gate!Becomes(r, q), IsRequest(q),
         UNCHANGED service, MayWork(q), NEW s \in Kinds, Gate!Take(s), ~Uses(asked[r], s), Uses(q, s),
         \A k \in Kinds \ {s} : Uses(asked[r], k) <=> Uses(q, k)
  PROVE  GateInv'
<1>1. free \in [Kinds -> Int] /\ free' = [free EXCEPT ![s] = free[s] - 1]
  BY DEF GateInv, GateTypes, Gate!Take
<1>2. ASSUME NEW a \in Int, NEW b \in {0, 1} PROVE a = (a + b) - b /\ a - 1 = (a + 0) - 1 /\ a - 1 \in Int
  BY SMT
<1>3. free' \in [Kinds -> Int]
  BY <1>1, <1>2
<1>4. ASSUME NEW k \in Kinds PROVE free'[k] = (free[k] + Bit(Uses(asked[r], k))) - Bit(Uses(q, k))
  <2>1. CASE k = s
    <3>1. Bit(Uses(asked[r], k)) = 0 /\ Bit(Uses(q, k)) = 1 /\ free'[k] = free[k] - 1 /\ free[k] \in Int
      BY <1>1, <2>1 DEF Bit
    <3>q. QED
      BY <1>2, <3>1
  <2>2. CASE k # s
    <3>1. Bit(Uses(asked[r], k)) = Bit(Uses(q, k)) /\ Bit(Uses(q, k)) \in {0, 1}
          /\ free'[k] = free[k] /\ free[k] \in Int
      BY <1>1, <2>2 DEF Bit
    <3>q. QED
      BY <1>2, <3>1
  <2>q. QED
    BY <2>1, <2>2
<1>q. QED
  BY <1>3, <1>4, BecomesKeeps

(* A step that returns the slots of S.                                     *)
LEMMA ReleaseKeeps ==
  ASSUME GateConstants, GateInv, NEW r \in Requests, NEW q, Gate!Becomes(r, q), IsRequest(q),
         UNCHANGED service, MayWork(q), NEW S \in SUBSET Kinds,
         free' = [k \in Kinds |-> IF k \in S THEN free[k] + 1 ELSE free[k]],
         \A k \in S : Uses(asked[r], k) /\ ~Uses(q, k),
         \A k \in Kinds \ S : Uses(asked[r], k) <=> Uses(q, k)
  PROVE  GateInv'
<1>1. free \in [Kinds -> Int]
  BY DEF GateInv, GateTypes
<1>2. ASSUME NEW a \in Int, NEW b \in {0, 1} PROVE a = (a + b) - b /\ a + 1 = (a + 1) - 0 /\ a + 1 \in Int
  BY SMT
<1>3. free' \in [Kinds -> Int]
  BY <1>1, <1>2
<1>4. ASSUME NEW k \in Kinds PROVE free'[k] = (free[k] + Bit(Uses(asked[r], k))) - Bit(Uses(q, k))
  <2>1. CASE k \in S
    <3>1. Bit(Uses(asked[r], k)) = 1 /\ Bit(Uses(q, k)) = 0 /\ free'[k] = free[k] + 1 /\ free[k] \in Int
      BY <1>1, <2>1 DEF Bit
    <3>q. QED
      BY <1>2, <3>1
  <2>2. CASE k \notin S
    <3>1. Bit(Uses(asked[r], k)) = Bit(Uses(q, k)) /\ Bit(Uses(q, k)) \in {0, 1}
          /\ free'[k] = free[k] /\ free[k] \in Int
      BY <1>1, <2>2 DEF Bit
    <3>q. QED
      BY <1>2, <3>1
  <2>q. QED
    BY <2>1, <2>2
<1>q. QED
  BY <1>3, <1>4, BecomesKeeps

(* The record of a request that is not served, or not yet.                 *)
LEMMA NoRequest ==
  /\ IsRequest(Gate!NoReq) /\ Gate!NoReq.review = "none" /\ Gate!NoReq.work = "none"
  /\ Gate!NoReq = [f \in Fields |-> Gate!NoReq[f]]
BY DEF Gate!NoReq, IsRequest, Fields

(* A request that arrives, goes on after its review, or is over.           *)
LEMMA TurnsKeep ==
  ASSUME GateConstants, GateInv, NEW r \in Requests, Gate!Reviewed(r) \/ Gate!Ended(r) \/
           \E k \in Tokens, p \in Gate!Paths : Gate!Arrive(r, k, p)
  PROVE  GateInv'
<1>1. IsRequest(asked[r])
  BY DEF GateInv, GateTypes
<1>2. asked[r].review \in {"none", "done"} /\ asked[r].work \in {"none", "done"} /\ UNCHANGED <<service, free>>
  BY <1>1 DEF IsRequest, Gate!Reviewed, Gate!Ended, Gate!Arrive
<1>3. ASSUME NEW q, Gate!Becomes(r, q), IsRequest(q), q.review = "none", q.work = "none" PROVE GateInv'
  <2>1. MayWork(q)
    BY <1>3 DEF MayWork
  <2>2. ASSUME NEW k PROVE ~Uses(asked[r], k) /\ ~Uses(q, k)
    BY <1>2, <1>3 DEF Uses
  <2>q. QED
    BY <1>2, <1>3, <2>1, <2>2, SameSlotsKeeps
<1>4. CASE Gate!Reviewed(r)
  <2>1. PICK co \in {"body", "end"} : Gate!Becomes(r, [Gate!NoReq EXCEPT !.co = co])
    BY <1>4 DEF Gate!Reviewed
  <2> DEFINE q == [Gate!NoReq EXCEPT !.co = co]
  <2>2. q = [f \in Fields |-> q[f]] /\ q.co = co /\ q.review = "none" /\ q.work = "none"
    BY NoRequest DEF Fields
  <2>3. IsRequest(q)
    BY <2>2 DEF IsRequest
  <2>q. QED
    BY <1>3, <2>1, <2>2, <2>3
<1>5. CASE Gate!Ended(r)
  BY <1>3, <1>5, NoRequest DEF Gate!Ended
<1>6. ASSUME NEW k \in Tokens, NEW p \in Gate!Paths, Gate!Arrive(r, k, p) PROVE GateInv'
  <2> DEFINE q == [Gate!NoReq EXCEPT !.co = "waiting", !.tok = k, !.path = p]
  <2>1. q = [f \in Fields |-> q[f]] /\ q.co = "waiting" /\ q.review = "none" /\ q.work = "none"
    BY NoRequest DEF Fields
  <2>2. IsRequest(q)
    BY <2>1 DEF IsRequest
  <2>q. QED
    BY <1>3, <1>6, <2>1, <2>2 DEF Gate!Arrive
<1>q. QED
  BY <1>4, <1>5, <1>6

(* A request that is given a slot or refused one.                          *)
LEMMA SubmitsKeep ==
  ASSUME GateConstants, GateInv, NEW r \in Requests, Gate!SubmitReview(r) \/ Gate!SubmitWork(r) \/ Gate!Worked(r)
  PROVE  GateInv'
<1> DEFINE old == asked[r]
<1>1. IsRequest(old) /\ MayWork(old) /\ UNCHANGED service
  BY DEF GateInv, GateTypes, Gate!SubmitReview, Gate!SubmitWork, Gate!Worked
<1>2. old = [f \in Fields |-> old[f]]
  BY <1>1 DEF IsRequest
<1>3. CASE Gate!Becomes(r, [old EXCEPT !.co = "end"]) /\ UNCHANGED free
  <2> DEFINE q == [old EXCEPT !.co = "end"]
  <2>1. q = [f \in Fields |-> q[f]] /\ q.co = "end" /\ q.review = old.review /\ q.work = old.work
    BY <1>2 DEF Fields
  <2>2. IsRequest(q) /\ MayWork(q)
    BY <1>1, <2>1 DEF IsRequest, MayWork
  <2>3. ASSUME NEW k PROVE Uses(old, k) <=> Uses(q, k)
    BY <2>1 DEF Uses
  <2> HIDE DEF q, old
  <2>q. QED
    BY <1>1, <1>3, <2>2, <2>3, SameSlotsKeeps DEF q, old
<1>4. CASE /\ old.co = "waiting" /\ Gate!Take("review")
           /\ Gate!Becomes(r, [old EXCEPT !.co = "review", !.review = "queued"])
  <2> DEFINE q == [old EXCEPT !.co = "review", !.review = "queued"]
  <2>1. q = [f \in Fields |-> q[f]] /\ q.co = "review" /\ q.review = "queued" /\ q.work = old.work
    BY <1>2 DEF Fields
  <2>2. old.review = "none" /\ old.work = "none"
    BY <1>1, <1>4 DEF IsRequest
  <2>3. IsRequest(q) /\ MayWork(q)
    BY <1>1, <2>1, <2>2 DEF IsRequest, MayWork
  <2>4. ~Uses(old, "review") /\ Uses(q, "review") /\ \A k \in Kinds \ {"review"} : Uses(old, k) <=> Uses(q, k)
    BY <2>1, <2>2 DEF Uses
  <2>5. "review" \in Kinds
    BY DEF Kinds
  <2> HIDE DEF q
  <2>q. QED
    BY <1>1, <1>4, <2>3, <2>4, <2>5, TakeKeeps DEF q
<1>5. CASE /\ old.co = "body" /\ service = "up" /\ Gate!Take("work")
           /\ Gate!Becomes(r, [old EXCEPT !.co = "work", !.work = "queued"])
  <2> DEFINE q == [old EXCEPT !.co = "work", !.work = "queued"]
  <2>1. q = [f \in Fields |-> q[f]] /\ q.co = "work" /\ q.review = old.review /\ q.work = "queued"
    BY <1>2 DEF Fields
  <2>2. old.review = "none" /\ old.work = "none"
    BY <1>1, <1>5 DEF IsRequest
  <2>3. IsRequest(q) /\ MayWork(q)
    BY <1>1, <1>5, <2>1, <2>2 DEF IsRequest, MayWork
  <2>4. ~Uses(old, "work") /\ Uses(q, "work") /\ \A k \in Kinds \ {"work"} : Uses(old, k) <=> Uses(q, k)
    BY <2>1, <2>2 DEF Uses
  <2>5. "work" \in Kinds
    BY DEF Kinds
  <2> HIDE DEF q
  <2>q. QED
    BY <1>1, <1>5, <2>3, <2>4, <2>5, TakeKeeps DEF q
<1>q. QED
  BY <1>3, <1>4, <1>5 DEF Gate!SubmitReview, Gate!SubmitWork, Gate!Worked

(* The slots of a cancelled request: only those of futures not started.    *)
LEMMA CancelKeeps ==
  ASSUME GateConstants, GateInv, NEW r \in Requests, Gate!Cancel(r)
  PROVE  GateInv'
<1> DEFINE old == asked[r]
           q == [old EXCEPT !.co = "end", !.review = Gate!Dropped(old.review), !.work = Gate!Dropped(old.work)]
           S == {k \in {"review", "work"} : old[k] = "queued"}
<1>1. IsRequest(old) /\ MayWork(old) /\ UNCHANGED service /\ free \in [Kinds -> Int]
  BY DEF GateInv, GateTypes, Gate!Cancel
<1>2. old = [f \in Fields |-> old[f]]
  BY <1>1 DEF IsRequest
<1>3. /\ q = [f \in Fields |-> q[f]] /\ q.co = "end"
      /\ q.review = Gate!Dropped(old.review) /\ q.work = Gate!Dropped(old.work)
  BY <1>2 DEF Fields
<1>4. IsRequest(q) /\ MayWork(q)
  BY <1>1, <1>3 DEF IsRequest, MayWork, Gate!Dropped
<1>5. Gate!Becomes(r, q)
  BY DEF Gate!Cancel
<1>6. \A k \in S : Uses(old, k) /\ ~Uses(q, k)
  BY <1>3 DEF Uses, Gate!Dropped
<1>7. \A k \in Kinds \ S : Uses(old, k) <=> Uses(q, k)
  <2>1. ASSUME "review" \notin S PROVE q.review = old.review
    BY <1>3, <2>1 DEF Gate!Dropped
  <2>2. "work" \in S \/ q.work = old.work
    BY <1>3 DEF Gate!Dropped
  <2>3. "work" \in S => old.work = "queued" /\ q.work = "done"
    BY <1>3 DEF Gate!Dropped
  <2> HIDE DEF S, q
  <2>q. QED
    BY <2>1, <2>2, <2>3 DEF Uses, Kinds
<1>8. free' = [k \in Kinds |-> IF k \in S THEN free[k] + 1 ELSE free[k]]
  <2>1. free' = [free EXCEPT !["review"] = free["review"] + Gate!Queued(r, "review"),
                             !["work"] = free["work"] + Gate!Queued(r, "work")]
    BY DEF Gate!Cancel, Gate!FreedByCancel
  <2>2. ASSUME NEW k \in {"review", "work"}
        PROVE  free[k] + Gate!Queued(r, k) = IF k \in S THEN free[k] + 1 ELSE free[k]
    <3>1. CASE k \in S
      BY <3>1 DEF Gate!Queued
    <3>2. CASE k \notin S
      <4>1. Gate!Queued(r, k) = 0 /\ free[k] \in Int
        BY <1>1, <3>2 DEF Gate!Queued, Kinds
      <4>q. QED
        BY <3>2, <4>1, SMT
    <3>q. QED
      BY <3>1, <3>2
  <2>3. "infer" \notin S /\ "infer" \notin {"review", "work"} /\ "review" # "work"
    OBVIOUS
  <2> HIDE DEF S
  <2>q. QED
    BY <1>1, <2>1, <2>2, <2>3 DEF Kinds
<1>9. S \in SUBSET Kinds
  BY DEF Kinds
<1> HIDE DEF q, S
<1>q. QED
  BY <1>1, <1>4, <1>5, <1>6, <1>7, <1>8, <1>9, ReleaseKeeps

(* The thread that reviews a token.                                        *)
LEMMA ReviewsKeep ==
  ASSUME GateConstants, GateInv, NEW r \in Requests,
         Gate!LookUp(r) \/ Gate!Decide(r) \/ Gate!Answer(r) \/ Gate!ReviewFails(r)
  PROVE  GateInv'
<1> DEFINE old == asked[r]
<1>1. IsRequest(old) /\ MayWork(old) /\ UNCHANGED service /\ free \in [Kinds -> Int]
  BY DEF GateInv, GateTypes, Gate!LookUp, Gate!Decide, Gate!Answer, Gate!ReviewFails
<1>2. old = [f \in Fields |-> old[f]] /\ old.review \in {"queued", "sent", "answered"}
  BY <1>1 DEF IsRequest, Gate!LookUp, Gate!Decide, Gate!Answer, Gate!ReviewFails
<1>3. ASSUME NEW q, Gate!Becomes(r, q), Gate!Release("review"), q = [f \in Fields |-> q[f]],
             q.co = old.co, q.review = "done", q.work = old.work
      PROVE  GateInv'
  <2>1. IsRequest(q) /\ MayWork(q)
    BY <1>1, <1>2, <1>3 DEF IsRequest, MayWork
  <2>2. \A k \in {"review"} : Uses(old, k) /\ ~Uses(q, k)
    BY <1>2, <1>3 DEF Uses
  <2>3. \A k \in Kinds \ {"review"} : Uses(old, k) <=> Uses(q, k)
    BY <1>3 DEF Uses
  <2>4. free' = [k \in Kinds |-> IF k \in {"review"} THEN free[k] + 1 ELSE free[k]]
    BY <1>1, <1>3 DEF Gate!Release, Kinds
  <2>5. {"review"} \in SUBSET Kinds
    BY DEF Kinds
  <2>q. QED
    BY <1>1, <1>3, <2>1, <2>2, <2>3, <2>4, <2>5, ReleaseKeeps
<1>4. ASSUME NEW q, Gate!Becomes(r, q), UNCHANGED free, q = [f \in Fields |-> q[f]],
             q.co = old.co, q.review \in {"sent", "answered"}, q.work = old.work
      PROVE  GateInv'
  <2>1. IsRequest(q) /\ MayWork(q)
    BY <1>1, <1>2, <1>4 DEF IsRequest, MayWork
  <2>2. \A k \in Kinds : Uses(old, k) <=> Uses(q, k)
    BY <1>2, <1>4 DEF Uses
  <2>q. QED
    BY <1>1, <1>4, <2>1, <2>2, SameSlotsKeeps
<1>5. ASSUME NEW ok, Gate!Becomes(r, Gate!Outcome(r, ok)), Gate!Release("review") PROVE GateInv'
  <2> DEFINE q == Gate!Outcome(r, ok)
  <2>1. q = [f \in Fields |-> q[f]] /\ q.co = old.co /\ q.review = "done" /\ q.work = old.work
    BY <1>2 DEF Gate!Outcome, Fields
  <2>q. QED
    BY <1>3, <1>5, <2>1
<1>6. CASE Gate!LookUp(r)
  <2>1. CASE \E i : Gate!Becomes(r, Gate!Outcome(r, cache[i].ok)) /\ Gate!Release("review")
    BY <1>5, <2>1
  <2>2. CASE Gate!Becomes(r, [old EXCEPT !.review = "sent", !.sent = clock]) /\ UNCHANGED free
    <3> DEFINE q == [old EXCEPT !.review = "sent", !.sent = clock]
    <3>1. q = [f \in Fields |-> q[f]] /\ q.co = old.co /\ q.review = "sent" /\ q.work = old.work
      BY <1>2 DEF Fields
    <3>q. QED
      BY <1>4, <2>2, <3>1
  <2>q. QED
    BY <1>6, <2>1, <2>2 DEF Gate!LookUp
<1>7. CASE Gate!Decide(r)
  <2>1. PICK verdict : Gate!Becomes(r, [old EXCEPT !.review = "answered", !.ok = clock, !.result = verdict])
    BY <1>7 DEF Gate!Decide
  <2> DEFINE q == [old EXCEPT !.review = "answered", !.ok = clock, !.result = verdict]
  <2>2. q = [f \in Fields |-> q[f]] /\ q.co = old.co /\ q.review = "answered" /\ q.work = old.work
    BY <1>2 DEF Fields
  <2>3. UNCHANGED free
    BY <1>7 DEF Gate!Decide
  <2>q. QED
    BY <1>4, <2>1, <2>2, <2>3
<1>8. CASE Gate!Answer(r)
  <2>1. Gate!Release("review")
    BY <1>8 DEF Gate!Answer
  <2> DEFINE q == [old EXCEPT !.review = "done", !.sent = 0, !.ok = 0]
  <2>2. q = [f \in Fields |-> q[f]] /\ q.co = old.co /\ q.review = "done" /\ q.work = old.work
    BY <1>2 DEF Fields
  <2>3. Gate!Becomes(r, Gate!Outcome(r, old.ok)) \/ Gate!Becomes(r, q)
    BY <1>8 DEF Gate!Answer
  <2>q. QED
    BY <1>3, <1>5, <2>1, <2>2, <2>3
<1>9. CASE Gate!ReviewFails(r)
  <2> DEFINE q == [old EXCEPT !.review = "done", !.sent = 0, !.ok = 0, !.result = "unavailable"]
  <2>1. q = [f \in Fields |-> q[f]] /\ q.co = old.co /\ q.review = "done" /\ q.work = old.work
    BY <1>2 DEF Fields
  <2>2. Gate!Release("review") /\ Gate!Becomes(r, q)
    BY <1>9 DEF Gate!ReviewFails
  <2>q. QED
    BY <1>3, <2>1, <2>2
<1>q. QED
  BY <1>6, <1>7, <1>8, <1>9

(* The thread that serves a request.                                       *)
LEMMA WorkKeeps ==
  ASSUME GateConstants, GateInv, NEW r \in Requests, Gate!StartWork(r) \/ Gate!Infer(r) \/ Gate!WorkEnds(r)
  PROVE  GateInv'
<1> DEFINE old == asked[r]
           q(phase) == [old EXCEPT !.work = phase]
<1>1. IsRequest(old) /\ MayWork(old) /\ UNCHANGED service /\ free \in [Kinds -> Int]
  BY DEF GateInv, GateTypes, Gate!StartWork, Gate!Infer, Gate!WorkEnds
<1>2. old = [f \in Fields |-> old[f]] /\ old.co \in {"work", "end"}
  BY <1>1 DEF IsRequest, Gate!StartWork, Gate!Infer, Gate!WorkEnds
<1>3. ASSUME NEW phase PROVE
        /\ q(phase) = [f \in Fields |-> q(phase)[f]] /\ q(phase).co = old.co
        /\ q(phase).review = old.review /\ q(phase).work = phase
  BY <1>2 DEF Fields
<1>4. ASSUME NEW phase \in {"reading", "inferring", "done"} PROVE IsRequest(q(phase))
  BY <1>1, <1>2, <1>3 DEF IsRequest
<1> HIDE DEF q
<1>5. CASE Gate!StartWork(r)
  <2>1. Gate!Becomes(r, q("reading")) /\ UNCHANGED free /\ old.work = "queued"
    BY <1>5 DEF Gate!StartWork, Gate!WorkGoes, q
  <2>2. MayWork(q("reading"))
    BY <1>1, <1>3, <2>1 DEF MayWork
  <2>3. \A k \in Kinds : Uses(old, k) <=> Uses(q("reading"), k)
    BY <1>3, <2>1 DEF Uses
  <2>q. QED
    BY <1>1, <1>4, <2>1, <2>2, <2>3, SameSlotsKeeps
<1>6. CASE Gate!Infer(r)
  <2>1. Gate!Becomes(r, q("inferring")) /\ Gate!Take("infer") /\ old.work = "reading"
    BY <1>6 DEF Gate!Infer, Gate!WorkGoes, q
  <2>2. MayWork(q("inferring"))
    BY <1>1, <1>3, <2>1 DEF MayWork
  <2>3. /\ ~Uses(old, "infer") /\ Uses(q("inferring"), "infer")
        /\ \A k \in Kinds \ {"infer"} : Uses(old, k) <=> Uses(q("inferring"), k)
    BY <1>3, <2>1 DEF Uses
  <2>4. "infer" \in Kinds
    BY DEF Kinds
  <2>q. QED
    BY <1>1, <1>4, <2>1, <2>2, <2>3, <2>4, TakeKeeps
<1>7. CASE Gate!WorkEnds(r)
  <2> DEFINE S == Gate!Freed(r)
  <2>1. Gate!Becomes(r, q("done")) /\ old.work \in {"reading", "inferring"}
    BY <1>7 DEF Gate!WorkEnds, Gate!WorkGoes, q
  <2>2. MayWork(q("done"))
    BY <1>3 DEF MayWork
  <2>3. S \in SUBSET Kinds
    BY DEF Gate!Freed, Kinds
  <2>4. \A k \in S : Uses(old, k) /\ ~Uses(q("done"), k)
    BY <1>3, <2>1 DEF Gate!Freed, Uses
  <2>5. \A k \in Kinds \ S : Uses(old, k) <=> Uses(q("done"), k)
    BY <1>3, <2>1 DEF Gate!Freed, Uses
  <2>6. free' = [k \in Kinds |-> IF k \in S THEN free[k] + 1 ELSE free[k]]
    <3>1. free' = [k \in Kinds |-> free[k] + IF k \in S THEN 1 ELSE 0]
      BY <1>1, <1>7 DEF Gate!WorkEnds
    <3>2. ASSUME NEW k \in Kinds PROVE (free[k] + IF k \in S THEN 1 ELSE 0) = IF k \in S THEN free[k] + 1 ELSE free[k]
      <4>1. free[k] \in Int
        BY <1>1
      <4>q. QED
        BY <4>1, SMT
    <3>q. QED
      BY <3>1, <3>2
  <2> HIDE DEF S
  <2>q. QED
    BY <1>1, <1>4, <2>1, <2>2, <2>3, <2>4, <2>5, <2>6, ReleaseKeeps
<1>q. QED
  BY <1>5, <1>6, <1>7

(* Stopping drops the queued work and returns its slots.                   *)
LEMMA StopKeeps ==
  ASSUME GateConstants, GateInv, Gate!StopService
  PROVE  GateInv'
<1> DEFINE Q == {r \in Requests : asked[r].work = "queued"}
           q(r) == [asked[r] EXCEPT !.work = Gate!Dropped(asked[r].work)]
<1>1. /\ asked' = [r \in Requests |-> q(r)] /\ service' = "stopping"
      /\ free' = [free EXCEPT !["work"] = free["work"] + Cardinality(Q)]
  BY DEF Gate!StopService, Gate!Cardinality, Cardinality
<1>2. free \in [Kinds -> Int] /\ IsFiniteSet(Q) /\ Cardinality(Q) \in Nat
  BY FS_Subset, FS_CardinalityType DEF GateInv, GateTypes, GateConstants
<1>3. ASSUME NEW r \in Requests
      PROVE  /\ IsRequest(q(r)) /\ q(r).review = asked[r].review /\ q(r).work = Gate!Dropped(asked[r].work)
  <2>1. IsRequest(asked[r])
    BY DEF GateInv, GateTypes
  <2>2. asked[r] = [f \in Fields |-> asked[r][f]]
    BY <2>1 DEF IsRequest
  <2>3. /\ q(r) = [f \in Fields |-> q(r)[f]] /\ q(r).co = asked[r].co /\ q(r).review = asked[r].review
        /\ q(r).work = Gate!Dropped(asked[r].work)
    BY <2>2 DEF Fields
  <2>4. IsRequest(q(r))
    BY <2>1, <2>3 DEF IsRequest, Gate!Dropped
  <2>q. QED
    BY <2>3, <2>4
<1> HIDE DEF q
<1>4. GateTypes'
  <2>1. free["work"] + Cardinality(Q) \in Int
    <3>1. free["work"] \in Int
      BY <1>2 DEF Kinds
    <3>q. QED
      BY <1>2, <3>1, SMT
  <2>2. free' \in [Kinds -> Int]
    BY <1>1, <1>2, <2>1
  <2>q. QED
    BY <1>1, <1>3, <2>2 DEF GateTypes
<1>5. \A r \in Requests : MayWork(asked[r])'
  BY <1>1, <1>3 DEF MayWork, Gate!Dropped
<1>6. Counted'
  <2> SUFFICES ASSUME NEW k \in Kinds PROVE free'[k] + Cardinality(Users(k)') = Slots[k]
    BY DEF Counted
  <2>1. free[k] + Cardinality(Users(k)) = Slots[k]
    BY DEF GateInv, Counted
  <2>2. CASE k # "work"
    <3>1. Users(k)' = Users(k)
      BY <1>1, <1>3, <2>2 DEF Users, Uses, Gate!Dropped
    <3>2. free'[k] = free[k]
      BY <1>1, <1>2, <2>2
    <3>q. QED
      BY <2>1, <3>1, <3>2
  <2>3. CASE k = "work"
    <3>1. Users(k)' = Users(k) \ Q /\ Users(k) \cap Q = Q
      BY <1>1, <1>3, <2>3 DEF Users, Uses, Gate!Dropped
    <3>2. IsFiniteSet(Users(k)) /\ Cardinality(Users(k)) \in Nat
      BY UsersFinite
    <3>3. Cardinality(Users(k) \ Q) = Cardinality(Users(k)) - Cardinality(Users(k) \cap Q)
      BY <3>2, FS_Difference
    <3>4. free'[k] = free[k] + Cardinality(Q) /\ free[k] \in Int
      BY <1>1, <1>2, <2>3 DEF Kinds
    <3>5. ASSUME NEW a \in Int, NEW m \in Nat, NEW n \in Nat PROVE (a + m) + (n - m) = a + n
      BY SMT
    <3>6. Cardinality(Users(k)') = Cardinality(Users(k)) - Cardinality(Q)
      BY <3>1, <3>3
    <3>7. (free[k] + Cardinality(Q)) + (Cardinality(Users(k)) - Cardinality(Q)) = free[k] + Cardinality(Users(k))
      BY <1>2, <3>2, <3>4, <3>5
    <3>q. QED
      BY <2>1, <3>4, <3>6, <3>7
  <2>q. QED
    BY <2>2, <2>3
<1>q. QED
  BY <1>4, <1>5, <1>6 DEF GateInv

(* The rest of the lifespan, the clock and the API server.                 *)
LEMMA LifespanKeeps ==
  ASSUME GateConstants, GateInv,
         Gate!StartService \/ Gate!CloseService \/ Gate!Tick \/ \E k \in Tokens : Gate!Revoke(k)
  PROVE  GateInv'
<1>1. UNCHANGED <<asked, free>>
  BY DEF Gate!StartService, Gate!CloseService, Gate!Tick, Gate!Revoke
<1>2. Counted'
  BY <1>1 DEF GateInv, Counted, Users
<1>3. \/ UNCHANGED service \/ service' = "up"
      \/ /\ service = "stopping" /\ service' = "closed"
         /\ \A r \in Requests : asked[r].work \notin {"reading", "inferring"}
  BY DEF Gate!StartService, Gate!CloseService, Gate!Tick, Gate!Revoke, Gate!ShutdownReturns, Gate!Running
<1>4. GateTypes'
  BY <1>1, <1>3 DEF GateInv, GateTypes
<1>5. \A r \in Requests : MayWork(asked[r])'
  BY <1>1, <1>3 DEF GateInv, MayWork
<1>q. QED
  BY <1>2, <1>4, <1>5 DEF GateInv

(* Every slot is free at the start.                                        *)
LEMMA GateInit == ASSUME GateConstants PROVE Gate!Init => GateInv
<1> SUFFICES ASSUME Gate!Init PROVE GateInv
  OBVIOUS
<1>1. /\ asked = [r \in Requests |-> Gate!NoReq] /\ free = Slots /\ Slots \in [Kinds -> Nat]
      /\ service \in {"starting", "up"}
  BY DEF Gate!Init, GateConstants
<1>2. GateTypes
  <2>1. free \in [Kinds -> Int]
    BY <1>1, SMT
  <2>q. QED
    BY <1>1, <2>1, NoRequest DEF GateTypes
<1>3. Counted
  <2> SUFFICES ASSUME NEW k \in Kinds PROVE free[k] + Cardinality(Users(k)) = Slots[k]
    BY DEF Counted
  <2>1. Users(k) = {}
    BY <1>1, NoRequest DEF Users, Uses
  <2>2. Cardinality(Users(k)) = 0 /\ Slots[k] \in Nat
    BY <1>1, <2>1, FS_EmptySet
  <2>q. QED
    BY <1>1, <2>2, SMT
<1>4. \A r \in Requests : MayWork(asked[r])
  BY <1>1, NoRequest DEF MayWork
<1>q. QED
  BY <1>2, <1>3, <1>4 DEF GateInv

(* Every step of a request, a thread or the service keeps the invariant.   *)
LEMMA GateNext == ASSUME GateConstants PROVE GateInv /\ [Gate!Next]_Gate!vars => GateInv'
<1> SUFFICES ASSUME GateInv, [Gate!Next]_Gate!vars PROVE GateInv'
  OBVIOUS
<1>1. CASE UNCHANGED Gate!vars
  <2>1. UNCHANGED <<service, asked, free>>
    BY <1>1 DEF Gate!vars
  <2>q. QED
    BY <2>1 DEF GateInv, GateTypes, Counted, Users, MayWork
<1>2. ASSUME NEW r \in Requests, Gate!Coroutine(r) \/ Gate!Threads(r) PROVE GateInv'
  BY <1>2, TurnsKeep, SubmitsKeep, CancelKeeps, ReviewsKeep, WorkKeeps DEF Gate!Coroutine, Gate!Threads
<1>q. QED
  BY <1>1, <1>2, StopKeeps, LifespanKeeps DEF Gate!Next

(* For any number of requests and slots: every slot is free or held by one *)
(* unfinished future, whoever cancels, fails or stops, and no work runs on *)
(* a closed service (admission.py:28-38, auth.py:246-258, main.py:845-872, *)
(* statistical.py:70-79).                                                  *)
THEOREM SlotsAreExact ==
  ASSUME GateConstants
  PROVE  Gate!Spec => [](Gate!SlotsExact /\ Gate!NoWorkAfterClose)
<1>1. GateInv => Gate!SlotsExact /\ Gate!NoWorkAfterClose
  <2> SUFFICES ASSUME GateInv PROVE Gate!SlotsExact /\ Gate!NoWorkAfterClose
    OBVIOUS
  <2>1. ASSUME NEW k \in Kinds, NEW r \in Requests PROVE Gate!Holds(r, k) <=> Uses(asked[r], k)
    BY DEF Kinds, Gate!Holds, Uses
  <2>2. Gate!SlotsExact
    <3> SUFFICES ASSUME NEW k \in DOMAIN Slots
                 PROVE  free[k] + Gate!Cardinality({r \in Requests : Gate!Holds(r, k)}) = Slots[k]
      BY DEF Gate!SlotsExact
    <3>1. k \in Kinds
      BY DEF GateConstants
    <3>2. {r \in Requests : Gate!Holds(r, k)} = Users(k)
      BY <2>1, <3>1 DEF Users
    <3>3. Gate!Cardinality(Users(k)) = Cardinality(Users(k))
      BY DEF Gate!Cardinality, Cardinality
    <3>q. QED
      BY <3>1, <3>2, <3>3 DEF GateInv, Counted
  <2>3. Gate!NoWorkAfterClose
    BY DEF GateInv, MayWork, Gate!NoWorkAfterClose, Gate!Running
  <2>q. QED
    BY <2>2, <2>3
<1>q. QED
  BY <1>1, GateInit, GateNext, PTL DEF Gate!Spec
=============================================================================
