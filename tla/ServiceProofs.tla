--------------------------- MODULE ServiceProofs ----------------------------
(***************************************************************************)
(* Proofs about ForecastService, for every number of concurrent requests,  *)
(* every lead, retention and compaction period, and any crashes: recovery  *)
(* counts each record once, nothing is issued late or before what it rests *)
(* on is checkpointed, and no window is scored from a late observation.    *)
(***************************************************************************)
EXTENDS ForecastService, NaturalOrder, TLAPS

(* Most leaves are first-order: Zenon comes first, then the SMT solver.    *)
USE ZenonT(10), SMTT(30)

(* A folded state and what the journal holds after its cursors make up     *)
(* every issuance and every outcome ever committed, each once.             *)
Exact(s) ==
  /\ s.lastIss <= issSeq /\ s.lastOut <= outSeq
  /\ \A k \in WindowKeys :
       /\ s.iss[k] + (IF k \in NewIssuances(s) THEN 1 ELSE 0) = IF k \in issued THEN 1 ELSE 0
       /\ s.out[k] + (IF k \in NewOutcomes(s) THEN 1 ELSE 0) = IF k \in closed THEN 1 ELSE 0

(* A folded state that nothing was committed after.                        *)
Covers(s) == NewIssuances(s) = {} /\ NewOutcomes(s) = {}

(* What the journal holds of a window.  A window that was issued and is    *)
(* there no more has ended, so it is never issued again.                   *)
JournalInv ==
  \A k \in WindowKeys :
    /\ iss[k] # None => k \in issued
    /\ out[k] # None => iss[k] # None /\ k \in closed
    /\ k \in closed => k \in issued /\ (out[k] = None => iss[k] = None)
    /\ k \in issued /\ iss[k] = None => WindowEnd(k) < now

(* What a request has bound and read of the clock.                         *)
RequestInv ==
  \A r \in Requests : req[r].at <= now /\ (req[r].pc # "idle" => req[r].key \in WindowKeys)

(* What the holder of the lock has in memory, and what it has checkpointed *)
(* before it issues and before it compacts.                                *)
HeldInv ==
  \A r \in Requests :
    /\ req[r].pc \in {"decide", "commit", "fold"} => Exact(held)
    /\ req[r].pc = "decide" => Covers(held)
    /\ req[r].pc = "commit" => iss[req[r].key] = None
    /\ req[r].pc \in {"commit", "answer"} => Covers(checkpoint)

(* A scored window has ended and each of its values came in time.          *)
ScoredInv ==
  \A k \in WindowKeys : out[k] # None /\ out[k].status = "scored" =>
    /\ WindowEnd(k) <= MaxTime
    /\ \A t \in Targets(k) : obs[t] # None /\ obs[t] <= Deadline(k)

ServiceInv == TypeOK /\ Exact(checkpoint) /\ JournalInv /\ RequestInv /\ HeldInv /\ ScoredInv

-----------------------------------------------------------------------------
(* The grid                                                                *)

(* Multiples of a length add up to a multiple.                             *)
LEMMA MultiplesAdd ==
  ASSUME NEW a \in Nat, NEW b \in Nat, NEW d \in Nat \ {0}, a % d = 0, b % d = 0
  PROVE  (a + b) % d = 0
<1>1. ASSUME NEW n \in Nat, n % d = 0 PROVE \E q \in Nat : n = d * q
  BY <1>1
<1>2. PICK p \in Nat : a = d * p
  BY <1>1
<1>3. PICK q \in Nat : b = d * q
  BY <1>1
<1>4. a + b = (p + q) * d
  BY <1>2, <1>3
<1>5. ASSUME NEW n \in Nat PROVE (n * d) % d = 0
  OBVIOUS
<1>6. p + q \in Nat
  OBVIOUS
<1>7. ((p + q) * d) % d = 0
  BY <1>5, <1>6, Zenon
<1> QED
  BY <1>4, <1>7, Zenon

(* The grid point at or before a time.                                     *)
LEMMA GridFloor ==
  ASSUME NEW n \in Nat
  PROVE  (n \div Interval) * Interval \in 0 .. n /\ OnGrid((n \div Interval) * Interval)
<1>1. Interval \in Nat \ {0}
  BY ServiceConstants
<1>2. PICK q \in Nat : q = n \div Interval
  BY <1>1
<1>3. q * Interval \in Nat /\ q * Interval <= n
  BY <1>1, <1>2
<1>4. (q * Interval) % Interval = 0
  BY <1>1
<1> QED
  BY <1>2, <1>3, <1>4 DEF OnGrid

(* A window has a target, and every target is at or before its end.        *)
LEMMA TargetsOf ==
  ASSUME NEW k \in WindowKeys
  PROVE  /\ WindowEnd(k) \in Nat /\ Deadline(k) \in Nat /\ WindowEnd(k) <= Deadline(k)
         /\ Targets(k) \subseteq Nat /\ Targets(k) # {}
         /\ \A t \in Targets(k) : t <= WindowEnd(k) /\ OnGrid(t)
         /\ Min(Targets(k)) \in Nat /\ Min(Targets(k)) <= WindowEnd(k)
<1>1. k[1] \in Nat /\ k[1] % Interval = 0 /\ Interval \in Nat \ {0} /\ Lead \in Nat \ {0}
      /\ Lead % Interval = 0 /\ Settlement \in Nat /\ Grace \in Nat
  BY ServiceConstants DEF WindowKeys, Points, OnGrid
<1>2. /\ WindowEnd(k) \in Nat /\ Deadline(k) \in Nat /\ WindowEnd(k) <= Deadline(k)
      /\ WindowEnd(k) = k[1] + Lead
  BY <1>1 DEF WindowEnd, Deadline
<1>3. WindowEnd(k) % Interval = 0
  BY <1>1, <1>2, MultiplesAdd
<1>4. WindowEnd(k) \in Targets(k)
  BY <1>1, <1>2, <1>3 DEF Targets, OnGrid
<1>5. Targets(k) \subseteq Nat /\ \A t \in Targets(k) : t <= WindowEnd(k) /\ OnGrid(t)
  BY <1>1, <1>2 DEF Targets, OnGrid
<1>6. Min(Targets(k)) \in Targets(k)
  BY <1>4, <1>5, MinOfNaturals
<1> QED
  BY <1>2, <1>4, <1>5, <1>6

-----------------------------------------------------------------------------
(* Folding                                                                 *)

(* Folding what the journal holds after a state's cursors gives a state    *)
(* that is exact again and that nothing was committed after.               *)
LEMMA FoldedExact ==
  ASSUME TypeOK, NEW s \in State, Exact(s), NEW m, m = Folded(s)
  PROVE  m \in State /\ Exact(m) /\ Covers(m)
<1> DEFINE I == {s.lastIss} \cup {iss[k] : k \in NewIssuances(s)}
           O == {s.lastOut} \cup {out[k].seq : k \in NewOutcomes(s)}
<1>1. /\ s.lastIss \in Nat /\ s.lastOut \in Nat
      /\ \A k \in WindowKeys : s.iss[k] \in Nat /\ s.out[k] \in Nat
      /\ issSeq \in Nat /\ outSeq \in Nat
      /\ \A k \in WindowKeys : iss[k] # None => iss[k] \in 1 .. issSeq
      /\ \A k \in WindowKeys : out[k] # None => out[k].seq \in 1 .. outSeq
  BY DEF State, TypeOK
<1>2. I \subseteq Nat /\ I # {} /\ \A x \in I : x <= issSeq
  BY <1>1 DEF NewIssuances, Exact
<1>3. O \subseteq Nat /\ O # {} /\ \A x \in O : x <= outSeq
  BY <1>1 DEF NewOutcomes, Exact
<1>4. /\ Max(I) \in Nat /\ Max(I) <= issSeq /\ Max(I) >= s.lastIss
      /\ \A k \in NewIssuances(s) : Max(I) >= iss[k]
  <2> HIDE DEF I
  <2>1. Max(I) \in I /\ \A x \in I : Max(I) >= x
    BY <1>1, <1>2, MaxOfNaturals
  <2> QED
    BY <1>2, <2>1 DEF I
<1>5. /\ Max(O) \in Nat /\ Max(O) <= outSeq /\ Max(O) >= s.lastOut
      /\ \A k \in NewOutcomes(s) : Max(O) >= out[k].seq
  <2> HIDE DEF O
  <2>1. Max(O) \in O /\ \A x \in O : Max(O) >= x
    BY <1>1, <1>3, MaxOfNaturals
  <2> QED
    BY <1>3, <2>1 DEF O
<1> HIDE DEF I, O
<1>6. /\ m.lastIss = Max(I) /\ m.lastOut = Max(O)
      /\ m.iss = [k \in WindowKeys |-> s.iss[k] + IF k \in NewIssuances(s) THEN 1 ELSE 0]
      /\ m.out = [k \in WindowKeys |-> s.out[k] + IF k \in NewOutcomes(s) THEN 1 ELSE 0]
      /\ m = [lastIss |-> m.lastIss, lastOut |-> m.lastOut, iss |-> m.iss, out |-> m.out]
  BY DEF Folded, I, O
<1>7. Covers(m)
  <2>1. NewIssuances(m) = {}
    BY <1>1, <1>4, <1>6 DEF NewIssuances
  <2>2. NewOutcomes(m) = {}
    BY <1>1, <1>5, <1>6 DEF NewOutcomes
  <2> QED
    BY <2>1, <2>2 DEF Covers
<1>8. Exact(m)
  BY <1>4, <1>5, <1>6, <1>7 DEF Exact, Covers
<1>9. m \in State
  <2>1. m.iss \in [WindowKeys -> Nat] /\ m.out \in [WindowKeys -> Nat]
    BY <1>1, <1>6
  <2>2. m.lastIss \in Nat /\ m.lastOut \in Nat
    BY <1>4, <1>5, <1>6
  <2> QED
    BY <1>6, <2>1, <2>2 DEF State
<1> QED
  BY <1>7, <1>8, <1>9

(* Exactness and coverage are about the issuances and outcomes alone.      *)
LEMMA SameJournal ==
  ASSUME UNCHANGED <<iss, out, issSeq, outSeq, issued, closed>>, NEW m
  PROVE  /\ checkpoint' = m => (Exact(checkpoint)' <=> Exact(m)) /\ (Covers(checkpoint)' <=> Covers(m))
         /\ held' = m => (Exact(held)' <=> Exact(m)) /\ (Covers(held)' <=> Covers(m))
<1>1. checkpoint' = m => NewIssuances(checkpoint)' = NewIssuances(m) /\ NewOutcomes(checkpoint)' = NewOutcomes(m)
  BY DEF NewIssuances, NewOutcomes
<1>2. held' = m => NewIssuances(held)' = NewIssuances(m) /\ NewOutcomes(held)' = NewOutcomes(m)
  BY DEF NewIssuances, NewOutcomes
<1> QED
  BY <1>1, <1>2 DEF Exact, Covers

-----------------------------------------------------------------------------
(* Requests and the lock                                                   *)

Outside == {"idle", "read", "lock"}

RequestType == [pc : Steps, bound : 0 .. MaxTime, key : WindowKeys \cup {None}, got : SUBSET Points,
                receipt : 0 .. MaxTime, at : 0 .. MaxTime]

(* The part of the types that is about requests, and the rest.             *)
RequestsOK ==
  /\ lock \in Requests \cup {None} /\ req \in [Requests -> RequestType]
  /\ \A r \in Requests : req[r].pc \notin Outside <=> lock = r

(* The clock is a natural number up to the bound.                          *)
LEMMA Clock ==
  ASSUME ServiceInv
  PROVE  TypeOK /\ now \in 0 .. MaxTime /\ now \in Nat
<1>1. TypeOK /\ now \in 0 .. MaxTime
  BY Zenon DEF ServiceInv, TypeOK
<1>2. MaxTime \in Nat
  BY ServiceConstants
<1> QED
  BY <1>1, <1>2

(* A request that ends.                                                    *)
LEMMA IdleType == Idle \in RequestType /\ Idle.pc = "idle" /\ Idle.at = 0 /\ Unfolded \in State
<1>1. 0 \in 0 .. MaxTime /\ {} \in SUBSET Points
  BY ServiceConstants
<1>2. Idle \in RequestType /\ Idle.pc = "idle" /\ Idle.at = 0
  BY <1>1 DEF Idle, RequestType, Steps
<1> QED
  BY <1>2 DEF Unfolded, State

(* One request moves; it enters or leaves the lock with the step.          *)
LEMMA RequestMoves ==
  ASSUME TypeOK, NEW r \in Requests, NEW x \in RequestType, req' = [req EXCEPT ![r] = x],
         \/ /\ x.pc \in Outside /\ req[r].pc \in Outside /\ lock' = lock
         \/ /\ x.pc \in Outside /\ req[r].pc \notin Outside /\ lock' = None
         \/ /\ x.pc \notin Outside /\ req[r].pc \notin Outside /\ lock' = lock
         \/ /\ x.pc \notin Outside /\ req[r].pc \in Outside /\ lock = None /\ lock' = r
  PROVE  RequestsOK' /\ \A u \in Requests : req'[u] = IF u = r THEN x ELSE req[u]
<1>1. /\ req \in [Requests -> RequestType] /\ lock \in Requests \cup {None}
      /\ \A u \in Requests : req[u].pc \notin Outside <=> lock = u
  BY DEF TypeOK, RequestType, Outside
<1>2. req' \in [Requests -> RequestType] /\ \A u \in Requests : req'[u] = IF u = r THEN x ELSE req[u]
  BY <1>1
<1>3. None \notin Requests
  BY ServiceConstants
<1>4. \A u \in Requests : req'[u].pc \notin Outside <=> lock' = u
  BY <1>1, <1>2, <1>3
<1> QED
  BY <1>1, <1>2, <1>4 DEF RequestsOK

(* Only the holder of the lock is past it.                                 *)
LEMMA Alone ==
  ASSUME TypeOK, NEW r \in Requests, req[r].pc \notin Outside
  PROVE  \A u \in Requests : u # r => req[u].pc \in Outside
BY DEF TypeOK, Outside

(* The holder of the lock goes on to another step under it.                *)
LEMMA GotoMoves ==
  ASSUME TypeOK, NEW r \in Requests, req[r].pc \notin Outside, NEW step \in Steps \ Outside,
         Goto(r, step), UNCHANGED lock
  PROVE  /\ RequestsOK'
         /\ \A u \in Requests : req'[u].at = req[u].at /\ req'[u].key = req[u].key
         /\ \A u \in Requests : req'[u].pc = IF u = r THEN step ELSE req[u].pc
<1> DEFINE x == [req[r] EXCEPT !.pc = step]
<1>1. req[r] \in RequestType
  BY DEF TypeOK, RequestType
<1>2. x \in RequestType /\ x.pc = step /\ x.at = req[r].at /\ x.key = req[r].key
  BY <1>1 DEF RequestType
<1>3. req' = [req EXCEPT ![r] = x]
  BY DEF Goto
<1> HIDE DEF x
<1>4. RequestsOK' /\ \A u \in Requests : req'[u] = IF u = r THEN x ELSE req[u]
  BY <1>2, <1>3, RequestMoves
<1> QED
  BY <1>2, <1>4

(* The holder of the lock ends its request.                                *)
LEMMA EndMoves ==
  ASSUME TypeOK, NEW r \in Requests, req[r].pc \notin Outside, End(r)
  PROVE  /\ RequestsOK' /\ held' \in State
         /\ \A u \in Requests : req'[u] = IF u = r THEN Idle ELSE req[u]
         /\ \A u \in Requests : req'[u].pc \in Outside
<1>1. /\ req' = [req EXCEPT ![r] = Idle] /\ lock' = None /\ held' = Unfolded
  BY DEF End
<1>2. Idle \in RequestType /\ Idle.pc \in Outside /\ Unfolded \in State
  BY IdleType DEF Outside
<1>3. RequestsOK' /\ \A u \in Requests : req'[u] = IF u = r THEN Idle ELSE req[u]
  BY <1>1, <1>2, RequestMoves
<1> QED
  BY <1>1, <1>2, <1>3, Alone

-----------------------------------------------------------------------------
(* Steps that commit no issuance and no outcome                            *)

(* The journal and the scores stay right while time passes and points are  *)
(* received.                                                               *)
LEMMA QuietKeeps ==
  ASSUME ServiceInv, now' \in Nat, now' >= now,
         UNCHANGED <<iss, out, issSeq, outSeq, issued, closed>>,
         \A p \in Points : obs[p] # None => obs'[p] = obs[p]
  PROVE  JournalInv' /\ ScoredInv'
<1>1. now \in Nat
  BY Clock
<1>2. JournalInv'
  <2>1. \A k \in WindowKeys : WindowEnd(k) \in Nat /\ WindowEnd(k)' = WindowEnd(k)
    BY TargetsOf DEF WindowEnd
  <2> QED
    BY <1>1, <2>1 DEF ServiceInv, JournalInv
<1>3. ASSUME NEW k \in WindowKeys, out[k] # None, out[k].status = "scored", NEW t \in Targets(k)
      PROVE  obs'[t] # None /\ obs'[t] <= Deadline(k)
  <2>1. WindowEnd(k) <= MaxTime /\ obs[t] # None /\ obs[t] <= Deadline(k)
    BY <1>3 DEF ServiceInv, ScoredInv
  <2>2. t \in Points
    <3>1. t \in Nat /\ t <= WindowEnd(k) /\ WindowEnd(k) \in Nat /\ OnGrid(t)
      BY TargetsOf
    <3> QED
      BY <2>1, <3>1, ServiceConstants DEF Points
  <2> QED
    BY <2>1, <2>2
<1>4. ScoredInv'
  BY <1>3 DEF ServiceInv, ScoredInv
<1> QED
  BY <1>2, <1>4

(* The same while no time passes.                                          *)
LEMMA StillKeeps ==
  ASSUME ServiceInv, UNCHANGED <<now, iss, out, issSeq, outSeq, issued, closed>>,
         \A p \in Points : obs[p] # None => obs'[p] = obs[p]
  PROVE  JournalInv' /\ ScoredInv'
<1>1. now' \in Nat /\ now' >= now
  BY Clock
<1> QED
  BY <1>1, QuietKeeps

(* A request that ends knows no window and no time.                        *)
LEMMA EndedKnows ==
  ASSUME ServiceInv, NEW r \in Requests, now' = now,
         \A u \in Requests : req'[u] = IF u = r THEN Idle ELSE req[u]
  PROVE  RequestInv'
<1>1. 0 <= now
  BY Clock
<1>2. Idle.at <= now /\ Idle.pc = "idle"
  BY <1>1, IdleType
<1> QED
  BY <1>2 DEF ServiceInv, RequestInv

(* What the holder of the lock knows does not change with the steps of     *)
(* others.                                                                 *)
LEMMA HeldKept ==
  ASSUME ServiceInv, UNCHANGED <<iss, out, issSeq, outSeq, issued, closed, held, checkpoint>>,
         \A u \in Requests : req'[u] = req[u] \/ req'[u].pc \in Outside \cup {"mature", "recover"}
  PROVE  HeldInv' /\ Exact(checkpoint)'
<1>1. /\ Exact(checkpoint)' <=> Exact(checkpoint)
      /\ Covers(checkpoint)' <=> Covers(checkpoint)
      /\ Exact(held)' <=> Exact(held)
      /\ Covers(held)' <=> Covers(held)
  BY SameJournal
<1> QED
  BY <1>1 DEF ServiceInv, HeldInv, Outside

(* The types hold again when the requests and the rest are well typed.     *)
LEMMA TypesAgain ==
  ASSUME RequestsOK',
         now' \in 0 .. MaxTime /\ settings' \in Settings /\ visible' \subseteq Points,
         obs' \in [Points -> 0 .. MaxTime \cup {None}],
         iss' \in [WindowKeys -> 1 .. issSeq' \cup {None}],
         out' \in [WindowKeys -> [seq : 1 .. outSeq', status : {"scored", "unscorable"}] \cup {None}],
         checkpoint' \in State /\ held' \in State,
         horizon' \in Nat /\ issSeq' \in Nat /\ outSeq' \in Nat,
         crashes' \in 0 .. MaxCrashes /\ edits' \in 0 .. MaxEdits,
         compacted' \in 0 .. MaxTime \cup {None},
         issued' \subseteq WindowKeys /\ closed' \subseteq WindowKeys
  PROVE  TypeOK'
BY DEF TypeOK, RequestsOK, RequestType, Outside

(* bind_request takes a window of the grid.                                *)
LEMMA BindKeeps ==
  ASSUME ServiceInv, NEW r \in Requests, Bind(r)
  PROVE  ServiceInv'
<1> DEFINE key == <<(now \div Interval) * Interval, settings>>
           x == [Idle EXCEPT !.pc = "read", !.bound = now, !.key = key]
<1>1. /\ req[r].pc = "idle" /\ req' = [req EXCEPT ![r] = x]
      /\ UNCHANGED <<now, settings, edits, visible, obs, iss, out, checkpoint, horizon, issSeq, outSeq,
                     compacted, lock, held, crashes, issued, closed>>
  BY DEF Bind, world, journal, ghosts
<1>2. now \in 0 .. MaxTime /\ now \in Nat /\ settings \in Settings /\ TypeOK
  BY Clock DEF TypeOK
<1>3. key \in WindowKeys
  <2>1. (now \div Interval) * Interval \in 0 .. now /\ OnGrid((now \div Interval) * Interval)
    BY <1>2, GridFloor
  <2>2. (now \div Interval) * Interval \in Points
    BY <1>2, <2>1, ServiceConstants DEF Points
  <2> QED
    BY <1>2, <2>2 DEF WindowKeys
<1> HIDE DEF key
<1>4. x \in RequestType /\ x.pc = "read" /\ x.at = 0 /\ x.key = key
  BY <1>2, <1>3, IdleType DEF RequestType, Idle, Steps
<1> HIDE DEF x
<1>5. RequestsOK' /\ \A u \in Requests : req'[u] = IF u = r THEN x ELSE req[u]
  BY <1>1, <1>2, <1>4, RequestMoves DEF Outside
<1>6. TypeOK'
  BY <1>1, <1>2, <1>5, TypesAgain DEF TypeOK
<1>7. JournalInv' /\ ScoredInv'
  BY <1>1, StillKeeps
<1>8. HeldInv' /\ Exact(checkpoint)'
  BY <1>1, <1>4, <1>5, HeldKept DEF Outside
<1>9. RequestInv'
  BY <1>1, <1>2, <1>3, <1>4, <1>5 DEF ServiceInv, RequestInv
<1> QED
  BY <1>6, <1>7, <1>8, <1>9 DEF ServiceInv

(* The history read keeps the window that was bound, or ends the request.  *)
LEMMA ReadKeeps ==
  ASSUME ServiceInv, NEW r \in Requests, Read(r)
  PROVE  ServiceInv'
<1>1. /\ req[r].pc = "read"
      /\ UNCHANGED <<now, settings, edits, visible, obs, iss, out, checkpoint, horizon, issSeq, outSeq,
                     compacted, lock, held, crashes, issued, closed>>
  BY DEF Read, world, journal, ghosts
<1>2. now \in 0 .. MaxTime /\ now \in Nat /\ TypeOK
  BY Clock
<1>3. PICK x \in RequestType : /\ req' = [req EXCEPT ![r] = x] /\ x.pc \in {"lock", "idle"}
                               /\ x.at <= now /\ (x.pc = "lock" => x.key = req[r].key)
  <2>1. req[r] \in RequestType /\ req[r].at <= now
    BY DEF ServiceInv, TypeOK, RequestType, RequestInv
  <2>2. ASSUME NEW got \in SUBSET Points, NEW x, x = [req[r] EXCEPT !.pc = "lock", !.got = got, !.receipt = now]
        PROVE  x \in RequestType /\ x.pc = "lock" /\ x.at = req[r].at /\ x.key = req[r].key
    BY <1>2, <2>1, <2>2 DEF RequestType, Steps
  <2>3. {p \in visible : p <= Watermark(r)} \in SUBSET Points
    BY <1>2 DEF TypeOK
  <2>4. CASE req' = [req EXCEPT ![r] = Idle]
    <3>1. Idle \in RequestType /\ Idle.pc = "idle" /\ Idle.at = 0 /\ 0 <= now
      BY <1>2, IdleType
    <3> QED
      BY <2>4, <3>1
  <2>5. CASE req' = [req EXCEPT ![r] = [req[r] EXCEPT !.pc = "lock", !.got = {p \in visible : p <= Watermark(r)},
                                                      !.receipt = now]]
    BY <2>1, <2>2, <2>3, <2>5
  <2> QED
    BY <2>4, <2>5 DEF Read
<1>4. RequestsOK' /\ \A u \in Requests : req'[u] = IF u = r THEN x ELSE req[u]
  BY <1>1, <1>2, <1>3, RequestMoves DEF Outside
<1>5. TypeOK'
  BY <1>1, <1>2, <1>4, TypesAgain DEF TypeOK
<1>6. JournalInv' /\ ScoredInv'
  BY <1>1, StillKeeps
<1>7. HeldInv' /\ Exact(checkpoint)'
  BY <1>1, <1>3, <1>4, HeldKept DEF Outside
<1>8. RequestInv'
  BY <1>1, <1>3, <1>4 DEF ServiceInv, RequestInv
<1> QED
  BY <1>5, <1>6, <1>7, <1>8 DEF ServiceInv

(* The first receipt of a point is kept under the lock.                    *)
LEMMA EnterKeeps ==
  ASSUME ServiceInv, NEW r \in Requests, Enter(r)
  PROVE  ServiceInv'
<1> DEFINE x == [req[r] EXCEPT !.pc = "mature", !.at = now]
<1>1. /\ req[r].pc = "lock" /\ lock = None /\ lock' = r /\ req' = [req EXCEPT ![r] = x]
      /\ obs' = [p \in Points |-> IF p \in req[r].got THEN Receipt(p, req[r].receipt) ELSE obs[p]]
      /\ UNCHANGED <<now, settings, edits, visible, iss, out, checkpoint, horizon, issSeq, outSeq,
                     compacted, held, crashes, issued, closed>>
  BY DEF Enter, world, ghosts
<1>2. now \in 0 .. MaxTime /\ now \in Nat /\ TypeOK /\ req[r] \in RequestType
  BY Clock DEF TypeOK, RequestType
<1>3. x \in RequestType /\ x.pc = "mature" /\ x.at = now /\ x.key = req[r].key
  BY <1>2 DEF RequestType, Steps
<1> HIDE DEF x
<1>4. RequestsOK' /\ \A u \in Requests : req'[u] = IF u = r THEN x ELSE req[u]
  BY <1>1, <1>2, <1>3, RequestMoves DEF Outside
<1>5. /\ obs' \in [Points -> 0 .. MaxTime \cup {None}]
      /\ \A p \in Points : obs[p] # None => obs'[p] = obs[p]
  BY <1>1, <1>2 DEF TypeOK, RequestType, Receipt
<1>6. TypeOK'
  BY <1>1, <1>2, <1>4, <1>5, TypesAgain DEF TypeOK
<1>7. JournalInv' /\ ScoredInv'
  <2>1. UNCHANGED <<now, iss, out, issSeq, outSeq, issued, closed>>
    BY <1>1
  <2> QED
    BY <1>5, <2>1, StillKeeps
<1>8. HeldInv' /\ Exact(checkpoint)'
  BY <1>1, <1>3, <1>4, HeldKept DEF Outside
<1>9. RequestInv'
  BY <1>1, <1>2, <1>3, <1>4 DEF ServiceInv, RequestInv
<1> QED
  BY <1>6, <1>7, <1>8, <1>9 DEF ServiceInv

(* A step of the holder of the lock under it, which commits no issuance    *)
(* and no outcome.                                                         *)
LEMMA LockedKeeps ==
  ASSUME ServiceInv, NEW r \in Requests, req[r].pc \notin Outside,
         NEW step \in Steps \ Outside, Goto(r, step), UNCHANGED lock,
         checkpoint' \in State, Exact(checkpoint)', held' \in State,
         step \in {"decide", "commit", "fold"} => Exact(held)',
         step = "decide" => Covers(held)',
         step = "commit" => iss[req[r].key] = None,
         step \in {"commit", "answer"} => Covers(checkpoint)',
         UNCHANGED <<now, settings, edits, visible, obs, iss, out, horizon, issSeq, outSeq,
                     compacted, crashes, issued, closed>>
  PROVE  ServiceInv'
<1>1. now \in 0 .. MaxTime /\ now \in Nat /\ TypeOK
  BY Clock
<1>2. /\ RequestsOK'
      /\ \A u \in Requests : req'[u].at = req[u].at /\ req'[u].key = req[u].key
      /\ \A u \in Requests : req'[u].pc = IF u = r THEN step ELSE req[u].pc
  BY <1>1, GotoMoves
<1>3. \A u \in Requests : u # r => req'[u].pc \in Outside
  BY <1>1, <1>2, Alone
<1>4. TypeOK'
  BY <1>1, <1>2, TypesAgain DEF TypeOK
<1>5. JournalInv' /\ ScoredInv'
  BY StillKeeps
<1>6. HeldInv'
  BY <1>2, <1>3 DEF HeldInv, Outside
<1>7. RequestInv'
  BY <1>2, <1>3 DEF ServiceInv, RequestInv, Outside
<1> QED
  BY <1>4, <1>5, <1>6, <1>7 DEF ServiceInv

(* A request ends under the lock and commits nothing.                      *)
LEMMA EndKeeps ==
  ASSUME ServiceInv, NEW r \in Requests, req[r].pc \notin Outside, End(r),
         UNCHANGED <<now, settings, edits, visible, obs, iss, out, checkpoint, horizon, issSeq, outSeq,
                     compacted, crashes, issued, closed>>
  PROVE  ServiceInv'
<1>1. now \in 0 .. MaxTime /\ now \in Nat /\ TypeOK
  BY Clock
<1>2. /\ RequestsOK' /\ held' \in State
      /\ \A u \in Requests : req'[u] = IF u = r THEN Idle ELSE req[u]
      /\ \A u \in Requests : req'[u].pc \in Outside
  BY <1>1, EndMoves
<1>3. TypeOK'
  BY <1>1, <1>2, TypesAgain DEF TypeOK
<1>4. JournalInv' /\ ScoredInv'
  BY StillKeeps
<1>5. HeldInv'
  BY <1>2 DEF HeldInv, Outside
<1>6. Exact(checkpoint)'
  BY SameJournal DEF ServiceInv
<1>7. RequestInv'
  BY <1>2, EndedKnows
<1> QED
  BY <1>3, <1>4, <1>5, <1>6, <1>7 DEF ServiceInv

(* Recovery folds the journal onto the latest checkpoint.                  *)
LEMMA RecoverKeeps ==
  ASSUME ServiceInv, NEW r \in Requests, Recover(r)
  PROVE  ServiceInv'
<1>1. /\ req[r].pc = "recover" /\ held' = Folded(checkpoint) /\ Goto(r, "decide")
      /\ UNCHANGED <<now, settings, edits, visible, obs, iss, out, checkpoint, horizon, issSeq, outSeq,
                     compacted, lock, crashes, issued, closed>>
  BY DEF Recover, world, journal, ghosts
<1>2. TypeOK /\ checkpoint \in State /\ Exact(checkpoint)
  BY DEF ServiceInv, TypeOK
<1>3. held' \in State /\ Exact(held') /\ Covers(held')
  BY <1>1, <1>2, FoldedExact
<1>4. Exact(held)' /\ Covers(held)' /\ Exact(checkpoint)'
  BY <1>1, <1>2, <1>3, SameJournal
<1>5. "decide" \in Steps \ Outside /\ req[r].pc \notin Outside
  BY <1>1 DEF Steps, Outside
<1> QED
  BY <1>1, <1>2, <1>3, <1>4, <1>5, LockedKeeps

(* The decision is checkpointed before anything is issued.                 *)
LEMMA DecideKeeps ==
  ASSUME ServiceInv, NEW r \in Requests, Decide(r)
  PROVE  ServiceInv'
<1>1. /\ req[r].pc = "decide"
      /\ UNCHANGED <<now, settings, edits, visible, obs, iss, out, horizon, issSeq, outSeq,
                     compacted, crashes, issued, closed>>
  BY DEF Decide, world, ghosts
<1>2. TypeOK /\ checkpoint \in State /\ held \in State /\ Exact(checkpoint) /\ Exact(held) /\ Covers(held)
  BY <1>1 DEF ServiceInv, TypeOK, HeldInv
<1>3. {"fold", "commit"} \subseteq Steps \ Outside /\ req[r].pc \notin Outside
  BY <1>1 DEF Steps, Outside
<1>4. CASE Goto(r, "fold") /\ UNCHANGED <<checkpoint, lock, held>>
  <2>1. Exact(held)' /\ Exact(checkpoint)'
    BY <1>1, <1>2, <1>4, SameJournal
  <2> QED
    BY <1>1, <1>2, <1>3, <1>4, <2>1, LockedKeeps
<1>5. CASE iss[req[r].key] = None /\ checkpoint' = Checkpointed(held) /\ Goto(r, "commit") /\ UNCHANGED <<lock, held>>
  <2>1. checkpoint' = held
    BY <1>5 DEF Checkpointed
  <2>2. Exact(held)' /\ Exact(checkpoint)' /\ Covers(checkpoint)'
    BY <1>1, <1>2, <1>5, <2>1, SameJournal
  <2> QED
    BY <1>1, <1>2, <1>3, <1>5, <2>1, <2>2, LockedKeeps
<1>6. CASE End(r) /\ UNCHANGED checkpoint
  BY <1>1, <1>3, <1>6, EndKeeps
<1> QED
  BY <1>4, <1>5, <1>6 DEF Decide

(* The second recovery, and the checkpoint compaction relies on.           *)
LEMMA FoldAgainKeeps ==
  ASSUME ServiceInv, NEW r \in Requests, FoldAgain(r)
  PROVE  ServiceInv'
<1>1. /\ req[r].pc = "fold" /\ held' = Folded(held) /\ checkpoint' = held' /\ Goto(r, "answer")
      /\ UNCHANGED <<now, settings, edits, visible, obs, iss, out, horizon, issSeq, outSeq,
                     compacted, lock, crashes, issued, closed>>
  BY DEF FoldAgain, world, ghosts
<1>2. TypeOK /\ held \in State /\ Exact(held)
  BY <1>1 DEF ServiceInv, TypeOK, HeldInv
<1>3. held' \in State /\ Exact(held') /\ Covers(held')
  BY <1>1, <1>2, FoldedExact
<1>4. Exact(checkpoint)' /\ Covers(checkpoint)'
  BY <1>1, <1>3, SameJournal
<1>5. "answer" \in Steps \ Outside /\ req[r].pc \notin Outside
  BY <1>1 DEF Steps, Outside
<1> QED
  BY <1>1, <1>3, <1>4, <1>5, LockedKeeps

(* Time, the metric store and the user, and a request that does not move.  *)
LEMMA WorldKeeps ==
  ASSUME ServiceInv,
         Tick \/ (\E p \in Points : Scrape(p)) \/ (\E s \in Settings : Edit(s)) \/ UNCHANGED vars
  PROVE  ServiceInv'
<1>1. /\ now' \in 0 .. MaxTime /\ now' \in Nat /\ now' >= now
      /\ settings' \in Settings /\ visible' \subseteq Points /\ edits' \in 0 .. MaxEdits
      /\ UNCHANGED <<obs, iss, out, checkpoint, horizon, issSeq, outSeq, compacted, lock, held, req,
                     crashes, issued, closed>>
  <2>1. now \in 0 .. MaxTime /\ now \in Nat /\ settings \in Settings /\ visible \subseteq Points
        /\ edits \in 0 .. MaxEdits
    BY Clock DEF TypeOK
  <2>2. CASE Tick
    <3>1. /\ now < MaxTime /\ now' = now + 1
          /\ UNCHANGED <<settings, edits, visible, obs, iss, out, checkpoint, horizon, issSeq, outSeq, compacted,
                         lock, held, req, crashes, issued, closed>>
      BY <2>2 DEF Tick, world, journal, ghosts
    <3>2. now' \in 0 .. MaxTime /\ now' \in Nat /\ now' >= now
      BY <2>1, <3>1, ServiceConstants
    <3> QED
      BY <2>1, <3>1, <3>2
  <2>3. CASE \E p \in Points : Scrape(p)
    BY <2>1, <2>3 DEF Scrape, journal, ghosts
  <2>4. CASE \E s \in Settings : Edit(s)
    <3>1. /\ edits < MaxEdits /\ edits' = edits + 1 /\ settings' \in Settings
          /\ UNCHANGED <<now, visible, obs, iss, out, checkpoint, horizon, issSeq, outSeq, compacted,
                         lock, held, req, crashes, issued, closed>>
      BY <2>4 DEF Edit, journal, ghosts
    <3>2. edits' \in 0 .. MaxEdits
      BY <2>1, <3>1, ServiceConstants
    <3> QED
      BY <2>1, <3>1, <3>2
  <2>5. CASE UNCHANGED vars
    BY <2>1, <2>5 DEF vars, world, journal, ghosts
  <2> QED
    BY <2>2, <2>3, <2>4, <2>5
<1>2. TypeOK /\ now \in Nat
  BY Clock
<1>3. RequestsOK'
  BY <1>1, <1>2 DEF RequestsOK, RequestType, TypeOK, Outside
<1>4. TypeOK'
  BY <1>1, <1>2, <1>3, TypesAgain DEF TypeOK
<1>5. JournalInv' /\ ScoredInv'
  BY <1>1, QuietKeeps
<1>6. HeldInv' /\ Exact(checkpoint)'
  BY <1>1, HeldKept
<1>7. RequestInv'
  <2>1. \A r \in Requests : req[r].at \in Nat
    BY <1>2 DEF TypeOK
  <2>2. now \in Nat /\ now' \in Nat /\ now' >= now /\ req' = req
    BY <1>1, <1>2
  <2>3. RequestInv
    BY DEF ServiceInv
  <2> QED
    BY <2>1, <2>2, <2>3 DEF RequestInv
<1> QED
  BY <1>4, <1>5, <1>6, <1>7 DEF ServiceInv

(* A crash loses what requests hold in memory, and nothing of the journal. *)
LEMMA CrashKeeps ==
  ASSUME ServiceInv, Crash
  PROVE  ServiceInv'
<1>1. /\ crashes < MaxCrashes /\ crashes' = crashes + 1 /\ req' = [r \in Requests |-> Idle]
      /\ lock' = None /\ held' = Unfolded /\ compacted' = None
      /\ UNCHANGED <<now, settings, edits, visible, obs, iss, out, checkpoint, horizon, issSeq, outSeq,
                     issued, closed>>
  BY DEF Crash, world, journal, ghosts
<1>2. now \in 0 .. MaxTime /\ now \in Nat /\ TypeOK
  BY Clock
<1>3. RequestsOK' /\ held' \in State /\ \A u \in Requests : req'[u] = Idle
  BY <1>1, IdleType, ServiceConstants DEF RequestsOK, Outside
<1>4. crashes' \in 0 .. MaxCrashes
  <2>1. crashes \in 0 .. MaxCrashes
    BY <1>2 DEF TypeOK
  <2> QED
    BY <1>1, <2>1, ServiceConstants
<1>5. TypeOK'
  BY <1>1, <1>2, <1>3, <1>4, TypesAgain DEF TypeOK
<1>6. JournalInv' /\ ScoredInv'
  BY <1>1, StillKeeps
<1>7. HeldInv' /\ RequestInv'
  <2>1. HeldInv'
    BY <1>3, IdleType DEF HeldInv
  <2>2. RequestInv'
    BY <1>1, <1>2, <1>3, IdleType DEF RequestInv
  <2> QED
    BY <2>1, <2>2
<1>8. Exact(checkpoint)'
  BY <1>1, SameJournal DEF ServiceInv
<1> QED
  BY <1>5, <1>6, <1>7, <1>8 DEF ServiceInv

-----------------------------------------------------------------------------
(* Steps that commit                                                       *)

(* A window that is issued and open was never closed: closing it counts    *)
(* its outcome once.                                                       *)
LEMMA CloseExact ==
  ASSUME ServiceInv, NEW k \in WindowKeys, iss[k] # None, out[k] = None,
         NEW o \in [seq : {outSeq + 1}, status : {"scored", "unscorable"}],
         out' = [out EXCEPT ![k] = o], outSeq' = outSeq + 1, closed' = closed \cup {k},
         UNCHANGED <<iss, issSeq, issued, checkpoint>>
  PROVE  /\ out' \in [WindowKeys -> [seq : 1 .. outSeq', status : {"scored", "unscorable"}] \cup {None}]
         /\ \A j \in WindowKeys : out'[j] = IF j = k THEN o ELSE out[j]
         /\ o # None /\ Exact(checkpoint)'
<1>1. /\ outSeq \in Nat /\ issSeq \in Nat /\ checkpoint \in State
      /\ out \in [WindowKeys -> [seq : 1 .. outSeq, status : {"scored", "unscorable"}] \cup {None}]
      /\ Exact(checkpoint) /\ k \notin closed
  BY DEF ServiceInv, TypeOK, JournalInv
<1>2. /\ o.seq = outSeq + 1 /\ o \in [seq : 1 .. outSeq', status : {"scored", "unscorable"}]
      /\ o \in [seq : Nat, status : {"scored", "unscorable"}]
  <2>1. outSeq + 1 \in 1 .. outSeq' /\ outSeq + 1 \in Nat
    BY <1>1
  <2> QED
    BY <2>1
<1>3. o # None
  BY <1>2, ServiceConstants
<1>4. \A j \in WindowKeys : out'[j] = IF j = k THEN o ELSE out[j]
  BY <1>1
<1>5. \A j \in WindowKeys : out[j] \in [seq : 1 .. outSeq', status : {"scored", "unscorable"}] \cup {None}
  BY <1>1
<1>6. out' \in [WindowKeys -> [seq : 1 .. outSeq', status : {"scored", "unscorable"}] \cup {None}]
  BY <1>1, <1>2, <1>4, <1>5
<1>7. /\ checkpoint.lastOut \in Nat /\ checkpoint.lastOut <= outSeq /\ checkpoint.lastIss <= issSeq
      /\ checkpoint.out \in [WindowKeys -> Nat]
  BY <1>1 DEF Exact, State
<1>8. NewIssuances(checkpoint)' = NewIssuances(checkpoint)
  BY DEF NewIssuances
<1>9. NewOutcomes(checkpoint)' = NewOutcomes(checkpoint) \cup {k} /\ k \notin NewOutcomes(checkpoint)
  BY <1>1, <1>2, <1>3, <1>4, <1>7 DEF NewOutcomes
<1>10. \A j \in WindowKeys :
         checkpoint.out[j] + (IF j \in NewOutcomes(checkpoint) \cup {k} THEN 1 ELSE 0)
           = IF j \in closed \cup {k} THEN 1 ELSE 0
  <2>1. \A j \in WindowKeys :
          checkpoint.out[j] + (IF j \in NewOutcomes(checkpoint) THEN 1 ELSE 0) = IF j \in closed THEN 1 ELSE 0
    BY <1>1 DEF Exact
  <2> QED
    BY <1>1, <1>7, <1>9, <2>1
<1>11. Exact(checkpoint)'
  <2>1. \A j \in WindowKeys :
          checkpoint.iss[j] + (IF j \in NewIssuances(checkpoint) THEN 1 ELSE 0) = IF j \in issued THEN 1 ELSE 0
    BY <1>1 DEF Exact
  <2>2. checkpoint'.lastIss <= issSeq' /\ checkpoint'.lastOut <= outSeq'
    <3>1. outSeq \in Nat
      BY <1>1
    <3>2. \A n \in Nat : n <= outSeq => n <= outSeq'
      BY <3>1
    <3> QED
      BY <1>7, <3>2
  <2> QED
    BY <1>8, <1>9, <1>10, <2>1, <2>2 DEF Exact
<1> QED
  BY <1>3, <1>4, <1>6, <1>11

(* A window that has settled for a request ended within the bound.         *)
LEMMA SettledEnd ==
  ASSUME NEW w \in Nat, NEW a \in 0 .. MaxTime, w <= a - Settlement
  PROVE  w <= MaxTime
BY ServiceConstants

(* What came by the earlier of two times came by the second.               *)
LEMMA ByTheEarlier ==
  ASSUME NEW a \in Nat, NEW d \in Nat, NEW v \in Nat, ~(v > Earlier(a, d))
  PROVE  v <= d
BY DEF Earlier

(* A settled window is closed, scored only from what came in time.         *)
LEMMA MatureKeeps ==
  ASSUME ServiceInv, NEW r \in Requests, Mature(r)
  PROVE  ServiceInv'
<1>1. /\ req[r].pc = "mature"
      /\ UNCHANGED <<now, settings, edits, visible, obs, iss, checkpoint, horizon, issSeq, compacted, lock,
                     held, crashes, issued>>
  BY DEF Mature, world
<1>2. now \in 0 .. MaxTime /\ now \in Nat /\ TypeOK /\ req[r].pc \notin Outside
  BY <1>1, Clock DEF Outside
<1>3. CASE Goto(r, "recover") /\ UNCHANGED <<out, outSeq, closed>>
  <2>1. Exact(checkpoint)' /\ checkpoint \in State /\ held \in State
    BY <1>1, <1>2, <1>3, SameJournal DEF ServiceInv, TypeOK
  <2>2. "recover" \in Steps \ Outside
    BY DEF Steps, Outside
  <2> QED
    BY <1>1, <1>2, <1>3, <2>1, <2>2, LockedKeeps
<1>4. ASSUME NEW k \in Closable(r), UNCHANGED req, outSeq' = outSeq + 1, closed' = closed \cup {k},
             out' = [out EXCEPT ![k] = [seq |-> outSeq + 1,
                                        status |-> IF Missing(r, k) = {} THEN "scored" ELSE "unscorable"]]
      PROVE  ServiceInv'
  <2> DEFINE o == [seq |-> outSeq + 1, status |-> IF Missing(r, k) = {} THEN "scored" ELSE "unscorable"]
  <2>1. /\ k \in WindowKeys /\ iss[k] # None /\ out[k] = None
        /\ WindowEnd(k) <= req[r].at - Settlement
    BY DEF Closable
  <2>2. /\ o \in [seq : {outSeq + 1}, status : {"scored", "unscorable"}]
        /\ o.status = "scored" => Missing(r, k) = {}
    OBVIOUS
  <2> HIDE DEF o
  <2>3. /\ out' \in [WindowKeys -> [seq : 1 .. outSeq', status : {"scored", "unscorable"}] \cup {None}]
        /\ \A j \in WindowKeys : out'[j] = IF j = k THEN o ELSE out[j]
        /\ o # None /\ Exact(checkpoint)'
    <3>1. out' = [out EXCEPT ![k] = o]
      BY <1>4 DEF o
    <3> QED
      BY <1>1, <1>4, <2>1, <2>2, <3>1, CloseExact
  <2>4. RequestsOK'
    BY <1>1, <1>2, <1>4 DEF RequestsOK, RequestType, TypeOK, Outside
  <2>5. outSeq' \in Nat /\ closed' \subseteq WindowKeys
    <3>1. outSeq \in Nat /\ closed \subseteq WindowKeys
      BY <1>2 DEF TypeOK
    <3>2. outSeq + 1 \in Nat
      BY <3>1
    <3> QED
      BY <1>4, <2>1, <3>1, <3>2
  <2>6. TypeOK'
    BY <1>1, <1>2, <1>4, <2>3, <2>4, <2>5, TypesAgain DEF TypeOK
  <2>7. JournalInv'
    <3>1. k \in issued
      BY <2>1 DEF ServiceInv, JournalInv
    <3>2. \A j \in WindowKeys : WindowEnd(j)' = WindowEnd(j)
      BY DEF WindowEnd
    <3> QED
      BY <1>1, <1>4, <2>1, <2>3, <3>1, <3>2 DEF ServiceInv, JournalInv
  <2>8. HeldInv'
    <3>1. \A u \in Requests : u # r => req[u].pc \in Outside
      BY <1>2, Alone
    <3> QED
      BY <1>1, <1>4, <3>1 DEF HeldInv, Outside
  <2>9. RequestInv'
    BY <1>1, <1>4 DEF ServiceInv, RequestInv
  <2>10. ScoredInv'
    <3>1. ASSUME o.status = "scored"
          PROVE  WindowEnd(k) <= MaxTime /\ \A t \in Targets(k) : obs[t] # None /\ obs[t] <= Deadline(k)
      <4>1. req[r].at \in 0 .. MaxTime /\ req[r].at \in Nat
        <5>1. req[r].at \in 0 .. MaxTime
          BY <1>2 DEF TypeOK
        <5> QED
          BY <5>1
      <4>2. WindowEnd(k) \in Nat /\ Deadline(k) \in Nat
        BY <2>1, TargetsOf
      <4>3. WindowEnd(k) <= MaxTime
        BY <2>1, <4>1, <4>2, SettledEnd
      <4>4. ASSUME NEW t \in Targets(k) PROVE obs[t] # None /\ obs[t] <= Deadline(k)
        <5>1. t \in Points
          <6>1. t \in Nat /\ t <= WindowEnd(k) /\ OnGrid(t)
            BY <2>1, TargetsOf
          <6>2. t \in 0 .. MaxTime
            BY <4>2, <4>3, <6>1, ServiceConstants
          <6> QED
            BY <6>1, <6>2 DEF Points
        <5>2. obs[t] # None /\ ~(obs[t] > Earlier(req[r].at, Deadline(k)))
          BY <2>2, <3>1 DEF Missing, Cutoff
        <5>3. obs[t] \in 0 .. MaxTime
          BY <1>2, <5>1, <5>2 DEF TypeOK
        <5>4. obs[t] \in Nat
          BY <5>3
        <5> QED
          BY <4>1, <4>2, <5>2, <5>4, ByTheEarlier
      <4> QED
        BY <4>3, <4>4
    <3>2. \A j \in WindowKeys : WindowEnd(j)' = WindowEnd(j) /\ Deadline(j)' = Deadline(j) /\ Targets(j)' = Targets(j)
      BY DEF WindowEnd, Deadline, Targets, OnGrid
    <3> QED
      BY <1>1, <2>1, <2>3, <3>1, <3>2 DEF ServiceInv, ScoredInv
  <2> QED
    BY <2>3, <2>6, <2>7, <2>8, <2>9, <2>10 DEF ServiceInv
<1> QED
  BY <1>3, <1>4 DEF Mature

(* A window that was never issued: issuing it counts its issuance once.    *)
LEMMA IssueExact ==
  ASSUME TypeOK, NEW k \in WindowKeys, iss[k] = None, k \notin issued,
         iss' = [iss EXCEPT ![k] = issSeq + 1], issSeq' = issSeq + 1, issued' = issued \cup {k},
         UNCHANGED <<out, outSeq, closed>>, NEW m \in State, Exact(m)
  PROVE  /\ checkpoint' = m => Exact(checkpoint)'
         /\ held' = m => Exact(held)'
<1>1. issSeq \in Nat /\ iss \in [WindowKeys -> 1 .. issSeq \cup {None}] /\ None \notin Nat
  BY ServiceConstants DEF TypeOK
<1>2. issSeq + 1 # None /\ \A j \in WindowKeys : iss'[j] = IF j = k THEN issSeq + 1 ELSE iss[j]
  BY <1>1
<1>3. m.lastIss \in Nat /\ m.lastIss <= issSeq /\ m.iss \in [WindowKeys -> Nat]
  BY DEF Exact, State
<1> DEFINE N == {j \in WindowKeys : iss'[j] # None /\ iss'[j] > m.lastIss}
<1>4. N = NewIssuances(m) \cup {k} /\ k \notin NewIssuances(m)
  BY <1>1, <1>2, <1>3 DEF NewIssuances
<1>5. \A j \in WindowKeys : m.iss[j] + (IF j \in N THEN 1 ELSE 0) = IF j \in issued \cup {k} THEN 1 ELSE 0
  <2>1. \A j \in WindowKeys : m.iss[j] + (IF j \in NewIssuances(m) THEN 1 ELSE 0) = IF j \in issued THEN 1 ELSE 0
    BY DEF Exact
  <2> HIDE DEF N
  <2> QED
    BY <1>3, <1>4, <2>1
<1>6. m.lastIss <= issSeq'
  BY <1>1, <1>3
<1>7. ASSUME checkpoint' = m PROVE Exact(checkpoint)'
  <2>1. NewIssuances(checkpoint)' = N /\ NewOutcomes(checkpoint)' = NewOutcomes(m)
    BY <1>7 DEF NewIssuances, NewOutcomes
  <2> HIDE DEF N
  <2> QED
    BY <1>5, <1>6, <1>7, <2>1 DEF Exact
<1>8. ASSUME held' = m PROVE Exact(held)'
  <2>1. NewIssuances(held)' = N /\ NewOutcomes(held)' = NewOutcomes(m)
    BY <1>8 DEF NewIssuances, NewOutcomes
  <2> HIDE DEF N
  <2> QED
    BY <1>5, <1>6, <1>8, <2>1 DEF Exact
<1> QED
  BY <1>7, <1>8

(* The first target of a window that may still be issued is ahead.         *)
LEMMA IssuableAhead ==
  ASSUME ServiceInv, NEW r \in Requests, req[r].key \in WindowKeys, MayIssue(r)
  PROVE  now + Allowance < Min(Targets(req[r].key)) /\ now < WindowEnd(req[r].key)
<1>1. now \in Nat /\ Allowance \in Nat
  BY Clock, ServiceConstants
<1>2. /\ Min(Targets(req[r].key)) \in Nat /\ WindowEnd(req[r].key) \in Nat
      /\ Min(Targets(req[r].key)) <= WindowEnd(req[r].key)
  BY TargetsOf
<1> QED
  BY <1>1, <1>2 DEF MayIssue, Late

(* A bundle is issued for a window that never was.                         *)
LEMMA CommitKeeps ==
  ASSUME ServiceInv, NEW r \in Requests, Commit(r)
  PROVE  ServiceInv'
<1> DEFINE k == req[r].key
<1>1. /\ req[r].pc = "commit"
      /\ UNCHANGED <<now, settings, edits, visible, obs, out, checkpoint, horizon, outSeq, compacted,
                     crashes, closed>>
  BY DEF Commit, world
<1>2. /\ TypeOK /\ now \in Nat /\ req[r].pc \notin Outside /\ k \in WindowKeys /\ iss[k] = None
      /\ checkpoint \in State /\ held \in State /\ Exact(checkpoint) /\ Exact(held)
  <2>1. TypeOK /\ now \in Nat /\ Exact(checkpoint) /\ RequestInv /\ HeldInv
    BY Clock DEF ServiceInv
  <2>2. checkpoint \in State /\ held \in State
    BY <2>1 DEF TypeOK
  <2>3. k \in WindowKeys /\ iss[k] = None /\ Exact(held)
    BY <1>1, <2>1 DEF RequestInv, HeldInv
  <2> QED
    BY <1>1, <2>1, <2>2, <2>3 DEF Outside
<1>3. CASE End(r) /\ UNCHANGED <<issSeq, iss, issued>>
  BY <1>1, <1>2, <1>3, EndKeeps
<1>4. CASE /\ MayIssue(r) /\ issSeq' = issSeq + 1 /\ iss' = [iss EXCEPT ![k] = issSeq + 1]
           /\ issued' = issued \cup {k} /\ Goto(r, "fold") /\ UNCHANGED <<lock, held>>
  <2>1. now < WindowEnd(k) /\ WindowEnd(k) \in Nat
    BY <1>2, <1>4, IssuableAhead, TargetsOf
  <2> HIDE DEF k
  <2>2. k \notin issued
    <3>1. k \in issued /\ iss[k] = None => WindowEnd(k) < now
      BY <1>2 DEF ServiceInv, JournalInv
    <3> QED
      BY <1>2, <2>1, <3>1
  <2>3. Exact(checkpoint)' /\ Exact(held)'
    BY <1>1, <1>2, <1>4, <2>2, IssueExact
  <2>4. "fold" \in Steps \ Outside
    BY DEF Steps, Outside
  <2>5. /\ RequestsOK'
        /\ \A u \in Requests : req'[u].at = req[u].at /\ req'[u].key = req[u].key
        /\ \A u \in Requests : req'[u].pc = IF u = r THEN "fold" ELSE req[u].pc
    BY <1>2, <1>4, <2>4, GotoMoves
  <2>6. /\ issSeq' \in Nat /\ iss' \in [WindowKeys -> 1 .. issSeq' \cup {None}] /\ issued' \subseteq WindowKeys
        /\ \A j \in WindowKeys : iss'[j] = IF j = k THEN issSeq + 1 ELSE iss[j]
    <3>1. issSeq \in Nat /\ iss \in [WindowKeys -> 1 .. issSeq \cup {None}] /\ issued \subseteq WindowKeys
      BY <1>2 DEF TypeOK
    <3>2. \A j \in WindowKeys : iss'[j] = IF j = k THEN issSeq + 1 ELSE iss[j]
      BY <1>4, <3>1
    <3>3. \A j \in WindowKeys : iss'[j] \in 1 .. issSeq' \cup {None}
      BY <1>4, <3>1, <3>2
    <3>4. iss' \in [WindowKeys -> 1 .. issSeq' \cup {None}]
      BY <1>4, <3>1, <3>3
    <3> QED
      BY <1>2, <1>4, <3>1, <3>2, <3>4
  <2>7. TypeOK'
    BY <1>1, <1>2, <1>4, <2>5, <2>6, TypesAgain DEF TypeOK
  <2>8. JournalInv'
    <3>1. \A j \in WindowKeys : WindowEnd(j)' = WindowEnd(j)
      BY DEF WindowEnd
    <3>2. issSeq + 1 # None
      <4>1. issSeq \in Nat
        BY <1>2 DEF TypeOK
      <4> QED
        BY <4>1, ServiceConstants
    <3> QED
      BY <1>1, <1>2, <1>4, <2>2, <2>6, <3>1, <3>2 DEF ServiceInv, JournalInv
  <2>9. HeldInv'
    <3>1. \A u \in Requests : u # r => req'[u].pc \in Outside
      BY <1>2, <2>5, Alone
    <3> QED
      BY <2>3, <2>5, <3>1 DEF HeldInv, Outside
  <2>10. RequestInv'
    BY <1>1, <1>2, <2>5 DEF ServiceInv, RequestInv, k
  <2>11. ScoredInv'
    <3>1. \A j \in WindowKeys : WindowEnd(j)' = WindowEnd(j) /\ Deadline(j)' = Deadline(j) /\ Targets(j)' = Targets(j)
      BY DEF WindowEnd, Deadline, Targets, OnGrid
    <3> QED
      BY <1>1, <3>1 DEF ServiceInv, ScoredInv
  <2> QED
    BY <2>3, <2>7, <2>8, <2>9, <2>10, <2>11 DEF ServiceInv
<1> QED
  BY <1>3, <1>4 DEF Commit

(* The retention horizon only moves forward.                               *)
LEMMA MaxOfTwo ==
  ASSUME NEW a \in Nat, NEW h \in Int
  PROVE  Max({a, h}) \in Nat
<1>1. \E x \in {a, h} : \A y \in {a, h} : x >= y
  <2>1. CASE a >= h
    BY <2>1
  <2>2. CASE ~(a >= h)
    BY <2>2
  <2> QED
    BY <2>1, <2>2
<1>2. Max({a, h}) \in {a, h} /\ \A y \in {a, h} : Max({a, h}) >= y
  BY <1>1 DEF Max
<1> QED
  BY <1>2

(* Compaction removes windows the checkpoint has folded in and that ended. *)
LEMMA AnswerKeeps ==
  ASSUME ServiceInv, NEW r \in Requests, Answer(r)
  PROVE  ServiceInv'
<1> DEFINE h == req[r].at - Retention
           gone(j) == CompactionDue(r) /\ h > horizon /\ Removable(j, h)
<1>1. /\ req[r].pc = "answer" /\ End(r)
      /\ horizon' = IF CompactionDue(r) THEN Max({horizon, h}) ELSE horizon
      /\ iss' = [j \in WindowKeys |-> IF gone(j) THEN None ELSE iss[j]]
      /\ out' = [j \in WindowKeys |-> IF gone(j) THEN None ELSE out[j]]
      /\ compacted' = IF CompactionDue(r) THEN req[r].at ELSE compacted
      /\ UNCHANGED <<now, settings, edits, visible, obs, checkpoint, issSeq, outSeq, crashes, issued, closed>>
  BY DEF Answer, world
<1>2. /\ TypeOK /\ now \in Nat /\ req[r].pc \notin Outside /\ req[r].at \in 0 .. MaxTime /\ req[r].at <= now
      /\ horizon \in Nat /\ compacted \in 0 .. MaxTime \cup {None}
      /\ checkpoint \in State /\ Exact(checkpoint) /\ Covers(checkpoint)
  <2>1. TypeOK /\ now \in Nat /\ Exact(checkpoint) /\ RequestInv /\ HeldInv
    BY Clock DEF ServiceInv
  <2>2. /\ checkpoint \in State /\ horizon \in Nat /\ compacted \in 0 .. MaxTime \cup {None}
        /\ req[r] \in RequestType
    BY <2>1 DEF TypeOK, RequestType
  <2>3. req[r].at \in 0 .. MaxTime
    BY <2>2 DEF RequestType
  <2>4. req[r].at <= now /\ Covers(checkpoint)
    BY <1>1, <2>1 DEF RequestInv, HeldInv
  <2> QED
    BY <1>1, <2>1, <2>2, <2>3, <2>4 DEF Outside
<1>3. h \in Int /\ h <= now /\ req[r].at \in Nat
  <2>1. req[r].at \in Nat /\ req[r].at <= now /\ now \in Nat
    BY <1>2
  <2>2. Retention \in Nat
    BY ServiceConstants
  <2> QED
    BY <2>1, <2>2
<1> HIDE DEF h
<1>4. \A j \in WindowKeys : gone(j) => iss[j] # None /\ WindowEnd(j) < now
  <2>1. \A j \in WindowKeys : WindowEnd(j) \in Nat
    BY TargetsOf
  <2>2. now \in Nat
    BY <1>2
  <2>3. \A j \in WindowKeys : gone(j) => iss[j] # None /\ WindowEnd(j) < h
    BY DEF Removable
  <2>4. \A w \in Nat : w < h => w < now
    BY <1>3, <2>2
  <2> HIDE DEF gone
  <2> QED
    BY <2>1, <2>3, <2>4
<1> HIDE DEF gone
<1>5. \A j \in WindowKeys : \/ iss'[j] = iss[j] /\ out'[j] = out[j]
                            \/ iss'[j] = None /\ out'[j] = None /\ iss[j] # None /\ WindowEnd(j) < now
  BY <1>1, <1>4
<1>6. /\ RequestsOK' /\ held' \in State
      /\ \A u \in Requests : req'[u] = IF u = r THEN Idle ELSE req[u]
      /\ \A u \in Requests : req'[u].pc \in Outside
  BY <1>1, <1>2, EndMoves
<1>7. TypeOK'
  <2>1. horizon' \in Nat
    BY <1>1, <1>2, <1>3, MaxOfTwo
  <2>2. compacted' \in 0 .. MaxTime \cup {None}
    BY <1>1, <1>2
  <2>3. /\ iss' \in [WindowKeys -> 1 .. issSeq' \cup {None}]
        /\ out' \in [WindowKeys -> [seq : 1 .. outSeq', status : {"scored", "unscorable"}] \cup {None}]
    BY <1>1, <1>2 DEF TypeOK
  <2> QED
    BY <1>1, <1>2, <1>6, <2>1, <2>2, <2>3, TypesAgain DEF TypeOK
<1>8. Exact(checkpoint)'
  <2>1. NewIssuances(checkpoint)' = {} /\ NewOutcomes(checkpoint)' = {}
    BY <1>1, <1>2, <1>5 DEF NewIssuances, NewOutcomes, Covers
  <2> QED
    BY <1>1, <1>2, <2>1 DEF Exact, Covers
<1>9. JournalInv'
  <2>1. \A j \in WindowKeys : WindowEnd(j)' = WindowEnd(j)
    BY DEF WindowEnd
  <2> QED
    BY <1>1, <1>5, <2>1 DEF ServiceInv, JournalInv
<1>10. HeldInv'
  BY <1>6 DEF HeldInv, Outside
<1>11. RequestInv'
  BY <1>1, <1>6, EndedKnows
<1>12. ScoredInv'
  <2>1. \A j \in WindowKeys : WindowEnd(j)' = WindowEnd(j) /\ Deadline(j)' = Deadline(j) /\ Targets(j)' = Targets(j)
    BY DEF WindowEnd, Deadline, Targets, OnGrid
  <2> QED
    BY <1>1, <1>5, <2>1 DEF ServiceInv, ScoredInv
<1> QED
  BY <1>7, <1>8, <1>9, <1>10, <1>11, <1>12 DEF ServiceInv

-----------------------------------------------------------------------------
(* Theorems                                                                *)

(* Before the first request.                                               *)
LEMMA InitKeeps == Init => ServiceInv
<1> SUFFICES ASSUME Init PROVE ServiceInv
  OBVIOUS
<1>1. /\ 0 \in 0 .. MaxTime /\ 0 \in 0 .. MaxCrashes /\ 0 \in 0 .. MaxEdits
      /\ (CHOOSE s \in Settings : TRUE) \in Settings /\ None \notin Requests
  BY ServiceConstants
<1>2. \A r \in Requests : req[r] = Idle
  BY DEF Init
<1>3. TypeOK
  BY <1>1, <1>2, IdleType DEF Init, TypeOK, RequestType
<1>4. Exact(checkpoint)
  <2>1. /\ checkpoint.lastIss = 0 /\ checkpoint.lastOut = 0 /\ issSeq = 0 /\ outSeq = 0
        /\ \A k \in WindowKeys : checkpoint.iss[k] = 0 /\ checkpoint.out[k] = 0
        /\ issued = {} /\ closed = {}
    BY DEF Init, Unfolded
  <2>2. NewIssuances(checkpoint) = {} /\ NewOutcomes(checkpoint) = {}
    BY DEF Init, NewIssuances, NewOutcomes
  <2>3. \A k \in WindowKeys : k \notin NewIssuances(checkpoint) /\ k \notin NewOutcomes(checkpoint)
                               /\ k \notin issued /\ k \notin closed
    BY <2>1, <2>2
  <2>4. checkpoint.lastIss <= issSeq /\ checkpoint.lastOut <= outSeq
    BY <2>1
  <2>5. ASSUME NEW k \in WindowKeys
        PROVE  /\ checkpoint.iss[k] + (IF k \in NewIssuances(checkpoint) THEN 1 ELSE 0) = IF k \in issued THEN 1 ELSE 0
               /\ checkpoint.out[k] + (IF k \in NewOutcomes(checkpoint) THEN 1 ELSE 0) = IF k \in closed THEN 1 ELSE 0
    BY <2>1, <2>3
  <2> QED
    BY <2>4, <2>5 DEF Exact
<1>5. JournalInv /\ ScoredInv
  BY DEF Init, JournalInv, ScoredInv
<1>6. RequestInv /\ HeldInv
  BY <1>2, IdleType DEF Init, RequestInv, HeldInv
<1> QED
  BY <1>3, <1>4, <1>5, <1>6 DEF ServiceInv

(* Every step keeps the inductive invariant.                               *)
LEMMA StepKeeps == ServiceInv /\ [Next]_vars => ServiceInv'
<1> SUFFICES ASSUME ServiceInv, [Next]_vars PROVE ServiceInv'
  OBVIOUS
<1>1. ASSUME NEW r \in Requests, Serve(r) PROVE ServiceInv'
  BY <1>1, BindKeeps, ReadKeeps, EnterKeeps, MatureKeeps, RecoverKeeps, DecideKeeps, CommitKeeps,
     FoldAgainKeeps, AnswerKeeps DEF Serve
<1>2. CASE Crash
  BY <1>2, CrashKeeps
<1>3. CASE Tick \/ (\E p \in Points : Scrape(p)) \/ (\E s \in Settings : Edit(s)) \/ UNCHANGED vars
  BY <1>3, WorldKeeps
<1> QED
  BY <1>1, <1>2, <1>3 DEF Next

(* The journal, the latest checkpoint and what the holder of the service's *)
(* lock has in memory agree in every reachable state (service.py:180-260). *)
THEOREM ServiceInvariant == Spec => []ServiceInv
BY InitKeeps, StepKeeps, PTL DEF Spec

(* Recovery is exact at every boundary (service.py:21-22): the latest      *)
(* checkpoint and what the journal holds after it make up every issuance   *)
(* and outcome ever committed, each once, whatever crashed and whatever    *)
(* was compacted, for any number of concurrent requests.                   *)
THEOREM EachRecordFoldedOnce == Spec => []EachFoldedOnce
<1>1. ServiceInv => EachFoldedOnce
  BY DEF ServiceInv, Exact, EachFoldedOnce
<1> QED
  BY <1>1, ServiceInvariant, PTL

(* No window is scored from a value that came after its fixed deadline,    *)
(* however late the request that looks at it (maturation.py:3-7).          *)
THEOREM ScoresAreInTime == Spec => []ScoredInTime
<1>1. ServiceInv => ScoredInTime
  BY DEF ServiceInv, ScoredInv, ScoredInTime
<1> QED
  BY <1>1, ServiceInvariant, PTL

(* Nothing is issued that could no longer act before its first target, nor *)
(* before the checkpoint covers every record the decision rests on         *)
(* (service.py:13-18).                                                     *)
THEOREM IssuancesRestOnCheckpoint == Spec => IssuedFromAll
<1>1. ASSUME ServiceInv, [Next]_vars PROVE [IssuedInTime /\ DecidedFromCheckpoint]_vars
  <2> SUFFICES ASSUME NEW k \in WindowKeys, iss[k] = None, iss'[k] # None
               PROVE  now + Allowance < Min(Targets(k)) /\ Covers(checkpoint)
    BY DEF IssuedInTime, DecidedFromCheckpoint, Covers
  <2>1. PICK r \in Requests : Serve(r)
    BY <1>1 DEF Next, Crash, Tick, Scrape, Edit, vars, journal
  <2>2. Commit(r)
    BY <1>1, <2>1 DEF Serve, Bind, Read, Enter, Mature, Recover, Decide, FoldAgain, Answer, journal
  <2>3. req[r].pc = "commit" /\ iss \in [WindowKeys -> 1 .. issSeq \cup {None}] /\ req[r].key \in WindowKeys
    BY <1>1, <2>2 DEF Commit, ServiceInv, TypeOK, RequestInv
  <2>4. MayIssue(r) /\ k = req[r].key
    BY <2>2, <2>3 DEF Commit
  <2> QED
    BY <1>1, <2>3, <2>4, IssuableAhead DEF ServiceInv, HeldInv
<1> QED
  BY <1>1, ServiceInvariant, PTL DEF Spec, IssuedFromAll
=============================================================================
