--------------------------- MODULE ForecastRequest --------------------------
(***************************************************************************)
(* One /v2/predict request from the operator's body to the checked answer  *)
(* (forecasting/service.py predict, with contracts.py, history.py and      *)
(* metrics.py), while users edit, delete and recreate autoscalers, the     *)
(* operator republishes its lead, and requests overlap.                    *)
(*                                                                         *)
(* The evidence the service folds is ForecastService's; here a bundle is   *)
(* what the answer is checked for: whose it is, its lead, its times.  A    *)
(* settings value stands for the settings and their hash, "bad" for ones   *)
(* that resolve_settings refuses.  Time is in whole units, Dt of them to a *)
(* grid interval; a sample reaches the backend up to Settle units after    *)
(* its slot, or never.                                                     *)
(***************************************************************************)
EXTENDS Integers, FiniteSets, FiniteSetsExt, TLC

CONSTANTS Names, None,
          Workers,              \* one request each
          Dt, Horizon, Settle, Allowance,
          Interval,             \* the operator's decision interval
          Budgets,              \* startup budgets it may measure
          HistorySlots,         \* slots of a read, one per chunk
          Deadline,             \* of a whole read
          MaxRegistered,        \* MAX_AUTOSCALERS
          Settings,             \* what users configure
          MaxTime, MaxEdits   \* bounds of the model

VARIABLES now,
          arrival,    \* slot -> delay of its sample, None when it never comes
          pa,         \* name -> the live autoscaler object, None when absent
          registry,   \* name -> uid of its snapshot, None when not registered
          journal,    \* issued bundles
          lock,       \* the worker inside _issue
          req,        \* worker -> its request
          edits

vars == <<now, arrival, pa, registry, journal, lock, req, edits>>

Slots == {s \in 0 .. MaxTime : s % Dt = 0}

Idle == [at |-> "idle"]

Start == HistorySlots * Dt

(* The history before the first request is there, or the workload is new.  *)
Init ==
  /\ now = Start
  /\ arrival \in [Slots -> 0 .. Settle \cup {None}]
  /\ \E old \in {0, None} : \A s \in Slots : s < Start => arrival[s] = old
  /\ pa = [n \in Names |-> None] /\ registry = [n \in Names |-> None]
  /\ journal = {} /\ lock = None
  /\ req = [w \in Workers |-> Idle]
  /\ edits = 0

----------------------------------------------------------------------------
(* Contract arithmetic                                                     *)

GridOrigin(t) == (t \div Dt) * Dt

(* automatic_lead_seconds.                                                 *)
AutomaticLead(d) == ((d + Interval + Allowance + Dt + Dt - 1) \div Dt) * Dt

(* resolve_lead.                                                           *)
LeadUsable(lead, gen) ==
  /\ lead # None /\ lead.gen = gen
  /\ lead.seconds >= Dt /\ lead.seconds % Dt = 0 /\ lead.seconds <= Horizon
  /\ lead.seconds >= lead.startup + Dt + Allowance

(* resolve_settings, _check_feasible.                                      *)
Resolves(settings) == settings # "bad"

(* ForecastWindow.target_timestamps[0].                                    *)
FirstTarget(origin) == origin + Dt

(* evidence_key with the issuance key: a new autoscaler, settings or lead  *)
(* starts another one, another startup budget does not.                    *)
KeyOf(q) == [uid |-> q.uid, settings |-> q.settings, seconds |-> q.lead.seconds, origin |-> q.origin]

(* Mutant: the newest point is not required to be settled.                 *)
WatermarkUnsettled(t) == GridOrigin(t)

(* watermark: the newest finalized grid point.                             *)
Watermark(t) == GridOrigin(t - Settle)

(* plan_chunks: the k-th of the read that ends at the watermark.           *)
Chunk(end, k) == end - (HistorySlots - k) * Dt

(* _parse_chunk: what the backend holds of the chunk.                      *)
Observed(s) == IF arrival[s] # None /\ s + arrival[s] <= now THEN {s} ELSE {}

(* RpsGrid.is_fresh.                                                       *)
IsFresh(grid) == grid # {} /\ now - Max(grid) <= Settle + 2 * Dt

----------------------------------------------------------------------------
(* Users and the operator                                                  *)

Edit(n, obj) ==
  /\ edits < MaxEdits /\ edits' = edits + 1
  /\ pa' = [pa EXCEPT ![n] = obj]
  /\ UNCHANGED <<now, arrival, registry, journal, lock, req>>

Create(n) ==
  /\ pa[n] = None
  /\ \E s \in Settings : Edit(n, [uid |-> edits + 1, gen |-> 1, settings |-> s, lead |-> None])

Update(n) ==
  /\ pa[n] # None
  /\ \E s \in Settings : Edit(n, [pa[n] EXCEPT !.gen = @ + 1, !.settings = s])

Delete(n) == pa[n] # None /\ Edit(n, None)

(* prepareV2: the lead of the measured budget, never shorter than the one  *)
(* before.                                                                 *)
Publish(n) ==
  /\ pa[n] # None
  /\ \E d \in Budgets :
       LET old == IF pa[n].lead = None THEN 0 ELSE pa[n].lead.seconds
       IN Edit(n, [pa[n] EXCEPT !.lead = [seconds |-> Max({old, AutomaticLead(d)}),
                                          startup |-> d, gen |-> pa[n].gen]])

(* parse_request: the fields of a body, the autoscaler the operator sees   *)
(* and the current grid origin; nothing else is taken from the caller.     *)
Body(n) == [at |-> "sent", name |-> n, uid |-> pa[n].uid, gen |-> pa[n].gen,
            settings |-> pa[n].settings, origin |-> GridOrigin(now)]

(* fetchV2.                                                                *)
Send(w, n) ==
  /\ req[w].at = "idle" /\ pa[n] # None
  /\ req' = [req EXCEPT ![w] = Body(n)]
  /\ UNCHANGED <<now, arrival, pa, registry, journal, lock, edits>>

----------------------------------------------------------------------------
(* The service                                                             *)

Others == <<now, arrival, pa, edits>>

Answer(w, how) == req' = [req EXCEPT ![w] = [how |-> how] @@ [req[w] EXCEPT !.at = "over"]]

(* bind_request: identity, settings hash and origin against one read of    *)
(* the live object.                                                        *)
Binds(q) ==
  /\ pa[q.name] # None /\ pa[q.name].uid = q.uid /\ pa[q.name].gen = q.gen
  /\ Resolves(pa[q.name].settings) /\ pa[q.name].settings = q.settings
  /\ q.origin <= now /\ now < q.origin + Dt

(* ForecastMetrics.reserve.                                                *)
Registered == {n \in Names : registry[n] # None}
Admits(n) == registry[n] # None \/ Cardinality(Registered) < MaxRegistered

(* predict, to the history read: the clock is read once for the origin and *)
(* the watermark.                                                          *)
Bind(w) ==
  LET q == req[w]
      bound == [at |-> "read", end |-> Watermark(now), from |-> now, chunk |-> 1, grid |-> {},
                received |-> 0, lead |-> pa[q.name].lead]
  IN /\ q.at = "sent"
     /\ IF ~Binds(q) THEN Answer(w, "IdentityMismatch") /\ UNCHANGED registry
        ELSE IF ~Admits(q.name) THEN Answer(w, "RegistryFull") /\ UNCHANGED registry
        ELSE /\ registry' = [registry EXCEPT ![q.name] = IF @ = None THEN 0 ELSE @]
             /\ IF LeadUsable(pa[q.name].lead, q.gen)
                THEN req' = [req EXCEPT ![w] = bound @@ q]
                ELSE Answer(w, "LeadInsufficient")
     /\ UNCHANGED <<Others, journal, lock>>

(* read_rps_history: one chunk, received now.  A failed exchange or a      *)
(* refused answer ends the read.                                           *)
ReadChunk(w) ==
  LET q == req[w]
      s == Chunk(q.end, q.chunk)
      got == Observed(s)
  IN /\ q.at = "read"
     /\ \/ Answer(w, "DataUnavailable")
        \/ /\ now - q.from <= Deadline
           /\ req' = [req EXCEPT ![w].grid = @ \cup got, ![w].chunk = @ + 1,
                                 ![w].received = IF got = {} THEN @ ELSE now,
                                 ![w].at = IF q.chunk = HistorySlots THEN "fresh" ELSE "read"]
     /\ UNCHANGED <<Others, registry, journal, lock>>

(* is_fresh, then the lock.                                                *)
Enter(w) ==
  /\ req[w].at = "fresh"
  /\ IF ~IsFresh(req[w].grid) THEN Answer(w, "DataUnavailable") /\ UNCHANGED lock
     ELSE /\ lock = None /\ lock' = w
          /\ req' = [req EXCEPT ![w].at = "locked"]
  /\ UNCHANGED <<Others, registry, journal>>

(* _refuse_late.                                                           *)
Late(q) == now + Allowance >= FirstTarget(q.origin)

Found(q) == {b \in journal : b.key = KeyOf(q)}

(* _issue, to the trust checkpoint: what was issued for this key answers a *)
(* retry; a new issuance is built when a forecast family has its history.  *)
Build(w) ==
  LET q == req[w]
  IN /\ q.at = "locked"
     /\ IF Found(q) # {} THEN req' = [req EXCEPT ![w].at = "answer"] /\ UNCHANGED lock
        ELSE \/ Late(q) /\ Answer(w, "LeadInsufficient") /\ lock' = None
             \/ ~Late(q) /\ Answer(w, "HistoryInsufficient") /\ lock' = None
             \/ ~Late(q) /\ req' = [req EXCEPT ![w].at = "commit"] /\ UNCHANGED lock
     /\ UNCHANGED <<Others, registry, journal>>

(* get_or_issue, stamped with the clock read just before it.               *)
Commit(w) ==
  LET q == req[w]
      b == [key |-> KeyOf(q), startup |-> q.lead.startup, end |-> Max(q.grid),
            received |-> q.received, issued |-> now]
  IN /\ q.at = "commit"
     /\ IF Late(q) THEN Answer(w, "LeadInsufficient") /\ lock' = None /\ UNCHANGED journal
        ELSE /\ journal' = journal \cup {b}
             /\ req' = [req EXCEPT ![w].at = "answer"] /\ UNCHANGED lock
     /\ UNCHANGED <<Others, registry>>

(* check_response of the bundle against the bound request.                 *)
Coherent(b, q) ==
  /\ b.end <= q.origin
  /\ b.received <= b.issued /\ q.origin <= b.issued /\ b.issued < FirstTarget(q.origin)
  /\ b.key = KeyOf(q) /\ b.startup = q.lead.startup

(* ForecastMetrics.update: the snapshot is replaced whole.                 *)
Exported(q) == [registry EXCEPT ![q.name] = q.uid]

(* _export, then _response.                                                *)
Respond(w) ==
  LET q == req[w]
      b == CHOOSE b \in Found(q) : TRUE
  IN /\ q.at = "answer"
     /\ registry' = Exported(q)
     /\ IF Coherent(b, q) THEN Answer(w, "answered") ELSE Answer(w, "escaped")
     /\ lock' = None
     /\ UNCHANGED <<Others, journal>>

Tick == now < MaxTime /\ now' = now + 1 /\ UNCHANGED <<arrival, pa, registry, journal, lock, req, edits>>

Next ==
  \/ Tick
  \/ \E n \in Names : Create(n) \/ Update(n) \/ Delete(n) \/ Publish(n)
  \/ \E w \in Workers : \/ \E n \in Names : Send(w, n)
                        \/ Bind(w) \/ ReadChunk(w) \/ Enter(w) \/ Build(w) \/ Commit(w)
                        \/ Respond(w)

Spec == Init /\ [][Next]_vars

----------------------------------------------------------------------------
(* Properties                                                              *)

(* What a completed read says of a slot is final: a slot missing from it   *)
(* never fills later, so two requests never learn different histories      *)
(* (history.py:9-10, the watermark).                                       *)
SlotsFinal ==
  \A w \in Workers : req[w].at \in {"fresh", "locked", "commit", "answer"} =>
    \A k \in 1 .. HistorySlots :
      LET s == Chunk(req[w].end, k) IN s \in req[w].grid <=> arrival[s] # None

(* An answer fails the service's own check only when it was issued under   *)
(* another startup budget at the same lead: never because the clock moved  *)
(* on between binding, reading, building and committing, nor because two   *)
(* requests overlap (contracts.py:630-701, service.py:341-371).            *)
ChecksOwnAnswer ==
  \A w \in Workers : req[w].at = "over" /\ req[w].how = "escaped" =>
    \E b \in Found(req[w]) : b.startup # req[w].lead.startup

(* A retry at an origin that was issued is answered with that bundle       *)
(* (service.py:17-18 and the 503 mapping of lines 154-159).                *)
RetryAnswered == \A w \in Workers : ~(req[w].at = "over" /\ req[w].how = "escaped")

(* The registration limit turns an autoscaler away only while as many      *)
(* existing ones hold the slots (metrics.py:10-15).                        *)
SlotsForTheLiving ==
  \A w \in Workers : req[w].at = "over" /\ req[w].how = "RegistryFull" =>
    Cardinality({n \in Names \ {req[w].name} : pa[n] # None}) >= MaxRegistered
=============================================================================
