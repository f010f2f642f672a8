-------------------------------- MODULE Gate --------------------------------
(***************************************************************************)
(* What a request passes before and while it is served: authentication     *)
(* with its cache of token reviews (api/auth.py), the two bounded          *)
(* admissions (_Admission in api/auth.py; api/admission.py and             *)
(* _run_admitted in api/main.py), the inference slots of the LSTM service  *)
(* and the start and stop of the statistical service (api/statistical.py). *)
(*                                                                         *)
(* A request is a coroutine of the event loop and up to two futures run by *)
(* pool threads, its review and its work.  The coroutine can be cancelled  *)
(* at any await; a running future cannot.  A token stands for its subject. *)
(***************************************************************************)
EXTENDS Integers, Sequences, FiniteSets

CONSTANTS Requests, Tokens,
          Subjects,        \* path -> tokens whose subject may use it
          Expiry,          \* token -> its exp claim, 0 for none usable
          Slots,           \* "review", "work", "infer" -> slots
          CacheTtl, Deadline, MaxEntries,   \* CACHE_TTL_S, REVIEW_DEADLINE_S, max_entries
          MaxTime          \* bound of the model

VARIABLES lstm,      \* the LSTM service (api/main.py), not the statistical one
          service,   \* lifespan: starting, up, stopping, closed
          req,       \* request -> coroutine and futures
          free,      \* "review", "work", "infer" -> free slots
          cache,     \* remembered reviews, least recently used first
          revoked,   \* tokens the API server no longer authenticates
          now

vars == <<lstm, service, req, free, cache, revoked, now>>

Paths == DOMAIN Subjects
NoReq == [co |-> "idle", tok |-> CHOOSE k \in Tokens : TRUE, path |-> CHOOSE p \in Paths : TRUE,
          review |-> "none", work |-> "none", sent |-> 0, ok |-> 0, result |-> "none", at |-> 0]

Init ==
  /\ lstm \in BOOLEAN
  /\ service = IF lstm THEN "up" ELSE "starting"
  /\ req = [r \in Requests |-> NoReq]
  /\ free = Slots /\ cache = <<>> /\ revoked = {} /\ now = 0

LoopRuns == service # "stopping"
Becomes(r, q) == req' = [req EXCEPT ![r] = q]
Take(k) == free[k] > 0 /\ free' = [free EXCEPT ![k] = @ - 1]
Release(k) == free' = [free EXCEPT ![k] = @ + 1]

----------------------------------------------------------------------------
(* The coroutine                                                           *)

(* AuthMiddleware.__call__ for a path that needs a token and carries one.  *)
Arrive(r, k, p) ==
  /\ LoopRuns /\ req[r].co = "idle"
  /\ Becomes(r, [NoReq EXCEPT !.co = "waiting", !.tok = k, !.path = p])
  /\ UNCHANGED <<lstm, service, free, cache, revoked, now>>

(* _Admission.run: a slot within wait_s, or the request is refused.        *)
SubmitReview(r) ==
  /\ LoopRuns /\ req[r].co = "waiting"
  /\ \/ Take("review") /\ Becomes(r, [req[r] EXCEPT !.co = "review", !.review = "queued"])
     \/ free["review"] = 0 /\ Becomes(r, [req[r] EXCEPT !.co = "end"]) /\ UNCHANGED free
  /\ UNCHANGED <<lstm, service, cache, revoked, now>>

(* The review's outcome: 401, 403 and 503 end the request.                 *)
Reviewed(r) ==
  /\ LoopRuns /\ req[r].co = "review" /\ req[r].review = "done"
  /\ Becomes(r, [NoReq EXCEPT !.co = IF req[r].result = "ok" THEN "body" ELSE "end"])
  /\ UNCHANGED <<lstm, service, free, cache, revoked, now>>

(* The body arrives within its cap: the work is submitted when a slot is   *)
(* free and, in the statistical service, the service has started.          *)
SubmitWork(r) ==
  /\ LoopRuns /\ req[r].co = "body"
  /\ \/ /\ service = "up" /\ Take("work")
        /\ Becomes(r, [req[r] EXCEPT !.co = "work", !.work = "queued"])
     \/ /\ service # "up" \/ free["work"] = 0
        /\ Becomes(r, [req[r] EXCEPT !.co = "end"]) /\ UNCHANGED free
  /\ UNCHANGED <<lstm, service, cache, revoked, now>>

Worked(r) ==
  /\ LoopRuns /\ req[r].co = "work" /\ req[r].work = "done"
  /\ Becomes(r, [req[r] EXCEPT !.co = "end"])
  /\ UNCHANGED <<lstm, service, free, cache, revoked, now>>

Ended(r) ==
  /\ req[r].co = "end" /\ req[r].review \in {"none", "done"} /\ req[r].work \in {"none", "done"}
  /\ Becomes(r, NoReq)
  /\ UNCHANGED <<lstm, service, free, cache, revoked, now>>

Queued(r, k) == IF req[r][k] = "queued" THEN 1 ELSE 0

(* Mutant: the coroutine gives its slots back when it is cancelled.        *)
CancelReleases(r) ==
  [free EXCEPT !["review"] = @ + IF req[r].review \notin {"none", "done"} THEN 1 ELSE 0,
               !["work"] = @ + IF req[r].work \notin {"none", "done"} THEN 1 ELSE 0]

(* Cancelling the awaited future stops it only before it has started.      *)
FreedByCancel(r) == [free EXCEPT !["review"] = @ + Queued(r, "review"), !["work"] = @ + Queued(r, "work")]

Dropped(state) == IF state = "queued" THEN "done" ELSE state

(* The client goes away or the server cancels the request.                 *)
Cancel(r) ==
  /\ LoopRuns /\ req[r].co \in {"waiting", "review", "body", "work"}
  /\ free' = FreedByCancel(r)
  /\ Becomes(r, [req[r] EXCEPT !.co = "end", !.review = Dropped(@), !.work = Dropped(@)])
  /\ UNCHANGED <<lstm, service, cache, revoked, now>>

----------------------------------------------------------------------------
(* A review thread (TokenReviewer)                                         *)

Entries(k) == {i \in DOMAIN cache : cache[i].tok = k}
Without(k) == SelectSeq(cache, LAMBDA e : e.tok # k)

(* The review ends; its callback frees the slot (Release).                 *)
Outcome(r, ok) ==
  [req[r] EXCEPT !.review = "done", !.sent = 0, !.ok = ok, !.at = now,
                 !.result = IF req[r].tok \in Subjects[req[r].path] THEN "ok" ELSE "forbidden"]

Fresh(e) == now < e.until

(* review: a hit of the cache that has not expired, else the API server.   *)
LookUp(r) ==
  /\ req[r].review = "queued"
  /\ LET hits == {i \in Entries(req[r].tok) : Fresh(cache[i])}
     IN \/ \E i \in hits : /\ Becomes(r, Outcome(r, cache[i].ok)) /\ Release("review")
                           /\ cache' = Append(Without(req[r].tok), cache[i])
        \/ /\ hits = {}
           /\ cache' = Without(req[r].tok)
           /\ Becomes(r, [req[r] EXCEPT !.review = "sent", !.sent = now])
           /\ UNCHANGED free
  /\ UNCHANGED <<lstm, service, revoked, now>>

(* The API server decides, at some moment of the exchange.                 *)
Authenticated(r) == req[r].tok \notin revoked /\ (Expiry[req[r].tok] = 0 \/ now < Expiry[req[r].tok])

Decide(r) ==
  /\ req[r].review = "sent"
  /\ Becomes(r, [req[r] EXCEPT !.review = "answered", !.ok = now,
                               !.result = IF Authenticated(r) THEN "ok" ELSE "unauthenticated"])
  /\ UNCHANGED <<lstm, service, free, cache, revoked, now>>

Smaller(a, b) == IF a < b THEN a ELSE b

(* _remember: at most CACHE_TTL_S, never past the token's expiry; the      *)
(* least recently used entry is dropped.                                   *)
Remembered(r) ==
  LET k == req[r].tok
      ttl == Smaller(CacheTtl, Expiry[k] - now)
      c == Append(Without(k), [tok |-> k, until |-> now + ttl, ok |-> req[r].ok])
  IN IF Expiry[k] = 0 \/ ttl <= 0 THEN cache
     ELSE IF Len(c) > MaxEntries THEN Tail(c) ELSE c

(* The answer arrives in time and only a caller allowed here is cached, or *)
(* the exchange has failed (AuthUnavailable).                              *)
Answer(r) ==
  /\ req[r].review = "answered" /\ now - req[r].sent <= Deadline
  /\ Release("review")
  /\ \/ /\ req[r].result = "ok"
        /\ Becomes(r, Outcome(r, req[r].ok))
        /\ cache' = IF req[r].tok \in Subjects[req[r].path] THEN Remembered(r) ELSE cache
     \/ /\ req[r].result # "ok"
        /\ Becomes(r, [req[r] EXCEPT !.review = "done", !.sent = 0, !.ok = 0]) /\ UNCHANGED cache
  /\ UNCHANGED <<lstm, service, revoked, now>>

ReviewFails(r) ==
  /\ req[r].review \in {"sent", "answered"}
  /\ Release("review")
  /\ Becomes(r, [req[r] EXCEPT !.review = "done", !.sent = 0, !.ok = 0, !.result = "unavailable"])
  /\ UNCHANGED <<lstm, service, cache, revoked, now>>

----------------------------------------------------------------------------
(* A work thread (_serve_forecast, ForecastService.predict)                *)

WorkGoes(r, state) == Becomes(r, [req[r] EXCEPT !.work = state])

StartWork(r) ==
  /\ req[r].work = "queued" /\ WorkGoes(r, "reading")
  /\ UNCHANGED <<lstm, service, free, cache, revoked, now>>

(* The LSTM service waits for an inference slot, and refuses after         *)
(* INFERENCE_WAIT_S.  Its work may also fail before.                       *)
Infer(r) ==
  /\ lstm /\ req[r].work = "reading"
  /\ Take("infer") /\ WorkGoes(r, "inferring")
  /\ UNCHANGED <<lstm, service, cache, revoked, now>>

Freed(r) == IF req[r].work = "inferring" THEN {"work", "infer"} ELSE {"work"}

WorkEnds(r) ==
  /\ req[r].work \in {"reading", "inferring"}
  /\ WorkGoes(r, "done")
  /\ free' = [k \in DOMAIN free |-> free[k] + IF k \in Freed(r) THEN 1 ELSE 0]
  /\ UNCHANGED <<lstm, service, cache, revoked, now>>

----------------------------------------------------------------------------
(* lifespan of the statistical service                                     *)

Running == {r \in Requests : req[r].work \in {"reading", "inferring"}}

StartService ==
  /\ service = "starting" /\ service' = "up"
  /\ UNCHANGED <<lstm, req, free, cache, revoked, now>>

(* The holder is emptied and Admission.shutdown cancels what is queued;    *)
(* the event loop waits for what runs.                                     *)
StopService ==
  /\ ~lstm /\ service = "up" /\ service' = "stopping"
  /\ req' = [r \in Requests |-> [req[r] EXCEPT !.work = Dropped(@)]]
  /\ free' = [free EXCEPT !["work"] = @ + Cardinality({r \in Requests : req[r].work = "queued"})]
  /\ UNCHANGED <<lstm, cache, revoked, now>>

ShutdownReturns == Running = {}

(* svc.close().                                                            *)
CloseService ==
  /\ service = "stopping" /\ ShutdownReturns /\ service' = "closed"
  /\ UNCHANGED <<lstm, req, free, cache, revoked, now>>

Revoke(k) ==
  /\ k \notin revoked /\ revoked' = revoked \cup {k}
  /\ UNCHANGED <<lstm, service, req, free, cache, now>>

Tick ==
  /\ now < MaxTime /\ now' = now + 1
  /\ UNCHANGED <<lstm, service, req, free, cache, revoked>>

Coroutine(r) ==
  \/ \E k \in Tokens, p \in Paths : Arrive(r, k, p)
  \/ SubmitReview(r) \/ Reviewed(r) \/ SubmitWork(r) \/ Worked(r) \/ Ended(r) \/ Cancel(r)

Threads(r) ==
  \/ LookUp(r) \/ Decide(r) \/ Answer(r) \/ ReviewFails(r)
  \/ StartWork(r) \/ Infer(r) \/ WorkEnds(r)

Next ==
  \/ \E r \in Requests : Coroutine(r) \/ Threads(r)
  \/ StartService \/ StopService \/ CloseService
  \/ \E k \in Tokens : Revoke(k)
  \/ Tick

Spec == Init /\ [][Next]_vars

----------------------------------------------------------------------------
(* Properties                                                              *)

Holds(r, k) ==
  CASE k = "review" -> req[r].review \in {"queued", "sent", "answered"}
    [] k = "work" -> req[r].work \in {"queued", "reading", "inferring"}
    [] k = "infer" -> req[r].work = "inferring"

(* Every slot is held by exactly one unfinished future or is free: a       *)
(* cancelled, failed or refused request neither leaks a slot nor frees one *)
(* whose thread still runs (admission.py:28-38, auth.py:246-258,           *)
(* main.py:845-872).                                                       *)
SlotsExact == \A k \in DOMAIN Slots : free[k] + Cardinality({r \in Requests : Holds(r, k)}) = Slots[k]

(* A request goes on only with a subject allowed on its own path, that the *)
(* API server authenticated at most CACHE_TTL_S and one exchange ago, and  *)
(* never with a token past its expiry by more than that exchange           *)
(* (auth.py:147-182).                                                      *)
AdmittedFresh ==
  \A r \in Requests : req[r].result = "ok" /\ req[r].review = "done" =>
    /\ req[r].tok \in Subjects[req[r].path]
    /\ req[r].at - req[r].ok <= CacheTtl + Deadline
    /\ Expiry[req[r].tok] # 0 => req[r].at < Expiry[req[r].tok] + Deadline

(* The service is closed only when no work of an accepted request runs on  *)
(* it, and none starts afterwards (statistical.py:70-79).                  *)
NoWorkAfterClose == service = "closed" => Running = {}
============================================================================
