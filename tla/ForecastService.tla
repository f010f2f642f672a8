-------------------------- MODULE ForecastService --------------------------
(***************************************************************************)
(* /v2/predict end to end (ml-engine/forecasting/service.py) for one       *)
(* autoscaler and one forecast family: binding, the history read, the      *)
(* maturation of settled windows, recovery, the checkpointed decision, the *)
(* issuance and the answer.                                                *)
(*                                                                         *)
(* Requests run on threads.  Binding and the history read happen before    *)
(* the service's lock, everything else under it; each journal transaction  *)
(* is one step, so a crash may come between any two.  The clock moves at   *)
(* any time.  A checkpointed state is how often it has folded in each      *)
(* issuance and each outcome.  The journal's own rules are ForecastStore's *)
(* and are restated here only as far as a request depends on them.         *)
(***************************************************************************)
EXTENDS Integers, FiniteSets, FiniteSetsExt

CONSTANTS Requests,            \* threads that serve requests
          Interval,            \* sample_interval_seconds
          Lead,                \* lead_seconds, a multiple of the interval
          Settlement, Grace,   \* settlement_seconds, outcome_grace_seconds
          Allowance,           \* actuation_allowance_seconds
          Retention,           \* retention_seconds
          CompactEvery,        \* compact_every_seconds
          Settings,            \* settings fingerprints of the same evidence key
          MaxTime, MaxCrashes, MaxEdits, \* bounds of the model
          None

ASSUME ServiceConstants ==
  /\ Interval \in Nat \ {0} /\ Lead \in Nat \ {0} /\ Lead % Interval = 0
  /\ Settlement \in Nat /\ Grace \in Nat /\ Allowance \in Nat /\ Retention \in Nat
  /\ CompactEvery \in Nat /\ MaxTime \in Nat /\ MaxCrashes \in Nat /\ MaxEdits \in Nat
  /\ Settings # {}
  /\ None \notin Requests \cup Nat \cup (Nat \X Settings)
  /\ None \notin [seq : Nat, status : {"scored", "unscorable"}]

VARIABLES now,
          settings,    \* the autoscaler's current settings fingerprint
          visible,     \* grid points the metric store answers with
          obs,         \* grid point -> its first committed receipt, or None
          iss,         \* key -> the seq of its committed issuance, or None
          out,         \* key -> its outcome [seq, status], or None
          checkpoint,  \* the latest checkpoint
          horizon,     \* the journal's retention horizon
          issSeq, outSeq,
          compacted,   \* _compacted_s
          lock,        \* the request holding the service's lock, or None
          held,        \* the state that request has in memory
          req,         \* per thread: where its request is
          crashes,
          edits,       \* edits so far
          issued,      \* history: keys ever issued
          closed       \* history: keys ever given an outcome

journal == <<obs, iss, out, checkpoint, horizon, issSeq, outSeq>>
world == <<settings, edits, visible>>
ghosts == <<issued, closed>>
vars == <<now, world, journal, compacted, lock, held, req, crashes, ghosts>>

OnGrid(t) == t % Interval = 0
Points == {t \in 0 .. MaxTime : OnGrid(t)}
WindowKeys == Points \X Settings
WindowEnd(k) == k[1] + Lead
Targets(k) == {t \in k[1] + 1 .. WindowEnd(k) : OnGrid(t)}
Deadline(k) == WindowEnd(k) + Settlement + Grace

Unfolded == [lastIss |-> 0, lastOut |-> 0, iss |-> [k \in WindowKeys |-> 0], out |-> [k \in WindowKeys |-> 0]]
Idle == [pc |-> "idle", bound |-> 0, key |-> None, got |-> {}, receipt |-> 0, at |-> 0]

Steps == {"idle", "read", "lock", "mature", "recover", "decide", "commit", "fold", "answer"}
State == [lastIss : Nat, lastOut : Nat, iss : [WindowKeys -> Nat], out : [WindowKeys -> Nat]]

TypeOK ==
  /\ now \in 0 .. MaxTime /\ settings \in Settings /\ visible \subseteq Points
  /\ obs \in [Points -> 0 .. MaxTime \cup {None}]
  /\ iss \in [WindowKeys -> 1 .. issSeq \cup {None}]
  /\ out \in [WindowKeys -> [seq : 1 .. outSeq, status : {"scored", "unscorable"}] \cup {None}]
  /\ checkpoint \in State /\ held \in State
  /\ horizon \in Nat /\ issSeq \in Nat /\ outSeq \in Nat /\ crashes \in 0 .. MaxCrashes /\ edits \in 0 .. MaxEdits
  /\ compacted \in 0 .. MaxTime \cup {None}
  /\ lock \in Requests \cup {None}
  /\ req \in [Requests -> [pc : Steps, bound : 0 .. MaxTime, key : WindowKeys \cup {None},
                           got : SUBSET Points,
                           receipt : 0 .. MaxTime, at : 0 .. MaxTime]]
  /\ \A r \in Requests : req[r].pc \notin {"idle", "read", "lock"} <=> lock = r
  /\ issued \subseteq WindowKeys /\ closed \subseteq WindowKeys

Init ==
  /\ now = 0 /\ settings = (CHOOSE s \in Settings : TRUE) /\ visible = {}
  /\ obs = [p \in Points |-> None]
  /\ iss = [k \in WindowKeys |-> None] /\ out = [k \in WindowKeys |-> None]
  /\ checkpoint = Unfolded /\ held = Unfolded
  /\ horizon = 0 /\ issSeq = 0 /\ outSeq = 0 /\ crashes = 0 /\ edits = 0
  /\ compacted = None
  /\ lock = None /\ req = [r \in Requests |-> Idle]
  /\ issued = {} /\ closed = {}

Goto(r, pc) == req' = [req EXCEPT ![r].pc = pc]

(* The request ends and lets the lock go.                                  *)
End(r) == req' = [req EXCEPT ![r] = Idle] /\ lock' = None /\ held' = Unfolded

----------------------------------------------------------------------------
(* Before the lock                                                         *)

(* bind_request: the current grid origin, under the live settings and the  *)
(* lead of the autoscaler's status.                                        *)
Bind(r) ==
  /\ req[r].pc = "idle"
  /\ LET key == <<(now \div Interval) * Interval, settings>> IN
     req' = [req EXCEPT ![r] = [Idle EXCEPT !.pc = "read", !.bound = now, !.key = key]]
  /\ UNCHANGED <<now, world, journal, compacted, lock, held, crashes, ghosts>>

(* watermark at the time the request was bound.                            *)
Watermark(r) == ((req[r].bound - Settlement) \div Interval) * Interval

(* RpsGrid.is_fresh.                                                       *)
Fresh(got) == got # {} /\ now - Max(got) <= Settlement + 2 * Interval

(* read_rps_history and the freshness check: 422 or 503 otherwise.         *)
Read(r) ==
  LET got == {p \in visible : p <= Watermark(r)} IN
  /\ req[r].pc = "read"
  /\ \/ /\ Fresh(got)
        /\ req' = [req EXCEPT ![r] = [@ EXCEPT !.pc = "lock", !.got = got, !.receipt = now]]
     \/ /\ ~Fresh(got)
        /\ req' = [req EXCEPT ![r] = Idle]
  /\ UNCHANGED <<now, world, journal, compacted, lock, held, crashes, ghosts>>

----------------------------------------------------------------------------
(* Under the lock                                                          *)

(* record_observations: the first receipt of a point is kept.              *)
Receipt(p, at) == IF obs[p] = None THEN at ELSE obs[p]

(* The lock is taken, the time read again and the history recorded.        *)
Enter(r) ==
  /\ req[r].pc = "lock"
  /\ lock = None
  /\ lock' = r
  /\ req' = [req EXCEPT ![r] = [@ EXCEPT !.pc = "mature", !.at = now]]
  /\ obs' = [p \in Points |-> IF p \in req[r].got THEN Receipt(p, req[r].receipt) ELSE obs[p]]
  /\ UNCHANGED <<now, world, iss, out, checkpoint, horizon, issSeq, outSeq, compacted, held, crashes, ghosts>>

Earlier(a, b) == IF a < b THEN a ELSE b

(* window_outcome: nothing received after the deadline or after now.       *)
Cutoff(r, k) == Earlier(req[r].at, Deadline(k))

(* window_outcome over the observations of the request's grid.             *)
Missing(r, k) ==
  {t \in Targets(k) : t > Watermark(r) \/ obs[t] = None \/ (obs[t] # None /\ obs[t] > Cutoff(r, k))}

(* Mutant: a window with missing values stays open.                        *)
ClosableScored(r) ==
  {k \in WindowKeys : /\ iss[k] # None /\ out[k] = None
                      /\ WindowEnd(k) <= req[r].at - Settlement
                      /\ Missing(r, k) = {}}

(* open_issuances, those window_outcome has a verdict for.                 *)
Closable(r) ==
  {k \in WindowKeys : /\ iss[k] # None /\ out[k] = None
                      /\ WindowEnd(k) <= req[r].at - Settlement
                      /\ Missing(r, k) = {} \/ req[r].at >= Deadline(k)}

(* commit_outcome of one closable window, the earliest first, until there  *)
(* is none.                                                                *)
Mature(r) ==
  /\ req[r].pc = "mature"
  /\ \/ /\ Closable(r) = {}
        /\ Goto(r, "recover")
        /\ UNCHANGED <<out, outSeq, closed>>
     \/ \E k \in Closable(r) :
          /\ \A j \in Closable(r) : WindowEnd(k) <= WindowEnd(j)
          /\ outSeq' = outSeq + 1
          /\ out' = [out EXCEPT ![k] = [seq |-> outSeq + 1,
                                        status |-> IF Missing(r, k) = {} THEN "scored" ELSE "unscorable"]]
          /\ closed' = closed \cup {k}
          /\ UNCHANGED req
  /\ UNCHANGED <<now, world, obs, iss, checkpoint, horizon, issSeq, compacted, lock, held, crashes, issued>>

(* issuances_after, outcomes_after.                                        *)
NewIssuances(s) == {k \in WindowKeys : iss[k] # None /\ iss[k] > s.lastIss}
NewOutcomes(s) == {k \in WindowKeys : out[k] # None /\ out[k].seq > s.lastOut}

(* Mutant: folding in issuances leaves their cursor behind.                *)
FoldedUnmarked(s) ==
  [lastIss |-> s.lastIss,
   lastOut |-> Max({s.lastOut} \cup {out[k].seq : k \in NewOutcomes(s)}),
   iss |-> [k \in WindowKeys |-> s.iss[k] + IF k \in NewIssuances(s) THEN 1 ELSE 0],
   out |-> [k \in WindowKeys |-> s.out[k] + IF k \in NewOutcomes(s) THEN 1 ELSE 0]]

(* _recover: every later issuance, then every later outcome.               *)
Folded(s) ==
  [lastIss |-> Max({s.lastIss} \cup {iss[k] : k \in NewIssuances(s)}),
   lastOut |-> Max({s.lastOut} \cup {out[k].seq : k \in NewOutcomes(s)}),
   iss |-> [k \in WindowKeys |-> s.iss[k] + IF k \in NewIssuances(s) THEN 1 ELSE 0],
   out |-> [k \in WindowKeys |-> s.out[k] + IF k \in NewOutcomes(s) THEN 1 ELSE 0]]

Recover(r) ==
  /\ req[r].pc = "recover"
  /\ held' = Folded(checkpoint)
  /\ Goto(r, "decide")
  /\ UNCHANGED <<now, world, journal, compacted, lock, crashes, ghosts>>

(* _refuse_late.                                                           *)
Late(k, t) == t + Allowance >= Min(Targets(k))

(* checkpoint() of the evaluated trust.                                    *)
Checkpointed(s) == s

(* A committed issuance is answered as it is.  Otherwise trust is          *)
(* evaluated and checkpointed before anything is issued; too late, or no   *)
(* family with enough history, ends the request.                           *)
Decide(r) ==
  LET k == req[r].key IN
  /\ req[r].pc = "decide"
  /\ \/ /\ iss[k] # None
        /\ Goto(r, "fold")
        /\ UNCHANGED <<checkpoint, lock, held>>
     \/ /\ iss[k] = None /\ ~Late(k, req[r].at)
        /\ checkpoint' = Checkpointed(held)
        /\ Goto(r, "commit")
        /\ UNCHANGED <<lock, held>>
     \/ /\ iss[k] = None
        /\ End(r)
        /\ UNCHANGED checkpoint
  /\ UNCHANGED <<now, world, obs, iss, out, horizon, issSeq, outSeq, compacted, crashes, ghosts>>

(* Mutant: the issuance carries the time of the decision.                  *)
MayIssueBackdated(r) == ~Late(req[r].key, req[r].at)

(* The clock read just before the commit decides once more.                *)
MayIssue(r) == ~Late(req[r].key, now)

(* get_or_issue of the bundle.                                             *)
Commit(r) ==
  LET k == req[r].key IN
  /\ req[r].pc = "commit"
  /\ \/ /\ MayIssue(r)
        /\ issSeq' = issSeq + 1
        /\ iss' = [iss EXCEPT ![k] = issSeq + 1]
        /\ issued' = issued \cup {k}
        /\ Goto(r, "fold")
        /\ UNCHANGED <<lock, held>>
     \/ /\ ~MayIssue(r)
        /\ End(r)
        /\ UNCHANGED <<issSeq, iss, issued>>
  /\ UNCHANGED <<now, world, obs, out, checkpoint, horizon, outSeq, compacted, crashes, closed>>

(* Recovery again from the state in memory, and the second checkpoint.     *)
FoldAgain(r) ==
  /\ req[r].pc = "fold"
  /\ held' = Folded(held)
  /\ checkpoint' = held'
  /\ Goto(r, "answer")
  /\ UNCHANGED <<now, world, obs, iss, out, horizon, issSeq, outSeq, compacted, lock, crashes, ghosts>>

CompactionDue(r) == compacted = None \/ (compacted # None /\ req[r].at - compacted >= CompactEvery)

(* compact: closed windows below the horizon that the checkpoint covers.   *)
Removable(k, h) ==
  /\ iss[k] # None /\ WindowEnd(k) < h
  /\ out[k] # None /\ out[k].seq <= checkpoint.lastOut

(* compact, then the answer from the bundle, which changes nothing.        *)
Answer(r) ==
  LET h == req[r].at - Retention
      gone(k) == CompactionDue(r) /\ h > horizon /\ Removable(k, h)
  IN /\ req[r].pc = "answer"
     /\ horizon' = IF CompactionDue(r) THEN Max({horizon, h}) ELSE horizon
     /\ iss' = [j \in WindowKeys |-> IF gone(j) THEN None ELSE iss[j]]
     /\ out' = [j \in WindowKeys |-> IF gone(j) THEN None ELSE out[j]]
     /\ compacted' = IF CompactionDue(r) THEN req[r].at ELSE compacted
     /\ End(r)
     /\ UNCHANGED <<now, world, obs, checkpoint, issSeq, outSeq, crashes, issued, closed>>

----------------------------------------------------------------------------
(* The process dies and starts again: the journal is what is left.         *)
Crash ==
  /\ crashes < MaxCrashes
  /\ crashes' = crashes + 1
  /\ req' = [r \in Requests |-> Idle]
  /\ lock' = None /\ held' = Unfolded /\ compacted' = None
  /\ UNCHANGED <<now, world, journal, ghosts>>

(* A grid point becomes readable, at any time after it.                    *)
Scrape(p) ==
  /\ p <= now /\ p \notin visible
  /\ visible' = visible \cup {p}
  /\ UNCHANGED <<now, settings, edits, journal, compacted, lock, held, req, crashes, ghosts>>

(* The user edits trust thresholds or caps, which keep the evidence key.   *)
Edit(s) ==
  /\ edits < MaxEdits
  /\ edits' = edits + 1
  /\ settings' = s /\ s # settings
  /\ UNCHANGED <<now, visible, journal, compacted, lock, held, req, crashes, ghosts>>

Tick ==
  /\ now < MaxTime
  /\ now' = now + 1
  /\ UNCHANGED <<world, journal, compacted, lock, held, req, crashes, ghosts>>

Serve(r) ==
  \/ Bind(r) \/ Read(r) \/ Enter(r) \/ Mature(r) \/ Recover(r)
  \/ Decide(r) \/ Commit(r) \/ FoldAgain(r) \/ Answer(r)

Next ==
  \/ \E r \in Requests : Serve(r)
  \/ \E p \in Points : Scrape(p)
  \/ \E s \in Settings : Edit(s)
  \/ Crash \/ Tick

Spec == Init /\ [][Next]_vars

(* The operator asks again every interval, requests end, the metric store  *)
(* catches up and time passes.                                             *)
FairSpec ==
  /\ Spec
  /\ WF_vars(Tick)
  /\ \A p \in Points : WF_vars(Scrape(p))
  /\ \A r \in Requests : WF_vars(Serve(r))

----------------------------------------------------------------------------
(* Properties                                                              *)

(* Recovery is exact at every boundary (service.py:21-22, 221-222): the    *)
(* latest checkpoint and what the journal holds after it make up every     *)
(* issuance and every outcome ever committed, each once, wherever a crash  *)
(* or a compaction came.                                                   *)
EachFoldedOnce ==
  \A k \in WindowKeys :
    /\ checkpoint.iss[k] + (IF k \in NewIssuances(checkpoint) THEN 1 ELSE 0) = IF k \in issued THEN 1 ELSE 0
    /\ checkpoint.out[k] + (IF k \in NewOutcomes(checkpoint) THEN 1 ELSE 0) = IF k \in closed THEN 1 ELSE 0

(* A window is scored only from values received by its fixed deadline,     *)
(* however late it is looked at (maturation.py:3-7).                       *)
ScoredInTime ==
  \A k \in WindowKeys : out[k] # None /\ out[k].status = "scored" =>
    \A t \in Targets(k) : obs[t] # None /\ obs[t] <= Deadline(k)

(* Nothing is issued that could no longer act before its first target,     *)
(* whatever happened since the request was bound (service.py:16-18).       *)
IssuedInTime ==
  \A k \in WindowKeys : iss[k] = None /\ iss'[k] # None => now + Allowance < Min(Targets(k))

(* The trust decision an issuance carries was checkpointed before it: the  *)
(* checkpoint covers every record committed before the issuance            *)
(* (service.py:13-14).                                                     *)
DecidedFromCheckpoint ==
  \A k \in WindowKeys : iss[k] = None /\ iss'[k] # None =>
    NewIssuances(checkpoint) = {} /\ NewOutcomes(checkpoint) = {}

(* A window is issued before its first target, and from a state into which *)
(* everything committed so far was folded (service.py:180-240).            *)
IssuedFromAll == [][IssuedInTime /\ DecidedFromCheckpoint]_vars

(* Every issued window gets its terminal outcome, scored or not, although  *)
(* requests fail, wait and are lost (service.py:9).                        *)
EveryWindowCloses ==
  \A k \in WindowKeys : Deadline(k) <= MaxTime => (k \in issued ~> k \in closed)

(* Every issued window gets its terminal outcome although requests fail,   *)
(* wait and are lost, and a scored one was observed before its deadline    *)
(* (service.py:9, 221-222).                                                *)
EveryWindowClosesInTime == EveryWindowCloses /\ []ScoredInTime
============================================================================
