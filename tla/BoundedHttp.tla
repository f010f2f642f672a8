---------------------------- MODULE BoundedHttp -----------------------------
(***************************************************************************)
(* One bounded exchange of the forecasting service with another server     *)
(* (ml-engine/data/bounded_http.py): the calling thread, the watchdog      *)
(* timer that shuts its connection at the deadline, and the name lookups   *)
(* that outlive their callers.                                             *)
(*                                                                         *)
(* A connection is the number of the address it was opened to; its socket, *)
(* the TLS wrapper and the duplicate descriptor act on the same connection *)
(* and are separate descriptors.  The other side may answer, stay silent   *)
(* or send for ever.                                                       *)
(***************************************************************************)
EXTENDS Integers, FiniteSets

CONSTANTS Callers, ResolverSlots, Addresses   \* addresses a name resolves to

VARIABLES pc,       \* caller -> its step
          addr,     \* caller -> the address being tried
          late,     \* caller -> the deadline has passed
          expired,  \* caller -> kill has set the event
          timer,    \* caller -> armed, killing, done or cancelled
          victim,   \* caller -> the connection kill took from live, 0 for none
          live,     \* caller -> the connection the watchdog knows, 0 for none
          open,     \* caller -> open descriptors, "sock" and "dup"
          shut,     \* caller -> connections that were shut down
          result,   \* caller -> "none", "ok" or the failure
          lookups   \* lookups running, one permit each

vars == <<pc, addr, late, expired, timer, victim, live, open, shut, result, lookups>>
call == <<pc, addr, live, open, result, lookups>>
watch == <<late, expired, timer, victim, shut>>

Init ==
  /\ pc = [c \in Callers |-> "idle"] /\ addr = [c \in Callers |-> 0]
  /\ late = [c \in Callers |-> FALSE] /\ expired = [c \in Callers |-> FALSE]
  /\ timer = [c \in Callers |-> "off"] /\ victim = [c \in Callers |-> 0]
  /\ live = [c \in Callers |-> 0] /\ open = [c \in Callers |-> {}] /\ shut = [c \in Callers |-> {}]
  /\ result = [c \in Callers |-> "none"] /\ lookups = 0

Goes(c, p) == pc' = [pc EXCEPT ![c] = p]

(* An exception: the finally clause comes next.                            *)
Raise(c, why) == Goes(c, "finally") /\ result' = [result EXCEPT ![c] = why]

(* OSError or HTTPException: the deadline's fault or the transport's.      *)
Failure(c) == IF expired[c] \/ late[c] THEN "deadline" ELSE "transport"

----------------------------------------------------------------------------
(* The watchdog                                                            *)

DeadlinePasses(c) ==
  /\ pc[c] \notin {"idle", "done"} /\ ~late[c]
  /\ late' = [late EXCEPT ![c] = TRUE]
  /\ UNCHANGED <<call, expired, timer, victim, shut>>

(* kill under the lock.                                                    *)
KillTakes(c) ==
  /\ timer[c] = "armed" /\ late[c]
  /\ timer' = [timer EXCEPT ![c] = "killing"]
  /\ expired' = [expired EXCEPT ![c] = TRUE]
  /\ victim' = [victim EXCEPT ![c] = live[c]]
  /\ UNCHANGED <<call, late, shut>>

(* Mutant: kill closes its descriptor, which wakes nobody.                 *)
KillCloses(c) ==
  /\ timer[c] = "killing"
  /\ timer' = [timer EXCEPT ![c] = "done"]
  /\ UNCHANGED <<call, late, expired, victim, shut>>

(* kill after the lock: shutdown acts on the connection, whichever         *)
(* descriptor it was called on.                                            *)
KillShuts(c) ==
  /\ timer[c] = "killing"
  /\ timer' = [timer EXCEPT ![c] = "done"]
  /\ shut' = [shut EXCEPT ![c] = @ \cup ({victim[c]} \ {0})]
  /\ UNCHANGED <<call, late, expired, victim>>

----------------------------------------------------------------------------
(* The calling thread                                                      *)

Start(c) ==
  /\ pc[c] = "idle" /\ Goes(c, "resolve")
  /\ timer' = [timer EXCEPT ![c] = "armed"]
  /\ UNCHANGED <<addr, live, open, result, lookups, late, expired, victim, shut>>

(* _resolve: a permit is held until the lookup itself ends.                *)
Lookup(c) ==
  /\ pc[c] = "resolve"
  /\ \/ /\ lookups < ResolverSlots /\ ~late[c]
        /\ lookups' = lookups + 1 /\ Goes(c, "lookup") /\ UNCHANGED result
     \/ /\ lookups = ResolverSlots \/ late[c]
        /\ Raise(c, IF late[c] THEN "deadline" ELSE "transport") /\ UNCHANGED lookups
  /\ UNCHANGED <<addr, live, open, watch>>

(* The lookup ends and is delivered, or its caller has given up on it.     *)
LookupEnds(c) ==
  /\ pc[c] = "lookup" /\ lookups' = lookups - 1
  /\ \/ Goes(c, "socket") /\ addr' = [addr EXCEPT ![c] = 1] /\ UNCHANGED result
     \/ Raise(c, "transport") /\ UNCHANGED addr
  /\ UNCHANGED <<live, open, watch>>

Abandon(c) ==
  /\ pc[c] = "lookup" /\ late[c] /\ Raise(c, "deadline")
  /\ UNCHANGED <<addr, live, open, lookups, watch>>

Waiting == Cardinality({c \in Callers : pc[c] = "lookup"})

AbandonedEnds ==
  /\ lookups > Waiting /\ lookups' = lookups - 1
  /\ UNCHANGED <<pc, addr, live, open, result, watch>>

(* A candidate socket is made known to the watchdog.                       *)
OpenSocket(c) ==
  /\ pc[c] = "socket"
  /\ \/ /\ addr[c] <= Addresses
        /\ open' = [open EXCEPT ![c] = @ \cup {"sock"}]
        /\ live' = [live EXCEPT ![c] = addr[c]]
        /\ Goes(c, "known") /\ UNCHANGED result
     \/ addr[c] > Addresses /\ Raise(c, "transport") /\ UNCHANGED <<open, live>>
  /\ UNCHANGED <<addr, lookups, watch>>

(* The flag, then remaining().                                             *)
CheckExpired(c) ==
  /\ pc[c] \in {"known", "duped"}
  /\ \/ /\ ~expired[c] /\ ~late[c]
        /\ Goes(c, IF pc[c] = "known" THEN "connect" ELSE "talk") /\ UNCHANGED <<open, result>>
     \/ /\ expired[c] \/ late[c]
        /\ Raise(c, "deadline")
        /\ open' = IF pc[c] = "known" THEN [open EXCEPT ![c] = @ \ {"sock"}] ELSE open
  /\ UNCHANGED <<addr, live, lookups, watch>>

(* connect is bounded by its own timeout.                                  *)
Connected(c) ==
  /\ pc[c] = "connect" /\ addr[c] \notin shut[c] /\ Goes(c, "dup")
  /\ UNCHANGED <<addr, live, open, result, lookups, watch>>

ConnectFails(c) ==
  /\ pc[c] = "connect"
  /\ open' = [open EXCEPT ![c] = @ \ {"sock"}]
  /\ \/ Failure(c) = "deadline" /\ Raise(c, "deadline") /\ UNCHANGED addr
     \/ Failure(c) # "deadline" /\ Goes(c, "socket") /\ addr' = [addr EXCEPT ![c] = @ + 1] /\ UNCHANGED result
  /\ UNCHANGED <<live, lookups, watch>>

Duplicate(c) ==
  /\ pc[c] = "dup" /\ Goes(c, "duped")
  /\ open' = [open EXCEPT ![c] = @ \cup {"dup"}]
  /\ live' = [live EXCEPT ![c] = addr[c]]
  /\ UNCHANGED <<addr, result, lookups, watch>>

(* The handshake, the headers or a piece of the body arrives in time.      *)
Talk(c) ==
  /\ pc[c] = "talk" /\ addr[c] \notin shut[c]
  /\ IF late[c] THEN Raise(c, "deadline") ELSE UNCHANGED <<pc, result>>
  /\ UNCHANGED <<addr, live, open, lookups, watch>>

(* The body exceeds its cap, or the read fails.                            *)
TalkFails(c) ==
  /\ pc[c] = "talk"
  /\ \E why \in {"too large", Failure(c)} : Raise(c, why)
  /\ UNCHANGED <<addr, live, open, lookups, watch>>

(* The stream has ended: only a completely framed body is an answer.       *)
Complete(c, framed) == framed /\ ~expired[c]

(* Of a connection that was shut only a part may have been read.           *)
BodyEnds(c, framed) ==
  /\ pc[c] = "talk"
  /\ Raise(c, CASE Complete(c, framed) -> IF framed THEN "ok" ELSE "partial"
                [] ~Complete(c, framed) /\ expired[c] -> "deadline"
                [] OTHER -> "transport")
  /\ UNCHANGED <<addr, live, open, lookups, watch>>

(* finally: the timer is cancelled and every descriptor closed.            *)
LeftOpen(c) == {}

Finally(c) ==
  /\ pc[c] = "finally" /\ Goes(c, "done")
  /\ timer' = [timer EXCEPT ![c] = IF @ = "armed" THEN "cancelled" ELSE @]
  /\ live' = [live EXCEPT ![c] = 0]
  /\ open' = [open EXCEPT ![c] = @ \cap LeftOpen(c)]
  /\ UNCHANGED <<addr, result, lookups, late, expired, victim, shut>>

Thread(c) ==
  \/ Lookup(c) \/ LookupEnds(c) \/ Abandon(c) \/ OpenSocket(c) \/ CheckExpired(c)
  \/ Connected(c) \/ ConnectFails(c) \/ Duplicate(c)
  \/ Talk(c) \/ TalkFails(c) \/ (\E framed \in BOOLEAN : BodyEnds(c, framed)) \/ Finally(c)

Next ==
  \/ \E c \in Callers : Start(c) \/ Thread(c) \/ DeadlinePasses(c) \/ KillTakes(c) \/ KillShuts(c)
  \/ AbandonedEnds

Spec == Init /\ [][Next]_vars

----------------------------------------------------------------------------
(* Properties                                                              *)

(* Once the watchdog has run, no thread waits for a server on a connection *)
(* that was not shut down, wherever between the socket, the duplicate and  *)
(* the read the deadline fell: the exchange ends (bounded_http.py:102-148). *)
WatchdogReaches == \A c \in Callers : timer[c] = "done" /\ pc[c] = "talk" => addr[c] \in shut[c]

(* An exchange leaves no descriptor open, on every path, and only a        *)
(* complete body is an answer (bounded_http.py:160-193).                   *)
EndsClean == \A c \in Callers : pc[c] = "done" => open[c] = {} /\ result[c] # "partial"

(* Abandoned lookups keep their permits, so no more than ResolverSlots     *)
(* ever run, and each running one is accounted for (bounded_http.py:35-49). *)
LookupsBounded == Waiting <= lookups /\ lookups <= ResolverSlots
============================================================================
