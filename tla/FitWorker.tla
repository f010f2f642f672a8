----------------------------- MODULE FitWorker -----------------------------
(***************************************************************************)
(* The bounded fit worker and the artifact store it promotes into          *)
(* (ml-engine/forecasting/worker.py, artifacts.py).                        *)
(*                                                                         *)
(* submit() queues one fit per signal.  Worker threads take tickets, run   *)
(* each fit in a child process under a deadline, reap the child and        *)
(* publish its artifact.  close() stops all of it.  The worker's condition *)
(* variable is the lock: an action that takes it needs lock = None, and    *)
(* only publication spans several steps with the lock held, because it     *)
(* writes two files.  Threads sleep in cv.wait() (pc "wait") until a       *)
(* notify, so a lost wake-up is visible.                                   *)
(*                                                                         *)
(* The files survive Crash; everything else starts again.  An artifact is  *)
(* the pair of its signal and its fit cutoff: files are named after their  *)
(* content, so equal content is the same file.                             *)
(***************************************************************************)
EXTENDS Integers, Sequences, FiniteSets

CONSTANTS Signals,      \* binding keys
          Threads,      \* the max_active worker threads
          Readers,      \* requests that load artifacts
          Cutoffs,      \* fit cutoffs, natural numbers
          MaxPending,   \* the queue bound
          MaxTickets,   \* bound of the model: tickets per process lifetime
          MaxCrashes,   \* bound of the model: restarts of the process
          None

ASSUME FitConstants ==
  /\ Cutoffs \subseteq Nat
  /\ MaxPending \in Nat \ {0}
  /\ MaxTickets \in Nat
  /\ MaxCrashes \in Nat
  /\ None \notin Cutoffs \cup Threads \cup Nat
  /\ Threads # {}

Reasons == {"fit", "timeout", "resource", "storage"}

VARIABLES tickets,   \* every ticket handed out: a sequence, the index is its identity
          queue,     \* _queue: ticket numbers
          bySignal,  \* _by_signal: signal -> ticket number or None
          closed,    \* _closed
          failures,  \* failures: reason -> count
          pc,        \* per thread
          job,       \* per thread: the dequeued ticket or None
          child,     \* per thread: its fit process
          lock,      \* the thread that publishes under the lock, or None
          closer,    \* the caller of close(): "open", "resolve", "join", "done"
          dropped,   \* tickets close() took from the queue and has not resolved
          files,     \* artifact files: a set of <<signal, cutoff>>
          pointer,   \* signal -> cutoff of the promoted artifact, or None
          reader,    \* per request: the artifact its load_snapshot() is about to open, or None
          crashes    \* bound of the model

volatile == <<tickets, queue, bySignal, closed, failures, pc, job, child, lock, closer, dropped>>
disk == <<files, pointer>>
vars == <<volatile, disk, reader, crashes>>

(* A thread's child process: what it has sent, whether it lives, whether   *)
(* its exit was clean and whether the deadline passed.                     *)
NoChild == [alive |-> FALSE, sent |-> None, clean |-> FALSE, expired |-> FALSE]
ChildType == [alive : BOOLEAN, sent : {None, "ok", "error"}, clean : BOOLEAN, expired : BOOLEAN]

TicketType == [signal : Signals, cutoff : Cutoffs, status : {"open", "promoted", "unchanged", "failed"},
               reason : Reasons \cup {None}, done : BOOLEAN]

Steps == {"check", "wait", "dequeued", "running", "reaped", "publish", "pointer", "report", "signal", "exit"}

TypeOK ==
  /\ tickets \in Seq(TicketType) /\ Len(tickets) <= MaxTickets
  /\ queue \in Seq(1 .. Len(tickets)) /\ Len(queue) <= MaxPending
  /\ bySignal \in [Signals -> (1 .. Len(tickets)) \cup {None}]
  /\ closed \in BOOLEAN
  /\ failures \in [Reasons -> Nat]
  /\ pc \in [Threads -> Steps]
  /\ job \in [Threads -> (1 .. Len(tickets)) \cup {None}]
  /\ child \in [Threads -> ChildType]
  /\ lock \in Threads \cup {None}
  /\ closer \in {"open", "resolve", "join", "done"}
  /\ dropped \subseteq 1 .. Len(tickets)
  /\ files \subseteq Signals \X Cutoffs
  /\ pointer \in [Signals -> Cutoffs \cup {None}]
  /\ reader \in [Readers -> (Signals \X Cutoffs) \cup {None}]
  /\ crashes \in 0 .. MaxCrashes

Fresh ==
  /\ tickets = <<>> /\ queue = <<>>
  /\ bySignal = [s \in Signals |-> None]
  /\ closed = FALSE
  /\ failures = [r \in Reasons |-> 0]
  /\ pc = [t \in Threads |-> "check"]
  /\ job = [t \in Threads |-> None]
  /\ child = [t \in Threads |-> NoChild]
  /\ lock = None
  /\ closer = "open"
  /\ dropped = {}

Init ==
  /\ Fresh
  /\ files = {} /\ pointer = [s \in Signals |-> None]
  /\ reader = [q \in Readers |-> None] /\ crashes = 0

Range1(f) == {f[x] : x \in DOMAIN f}
Waiting == {t \in Threads : pc[t] = "wait"}

(* Mutant: nobody is woken.                                                *)
NotifyNobody == UNCHANGED pc

(* notify(): one waiting thread, if there is one, goes on.                 *)
NotifyOne ==
  \/ Waiting = {} /\ UNCHANGED pc
  \/ \E t \in Waiting : pc' = [pc EXCEPT ![t] = "check"]

NotifyAll == pc' = [t \in Threads |-> IF pc[t] = "wait" THEN "check" ELSE pc[t]]

----------------------------------------------------------------------------
(* Admission                                                               *)

Room == Len(queue) < MaxPending

(* submit() that admits a new ticket.  The refusals (closed, queue full)   *)
(* and the answer with the signal's existing ticket change nothing.        *)
Submit(s, c) ==
  /\ lock = None /\ ~closed
  /\ bySignal[s] = None
  /\ Room
  /\ Len(tickets) < MaxTickets
  /\ tickets' = Append(tickets, [signal |-> s, cutoff |-> c, status |-> "open", reason |-> None, done |-> FALSE])
  /\ queue' = Append(queue, Len(tickets) + 1)
  /\ bySignal' = [bySignal EXCEPT ![s] = Len(tickets) + 1]
  /\ NotifyOne
  /\ UNCHANGED <<closed, failures, job, child, lock, closer, dropped, disk, reader, crashes>>

----------------------------------------------------------------------------
(* Worker threads                                                          *)

(* The head of _loop: wait while there is nothing to do, stop once closed, *)
(* otherwise take the oldest ticket.                                       *)
Loop(t) ==
  /\ pc[t] = "check" /\ lock = None
  /\ \/ /\ queue = <<>> /\ ~closed
        /\ pc' = [pc EXCEPT ![t] = "wait"]
        /\ UNCHANGED <<queue, job>>
     \/ /\ closed
        /\ pc' = [pc EXCEPT ![t] = "exit"]
        /\ UNCHANGED <<queue, job>>
     \/ /\ queue # <<>> /\ ~closed
        /\ pc' = [pc EXCEPT ![t] = "dequeued"]
        /\ job' = [job EXCEPT ![t] = Head(queue)]
        /\ queue' = Tail(queue)
  /\ UNCHANGED <<tickets, bySignal, closed, failures, child, lock, closer, dropped, disk, reader, crashes>>

With(ticket, status, reason) == [ticket EXCEPT !.status = status, !.reason = reason]

(* The thread holds the result it will report for its ticket.              *)
Result(t, status, reason) ==
  /\ pc' = [pc EXCEPT ![t] = "report"]
  /\ tickets' = [tickets EXCEPT ![job[t]] = With(@, status, reason)]

MayStart == ~closed

(* The start of _run: under the lock, and only while open.  A process that *)
(* cannot be spawned raises, and _loop reports it as a storage failure.    *)
StartFit(t) ==
  /\ pc[t] = "dequeued" /\ lock = None
  /\ \/ /\ ~MayStart /\ Result(t, "failed", "resource") /\ UNCHANGED child
     \/ /\ MayStart /\ Result(t, "failed", "storage") /\ UNCHANGED child
     \/ /\ MayStart
        /\ pc' = [pc EXCEPT ![t] = "running"]
        /\ child' = [child EXCEPT ![t] = [NoChild EXCEPT !.alive = TRUE]]
        /\ UNCHANGED tickets
  /\ UNCHANGED <<queue, bySignal, closed, failures, job, lock, closer, dropped, disk, reader, crashes>>

(* The child sends its one message, an artifact or an error.               *)
ChildSends(t) ==
  /\ child[t].alive /\ child[t].sent = None
  /\ \E m \in {"ok", "error"} : child' = [child EXCEPT ![t].sent = m]
  /\ UNCHANGED <<tickets, queue, bySignal, closed, failures, pc, job, lock, closer, dropped, disk, reader, crashes>>

(* The child ends: cleanly after its message, or killed by its limits.     *)
ChildExits(t) ==
  /\ child[t].alive
  /\ \E clean \in BOOLEAN :
       /\ clean => child[t].sent # None
       /\ child' = [child EXCEPT ![t].alive = FALSE, ![t].clean = clean]
  /\ UNCHANGED <<tickets, queue, bySignal, closed, failures, pc, job, lock, closer, dropped, disk, reader, crashes>>

(* expire(): the kill timer, or _run itself when the child outlives the    *)
(* deadline.  It may also fire after the child has gone and before the     *)
(* timer is cancelled.                                                     *)
Expire(t) ==
  /\ pc[t] = "running"
  /\ child' = [child EXCEPT ![t].expired = TRUE, ![t].alive = FALSE]
  /\ UNCHANGED <<tickets, queue, bySignal, closed, failures, pc, job, lock, closer, dropped, disk, reader, crashes>>

(* p.join() returned: the child is gone and leaves _running.               *)
Reap(t) ==
  /\ pc[t] = "running" /\ lock = None
  /\ ~child[t].alive
  /\ pc' = [pc EXCEPT ![t] = "reaped"]
  /\ UNCHANGED <<tickets, queue, bySignal, closed, failures, job, child, lock, closer, dropped, disk, reader, crashes>>

(* What the message and the exit mean.  The deadline is looked at again,   *)
(* so a clean fit may still be late.                                       *)
Judge(t) ==
  /\ pc[t] = "reaped"
  /\ LET c == child[t] IN
       \/ Result(t, "failed", "timeout")
       \/ /\ ~c.expired
          /\ c.sent = "error"
          /\ Result(t, "failed", "fit")
       \/ /\ ~c.expired
          /\ c.sent # "error" /\ ~(c.sent = "ok" /\ c.clean)
          /\ Result(t, "failed", "resource")
       \/ /\ ~c.expired
          /\ c.sent = "ok" /\ c.clean
          /\ pc' = [pc EXCEPT ![t] = "publish"]
          /\ UNCHANGED tickets
  /\ child' = [child EXCEPT ![t] = NoChild]
  /\ UNCHANGED <<queue, bySignal, closed, failures, job, lock, closer, dropped, disk, reader, crashes>>

Signal(t) == tickets[job[t]].signal
Cutoff(t) == tickets[job[t]].cutoff

Newer(t) == pointer[Signal(t)] # None => Cutoff(t) > pointer[Signal(t)]

(* Mutant: the result of a fit that ended after close() is still published. *)
PublishesAlways == TRUE

MayPublish == ~closed

(* Publication up to the artifact file: only while open, only a cutoff     *)
(* newer than the current one.  Validation and the write may fail.         *)
Publish(t) ==
  /\ pc[t] = "publish" /\ lock = None
  /\ \/ /\ ~MayPublish
        /\ Result(t, "failed", "resource")
        /\ UNCHANGED <<lock, files>>
     \/ /\ MayPublish
        /\ Result(t, "failed", "storage")
        /\ UNCHANGED <<lock, files>>
     \/ /\ MayPublish /\ ~Newer(t)
        /\ Result(t, "unchanged", None)
        /\ UNCHANGED <<lock, files>>
     \/ /\ MayPublish /\ Newer(t)
        /\ files' = files \cup {<<Signal(t), Cutoff(t)>>}
        /\ lock' = t
        /\ pc' = [pc EXCEPT ![t] = "pointer"]
        /\ UNCHANGED tickets
  /\ UNCHANGED <<queue, bySignal, closed, failures, job, child, closer, dropped, pointer, reader, crashes>>

(* The pointer file, the last write of promote(), which may fail too.      *)
PromotePointer(t) ==
  /\ pc[t] = "pointer"
  /\ \/ /\ pointer' = [pointer EXCEPT ![Signal(t)] = Cutoff(t)]
        /\ Result(t, "promoted", None)
     \/ /\ Result(t, "failed", "storage")
        /\ UNCHANGED pointer
  /\ lock' = None
  /\ UNCHANGED <<queue, bySignal, closed, failures, job, child, closer, dropped, files, reader, crashes>>

(* The end of _loop's body under the lock: the failure is counted and the  *)
(* signal may be submitted again.                                          *)
Report(t) ==
  /\ pc[t] = "report" /\ lock = None
  /\ LET k == tickets[job[t]] IN
       /\ failures' = IF k.status = "failed" THEN [failures EXCEPT ![k.reason] = @ + 1] ELSE failures
       /\ bySignal' = [bySignal EXCEPT ![k.signal] = None]
  /\ pc' = [pc EXCEPT ![t] = "signal"]
  /\ UNCHANGED <<tickets, queue, closed, job, child, lock, closer, dropped, disk, reader, crashes>>

(* t.done.set(), then the loop again.                                      *)
SetDone(t) ==
  /\ pc[t] = "signal"
  /\ tickets' = [tickets EXCEPT ![job[t]].done = TRUE]
  /\ pc' = [pc EXCEPT ![t] = "check"]
  /\ job' = [job EXCEPT ![t] = None]
  /\ UNCHANGED <<queue, bySignal, closed, failures, child, lock, closer, dropped, disk, reader, crashes>>

----------------------------------------------------------------------------
(* close()                                                                 *)

(* Under the lock: nothing is admitted from now on, the queue is taken,    *)
(* waiting threads wake and running children are killed.                   *)
Close ==
  /\ closer = "open" /\ lock = None
  /\ closed' = TRUE
  /\ dropped' = Range1(queue)
  /\ queue' = <<>>
  /\ bySignal' = [s \in Signals |-> IF bySignal[s] \in Range1(queue) THEN None ELSE bySignal[s]]
  /\ NotifyAll
  /\ child' = [t \in Threads |-> IF pc[t] = "running" THEN [child[t] EXCEPT !.alive = FALSE] ELSE child[t]]
  /\ closer' = "resolve"
  /\ UNCHANGED <<tickets, failures, job, lock, disk, reader, crashes>>

(* The dropped tickets fail, outside the lock.                             *)
ResolveDropped ==
  /\ closer = "resolve"
  /\ tickets' = [i \in DOMAIN tickets |->
                   IF i \in dropped
                   THEN [With(tickets[i], "failed", "resource") EXCEPT !.done = TRUE]
                   ELSE tickets[i]]
  /\ closer' = "join"
  /\ UNCHANGED <<queue, bySignal, closed, failures, pc, job, child, lock, dropped, disk, reader, crashes>>

(* Mutant: close() does not wait for the threads.                          *)
JoinNobody ==
  /\ closer = "join"
  /\ closer' = "done"
  /\ UNCHANGED <<tickets, queue, bySignal, closed, failures, pc, job, child, lock, dropped, disk, reader, crashes>>

(* close() returns once every thread has ended.                            *)
Join ==
  /\ closer = "join"
  /\ \A t \in Threads : pc[t] = "exit"
  /\ closer' = "done"
  /\ UNCHANGED <<tickets, queue, bySignal, closed, failures, pc, job, child, lock, dropped, disk, reader, crashes>>

----------------------------------------------------------------------------
(* load_snapshot() of a request: the pointer, then the file it names.      *)
ReadPointer(q, s) ==
  /\ reader[q] = None
  /\ pointer[s] # None
  /\ reader' = [reader EXCEPT ![q] = <<s, pointer[s]>>]
  /\ UNCHANGED <<volatile, disk, crashes>>

ReadFile(q) ==
  /\ reader[q] # None
  /\ reader' = [reader EXCEPT ![q] = None]
  /\ UNCHANGED <<volatile, disk, crashes>>

(* The process ends at any point and starts again; the files stay.         *)
Crash ==
  /\ crashes < MaxCrashes
  /\ crashes' = crashes + 1
  /\ tickets' = <<>> /\ queue' = <<>>
  /\ bySignal' = [s \in Signals |-> None]
  /\ closed' = FALSE
  /\ failures' = [r \in Reasons |-> 0]
  /\ pc' = [t \in Threads |-> "check"]
  /\ job' = [t \in Threads |-> None]
  /\ child' = [t \in Threads |-> NoChild]
  /\ lock' = None
  /\ closer' = "open"
  /\ dropped' = {}
  /\ reader' = [q \in Readers |-> None]
  /\ UNCHANGED disk

Step(t) ==
  \/ Loop(t) \/ StartFit(t) \/ Reap(t) \/ Judge(t) \/ Publish(t)
  \/ PromotePointer(t) \/ Report(t) \/ SetDone(t)

Next ==
  \/ \E s \in Signals, c \in Cutoffs : Submit(s, c)
  \/ \E t \in Threads : Step(t) \/ ChildSends(t) \/ ChildExits(t) \/ Expire(t)
  \/ Close \/ ResolveDropped \/ Join
  \/ \E q \in Readers : (\E s \in Signals : ReadPointer(q, s)) \/ ReadFile(q)
  \/ Crash

Spec == Init /\ [][Next]_vars

(* Threads, the kill timer and the caller of close() are scheduled by the  *)
(* interpreter.  A child owes nothing: it may hang for ever.               *)
FairSpec ==
  /\ Spec
  /\ \A t \in Threads : WF_vars(Step(t)) /\ WF_vars(Expire(t))
  /\ WF_vars(ResolveDropped) /\ WF_vars(Join)

----------------------------------------------------------------------------
(* Properties                                                              *)

Alive(t) == child[t].alive

(* A ticket in flight is findable: as long as it is not resolved, its      *)
(* signal's entry is the ticket itself, so a second submit returns it and  *)
(* never starts another fit (worker.py:158-159, 216).                      *)
Findable ==
  \A i \in 1 .. Len(tickets) :
    (~tickets[i].done /\ i \notin dropped /\ \A t \in Threads : ~(pc[t] = "signal" /\ job[t] = i))
      => bySignal[tickets[i].signal] = i

(* After close() has returned, every ticket is resolved and no child runs  *)
(* (worker.py:179-180).                                                    *)
ClosedIsQuiet ==
  closer = "done" => /\ \A i \in 1 .. Len(tickets) : tickets[i].done /\ tickets[i].status # "open"
                     /\ \A t \in Threads : ~Alive(t)

(* Nothing is started or promoted once close() has taken the lock          *)
(* (worker.py:14-17): no later step of this process starts a child or      *)
(* changes the files or the pointers.                                      *)
NothingAfterClose ==
  closed /\ closed' => (\A t \in Threads : Alive(t)' => Alive(t)) /\ UNCHANGED disk

(* The promoted cutoff of a signal never goes back, not even across a      *)
(* crash (worker.py:21-22, artifacts.py:212-213).                          *)
CutoffForward ==
  \A s \in Signals : pointer[s] # None => pointer'[s] # None /\ pointer'[s] >= pointer[s]

(* A pointer names an artifact file that is there, and the file a reader   *)
(* was pointed to is still there when it opens it, whatever is promoted or *)
(* crashes between (artifacts.py:191-205).                                 *)
PointerHasFile ==
  /\ \A s \in Signals : pointer[s] # None => <<s, pointer[s]>> \in files
  /\ \A q \in Readers : reader[q] # None => reader[q] \in files

(* Every admitted ticket is resolved, whatever its child does, whether the *)
(* worker stays open or is closed, unless the process dies first.          *)
EveryTicketResolved ==
  \A i \in 1 .. MaxTickets :
    (crashes = MaxCrashes /\ i \in DOMAIN tickets) ~> (i \in DOMAIN tickets /\ tickets[i].done)

(* close() returns.                                                        *)
CloseReturns == (crashes = MaxCrashes /\ closer = "resolve") ~> closer = "done"

(* A ticket in flight can be found under its signal, after close() every   *)
(* ticket is resolved and no child runs, and whoever follows a pointer     *)
(* finds the file (worker.py:158-159, 179-180, artifacts.py:191-205).      *)
FitsConsistent == Findable /\ ClosedIsQuiet /\ PointerHasFile

(* Once close() holds the lock nothing is started or promoted, and no      *)
(* promotion ever moves a signal's cutoff back, not even across a crash    *)
(* (worker.py:14-17, 21-22).                                               *)
PromotesForward == [][NothingAfterClose /\ CutoffForward]_vars

(* Every admitted ticket is resolved and close() returns, whatever the     *)
(* child does, unless the process dies first (worker.py:179-190).          *)
EveryCallReturns == EveryTicketResolved /\ CloseReturns
============================================================================
