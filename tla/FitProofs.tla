----------------------------- MODULE FitProofs ------------------------------
(***************************************************************************)
(* Proofs about FitWorker, for every number of signals, worker threads,    *)
(* readers, tickets and crashes: a ticket in flight can be found, close()  *)
(* leaves nothing behind, whoever follows a pointer finds the file, and    *)
(* nothing is promoted backwards or after close().                         *)
(***************************************************************************)
EXTENDS FitWorker, SequenceTheorems, TLAPS

(* Most leaves are first-order: Zenon comes first, then the SMT solver.    *)
USE ZenonT(10), SMTT(30)

(* Where an unresolved ticket is: in the queue, with a thread, or among    *)
(* those close() took and is about to resolve.                             *)
PlaceInv ==
  /\ \A i \in 1 .. Len(tickets) :
       ~tickets[i].done => \/ i \in Range1(queue)
                           \/ \E t \in Threads : job[t] = i
                           \/ i \in dropped /\ closer = "resolve"
  /\ closed => queue = <<>>
  /\ closed <=> closer # "open"
  /\ closer = "done" => \A t \in Threads : pc[t] = "exit"

(* Its signal leads to it until the thread has reported.                   *)
SignalInv ==
  /\ \A i \in Range1(queue) : bySignal[tickets[i].signal] = i
  /\ \A t \in Threads :
       job[t] # None /\ pc[t] # "signal" => bySignal[tickets[job[t]].signal] = job[t]

Distinct(s) == \A i, j \in DOMAIN s : s[i] = s[j] => i = j

(* No ticket is in two places.                                             *)
ApartInv ==
  /\ Distinct(queue)
  /\ \A t \in Threads : job[t] \notin Range1(queue)
  /\ \A t, u \in Threads : job[t] = job[u] /\ job[t] # None => t = u

(* Where a thread is says what it has: a ticket, a result, a child.        *)
PhaseInv ==
  /\ \A t \in Threads : job[t] # None <=> pc[t] \notin {"check", "wait", "exit"}
  /\ \A t \in Threads : pc[t] \in {"report", "signal"} => tickets[job[t]].status # "open"
  /\ \A i \in 1 .. Len(tickets) : tickets[i].done => tickets[i].status # "open"
  /\ \A t \in Threads : child[t].alive => pc[t] = "running"

(* A thread about to write the pointer holds the lock, so close() has not  *)
(* come between, its cutoff is still the newer one and its file is there.  *)
LockInv ==
  /\ \A t \in Threads : lock = t <=> pc[t] = "pointer"
  /\ \A t \in Threads :
       pc[t] = "pointer" => ~closed /\ Newer(t) /\ <<Signal(t), Cutoff(t)>> \in files

FitInv == TypeOK /\ PlaceInv /\ SignalInv /\ ApartInv /\ PhaseInv /\ LockInv /\ PointerHasFile

-----------------------------------------------------------------------------
(* Sequences                                                               *)

(* What a sequence holds after Append, and that it stays free of           *)
(* duplicates.                                                             *)
LEMMA RangeAppend ==
  ASSUME NEW S, NEW s \in Seq(S), NEW x \in S
  PROVE  /\ Append(s, x) \in Seq(S) /\ Len(Append(s, x)) = Len(s) + 1
         /\ \A i \in 1 .. Len(s) : Append(s, x)[i] = s[i]
         /\ Append(s, x)[Len(s) + 1] = x
         /\ Range1(Append(s, x)) = Range1(s) \cup {x}
         /\ Distinct(s) /\ x \notin Range1(s) => Distinct(Append(s, x))
<1> DEFINE a == Append(s, x)
<1>1. /\ Len(s) \in Nat /\ DOMAIN s = 1 .. Len(s) /\ a \in Seq(S) /\ Len(a) = Len(s) + 1
      /\ DOMAIN a = 1 .. Len(s) + 1
  BY SMTT(30)
<1>2. a[Len(s) + 1] = x /\ \A i \in 1 .. Len(s) : a[i] = s[i]
  BY SMTT(30)
<1> HIDE DEF a
<1>3. Range1(a) = Range1(s) \cup {x}
  BY <1>1, <1>2, SMTT(30) DEF Range1
<1>4. ASSUME Distinct(s), x \notin Range1(s) PROVE Distinct(a)
  BY <1>1, <1>2, <1>4, SMTT(30) DEF Range1, Distinct
<1> QED
  BY <1>1, <1>2, <1>3, <1>4 DEF a

(* The head and the tail of a queue share its contents.                    *)
LEMMA RangeTail ==
  ASSUME NEW S, NEW s \in Seq(S), s # <<>>
  PROVE  /\ Head(s) \in S /\ Head(s) \in Range1(s)
         /\ Tail(s) \in Seq(S) /\ Len(Tail(s)) = Len(s) - 1
         /\ Range1(s) = Range1(Tail(s)) \cup {Head(s)}
         /\ Distinct(s) => Distinct(Tail(s)) /\ Head(s) \notin Range1(Tail(s))
<1>1. /\ Len(s) \in Nat \ {0} /\ DOMAIN s = 1 .. Len(s) /\ Head(s) = s[1]
      /\ \A i \in 1 .. Len(s) : s[i] \in S
  BY SMT
<1>2. /\ Tail(s) \in Seq(S) /\ Len(Tail(s)) = Len(s) - 1 /\ DOMAIN Tail(s) = 1 .. Len(s) - 1
      /\ \A i \in 1 .. Len(s) - 1 : Tail(s)[i] = s[i + 1]
  BY HeadTailProperties, LenProperties, SMT
<1>3. ASSUME NEW i \in 1 .. Len(s) PROVE s[i] \in Range1(Tail(s)) \cup {s[1]}
  <2>1. CASE i = 1
    BY <2>1
  <2>2. CASE i # 1
    <3>1. i - 1 \in 1 .. Len(s) - 1 /\ (i - 1) + 1 = i
      BY <1>1, <2>2
    <3> QED
      BY <3>1, <1>2, ZenonT(60) DEF Range1
  <2> QED
    BY <2>1, <2>2
<1>4. ASSUME NEW i \in 1 .. Len(s) - 1 PROVE i + 1 \in 1 .. Len(s) /\ Tail(s)[i] = s[i + 1] /\ i + 1 # 1
  BY <1>1, <1>2
<1>5. Range1(s) = Range1(Tail(s)) \cup {s[1]}
  BY <1>1, <1>2, <1>3, <1>4 DEF Range1
<1>6. Distinct(s) => Distinct(Tail(s)) /\ s[1] \notin Range1(Tail(s))
  BY <1>1, <1>2, <1>4 DEF Range1, Distinct
<1>7. s[1] \in Range1(s) /\ s[1] \in S
  BY <1>1 DEF Range1
<1> QED
  BY <1>1, <1>2, <1>5, <1>6, <1>7

(* A function on 1 .. n is a sequence of length n.                         *)
LEMMA FunctionSeq ==
  ASSUME NEW S, NEW n \in Nat, NEW f \in [1 .. n -> S]
  PROVE  f \in Seq(S) /\ Len(f) = n
BY SMT

-----------------------------------------------------------------------------
(* Each action preserves the invariant                                     *)

(* The types the steps below need.                                         *)
LEMMA Types ==
  ASSUME TypeOK
  PROVE  /\ Len(tickets) \in Nat /\ DOMAIN tickets = 1 .. Len(tickets)
         /\ \A i \in 1 .. Len(tickets) : tickets[i] \in TicketType
         /\ Range1(queue) \subseteq 1 .. Len(tickets)
         /\ None \notin 1 .. Len(tickets) /\ None \notin Threads
<1>1. /\ Len(tickets) \in Nat /\ tickets \in [1 .. Len(tickets) -> TicketType]
      /\ queue \in [1 .. Len(queue) -> 1 .. Len(tickets)]
  BY LenProperties DEF TypeOK
<1>2. Range1(queue) \subseteq 1 .. Len(tickets)
  BY <1>1 DEF Range1
<1> QED
  BY <1>1, <1>2, FitConstants

(* A thread that records its result keeps its ticket, which stays findable *)
(* and is not open any more.                                               *)
LEMMA ResultKeeps ==
  ASSUME FitInv, NEW t \in Threads, pc[t] \in {"dequeued", "reaped", "publish", "pointer"},
         NEW status \in {"promoted", "unchanged", "failed"}, NEW reason \in Reasons \cup {None},
         Result(t, status, reason),
         UNCHANGED <<queue, bySignal, closed, job, closer, dropped>>,
         \A u \in Threads : child'[u].alive => child[u].alive
  PROVE  /\ tickets' \in Seq(TicketType) /\ Len(tickets') = Len(tickets)
         /\ \A i \in 1 .. Len(tickets) :
              tickets'[i].signal = tickets[i].signal /\ tickets'[i].cutoff = tickets[i].cutoff
         /\ pc' \in [Threads -> Steps] /\ pc' = [pc EXCEPT ![t] = "report"]
         /\ PlaceInv' /\ SignalInv' /\ ApartInv' /\ PhaseInv'
<1> USE DEF FitInv
<1>1. /\ job[t] \in 1 .. Len(tickets) /\ tickets \in Seq(TicketType)
      /\ pc \in [Threads -> Steps] /\ job \in [Threads -> (1 .. Len(tickets)) \cup {None}]
  BY DEF TypeOK, PhaseInv
<1>2. /\ tickets' = [tickets EXCEPT ![job[t]] = With(tickets[job[t]], status, reason)]
      /\ pc' = [pc EXCEPT ![t] = "report"]
  BY DEF Result
<1>3. /\ tickets' \in Seq(TicketType) /\ Len(tickets') = Len(tickets)
      /\ \A j \in 1 .. Len(tickets) :
           /\ tickets'[j].signal = tickets[j].signal /\ tickets'[j].cutoff = tickets[j].cutoff
           /\ tickets'[j].done = tickets[j].done
           /\ tickets'[j].status = IF j = job[t] THEN status ELSE tickets[j].status
  <2> DEFINE k == With(tickets[job[t]], status, reason)
  <2>1. status \in {"open", "promoted", "unchanged", "failed"} /\ tickets[job[t]] \in TicketType
    BY <1>1, Types
  <2>2. /\ k \in TicketType /\ k.signal = tickets[job[t]].signal /\ k.cutoff = tickets[job[t]].cutoff
        /\ k.done = tickets[job[t]].done /\ k.status = status
    <3>1. ASSUME NEW x \in TicketType, NEW m, m = With(x, status, reason)
          PROVE  /\ m \in TicketType /\ m.signal = x.signal /\ m.cutoff = x.cutoff
                 /\ m.done = x.done /\ m.status = status
      BY <2>1, <3>1 DEF With, TicketType
    <3> HIDE DEF k
    <3>2. k = With(tickets[job[t]], status, reason)
      BY DEF k
    <3> QED
      BY <2>1, <3>1, <3>2
  <2> HIDE DEF k
  <2>3. tickets' = [tickets EXCEPT ![job[t]] = k]
    BY <1>2 DEF k
  <2>4. /\ tickets' \in Seq(TicketType) /\ Len(tickets') = Len(tickets)
        /\ \A j \in 1 .. Len(tickets) : tickets'[j] = IF j = job[t] THEN k ELSE tickets[j]
    BY <1>1, <2>2, <2>3, ExceptSeq
  <2> QED
    BY <2>2, <2>4
<1>4. pc' \in [Threads -> Steps] /\ \A u \in Threads : pc'[u] = IF u = t THEN "report" ELSE pc[u]
  BY <1>1, <1>2 DEF Steps
<1> DEFINE Q == Range1(queue)
<1>q. Range1(queue)' = Q /\ Q \subseteq 1 .. Len(tickets)
  BY Types DEF Range1
<1> HIDE DEF Q
<1>5. PlaceInv'
  BY <1>3, <1>4, <1>q DEF PlaceInv, Q
<1>6. SignalInv'
  <2>1. \A i \in Q : bySignal'[tickets'[i].signal] = i
    BY <1>3, <1>q DEF SignalInv, Q
  <2>2. ASSUME NEW u \in Threads, job[u] # None, pc'[u] # "signal"
        PROVE  bySignal'[tickets'[job[u]].signal] = job[u]
    BY <1>1, <1>3, <1>4, <2>2 DEF SignalInv
  <2> QED
    BY <1>q, <2>1, <2>2 DEF SignalInv
<1>7. ApartInv'
  BY DEF ApartInv, Distinct, Range1
<1>8. PhaseInv'
  <2>1. \A u \in Threads : u # t => job[u] # job[t]
    BY <1>1, Types DEF ApartInv
  <2>2. \A u \in Threads : pc[u] \in {"report", "signal"} => job[u] \in 1 .. Len(tickets)
    BY <1>1 DEF PhaseInv
  <2>3. \A u \in Threads : pc'[u] \in {"report", "signal"} => tickets'[job[u]].status # "open"
    BY <1>1, <1>3, <1>4, <2>1, <2>2 DEF PhaseInv
  <2>4. \A u \in Threads : job[u] # None <=> pc'[u] \notin {"check", "wait", "exit"}
    BY <1>1, <1>4, Types DEF PhaseInv
  <2>5. \A i \in 1 .. Len(tickets) : tickets'[i].done => tickets'[i].status # "open"
    BY <1>3, ZenonT(60) DEF PhaseInv
  <2>6. \A u \in Threads : child'[u].alive => pc'[u] = "running"
    BY <1>4 DEF PhaseInv
  <2> QED
    BY <1>3, <2>3, <2>4, <2>5, <2>6 DEF PhaseInv
<1> QED
  BY <1>2, <1>3, <1>4, <1>5, <1>6, <1>7, <1>8

(* A thread that goes on with its ticket, with no result yet.              *)
LEMMA MoveKeeps ==
  ASSUME FitInv, NEW t \in Threads,
         pc[t] \in {"dequeued", "running", "reaped", "publish"},
         NEW step \in {"running", "reaped", "publish", "pointer"}, pc' = [pc EXCEPT ![t] = step],
         UNCHANGED <<tickets, queue, bySignal, closed, job, closer, dropped>>,
         \A u \in Threads : child'[u].alive => (u # t /\ child[u].alive) \/ (u = t /\ step = "running")
  PROVE  pc' \in [Threads -> Steps] /\ PlaceInv' /\ SignalInv' /\ ApartInv' /\ PhaseInv'
<1> USE DEF FitInv
<1>1. /\ pc' \in [Threads -> Steps]
      /\ \A u \in Threads : pc'[u] = IF u = t THEN step ELSE pc[u]
  BY DEF TypeOK, Steps
<1>2. PlaceInv'
  BY <1>1 DEF PlaceInv, Range1
<1>3. SignalInv'
  BY <1>1 DEF SignalInv, Range1
<1>4. ApartInv'
  BY ZenonT(60) DEF ApartInv, Distinct, Range1
<1>5. PhaseInv'
  BY <1>1 DEF PhaseInv
<1> QED
  BY <1>1, <1>2, <1>3, <1>4, <1>5

(* What no step of a thread changes beside its own position.               *)
LEMMA OthersAt ==
  ASSUME TypeOK, NEW t \in Threads, NEW step \in Steps, pc' = [pc EXCEPT ![t] = step]
  PROVE  pc' \in [Threads -> Steps] /\ \A u \in Threads : pc'[u] = IF u = t THEN step ELSE pc[u]
BY DEF TypeOK

(* submit() admits only a signal without a ticket.                         *)
LEMMA SubmitKeeps ==
  ASSUME FitInv, NEW s \in Signals, NEW c \in Cutoffs, Submit(s, c)
  PROVE  FitInv'
<1> USE DEF FitInv
<1> DEFINE n == Len(tickets) + 1
           k == [signal |-> s, cutoff |-> c, status |-> "open", reason |-> None, done |-> FALSE]
           Q == Range1(queue)
<1>1. /\ lock = None /\ ~closed /\ bySignal[s] = None /\ Len(queue) < MaxPending /\ Len(tickets) < MaxTickets
      /\ tickets' = Append(tickets, k) /\ queue' = Append(queue, n)
      /\ bySignal' = [bySignal EXCEPT ![s] = n]
      /\ UNCHANGED <<closed, failures, job, child, lock, closer, dropped, files, pointer, reader, crashes>>
  BY DEF Submit, Room, disk
<1>2. /\ pc' \in [Threads -> Steps]
      /\ \A u \in Threads : pc'[u] = pc[u] \/ (pc[u] = "wait" /\ pc'[u] = "check")
  <2>1. NotifyOne
    BY DEF Submit
  <2> QED
    BY <2>1 DEF NotifyOne, Waiting, TypeOK, Steps
<1>3. k \in TicketType /\ k.signal = s /\ k.done = FALSE /\ k.status = "open"
  BY DEF TicketType
<1> HIDE DEF k
<1>4. /\ tickets' \in Seq(TicketType) /\ Len(tickets') = n
      /\ \A i \in 1 .. Len(tickets) : tickets'[i] = tickets[i]
      /\ tickets'[n] = k
  BY <1>1, <1>3, RangeAppend DEF TypeOK
<1>5. /\ n \in Nat /\ 1 .. n = (1 .. Len(tickets)) \cup {n} /\ n \notin 1 .. Len(tickets) /\ n # None
      /\ Q \subseteq 1 .. Len(tickets) /\ n \notin Q /\ None \notin Q
  BY Types, FitConstants
<1>6. /\ queue' \in Seq(1 .. n) /\ Len(queue') = Len(queue) + 1
      /\ Range1(queue)' = Q \cup {n} /\ (Distinct(queue) => Distinct(queue)')
  <2>1. queue \in Seq(1 .. n) /\ n \in 1 .. n
    BY <1>5, SeqMonotonic DEF TypeOK
  <2> QED
    BY <1>1, <1>5, <2>1, RangeAppend
<1> HIDE DEF n, Q
<1>7. TypeOK'
  <2>1. Len(tickets') <= MaxTickets /\ Len(queue') <= MaxPending
    BY <1>1, <1>4, <1>6, Types, LenProperties, FitConstants DEF n, TypeOK
  <2>2. bySignal' \in [Signals -> 1 .. n \cup {None}] /\ job' \in [Threads -> 1 .. n \cup {None}]
        /\ dropped' \subseteq 1 .. n
    BY <1>1, <1>5 DEF TypeOK
  <2> QED
    BY <1>1, <1>2, <1>4, <1>6, <2>1, <2>2 DEF TypeOK
<1>8. PlaceInv'
  BY <1>1, <1>2, <1>4, <1>5, <1>6 DEF PlaceInv, Q
<1>9. SignalInv'
  <2>1. \A i \in Q : tickets[i].signal # s /\ tickets[i].signal \in Signals
    BY <1>1, <1>5, Types DEF SignalInv, Q, TicketType
  <2>2. \A u \in Threads : job[u] # None /\ pc[u] # "signal" =>
          job[u] \in 1 .. Len(tickets) /\ tickets[job[u]].signal # s /\ tickets[job[u]].signal \in Signals
    BY <1>1, Types DEF SignalInv, TypeOK, TicketType
  <2>3. bySignal'[s] = n /\ \A x \in Signals : x # s => bySignal'[x] = bySignal[x]
    BY <1>1 DEF TypeOK
  <2>4. \A i \in Q \cup {n} : bySignal'[tickets'[i].signal] = i
    BY <1>3, <1>4, <1>5, <2>1, <2>3 DEF SignalInv, Q
  <2>5. \A u \in Threads : job[u] # None /\ pc'[u] # "signal" => bySignal'[tickets'[job[u]].signal] = job[u]
    BY <1>2, <1>4, <2>2, <2>3 DEF SignalInv
  <2> QED
    BY <1>1, <1>6, <2>4, <2>5 DEF SignalInv
<1>10. ApartInv'
  BY <1>1, <1>5, <1>6 DEF ApartInv, TypeOK, Q
<1>11. PhaseInv'
  <2>1. \A u \in Threads : pc'[u] \in {"report", "signal"} =>
          job[u] \in 1 .. Len(tickets) /\ tickets'[job[u]].status # "open"
    BY <1>2, <1>4 DEF PhaseInv, TypeOK
  <2>2. \A u \in Threads : job[u] # None <=> pc'[u] \notin {"check", "wait", "exit"}
    BY <1>2 DEF PhaseInv
  <2>3. \A i \in 1 .. n : tickets'[i].done => tickets'[i].status # "open"
    BY <1>3, <1>4, <1>5 DEF PhaseInv
  <2>4. \A u \in Threads : child'[u].alive => pc'[u] = "running"
    BY <1>1, <1>2 DEF PhaseInv
  <2> QED
    BY <1>1, <1>4, <2>1, <2>2, <2>3, <2>4 DEF PhaseInv
<1>12. LockInv'
  <2>1. \A u \in Threads : pc'[u] # "pointer" /\ lock' # u
    BY <1>1, <1>2, FitConstants DEF LockInv
  <2> QED
    BY <2>1 DEF LockInv
<1>13. PointerHasFile'
  BY <1>1 DEF PointerHasFile
<1> QED
  BY <1>7, <1>8, <1>9, <1>10, <1>11, <1>12, <1>13

(* The loop takes the oldest ticket out of the queue.                      *)
LEMMA LoopKeeps ==
  ASSUME FitInv, NEW t \in Threads, Loop(t)
  PROVE  FitInv'
<1> USE DEF FitInv
<1> DEFINE Q == Range1(queue)
<1>1. /\ pc[t] = "check" /\ lock = None
      /\ UNCHANGED <<tickets, bySignal, closed, failures, child, lock, closer, dropped, files, pointer, reader, crashes>>
  BY DEF Loop, disk
<1>2. job[t] = None
  BY <1>1 DEF PhaseInv
<1>3. ASSUME NEW step \in Steps, pc' = [pc EXCEPT ![t] = step]
      PROVE  LockInv' /\ PointerHasFile'
  <2>1. \A u \in Threads : pc[u] # "pointer" /\ lock # u
    BY <1>1, FitConstants DEF LockInv
  <2>2. CASE step # "pointer"
    BY <1>1, <1>3, <2>1, <2>2, OthersAt DEF LockInv, PointerHasFile
  <2>3. CASE step = "pointer"
    BY <1>3, <2>3 DEF Loop, TypeOK
  <2> QED
    BY <2>2, <2>3
<1>4. ASSUME NEW step \in {"wait", "exit"}, pc' = [pc EXCEPT ![t] = step], UNCHANGED <<queue, job>>
      PROVE  FitInv'
  <2>1. /\ pc' \in [Threads -> Steps]
        /\ \A u \in Threads : pc'[u] = IF u = t THEN step ELSE pc[u]
    BY <1>4 DEF TypeOK, Steps
  <2>2. TypeOK'
    BY <1>1, <1>4, <2>1 DEF TypeOK
  <2>3. closer # "done"
    BY <1>1 DEF PlaceInv
  <2>4. PlaceInv'
    BY <1>1, <1>4, <2>1, <2>3 DEF PlaceInv, Range1
  <2>5. SignalInv'
    BY <1>1, <1>4, <2>1 DEF SignalInv, Range1
  <2>6. ApartInv'
    BY <1>4, ZenonT(60) DEF ApartInv, Distinct, Range1
  <2>7. PhaseInv'
    BY <1>1, <1>4, <2>1 DEF PhaseInv
  <2>8. LockInv' /\ PointerHasFile'
    BY <1>3, <1>4 DEF Steps
  <2> QED
    BY <2>2, <2>4, <2>5, <2>6, <2>7, <2>8
<1>5. ASSUME queue # <<>>, ~closed, pc' = [pc EXCEPT ![t] = "dequeued"],
             job' = [job EXCEPT ![t] = Head(queue)], queue' = Tail(queue)
      PROVE  FitInv'
  <2> DEFINE h == Head(queue)
  <2>1. /\ pc' \in [Threads -> Steps]
        /\ \A u \in Threads : pc'[u] = IF u = t THEN "dequeued" ELSE pc[u]
    BY <1>5 DEF TypeOK, Steps
  <2>2. queue \in Seq(1 .. Len(tickets)) /\ Distinct(queue) /\ Q \subseteq 1 .. Len(tickets) /\ None \notin Q
    BY Types DEF TypeOK, ApartInv
  <2>3. /\ h \in 1 .. Len(tickets) /\ h \in Q
        /\ queue' \in Seq(1 .. Len(tickets)) /\ Len(queue') = Len(queue) - 1
        /\ Q = Range1(queue)' \cup {h} /\ Distinct(queue)' /\ h \notin Range1(queue)'
    BY <1>5, <2>2, RangeTail
  <2> HIDE DEF Q, h
  <2>4. /\ job' \in [Threads -> (1 .. Len(tickets)) \cup {None}]
        /\ \A u \in Threads : job'[u] = IF u = t THEN h ELSE job[u]
    BY <1>5, <2>3 DEF TypeOK, h
  <2>5. h # None /\ \A u \in Threads : job[u] # h
    BY <2>2, <2>3 DEF ApartInv, Q
  <2>6. TypeOK'
    <3>1. Len(queue) \in Nat /\ Len(queue) <= MaxPending
      BY <2>2, LenProperties DEF TypeOK
    <3>2. Len(queue') <= MaxPending
      BY <2>3, <3>1, FitConstants
    <3> QED
      BY <1>1, <2>1, <2>3, <2>4, <3>2 DEF TypeOK
  <2>7. PlaceInv'
    <3>1. ASSUME NEW i \in 1 .. Len(tickets), ~tickets[i].done
          PROVE  \/ i \in Range1(queue)'
                 \/ \E u \in Threads : job'[u] = i
                 \/ i \in dropped /\ closer = "resolve"
      <4>1. CASE i \in Q
        BY <2>3, <2>4, <4>1
      <4>2. CASE \E u \in Threads : job[u] = i
        <5>1. PICK u \in Threads : job[u] = i
          BY <4>2
        <5>2. u # t
          BY <5>1, <1>2, Types
        <5> QED
          BY <5>1, <5>2, <2>4
      <4> QED
        BY <3>1, <4>1, <4>2 DEF PlaceInv, Q
    <3>2. closer # "done"
      BY <1>1 DEF PlaceInv
    <3> QED
      BY <1>1, <1>5, <3>1, <3>2 DEF PlaceInv
  <2>8. SignalInv'
    BY <1>1, <2>1, <2>3, <2>4 DEF SignalInv, Q
  <2>9. ApartInv'
    BY <2>3, <2>4, <2>5 DEF ApartInv, Q
  <2>10. PhaseInv'
    <3>1. \A u \in Threads : job'[u] # None <=> pc'[u] \notin {"check", "wait", "exit"}
      BY <2>1, <2>4, <2>5 DEF PhaseInv
    <3>2. \A u \in Threads : pc'[u] \in {"report", "signal"} => tickets'[job'[u]].status # "open"
      BY <1>1, <2>1, <2>4 DEF PhaseInv
    <3>3. \A u \in Threads : child'[u].alive => pc'[u] = "running"
      BY <1>1, <2>1 DEF PhaseInv
    <3> QED
      BY <1>1, <3>1, <3>2, <3>3 DEF PhaseInv
  <2>11. LockInv' /\ PointerHasFile'
    BY <1>3, <1>5 DEF Steps
  <2> QED
    BY <2>6, <2>7, <2>8, <2>9, <2>10, <2>11
<1> QED
  BY <1>4, <1>5 DEF Loop

(* A step of a thread that leaves the lock, the files and the pointers     *)
(* alone and does not end at the pointer write.                            *)
LEMMA LockKept ==
  ASSUME FitInv, NEW t \in Threads, pc[t] # "pointer", NEW step \in Steps \ {"pointer"},
         pc' = [pc EXCEPT ![t] = step],
         UNCHANGED <<lock, closed, job, files, pointer, reader>>,
         Len(tickets') = Len(tickets),
         \A i \in 1 .. Len(tickets) :
           tickets'[i].signal = tickets[i].signal /\ tickets'[i].cutoff = tickets[i].cutoff
  PROVE  LockInv' /\ PointerHasFile'
<1> USE DEF FitInv
<1>1. \A u \in Threads : pc'[u] = IF u = t THEN step ELSE pc[u]
  BY DEF TypeOK
<1>2. ASSUME NEW u \in Threads, pc[u] = "pointer"
      PROVE  Signal(u)' = Signal(u) /\ Cutoff(u)' = Cutoff(u) /\ Newer(u)' = Newer(u)
  <2>1. job[u] \in 1 .. Len(tickets)
    BY <1>2 DEF PhaseInv, TypeOK
  <2>2. Signal(u)' = Signal(u) /\ Cutoff(u)' = Cutoff(u)
    BY <2>1 DEF Signal, Cutoff
  <2> QED
    BY <2>2 DEF Newer
<1>3. LockInv'
  BY <1>1, <1>2 DEF LockInv
<1> QED
  BY <1>3 DEF PointerHasFile

(* A result of a thread that holds no lock.                                *)
LEMMA ResultStep ==
  ASSUME FitInv, NEW t \in Threads, pc[t] \in {"dequeued", "reaped", "publish"},
         NEW status \in {"promoted", "unchanged", "failed"}, NEW reason \in Reasons \cup {None},
         Result(t, status, reason),
         child' \in [Threads -> ChildType], \A u \in Threads : child'[u].alive => child[u].alive,
         UNCHANGED <<queue, bySignal, closed, failures, job, lock, closer, dropped, files, pointer, reader, crashes>>
  PROVE  FitInv'
<1>1. /\ tickets' \in Seq(TicketType) /\ Len(tickets') = Len(tickets)
      /\ \A i \in 1 .. Len(tickets) :
           tickets'[i].signal = tickets[i].signal /\ tickets'[i].cutoff = tickets[i].cutoff
      /\ pc' \in [Threads -> Steps] /\ pc' = [pc EXCEPT ![t] = "report"]
      /\ PlaceInv' /\ SignalInv' /\ ApartInv' /\ PhaseInv'
  BY ResultKeeps
<1>2. TypeOK'
  BY <1>1 DEF FitInv, TypeOK
<1>3. LockInv' /\ PointerHasFile'
  <2>1. "report" \in Steps \ {"pointer"}
    BY DEF Steps
  <2> QED
    BY <1>1, <2>1, LockKept
<1> QED
  BY <1>1, <1>2, <1>3 DEF FitInv

(* A thread that goes on without a result and without the lock.            *)
LEMMA MoveStep ==
  ASSUME FitInv, NEW t \in Threads, pc[t] \in {"dequeued", "running", "reaped"},
         NEW step \in {"running", "reaped", "publish"}, pc' = [pc EXCEPT ![t] = step],
         child' \in [Threads -> ChildType],
         \A u \in Threads : child'[u].alive => (u # t /\ child[u].alive) \/ (u = t /\ step = "running"),
         UNCHANGED <<tickets, queue, bySignal, closed, failures, job, lock, closer, dropped, files, pointer, reader, crashes>>
  PROVE  FitInv'
<1>1. pc' \in [Threads -> Steps] /\ PlaceInv' /\ SignalInv' /\ ApartInv' /\ PhaseInv'
  BY MoveKeeps
<1>2. TypeOK'
  BY <1>1 DEF FitInv, TypeOK
<1>3. LockInv' /\ PointerHasFile'
  <2>1. step \in Steps \ {"pointer"}
    BY DEF Steps
  <2> QED
    BY <2>1, LockKept
<1> QED
  BY <1>1, <1>2, <1>3 DEF FitInv

(* A child is started only under the lock and while the worker is open.    *)
LEMMA StartFitKeeps ==
  ASSUME FitInv, NEW t \in Threads, StartFit(t)
  PROVE  FitInv'
<1>1. /\ pc[t] = "dequeued" /\ child \in [Threads -> ChildType]
      /\ UNCHANGED <<queue, bySignal, closed, failures, job, lock, closer, dropped, files, pointer, reader, crashes>>
  BY DEF StartFit, disk, FitInv, TypeOK
<1>2. \/ Result(t, "failed", "resource") /\ UNCHANGED child
      \/ Result(t, "failed", "storage") /\ UNCHANGED child
      \/ /\ pc' = [pc EXCEPT ![t] = "running"]
         /\ child' = [child EXCEPT ![t] = [NoChild EXCEPT !.alive = TRUE]]
         /\ UNCHANGED tickets
  BY DEF StartFit
<1>3. CASE Result(t, "failed", "resource") /\ UNCHANGED child
  <2>1. "resource" \in Reasons \cup {None}
    BY DEF Reasons
  <2> QED
    BY <1>1, <1>3, <2>1, ResultStep
<1>4. CASE Result(t, "failed", "storage") /\ UNCHANGED child
  <2>1. "storage" \in Reasons \cup {None}
    BY DEF Reasons
  <2> QED
    BY <1>1, <1>4, <2>1, ResultStep
<1>5. CASE /\ pc' = [pc EXCEPT ![t] = "running"]
           /\ child' = [child EXCEPT ![t] = [NoChild EXCEPT !.alive = TRUE]]
           /\ UNCHANGED tickets
  <2>1. [NoChild EXCEPT !.alive = TRUE] \in ChildType
    BY DEF NoChild, ChildType
  <2>2. child' \in [Threads -> ChildType] /\ \A u \in Threads : u # t => child'[u] = child[u]
    BY <1>1, <1>5, <2>1
  <2> QED
    BY <1>1, <1>5, <2>2, MoveStep
<1> QED
  BY <1>2, <1>3, <1>4, <1>5

(* A child that sends, ends or is killed is no thread's step.              *)
LEMMA ChildKeeps ==
  ASSUME FitInv, NEW t \in Threads, ChildSends(t) \/ ChildExits(t) \/ Expire(t)
  PROVE  FitInv'
<1> USE DEF FitInv
<1>1. UNCHANGED <<tickets, queue, bySignal, closed, failures, pc, job, lock, closer, dropped, files, pointer, reader, crashes>>
  BY DEF ChildSends, ChildExits, Expire, disk
<1>2. child' \in [Threads -> ChildType] /\ \A u \in Threads : child'[u].alive => child[u].alive
  <2>1. child \in [Threads -> ChildType]
    BY DEF TypeOK
  <2>2. CASE ChildSends(t)
    <3>1. PICK m \in {"ok", "error"} : child' = [child EXCEPT ![t].sent = m]
      BY <2>2 DEF ChildSends
    <3> QED
      BY <2>1, <3>1 DEF ChildType
  <2>3. CASE ChildExits(t)
    <3>1. PICK clean \in BOOLEAN : child' = [child EXCEPT ![t].alive = FALSE, ![t].clean = clean]
      BY <2>3 DEF ChildExits
    <3> QED
      BY <2>1, <3>1, ZenonT(60) DEF ChildType
  <2>4. CASE Expire(t)
    BY <2>1, <2>4, ZenonT(60) DEF ChildType, Expire
  <2> QED
    BY <2>2, <2>3, <2>4
<1>3. TypeOK'
  BY <1>1, <1>2 DEF TypeOK
<1>4. PlaceInv' /\ SignalInv' /\ ApartInv'
  <2>1. PlaceInv'
    BY <1>1 DEF PlaceInv, Range1
  <2>2. SignalInv'
    BY <1>1 DEF SignalInv, Range1
  <2>3. ApartInv'
    BY <1>1, ZenonT(60) DEF ApartInv, Range1, Distinct
  <2> QED
    BY <2>1, <2>2, <2>3
<1>5. PhaseInv'
  BY <1>1, <1>2 DEF PhaseInv
<1>6. LockInv' /\ PointerHasFile'
  BY <1>1 DEF LockInv, PointerHasFile, Newer, Signal, Cutoff
<1> QED
  BY <1>3, <1>4, <1>5, <1>6

(* The child is gone before its message is looked at.                      *)
LEMMA ReapKeeps ==
  ASSUME FitInv, NEW t \in Threads, Reap(t)
  PROVE  FitInv'
<1>1. /\ pc[t] = "running" /\ ~child[t].alive /\ pc' = [pc EXCEPT ![t] = "reaped"]
      /\ child \in [Threads -> ChildType] /\ child' = child
      /\ UNCHANGED <<tickets, queue, bySignal, closed, failures, job, lock, closer, dropped, files, pointer, reader, crashes>>
  BY DEF Reap, disk, FitInv, TypeOK
<1> QED
  BY <1>1, MoveStep

(* Judging ends with a result, or goes on to publication.                  *)
LEMMA JudgeKeeps ==
  ASSUME FitInv, NEW t \in Threads, Judge(t)
  PROVE  FitInv'
<1>1. /\ pc[t] = "reaped" /\ child \in [Threads -> ChildType]
      /\ child' = [child EXCEPT ![t] = NoChild]
      /\ UNCHANGED <<queue, bySignal, closed, failures, job, lock, closer, dropped, files, pointer, reader, crashes>>
  BY DEF Judge, disk, FitInv, TypeOK
<1>2. /\ child' \in [Threads -> ChildType]
      /\ \A u \in Threads : child'[u].alive => u # t /\ child[u].alive
  <2>1. NoChild \in ChildType /\ ~NoChild.alive
    BY DEF NoChild, ChildType
  <2> QED
    BY <1>1, <2>1
<1>3. \/ \E r \in {"timeout", "fit", "resource"} : Result(t, "failed", r)
      \/ pc' = [pc EXCEPT ![t] = "publish"] /\ UNCHANGED tickets
  BY DEF Judge
<1>4. ASSUME NEW r \in {"timeout", "fit", "resource"}, Result(t, "failed", r)
      PROVE  FitInv'
  <2>1. r \in Reasons \cup {None}
    BY DEF Reasons
  <2> QED
    BY <1>1, <1>2, <1>4, <2>1, ResultStep
<1>5. CASE pc' = [pc EXCEPT ![t] = "publish"] /\ UNCHANGED tickets
  BY <1>1, <1>2, <1>5, MoveStep
<1> QED
  BY <1>3, <1>4, <1>5

(* Publication takes the lock only while open and with a newer cutoff, and *)
(* the artifact file is written before the pointer.                        *)
LEMMA PublishKeeps ==
  ASSUME FitInv, NEW t \in Threads, Publish(t)
  PROVE  FitInv'
<1>1. /\ pc[t] = "publish" /\ lock = None /\ child \in [Threads -> ChildType]
      /\ UNCHANGED <<queue, bySignal, closed, failures, job, child, closer, dropped, pointer, reader, crashes>>
  BY DEF Publish, FitInv, TypeOK
<1>2. \/ /\ \/ Result(t, "failed", "resource") \/ Result(t, "failed", "storage")
            \/ Result(t, "unchanged", None)
         /\ UNCHANGED <<lock, files>>
      \/ /\ ~closed /\ Newer(t) /\ files' = files \cup {<<Signal(t), Cutoff(t)>>} /\ lock' = t
         /\ pc' = [pc EXCEPT ![t] = "pointer"] /\ UNCHANGED tickets
  BY DEF Publish, MayPublish
<1>3. ASSUME \/ Result(t, "failed", "resource") \/ Result(t, "failed", "storage")
             \/ Result(t, "unchanged", None),
             UNCHANGED <<lock, files>>
      PROVE  FitInv'
  <2>1. {"resource", "storage", None} \subseteq Reasons \cup {None}
    BY DEF Reasons
  <2> QED
    BY <1>1, <1>3, <2>1, ResultStep
<1>4. ASSUME ~closed, Newer(t), files' = files \cup {<<Signal(t), Cutoff(t)>>}, lock' = t,
             pc' = [pc EXCEPT ![t] = "pointer"], UNCHANGED tickets
      PROVE  FitInv'
  <2>1. job[t] \in 1 .. Len(tickets) /\ ~child[t].alive
    BY <1>1 DEF FitInv, TypeOK, PhaseInv
  <2>2. pc' \in [Threads -> Steps] /\ PlaceInv' /\ SignalInv' /\ ApartInv' /\ PhaseInv'
    BY <1>1, <1>4, <2>1, MoveKeeps
  <2>3. \A u \in Threads : pc'[u] = IF u = t THEN "pointer" ELSE pc[u]
    BY <1>4 DEF FitInv, TypeOK
  <2>4. <<Signal(t), Cutoff(t)>> \in Signals \X Cutoffs
    BY <2>1, Types DEF FitInv, Signal, Cutoff, TicketType
  <2>5. TypeOK'
    BY <1>1, <1>4, <2>2, <2>4 DEF FitInv, TypeOK
  <2>6. Signal(t)' = Signal(t) /\ Cutoff(t)' = Cutoff(t)
    BY <1>1, <1>4 DEF Signal, Cutoff
  <2>7. Newer(t)'
    BY <1>1, <1>4, <2>6 DEF Newer
  <2>8. \A u \in Threads : pc[u] # "pointer"
    BY <1>1, Types DEF FitInv, LockInv
  <2>9. LockInv'
    BY <1>1, <1>4, <2>3, <2>6, <2>7, <2>8 DEF LockInv
  <2>10. PointerHasFile'
    BY <1>1, <1>4 DEF FitInv, PointerHasFile
  <2> QED
    BY <2>2, <2>5, <2>9, <2>10 DEF FitInv
<1> QED
  BY <1>2, <1>3, <1>4

(* The pointer moves to the file just written and the lock is let go.      *)
LEMMA PromotePointerKeeps ==
  ASSUME FitInv, NEW t \in Threads, PromotePointer(t)
  PROVE  FitInv'
<1>1. /\ pc[t] = "pointer" /\ lock' = None
      /\ UNCHANGED <<queue, bySignal, closed, failures, job, child, closer, dropped, files, reader, crashes>>
  BY DEF PromotePointer
<1>2. \/ pointer' = [pointer EXCEPT ![Signal(t)] = Cutoff(t)] /\ Result(t, "promoted", None)
      \/ UNCHANGED pointer /\ Result(t, "failed", "storage")
  BY DEF PromotePointer
<1>3. /\ tickets' \in Seq(TicketType) /\ Len(tickets') = Len(tickets)
      /\ pc' \in [Threads -> Steps] /\ pc' = [pc EXCEPT ![t] = "report"]
      /\ PlaceInv' /\ SignalInv' /\ ApartInv' /\ PhaseInv'
  <2>1. "storage" \in Reasons
    BY DEF Reasons
  <2> QED
    BY <1>1, <1>2, <2>1, ResultKeeps
<1>4. /\ Signal(t) \in Signals /\ Cutoff(t) \in Cutoffs /\ <<Signal(t), Cutoff(t)>> \in files
  <2>1. job[t] \in 1 .. Len(tickets)
    BY <1>1 DEF FitInv, TypeOK, PhaseInv
  <2> QED
    BY <1>1, <2>1, Types DEF FitInv, Signal, Cutoff, TicketType, LockInv
<1>5. /\ pointer' \in [Signals -> Cutoffs \cup {None}]
      /\ \A s \in Signals : pointer'[s] = pointer[s] \/ (s = Signal(t) /\ pointer'[s] = Cutoff(t))
  BY <1>2, <1>4 DEF FitInv, TypeOK
<1>6. TypeOK'
  BY <1>1, <1>3, <1>5 DEF FitInv, TypeOK
<1>7. LockInv'
  <2>1. \A u \in Threads : pc'[u] # "pointer" /\ lock' # u
    BY <1>1, <1>3, Types DEF FitInv, TypeOK, LockInv
  <2> QED
    BY <2>1 DEF LockInv
<1>8. PointerHasFile'
  BY <1>1, <1>4, <1>5 DEF FitInv, PointerHasFile
<1> QED
  BY <1>3, <1>6, <1>7, <1>8 DEF FitInv

(* The thread reports: its signal may be submitted again, every other      *)
(* ticket in flight keeps its entry.                                       *)
LEMMA ReportKeeps ==
  ASSUME FitInv, NEW t \in Threads, Report(t)
  PROVE  FitInv'
<1> USE DEF FitInv
<1> DEFINE Q == Range1(queue)
           s == tickets[job[t]].signal
<1>1. /\ pc[t] = "report" /\ lock = None /\ bySignal' = [bySignal EXCEPT ![s] = None]
      /\ pc' = [pc EXCEPT ![t] = "signal"]
      /\ UNCHANGED <<tickets, queue, closed, job, child, lock, closer, dropped, files, pointer, reader, crashes>>
  BY DEF Report, disk
<1>2. failures' \in [Reasons -> Nat]
  <2>1. ASSUME NEW x, failures' = [failures EXCEPT ![x] = @ + 1] PROVE failures' \in [Reasons -> Nat]
    <3>1. failures' = [y \in Reasons |-> IF y = x THEN failures[y] + 1 ELSE failures[y]]
      BY <2>1, Zenon DEF TypeOK
    <3>2. \A y \in Reasons : failures[y] \in Nat /\ failures[y] + 1 \in Nat
      BY DEF TypeOK
    <3> QED
      BY <3>1, <3>2
  <2>2. failures' = failures \/ failures' = [failures EXCEPT ![tickets[job[t]].reason] = @ + 1]
    BY Zenon DEF Report
  <2> QED
    BY <2>1, <2>2 DEF TypeOK
<1>3. pc' \in [Threads -> Steps] /\ \A u \in Threads : pc'[u] = IF u = t THEN "signal" ELSE pc[u]
  BY <1>1 DEF TypeOK, Steps
<1>4. job[t] \in 1 .. Len(tickets) /\ s \in Signals /\ bySignal[s] = job[t]
  <2>1. job[t] # None /\ job[t] \in 1 .. Len(tickets)
    BY <1>1 DEF PhaseInv, TypeOK
  <2>2. tickets[job[t]] \in TicketType
    BY <2>1, Types
  <2>3. s \in Signals
    BY <2>2 DEF TicketType
  <2> QED
    BY <1>1, <2>1, <2>3 DEF SignalInv
<1>5. /\ bySignal' \in [Signals -> (1 .. Len(tickets)) \cup {None}]
      /\ \A x \in Signals : x # s => bySignal'[x] = bySignal[x]
  BY <1>1, <1>4 DEF TypeOK
<1>6. /\ Q \subseteq 1 .. Len(tickets) /\ job[t] \notin Q /\ Range1(queue)' = Q
  BY <1>1, Types, ZenonT(60) DEF ApartInv, Range1
<1> HIDE DEF s, Q
<1>7. TypeOK'
  BY <1>1, <1>2, <1>3, <1>5 DEF TypeOK
<1>8. PlaceInv'
  BY <1>1, <1>3, <1>6 DEF PlaceInv, Q
<1>9. SignalInv'
  <2>1. ASSUME NEW i \in Q PROVE bySignal'[tickets'[i].signal] = i
    <3>1. tickets[i].signal \in Signals /\ bySignal[tickets[i].signal] = i /\ i # job[t]
      BY <1>6, Types DEF SignalInv, Q, TicketType
    <3> QED
      BY <1>1, <1>4, <1>5, <3>1
  <2>2. ASSUME NEW u \in Threads, job[u] # None, pc'[u] # "signal"
        PROVE  bySignal'[tickets'[job[u]].signal] = job[u]
    <3>1. u # t /\ pc[u] # "signal" /\ job[u] # job[t] /\ job[u] \in 1 .. Len(tickets)
      BY <1>3, <2>2 DEF ApartInv, TypeOK
    <3>2. tickets[job[u]].signal \in Signals /\ bySignal[tickets[job[u]].signal] = job[u]
      BY <2>2, <3>1, Types DEF SignalInv, TicketType
    <3> QED
      BY <1>1, <1>4, <1>5, <3>1, <3>2
  <2> QED
    BY <1>1, <1>6, <2>1, <2>2 DEF SignalInv
<1>10. ApartInv'
  BY <1>1, <1>6 DEF ApartInv, Q, Distinct
<1>11. PhaseInv'
  BY <1>1, <1>3 DEF PhaseInv
<1>12. LockInv' /\ PointerHasFile'
  <2>1. \A u \in Threads : pc'[u] # "pointer" /\ lock' # u
    BY <1>1, <1>3, Types DEF LockInv
  <2> QED
    BY <1>1, <2>1 DEF LockInv, PointerHasFile
<1> QED
  BY <1>7, <1>8, <1>9, <1>10, <1>11, <1>12

(* The ticket is resolved, and the thread lets go of it.                   *)
LEMMA SetDoneKeeps ==
  ASSUME FitInv, NEW t \in Threads, SetDone(t)
  PROVE  FitInv'
<1> USE DEF FitInv
<1> DEFINE Q == Range1(queue)
           k == [tickets[job[t]] EXCEPT !.done = TRUE]
<1>1. /\ pc[t] = "signal" /\ pc' = [pc EXCEPT ![t] = "check"] /\ job' = [job EXCEPT ![t] = None]
      /\ tickets' = [tickets EXCEPT ![job[t]] = k]
      /\ UNCHANGED <<queue, bySignal, closed, failures, child, lock, closer, dropped, files, pointer, reader, crashes>>
  BY DEF SetDone, disk
<1>2. job[t] \in 1 .. Len(tickets) /\ tickets \in Seq(TicketType) /\ tickets[job[t]].status # "open"
  BY <1>1 DEF PhaseInv, TypeOK
<1>3. /\ k \in TicketType /\ k.signal = tickets[job[t]].signal /\ k.cutoff = tickets[job[t]].cutoff
      /\ k.done /\ k.status = tickets[job[t]].status
  <2>1. ASSUME NEW x \in TicketType, NEW m, m = [x EXCEPT !.done = TRUE]
        PROVE  /\ m \in TicketType /\ m.signal = x.signal /\ m.cutoff = x.cutoff
               /\ m.done /\ m.status = x.status
    BY <2>1 DEF TicketType
  <2>2. tickets[job[t]] \in TicketType
    BY <1>2, Types
  <2> HIDE DEF k
  <2>3. k = [tickets[job[t]] EXCEPT !.done = TRUE]
    BY DEF k
  <2> QED
    BY <2>1, <2>2, <2>3
<1> HIDE DEF k
<1>4. /\ tickets' \in Seq(TicketType) /\ Len(tickets') = Len(tickets)
      /\ \A j \in 1 .. Len(tickets) : tickets'[j] = IF j = job[t] THEN k ELSE tickets[j]
  BY <1>1, <1>2, <1>3, ExceptSeq
<1>5. \A j \in 1 .. Len(tickets) :
        /\ tickets'[j].signal = tickets[j].signal /\ tickets'[j].cutoff = tickets[j].cutoff
        /\ tickets'[j].status = tickets[j].status
        /\ tickets'[j].done <=> tickets[j].done \/ j = job[t]
  BY <1>3, <1>4
<1>6. /\ pc' \in [Threads -> Steps] /\ \A u \in Threads : pc'[u] = IF u = t THEN "check" ELSE pc[u]
      /\ job' \in [Threads -> (1 .. Len(tickets)) \cup {None}]
      /\ \A u \in Threads : job'[u] = IF u = t THEN None ELSE job[u]
  BY <1>1 DEF TypeOK, Steps
<1>7. /\ Q \subseteq 1 .. Len(tickets) /\ None \notin Q /\ Range1(queue)' = Q
  BY <1>1, Types DEF Range1
<1> HIDE DEF Q
<1>8. TypeOK'
  BY <1>1, <1>4, <1>6 DEF TypeOK
<1>9. PlaceInv'
  <2>1. ASSUME NEW i \in 1 .. Len(tickets), ~tickets'[i].done
        PROVE  \/ i \in Q
               \/ \E u \in Threads : job'[u] = i
               \/ i \in dropped /\ closer = "resolve"
    <3>1. ~tickets[i].done /\ i # job[t]
      BY <1>5, <2>1
    <3>2. CASE \E u \in Threads : job[u] = i
      BY <1>6, <3>1, <3>2
    <3> QED
      BY <3>1, <3>2 DEF PlaceInv, Q
  <2>2. closer # "done"
    BY <1>1 DEF PlaceInv
  <2> QED
    BY <1>1, <1>4, <1>7, <2>1, <2>2 DEF PlaceInv
<1>10. SignalInv'
  <2>1. \A i \in Q : bySignal'[tickets'[i].signal] = i
    BY <1>1, <1>5, <1>7 DEF SignalInv, Q
  <2>2. ASSUME NEW u \in Threads, job'[u] # None, pc'[u] # "signal"
        PROVE  bySignal'[tickets'[job'[u]].signal] = job'[u]
    <3>1. u # t /\ job'[u] = job[u] /\ pc'[u] = pc[u] /\ job[u] \in 1 .. Len(tickets)
      BY <1>6, <2>2
    <3> QED
      BY <1>1, <1>5, <2>2, <3>1 DEF SignalInv
  <2> QED
    BY <1>7, <2>1, <2>2 DEF SignalInv
<1>11. ApartInv'
  <2>1. \A u \in Threads : job'[u] \notin Q
    BY <1>6, <1>7 DEF ApartInv, Q
  <2>2. \A u, v \in Threads : job'[u] = job'[v] /\ job'[u] # None => u = v
    BY <1>6 DEF ApartInv
  <2> QED
    BY <1>1, <1>7, <2>1, <2>2 DEF ApartInv, Distinct
<1>12. PhaseInv'
  <2>1. \A u \in Threads : job'[u] # None <=> pc'[u] \notin {"check", "wait", "exit"}
    BY <1>6 DEF PhaseInv
  <2>2. ASSUME NEW u \in Threads, pc'[u] \in {"report", "signal"} PROVE tickets'[job'[u]].status # "open"
    <3>1. u # t /\ job'[u] = job[u] /\ pc'[u] = pc[u] /\ job[u] \in 1 .. Len(tickets)
      BY <1>6, <2>1, <2>2
    <3> QED
      BY <1>5, <2>2, <3>1 DEF PhaseInv
  <2>3. \A i \in 1 .. Len(tickets) : tickets'[i].done => tickets'[i].status # "open"
    BY <1>2, <1>5, ZenonT(60) DEF PhaseInv
  <2>4. \A u \in Threads : child'[u].alive => pc'[u] = "running"
    BY <1>1, <1>6 DEF PhaseInv
  <2> QED
    BY <1>4, <2>1, <2>2, <2>3, <2>4 DEF PhaseInv
<1>13. LockInv'
  <2>1. ASSUME NEW u \in Threads, pc'[u] = "pointer"
        PROVE  ~closed' /\ Newer(u)' /\ <<Signal(u), Cutoff(u)>>' \in files'
    <3>1. u # t /\ job'[u] = job[u] /\ pc[u] = "pointer" /\ job[u] \in 1 .. Len(tickets)
      BY <1>6, <2>1 DEF PhaseInv, TypeOK
    <3>2. Signal(u)' = Signal(u) /\ Cutoff(u)' = Cutoff(u)
      BY <1>5, <3>1 DEF Signal, Cutoff
    <3> QED
      BY <1>1, <3>1, <3>2 DEF LockInv, Newer
  <2>2. \A u \in Threads : lock' = u <=> pc'[u] = "pointer"
    BY <1>1, <1>6 DEF LockInv
  <2> QED
    BY <2>1, <2>2 DEF LockInv
<1>14. PointerHasFile'
  BY <1>1 DEF PointerHasFile
<1> QED
  BY <1>8, <1>9, <1>10, <1>11, <1>12, <1>13, <1>14

(* close() takes the whole queue; what the threads work on keeps its entry *)
(* and no thread is at the pointer write.                                  *)
LEMMA CloseKeeps ==
  ASSUME FitInv, Close
  PROVE  FitInv'
<1> USE DEF FitInv
<1> DEFINE Q == Range1(queue)
<1>1. /\ closer = "open" /\ lock = None /\ closed' = TRUE /\ closer' = "resolve"
      /\ dropped' = Q /\ queue' = <<>>
      /\ bySignal' = [s \in Signals |-> IF bySignal[s] \in Q THEN None ELSE bySignal[s]]
      /\ pc' = [t \in Threads |-> IF pc[t] = "wait" THEN "check" ELSE pc[t]]
      /\ child' = [t \in Threads |-> IF pc[t] = "running" THEN [child[t] EXCEPT !.alive = FALSE] ELSE child[t]]
      /\ UNCHANGED <<tickets, failures, job, lock, files, pointer, reader, crashes>>
  BY DEF Close, NotifyAll, disk
<1>2. /\ Q \subseteq 1 .. Len(tickets) /\ Range1(queue)' = {}
      /\ queue' \in Seq(1 .. Len(tickets)) /\ Len(queue') = 0 /\ Distinct(queue)'
  <2>1. Q \subseteq 1 .. Len(tickets)
    BY Types
  <2>2. /\ DOMAIN queue' = {} /\ queue' \in Seq(1 .. Len(tickets)) /\ Len(queue') = 0
    BY <1>1
  <2> QED
    BY <2>1, <2>2 DEF Range1, Distinct
<1>3. /\ pc' \in [Threads -> Steps]
      /\ \A t \in Threads : pc'[t] = IF pc[t] = "wait" THEN "check" ELSE pc[t]
  BY <1>1 DEF TypeOK, Steps
<1>4. child' \in [Threads -> ChildType] /\ \A t \in Threads : child'[t].alive => child[t].alive
  <2>1. child \in [Threads -> ChildType]
    BY DEF TypeOK
  <2>2. ASSUME NEW c \in ChildType, NEW m, m = [c EXCEPT !.alive = FALSE]
        PROVE  m \in ChildType /\ ~m.alive
    BY <2>2 DEF ChildType
  <2>3. ASSUME NEW t \in Threads
        PROVE  child'[t] \in ChildType /\ (child'[t].alive => child[t].alive)
    <3>1. CASE pc[t] = "running"
      <4>1. child'[t] = [child[t] EXCEPT !.alive = FALSE]
        BY <1>1, <3>1
      <4>2. child[t] \in ChildType
        BY <2>1
      <4> HIDE DEF ChildType
      <4> QED
        BY <2>2, <4>1, <4>2
    <3>2. CASE pc[t] # "running"
      BY <1>1, <2>1, <3>2
    <3> QED
      BY <3>1, <3>2
  <2>4. child' = [t \in Threads |-> child'[t]]
    BY <1>1
  <2> QED
    BY <2>3, <2>4
<1> HIDE DEF Q
<1>5. /\ bySignal' \in [Signals -> (1 .. Len(tickets)) \cup {None}]
      /\ \A s \in Signals : bySignal[s] \notin Q => bySignal'[s] = bySignal[s]
  BY <1>1 DEF TypeOK
<1>6. \A t \in Threads : pc[t] # "pointer" /\ lock # t
  BY <1>1, Types DEF LockInv
<1>7. TypeOK'
  BY <1>1, <1>2, <1>3, <1>4, <1>5, FitConstants DEF TypeOK
<1>8. PlaceInv'
  <2>1. \A i \in 1 .. Len(tickets) : ~tickets[i].done => i \in Q \/ \E t \in Threads : job[t] = i
    BY <1>1 DEF PlaceInv, Q
  <2> QED
    BY <1>1, <2>1 DEF PlaceInv
<1>9. SignalInv'
  <2>1. ASSUME NEW t \in Threads, job[t] # None, pc'[t] # "signal"
        PROVE  bySignal'[tickets[job[t]].signal] = job[t]
    <3>1. /\ job[t] \in 1 .. Len(tickets) /\ job[t] \notin Q
          /\ bySignal[tickets[job[t]].signal] = job[t]
      BY <1>3, <2>1 DEF SignalInv, ApartInv, TypeOK, Q
    <3>2. tickets[job[t]].signal \in Signals
      BY <3>1, Types DEF TicketType
    <3> QED
      BY <1>5, <3>1, <3>2
  <2> QED
    BY <1>1, <1>2, <2>1 DEF SignalInv
<1>10. ApartInv'
  BY <1>1, <1>2 DEF ApartInv
<1>11. PhaseInv'
  BY <1>1, <1>3, <1>4 DEF PhaseInv
<1>12. LockInv'
  BY <1>1, <1>3, <1>6 DEF LockInv
<1>13. PointerHasFile'
  BY <1>1 DEF PointerHasFile
<1> QED
  BY <1>7, <1>8, <1>9, <1>10, <1>11, <1>12, <1>13

(* The tickets close() took are resolved, all the others stay as they are. *)
LEMMA ResolveDroppedKeeps ==
  ASSUME FitInv, ResolveDropped
  PROVE  FitInv'
<1> USE DEF FitInv
<1> DEFINE n == Len(tickets)
           f == [i \in 1 .. n |-> IF i \in dropped
                                  THEN [With(tickets[i], "failed", "resource") EXCEPT !.done = TRUE]
                                  ELSE tickets[i]]
<1>1. /\ closer = "resolve" /\ closer' = "join" /\ tickets' = f
      /\ UNCHANGED <<queue, bySignal, closed, failures, pc, job, child, lock, dropped, files, pointer, reader, crashes>>
  BY Types DEF ResolveDropped, disk
<1>2. ASSUME NEW i \in 1 .. n
      PROVE  /\ f[i] \in TicketType
             /\ f[i].signal = tickets[i].signal /\ f[i].cutoff = tickets[i].cutoff
             /\ f[i].status = (IF i \in dropped THEN "failed" ELSE tickets[i].status)
             /\ f[i].done <=> tickets[i].done \/ i \in dropped
  <2>1. ASSUME NEW x \in TicketType, NEW m, m = [With(x, "failed", "resource") EXCEPT !.done = TRUE]
        PROVE  /\ m \in TicketType /\ m.signal = x.signal /\ m.cutoff = x.cutoff
               /\ m.status = "failed" /\ m.done
    BY <2>1 DEF With, TicketType, Reasons
  <2>2. tickets[i] \in TicketType
    BY Types
  <2>3. CASE i \in dropped
    <3>1. f[i] = [With(tickets[i], "failed", "resource") EXCEPT !.done = TRUE]
      BY <2>3
    <3> HIDE DEF f
    <3> QED
      BY <2>1, <2>2, <2>3, <3>1
  <2>4. CASE i \notin dropped
    <3>1. f[i] = tickets[i]
      BY <2>4
    <3> HIDE DEF f
    <3> QED
      BY <2>2, <2>4, <3>1
  <2> QED
    BY <2>3, <2>4
<1>3. f \in [1 .. n -> TicketType]
  <2>1. \A i \in 1 .. n : f[i] \in TicketType
    BY <1>2
  <2> QED
    BY <2>1
<1> HIDE DEF f
<1>4. /\ tickets' \in Seq(TicketType) /\ Len(tickets') = n
      /\ \A i \in 1 .. n : tickets'[i] = f[i]
  BY <1>1, <1>3, Types, FunctionSeq
<1>5. \A i \in 1 .. n :
        /\ tickets'[i].signal = tickets[i].signal /\ tickets'[i].cutoff = tickets[i].cutoff
        /\ tickets'[i].status = (IF i \in dropped THEN "failed" ELSE tickets[i].status)
        /\ tickets'[i].done <=> tickets[i].done \/ i \in dropped
  BY <1>2, <1>4
<1>6. Range1(queue) \subseteq 1 .. n /\ Range1(queue)' = Range1(queue)
  BY <1>1, Types DEF Range1
<1> HIDE DEF n
<1>7. TypeOK'
  BY <1>1, <1>4 DEF TypeOK, n
<1>8. PlaceInv'
  BY <1>1, <1>4, <1>5, <1>6 DEF PlaceInv, n
<1>9. SignalInv'
  <2>1. \A i \in Range1(queue) : bySignal'[tickets'[i].signal] = i
    BY <1>1, <1>5, <1>6 DEF SignalInv
  <2>2. ASSUME NEW t \in Threads, job[t] # None, pc[t] # "signal"
        PROVE  bySignal'[tickets'[job[t]].signal] = job[t]
    <3>1. job[t] \in 1 .. n
      BY <2>2 DEF TypeOK, n
    <3> QED
      BY <1>1, <1>5, <2>2, <3>1 DEF SignalInv
  <2> QED
    BY <1>1, <1>6, <2>1, <2>2 DEF SignalInv
<1>10. ApartInv'
  BY <1>1, <1>6 DEF ApartInv, Distinct
<1>11. PhaseInv'
  <2>1. ASSUME NEW t \in Threads, pc[t] \in {"report", "signal"} PROVE tickets'[job[t]].status # "open"
    <3>1. job[t] \in 1 .. n
      BY <2>1 DEF TypeOK, PhaseInv, n
    <3> QED
      BY <1>5, <2>1, <3>1 DEF PhaseInv
  <2>2. \A i \in 1 .. n : tickets'[i].done => tickets'[i].status # "open"
    BY <1>5 DEF PhaseInv, n
  <2> QED
    BY <1>1, <1>4, <2>1, <2>2 DEF PhaseInv
<1>12. LockInv'
  <2>1. \A t \in Threads : pc[t] # "pointer" /\ lock # t
    BY <1>1 DEF LockInv, PlaceInv
  <2> QED
    BY <1>1, <2>1 DEF LockInv
<1>13. PointerHasFile'
  BY <1>1 DEF PointerHasFile
<1> QED
  BY <1>7, <1>8, <1>9, <1>10, <1>11, <1>12, <1>13

(* close() returns only when every thread has ended, so no ticket is left. *)
LEMMA JoinKeeps ==
  ASSUME FitInv, Join
  PROVE  FitInv'
<1> USE DEF FitInv
<1>1. /\ closer = "join" /\ closer' = "done" /\ \A t \in Threads : pc[t] = "exit"
      /\ UNCHANGED <<tickets, queue, bySignal, closed, failures, pc, job, child, lock, dropped, files, pointer, reader, crashes>>
  BY DEF Join, disk
<1>2. TypeOK'
  BY <1>1 DEF TypeOK
<1>3. PlaceInv'
  BY <1>1 DEF PlaceInv, Range1
<1>4. SignalInv' /\ ApartInv' /\ PhaseInv'
  <2>1. SignalInv'
    BY <1>1 DEF SignalInv, Range1
  <2>2. ApartInv'
    BY <1>1 DEF ApartInv, Range1, Distinct
  <2>3. PhaseInv'
    BY <1>1 DEF PhaseInv
  <2> QED
    BY <2>1, <2>2, <2>3
<1>5. LockInv' /\ PointerHasFile'
  BY <1>1 DEF LockInv, PointerHasFile, Newer, Signal, Cutoff
<1> QED
  BY <1>2, <1>3, <1>4, <1>5

(* A request that loads an artifact changes nothing but its own position.  *)
LEMMA ReaderKeeps ==
  ASSUME FitInv, NEW q \in Readers, (\E s \in Signals : ReadPointer(q, s)) \/ ReadFile(q)
  PROVE  FitInv'
<1> USE DEF FitInv
<1>1. UNCHANGED <<tickets, queue, bySignal, closed, failures, pc, job, child, lock, closer, dropped, files, pointer, crashes>>
  BY DEF ReadPointer, ReadFile, volatile, disk
<1>2. /\ reader' \in [Readers -> (Signals \X Cutoffs) \cup {None}]
      /\ \A r \in Readers : reader'[r] # None => reader'[r] \in files
  <2>1. CASE \E s \in Signals : ReadPointer(q, s)
    <3>1. PICK s \in Signals : pointer[s] # None /\ reader' = [reader EXCEPT ![q] = <<s, pointer[s]>>]
      BY <2>1 DEF ReadPointer
    <3>2. <<s, pointer[s]>> \in files /\ files \subseteq Signals \X Cutoffs
      BY <3>1 DEF PointerHasFile, TypeOK
    <3> QED
      BY <3>1, <3>2 DEF PointerHasFile, TypeOK
  <2>2. CASE ReadFile(q)
    BY <2>2 DEF ReadFile, PointerHasFile, TypeOK
  <2> QED
    BY <2>1, <2>2
<1>3. TypeOK'
  BY <1>1, <1>2 DEF TypeOK
<1>4. PlaceInv' /\ SignalInv' /\ ApartInv' /\ PhaseInv'
  <2>1. PlaceInv'
    BY <1>1 DEF PlaceInv, Range1
  <2>2. SignalInv'
    BY <1>1 DEF SignalInv, Range1
  <2>3. ApartInv'
    BY <1>1 DEF ApartInv, Range1, Distinct
  <2>4. PhaseInv'
    BY <1>1 DEF PhaseInv
  <2> QED
    BY <2>1, <2>2, <2>3, <2>4
<1>5. LockInv'
  BY <1>1 DEF LockInv, Newer, Signal, Cutoff
<1>6. PointerHasFile'
  BY <1>1, <1>2 DEF PointerHasFile
<1> QED
  BY <1>3, <1>4, <1>5, <1>6

(* A process that has just started, over the files of an earlier one.      *)
Started ==
  /\ Fresh
  /\ files \subseteq Signals \X Cutoffs /\ pointer \in [Signals -> Cutoffs \cup {None}]
  /\ reader = [q \in Readers |-> None] /\ crashes \in 0 .. MaxCrashes
  /\ \A s \in Signals : pointer[s] # None => <<s, pointer[s]>> \in files

(* It has nothing in flight.                                               *)
LEMMA StartedInv == Started => FitInv
<1> SUFFICES ASSUME Started PROVE FitInv
  OBVIOUS
<1>1. /\ tickets = <<>> /\ queue = <<>> /\ bySignal = [s \in Signals |-> None] /\ closed = FALSE
      /\ failures = [r \in Reasons |-> 0] /\ pc = [t \in Threads |-> "check"]
      /\ job = [t \in Threads |-> None] /\ child = [t \in Threads |-> NoChild]
      /\ lock = None /\ closer = "open" /\ dropped = {}
  BY DEF Started, Fresh
<1>2. /\ Len(tickets) = 0 /\ tickets \in Seq(TicketType) /\ 1 .. Len(tickets) = {}
      /\ Len(queue) = 0 /\ queue \in Seq(1 .. Len(tickets)) /\ DOMAIN queue = {}
  BY <1>1
<1>3. Range1(queue) = {} /\ Distinct(queue)
  BY <1>2 DEF Range1, Distinct
<1>4. NoChild \in ChildType /\ ~NoChild.alive
  BY DEF NoChild, ChildType
<1>5. TypeOK
  <2>1. child \in [Threads -> ChildType]
    BY <1>1, <1>4
  <2>2. pc \in [Threads -> Steps] /\ failures \in [Reasons -> Nat]
    BY <1>1 DEF Steps
  <2>3. /\ bySignal \in [Signals -> (1 .. Len(tickets)) \cup {None}]
        /\ job \in [Threads -> (1 .. Len(tickets)) \cup {None}]
    BY <1>1
  <2>4. /\ files \subseteq Signals \X Cutoffs /\ pointer \in [Signals -> Cutoffs \cup {None}]
        /\ reader \in [Readers -> (Signals \X Cutoffs) \cup {None}] /\ crashes \in 0 .. MaxCrashes
    BY DEF Started
  <2>5. Len(tickets) <= MaxTickets /\ Len(queue) <= MaxPending
    BY <1>2, FitConstants
  <2>6. closed \in BOOLEAN /\ lock \in Threads \cup {None} /\ dropped \subseteq 1 .. Len(tickets)
    BY <1>1
  <2>7. closer \in {"open", "resolve", "join", "done"}
    BY <1>1
  <2> QED
    BY <1>2, <2>1, <2>2, <2>3, <2>4, <2>5, <2>6, <2>7 DEF TypeOK
<1>6. PlaceInv /\ SignalInv /\ ApartInv
  BY <1>1, <1>2, <1>3 DEF PlaceInv, SignalInv, ApartInv
<1>7. PhaseInv
  BY <1>1, <1>2, <1>4 DEF PhaseInv
<1>8. LockInv /\ PointerHasFile
  BY <1>1, FitConstants DEF LockInv, PointerHasFile, Started
<1> QED
  BY <1>5, <1>6, <1>7, <1>8 DEF FitInv

(* A crash leaves the files, and every pointer still names one of them.    *)
LEMMA CrashKeeps ==
  ASSUME FitInv, Crash
  PROVE  FitInv'
<1>1. /\ Fresh' /\ reader' = [q \in Readers |-> None] /\ files' = files /\ pointer' = pointer
      /\ crashes' = crashes + 1 /\ crashes < MaxCrashes
  BY DEF Crash, Fresh, disk
<1>2. crashes' \in 0 .. MaxCrashes
  BY <1>1, FitConstants DEF FitInv, TypeOK
<1>3. /\ files' \subseteq Signals \X Cutoffs /\ pointer' \in [Signals -> Cutoffs \cup {None}]
      /\ \A s \in Signals : pointer'[s] # None => <<s, pointer'[s]>> \in files'
  BY <1>1 DEF FitInv, TypeOK, PointerHasFile
<1>4. Started'
  BY <1>1, <1>2, <1>3 DEF Started
<1>5. Started' => FitInv'
  BY StartedInv, PTL
<1> QED
  BY <1>4, <1>5

-----------------------------------------------------------------------------
(* The invariant and what follows from it                                  *)

(* The inductive invariant holds in every reachable state.                 *)
THEOREM FitInvariant == Spec => []FitInv
<1>1. Init => FitInv
  <2> SUFFICES ASSUME Init PROVE FitInv
    OBVIOUS
  <2>1. Fresh /\ files = {} /\ pointer = [s \in Signals |-> None]
        /\ reader = [q \in Readers |-> None] /\ crashes = 0
    BY DEF Init
  <2>2. crashes \in 0 .. MaxCrashes
    BY <2>1, FitConstants
  <2> QED
    BY <2>1, <2>2, StartedInv DEF Started
<1>2. FitInv /\ [Next]_vars => FitInv'
  <2> SUFFICES ASSUME FitInv, [Next]_vars PROVE FitInv'
    OBVIOUS
  <2>1. ASSUME NEW t \in Threads, Step(t) PROVE FitInv'
    BY <2>1, LoopKeeps, StartFitKeeps, ReapKeeps, JudgeKeeps, PublishKeeps, PromotePointerKeeps,
       ReportKeeps, SetDoneKeeps DEF Step
  <2>2. CASE UNCHANGED vars
    <3>1. UNCHANGED <<tickets, queue, bySignal, closed, failures, pc, job, child, lock, closer, dropped, files, pointer, reader, crashes>>
      BY <2>2 DEF vars, volatile, disk
    <3>2. TypeOK' /\ PlaceInv' /\ SignalInv' /\ ApartInv' /\ PhaseInv'
      BY <3>1 DEF FitInv, TypeOK, PlaceInv, SignalInv, ApartInv, PhaseInv, Range1, Distinct
    <3>3. LockInv' /\ PointerHasFile'
      BY <3>1 DEF FitInv, LockInv, PointerHasFile, Newer, Signal, Cutoff
    <3> QED
      BY <3>2, <3>3 DEF FitInv
  <2> QED
    BY <2>1, <2>2, SubmitKeeps, ChildKeeps, CloseKeeps, ResolveDroppedKeeps, JoinKeeps, ReaderKeeps,
       CrashKeeps DEF Next
<1> QED
  BY <1>1, <1>2, PTL DEF Spec

(* A ticket in flight can be found under its signal, after close() every   *)
(* ticket is resolved and no child runs, and a pointer names a file that   *)
(* is there (submit, close, promote), with any number of threads.          *)
THEOREM FitsAreConsistent == Spec => []FitsConsistent
<1>1. FitInv => FitsConsistent
  <2> SUFFICES ASSUME FitInv PROVE FitsConsistent
    OBVIOUS
  <2>1. Findable
    <3> SUFFICES ASSUME NEW i \in 1 .. Len(tickets), ~tickets[i].done, i \notin dropped,
                        \A t \in Threads : ~(pc[t] = "signal" /\ job[t] = i)
                 PROVE  bySignal[tickets[i].signal] = i
      BY DEF Findable
    <3>1. CASE i \in Range1(queue)
      BY <3>1 DEF FitInv, SignalInv
    <3>2. CASE \E t \in Threads : job[t] = i
      BY <3>2, Types DEF FitInv, SignalInv
    <3> QED
      BY <3>1, <3>2 DEF FitInv, PlaceInv
  <2>2. ClosedIsQuiet
    <3> SUFFICES ASSUME closer = "done"
                 PROVE  /\ \A i \in 1 .. Len(tickets) : tickets[i].done /\ tickets[i].status # "open"
                        /\ \A t \in Threads : ~Alive(t)
      BY DEF ClosedIsQuiet
    <3>1. /\ \A t \in Threads : pc[t] = "exit" /\ job[t] = None
          /\ queue = <<>>
      BY DEF FitInv, PlaceInv, PhaseInv
    <3>2. Range1(queue) = {}
      BY <3>1 DEF Range1
    <3>3. \A i \in 1 .. Len(tickets) : tickets[i].done
      BY <3>1, <3>2, Types DEF FitInv, PlaceInv
    <3> QED
      BY <3>1, <3>3 DEF FitInv, PhaseInv, Alive
  <2> QED
    BY <2>1, <2>2 DEF FitInv, FitsConsistent
<1> QED
  BY <1>1, FitInvariant, PTL

(* A step that touches no file, no pointer and starts no child.            *)
LEMMA QuietStep ==
  ASSUME UNCHANGED <<files, pointer>>, \A u \in Threads : child'[u].alive => child[u].alive,
         TypeOK
  PROVE  NothingAfterClose /\ CutoffForward
<1>1. NothingAfterClose
  BY DEF NothingAfterClose, Alive, disk
<1>2. \A s \in Signals : pointer[s] # None => pointer[s] \in Nat
  BY FitConstants DEF TypeOK
<1>3. CutoffForward
  BY <1>2 DEF CutoffForward
<1> QED
  BY <1>1, <1>3

(* Once close() holds the lock no child is started, no file written and no *)
(* pointer moved; and a pointer only ever moves to a newer cutoff, over    *)
(* crashes too (publication in _run, promote).                             *)
THEOREM PromotionsGoForward == Spec => PromotesForward
<1> DEFINE A == NothingAfterClose /\ CutoffForward
<1>1. FitInv /\ [Next]_vars => [A]_vars
  <2> SUFFICES ASSUME FitInv, Next PROVE A
    OBVIOUS
  <2>t. TypeOK
    BY DEF FitInv
  <2>1. ASSUME NEW s \in Signals, NEW c \in Cutoffs, Submit(s, c) PROVE A
    BY <2>t, <2>1, QuietStep DEF Submit, disk
  <2>2. ASSUME NEW t \in Threads, Step(t) PROVE A
    <3>1. CASE Loop(t) \/ Reap(t) \/ Report(t) \/ SetDone(t)
      BY <2>t, <3>1, QuietStep DEF Loop, Reap, Report, SetDone, disk
    <3>2. CASE StartFit(t)
      <4>1. CASE UNCHANGED child
        BY <2>t, <3>2, <4>1, QuietStep DEF StartFit, disk
      <4>2. CASE ~closed
        <5>1. UNCHANGED <<files, pointer>>
          BY <3>2 DEF StartFit, disk
        <5>2. \A s \in Signals : pointer[s] # None => pointer[s] \in Nat
          BY <2>t, FitConstants DEF TypeOK
        <5> QED
          BY <4>2, <5>1, <5>2 DEF NothingAfterClose, CutoffForward
      <4> QED
        BY <3>2, <4>1, <4>2 DEF StartFit, MayStart
    <3>3. CASE Judge(t)
      <4>1. child' = [child EXCEPT ![t] = NoChild] /\ UNCHANGED <<files, pointer>>
        BY <3>3 DEF Judge, disk
      <4>2. \A u \in Threads : child'[u].alive => child[u].alive
        BY <2>t, <4>1 DEF NoChild, TypeOK
      <4> QED
        BY <2>t, <4>1, <4>2, QuietStep
    <3>4. CASE Publish(t)
      <4>1. UNCHANGED <<child, pointer>> /\ (closed => UNCHANGED files)
        BY <3>4 DEF Publish, MayPublish
      <4>2. \A s \in Signals : pointer[s] # None => pointer[s] \in Nat
        BY <2>t, FitConstants DEF TypeOK
      <4> QED
        BY <4>1, <4>2 DEF NothingAfterClose, CutoffForward, Alive, disk
    <3>5. CASE PromotePointer(t)
      <4>1. pc[t] = "pointer" /\ UNCHANGED <<child, files>>
        BY <3>5 DEF PromotePointer
      <4>2. ~closed /\ Newer(t)
        BY <4>1 DEF FitInv, LockInv
      <4>3. Cutoff(t) \in Cutoffs /\ Signal(t) \in Signals
        <5>1. job[t] \in 1 .. Len(tickets)
          BY <2>t, <4>1 DEF FitInv, PhaseInv, TypeOK
        <5> QED
          BY <2>t, <5>1, Types DEF Cutoff, Signal, TicketType
      <4>4. \A s \in Signals : pointer'[s] = pointer[s] \/ (s = Signal(t) /\ pointer'[s] = Cutoff(t))
        BY <2>t, <3>5, <4>3 DEF PromotePointer, TypeOK
      <4>5. \A s \in Signals : pointer[s] # None => pointer[s] \in Nat
        BY <2>t, FitConstants DEF TypeOK
      <4>6. Cutoff(t) \in Nat /\ Cutoff(t) # None
        BY <4>3, FitConstants
      <4>7. CutoffForward
        BY <4>2, <4>4, <4>5, <4>6 DEF CutoffForward, Newer
      <4> QED
        BY <4>2, <4>7 DEF NothingAfterClose
    <3> QED
      BY <2>2, <3>1, <3>2, <3>3, <3>4, <3>5 DEF Step
  <2>3. ASSUME NEW t \in Threads, ChildSends(t) \/ ChildExits(t) \/ Expire(t) PROVE A
    <3>1. UNCHANGED <<files, pointer>>
      BY <2>3 DEF ChildSends, ChildExits, Expire, disk
    <3>2. \A u \in Threads : child'[u].alive => child[u].alive
      BY <2>t, <2>3 DEF ChildSends, ChildExits, Expire, TypeOK, ChildType
    <3> QED
      BY <2>t, <3>1, <3>2, QuietStep
  <2>4. ASSUME Close PROVE A
    <3>1. UNCHANGED <<files, pointer>>
          /\ child' = [t \in Threads |-> IF pc[t] = "running" THEN [child[t] EXCEPT !.alive = FALSE] ELSE child[t]]
      BY <2>4 DEF Close, disk
    <3>2. \A u \in Threads : child'[u].alive => child[u].alive
      BY <2>t, <3>1 DEF TypeOK, ChildType
    <3> QED
      BY <2>t, <3>1, <3>2, QuietStep
  <2>5. ASSUME ResolveDropped \/ Join PROVE A
    BY <2>t, <2>5, QuietStep DEF ResolveDropped, Join, disk
  <2>6. ASSUME NEW q \in Readers, (\E s \in Signals : ReadPointer(q, s)) \/ ReadFile(q) PROVE A
    BY <2>t, <2>6, QuietStep DEF ReadPointer, ReadFile, volatile, disk
  <2>7. ASSUME Crash PROVE A
    <3>1. UNCHANGED <<files, pointer>> /\ child' = [t \in Threads |-> NoChild]
      BY <2>7 DEF Crash, disk
    <3>2. \A u \in Threads : child'[u].alive => child[u].alive
      BY <3>1 DEF NoChild
    <3> QED
      BY <2>t, <3>1, <3>2, QuietStep
  <2> QED
    BY <2>1, <2>2, <2>3, <2>4, <2>5, <2>6, <2>7 DEF Next
<1> QED
  BY <1>1, FitInvariant, PTL DEF Spec, PromotesForward
=============================================================================
