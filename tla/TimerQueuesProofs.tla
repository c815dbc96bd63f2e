------------------------- MODULE TimerQueuesProofs -------------------------
(***************************************************************************)
(* Proofs about the RTL timer queues, for any threads, queues, timers,     *)
(* callback capacity, due times and periods.                               *)
(*                                                                         *)
(* TicketsAreCounted is not inductive as it stands: that a finishing       *)
(* callback takes its ticket away from nobody else needs every ticket to   *)
(* be in one place only (Exclusive), that a queue may be freed needs the   *)
(* phases to tell which timers are gone (QueueOK), and that a thread has a *)
(* ticket to finish with needs its position in the code (ThreadOK).        *)
(* NoHeadOverslept already has to hold between the scan that computes the  *)
(* timeout and the wait that uses it (Watching).                           *)
(***************************************************************************)
EXTENDS TimerQueues, FiniteSetTheorems, TLAPS

Ids == 1..(NumTimers * Capacity)

TimerRec == [gen : Nat, phase : {"Free", "Armed", "Dormant", "Destroying"},
             deadline : Int, seq : Int, period : Int, inline : BOOLEAN,
             active : SUBSET Ids, ev : Int]

QueueRec == [state : {"Free", "Live", "Retired"}, gen : Nat,
             phase : {"Running", "Deleting", "AwaitingWorkerExit", "Exited"},
             inline : Int, ev : Int, timer : [Timers -> TimerRec]]

HandleRec == [state : {"Free", "Live", "Retired"}, gen : Nat, q : Int \X Nat,
              i : Int, tgen : Nat]

TicketRec == [q : Queues \X Nat, i : Timers, tgen : Nat, id : Ids]

OpPcs == {"event", "delete", "apply", "wait"}
RestPcs == {"read", "scan", "rest", "sleep", "exit", "report"}

ThreadRec == [pc : OpPcs \cup RestPcs \cup {"idle", "callback", "post"},
              cb : TicketRec \cup {NoTicket}, op : {"none", "timer", "queue"},
              h : Int \X Nat, q : Int \X Nat, ev : Int, sig : Int,
              wake : BOOLEAN, wait : BOOLEAN]

\* Where a thread may be, and that it has a ticket exactly while a callback
\* is its business.
ThreadOK(t, r) ==
    /\ t \in Callers => r.pc \in OpPcs \cup {"idle"} /\ r.cb = NoTicket
    /\ t \in Workers => /\ r.pc \in OpPcs \cup {"idle", "callback", "report"}
                        /\ r.cb = NoTicket <=> r.pc \in {"idle", "report"}
    /\ t = Scheduler => /\ r.pc \in OpPcs \cup RestPcs \cup {"callback", "post"}
                        /\ r.cb = NoTicket <=> r.pc \in RestPcs
    /\ r.pc \in {"event", "delete"} => r.op \in {"timer", "queue"}
    /\ r.pc \in {"event", "delete"} /\ r.op = "timer" => r.h[1] \in Handles
    /\ r.pc \in {"event", "delete"} /\ r.op = "queue" => r.q[1] \in Queues

Threading(th) ==
    /\ th \in [Threads -> ThreadRec]
    /\ \A t \in Threads : ThreadOK(t, th[t])

Handling(hs) ==
    /\ hs \in [Handles -> HandleRec]
    /\ \A h \in Handles :
         hs[h].state # "Free" => hs[h].q[1] \in Queues /\ hs[h].i \in Timers

\* The timers ts of a queue: a free timer has no callbacks, an occupied one
\* no more than its capacity, and a callback belongs to one timer.
TimersOK(ts) ==
    /\ ts \in [Timers -> TimerRec]
    /\ \A i \in Timers : /\ ts[i].phase = "Free" => ts[i].active = {}
                         /\ Cardinality(ts[i].active) <= Capacity
    /\ \A i, j \in Timers : i # j => ts[i].active \cap ts[j].active = {}

\* Which timers of a queue may be left in each of its phases.
QueueOK(r) ==
    /\ r \in QueueRec
    /\ TimersOK(r.timer)
    /\ r.state = "Live" => r.phase = "Running"
    /\ r.state = "Retired" =>
         /\ r.phase # "Running"
         /\ \A i \in Timers : r.timer[i].phase \in {"Free", "Destroying"}
    /\ r.state = "Free" \/ r.phase \in {"AwaitingWorkerExit", "Exited"} =>
         \A i \in Timers : r.timer[i].phase = "Free"

Queueing(qs) ==
    /\ qs \in [Queues -> QueueRec]
    /\ \A q \in Queues : QueueOK(qs[q])

\* The queue the scheduler is retiring stays as it found it.
Retiring(qs, r) ==
    r.pc = "exit" => /\ r.q[1] \in Queues
                     /\ qs[r.q[1]].state = "Retired"
                     /\ qs[r.q[1]].phase = "Exited"

Planning == plan \in [clock : Int, timeout : Int, start : Int] /\ now \in Int

Shape ==
    /\ Queueing(queue) /\ Handling(handle) /\ Threading(thread)
    /\ Retiring(queue, thread[Scheduler])
    /\ Planning
    /\ wake \in BOOLEAN

\* Ticket k is counted by the timer it names in the queues qs.
CountedIn(k, qs) ==
    /\ qs[k.q[1]].state # "Free" /\ qs[k.q[1]].gen = k.q[2]
    /\ Known(qs[k.q[1]].timer, k.i, k.tgen)
    /\ k.id \in qs[k.q[1]].timer[k.i].active

TicketsOf(po, th) == (po \cup {th[t].cb : t \in Threads}) \ {NoTicket}

\* A ticket is in the pool's queue or with one thread.
Exclusive(po, th) ==
    /\ po \subseteq TicketRec
    /\ \A t \in Threads : th[t].cb \notin po
    /\ \A t, u \in Threads : t # u /\ th[t].cb = th[u].cb => th[t].cb = NoTicket

\* The callbacks the timers count are the tickets that are out.
Balanced(K, qs) ==
    /\ \A k \in K : k \in TicketRec /\ CountedIn(k, qs)
    /\ \A q \in Queues, i \in Timers : \A id \in qs[q].timer[i].active :
         \E k \in K : k.q[1] = q /\ k.id = id

Ticketing == Exclusive(posted, thread) /\ Balanced(Tickets, queue)

\* Someone is about to set the wake event.
WakePending(th) ==
    \E t \in Threads : th[t].pc \in {"apply", "report"} /\ th[t].wake

\* The first timer of ts, when it can be fired, is not due before time d.
HeadFrom(ts, d) ==
    FirstOf(ts, Armed(ts)) \cap Dispatchable(ts) # {} =>
        \A i \in Dispatchable(ts) : d <= ts[i].deadline

Covered(r, d) ==
    /\ ~(r.state = "Retired" /\ r.phase = "AwaitingWorkerExit")
    /\ r.state = "Live" /\ r.inline = 0 => HeadFrom(r.timer, d)

\* From the scan that found nothing to do until it wakes up, the scheduler
\* is covered by its timeout or about to be woken.
Watching(qs, th, wk, d) ==
    th[Scheduler].pc \in {"rest", "sleep"} /\ ~wk /\ ~WakePending(th) =>
        \A q \in Queues : Covered(qs[q], d)

Watched == Watching(queue, thread, wake, plan.clock + plan.timeout)

IInv == Shape /\ Ticketing /\ Watched
-----------------------------------------------------------------------------
(* Operators of the model *)

\* A count that only falls stays below a limit it had not reached.
LEMMA AtMost ==
    \A m, n, c \in Nat : n <= m /\ m <= c => n <= c /\ (m # c => n < c /\ m < c)
  OBVIOUS

\* Slots, handles and callback numbers are numbers.
LEMMA Numbers ==
    /\ Queues \subseteq Nat \ {0} /\ Timers \subseteq Nat \ {0}
    /\ Ids \subseteq Nat \ {0} /\ Handles \subseteq Nat \ {0}
    /\ Capacity \in Nat /\ IsFiniteSet(Timers) /\ IsFiniteSet(Ids)
<1>1. NumQueues \in Nat /\ NumTimers \in Nat /\ Capacity \in Nat
  BY BoundsAssumption
<1>2. NumTimers * Capacity \in Nat /\ NumQueues * NumTimers \in Nat
  BY <1>1
<1>3. \A n \in Nat : (1..n) \subseteq Nat \ {0}
  OBVIOUS
<1>4. \A n \in Nat : IsFiniteSet(1..n)
  BY FS_Interval
<1> QED
  BY <1>1, <1>2, <1>3, <1>4 DEF Queues, Timers, Ids, Handles

\* A ticket that is out is never the empty one.
LEMMA NoTicketIsNone == NoTicket \notin TicketRec
<1>1. NoTicket.id = 0
  BY DEF NoTicket
<1> QED
  BY <1>1, Numbers DEF TicketRec

\* take_sequence changes nothing but sequence numbers.
LEMMA Renumbered ==
    ASSUME NEW ts \in [Timers -> TimerRec]
    PROVE  /\ Renumber(ts) \in [Timers -> TimerRec]
           /\ \A i \in Timers :
                /\ Renumber(ts)[i].gen = ts[i].gen
                /\ Renumber(ts)[i].phase = ts[i].phase
                /\ Renumber(ts)[i].deadline = ts[i].deadline
                /\ Renumber(ts)[i].active = ts[i].active
                /\ Renumber(ts)[i].ev = ts[i].ev
<1> DEFINE rank(i) ==
        IF ts[i].phase = "Armed"
          THEN Cardinality({j \in Armed(ts) : ts[j].seq <= ts[i].seq}) ELSE 0
<1>1. \A i \in Timers : rank(i) \in Int
  <2> SUFFICES ASSUME NEW i \in Timers PROVE rank(i) \in Int
    OBVIOUS
  <2> DEFINE S == {j \in Armed(ts) : ts[j].seq <= ts[i].seq}
  <2>1. S \subseteq Timers
    BY DEF Armed
  <2>2. IsFiniteSet(S)
    BY <2>1, Numbers, FS_Subset
  <2>3. Cardinality(S) \in Nat
    BY <2>2, FS_CardinalityType
  <2> QED
    BY <2>3
<1>2. Renumber(ts) = [i \in Timers |-> [ts[i] EXCEPT !.seq = rank(i)]]
  BY DEF Renumber
<1> HIDE DEF rank
<1>3. \A i \in Timers : [ts[i] EXCEPT !.seq = rank(i)] \in TimerRec
  BY <1>1 DEF TimerRec
<1> QED
  BY <1>2, <1>3 DEF TimerRec

\* A new sequence number, likewise.
LEMMA SequencedOnly ==
    ASSUME NEW ts \in [Timers -> TimerRec], NEW x \in Timers
    PROVE  /\ Sequenced(ts, x) \in [Timers -> TimerRec]
           /\ \A i \in Timers :
                /\ Sequenced(ts, x)[i].gen = ts[i].gen
                /\ Sequenced(ts, x)[i].phase = ts[i].phase
                /\ Sequenced(ts, x)[i].deadline = ts[i].deadline
                /\ Sequenced(ts, x)[i].active = ts[i].active
                /\ Sequenced(ts, x)[i].ev = ts[i].ev
<1> DEFINE us == [ts EXCEPT ![x].seq = NumTimers + 1]
<1>1. NumTimers + 1 \in Int
  BY BoundsAssumption
<1>2. us \in [Timers -> TimerRec]
  BY <1>1 DEF TimerRec
<1>3. \A i \in Timers : /\ us[i].gen = ts[i].gen /\ us[i].phase = ts[i].phase
                        /\ us[i].deadline = ts[i].deadline
                        /\ us[i].active = ts[i].active /\ us[i].ev = ts[i].ev
  BY DEF TimerRec
<1>4. Sequenced(ts, x) = Renumber(us)
  BY DEF Sequenced
<1> HIDE DEF us
<1> QED
  BY <1>2, <1>3, <1>4, Renumbered

\* While head_identity stays the same and the timers at the head keep their
\* callbacks, the head is not due earlier than it was.
LEMMA HeadKept ==
    ASSUME NEW ts \in [Timers -> TimerRec], NEW us \in [Timers -> TimerRec],
           NEW d \in Int, HeadFrom(ts, d), HeadIdentity(ts) = HeadIdentity(us),
           \A i \in FirstOf(us, Armed(us)) : us[i].active = ts[i].active
    PROVE  HeadFrom(us, d)
<1> SUFFICES ASSUME NEW i \in FirstOf(us, Armed(us)) \cap Dispatchable(us),
                    NEW j \in Dispatchable(us)
             PROVE  d <= us[j].deadline
  BY DEF HeadFrom
<1>1. i \in Armed(us) /\ j \in Armed(us) /\ i \in Timers /\ j \in Timers
  BY DEF Dispatchable, Armed
<1>2. us[i].deadline <= us[j].deadline
  BY <1>1 DEF FirstOf, Earlier, TimerRec
<1>3. <<i, us[i].deadline>> \in HeadIdentity(ts)
  BY Zenon DEF HeadIdentity
<1>4. i \in FirstOf(ts, Armed(ts)) /\ ts[i].deadline = us[i].deadline
  BY <1>3 DEF HeadIdentity
<1>5. i \in Armed(ts)
  BY <1>4 DEF FirstOf
<1>6. i \in Dispatchable(ts)
  BY <1>5 DEF Dispatchable
<1>7. d <= ts[i].deadline
  BY <1>4, <1>6 DEF HeadFrom
<1> QED
  BY <1>1, <1>2, <1>4, <1>7 DEF TimerRec

\* Timers that are armed, due and full as before leave the head as it was.
LEMMA HeadSame ==
    ASSUME NEW ts, NEW us, NEW d, HeadFrom(ts, d),
           Armed(us) = Armed(ts), Dispatchable(us) = Dispatchable(ts),
           \A i \in Armed(ts) : us[i].deadline = ts[i].deadline /\ us[i].seq = ts[i].seq
    PROVE  HeadFrom(us, d)
<1>1. Dispatchable(ts) \subseteq Armed(ts)
  BY DEF Dispatchable
<1>2. \A i, j \in Armed(ts) : Earlier(us, i, j) <=> Earlier(ts, i, j)
  BY DEF Earlier
<1>3. FirstOf(us, Armed(us)) = FirstOf(ts, Armed(ts))
  BY <1>2 DEF FirstOf
<1> QED
  BY <1>1, <1>3 DEF HeadFrom
-----------------------------------------------------------------------------
(* Tickets *)

\* From queue record a to b every callback stays with its timer, and what has
\* callbacks stays what it is.
KeptBy(a, b) ==
    \A i \in Timers :
        /\ b.timer[i].active = a.timer[i].active
        /\ a.timer[i].active # {} =>
             /\ b.state # "Free" /\ b.gen = a.gen
             /\ b.timer[i].phase # "Free" /\ b.timer[i].gen = a.timer[i].gen

Keeps(qs, rs) == \A q \in Queues : KeptBy(qs[q], rs[q])

\* A queue in order keeps its own callbacks.
LEMMA KeptBySelf ==
    ASSUME NEW c, QueueOK(c)
    PROVE  KeptBy(c, c)
<1>1. ASSUME NEW i \in Timers, c.timer[i].active # {}
      PROVE  c.state # "Free" /\ c.timer[i].phase # "Free"
  BY <1>1, Zenon DEF QueueOK, TimersOK
<1> QED
  BY <1>1, Zenon DEF KeptBy

\* A step of the queues that keeps the callbacks keeps the tickets' balance.
LEMMA BalancedKept ==
    ASSUME NEW K, NEW qs, NEW rs, Balanced(K, qs), Keeps(qs, rs)
    PROVE  Balanced(K, rs)
<1>1. ASSUME NEW k \in K PROVE k \in TicketRec /\ CountedIn(k, rs)
  <2>1. k \in TicketRec /\ CountedIn(k, qs)
    BY DEF Balanced
  <2>2. k.q[1] \in Queues /\ k.i \in Timers
    BY <2>1 DEF TicketRec
  <2> QED
    BY <2>1, <2>2, Zenon DEF CountedIn, Keeps, KeptBy, Known
<1>2. ASSUME NEW q \in Queues, NEW i \in Timers, NEW id \in rs[q].timer[i].active
      PROVE  \E k \in K : k.q[1] = q /\ k.id = id
  BY DEF Balanced, Keeps, KeptBy
<1> QED
  BY <1>1, <1>2, Zenon DEF Balanced

\* Two tickets of one queue with one number are the same ticket.
LEMMA TicketsDiffer ==
    ASSUME NEW K, NEW qs, Balanced(K, qs), Queueing(qs),
           NEW k \in K, NEW l \in K, k.q[1] = l.q[1], k.id = l.id
    PROVE  k = l
<1>1. k \in TicketRec /\ l \in TicketRec /\ CountedIn(k, qs) /\ CountedIn(l, qs)
  BY DEF Balanced
<1>2. k.q \in Queues \X Nat /\ l.q \in Queues \X Nat /\ k.i \in Timers /\ l.i \in Timers
  BY <1>1 DEF TicketRec
<1>3. k.q[1] \in Queues /\ TimersOK(qs[k.q[1]].timer)
  BY <1>2 DEF Queueing, QueueOK
<1>4. k.q = l.q
  BY <1>1, <1>2, SMTT(30) DEF CountedIn
<1>5. k.i = l.i
  BY <1>1, <1>2, <1>3, ZenonT(30) DEF CountedIn, TimersOK
<1>6. k.tgen = l.tgen
  BY <1>1, <1>4, <1>5 DEF CountedIn, Known
<1> QED
  BY <1>1, <1>4, <1>5, <1>6 DEF TicketRec

\* A thread that keeps its ticket changes nothing for the others.
LEMMA TicketsKept ==
    ASSUME NEW po, NEW th \in [Threads -> ThreadRec], NEW t \in Threads,
           NEW r \in ThreadRec, r.cb = th[t].cb, Exclusive(po, th)
    PROVE  /\ TicketsOf(po, [th EXCEPT ![t] = r]) = TicketsOf(po, th)
           /\ Exclusive(po, [th EXCEPT ![t] = r])
<1> DEFINE uh == [th EXCEPT ![t] = r]
<1>1. \A u \in Threads : uh[u].cb = th[u].cb
  OBVIOUS
<1> HIDE DEF uh
<1> QED
  BY <1>1 DEF TicketsOf, Exclusive, uh

\* A ticket moves from the thread to the pool's queue.
LEMMA TicketPosted ==
    ASSUME NEW po, NEW th \in [Threads -> ThreadRec], NEW t \in Threads,
           NEW r \in ThreadRec, r.cb = NoTicket, th[t].cb # NoTicket,
           Exclusive(po, th)
    PROVE  /\ TicketsOf(po \cup {th[t].cb}, [th EXCEPT ![t] = r]) = TicketsOf(po, th)
           /\ Exclusive(po \cup {th[t].cb}, [th EXCEPT ![t] = r])
<1> DEFINE uh == [th EXCEPT ![t] = r]
           pn == po \cup {th[t].cb}
<1>1. uh[t].cb = NoTicket /\ \A u \in Threads : u # t => uh[u].cb = th[u].cb
  OBVIOUS
<1>2. th[t].cb \in TicketRec
  BY DEF ThreadRec
<1> HIDE DEF uh
<1>3. TicketsOf(pn, uh) = TicketsOf(po, th)
  BY <1>1 DEF TicketsOf
<1>4. pn \subseteq TicketRec
  BY <1>2 DEF Exclusive
<1>5. \A u \in Threads : uh[u].cb \notin pn
  BY <1>1, <1>2, <1>4, NoTicketIsNone DEF Exclusive
<1>6. \A u, v \in Threads : u # v /\ uh[u].cb = uh[v].cb => uh[u].cb = NoTicket
  BY <1>1 DEF Exclusive
<1> QED
  BY <1>3, <1>4, <1>5, <1>6 DEF Exclusive, uh

\* A worker takes a ticket from the pool's queue.
LEMMA TicketStarted ==
    ASSUME NEW po, NEW th \in [Threads -> ThreadRec], NEW t \in Threads,
           NEW r \in ThreadRec, r.cb \in po, th[t].cb = NoTicket,
           Exclusive(po, th)
    PROVE  /\ TicketsOf(po \ {r.cb}, [th EXCEPT ![t] = r]) = TicketsOf(po, th)
           /\ Exclusive(po \ {r.cb}, [th EXCEPT ![t] = r])
<1> DEFINE uh == [th EXCEPT ![t] = r]
           k == r.cb
<1>1. uh[t].cb = k /\ \A u \in Threads : u # t => uh[u].cb = th[u].cb
  OBVIOUS
<1>2. k # NoTicket
  BY NoTicketIsNone DEF Exclusive
<1> HIDE DEF uh
<1>3. TicketsOf(po \ {k}, uh) = TicketsOf(po, th)
  BY <1>1, <1>2 DEF TicketsOf
<1>4. Exclusive(po \ {k}, uh)
  BY <1>1, <1>2 DEF Exclusive
<1> QED
  BY <1>3, <1>4 DEF uh

\* A callback is over: its ticket is gone.
LEMMA TicketDropped ==
    ASSUME NEW po, NEW th \in [Threads -> ThreadRec], NEW t \in Threads,
           NEW r \in ThreadRec, r.cb = NoTicket, th[t].cb # NoTicket,
           Exclusive(po, th)
    PROVE  /\ TicketsOf(po, [th EXCEPT ![t] = r]) = TicketsOf(po, th) \ {th[t].cb}
           /\ Exclusive(po, [th EXCEPT ![t] = r])
<1> DEFINE uh == [th EXCEPT ![t] = r]
<1>1. uh[t].cb = NoTicket /\ \A u \in Threads : u # t => uh[u].cb = th[u].cb
  OBVIOUS
<1> HIDE DEF uh
<1>2. \A u \in Threads : u # t => th[u].cb # th[t].cb
  BY DEF Exclusive
<1>3. TicketsOf(po, uh) = TicketsOf(po, th) \ {th[t].cb}
  BY <1>1, <1>2 DEF TicketsOf, Exclusive
<1>4. Exclusive(po, uh)
  BY <1>1, NoTicketIsNone DEF Exclusive
<1> QED
  BY <1>3, <1>4, Zenon DEF uh

\* A timer fires: a new ticket.
LEMMA TicketAdded ==
    ASSUME NEW po, NEW th \in [Threads -> ThreadRec], NEW t \in Threads,
           NEW r \in ThreadRec, r.cb \in TicketRec, th[t].cb = NoTicket,
           r.cb \notin TicketsOf(po, th), Exclusive(po, th)
    PROVE  /\ TicketsOf(po, [th EXCEPT ![t] = r]) = TicketsOf(po, th) \cup {r.cb}
           /\ Exclusive(po, [th EXCEPT ![t] = r])
<1> DEFINE uh == [th EXCEPT ![t] = r]
<1>1. uh[t].cb = r.cb /\ \A u \in Threads : u # t => uh[u].cb = th[u].cb
  OBVIOUS
<1> HIDE DEF uh
<1>2. r.cb # NoTicket
  BY NoTicketIsNone
<1>3. r.cb \notin po /\ \A u \in Threads : th[u].cb # r.cb
  BY <1>2 DEF TicketsOf
<1>4. TicketsOf(po, uh) = TicketsOf(po, th) \cup {r.cb}
  BY <1>1, <1>2 DEF TicketsOf
<1>5. Exclusive(po, uh)
  BY <1>1, <1>3 DEF Exclusive
<1> QED
  BY <1>4, <1>5, Zenon DEF uh
-----------------------------------------------------------------------------
(* Frames: what a step of thread t has to show *)

\* One thread's record is replaced by another of the right kind.
LEMMA ThreadingStep ==
    ASSUME NEW th, Threading(th), NEW t \in Threads, NEW r \in ThreadRec,
           ThreadOK(t, r)
    PROVE  Threading([th EXCEPT ![t] = r])
BY DEF Threading

\* The queues and the plan stay, and whoever was about to wake the scheduler
\* has done so or still is.
LEMMA StillWatching ==
    ASSUME NEW qs, NEW th, Threading(th), NEW wk \in BOOLEAN, NEW wn \in BOOLEAN,
           NEW d, Watching(qs, th, wk, d), NEW t \in Threads, NEW r \in ThreadRec,
           wk => wn,
           th[t].pc \in {"apply", "report"} /\ th[t].wake =>
               wn \/ (r.pc \in {"apply", "report"} /\ r.wake),
           t = Scheduler /\ r.pc \in {"rest", "sleep"} =>
               th[t].pc \in {"rest", "sleep"}
    PROVE  Watching(qs, [th EXCEPT ![t] = r], wn, d)
<1> DEFINE uh == [th EXCEPT ![t] = r]
<1>1. uh[t] = r /\ \A u \in Threads : u # t => uh[u] = th[u]
  BY DEF Threading
<1>2. Scheduler \in Threads
  BY DEF Threads
<1> HIDE DEF uh
<1> SUFFICES ASSUME uh[Scheduler].pc \in {"rest", "sleep"}, ~wn, ~WakePending(uh)
             PROVE  \A q \in Queues : Covered(qs[q], d)
  BY DEF Watching, uh
<1>3. th[Scheduler].pc \in {"rest", "sleep"}
  BY <1>1, <1>2
<1>4. ASSUME NEW u \in Threads, th[u].pc \in {"apply", "report"}, th[u].wake
      PROVE  FALSE
  <2>1. CASE u = t
    BY <1>1, <1>4, <2>1 DEF WakePending
  <2>2. CASE u # t
    BY <1>1, <1>4, <2>2 DEF WakePending
  <2> QED
    BY <2>1, <2>2
<1>5. ~WakePending(th)
  BY <1>4 DEF WakePending
<1> QED
  BY <1>3, <1>5 DEF Watching

\* A thread other than the sleeping scheduler changes the queues, and is
\* about to wake the scheduler or leaves every queue covered.
LEMMA WatchingChanged ==
    ASSUME Threading(thread), Watched, NEW d, d = plan.clock + plan.timeout,
           NEW t \in Threads, NEW r \in ThreadRec,
           r.pc \in {"apply", "report"},
           ~(thread[t].pc \in {"apply", "report"}),
           ~r.wake => \A q \in Queues : Covered(queue[q], d) => Covered(queue'[q], d),
           thread' = [thread EXCEPT ![t] = r], UNCHANGED <<wake, plan>>
    PROVE  Watched'
<1>1. thread'[t] = r /\ \A u \in Threads : u # t => thread'[u] = thread[u]
  BY DEF Threading
<1>2. Scheduler \in Threads
  BY DEF Threads
<1> SUFFICES ASSUME thread'[Scheduler].pc \in {"rest", "sleep"}, ~wake,
                    ~WakePending(thread')
             PROVE  \A q \in Queues : Covered(queue'[q], d)
  BY DEF Watched, Watching
<1>3. thread[Scheduler].pc \in {"rest", "sleep"}
  BY <1>1, <1>2
<1>4. ~r.wake
  BY <1>1 DEF WakePending
<1>5. ~WakePending(thread)
  BY <1>1 DEF WakePending
<1>6. \A q \in Queues : Covered(queue[q], d)
  BY <1>3, <1>5 DEF Watched, Watching
<1> QED
  BY <1>4, <1>6

\* A thread in the middle of an operation does not hold the scheduler's
\* position, and what it retires it retires as the scheduler.
LEMMA RetiringKept ==
    ASSUME NEW qs, NEW rs, NEW th, Threading(th), Retiring(qs, th[Scheduler]),
           NEW t \in Threads, NEW r \in ThreadRec, r.pc # "exit",
           \A q \in Queues : qs[q].state = "Retired" /\ qs[q].phase = "Exited" =>
               rs[q].state = "Retired" /\ rs[q].phase = "Exited"
    PROVE  Retiring(rs, [th EXCEPT ![t] = r][Scheduler])
<1>1. Scheduler \in Threads
  BY DEF Threads
<1>2. CASE t = Scheduler
  BY <1>1, <1>2 DEF Threading, Retiring
<1>3. CASE t # Scheduler
  BY <1>1, <1>3 DEF Threading, Retiring
<1> QED
  BY <1>2, <1>3

\* A step of thread t that leaves queues and tickets alone.
LEMMA LocalStep ==
    ASSUME IInv, NEW t \in Threads, NEW r \in ThreadRec, ThreadOK(t, r),
           r.cb = thread[t].cb, r.pc # "exit", thread' = [thread EXCEPT ![t] = r],
           wake' \in BOOLEAN, wake => wake',
           thread[t].pc \in {"apply", "report"} /\ thread[t].wake =>
               wake' \/ (r.pc \in {"apply", "report"} /\ r.wake),
           t = Scheduler /\ r.pc \in {"rest", "sleep"} =>
               thread[t].pc \in {"rest", "sleep"},
           Planning', plan'.clock + plan'.timeout = plan.clock + plan.timeout,
           UNCHANGED <<queue, handle, posted>>
    PROVE  IInv'
<1> DEFINE d == plan.clock + plan.timeout
<1>1. /\ Queueing(queue) /\ Handling(handle) /\ Threading(thread)
      /\ Retiring(queue, thread[Scheduler]) /\ wake \in BOOLEAN
      /\ Exclusive(posted, thread) /\ Balanced(TicketsOf(posted, thread), queue)
      /\ Watching(queue, thread, wake, d)
  BY DEF IInv, Shape, Ticketing, Watched, Tickets, TicketsOf
<1> HIDE DEF d
<1>2. Threading(thread')
  BY <1>1, ThreadingStep, Zenon
<1>3. Retiring(queue', thread'[Scheduler])
  BY <1>1, RetiringKept
<1>4. thread \in [Threads -> ThreadRec]
  BY <1>1 DEF Threading
<1>5. /\ Exclusive(posted', thread')
      /\ TicketsOf(posted', thread') = TicketsOf(posted, thread)
  BY <1>1, <1>4, TicketsKept, Zenon
<1>10. Watching(queue, [thread EXCEPT ![t] = r], wake', d)
  BY <1>1, StillWatching, ZenonT(30)
<1>6. Watching(queue', thread', wake', d)
  BY <1>10
<1>7. Shape'
  BY <1>1, <1>2, <1>3 DEF Shape
<1>8. Ticketing'
  BY <1>1, <1>5, Zenon DEF Ticketing, Tickets, TicketsOf
<1>9. Watched'
  BY <1>6 DEF Watched, d
<1> QED
  BY <1>7, <1>8, <1>9 DEF IInv

\* A step of thread t that changes queues and handles under the lock and
\* goes on to carry out its plan.
LEMMA PlanStep ==
    ASSUME IInv, NEW t \in Threads, NEW r \in ThreadRec, ThreadOK(t, r),
           r.cb = thread[t].cb, r.pc = "apply", thread' = [thread EXCEPT ![t] = r],
           ~(thread[t].pc \in {"apply", "report"}),
           Queueing(queue'), Handling(handle'), Keeps(queue, queue'),
           \A q \in Queues : queue[q].state = "Retired" /\ queue[q].phase = "Exited" =>
               queue'[q].state = "Retired" /\ queue'[q].phase = "Exited",
           ~r.wake => \A q \in Queues : \A d \in Int :
               Covered(queue[q], d) => Covered(queue'[q], d),
           UNCHANGED <<now, wake, posted, plan>>
    PROVE  IInv'
<1> DEFINE d == plan.clock + plan.timeout
<1>1. /\ Queueing(queue) /\ Handling(handle) /\ Threading(thread)
      /\ Retiring(queue, thread[Scheduler]) /\ wake \in BOOLEAN /\ Planning
      /\ Exclusive(posted, thread) /\ Balanced(TicketsOf(posted, thread), queue)
      /\ Watching(queue, thread, wake, d)
  BY DEF IInv, Shape, Ticketing, Watched, Tickets, TicketsOf
<1>0. d \in Int
  BY <1>1, SMTT(30) DEF Planning
<1> HIDE DEF d
<1>2. Threading(thread')
  BY <1>1, ThreadingStep, Zenon
<1>3. Retiring(queue', thread'[Scheduler])
  BY <1>1, RetiringKept
<1>4. thread \in [Threads -> ThreadRec]
  BY <1>1 DEF Threading
<1>5. /\ Exclusive(posted', thread')
      /\ TicketsOf(posted', thread') = TicketsOf(posted, thread)
  BY <1>1, <1>4, TicketsKept, Zenon
<1>6. ~r.wake => \A q \in Queues : Covered(queue[q], d) => Covered(queue'[q], d)
  BY <1>0
<1>7. Shape'
  BY <1>1, <1>2, <1>3 DEF Shape, Planning
<1>11. Balanced(TicketsOf(posted, thread), queue')
  BY <1>1, BalancedKept, SMTT(30)
<1>8. Ticketing'
  BY <1>5, <1>11, Zenon DEF Ticketing, Tickets, TicketsOf
<1>9. Watched'
  <2>1. d = plan.clock + plan.timeout /\ Watched
    BY DEF d, IInv
  <2> QED
    BY <1>1, <1>6, <2>1, WatchingChanged, Zenon
<1> QED
  BY <1>7, <1>8, <1>9 DEF IInv
-----------------------------------------------------------------------------
(* Operations *)

\* Thread t has taken the lock for an operation.
Acting(t) == MayCall(t) \/ thread[t].pc = "delete"

\* An operation changes one queue.
LEMMA QueueStep ==
    ASSUME IInv, NEW t \in Threads, Acting(t),
           NEW sig \in Int, NEW wk \in BOOLEAN, NEW wt \in BOOLEAN,
           ApplyPlan(t, sig, wk, wt),
           NEW q \in Queues, NEW a, QueueOK(a), KeptBy(queue[q], a),
           queue' = [queue EXCEPT ![q] = a],
           ~(queue[q].state = "Retired" /\ queue[q].phase = "Exited"),
           ~wk => \A d \in Int : Covered(queue[q], d) => Covered(a, d),
           Handling(handle'), UNCHANGED <<now, wake, posted, plan>>
    PROVE  IInv'
<1> DEFINE r == [thread[t] EXCEPT !.pc = "apply", !.sig = sig, !.wake = wk, !.wait = wt]
<1>1. /\ thread \in [Threads -> ThreadRec] /\ ThreadOK(t, thread[t])
      /\ queue \in [Queues -> QueueRec] /\ \A p \in Queues : QueueOK(queue[p])
  BY DEF IInv, Shape, Threading, Queueing
<1>2. thread[t] \in ThreadRec
  BY <1>1
<1>3. /\ r \in ThreadRec /\ r.pc = "apply" /\ r.cb = thread[t].cb /\ r.wake = wk
      /\ thread' = [thread EXCEPT ![t] = r]
  BY <1>1, <1>2, ZenonT(30) DEF ThreadRec, ApplyPlan, OpPcs
<1>4. ThreadOK(t, r) /\ ~(thread[t].pc \in {"apply", "report"})
  BY <1>1, <1>3, ThreadsAssumption
     DEF ThreadOK, Acting, MayCall, OnWorker, Threads, OpPcs, RestPcs
<1> HIDE DEF r
<1>5. queue'[q] = a /\ \A p \in Queues : p # q => queue'[p] = queue[p]
  BY <1>1
<1>6. Queueing(queue')
  <2>1. a \in QueueRec
    BY DEF QueueOK
  <2> QED
    BY <1>1, <1>5, <2>1 DEF Queueing
<1>7. Keeps(queue, queue')
  <2>1. \A p \in Queues : KeptBy(queue[p], queue[p])
    BY <1>1, KeptBySelf, Zenon
  <2> QED
    BY <1>5, <2>1, Zenon DEF Keeps
<1>8. \A p \in Queues : queue[p].state = "Retired" /\ queue[p].phase = "Exited" =>
          queue'[p].state = "Retired" /\ queue'[p].phase = "Exited"
  BY <1>5
<1>9. ~r.wake => \A p \in Queues : \A d \in Int :
          Covered(queue[p], d) => Covered(queue'[p], d)
  <2>1. SUFFICES ASSUME ~r.wake, NEW p \in Queues, NEW d \in Int, Covered(queue[p], d)
                 PROVE  Covered(queue'[p], d)
    OBVIOUS
  <2>2. ~wk
    BY <1>3, <2>1
  <2> QED
    BY <1>5, <2>1, <2>2
<1> QED
  BY <1>3, <1>4, <1>6, <1>7, <1>8, <1>9, PlanStep, Zenon

\* The timers of a live queue change, their callbacks stay.
LEMMA LiveTimers ==
    ASSUME NEW c, QueueOK(c), c.state = "Live", NEW us \in [Timers -> TimerRec],
           \A i \in Timers :
               /\ us[i].active = c.timer[i].active
               /\ us[i].phase = "Free" => us[i].active = {}
               /\ c.timer[i].active # {} => us[i].gen = c.timer[i].gen,
           NEW a, a = [c EXCEPT !.timer = us]
    PROVE  /\ QueueOK(a) /\ KeptBy(c, a)
           /\ a.state = "Live" /\ a.phase = c.phase /\ a.inline = c.inline /\ a.timer = us
<1>1. c \in QueueRec /\ TimersOK(c.timer)
  BY DEF QueueOK
<1>2. /\ a \in QueueRec /\ a.state = "Live" /\ a.phase = c.phase /\ a.inline = c.inline
      /\ a.timer = us /\ a.gen = c.gen
  BY <1>1 DEF QueueRec
<1>3. TimersOK(us)
  BY <1>1 DEF TimersOK
<1>4. QueueOK(a)
  BY <1>2, <1>3 DEF QueueOK
<1>5. KeptBy(c, a)
  BY <1>1, <1>2, <1>3 DEF KeptBy, TimersOK
<1> QED
  BY <1>2, <1>4, <1>5

\* A new queue: all its timers are free.
LEMMA EmptyQueueOK ==
    ASSUME NEW g \in Nat
    PROVE  LET a == [EmptyQueue EXCEPT !.state = "Live", !.gen = g]
           IN  /\ QueueOK(a) /\ \A i \in Timers : a.timer[i].active = {}
<1> DEFINE e == [i \in Timers |-> EmptyTimer]
           a == [EmptyQueue EXCEPT !.state = "Live", !.gen = g]
<1>1. EmptyTimer \in TimerRec /\ EmptyTimer.phase = "Free" /\ EmptyTimer.active = {}
  BY DEF EmptyTimer, TimerRec, NoEvent
<1>2. e \in [Timers -> TimerRec] /\ \A i \in Timers : e[i].phase = "Free" /\ e[i].active = {}
  BY <1>1
<1>3. EmptyQueue = [state |-> "Free", gen |-> 0, phase |-> "Running", inline |-> 0,
                    ev |-> 0, timer |-> e]
  BY DEF EmptyQueue, NoEvent
<1> HIDE DEF e
<1>4. EmptyQueue \in QueueRec /\ EmptyQueue.phase = "Running" /\ EmptyQueue.timer = e
  BY <1>2, <1>3 DEF QueueRec
<1>5. a \in QueueRec /\ a.state = "Live" /\ a.phase = "Running" /\ a.timer = e
  BY <1>4, Zenon DEF QueueRec
<1>6. TimersOK(e)
  <2>1. Cardinality({}) = 0 /\ 0 <= Capacity
    BY FS_EmptySet, Numbers
  <2>2. \A i \in Timers : Cardinality(e[i].active) <= Capacity
    BY <1>2, <2>1
  <2> QED
    BY <1>2, <2>2 DEF TimersOK
<1> HIDE DEF a
<1>7. QueueOK(a)
  BY <1>5, <1>6 DEF QueueOK
<1> QED
  BY <1>2, <1>5, <1>7, SMTT(30) DEF a

\* RtlCreateTimerQueue
LEMMA CreateQueueInv ==
    ASSUME IInv, NEW t \in Threads, CreateQueue(t)
    PROVE  IInv'
<1>1. /\ queue \in [Queues -> QueueRec] /\ \A p \in Queues : QueueOK(queue[p])
      /\ Handling(handle)
  BY SMTT(30) DEF IInv, Shape, Queueing
<1>2. PICK q \in Queues :
        /\ queue[q].state = "Free"
        /\ queue' = [queue EXCEPT ![q] =
               [EmptyQueue EXCEPT !.state = "Live", !.gen = queue[q].gen + 1]]
  BY Zenon DEF CreateQueue
<1> DEFINE a == [EmptyQueue EXCEPT !.state = "Live", !.gen = queue[q].gen + 1]
<1>3. queue[q].gen + 1 \in Nat
  BY <1>1, SMTT(30) DEF QueueRec
<1>4. QueueOK(a) /\ \A i \in Timers : a.timer[i].active = {}
  BY <1>3, EmptyQueueOK, Zenon
<1>5. /\ queue' = [queue EXCEPT ![q] = a]
      /\ ~(queue[q].state = "Retired" /\ queue[q].phase = "Exited")
  BY <1>2
<1> HIDE DEF a
<1>6. \A i \in Timers : queue[q].timer[i].active = {}
  BY <1>1, <1>2, SMTT(30) DEF QueueOK, TimersOK
<1>7. KeptBy(queue[q], a)
  BY <1>4, <1>6, Zenon DEF KeptBy
<1>8. /\ MayCall(t) /\ ApplyPlan(t, NoEvent, TRUE, FALSE)
      /\ UNCHANGED <<now, handle, wake, posted, plan>>
  BY Zenon DEF CreateQueue
<1>9. Acting(t) /\ NoEvent \in Int
  BY <1>8 DEF Acting, NoEvent
<1>10. Handling(handle')
  BY <1>1, <1>8
<1> QED
  BY <1>4, <1>5, <1>7, <1>8, <1>9, <1>10, QueueStep, ZenonT(30)

\* A live queue whose head stayed is covered as before.
LEMMA CoveredKept ==
    ASSUME NEW c, QueueOK(c), NEW a, QueueOK(a), a.state = "Live", c.state = "Live",
           a.inline = c.inline, HeadIdentity(c.timer) = HeadIdentity(a.timer),
           \A i \in Timers : a.timer[i].active = c.timer[i].active,
           NEW d \in Int, Covered(c, d)
    PROVE  Covered(a, d)
<1>1. c.timer \in [Timers -> TimerRec] /\ a.timer \in [Timers -> TimerRec]
  BY DEF QueueOK, TimersOK
<1>2. FirstOf(a.timer, Armed(a.timer)) \subseteq Timers
  BY SMTT(30) DEF FirstOf, Armed
<1>3. a.inline = 0 => HeadFrom(a.timer, d)
  BY <1>1, <1>2, HeadKept DEF Covered
<1> QED
  BY <1>3, Zenon DEF Covered

\* What every operation on the timers of a live queue shows.
LEMMA TimersStep ==
    ASSUME IInv, NEW t \in Threads, Acting(t), NEW q \in Queues,
           queue[q].state = "Live",
           NEW us \in [Timers -> TimerRec],
           \A i \in Timers :
               /\ us[i].active = queue[q].timer[i].active
               /\ us[i].phase = "Free" => us[i].active = {}
               /\ queue[q].timer[i].active # {} => us[i].gen = queue[q].timer[i].gen,
           NEW sig \in Int, NEW wk \in BOOLEAN, NEW wt \in BOOLEAN,
           ApplyPlan(t, sig, wk, wt),
           ~wk => HeadIdentity(queue[q].timer) = HeadIdentity(us),
           queue' = [queue EXCEPT ![q].timer = us],
           Handling(handle'), UNCHANGED <<now, wake, posted, plan>>
    PROVE  IInv'
<1>1. queue \in [Queues -> QueueRec] /\ QueueOK(queue[q])
  BY DEF IInv, Shape, Queueing
<1> DEFINE a == [queue[q] EXCEPT !.timer = us]
<1>2. queue' = [queue EXCEPT ![q] = a]
  BY <1>1 DEF QueueRec
<1>3. /\ QueueOK(a) /\ KeptBy(queue[q], a) /\ a.state = "Live"
      /\ a.inline = queue[q].inline /\ a.timer = us
  BY <1>1, LiveTimers
<1>4. ~(queue[q].state = "Retired" /\ queue[q].phase = "Exited")
  OBVIOUS
<1> HIDE DEF a
<1>5. ASSUME ~wk PROVE \A d \in Int : Covered(queue[q], d) => Covered(a, d)
  <2>1. HeadIdentity(queue[q].timer) = HeadIdentity(a.timer)
    BY <1>3, <1>5
  <2>2. \A i \in Timers : a.timer[i].active = queue[q].timer[i].active
    BY <1>3
  <2> QED
    BY <1>1, <1>3, <2>1, <2>2, CoveredKept
<1> QED
  BY <1>2, <1>3, <1>4, <1>5, QueueStep, ZenonT(30)

\* RtlCreateTimer
LEMMA CreateTimerInv ==
    ASSUME IInv, NEW t \in Threads, NEW q \in Queues, NEW due \in Dues,
           NEW period \in Periods, NEW inline \in BOOLEAN,
           CreateTimer(t, q, due, period, inline)
    PROVE  IInv'
<1>1. /\ queue \in [Queues -> QueueRec] /\ QueueOK(queue[q]) /\ Handling(handle)
      /\ Planning
  BY SMTT(30) DEF IInv, Shape, Queueing
<1> DEFINE ts == queue[q].timer
           fresh(i) == [EmptyTimer EXCEPT !.gen = ts[i].gen + 1, !.phase = "Armed",
                           !.deadline = now + due, !.period = period,
                           !.inline = inline]
           us(i) == Sequenced([ts EXCEPT ![i] = fresh(i)], i)
<1>2. PICK i \in LeastOf(FreeTimers(q)), h \in LeastOf(FreeHandles) :
        /\ queue' = [queue EXCEPT ![q].timer = us(i)]
        /\ handle' = [handle EXCEPT ![h] =
                [state |-> "Live", gen |-> @.gen + 1, q |-> <<q, queue[q].gen>>,
                 i |-> i, tgen |-> us(i)[i].gen]]
        /\ ApplyPlan(t, NoEvent, HeadChanged(ts, us(i), i), FALSE)
  BY Zenon DEF CreateTimer
<1>3. i \in Timers /\ ts[i].phase = "Free" /\ h \in Handles
  BY <1>2 DEF LeastOf, FreeTimers, FreeHandles
<1>4. /\ queue[q].state = "Live" /\ MayCall(t) /\ UNCHANGED <<now, wake, posted, plan>>
  BY Zenon DEF CreateTimer
<1>5. ts \in [Timers -> TimerRec] /\ ts[i].active = {}
  BY <1>1, <1>3 DEF QueueOK, TimersOK
<1>6. fresh(i) \in TimerRec /\ fresh(i).active = {} /\ fresh(i).phase = "Armed"
  <2>1. EmptyTimer \in TimerRec /\ EmptyTimer.active = {}
    BY DEF EmptyTimer, TimerRec, NoEvent
  <2>2. ts[i].gen + 1 \in Nat /\ now + due \in Int /\ period \in Int
    BY <1>1, <1>3, <1>5, BoundsAssumption DEF TimerRec, Planning
  <2> QED
    BY <2>1, <2>2, Zenon DEF TimerRec
<1> HIDE DEF fresh
<1>7. [ts EXCEPT ![i] = fresh(i)] \in [Timers -> TimerRec]
  BY <1>5, <1>6, ZenonT(30)
<1>8. /\ us(i) \in [Timers -> TimerRec]
      /\ \A j \in Timers :
           /\ us(i)[j].gen = [ts EXCEPT ![i] = fresh(i)][j].gen
           /\ us(i)[j].phase = [ts EXCEPT ![i] = fresh(i)][j].phase
           /\ us(i)[j].active = [ts EXCEPT ![i] = fresh(i)][j].active
  BY <1>3, <1>7, SequencedOnly
<1>9. us(i)[i].active = {} /\ us(i)[i].phase = "Armed" /\ us(i)[i].gen \in Nat
  BY <1>3, <1>5, <1>6, <1>8, ZenonT(30) DEF TimerRec
<1>10. \A j \in Timers : j # i => /\ us(i)[j].gen = ts[j].gen
                                  /\ us(i)[j].phase = ts[j].phase
                                  /\ us(i)[j].active = ts[j].active
  BY <1>3, <1>5, <1>8
<1> HIDE DEF us
<1>11. \A j \in Timers :
               /\ us(i)[j].active = queue[q].timer[j].active
               /\ us(i)[j].phase = "Free" => us(i)[j].active = {}
               /\ queue[q].timer[j].active # {} => us(i)[j].gen = queue[q].timer[j].gen
  BY <1>1, <1>5, <1>9, <1>10, ZenonT(30) DEF QueueOK, TimersOK
<1>12. Handling(handle')
  <2>1. handle \in [Handles -> HandleRec] /\ handle[h].gen + 1 \in Nat
        /\ queue[q].gen \in Nat /\ i \in Int /\ q \in Int
    BY <1>1, <1>3, Numbers, SMTT(30) DEF Handling, HandleRec, QueueRec
  <2> DEFINE new == [state |-> "Live", gen |-> handle[h].gen + 1,
                     q |-> <<q, queue[q].gen>>, i |-> i, tgen |-> us(i)[i].gen]
  <2>2. new \in HandleRec /\ new.q[1] \in Queues /\ new.i \in Timers
    BY <1>3, <1>9, <2>1 DEF HandleRec
  <2>3. handle' = [handle EXCEPT ![h] = new]
    BY <1>2, <1>3, <2>1, Zenon
  <2> HIDE DEF new
  <2> QED
    BY <1>1, <1>3, <2>2, <2>3, Zenon DEF Handling
<1> DEFINE wk == HeadChanged(ts, us(i), i)
<1>13. wk \in BOOLEAN /\ (~wk => HeadIdentity(ts) = HeadIdentity(us(i)))
  BY DEF HeadChanged
<1>15. ApplyPlan(t, NoEvent, wk, FALSE)
  BY <1>2, Zenon
<1>14. NoEvent \in Int /\ Acting(t)
  BY <1>4 DEF NoEvent, Acting
<1> HIDE DEF wk
<1> QED
  BY <1>2, <1>4, <1>8, <1>11, <1>12, <1>13, <1>14, <1>15, TimersStep, ZenonT(30)

\* RtlUpdateTimer
LEMMA UpdateTimerInv ==
    ASSUME IInv, NEW t \in Threads, NEW h \in Handles, NEW due \in Dues,
           NEW period \in Periods, UpdateTimer(t, h, due, period)
    PROVE  IInv'
<1> DEFINE q == handle[h].q[1]
           i == handle[h].i
           ts == queue[q].timer
           vs == [ts EXCEPT ![i].deadline = now + due, ![i].period = period]
           us == Sequenced(vs, i)
<1>1. /\ Handling(handle) /\ Planning /\ queue \in [Queues -> QueueRec]
      /\ \A p \in Queues : QueueOK(queue[p])
  BY SMTT(30) DEF IInv, Shape, Queueing
<1>2. /\ MayCall(t) /\ handle[h].state = "Live" /\ queue[q].state = "Live"
      /\ ts[i].phase = "Armed" /\ queue' = [queue EXCEPT ![q].timer = us]
      /\ ApplyPlan(t, NoEvent, HeadChanged(ts, us, i), FALSE)
      /\ UNCHANGED <<now, handle, wake, posted, plan>>
  BY Zenon DEF UpdateTimer, QueueLive
<1>3. q \in Queues /\ i \in Timers
  BY <1>1, <1>2, ZenonT(30) DEF Handling
<1>4. ts \in [Timers -> TimerRec] /\ \A j \in Timers : ts[j].phase = "Free" => ts[j].active = {}
  BY <1>1, <1>3 DEF QueueOK, TimersOK
<1>5. now + due \in Int /\ period \in Int
  BY <1>1, BoundsAssumption DEF Planning
<1> HIDE DEF q, i, ts
<1>6. /\ vs \in [Timers -> TimerRec]
      /\ \A j \in Timers : /\ vs[j].gen = ts[j].gen /\ vs[j].phase = ts[j].phase
                           /\ vs[j].active = ts[j].active
  BY <1>3, <1>4, <1>5, ZenonT(30) DEF TimerRec
<1> HIDE DEF vs
<1>7. /\ us \in [Timers -> TimerRec]
      /\ \A j \in Timers : /\ us[j].gen = ts[j].gen /\ us[j].phase = ts[j].phase
                           /\ us[j].active = ts[j].active
  BY <1>3, <1>6, SequencedOnly
<1> HIDE DEF us
<1>8. \A j \in Timers :
               /\ us[j].active = queue[q].timer[j].active
               /\ us[j].phase = "Free" => us[j].active = {}
               /\ queue[q].timer[j].active # {} => us[j].gen = queue[q].timer[j].gen
  BY <1>4, <1>7 DEF ts
<1> DEFINE wk == HeadChanged(ts, us, i)
<1>9. wk \in BOOLEAN /\ (~wk => HeadIdentity(queue[q].timer) = HeadIdentity(us))
  BY DEF HeadChanged, ts
<1>12. ApplyPlan(t, NoEvent, wk, FALSE)
  BY <1>2, Zenon
<1>10. NoEvent \in Int /\ Acting(t)
  BY <1>2 DEF NoEvent, Acting
<1>11. Handling(handle') /\ UNCHANGED <<now, wake, posted, plan>>
  BY <1>1, <1>2, Zenon
<1> HIDE DEF wk
<1> QED
  BY <1>2, <1>3, <1>7, <1>8, <1>9, <1>10, <1>11, <1>12, TimersStep, ZenonT(30)

\* TimerQueue::delete_timer keeps callbacks with their timer.
LEMMA DestroyedKeeps ==
    ASSUME NEW ts \in [Timers -> TimerRec], NEW i \in Timers, NEW ev \in Int,
           \A j \in Timers : ts[j].phase = "Free" => ts[j].active = {}
    PROVE  /\ Destroyed(ts, i, ev) \in [Timers -> TimerRec]
           /\ \A j \in Timers :
                /\ Destroyed(ts, i, ev)[j].active = ts[j].active
                /\ Destroyed(ts, i, ev)[j].phase = "Free" => ts[j].active = {}
                /\ Destroyed(ts, i, ev)[j].gen = ts[j].gen
<1> DEFINE ph == IF ts[i].active = {} THEN "Free" ELSE "Destroying"
           e == IF ts[i].active = {} THEN NoEvent ELSE ev
           vs == [ts EXCEPT ![i].phase = ph, ![i].ev = e]
<1>1. ph \in {"Free", "Destroying"} /\ (ph = "Free" => ts[i].active = {}) /\ e \in Int
  BY DEF NoEvent
<1>2. Destroyed(ts, i, ev) = Renumber(vs)
  BY DEF Destroyed
<1> HIDE DEF ph, e
<1>3. vs \in [Timers -> TimerRec]
  <2>1. ph \in {"Free", "Armed", "Dormant", "Destroying"}
    BY <1>1
  <2>2. [ts EXCEPT ![i].phase = ph] \in [Timers -> TimerRec]
    BY <2>1 DEF TimerRec
  <2>3. \A ws \in [Timers -> TimerRec] : [ws EXCEPT ![i].ev = e] \in [Timers -> TimerRec]
    BY <1>1 DEF TimerRec
  <2> QED
    BY <2>2, <2>3, Zenon
<1>4. \A j \in Timers : /\ vs[j].active = ts[j].active /\ vs[j].gen = ts[j].gen
                        /\ vs[j].phase = IF j = i THEN ph ELSE ts[j].phase
  BY DEF TimerRec
<1> HIDE DEF vs
<1> QED
  BY <1>1, <1>2, <1>3, <1>4, Renumbered, SMTT(30)

\* RtlDeleteTimer under the lock.
LEMMA DeleteTimerInv ==
    ASSUME IInv, NEW t \in Threads, Acting(t), NEW h \in Handles, NEW tok,
           tok[1] = h, MayDeleteTimer(tok), NEW ev \in Int, DeleteTimer(t, h, ev),
           UNCHANGED <<now, wake, posted, plan>>
    PROVE  IInv'
<1> DEFINE q == handle[h].q[1]
           i == handle[h].i
           ts == queue[q].timer
           us == Destroyed(ts, i, ev)
           idle == ts[i].active = {}
<1>1. /\ Handling(handle) /\ queue \in [Queues -> QueueRec]
      /\ \A p \in Queues : QueueOK(queue[p])
  BY SMTT(30) DEF IInv, Shape, Queueing
<1>2. /\ handle[h].state = "Live" /\ queue[q].state # "Free"
      /\ ts[i].phase # "Free" /\ ts[i].phase # "Destroying"
  BY Zenon DEF MayDeleteTimer, HandleLive, QueueKnown, Known, TimersOf
<1>3. q \in Queues /\ i \in Timers
  BY <1>1, <1>2, ZenonT(30) DEF Handling
<1>4. queue[q].state = "Live"
  <2>1. QueueOK(queue[q]) /\ queue[q].state \in {"Free", "Live", "Retired"}
    BY <1>1, <1>3, SMTT(30) DEF QueueRec
  <2>2. queue[q].state # "Retired"
    BY <1>2, <1>3, <2>1, Zenon DEF QueueOK
  <2> QED
    BY <1>2, <2>1, <2>2, ZenonT(30)
<1>5. ts \in [Timers -> TimerRec] /\ \A j \in Timers : ts[j].phase = "Free" => ts[j].active = {}
  BY <1>1, <1>3, ZenonT(30) DEF QueueOK, TimersOK
<1> DEFINE wk == HeadIdentity(ts) # HeadIdentity(us)
           wt == ev > 0 /\ ~idle
           sig == IF idle THEN ev ELSE NoEvent
           st == IF idle THEN "Free" ELSE "Retired"
<1>6. /\ queue' = [queue EXCEPT ![q].timer = us]
      /\ handle' = [handle EXCEPT ![h].state = st]
  BY Zenon DEF DeleteTimer
<1>7. ApplyPlan(t, sig, wk, wt)
  BY Zenon DEF DeleteTimer
<1>8. sig \in Int /\ wk \in BOOLEAN /\ wt \in BOOLEAN
  BY SMTT(30) DEF NoEvent
<1>9. ~wk => HeadIdentity(queue[q].timer) = HeadIdentity(us)
  BY SMTT(30)
<1>10. Handling(handle')
  <2>3. st \in {"Free", "Live", "Retired"}
    OBVIOUS
  <2> HIDE DEF st
  <2>1. handle' \in [Handles -> HandleRec]
    BY <1>1, <1>6, <2>3 DEF Handling, HandleRec
  <2>2. \A g \in Handles : /\ handle'[g].q = handle[g].q /\ handle'[g].i = handle[g].i
                           /\ g # h => handle'[g].state = handle[g].state
    BY <1>1, <1>6, Zenon DEF Handling, HandleRec
  <2> QED
    BY <1>1, <1>2, <2>1, <2>2, ZenonT(30) DEF Handling
<1> HIDE DEF ts, i, q
<1>11. /\ us \in [Timers -> TimerRec]
       /\ \A j \in Timers :
               /\ us[j].active = ts[j].active
               /\ us[j].phase = "Free" => us[j].active = {}
               /\ ts[j].active # {} => us[j].gen = ts[j].gen
  BY <1>3, <1>5, DestroyedKeeps, SMTT(30)
<1> HIDE DEF us, wk, wt, sig, idle
<1>12. \A j \in Timers :
               /\ us[j].active = queue[q].timer[j].active
               /\ us[j].phase = "Free" => us[j].active = {}
               /\ queue[q].timer[j].active # {} => us[j].gen = queue[q].timer[j].gen
  BY <1>11, Zenon DEF ts
<1>13. us \in [Timers -> TimerRec]
  BY <1>11
<1> QED
  BY <1>3, <1>4, <1>6, <1>7, <1>8, <1>9, <1>10, <1>12, <1>13, TimersStep, ZenonT(30)

\* RtlDeleteTimerQueue(Ex) under the lock.
LEMMA DeleteQueueInv ==
    ASSUME IInv, NEW t \in Threads, Acting(t), NEW q \in Queues,
           queue[q].state = "Live", NEW ev \in Int, DeleteQueue(t, q, ev),
           UNCHANGED <<now, wake, posted, plan>>
    PROVE  IInv'
<1> DEFINE ts == queue[q].timer
           drained == InFlight(ts) = {}
           vs == [i \in Timers |-> [ts[i] EXCEPT !.phase =
                    IF ts[i].active = {} THEN "Free" ELSE "Destroying"]]
           us == Renumber(vs)
           leaves == drained /\ OnWorker(t)
           st == IF leaves THEN "Free" ELSE "Retired"
           ph == IF leaves THEN "Exited" ELSE IF drained THEN "AwaitingWorkerExit"
                 ELSE "Deleting"
           e == IF leaves THEN NoEvent ELSE ev
           a == [queue[q] EXCEPT !.state = st, !.phase = ph, !.ev = e, !.timer = us]
           sig == IF leaves THEN ev ELSE NoEvent
           wt == ev > 0
<1>1. /\ Handling(handle) /\ queue \in [Queues -> QueueRec]
      /\ \A p \in Queues : QueueOK(queue[p])
  BY ZenonT(30) DEF IInv, Shape, Queueing
<1>2. ts \in [Timers -> TimerRec] /\ TimersOK(ts)
  BY <1>1 DEF QueueOK, TimersOK
<1>3. queue' = [queue EXCEPT ![q] = a] /\ handle' = QueueHandles(q)
  BY DEF DeleteQueue
<1>4. ApplyPlan(t, sig, TRUE, wt)
  BY Zenon DEF DeleteQueue
<1>5. sig \in Int /\ wt \in BOOLEAN
  BY SMTT(30) DEF NoEvent
<1>6. /\ st \in {"Free", "Retired"} /\ e \in Int
      /\ ph \in {"Deleting", "AwaitingWorkerExit", "Exited"}
      /\ (st = "Free" \/ ph \in {"AwaitingWorkerExit", "Exited"}) => drained
  BY SMTT(30) DEF NoEvent
<1>7. drained => \A i \in Timers : ts[i].active = {}
  BY DEF InFlight
<1> HIDE DEF st, ph, e, drained, leaves, sig, wt, ts
<1>8. vs \in [Timers -> TimerRec]
      /\ \A i \in Timers : /\ vs[i].active = ts[i].active /\ vs[i].gen = ts[i].gen
                           /\ vs[i].phase = IF ts[i].active = {} THEN "Free" ELSE "Destroying"
  <2>1. \A i \in Timers : (IF ts[i].active = {} THEN "Free" ELSE "Destroying")
                            \in {"Free", "Destroying"}
    BY Zenon
  <2> QED
    BY <1>2, <2>1 DEF TimerRec
<1> HIDE DEF vs
<1>9. us \in [Timers -> TimerRec]
      /\ \A i \in Timers : /\ us[i].active = ts[i].active /\ us[i].gen = ts[i].gen
                           /\ us[i].phase = IF ts[i].active = {} THEN "Free" ELSE "Destroying"
  BY <1>8, Renumbered
<1> HIDE DEF us
<1>10. /\ a \in QueueRec /\ a.state = st /\ a.phase = ph /\ a.timer = us
       /\ a.gen = queue[q].gen
  BY <1>1, <1>6, <1>9, ZenonT(30) DEF QueueRec
<1> HIDE DEF a
<1>11. TimersOK(us)
  BY <1>2, <1>9 DEF TimersOK
<1>12. \A i \in Timers : us[i].phase \in {"Free", "Destroying"}
  BY <1>9
<1>13. drained => \A i \in Timers : us[i].phase = "Free"
  BY <1>7, <1>9, Zenon
<1>14. QueueOK(a)
  BY <1>6, <1>10, <1>11, <1>12, <1>13, Zenon DEF QueueOK
<1>15. KeptBy(queue[q], a)
  BY <1>6, <1>7, <1>9, <1>10, Zenon DEF KeptBy, ts
<1>16. Handling(handle')
  <2>1. handle \in [Handles -> HandleRec]
    BY <1>1, Zenon DEF Handling
  <2> DEFINE s(h) == IF ts[handle[h].i].active = {} THEN "Free" ELSE "Retired"
  <2>2. \A h \in Handles : s(h) \in {"Free", "Retired"}
    OBVIOUS
  <2>3. handle' = [h \in Handles |->
            IF handle[h].state = "Free" \/ handle[h].q # <<q, queue[q].gen>>
              THEN handle[h] ELSE [handle[h] EXCEPT !.state = s(h)]]
    BY <1>3 DEF QueueHandles, ts
  <2> HIDE DEF s
  <2>4. \A h \in Handles : /\ handle'[h] \in HandleRec
                           /\ handle'[h].q = handle[h].q /\ handle'[h].i = handle[h].i
                           /\ handle'[h].state # "Free" => handle[h].state # "Free"
    BY <2>1, <2>2, <2>3 DEF HandleRec
  <2>5. handle' \in [Handles -> HandleRec]
    BY <2>3, <2>4, SMTT(30)
  <2> QED
    BY <1>1, <2>4, <2>5, Zenon DEF Handling
<1>17. ~(queue[q].state = "Retired" /\ queue[q].phase = "Exited")
  OBVIOUS
<1> QED
  BY <1>3, <1>4, <1>5, <1>14, <1>15, <1>16, <1>17, QueueStep, ZenonT(30)

\* RtlDeleteTimer, asynchronous or with the caller's event.
LEMMA DeleteTimerAsyncInv ==
    ASSUME IInv, NEW t \in Threads, NEW h \in Handles, NEW ev \in Int,
           DeleteTimerAsync(t, h, ev)
    PROVE  IInv'
<1>1. /\ MayCall(t) /\ MayDeleteTimer(<<h, handle[h].gen>>) /\ DeleteTimer(t, h, ev)
      /\ UNCHANGED <<now, wake, posted, plan>>
  BY Zenon DEF DeleteTimerAsync
<1>2. Acting(t) /\ <<h, handle[h].gen>>[1] = h
  BY <1>1, Zenon DEF Acting
<1> QED
  BY <1>1, <1>2, DeleteTimerInv

\* RtlDeleteTimerQueue(Ex), likewise.
LEMMA DeleteQueueAsyncInv ==
    ASSUME IInv, NEW t \in Threads, NEW q \in Queues, NEW ev \in Int,
           DeleteQueueAsync(t, q, ev)
    PROVE  IInv'
<1>1. /\ MayCall(t) /\ queue[q].state = "Live" /\ DeleteQueue(t, q, ev)
      /\ UNCHANGED <<now, wake, posted, plan>>
  BY DEF DeleteQueueAsync
<1>2. Acting(t)
  BY <1>1, SMTT(30) DEF Acting
<1> QED
  BY <1>1, <1>2, DeleteQueueInv, Zenon

\* The check before a synchronous delete.
LEMMA BeginSyncDeleteInv ==
    ASSUME IInv, NEW t \in Threads, NEW op, NEW h, NEW q, NEW refused,
           op \in {"timer", "queue"}, h \in Int \X Nat, q \in Int \X Nat,
           op = "timer" => h[1] \in Handles, op = "queue" => q[1] \in Queues,
           BeginSyncDelete(t, op, h, q, refused)
    PROVE  IInv'
<1>1. /\ thread \in [Threads -> ThreadRec] /\ ThreadOK(t, thread[t]) /\ Planning
      /\ wake \in BOOLEAN
  BY DEF IInv, Shape, Threading
<1>2. thread[t] \in ThreadRec
  BY <1>1
<1> DEFINE r == [thread[t] EXCEPT !.pc = "event", !.op = op, !.h = h, !.q = q]
<1>3. /\ MayCall(t) /\ thread' = [thread EXCEPT ![t] = r]
      /\ UNCHANGED <<now, queue, handle, wake, posted, plan>>
  BY <1>1, Zenon DEF BeginSyncDelete, ThreadRec
<1>4. /\ r \in ThreadRec /\ r.pc = "event" /\ r.cb = thread[t].cb /\ r.op = op
      /\ r.h = h /\ r.q = q
  BY <1>2, Zenon DEF ThreadRec, OpPcs
<1> HIDE DEF r
<1>5. /\ thread[t].pc = IF OnWorker(t) THEN "callback" ELSE "idle"
      /\ ~(thread[t].pc \in {"apply", "report"})
  BY <1>3 DEF MayCall
<1>6. ThreadOK(t, r)
  BY <1>1, <1>4, <1>5, ThreadsAssumption, Zenon
     DEF ThreadOK, OnWorker, Threads, OpPcs, RestPcs
<1>7. Planning' /\ plan'.clock + plan'.timeout = plan.clock + plan.timeout
  BY <1>1, <1>3, Zenon DEF Planning
<1>8. /\ r.pc # "exit" /\ UNCHANGED <<queue, handle, posted>>
      /\ t = Scheduler /\ r.pc \in {"rest", "sleep"} => thread[t].pc \in {"rest", "sleep"}
  BY <1>3, <1>4
<1>9. wake' \in BOOLEAN /\ (wake => wake')
  BY <1>1, <1>3, Zenon
<1>10. thread[t].pc \in {"apply", "report"} /\ thread[t].wake =>
          wake' \/ (r.pc \in {"apply", "report"} /\ r.wake)
  BY <1>5, Zenon
<1> QED
  BY <1>3, <1>4, <1>6, <1>7, <1>8, <1>9, <1>10, LocalStep, ZenonT(30)

\* RtlDeleteTimer with INVALID_HANDLE_VALUE.
LEMMA DeleteTimerSyncInv ==
    ASSUME IInv, NEW t \in Threads, NEW h \in Handles, DeleteTimerSync(t, h)
    PROVE  IInv'
<1>1. handle[h].gen \in Nat
  BY DEF IInv, Shape, Handling, HandleRec
<1>2. <<h, handle[h].gen>> \in Int \X Nat /\ <<h, handle[h].gen>>[1] \in Handles
  BY <1>1, Numbers
<1>3. <<0, 0>> \in Int \X Nat
  OBVIOUS
<1> QED
  BY <1>2, <1>3, BeginSyncDeleteInv, SMTT(30) DEF DeleteTimerSync

\* RtlDeleteTimerQueueEx with INVALID_HANDLE_VALUE.
LEMMA DeleteQueueSyncInv ==
    ASSUME IInv, NEW t \in Threads, NEW q \in Queues, DeleteQueueSync(t, q)
    PROVE  IInv'
<1>1. queue[q].gen \in Nat
  BY DEF IInv, Shape, Queueing, QueueRec
<1>2. <<q, queue[q].gen>> \in Int \X Nat /\ <<q, queue[q].gen>>[1] \in Queues
  BY <1>1, Numbers, SMTT(30)
<1>3. <<0, 0>> \in Int \X Nat
  OBVIOUS
<1> QED
  BY <1>2, <1>3, BeginSyncDeleteInv DEF DeleteQueueSync

\* A thread at rest is of its type.
LEMMA RestingType == Resting \in ThreadRec
BY DEF Resting, ThreadRec, NoEvent

\* The end of an operation returns to the caller, or to the callback that
\* made the call, with its ticket.
LEMMA EndOpOK ==
    ASSUME IInv, NEW t \in Threads, thread[t].pc \in OpPcs
    PROVE  /\ EndOp(t) \in ThreadRec /\ ThreadOK(t, EndOp(t))
           /\ EndOp(t).cb = thread[t].cb /\ EndOp(t).pc \in {"idle", "callback"}
<1>1. /\ thread[t] \in ThreadRec /\ ThreadOK(t, thread[t])
  BY DEF IInv, Shape, Threading
<1> DEFINE p == IF t = Scheduler \/ t \in Workers THEN "callback" ELSE "idle"
           c == thread[t].cb
           r == [Resting EXCEPT !.cb = c, !.pc = p]
<1>2. EndOp(t) = r
  BY DEF EndOp
<1>3. c \in TicketRec \cup {NoTicket} /\ p \in {"idle", "callback"}
  BY <1>1 DEF ThreadRec
<1>4. t \in Callers => p = "idle"
  BY ThreadsAssumption, Zenon
<1>5. (t \in Workers \/ t = Scheduler) => p = "callback" /\ c # NoTicket
  BY <1>1, Zenon DEF ThreadOK, OpPcs, RestPcs
<1>6. t \in Callers => c = NoTicket
  BY <1>1 DEF ThreadOK
<1> HIDE DEF c, p
<1>7. \A u \in ThreadRec :
          LET v == [u EXCEPT !.cb = c, !.pc = p]
          IN  v \in ThreadRec /\ v.pc = p /\ v.cb = c
            /\ v.op = u.op /\ v.h = u.h /\ v.q = u.q
  BY <1>3, ZenonT(30) DEF ThreadRec
<1>8. r \in ThreadRec /\ r.pc = p /\ r.cb = c
  BY <1>7, RestingType, Zenon
<1> HIDE DEF r
<1>9. ThreadOK(t, r)
  BY <1>3, <1>4, <1>5, <1>6, <1>8 DEF ThreadOK, OpPcs, RestPcs, Threads
<1> QED
  BY <1>2, <1>3, <1>8, <1>9 DEF c

\* A step of a thread in an operation that touches no table.
LEMMA OpStep ==
    ASSUME IInv, NEW t \in Threads, NEW r \in ThreadRec, ThreadOK(t, r),
           thread[t].pc \in OpPcs, r.cb = thread[t].cb,
           r.pc \in OpPcs \cup {"idle", "callback"},
           thread' = [thread EXCEPT ![t] = r],
           wake' \in BOOLEAN, wake => wake',
           thread[t].pc = "apply" /\ thread[t].wake => wake',
           UNCHANGED <<now, queue, handle, posted, plan>>
    PROVE  IInv'
<1>1. Planning
  BY DEF IInv, Shape
<1>2. Planning' /\ plan'.clock + plan'.timeout = plan.clock + plan.timeout
  BY <1>1 DEF Planning
<1>3. r.pc # "exit" /\ ~(r.pc \in {"rest", "sleep"}) /\ thread[t].pc # "report"
  BY DEF OpPcs
<1>4. thread[t].pc \in {"apply", "report"} /\ thread[t].wake =>
          wake' \/ (r.pc \in {"apply", "report"} /\ r.wake)
  BY <1>3
<1> QED
  BY <1>2, <1>3, <1>4, LocalStep, Zenon

\* timer_completion_mode
LEMMA CreateEventInv ==
    ASSUME IInv, NEW t \in Threads, NEW ok \in BOOLEAN, CreateEvent(t, ok)
    PROVE  IInv'
<1>1. /\ thread \in [Threads -> ThreadRec] /\ ThreadOK(t, thread[t])
      /\ thread[t] \in ThreadRec /\ wake \in BOOLEAN
  BY DEF IInv, Shape, Threading
<1>2. /\ thread[t].pc = "event" /\ UNCHANGED <<now, queue, handle, wake, posted, plan>>
  BY DEF CreateEvent
<1>3. /\ thread[t].pc \in OpPcs /\ wake' \in BOOLEAN /\ (wake => wake')
      /\ thread[t].pc = "apply" /\ thread[t].wake => wake'
  BY <1>1, <1>2, Zenon DEF OpPcs
<1>4. ASSUME NEW r \in ThreadRec, r.pc = "delete", r.cb = thread[t].cb,
             r.op = thread[t].op, r.h = thread[t].h, r.q = thread[t].q
      PROVE  ThreadOK(t, r) /\ r.pc \in OpPcs \cup {"idle", "callback"}
  BY <1>1, <1>2, <1>4, Zenon DEF ThreadOK, OpPcs, RestPcs
<1>5. CASE ok
  <2>1. PICK e \in LeastOf({e \in Events : event[e] = "closed"}) :
            thread' = [thread EXCEPT ![t].pc = "delete", ![t].ev = e]
    BY <1>5 DEF CreateEvent
  <2>2. e \in Int
    BY DEF LeastOf, Events
  <2> DEFINE r == [thread[t] EXCEPT !.pc = "delete", !.ev = e]
  <2>3. thread' = [thread EXCEPT ![t] = r]
    BY <1>1, <2>1, Zenon DEF ThreadRec
  <2>4. /\ r \in ThreadRec /\ r.pc = "delete" /\ r.cb = thread[t].cb
        /\ r.op = thread[t].op /\ r.h = thread[t].h /\ r.q = thread[t].q
    BY <1>1, <2>2, Zenon DEF ThreadRec, OpPcs
  <2> HIDE DEF r
  <2> QED
    BY <1>2, <1>3, <1>4, <2>3, <2>4, OpStep, Zenon
<1>6. CASE ~ok
  <2>1. thread' = [thread EXCEPT ![t] =
                     IF thread[t].op = "timer" THEN [thread[t] EXCEPT !.pc = "delete"]
                                               ELSE EndOp(t)]
    BY <1>1, <1>6, SMTT(30) DEF CreateEvent
  <2>2. CASE thread[t].op = "timer"
    <3> DEFINE r == [thread[t] EXCEPT !.pc = "delete"]
    <3>1. thread' = [thread EXCEPT ![t] = r]
      BY <2>1, <2>2
    <3>2. /\ r \in ThreadRec /\ r.pc = "delete" /\ r.cb = thread[t].cb
          /\ r.op = thread[t].op /\ r.h = thread[t].h /\ r.q = thread[t].q
      BY <1>1, SMTT(30) DEF ThreadRec, OpPcs
    <3> HIDE DEF r
    <3> QED
      BY <1>2, <1>3, <1>4, <3>1, <3>2, OpStep, Zenon
  <2>3. CASE thread[t].op # "timer"
    <3>1. thread' = [thread EXCEPT ![t] = EndOp(t)]
      BY <2>1, <2>3, Zenon
    <3> QED
      BY <1>2, <1>3, <3>1, EndOpOK, OpStep, Zenon
  <2> QED
    BY <2>2, <2>3
<1> QED
  BY <1>5, <1>6

\* The second half of a synchronous delete.
LEMMA FinishSyncDeleteInv ==
    ASSUME IInv, NEW t \in Threads, FinishSyncDelete(t)
    PROVE  IInv'
<1> DEFINE r == thread[t]
           found == IF r.op = "timer" THEN MayDeleteTimer(r.h) ELSE QueueLive(r.q)
<1>1. /\ ThreadOK(t, r) /\ r \in ThreadRec /\ wake \in BOOLEAN
  BY Zenon DEF IInv, Shape, Threading
<1>2. /\ r.pc = "delete" /\ UNCHANGED <<now, wake, posted, plan>> /\ Acting(t)
  BY Zenon DEF FinishSyncDelete, Acting
<1>3. r.ev \in Int /\ r.op \in {"timer", "queue"}
  BY <1>1, <1>2, Zenon DEF ThreadRec, ThreadOK
<1>4. CASE found /\ r.op = "timer"
  <2>1. DeleteTimer(t, r.h[1], r.ev) /\ MayDeleteTimer(r.h)
    BY <1>4, Zenon DEF FinishSyncDelete
  <2>2. r.h[1] \in Handles
    BY <1>1, <1>2, <1>4, Zenon DEF ThreadOK
  <2> QED
    BY <1>2, <1>3, <2>1, <2>2, DeleteTimerInv, Zenon
<1>5. CASE found /\ r.op # "timer"
  <2>1. DeleteQueue(t, r.q[1], r.ev) /\ queue[r.q[1]].state = "Live"
    BY <1>5, Zenon DEF FinishSyncDelete, QueueLive
  <2>2. r.q[1] \in Queues
    BY <1>1, <1>2, <1>3, <1>5, SMTT(30) DEF ThreadOK
  <2> QED
    BY <1>2, <1>3, <2>1, <2>2, DeleteQueueInv, Zenon
<1>6. CASE ~found
  <2>1. /\ thread' = [thread EXCEPT ![t] = EndOp(t)] /\ UNCHANGED <<queue, handle>>
    BY <1>6, Zenon DEF FinishSyncDelete
  <2>2. /\ thread[t].pc \in OpPcs /\ wake' \in BOOLEAN /\ (wake => wake')
        /\ thread[t].pc = "apply" /\ thread[t].wake => wake'
    BY <1>1, <1>2 DEF OpPcs
  <2> QED
    BY <1>2, <2>1, <2>2, EndOpOK, OpStep, Zenon
<1> QED
  BY <1>4, <1>5, <1>6

\* After the lock: the plan's events are set.
LEMMA ApplyInv ==
    ASSUME IInv, NEW t \in Threads, Apply(t)
    PROVE  IInv'
<1>1. /\ thread \in [Threads -> ThreadRec] /\ ThreadOK(t, thread[t])
      /\ thread[t] \in ThreadRec /\ wake \in BOOLEAN
  BY DEF IInv, Shape, Threading
<1>2. /\ thread[t].pc = "apply" /\ UNCHANGED <<now, queue, handle, posted, plan>>
      /\ wake' = (wake \/ thread[t].wake)
  BY DEF Apply
<1>3. /\ thread[t].pc \in OpPcs /\ wake' \in BOOLEAN /\ (wake => wake')
      /\ thread[t].pc = "apply" /\ thread[t].wake => wake'
  BY <1>2, Zenon DEF OpPcs
<1>4. CASE thread[t].wait
  <2> DEFINE r == [thread[t] EXCEPT !.pc = "wait"]
  <2>1. thread' = [thread EXCEPT ![t] = r]
    BY <1>4 DEF Apply
  <2>2. r \in ThreadRec /\ r.pc = "wait" /\ r.cb = thread[t].cb
    BY <1>1, Zenon DEF ThreadRec, OpPcs
  <2> HIDE DEF r
  <2>3. ThreadOK(t, r) /\ r.pc \in OpPcs \cup {"idle", "callback"}
    BY <1>1, <1>2, <2>2, Zenon DEF ThreadOK, OpPcs, RestPcs
  <2> QED
    BY <1>2, <1>3, <2>1, <2>2, <2>3, OpStep, Zenon
<1>5. CASE ~thread[t].wait
  <2>1. thread' = [thread EXCEPT ![t] = EndOp(t)]
    BY <1>5, SMTT(30) DEF Apply
  <2> QED
    BY <1>2, <1>3, <2>1, EndOpOK, OpStep, Zenon
<1> QED
  BY <1>4, <1>5

\* rtl_async_wait_for_completion
LEMMA WaitForCompletionInv ==
    ASSUME IInv, NEW t \in Threads, WaitForCompletion(t)
    PROVE  IInv'
<1>1. wake \in BOOLEAN
  BY DEF IInv, Shape
<1>2. /\ thread[t].pc = "wait" /\ thread' = [thread EXCEPT ![t] = EndOp(t)]
      /\ UNCHANGED <<now, queue, handle, wake, posted, plan>>
  BY DEF WaitForCompletion
<1>3. /\ thread[t].pc \in OpPcs /\ wake' \in BOOLEAN /\ (wake => wake')
      /\ thread[t].pc = "apply" /\ thread[t].wake => wake'
  BY <1>1, <1>2 DEF OpPcs
<1> QED
  BY <1>2, <1>3, EndOpOK, OpStep, Zenon

\* The record of a thread that has no business is its resting record.
LEMMA RestsOK ==
    ASSUME NEW t \in Workers \cup {Scheduler}, NEW r,
           r = IF t = Scheduler THEN [Resting EXCEPT !.pc = "read"] ELSE Resting
    PROVE  /\ r \in ThreadRec /\ ThreadOK(t, r) /\ r.cb = NoTicket
           /\ r.pc \in {"read", "idle"}
<1>1. Resting.pc = "idle" /\ Resting.cb = NoTicket
  BY DEF Resting
<1>2. /\ [Resting EXCEPT !.pc = "read"] \in ThreadRec
      /\ [Resting EXCEPT !.pc = "read"].pc = "read"
      /\ [Resting EXCEPT !.pc = "read"].cb = NoTicket
  BY <1>1, RestingType DEF ThreadRec, RestPcs
<1>3. t \notin Callers /\ ~(t = Scheduler /\ t \in Workers)
  BY ThreadsAssumption
<1>4. CASE t = Scheduler
  BY <1>2, <1>3, <1>4, SMTT(30) DEF ThreadOK, OpPcs, RestPcs
<1>5. CASE t # Scheduler
  BY <1>1, <1>3, <1>5, RestingType, SMTT(30) DEF ThreadOK, OpPcs, RestPcs
<1> QED
  BY <1>4, <1>5

\* apply_timer_completion
LEMMA ReportInv ==
    ASSUME IInv, NEW t \in Threads, Report(t)
    PROVE  IInv'
<1>1. /\ thread \in [Threads -> ThreadRec] /\ ThreadOK(t, thread[t]) /\ wake \in BOOLEAN
      /\ thread[t] \in ThreadRec /\ Planning
  BY DEF IInv, Shape, Threading
<1> DEFINE r == IF t = Scheduler THEN [Resting EXCEPT !.pc = "read"] ELSE Resting
<1>2. /\ thread[t].pc = "report" /\ thread' = [thread EXCEPT ![t] = r]
      /\ wake' = (wake \/ thread[t].wake)
      /\ UNCHANGED <<now, queue, handle, posted, plan>>
  BY DEF Report
<1>3. t \in Workers \cup {Scheduler} /\ thread[t].cb = NoTicket
  BY <1>1, <1>2 DEF ThreadOK, Threads, OpPcs, RestPcs
<1>4. /\ r \in ThreadRec /\ ThreadOK(t, r) /\ r.cb = NoTicket /\ r.pc \in {"read", "idle"}
  BY <1>3, RestsOK, Zenon
<1> HIDE DEF r
<1>5. wake' \in BOOLEAN /\ (wake => wake') /\ (thread[t].wake => wake')
  BY <1>2, Zenon
<1>6. thread[t].pc \in {"apply", "report"} /\ thread[t].wake =>
          wake' \/ (r.pc \in {"apply", "report"} /\ r.wake)
  BY <1>5
<1>7. Planning' /\ plan'.clock + plan'.timeout = plan.clock + plan.timeout
  BY <1>1, <1>2, Zenon DEF Planning
<1>8. /\ r.pc # "exit" /\ UNCHANGED <<queue, handle, posted>>
      /\ t = Scheduler /\ r.pc \in {"rest", "sleep"} => thread[t].pc \in {"rest", "sleep"}
      /\ r.cb = thread[t].cb
  BY <1>2, <1>3, <1>4
<1> QED
  BY <1>2, <1>4, <1>5, <1>6, <1>7, <1>8, LocalStep, ZenonT(30)
-----------------------------------------------------------------------------
(* The scheduler *)

\* A step after which the scheduler is on its feet, that leaves the tables.
LEMMA AwakeStep ==
    ASSUME IInv, NEW r \in ThreadRec, ThreadOK(Scheduler, r),
           r.cb = thread[Scheduler].cb, ~(r.pc \in {"rest", "sleep", "exit"}),
           thread' = [thread EXCEPT ![Scheduler] = r], wake' \in BOOLEAN, Planning',
           UNCHANGED <<queue, handle, posted>>
    PROVE  IInv'
<1>1. /\ Queueing(queue) /\ Handling(handle) /\ Threading(thread)
      /\ Retiring(queue, thread[Scheduler])
      /\ Exclusive(posted, thread) /\ Balanced(TicketsOf(posted, thread), queue)
  BY DEF IInv, Shape, Ticketing, Tickets, TicketsOf
<1>2. Scheduler \in Threads /\ thread \in [Threads -> ThreadRec]
  BY <1>1 DEF Threads, Threading
<1>3. Threading(thread') /\ thread'[Scheduler] = r
  BY <1>1, <1>2, ThreadingStep, ZenonT(30)
<1>4. Retiring(queue', thread'[Scheduler])
  BY <1>3 DEF Retiring
<1>5. /\ Exclusive(posted', thread')
      /\ TicketsOf(posted', thread') = TicketsOf(posted, thread)
  BY <1>1, <1>2, TicketsKept, ZenonT(30)
<1>6. Shape'
  BY <1>1, <1>3, <1>4 DEF Shape
<1>7. Ticketing'
  BY <1>1, <1>5, Zenon DEF Ticketing, Tickets, TicketsOf
<1>8. Watched'
  BY <1>3, SMTT(30) DEF Watched, Watching
<1> QED
  BY <1>6, <1>7, <1>8 DEF IInv

\* The scheduler moves between its own positions.
LEMMA SchedulerMoves ==
    ASSUME IInv, NEW p \in RestPcs, thread[Scheduler].pc \in RestPcs,
           NEW r, r = [thread[Scheduler] EXCEPT !.pc = p]
    PROVE  /\ r \in ThreadRec /\ ThreadOK(Scheduler, r) /\ r.pc = p
           /\ r.cb = thread[Scheduler].cb /\ r.wake = thread[Scheduler].wake
<1>1. /\ Scheduler \in Threads /\ thread[Scheduler] \in ThreadRec
      /\ ThreadOK(Scheduler, thread[Scheduler])
  BY DEF IInv, Shape, Threading, Threads
<1>2. /\ r \in ThreadRec /\ r.pc = p /\ r.cb = thread[Scheduler].cb
      /\ r.wake = thread[Scheduler].wake
  BY <1>1 DEF ThreadRec
<1>3. Scheduler \notin Callers /\ Scheduler \notin Workers
  BY ThreadsAssumption
<1> QED
  BY <1>1, <1>2, <1>3 DEF ThreadOK, RestPcs

\* The clock is read before the lock is taken.
LEMMA ReadClockInv == ASSUME IInv, ReadClock PROVE IInv'
<1> DEFINE r == [thread[Scheduler] EXCEPT !.pc = "scan"]
<1>1. /\ thread[Scheduler].pc = "read" /\ thread' = [thread EXCEPT ![Scheduler] = r]
      /\ plan' = [plan EXCEPT !.clock = now]
      /\ UNCHANGED <<now, queue, handle, wake, posted>>
  BY DEF ReadClock
<1>2. Planning /\ wake \in BOOLEAN
  BY DEF IInv, Shape
<1>3. Planning' /\ wake' \in BOOLEAN
  BY <1>1, <1>2 DEF Planning
<1>4. thread[Scheduler].pc \in RestPcs /\ "scan" \in RestPcs
  BY <1>1 DEF RestPcs
<1>5. /\ r \in ThreadRec /\ ThreadOK(Scheduler, r) /\ r.pc = "scan"
      /\ r.cb = thread[Scheduler].cb
  BY <1>4, SchedulerMoves
<1> HIDE DEF r
<1>6. ~(r.pc \in {"rest", "sleep", "exit"})
  BY <1>5
<1> QED
  BY <1>1, <1>3, <1>5, <1>6, AwakeStep, Zenon

\* The wait of the scheduler ends.
LEMMA WakeUpInv == ASSUME IInv, WakeUp PROVE IInv'
<1> DEFINE r == [thread[Scheduler] EXCEPT !.pc = "read"]
<1>1. /\ thread[Scheduler].pc = "sleep" /\ thread' = [thread EXCEPT ![Scheduler] = r]
      /\ plan' = Awake /\ wake' = FALSE /\ UNCHANGED <<now, queue, handle, posted>>
  BY DEF WakeUp
<1>2. Planning
  BY DEF IInv, Shape
<1>3. Planning' /\ wake' \in BOOLEAN
  <2>1. plan' \in [clock : Int, timeout : Int, start : Int]
    BY <1>1 DEF Awake
  <2>2. now' \in Int
    BY <1>1, <1>2 DEF Planning
  <2>3. wake' \in BOOLEAN
    BY <1>1, Zenon
  <2> QED
    BY <2>1, <2>2, <2>3, Zenon DEF Planning
<1>4. thread[Scheduler].pc \in RestPcs /\ "read" \in RestPcs
  BY <1>1 DEF RestPcs
<1>5. /\ r \in ThreadRec /\ ThreadOK(Scheduler, r) /\ r.pc = "read"
      /\ r.cb = thread[Scheduler].cb
  BY <1>4, SchedulerMoves, Zenon
<1> HIDE DEF r
<1>6. ~(r.pc \in {"rest", "sleep", "exit"})
  BY <1>5
<1> QED
  BY <1>1, <1>3, <1>5, <1>6, AwakeStep, Zenon

\* The wait begins.
LEMMA FallAsleepInv == ASSUME IInv, FallAsleep PROVE IInv'
<1> DEFINE r == [thread[Scheduler] EXCEPT !.pc = "sleep"]
<1>1. /\ thread[Scheduler].pc = "rest" /\ thread' = [thread EXCEPT ![Scheduler] = r]
      /\ plan' = [plan EXCEPT !.start = now]
      /\ UNCHANGED <<now, queue, handle, wake, posted>>
  BY DEF FallAsleep
<1>2. Planning /\ wake \in BOOLEAN /\ Scheduler \in Threads
  BY DEF IInv, Shape, Threads
<1>3. Planning' /\ plan'.clock + plan'.timeout = plan.clock + plan.timeout
  BY <1>1, <1>2 DEF Planning
<1>4. thread[Scheduler].pc \in RestPcs /\ "sleep" \in RestPcs
  BY <1>1 DEF RestPcs
<1>5. /\ r \in ThreadRec /\ ThreadOK(Scheduler, r) /\ r.pc = "sleep"
      /\ r.cb = thread[Scheduler].cb
  BY <1>4, SchedulerMoves
<1> HIDE DEF r
<1>6. wake' \in BOOLEAN /\ (wake => wake')
  BY <1>1, <1>2
<1>7. thread[Scheduler].pc \in {"apply", "report"} /\ thread[Scheduler].wake =>
          wake' \/ (r.pc \in {"apply", "report"} /\ r.wake)
  BY <1>1
<1>8. r.pc # "exit" /\ thread[Scheduler].pc \in {"rest", "sleep"}
      /\ UNCHANGED <<queue, handle, posted>>
  BY <1>1, <1>5, ZenonT(30)
<1> QED
  BY <1>1, <1>2, <1>3, <1>5, <1>6, <1>7, <1>8, LocalStep, ZenonT(30)

\* Time passes.
LEMMA TickInv == ASSUME IInv, Tick PROVE IInv'
<1>1. Planning' /\ UNCHANGED <<queue, handle, wake, posted, thread, plan>>
  BY DEF Tick, IInv, Shape, Planning
<1> QED
  BY <1>1 DEF IInv, Shape, Ticketing, Tickets, TicketsOf, Watched

\* A scan that finds nothing to do plans to sleep until the first timer that
\* can be fired.
LEMMA ScanRestsInv ==
    ASSUME IInv, thread[Scheduler].pc = "scan", Busy(plan.clock) = {},
           NEW d \in LeastOf({Forever} \cup UNION {DispatchTimes(q) : q \in Queues}),
           plan' = [plan EXCEPT !.timeout = d - plan.clock],
           thread' = [thread EXCEPT ![Scheduler].pc = "rest"],
           UNCHANGED <<now, queue, handle, wake, posted>>
    PROVE  IInv'
<1>1. /\ Queueing(queue) /\ Handling(handle) /\ Threading(thread)
      /\ Exclusive(posted, thread) /\ Balanced(TicketsOf(posted, thread), queue)
      /\ Planning /\ wake \in BOOLEAN
  BY DEF IInv, Shape, Ticketing, Tickets, TicketsOf
<1> DEFINE r == [thread[Scheduler] EXCEPT !.pc = "rest"]
<1>2. Scheduler \in Threads /\ thread \in [Threads -> ThreadRec]
  BY <1>1 DEF Threads, Threading
<1>3. thread' = [thread EXCEPT ![Scheduler] = r]
  OBVIOUS
<1>4. thread[Scheduler].pc \in RestPcs /\ "rest" \in RestPcs
  BY DEF RestPcs
<1>5. /\ r \in ThreadRec /\ ThreadOK(Scheduler, r) /\ r.pc = "rest"
      /\ r.cb = thread[Scheduler].cb
  BY <1>4, SchedulerMoves
<1> HIDE DEF r
<1>6. Threading(thread') /\ thread'[Scheduler] = r
  <2>1. Threading([thread EXCEPT ![Scheduler] = r])
    BY <1>1, <1>2, <1>5, ThreadingStep, Zenon
  <2>2. Scheduler \in DOMAIN thread
    BY <1>2
  <2> QED
    BY <1>3, <2>1, <2>2, Zenon
<1>7. /\ Exclusive(posted', thread')
      /\ TicketsOf(posted', thread') = TicketsOf(posted, thread)
  <2>1. /\ Exclusive(posted, [thread EXCEPT ![Scheduler] = r])
        /\ TicketsOf(posted, [thread EXCEPT ![Scheduler] = r]) = TicketsOf(posted, thread)
    BY <1>1, <1>2, <1>5, TicketsKept, Zenon
  <2>2. posted' = posted
    OBVIOUS
  <2> QED
    BY <1>3, <2>1, <2>2, Zenon
<1>8. /\ d \in {Forever} \cup UNION {DispatchTimes(q) : q \in Queues}
      /\ \A q \in Queues : \A e \in DispatchTimes(q) : d <= e
  BY DEF LeastOf
<1>9. d \in Int
  <2>1. ASSUME NEW q \in Queues, NEW e \in DispatchTimes(q) PROVE e \in Int
    <3>1. PICK i \in Timers : e = queue[q].timer[i].deadline
      BY <2>1 DEF DispatchTimes, Dispatchable, Armed
    <3>2. queue[q].timer \in [Timers -> TimerRec]
      BY <1>1 DEF Queueing, QueueOK, TimersOK
    <3> QED
      BY <3>1, <3>2, Zenon DEF TimerRec
  <2> QED
    BY <1>8, <2>1, ForeverAssumption
<1>10. Planning' /\ plan'.clock + plan'.timeout = d
  BY <1>1, <1>9 DEF Planning
<1>11. \A q \in Queues : Covered(queue[q], d)
  <2> SUFFICES ASSUME NEW q \in Queues PROVE Covered(queue[q], d)
    OBVIOUS
  <2>1. ~Exiting(q)
    BY DEF Busy
  <2>2. ASSUME queue[q].state = "Live", queue[q].inline = 0,
               NEW i \in Dispatchable(queue[q].timer)
        PROVE  d <= queue[q].timer[i].deadline
    BY <1>8, <2>2 DEF DispatchTimes
  <2> QED
    BY <2>1, <2>2 DEF Covered, HeadFrom, Exiting
<1>12. Watched'
  BY <1>10, <1>11 DEF Watched, Watching
<1>13. Ticketing'
  BY <1>1, <1>7, Zenon DEF Ticketing, Tickets, TicketsOf
<1>14. Shape'
  BY <1>1, <1>5, <1>6, <1>10 DEF Shape, Retiring
<1> QED
  BY <1>12, <1>13, <1>14 DEF IInv
\* A step after which the scheduler is on its feet.
LEMMA SchedulerTurns ==
    ASSUME IInv, NEW r \in ThreadRec, ThreadOK(Scheduler, r),
           thread' = [thread EXCEPT ![Scheduler] = r], ~(r.pc \in {"rest", "sleep"}),
           Queueing(queue'), Retiring(queue', r), Handling(handle'), Planning',
           wake' \in BOOLEAN, Exclusive(posted', thread'),
           Balanced(TicketsOf(posted', thread'), queue')
    PROVE  IInv'
<1>1. Threading(thread) /\ Scheduler \in Threads
  BY DEF IInv, Shape, Threads
<1>2. Threading(thread') /\ thread'[Scheduler] = r
  <2>1. Threading([thread EXCEPT ![Scheduler] = r])
    BY <1>1, ThreadingStep, Zenon
  <2>2. Scheduler \in DOMAIN thread
    BY <1>1 DEF Threading
  <2> QED
    BY <2>1, <2>2, Zenon
<1>3. Retiring(queue', thread'[Scheduler])
  BY <1>2, Zenon
<1>4. Shape'
  BY <1>2, <1>3, ZenonT(30) DEF Shape
<1>5. Tickets' = TicketsOf(posted', thread')
  BY DEF Tickets, TicketsOf
<1>6. Ticketing'
  BY <1>5, Zenon DEF Ticketing
<1>7. Watched'
  BY <1>2 DEF Watched, Watching
<1> QED
  BY <1>4, <1>6, <1>7, Zenon DEF IInv

\* One queue is replaced by another that keeps the callbacks.
LEMMA QueueReplaced ==
    ASSUME IInv, NEW q \in Queues, NEW a, QueueOK(a), KeptBy(queue[q], a),
           queue' = [queue EXCEPT ![q] = a]
    PROVE  /\ Queueing(queue') /\ Keeps(queue, queue') /\ queue'[q] = a
           /\ Balanced(TicketsOf(posted, thread), queue')
<1>1. /\ queue \in [Queues -> QueueRec] /\ \A p \in Queues : QueueOK(queue[p])
      /\ Balanced(TicketsOf(posted, thread), queue)
  BY DEF IInv, Shape, Queueing, Ticketing, Tickets, TicketsOf
<1>2. queue'[q] = a /\ \A p \in Queues : p # q => queue'[p] = queue[p]
  BY <1>1
<1>3. a \in QueueRec
  BY DEF QueueOK
<1>4. Queueing(queue')
  BY <1>1, <1>2, <1>3, Zenon DEF Queueing
<1>5. \A p \in Queues : KeptBy(queue[p], queue[p])
  BY <1>1, KeptBySelf, Zenon
<1>6. Keeps(queue, queue')
  BY <1>2, <1>5 DEF Keeps
<1>7. Balanced(TicketsOf(posted, thread), queue')
  BY <1>1, <1>6, BalancedKept
<1> QED
  BY <1>2, <1>4, <1>6, <1>7, ZenonT(30)

\* The scheduler finds a queue that waits for it to leave.
LEMMA ScanExitsInv ==
    ASSUME IInv, thread[Scheduler].pc = "scan", NEW q \in Queues, Exiting(q),
           queue' = [queue EXCEPT ![q].phase = "Exited", ![q].ev = NoEvent],
           thread' = [thread EXCEPT ![Scheduler].pc = "exit",
                          ![Scheduler].q = <<q, queue[q].gen>>,
                          ![Scheduler].sig = queue[q].ev],
           plan' = Awake, UNCHANGED <<now, handle, wake, posted>>
    PROVE  IInv'
<1> DEFINE a == [queue[q] EXCEPT !.phase = "Exited", !.ev = NoEvent]
           r == [thread[Scheduler] EXCEPT !.pc = "exit", !.q = <<q, queue[q].gen>>,
                                          !.sig = queue[q].ev]
<1>1. /\ QueueOK(queue[q]) /\ queue \in [Queues -> QueueRec] /\ Handling(handle)
      /\ thread \in [Threads -> ThreadRec] /\ ThreadOK(Scheduler, thread[Scheduler])
      /\ Scheduler \in Threads /\ Planning /\ wake \in BOOLEAN
      /\ Exclusive(posted, thread)
  BY DEF IInv, Shape, Queueing, Threading, Threads, Ticketing
<1>2. queue' = [queue EXCEPT ![q] = a] /\ thread' = [thread EXCEPT ![Scheduler] = r]
  BY <1>1, Zenon
<1>3. queue[q].state = "Retired" /\ queue[q].phase = "AwaitingWorkerExit"
  BY DEF Exiting
<1>4. queue[q] \in QueueRec /\ thread[Scheduler] \in ThreadRec
  BY <1>1
<1> HIDE DEF a, r
<1>5. /\ a \in QueueRec /\ a.state = "Retired" /\ a.phase = "Exited"
      /\ a.timer = queue[q].timer /\ a.gen = queue[q].gen
  <2> DEFINE p == "Exited"
             e == NoEvent
             c == queue[q]
  <2>1. p \in {"Running", "Deleting", "AwaitingWorkerExit", "Exited"} /\ e \in Int
        /\ c \in QueueRec
    BY <1>4 DEF NoEvent
  <2>2. a = [c EXCEPT !.phase = p, !.ev = e]
    BY DEF a
  <2> HIDE DEF p, e, c
  <2>3. /\ a \in QueueRec /\ a.state = c.state /\ a.phase = p
        /\ a.timer = c.timer /\ a.gen = c.gen
    BY <2>1, <2>2, Zenon DEF QueueRec
  <2> QED
    BY <1>3, <2>3 DEF p, c
<1>6. /\ r \in ThreadRec /\ r.pc = "exit" /\ r.q[1] = q /\ r.cb = thread[Scheduler].cb
  <2>1. <<q, queue[q].gen>> \in Int \X Nat /\ queue[q].ev \in Int
    BY <1>4, Numbers DEF QueueRec
  <2>2. r \in ThreadRec /\ r.pc = "exit" /\ r.q = <<q, queue[q].gen>>
        /\ r.cb = thread[Scheduler].cb
    <3> DEFINE p == "exit"
               k == <<q, queue[q].gen>>
               e == queue[q].ev
               u == thread[Scheduler]
    <3>1. p \in RestPcs /\ k \in Int \X Nat /\ e \in Int /\ u \in ThreadRec
      BY <1>4, <2>1 DEF RestPcs
    <3>2. r = [u EXCEPT !.pc = p, !.q = k, !.sig = e]
      BY DEF r
    <3> HIDE DEF p, k, e, u
    <3>3. r \in ThreadRec /\ r.pc = p /\ r.q = k /\ r.cb = u.cb
      BY <3>1, <3>2, Zenon DEF ThreadRec
    <3> QED
      BY <3>3 DEF p, k, u
  <2> QED
    BY <2>2
<1>7. QueueOK(a)
  BY <1>1, <1>3, <1>5, Zenon DEF QueueOK
<1>8. KeptBy(queue[q], a)
  BY <1>1, <1>3, <1>5 DEF KeptBy, QueueOK, TimersOK
<1>9. /\ Queueing(queue') /\ queue'[q] = a
      /\ Balanced(TicketsOf(posted, thread), queue')
  BY <1>2, <1>7, <1>8, QueueReplaced, Zenon
<1>10. Retiring(queue', r) /\ ~(r.pc \in {"rest", "sleep"})
  BY <1>5, <1>6, <1>9, Zenon DEF Retiring
<1>11. ThreadOK(Scheduler, r)
  BY <1>1, <1>6, ThreadsAssumption DEF ThreadOK, OpPcs, RestPcs
<1>12. /\ Exclusive(posted, [thread EXCEPT ![Scheduler] = r])
       /\ TicketsOf(posted, [thread EXCEPT ![Scheduler] = r]) = TicketsOf(posted, thread)
  BY <1>1, <1>6, TicketsKept, Zenon
<1>13. posted' = posted /\ Handling(handle') /\ wake' \in BOOLEAN
  BY <1>1
<1>14. Exclusive(posted', thread') /\ Balanced(TicketsOf(posted', thread'), queue')
  BY <1>2, <1>9, <1>12, <1>13, Zenon
<1>15. Planning'
  BY <1>1 DEF Planning, Awake
<1> QED
  BY <1>2, <1>6, <1>9, <1>10, <1>11, <1>13, <1>14, <1>15, SchedulerTurns, ZenonT(30)

\* complete_timer_queue_exit: the queue's slot is free.
LEMMA CompleteQueueExitInv ==
    ASSUME IInv, CompleteQueueExit
    PROVE  IInv'
<1> DEFINE q == thread[Scheduler].q[1]
           a == [queue[q] EXCEPT !.state = "Free"]
           r == [Resting EXCEPT !.pc = "read"]
<1>1. /\ queue \in [Queues -> QueueRec] /\ \A p \in Queues : QueueOK(queue[p])
      /\ Handling(handle) /\ Retiring(queue, thread[Scheduler])
      /\ thread \in [Threads -> ThreadRec] /\ ThreadOK(Scheduler, thread[Scheduler])
      /\ Scheduler \in Threads /\ Planning /\ wake \in BOOLEAN
      /\ Exclusive(posted, thread)
  BY DEF IInv, Shape, Queueing, Threading, Threads, Ticketing
<1>2. /\ thread[Scheduler].pc = "exit" /\ thread' = [thread EXCEPT ![Scheduler] = r]
      /\ queue' = [queue EXCEPT ![q].state = "Free"]
      /\ UNCHANGED <<now, handle, wake, posted, plan>>
  BY DEF CompleteQueueExit
<1>3. q \in Queues /\ queue[q].state = "Retired" /\ queue[q].phase = "Exited"
  BY <1>1, <1>2, Zenon DEF Retiring
<1>4. queue[q] \in QueueRec /\ QueueOK(queue[q]) /\ thread[Scheduler].cb = NoTicket
  BY <1>1, <1>2, <1>3, Zenon DEF ThreadOK, RestPcs
<1>5. queue' = [queue EXCEPT ![q] = a]
  BY <1>2, Zenon
<1>6. /\ a \in QueueRec /\ a.state = "Free" /\ a.timer = queue[q].timer
  BY <1>4 DEF QueueRec
<1>7. /\ r \in ThreadRec /\ ThreadOK(Scheduler, r) /\ r.cb = NoTicket
      /\ r.pc \in {"read", "idle"}
  BY RestsOK, ZenonT(30)
<1> HIDE DEF a, r, q
<1>8. \A i \in Timers : queue[q].timer[i].phase = "Free" /\ queue[q].timer[i].active = {}
  BY <1>3, <1>4 DEF QueueOK, TimersOK
<1>9. QueueOK(a) /\ KeptBy(queue[q], a)
  BY <1>4, <1>6, <1>8, Zenon DEF QueueOK, KeptBy
<1>10. Queueing(queue') /\ Balanced(TicketsOf(posted, thread), queue')
  BY <1>3, <1>5, <1>9, QueueReplaced, ZenonT(30)
<1>11. r.cb = thread[Scheduler].cb /\ ~(r.pc \in {"rest", "sleep"}) /\ Retiring(queue', r)
  BY <1>4, <1>7 DEF Retiring
<1>12. /\ Exclusive(posted, [thread EXCEPT ![Scheduler] = r])
       /\ TicketsOf(posted, [thread EXCEPT ![Scheduler] = r]) = TicketsOf(posted, thread)
  BY <1>1, <1>7, <1>11, TicketsKept, Zenon
<1>13. posted' = posted /\ Handling(handle') /\ wake' \in BOOLEAN /\ Planning'
  BY <1>1, <1>2 DEF Planning
<1>14. Exclusive(posted', thread') /\ Balanced(TicketsOf(posted', thread'), queue')
  BY <1>2, <1>10, <1>12, <1>13, Zenon
<1> QED
  BY <1>2, <1>7, <1>10, <1>11, <1>13, <1>14, SchedulerTurns, ZenonT(30)

\* A timer that fires keeps its slot and counts one callback more.
LEMMA RearmedOK ==
    ASSUME NEW x \in TimerRec, x.phase = "Armed", NEW clock \in Int, NEW id \in Ids,
           NEW y, y = Rearmed([x EXCEPT !.active = x.active \cup {id}], clock)
    PROVE  /\ y \in TimerRec /\ y.active = x.active \cup {id} /\ y.gen = x.gen
           /\ y.phase # "Free"
<1> DEFINE u == [x EXCEPT !.active = x.active \cup {id}]
<1>1. /\ u \in TimerRec /\ u.active = x.active \cup {id} /\ u.gen = x.gen
      /\ u.phase = "Armed"
  BY DEF TimerRec
<1>2. y = Rearmed(u, clock)
  OBVIOUS
<1> HIDE DEF u
<1>3. CASE u.period = 0
  <2> DEFINE p == "Dormant"
  <2>1. p \in {"Free", "Armed", "Dormant", "Destroying"} /\ p # "Free"
    OBVIOUS
  <2>2. y = [u EXCEPT !.phase = p]
    BY <1>2, <1>3 DEF Rearmed
  <2> HIDE DEF p
  <2>3. y \in TimerRec /\ y.active = u.active /\ y.gen = u.gen /\ y.phase = p
    BY <1>1, <2>1, <2>2 DEF TimerRec
  <2> QED
    BY <1>1, <2>1, <2>3, SMTT(30)
<1>4. CASE u.period # 0
  <2> DEFINE d == IF u.deadline + u.period < clock THEN clock + u.period
                  ELSE u.deadline + u.period
  <2>1. u.deadline \in Int /\ u.period \in Int
    BY <1>1 DEF TimerRec
  <2>2. d \in Int
    BY <2>1
  <2>3. y = [u EXCEPT !.deadline = d]
    BY <1>2, <1>4 DEF Rearmed
  <2> HIDE DEF d
  <2>4. y \in TimerRec /\ y.active = u.active /\ y.gen = u.gen /\ y.phase = u.phase
    BY <1>1, <2>2, <2>3, Zenon DEF TimerRec
  <2> QED
    BY <1>1, <2>4, Zenon
<1> QED
  BY <1>3, <1>4

\* TimerQueue::expire_one on the timers of a queue.
Fired(ts, i, id, clock) ==
    Sequenced([ts EXCEPT ![i] =
        Rearmed([ts[i] EXCEPT !.active = ts[i].active \cup {id}], clock)], i)

\* What that does to timers ts: they become us.
FiredOutcome(ts, i, id, us) ==
    /\ TimersOK(us) /\ us[i].active = ts[i].active \cup {id}
    /\ \A j \in Timers : /\ us[j].gen = ts[j].gen
                         /\ j # i => us[j].active = ts[j].active
                         /\ us[j].phase = "Free" => ts[j].phase = "Free"

\* It keeps the timers in order and adds one callback.
LEMMA FiredTimers ==
    ASSUME NEW ts, TimersOK(ts), NEW i \in Dispatchable(ts), NEW clock \in Int,
           NEW id \in Ids \ InFlight(ts),
           NEW us, us = Fired(ts, i, id, clock)
    PROVE  FiredOutcome(ts, i, id, us)
<1>1. /\ ts \in [Timers -> TimerRec] /\ i \in Timers /\ ts[i].phase = "Armed"
      /\ Cardinality(ts[i].active) < Capacity
  BY DEF TimersOK, Dispatchable, Armed
<1> DEFINE y == Rearmed([ts[i] EXCEPT !.active = ts[i].active \cup {id}], clock)
           vs == [ts EXCEPT ![i] = y]
<1>2. ts[i] \in TimerRec /\ id \in Ids
  BY <1>1
<1>3. /\ y \in TimerRec /\ y.active = ts[i].active \cup {id} /\ y.gen = ts[i].gen
      /\ y.phase # "Free"
  BY <1>1, <1>2, RearmedOK
<1>4. us = Sequenced(vs, i)
  BY Zenon DEF Fired
<1> HIDE DEF y
<1>5. vs \in [Timers -> TimerRec] /\ vs[i] = y /\ \A j \in Timers : j # i => vs[j] = ts[j]
  BY <1>1, <1>3, Zenon
<1> HIDE DEF vs
<1>6. /\ us \in [Timers -> TimerRec]
      /\ \A j \in Timers : /\ us[j].gen = vs[j].gen /\ us[j].phase = vs[j].phase
                           /\ us[j].active = vs[j].active
  <2>1. /\ Sequenced(vs, i) \in [Timers -> TimerRec]
        /\ \A j \in Timers :
             /\ Sequenced(vs, i)[j].gen = vs[j].gen
             /\ Sequenced(vs, i)[j].phase = vs[j].phase
             /\ Sequenced(vs, i)[j].deadline = vs[j].deadline
             /\ Sequenced(vs, i)[j].active = vs[j].active
             /\ Sequenced(vs, i)[j].ev = vs[j].ev
    BY <1>1, <1>5, SequencedOnly, Zenon
  <2> QED
    BY <1>4, <2>1, Zenon
<1>7. us[i].active = ts[i].active \cup {id} /\ us[i].phase # "Free"
  BY <1>1, <1>3, <1>5, <1>6, Zenon
<1>8. \A j \in Timers : /\ us[j].gen = ts[j].gen
                        /\ j # i => us[j].active = ts[j].active /\ us[j].phase = ts[j].phase
  BY <1>1, <1>3, <1>5, <1>6, ZenonT(30)
<1>9. Cardinality(us[i].active) <= Capacity
  <2>1. ts[i].active \subseteq Ids
    BY <1>2, Zenon DEF TimerRec
  <2>2. IsFiniteSet(ts[i].active)
    BY <2>1, Numbers, FS_Subset, Zenon
  <2>3. id \notin ts[i].active
    BY <1>1, SMTT(30) DEF InFlight
  <2>4. Cardinality(ts[i].active \cup {id}) = Cardinality(ts[i].active) + 1
    BY <2>2, <2>3, FS_AddElement, ZenonT(30)
  <2>5. Cardinality(ts[i].active) \in Nat
    BY <2>2, FS_CardinalityType
  <2>6. Cardinality(us[i].active) = Cardinality(ts[i].active) + 1
    BY <1>7, <2>4, Zenon
  <2> DEFINE m == Cardinality(ts[i].active)
             n == Cardinality(us[i].active)
  <2>7. m \in Nat /\ n = m + 1 /\ m < Capacity /\ Capacity \in Nat
    BY <1>1, <2>5, <2>6, Numbers, ZenonT(30)
  <2> HIDE DEF m, n
  <2>8. n <= Capacity
    BY <2>7, SMTT(30)
  <2> QED
    BY <2>8 DEF n
<1>10. \A j \in Timers : /\ us[j].phase = "Free" => us[j].active = {}
                         /\ Cardinality(us[j].active) <= Capacity
  BY <1>7, <1>8, <1>9, ZenonT(30) DEF TimersOK
<1>11. \A j \in Timers : id \notin ts[j].active
  BY DEF InFlight
<1>12. \A j, k \in Timers : j # k => us[j].active \cap us[k].active = {}
  <2> SUFFICES ASSUME NEW j \in Timers, NEW k \in Timers, j # k,
                      NEW e \in us[j].active, e \in us[k].active
               PROVE  FALSE
    OBVIOUS
  <2>1. e \in ts[j].active \/ (j = i /\ e = id)
    BY <1>7, <1>8, Zenon
  <2>2. e \in ts[k].active \/ (k = i /\ e = id)
    BY <1>7, <1>8, ZenonT(30)
  <2>3. ts[j].active \cap ts[k].active = {}
    BY Zenon DEF TimersOK
  <2> QED
    BY <1>11, <2>1, <2>2, <2>3, ZenonT(30)
<1>13. TimersOK(us)
  BY <1>6, <1>10, <1>12, SMTT(30) DEF TimersOK
<1> QED
  BY <1>7, <1>8, <1>13, Zenon DEF FiredOutcome

\* The new callback's ticket is counted with the others.
LEMMA BalancedFired ==
    ASSUME NEW K, NEW qs \in [Queues -> QueueRec], Balanced(K, qs), NEW q \in Queues,
           qs[q].state # "Free", NEW a, a.state # "Free", a.gen = qs[q].gen,
           NEW i \in Timers, NEW id, a.timer[i].active = qs[q].timer[i].active \cup {id},
           a.timer[i].phase # "Free",
           \A j \in Timers : /\ a.timer[j].gen = qs[q].timer[j].gen
                             /\ j # i => a.timer[j].active = qs[q].timer[j].active
                             /\ a.timer[j].phase = "Free" => qs[q].timer[j].phase = "Free",
           NEW k \in TicketRec, k.q = <<q, qs[q].gen>>, k.i = i, k.id = id,
           k.tgen = qs[q].timer[i].gen, NEW rs, rs = [qs EXCEPT ![q] = a]
    PROVE  Balanced(K \cup {k}, rs)
<1>1. rs[q] = a /\ \A p \in Queues : p # q => rs[p] = qs[p]
  BY Zenon
<1>2. k.q[1] = q /\ k.q[2] = qs[q].gen
  BY SMTT(30)
<1>3. CountedIn(k, rs)
  BY <1>1, <1>2, ZenonT(30) DEF CountedIn, Known
<1>4. ASSUME NEW l \in K PROVE l \in TicketRec /\ CountedIn(l, rs)
  <2>1. l \in TicketRec /\ CountedIn(l, qs) /\ l.q[1] \in Queues /\ l.i \in Timers
    BY SMTT(30) DEF Balanced, TicketRec
  <2>2. CASE l.q[1] # q
    BY <1>1, <2>1, <2>2, ZenonT(30) DEF CountedIn
  <2>3. CASE l.q[1] = q
    <3>1. l.id \in a.timer[l.i].active
      BY <2>1, <2>3, ZenonT(30) DEF CountedIn
    <3>2. Known(a.timer, l.i, l.tgen)
      BY <2>1, <2>3, ZenonT(30) DEF CountedIn, Known
    <3> QED
      BY <1>1, <2>1, <2>3, <3>1, <3>2, ZenonT(30) DEF CountedIn
  <2> QED
    BY <2>1, <2>2, <2>3, ZenonT(30)
<1>5. ASSUME NEW p \in Queues, NEW j \in Timers, NEW e \in rs[p].timer[j].active
      PROVE  \E l \in K \cup {k} : l.q[1] = p /\ l.id = e
  <2>1. CASE p = q /\ j = i /\ e = id
    BY <1>2, <2>1, ZenonT(30)
  <2>2. CASE ~(p = q /\ j = i /\ e = id)
    <3>1. e \in qs[p].timer[j].active
      BY <1>1, <1>5, <2>2
    <3> QED
      <4>1. \A s \in Queues, m \in Timers : \A f \in qs[s].timer[m].active :
               \E l \in K : l.q[1] = s /\ l.id = f
        BY Zenon DEF Balanced
      <4>2. \A f \in qs[p].timer[j].active : \E l \in K : l.q[1] = p /\ l.id = f
        BY <4>1, ZenonT(30)
      <4> QED
        BY <3>1, <4>2, Zenon
  <2> QED
    BY <2>1, <2>2, ZenonT(30)
<1> QED
  BY <1>3, <1>4, <1>5, ZenonT(30) DEF Balanced

\* The scheduler fires a timer that is due.
LEMMA ScanFiresInv ==
    ASSUME IInv, thread[Scheduler].pc = "scan", NEW q \in Busy(plan.clock), ~Exiting(q),
           ExpireOne(q, plan.clock), plan' = Awake,
           UNCHANGED <<now, handle, wake, posted>>
    PROVE  IInv'
<1> DEFINE K == TicketsOf(posted, thread)
           ts == queue[q].timer
           clock == plan.clock
           inl(i, id) == IF ts[i].inline THEN id ELSE queue[q].inline
           k(i, id) == [q |-> <<q, queue[q].gen>>, i |-> i, tgen |-> ts[i].gen, id |-> id]
           p(i) == IF ts[i].inline THEN "callback" ELSE "post"
<1>1. /\ queue \in [Queues -> QueueRec] /\ \A s \in Queues : QueueOK(queue[s])
      /\ Handling(handle) /\ Planning /\ wake \in BOOLEAN
      /\ thread \in [Threads -> ThreadRec] /\ ThreadOK(Scheduler, thread[Scheduler])
      /\ Scheduler \in Threads /\ Exclusive(posted, thread) /\ Balanced(K, queue)
  BY ZenonT(30) DEF IInv, Shape, Queueing, Threading, Threads, Ticketing, Tickets, TicketsOf
<1>2. q \in Queues /\ queue[q].state = "Live"
  BY ZenonT(30) DEF Busy, DispatchTimes
<1>3. PICK i \in FirstOf(ts, Dispatchable(ts)), id \in FreshId(q) :
        /\ queue' = [queue EXCEPT ![q].timer = Fired(ts, i, id, clock), ![q].inline = inl(i, id)]
        /\ thread' = [thread EXCEPT ![Scheduler].cb = k(i, id), ![Scheduler].pc = p(i)]
  BY ZenonT(30) DEF ExpireOne, Fired
<1>4. i \in Dispatchable(ts) /\ id \in Ids \ InFlight(ts)
  BY Zenon DEF FirstOf, FreshId, LeastOf, Ids
<1>5. i \in Timers /\ ts[i].phase = "Armed" /\ id \in Int /\ id \in Ids
  <2>1. i \in Timers /\ ts[i].phase = "Armed"
    BY <1>4, Zenon DEF Dispatchable, Armed
  <2>2. id \in Ids /\ Ids \subseteq Nat \ {0}
    BY <1>4, Numbers, Zenon
  <2> QED
    BY <2>1, <2>2
<1>6. /\ QueueOK(queue[q]) /\ TimersOK(ts) /\ queue[q] \in QueueRec
      /\ ts \in [Timers -> TimerRec] /\ thread[Scheduler] \in ThreadRec
  BY <1>1, <1>2, ZenonT(30) DEF QueueOK, TimersOK
<1>7. clock \in Int
  BY <1>1, SMTT(30) DEF Planning
<1> DEFINE vs == Fired(ts, i, id, clock)
           n == inl(i, id)
           l == k(i, id)
           pc == p(i)
           a == [queue[q] EXCEPT !.timer = vs, !.inline = n]
           r == [thread[Scheduler] EXCEPT !.cb = l, !.pc = pc]
<1>8. n \in Int /\ pc \in {"callback", "post"}
  BY <1>5, <1>6, ZenonT(30) DEF QueueRec
<1>9. /\ l \in TicketRec /\ l.q = <<q, queue[q].gen>> /\ l.i = i /\ l.id = id
      /\ l.tgen = ts[i].gen
  BY <1>2, <1>5, <1>6, ZenonT(30) DEF TicketRec, QueueRec, TimerRec
<1> HIDE DEF inl, p, k, ts, clock
<1>10. /\ TimersOK(vs) /\ vs[i].active = ts[i].active \cup {id}
       /\ \A j \in Timers : /\ vs[j].gen = ts[j].gen
                            /\ j # i => vs[j].active = ts[j].active
                            /\ vs[j].phase = "Free" => ts[j].phase = "Free"
  <2>1. vs = Fired(ts, i, id, clock)
    BY Zenon
  <2>2. FiredOutcome(ts, i, id, vs)
    <3> HIDE DEF vs
    <3> QED
      BY <1>4, <1>6, <1>7, <2>1, FiredTimers, Zenon
  <2> QED
    BY <2>2, Zenon DEF FiredOutcome
<1>11. /\ queue' = [queue EXCEPT ![q] = a] /\ thread' = [thread EXCEPT ![Scheduler] = r]
  BY <1>3, Zenon
<1> HIDE DEF vs, n, l, pc
<1>12. /\ a \in QueueRec /\ a.state = "Live" /\ a.phase = queue[q].phase
       /\ a.gen = queue[q].gen /\ a.timer = vs
  BY <1>2, <1>6, <1>8, <1>10, Zenon DEF QueueRec, TimersOK
<1>13. r \in ThreadRec /\ r.cb = l /\ r.pc = pc
  BY <1>6, <1>8, <1>9, Zenon DEF ThreadRec
<1> HIDE DEF a, r
<1>14. QueueOK(a)
  BY <1>2, <1>6, <1>10, <1>12, ZenonT(30) DEF QueueOK
<1>15. Queueing(queue')
  BY <1>1, <1>11, <1>12, <1>14, ZenonT(30) DEF Queueing
<1>16. ThreadOK(Scheduler, r)
  BY <1>8, <1>9, <1>13, NoTicketIsNone, ThreadsAssumption, ZenonT(30) DEF ThreadOK, OpPcs, RestPcs
<1>17. Balanced(K \cup {l}, queue')
  <2>1. a.timer[i].phase # "Free" /\ a.timer[i].active = ts[i].active \cup {id}
    BY <1>5, <1>10, <1>12, ZenonT(30)
  <2>2. \A j \in Timers : /\ a.timer[j].gen = ts[j].gen
                          /\ j # i => a.timer[j].active = ts[j].active
                          /\ a.timer[j].phase = "Free" => ts[j].phase = "Free"
    BY <1>10, <1>12, Zenon
  <2> HIDE DEF K
  <2>3. a.state # "Free" /\ queue[q].state # "Free"
    BY <1>2, <1>12, Zenon
  <2> QED
    BY <1>1, <1>2, <1>5, <1>9, <1>11, <1>12, <2>1, <2>2, <2>3, BalancedFired, ZenonT(30) DEF ts
<1>18. l \notin K
  <2>1. ASSUME l \in K PROVE FALSE
    <3>1. CountedIn(l, queue)
      BY <1>1, <2>1, ZenonT(30) DEF Balanced
    <3>2. id \in ts[i].active
      <4>1. l.q[1] = q
        BY <1>9
      <4> QED
        BY <1>9, <3>1, <4>1, ZenonT(30) DEF CountedIn, ts
    <3> QED
      BY <1>4, <1>5, <3>2, ZenonT(30) DEF InFlight
  <2> QED
    BY <2>1, ZenonT(30)
<1>19. thread[Scheduler].cb = NoTicket
  BY <1>1, Zenon DEF ThreadOK, RestPcs
<1>20. /\ TicketsOf(posted, [thread EXCEPT ![Scheduler] = r]) = K \cup {l}
       /\ Exclusive(posted, [thread EXCEPT ![Scheduler] = r])
  <2>1. r.cb \in TicketRec /\ r.cb \notin TicketsOf(posted, thread)
    BY <1>9, <1>13, <1>18, Zenon
  <2>2. /\ TicketsOf(posted, [thread EXCEPT ![Scheduler] = r]) =
             TicketsOf(posted, thread) \cup {r.cb}
        /\ Exclusive(posted, [thread EXCEPT ![Scheduler] = r])
    BY <1>1, <1>13, <1>19, <2>1, TicketAdded, ZenonT(30)
  <2> QED
    BY <1>13, <2>2, Zenon
<1>21. posted' = posted /\ Handling(handle') /\ wake' \in BOOLEAN
  BY <1>1
<1>22. Exclusive(posted', thread') /\ Balanced(TicketsOf(posted', thread'), queue')
  BY <1>11, <1>17, <1>20, <1>21, ZenonT(30)
<1>23. Planning' /\ Retiring(queue', r) /\ ~(r.pc \in {"rest", "sleep"})
  <2>1. r.pc \in {"callback", "post"}
    BY <1>8, <1>13, Zenon
  <2>2. Planning'
    <3>1. Awake \in [clock : Int, timeout : Int, start : Int]
      BY DEF Awake
    <3> QED
      BY <1>1, <3>1, Zenon DEF Planning
  <2>3. ~(r.pc \in {"rest", "sleep"}) /\ r.pc # "exit"
    BY <2>1
  <2> QED
    BY <1>1, <2>2, <2>3, Zenon DEF Retiring
<1> QED
  BY <1>11, <1>13, <1>15, <1>16, <1>21, <1>22, <1>23, SchedulerTurns, ZenonT(30)

\* next_timer_worker_action
LEMMA ScanInv ==
    ASSUME IInv, Scan
    PROVE  IInv'
<1>1. thread[Scheduler].pc = "scan" /\ UNCHANGED <<now, handle, wake, posted>>
  BY Zenon DEF Scan
<1>2. CASE /\ Busy(plan.clock) = {}
           /\ \E d \in LeastOf({Forever} \cup UNION {DispatchTimes(q) : q \in Queues}) :
                plan' = [plan EXCEPT !.timeout = d - plan.clock]
           /\ thread' = [thread EXCEPT ![Scheduler].pc = "rest"]
           /\ UNCHANGED queue
  <2>1. PICK d \in LeastOf({Forever} \cup UNION {DispatchTimes(q) : q \in Queues}) :
          plan' = [plan EXCEPT !.timeout = d - plan.clock]
    BY <1>2
  <2>2. UNCHANGED <<now, queue, handle, wake, posted>>
    BY <1>1, <1>2
  <2> QED
    BY <1>1, <1>2, <2>1, <2>2, ScanRestsInv, Zenon
<1>3. ASSUME NEW q \in Busy(plan.clock), plan' = Awake,
             IF Exiting(q)
               THEN /\ queue' = [queue EXCEPT ![q].phase = "Exited", ![q].ev = NoEvent]
                    /\ thread' = [thread EXCEPT ![Scheduler].pc = "exit",
                            ![Scheduler].q = <<q, queue[q].gen>>,
                            ![Scheduler].sig = queue[q].ev]
               ELSE ExpireOne(q, plan.clock)
      PROVE  IInv'
  <2>1. q \in Queues
    BY DEF Busy
  <2>2. CASE Exiting(q)
    BY <1>1, <1>3, <2>1, <2>2, ScanExitsInv, Zenon
  <2>3. CASE ~Exiting(q)
    BY <1>1, <1>3, <2>3, ScanFiresInv, Zenon
  <2> QED
    BY <2>2, <2>3
<1> QED
  BY <1>2, <1>3, Zenon DEF Scan
-----------------------------------------------------------------------------
(* Callbacks *)

\* The work item is queued.
LEMMA PostedInv ==
    ASSUME IInv, thread[Scheduler].pc = "post",
           posted' = posted \cup {thread[Scheduler].cb},
           thread' = [thread EXCEPT ![Scheduler] = [Resting EXCEPT !.pc = "read"]],
           UNCHANGED <<now, queue, handle, wake, plan>>
    PROVE  IInv'
<1> DEFINE r == [Resting EXCEPT !.pc = "read"]
<1>1. /\ Queueing(queue) /\ Handling(handle) /\ Planning /\ wake \in BOOLEAN
      /\ thread \in [Threads -> ThreadRec] /\ ThreadOK(Scheduler, thread[Scheduler])
      /\ Scheduler \in Threads /\ Exclusive(posted, thread)
      /\ Balanced(TicketsOf(posted, thread), queue)
  BY DEF IInv, Shape, Threading, Threads, Ticketing, Tickets, TicketsOf
<1>2. /\ r \in ThreadRec /\ ThreadOK(Scheduler, r) /\ r.cb = NoTicket
      /\ r.pc \in {"read", "idle"} /\ thread' = [thread EXCEPT ![Scheduler] = r]
  BY RestsOK, Zenon
<1> HIDE DEF r
<1>3. thread[Scheduler].cb # NoTicket
  BY <1>1 DEF ThreadOK, RestPcs
<1>4. /\ TicketsOf(posted \cup {thread[Scheduler].cb}, [thread EXCEPT ![Scheduler] = r])
           = TicketsOf(posted, thread)
      /\ Exclusive(posted \cup {thread[Scheduler].cb}, [thread EXCEPT ![Scheduler] = r])
  BY <1>1, <1>2, <1>3, TicketPosted, Zenon
<1>5. queue' = queue /\ Queueing(queue') /\ Handling(handle') /\ wake' \in BOOLEAN
      /\ Planning'
  BY <1>1 DEF Planning
<1>6. Exclusive(posted', thread') /\ Balanced(TicketsOf(posted', thread'), queue')
  BY <1>1, <1>2, <1>4, <1>5, Zenon
<1>7. Retiring(queue', r) /\ ~(r.pc \in {"rest", "sleep"})
  BY <1>2 DEF Retiring
<1> QED
  BY <1>2, <1>5, <1>6, <1>7, SchedulerTurns, ZenonT(30)

\* A worker takes a callback from the pool's queue.
LEMMA StartCallbackInv ==
    ASSUME IInv, NEW w \in Workers, StartCallback(w)
    PROVE  IInv'
<1>1. /\ Queueing(queue) /\ Handling(handle) /\ Planning /\ wake \in BOOLEAN
      /\ Threading(thread) /\ thread \in [Threads -> ThreadRec]
      /\ Retiring(queue, thread[Scheduler]) /\ Exclusive(posted, thread)
      /\ Balanced(TicketsOf(posted, thread), queue)
      /\ Watching(queue, thread, wake, plan.clock + plan.timeout)
  BY Zenon DEF IInv, Shape, Threading, Ticketing, Tickets, TicketsOf, Watched
<1>2. PICK k \in posted :
        /\ posted' = posted \ {k}
        /\ thread' = [thread EXCEPT ![w].pc = "callback", ![w].cb = k]
  BY Zenon DEF StartCallback
<1>3. thread[w].pc = "idle" /\ UNCHANGED <<now, queue, handle, wake, plan>>
  BY DEF StartCallback
<1>4. w \in Threads /\ w # Scheduler /\ w \notin Callers
  BY ThreadsAssumption DEF Threads
<1>5. thread[w] \in ThreadRec /\ thread[w].cb = NoTicket /\ k \in TicketRec
  BY <1>1, <1>3, <1>4, Zenon DEF Threading, ThreadOK, Exclusive
<1> DEFINE r == [thread[w] EXCEPT !.pc = "callback", !.cb = k]
<1>6. thread' = [thread EXCEPT ![w] = r]
  BY <1>2, Zenon
<1>7. r \in ThreadRec /\ r.pc = "callback" /\ r.cb = k
  BY <1>5, Zenon DEF ThreadRec
<1> HIDE DEF r
<1>8. ThreadOK(w, r)
  BY <1>4, <1>5, <1>7, NoTicketIsNone, Zenon DEF ThreadOK, OpPcs, RestPcs
<1>9. Threading(thread')
  BY <1>1, <1>4, <1>6, <1>7, <1>8, ThreadingStep, ZenonT(30)
<1>10. /\ TicketsOf(posted \ {k}, [thread EXCEPT ![w] = r]) = TicketsOf(posted, thread)
       /\ Exclusive(posted \ {k}, [thread EXCEPT ![w] = r])
  <2>1. r.cb \in posted
    BY <1>2, <1>7, SMTT(30)
  <2>2. /\ TicketsOf(posted \ {r.cb}, [thread EXCEPT ![w] = r]) = TicketsOf(posted, thread)
        /\ Exclusive(posted \ {r.cb}, [thread EXCEPT ![w] = r])
    BY <1>1, <1>4, <1>5, <1>7, <2>1, TicketStarted, ZenonT(30)
  <2> QED
    BY <1>7, <2>2
<1>11. Tickets' = TicketsOf(posted', thread')
  BY DEF Tickets, TicketsOf
<1>12. Ticketing'
  BY <1>1, <1>2, <1>3, <1>6, <1>10, <1>11, ZenonT(30) DEF Ticketing
<1>13. Retiring(queue', thread'[Scheduler])
  <2>1. thread'[Scheduler] = thread[Scheduler]
    BY <1>1, <1>4, <1>6, Zenon DEF Threads
  <2> QED
    BY <1>1, <1>3, <2>1, Zenon
<1>14. Shape'
  <2>1. Queueing(queue') /\ Handling(handle') /\ wake' \in BOOLEAN
    BY <1>1, <1>3, Zenon
  <2>2. Planning'
    BY <1>1, <1>3, Zenon DEF Planning
  <2> QED
    BY <1>9, <1>13, <2>1, <2>2, ZenonT(30) DEF Shape
<1>15. Watched'
  <2>1. \A u \in Threads : u # w => thread'[u] = thread[u]
    BY <1>1, <1>4, <1>6, Zenon
  <2>2. thread'[Scheduler] = thread[Scheduler]
    BY <1>4, <2>1, Zenon DEF Threads
  <2>3. WakePending(thread) => WakePending(thread')
    BY <1>3, <2>1, Zenon DEF WakePending
  <2> QED
    BY <1>1, <1>3, <2>2, <2>3, Zenon DEF Watched, Watching
<1> QED
  BY <1>12, <1>14, <1>15, ZenonT(30) DEF IInv

\* TimerQueue::callback_finished on the timers of a queue.
Finished(ts, i, id) ==
    LET last == ts[i].phase = "Destroying" /\ ts[i].active = {id}
    IN  [ts EXCEPT ![i].active = @ \ {id},
                   ![i].phase = IF last THEN "Free" ELSE @,
                   ![i].ev = IF last THEN NoEvent ELSE @]

\* The timers us left by callback id of timer i of ts.
FinishedOutcome(ts, i, id, us) ==
    /\ TimersOK(us) /\ us[i].active = ts[i].active \ {id}
    /\ us[i].phase = "Free" => ts[i].phase = "Destroying" /\ ts[i].active = {id}
    /\ us[i].phase # "Free" => us[i].phase = ts[i].phase
    /\ \A j \in Timers : /\ us[j].gen = ts[j].gen
                         /\ us[j].deadline = ts[j].deadline
                         /\ us[j].seq = ts[j].seq
                         /\ j # i => us[j] = ts[j]

\* It takes one callback away; a timer that is being deleted goes with its
\* last one.
LEMMA FinishedTimers ==
    ASSUME NEW ts, TimersOK(ts), NEW i \in Timers, NEW id \in ts[i].active,
           NEW us, us = Finished(ts, i, id)
    PROVE  FinishedOutcome(ts, i, id, us)
<1> DEFINE last == ts[i].phase = "Destroying" /\ ts[i].active = {id}
           ph == IF last THEN "Free" ELSE ts[i].phase
           e == IF last THEN NoEvent ELSE ts[i].ev
           ac == ts[i].active \ {id}
           x == ts[i]
           y == [x EXCEPT !.active = ac, !.phase = ph, !.ev = e]
<1>1. ts \in [Timers -> TimerRec] /\ x \in TimerRec /\ x.phase # "Free"
  BY DEF TimersOK
<1>2. us = [ts EXCEPT ![i] = y]
  BY <1>1, Zenon DEF Finished
<1>3. /\ ph \in {"Free", "Armed", "Dormant", "Destroying"} /\ e \in Int
      /\ ac \in SUBSET Ids
      /\ ph = "Free" => last
      /\ ph # "Free" => ph = x.phase
  BY <1>1 DEF TimerRec, NoEvent
<1> HIDE DEF ph, e, ac, x, last
<1>4. /\ y \in TimerRec /\ y.active = ac /\ y.phase = ph /\ y.gen = x.gen
      /\ y.deadline = x.deadline /\ y.seq = x.seq
  BY <1>1, <1>3, ZenonT(30) DEF TimerRec
<1> HIDE DEF y
<1>5. us[i] = y /\ us \in [Timers -> TimerRec] /\ \A j \in Timers : j # i => us[j] = ts[j]
  BY <1>1, <1>2, <1>4, Zenon
<1>6. \A j \in Timers : /\ us[j].gen = ts[j].gen /\ us[j].deadline = ts[j].deadline
                        /\ us[j].seq = ts[j].seq
  BY <1>4, <1>5, Zenon DEF x
<1>7. us[i].active = ts[i].active \ {id} /\ us[i].phase = ph
  BY <1>4, <1>5, Zenon DEF ac
<1>8. Cardinality(us[i].active) <= Capacity
  <2>1. ts[i].active \subseteq Ids /\ us[i].active \subseteq ts[i].active
    BY <1>1, <1>7, Zenon DEF TimerRec, x
  <2>2. IsFiniteSet(ts[i].active)
    BY <2>1, Numbers, FS_Subset, Zenon
  <2>3. Cardinality(us[i].active) <= Cardinality(ts[i].active)
        /\ IsFiniteSet(us[i].active)
    BY <2>1, <2>2, FS_Subset, ZenonT(30)
  <2>4. Cardinality(ts[i].active) \in Nat /\ Cardinality(us[i].active) \in Nat
    BY <2>2, <2>3, FS_CardinalityType, Zenon
  <2>5. Cardinality(ts[i].active) <= Capacity
    BY Zenon DEF TimersOK
  <2>6. \A m, n \in Nat : n <= m /\ m <= Capacity =>
                n <= Capacity /\ (m # Capacity => n < Capacity /\ m < Capacity)
    BY Numbers, AtMost, Zenon
  <2> QED
    BY <2>3, <2>4, <2>5, <2>6, Zenon
<1>9. us[i].phase = "Free" => us[i].active = {}
  BY <1>3, <1>7, Zenon DEF last
<1>10. \A j \in Timers : /\ us[j].phase = "Free" => us[j].active = {}
                         /\ Cardinality(us[j].active) <= Capacity
  BY <1>5, <1>8, <1>9, Zenon DEF TimersOK
<1>11. \A j \in Timers : us[j].active \subseteq ts[j].active
  BY <1>5, <1>7, Zenon
<1>12. \A j, k \in Timers : j # k => us[j].active \cap us[k].active = {}
  BY <1>11, Zenon DEF TimersOK
<1>13. TimersOK(us)
  BY <1>5, <1>10, <1>12, Zenon DEF TimersOK
<1> QED
  BY <1>3, <1>5, <1>6, <1>7, <1>13, ZenonT(30) DEF last, x, FinishedOutcome

\* Queue a is queue c without callback id of timer i.
LosesCallback(c, i, id, a) ==
    /\ a.state = c.state /\ a.gen = c.gen
    /\ a.timer[i].active = c.timer[i].active \ {id}
    /\ a.timer[i].phase = "Free" => c.timer[i].active = {id}
    /\ a.timer[i].gen = c.timer[i].gen
    /\ \A j \in Timers : j # i => a.timer[j] = c.timer[j]

\* Queues rs are queues qs without the callback of ticket k.
Forgets(qs, k, rs) ==
    /\ LosesCallback(qs[k.q[1]], k.i, k.id, rs[k.q[1]])
    /\ \A p \in Queues : p # k.q[1] => rs[p] = qs[p]

\* The other tickets stay counted.
LEMMA BalancedFinished ==
    ASSUME NEW K, NEW qs, Queueing(qs), Balanced(K, qs), NEW k \in K,
           NEW rs, Forgets(qs, k, rs)
    PROVE  Balanced(K \ {k}, rs)
<1> DEFINE q == k.q[1]
           i == k.i
           a == rs[q]
<1>0. /\ a.state = qs[q].state /\ a.gen = qs[q].gen
      /\ a.timer[i].active = qs[q].timer[i].active \ {k.id}
      /\ a.timer[i].phase = "Free" => qs[q].timer[i].active = {k.id}
      /\ a.timer[i].gen = qs[q].timer[i].gen
      /\ \A j \in Timers : j # i => a.timer[j] = qs[q].timer[j]
  BY Zenon DEF Forgets, LosesCallback
<1>1. k \in TicketRec /\ CountedIn(k, qs) /\ q \in Queues /\ i \in Timers
  BY Zenon DEF Balanced, TicketRec
<1>2. rs[q] = a /\ \A p \in Queues : p # q => rs[p] = qs[p]
  BY Zenon DEF Forgets
<1>3. ASSUME NEW l \in K \ {k} PROVE l \in TicketRec /\ CountedIn(l, rs)
  <2>1. l \in TicketRec /\ CountedIn(l, qs) /\ l.q[1] \in Queues /\ l.i \in Timers
    BY Zenon DEF Balanced, TicketRec
  <2>2. CASE l.q[1] # q
    BY <1>2, <2>1, <2>2, ZenonT(30) DEF CountedIn
  <2>3. CASE l.q[1] = q /\ l.i # i
    <3>1. a.timer[l.i] = qs[q].timer[l.i]
      BY <1>0, <2>1, <2>3, ZenonT(30)
    <3>2. Known(a.timer, l.i, l.tgen) /\ l.id \in a.timer[l.i].active
      BY <2>1, <2>3, <3>1, ZenonT(30) DEF CountedIn, Known
    <3> QED
      BY <1>0, <1>2, <2>1, <2>3, <3>2, ZenonT(30) DEF CountedIn
  <2>4. CASE l.q[1] = q /\ l.i = i
    <3>1. l.id # k.id
      BY <1>3, <2>4, TicketsDiffer, SMTT(30)
    <3>2. l.id \in qs[q].timer[i].active /\ Known(qs[q].timer, i, l.tgen)
          /\ qs[q].state # "Free" /\ qs[q].gen = l.q[2]
      BY <2>1, <2>4, Zenon DEF CountedIn
    <3>3. l.id \in a.timer[i].active /\ a.timer[i].phase # "Free"
      BY <1>0, <3>1, <3>2, ZenonT(30)
    <3>4. Known(a.timer, i, l.tgen)
      BY <1>0, <3>2, <3>3, ZenonT(30) DEF Known
    <3> QED
      BY <1>0, <1>2, <2>1, <2>4, <3>2, <3>3, <3>4, ZenonT(30) DEF CountedIn
  <2> QED
    BY <2>1, <2>2, <2>3, <2>4, Zenon
<1>4. ASSUME NEW p \in Queues, NEW j \in Timers, NEW e \in rs[p].timer[j].active
      PROVE  \E l \in K \ {k} : l.q[1] = p /\ l.id = e
  <2>1. e \in qs[p].timer[j].active /\ ~(p = q /\ j = i /\ e = k.id)
    BY <1>0, <1>2, <1>4, ZenonT(30)
  <2>2. PICK l \in K : l.q[1] = p /\ l.id = e
    <3>1. \A s \in Queues, m \in Timers : \A f \in qs[s].timer[m].active :
             \E l \in K : l.q[1] = s /\ l.id = f
      BY Zenon DEF Balanced
    <3>2. p \in Queues /\ j \in Timers /\ e \in qs[p].timer[j].active
      BY <2>1, Zenon
    <3>3. \A f \in qs[p].timer[j].active : \E l \in K : l.q[1] = p /\ l.id = f
      BY <3>1, <3>2, Zenon
    <3> QED
      BY <3>2, <3>3, Zenon
  <2>3. ASSUME l = k PROVE FALSE
    <3>1. p = q /\ e = k.id /\ j # i
      BY <2>1, <2>2, <2>3, ZenonT(30)
    <3>2. k.id \in qs[q].timer[i].active
      BY <1>1, ZenonT(30) DEF CountedIn
    <3>3. TimersOK(qs[q].timer)
      BY <1>1, ZenonT(30) DEF Queueing, QueueOK
    <3> QED
      BY <1>1, <2>1, <3>1, <3>2, <3>3, ZenonT(30) DEF TimersOK
  <2> QED
    BY <2>2, <2>3, ZenonT(30)
<1>5. Balanced(K \ {k}, rs)
  BY <1>3, <1>4, Zenon DEF Balanced
<1> QED
  BY <1>5, ZenonT(30)

\* The handle of a timer that is gone is free.
LEMMA HandleFreed ==
    ASSUME Handling(handle), NEW H,
           handle' = [h \in Handles |-> IF h \in H THEN [handle[h] EXCEPT !.state = "Free"]
                                        ELSE handle[h]]
    PROVE  Handling(handle')
<1> DEFINE p == "Free"
<1>1. handle \in [Handles -> HandleRec] /\ p \in {"Free", "Live", "Retired"} /\ p = "Free"
  BY DEF Handling
<1>2. handle' = [h \in Handles |-> IF h \in H THEN [handle[h] EXCEPT !.state = p]
                                   ELSE handle[h]]
  OBVIOUS
<1> HIDE DEF p
<1>3. \A h \in Handles : /\ handle'[h] \in HandleRec
                         /\ handle'[h].state # "Free" => handle'[h] = handle[h]
  <2> TAKE h \in Handles
  <2>1. handle[h] \in HandleRec
    BY <1>1
  <2>2. CASE h \in H
    <3>1. handle'[h] = [handle[h] EXCEPT !.state = p]
      BY <1>2, <2>2
    <3>2. handle'[h] \in HandleRec /\ handle'[h].state = p
      BY <1>1, <2>1, <3>1, Zenon DEF HandleRec
    <3> QED
      BY <1>1, <3>2
  <2>3. CASE h \notin H
    BY <1>2, <2>1, <2>3
  <2> QED
    BY <2>2, <2>3
<1>4. handle' \in [Handles -> HandleRec]
  BY <1>2, <1>3, Zenon
<1> QED
  BY <1>3, <1>4 DEF Handling

\* A queue after callback id of timer i.
AfterCallback(c, i, id) ==
    LET us == Finished(c.timer, i, id)
    IN  [c EXCEPT !.timer = us,
                  !.inline = IF c.inline = id THEN 0 ELSE c.inline,
                  !.phase = IF c.phase = "Deleting" /\ \A j \in Timers : us[j].phase = "Free"
                              THEN "AwaitingWorkerExit" ELSE c.phase]

\* The queue a left by callback id of timer i of queue c.
QueueOutcome(c, i, id, a) ==
    /\ QueueOK(a) /\ a.state = c.state /\ a.gen = c.gen
    /\ a.timer = Finished(c.timer, i, id)
    /\ a.inline = IF c.inline = id THEN 0 ELSE c.inline
    /\ a.phase # c.phase =>
         c.phase = "Deleting" /\ \A j \in Timers : a.timer[j].phase = "Free"
    /\ ~(c.phase \in {"AwaitingWorkerExit", "Exited"})

\* A queue one of whose callbacks is over: it waits for the scheduler once it
\* is being deleted and its last timer is gone.
LEMMA FinishedQueue ==
    ASSUME NEW c, QueueOK(c), c.state # "Free", NEW i \in Timers,
           NEW id \in c.timer[i].active, NEW a, a = AfterCallback(c, i, id)
    PROVE  QueueOutcome(c, i, id, a)
<1> DEFINE us == Finished(c.timer, i, id)
           n == IF c.inline = id THEN 0 ELSE c.inline
           ph == IF c.phase = "Deleting" /\ \A j \in Timers : us[j].phase = "Free"
                   THEN "AwaitingWorkerExit" ELSE c.phase
<1>0. a = [c EXCEPT !.timer = us, !.inline = n, !.phase = ph]
  BY Zenon DEF AfterCallback
<1>1. c \in QueueRec /\ TimersOK(c.timer) /\ c.timer[i].phase # "Free"
  BY ZenonT(30) DEF QueueOK, TimersOK
<1>2. /\ TimersOK(us)
      /\ us[i].phase # "Free" => us[i].phase = c.timer[i].phase
      /\ \A j \in Timers : j # i => us[j] = c.timer[j]
  <2>1. FinishedOutcome(c.timer, i, id, us)
    <3>1. us = Finished(c.timer, i, id)
      BY Zenon
    <3> HIDE DEF us
    <3> QED
      BY <1>1, <3>1, FinishedTimers, Zenon
  <2> QED
    BY <2>1, Zenon DEF FinishedOutcome
<1> HIDE DEF us
<1>3. ~(c.phase \in {"AwaitingWorkerExit", "Exited"})
  BY <1>1, Zenon DEF QueueOK
<1>4. c.phase \in {"Running", "Deleting", "AwaitingWorkerExit", "Exited"}
  BY <1>1, ZenonT(30) DEF QueueRec
<1>5. ph \in {"Running", "Deleting", "AwaitingWorkerExit", "Exited"}
  BY <1>4, Zenon
<1>6. ph \in {"AwaitingWorkerExit", "Exited"} => \A j \in Timers : us[j].phase = "Free"
  BY <1>3, Zenon
<1>7. c.state = "Live" => ph = "Running"
  BY Zenon DEF QueueOK
<1>8. c.state = "Retired" => ph # "Running"
  BY Zenon DEF QueueOK
<1>9. us \in [Timers -> TimerRec]
  BY <1>2 DEF TimersOK
<1>10. /\ a \in QueueRec /\ a.state = c.state /\ a.gen = c.gen /\ a.timer = us
       /\ a.inline = n /\ a.phase = ph
  <2>1. n \in Int
    <3>1. c.inline \in Int
      BY <1>1, Zenon DEF QueueRec
    <3> QED
      BY <3>1
  <2> HIDE DEF n, ph
  <2> QED
    BY <1>0, <1>1, <1>5, <1>9, <2>1, ZenonT(30) DEF QueueRec
<1>11. c.state = "Retired" => \A j \in Timers : us[j].phase \in {"Free", "Destroying"}
  BY <1>2, Zenon DEF QueueOK
<1>12. QueueOK(a)
  BY <1>2, <1>6, <1>7, <1>8, <1>10, <1>11, ZenonT(30) DEF QueueOK
<1>13. ph # c.phase => c.phase = "Deleting" /\ \A j \in Timers : us[j].phase = "Free"
  BY SMTT(30)
<1> HIDE DEF ph
<1> QED
  BY <1>3, <1>10, <1>12, <1>13, Zenon DEF us, QueueOutcome

\* With no timer at its capacity before, the head of a queue stays.
LEMMA FinishedHead ==
    ASSUME NEW ts, TimersOK(ts), NEW i \in Timers, NEW id \in ts[i].active,
           NEW us, us = Finished(ts, i, id), Cardinality(ts[i].active) # Capacity,
           NEW d, HeadFrom(ts, d)
    PROVE  HeadFrom(us, d)
<1>1. /\ TimersOK(us) /\ us[i].active = ts[i].active \ {id}
      /\ us[i].phase = "Free" => ts[i].phase = "Destroying" /\ ts[i].active = {id}
      /\ us[i].phase # "Free" => us[i].phase = ts[i].phase
      /\ \A j \in Timers : /\ us[j].deadline = ts[j].deadline /\ us[j].seq = ts[j].seq
                           /\ j # i => us[j] = ts[j]
  <2>1. FinishedOutcome(ts, i, id, us)
    BY FinishedTimers, Zenon
  <2> QED
    BY <2>1, Zenon DEF FinishedOutcome
<1>2. Armed(us) = Armed(ts)
  BY <1>1, ZenonT(30) DEF Armed
<1>3. Cardinality(us[i].active) < Capacity /\ Cardinality(ts[i].active) < Capacity
  <2>1. ts[i].active \subseteq Ids /\ us[i].active \subseteq ts[i].active
    BY <1>1, Zenon DEF TimersOK, TimerRec
  <2>2. IsFiniteSet(ts[i].active)
    BY <2>1, Numbers, FS_Subset, Zenon
  <2>3. Cardinality(us[i].active) <= Cardinality(ts[i].active)
        /\ IsFiniteSet(us[i].active)
    BY <2>1, <2>2, FS_Subset, ZenonT(30)
  <2>4. Cardinality(ts[i].active) \in Nat /\ Cardinality(us[i].active) \in Nat
    BY <2>2, <2>3, FS_CardinalityType, Zenon
  <2>5. Cardinality(ts[i].active) <= Capacity
    BY ZenonT(30) DEF TimersOK
  <2>6. \A m, n \in Nat : n <= m /\ m <= Capacity =>
                n <= Capacity /\ (m # Capacity => n < Capacity /\ m < Capacity)
    BY Numbers, AtMost, Zenon
  <2> QED
    BY <2>3, <2>4, <2>5, <2>6, Zenon
<1>4. Dispatchable(us) = Dispatchable(ts)
  <2>1. \A j \in Timers : Cardinality(us[j].active) < Capacity
                            <=> Cardinality(ts[j].active) < Capacity
    BY <1>1, <1>3, ZenonT(30)
  <2>2. Armed(ts) \subseteq Timers
    BY Zenon DEF Armed
  <2> QED
    BY <1>2, <2>1, <2>2, Zenon DEF Dispatchable
<1>5. \A j \in Armed(ts) : us[j].deadline = ts[j].deadline /\ us[j].seq = ts[j].seq
  BY <1>1, Zenon DEF Armed
<1> QED
  BY <1>2, <1>4, <1>5, HeadSame, ZenonT(30)

\* TimerQueue::callback_finished and what the worker makes of it.
LEMMA CallbackFinishedInv ==
    ASSUME IInv, NEW t \in Threads, thread[t].pc \in {"callback", "post"},
           CallbackFinished(t), UNCHANGED <<now, wake, posted, plan>>
    PROVE  IInv'
<1> DEFINE k == thread[t].cb
           q == k.q[1]
           c == queue[q]
           ts == c.timer
           i == k.i
           K == TicketsOf(posted, thread)
           last == Reclaims(ts[i], k)
           us == [ts EXCEPT ![i].active = @ \ {k.id},
                            ![i].phase = IF last THEN "Free" ELSE @,
                            ![i].ev = IF last THEN NoEvent ELSE @]
           full == Cardinality(ts[i].active) = Capacity
           ours == c.inline = k.id
           drained == Drained(us, q)
           a == [c EXCEPT !.timer = us, !.inline = IF ours THEN 0 ELSE c.inline,
                          !.phase = IF drained THEN "AwaitingWorkerExit" ELSE c.phase]
           sig == IF last THEN ts[i].ev ELSE NoEvent
           wk == full \/ ours \/ drained
           r == [Resting EXCEPT !.pc = "report", !.sig = sig, !.wake = wk]
<1>1. /\ Queueing(queue) /\ queue \in [Queues -> QueueRec]
      /\ \A p \in Queues : QueueOK(queue[p])
      /\ Handling(handle) /\ Planning /\ wake \in BOOLEAN
      /\ Threading(thread) /\ thread \in [Threads -> ThreadRec]
      /\ ThreadOK(t, thread[t]) /\ thread[t] \in ThreadRec
      /\ Retiring(queue, thread[Scheduler])
      /\ Exclusive(posted, thread) /\ Balanced(K, queue) /\ Watched
  BY ZenonT(30) DEF IInv, Shape, Queueing, Threading, Ticketing, Tickets, TicketsOf
<1>2. k # NoTicket /\ t \notin Callers
  BY <1>1, ZenonT(30) DEF ThreadOK, Threads, OpPcs, RestPcs
<1>3. k \in K
  BY <1>2, SMTT(30) DEF TicketsOf
<1>4. k \in TicketRec /\ CountedIn(k, queue)
  BY <1>1, <1>3, Zenon DEF Balanced
<1>5. q \in Queues /\ i \in Timers /\ k.id \in ts[i].active /\ c.state # "Free"
      /\ ts[i].phase # "Free"
  <2>1. q \in Queues /\ i \in Timers
    BY <1>4, Zenon DEF TicketRec
  <2>2. c.state # "Free" /\ Known(ts, i, k.tgen) /\ k.id \in ts[i].active
    BY <1>4, Zenon DEF CountedIn
  <2> QED
    BY <2>1, <2>2, Zenon DEF Known
<1>6. QueueOK(c) /\ c \in QueueRec /\ TimersOK(ts) /\ c.inline \in Int
  BY <1>1, <1>5, ZenonT(30) DEF QueueOK, QueueRec
<1>7. /\ queue' = [queue EXCEPT ![q] = a] /\ thread' = [thread EXCEPT ![t] = r]
      /\ handle' = [h \in Handles |->
             IF h \in {g \in HandleOf(k) : last} THEN [handle[h] EXCEPT !.state = "Free"]
                                                 ELSE handle[h]]
  <2>1. queue' = [queue EXCEPT ![q] = a]
    BY Zenon DEF CallbackFinished
  <2>2. thread' = [thread EXCEPT ![t] = r]
    BY Zenon DEF CallbackFinished
  <2>3. handle' = [h \in Handles |->
             IF last /\ h \in HandleOf(k) THEN [handle[h] EXCEPT !.state = "Free"]
                                          ELSE handle[h]]
    BY Zenon DEF CallbackFinished
  <2> HIDE DEF last, k
  <2>4. \A h : h \in {g \in HandleOf(k) : last} <=> last /\ h \in HandleOf(k)
    OBVIOUS
  <2> QED
    BY <2>1, <2>2, <2>3, <2>4, Zenon
<1>9. sig \in Int
  <2> HIDE DEF last, ts, i
  <2>1. ts[i] \in TimerRec
    BY <1>5, <1>6, ZenonT(30) DEF TimersOK
  <2>2. ts[i].ev \in Int /\ NoEvent \in Int
    BY <2>1 DEF TimerRec, NoEvent
  <2> QED
    BY <2>2, SMTT(30)
<1>10. a = AfterCallback(c, i, k.id)
  BY Zenon DEF AfterCallback, Finished, Reclaims, Drained
<1>11. /\ wk \in BOOLEAN
       /\ ~wk => /\ ~full /\ ~ours
                 /\ ~(c.phase = "Deleting" /\ \A j \in Timers : us[j].phase = "Free")
  BY Zenon DEF Drained
<1>8. us = Finished(ts, i, k.id)
  BY Zenon DEF Finished, Reclaims
<1> HIDE DEF wk, sig, a, r, us, full, ours, drained, last, K
<1>12. /\ QueueOK(a) /\ a.state = c.state /\ a.gen = c.gen /\ a.timer = us
       /\ a.inline = IF ours THEN 0 ELSE c.inline
       /\ a.phase # c.phase =>
            c.phase = "Deleting" /\ \A j \in Timers : us[j].phase = "Free"
       /\ ~(c.phase \in {"AwaitingWorkerExit", "Exited"})
  <2>1. /\ QueueOK(a) /\ a.state = c.state /\ a.gen = c.gen
        /\ a.timer = Finished(c.timer, i, k.id)
        /\ a.inline = IF c.inline = k.id THEN 0 ELSE c.inline
        /\ a.phase # c.phase =>
             c.phase = "Deleting" /\ \A j \in Timers : a.timer[j].phase = "Free"
        /\ ~(c.phase \in {"AwaitingWorkerExit", "Exited"})
    <3>1. k.id \in c.timer[i].active
      BY <1>5, Zenon DEF ts
    <3> HIDE DEF k, i, c
    <3>2. QueueOutcome(c, i, k.id, a)
      BY <1>5, <1>6, <1>10, <3>1, FinishedQueue, Zenon
    <3> QED
      BY <3>2, Zenon DEF QueueOutcome
  <2> QED
    BY <1>8, <2>1, ZenonT(30) DEF ours
<1>13. /\ us[i].active = ts[i].active \ {k.id}
       /\ us[i].phase = "Free" => ts[i].active = {k.id}
       /\ us[i].gen = ts[i].gen
       /\ \A j \in Timers : j # i => us[j] = ts[j]
  <2> HIDE DEF k, i, ts
  <2> QED
    <3>1. FinishedOutcome(ts, i, k.id, us)
      BY <1>5, <1>6, <1>8, FinishedTimers, Zenon
    <3> QED
      BY <1>5, <3>1, Zenon DEF FinishedOutcome
<1>14. Queueing(queue') /\ queue'[q] = a /\ \A p \in Queues : p # q => queue'[p] = queue[p]
  <2>1. a \in QueueRec
    BY <1>12, ZenonT(30) DEF QueueOK
  <2> QED
    BY <1>1, <1>5, <1>7, <1>12, <2>1, ZenonT(30) DEF Queueing
<1>15. Balanced(K \ {k}, queue')
  <2>1. LosesCallback(queue[q], i, k.id, a)
    BY <1>12, <1>13, Zenon DEF LosesCallback
  <2>2. k.q[1] = q /\ k.i = i
    BY SMTT(30)
  <2>4. /\ Queueing(queue) /\ Balanced(K, queue) /\ k \in K /\ q \in Queues /\ i \in Timers
        /\ queue'[q] = a /\ \A p \in Queues : p # q => queue'[p] = queue[p]
    BY <1>1, <1>3, <1>5, <1>14, Zenon
  <2>5. Forgets(queue, k, queue')
    <3> HIDE DEF k, q, i, c, ts
    <3> QED
      BY <2>1, <2>2, <2>4, Zenon DEF Forgets
  <2> HIDE DEF k, q, i, c, ts
  <2> QED
    BY <2>4, <2>5, BalancedFinished, Zenon
<1>16. Handling(handle')
  BY <1>1, <1>7, HandleFreed, Zenon
<1>17. /\ r \in ThreadRec /\ r.pc = "report" /\ r.cb = NoTicket /\ r.wake = wk
  <2> DEFINE p == "report"
  <2>1. p \in RestPcs /\ Resting.cb = NoTicket
    BY Zenon DEF RestPcs, Resting
  <2>2. r = [Resting EXCEPT !.pc = p, !.sig = sig, !.wake = wk]
    BY SMTT(30) DEF r
  <2> HIDE DEF p
  <2>3. \A u \in ThreadRec : LET v == [u EXCEPT !.pc = p, !.sig = sig, !.wake = wk]
                             IN  /\ v \in ThreadRec /\ v.pc = p /\ v.cb = u.cb
                                 /\ v.wake = wk
    BY <1>9, <1>11, <2>1, ZenonT(30) DEF ThreadRec
  <2> QED
    BY <2>1, <2>2, <2>3, RestingType, ZenonT(30) DEF p
<1>18. ThreadOK(t, r)
  BY <1>2, <1>17, ThreadsAssumption DEF ThreadOK, OpPcs, RestPcs
<1>19. Threading(thread')
  BY <1>1, <1>7, <1>17, <1>18, ThreadingStep, ZenonT(30)
<1>20. /\ TicketsOf(posted, [thread EXCEPT ![t] = r]) = K \ {k}
       /\ Exclusive(posted, [thread EXCEPT ![t] = r])
  BY <1>1, <1>2, <1>17, TicketDropped, ZenonT(30) DEF K
<1>21. Tickets' = TicketsOf(posted', thread') /\ posted' = posted
  BY DEF Tickets, TicketsOf
<1>22. Ticketing'
  BY <1>7, <1>15, <1>20, <1>21, ZenonT(30) DEF Ticketing
<1>23. Retiring(queue', thread'[Scheduler])
  <2>1. \A p \in Queues : queue[p].state = "Retired" /\ queue[p].phase = "Exited" =>
            queue'[p].state = "Retired" /\ queue'[p].phase = "Exited"
    BY <1>12, <1>14, ZenonT(30)
  <2>2. r.pc # "exit"
    BY <1>17, Zenon
  <2> QED
    BY <1>1, <1>7, <1>17, <2>1, <2>2, RetiringKept, ZenonT(30)
<1>24. Shape'
  BY <1>1, <1>14, <1>16, <1>19, <1>23, ZenonT(30) DEF Shape, Planning
<1>25. Watched'
  <2>1. ASSUME ~r.wake, NEW p \in Queues, NEW d \in Int, Covered(queue[p], d)
        PROVE  Covered(queue'[p], d)
    <3>1. CASE p # q
      BY <1>14, <2>1, <3>1, Zenon
    <3>2. CASE p = q
      <4>1. ~full /\ ~ours /\ a.phase = c.phase
        BY <1>11, <1>12, <1>17, <2>1, ZenonT(30)
      <4>2. ~(a.state = "Retired" /\ a.phase = "AwaitingWorkerExit")
        BY <1>12, <4>1, ZenonT(30)
      <4>3. ASSUME a.state = "Live", a.inline = 0 PROVE HeadFrom(a.timer, d)
        <5>1. HeadFrom(ts, d)
          BY <1>8, <1>12, <2>1, <3>2, <4>1, <4>3, ZenonT(30) DEF Covered
        <5>2. Cardinality(ts[i].active) # Capacity
          BY <4>1, ZenonT(30) DEF full
        <5> HIDE DEF ts, i, k
        <5>3. HeadFrom(us, d)
          <6>1. TimersOK(ts) /\ i \in Timers /\ k.id \in ts[i].active
            BY <1>5, <1>6, Zenon
          <6> QED
            BY <1>8, <5>1, <5>2, <6>1, FinishedHead, SMTT(30)
        <5> QED
          BY <1>12, <5>3, SMTT(30)
      <4> QED
        BY <1>14, <3>2, <4>2, <4>3, ZenonT(30) DEF Covered
    <3> QED
      BY <3>1, <3>2, Zenon
  <2>2. plan.clock + plan.timeout \in Int
    BY <1>1 DEF Planning
  <2>3. ~(thread[t].pc \in {"apply", "report"}) /\ r.pc \in {"apply", "report"}
    BY <1>17
  <2> DEFINE d == plan.clock + plan.timeout
  <2>4. ~r.wake => \A p \in Queues : Covered(queue[p], d) => Covered(queue'[p], d)
    BY <2>1, <2>2, ZenonT(30)
  <2>5. UNCHANGED <<wake, plan>> /\ d = plan.clock + plan.timeout
    OBVIOUS
  <2> HIDE DEF d
  <2> QED
    BY <1>1, <1>7, <1>17, <2>3, <2>4, <2>5, WatchingChanged, ZenonT(30)
<1> QED
  BY <1>22, <1>24, <1>25, Zenon DEF IInv

\* execute_timer_dispatch
LEMMA PostInv ==
    ASSUME IInv, NEW ok \in BOOLEAN, Post(ok)
    PROVE  IInv'
<1>1. thread[Scheduler].pc = "post" /\ UNCHANGED <<now, wake, plan>>
      /\ Scheduler \in Threads
  BY DEF Post, Threads
<1>2. CASE ok
  <2>1. /\ posted' = posted \cup {thread[Scheduler].cb}
        /\ thread' = [thread EXCEPT ![Scheduler] = [Resting EXCEPT !.pc = "read"]]
        /\ UNCHANGED <<queue, handle>>
    BY <1>2 DEF Post
  <2>2. UNCHANGED <<now, queue, handle, wake, plan>>
    BY <1>1, <2>1, SMTT(30)
  <2> QED
    BY <1>1, <2>1, <2>2, PostedInv, Zenon
<1>3. CASE ~ok
  <2>1. CallbackFinished(Scheduler) /\ UNCHANGED posted
    BY <1>3, Zenon DEF Post
  <2>2. /\ thread[Scheduler].pc \in {"callback", "post"}
        /\ UNCHANGED <<now, wake, posted, plan>>
    BY <1>1, <2>1, Zenon
  <2> QED
    BY <1>1, <2>1, <2>2, CallbackFinishedInv, Zenon
<1> QED
  BY <1>2, <1>3

\* A callback returns.
LEMMA FinishCallbackInv ==
    ASSUME IInv, NEW t \in Threads, FinishCallback(t)
    PROVE  IInv'
<1>1. /\ thread[t].pc \in {"callback", "post"} /\ CallbackFinished(t)
      /\ UNCHANGED <<now, wake, posted, plan>>
  BY DEF FinishCallback
<1> QED
  BY <1>1, CallbackFinishedInv, Zenon
\* Nothing exists yet.
LEMMA InitInv == Init => IInv
<1> SUFFICES ASSUME Init PROVE IInv
  BY Zenon
<1>1. EmptyTimer \in TimerRec /\ EmptyTimer.phase = "Free" /\ EmptyTimer.active = {}
  <2>1. 0 \in Int /\ 0 \in Nat /\ FALSE \in BOOLEAN /\ {} \in SUBSET Ids
    OBVIOUS
  <2> QED
    BY <2>1, Zenon DEF EmptyTimer, TimerRec, NoEvent
<1>2. /\ EmptyQueue \in QueueRec /\ EmptyQueue.state = "Free"
      /\ EmptyQueue.phase = "Running"
      /\ \A i \in Timers : EmptyQueue.timer[i] = EmptyTimer
  <2>1. 0 \in Int /\ 0 \in Nat
    OBVIOUS
  <2>2. [i \in Timers |-> EmptyTimer] \in [Timers -> TimerRec]
    BY <1>1, Zenon
  <2> QED
    BY <2>1, <2>2, Zenon DEF EmptyQueue, QueueRec, NoEvent
<1>3. EmptyHandle \in HandleRec /\ EmptyHandle.state = "Free"
  <2>1. 0 \in Int /\ 0 \in Nat
    OBVIOUS
  <2> QED
    BY <2>1, Zenon DEF EmptyHandle, HandleRec
<1>4. QueueOK(EmptyQueue)
  <2>1. Cardinality({}) = 0 /\ Capacity \in Nat
    BY FS_EmptySet, BoundsAssumption, Zenon
  <2>2. TimersOK(EmptyQueue.timer)
    BY <1>1, <1>2, <2>1, SMTT(30) DEF TimersOK, QueueRec
  <2> QED
    BY <1>1, <1>2, <2>2, Zenon DEF QueueOK
<1>5. Queueing(queue)
  BY <1>2, <1>4 DEF Queueing, Init
<1>6. Handling(handle)
  BY <1>3, Zenon DEF Handling, Init
<1>7. /\ Resting \in ThreadRec /\ Resting.pc = "idle" /\ Resting.cb = NoTicket
      /\ Resting.wake = FALSE
  BY RestingType DEF Resting
<1> DEFINE r == [Resting EXCEPT !.pc = "read"]
<1>8. r \in ThreadRec /\ r.pc = "read" /\ r.cb = NoTicket
  <2>1. \A x \in ThreadRec : LET y == [x EXCEPT !.pc = "read"]
                             IN  y \in ThreadRec /\ y.pc = "read" /\ y.cb = x.cb
    BY DEF ThreadRec, RestPcs
  <2> QED
    BY <1>7, <2>1
<1> HIDE DEF r
<1>9. \A t \in Threads : thread[t] = IF t = Scheduler THEN r ELSE Resting
  BY DEF Init, r
<1>10. thread \in [Threads -> ThreadRec]
  BY <1>7, <1>8, Zenon DEF Init, r
<1>11. Scheduler \in Threads /\ Scheduler \notin Callers /\ Scheduler \notin Workers
  BY ThreadsAssumption DEF Threads
<1>12. Threading(thread)
  <2>1. ThreadOK(Scheduler, r)
    BY <1>8, <1>11, Zenon DEF ThreadOK, RestPcs, OpPcs
  <2>2. \A t \in Threads : t # Scheduler => ThreadOK(t, Resting)
    BY <1>7 DEF ThreadOK, RestPcs, OpPcs
  <2> QED
    BY <1>9, <1>10, <2>1, <2>2, Zenon DEF Threading
<1>13. Shape
  <2>1. Retiring(queue, thread[Scheduler])
    BY <1>8, <1>9, <1>11, Zenon DEF Retiring
  <2>2. wake \in BOOLEAN
    BY Zenon DEF Init
  <2>3. Planning
    BY DEF Planning, Init, Awake
  <2> QED
    BY <1>5, <1>6, <1>12, <2>1, <2>2, <2>3, ZenonT(30) DEF Shape
<1>14. Ticketing
  <2>1. posted = {} /\ \A t \in Threads : thread[t].cb = NoTicket
    BY <1>7, <1>8, <1>9, Zenon DEF Init
  <2>2. Tickets = {}
    BY <2>1 DEF Tickets
  <2>3. \A q \in Queues, i \in Timers : queue[q].timer[i].active = {}
    BY <1>1, <1>2, Zenon DEF Init
  <2>4. Balanced({}, queue)
    BY <2>3 DEF Balanced
  <2>5. Exclusive(posted, thread)
    BY <2>1, Zenon DEF Exclusive
  <2> QED
    BY <2>2, <2>4, <2>5, Zenon DEF Ticketing
<1>15. Watched
  BY <1>8, <1>9, <1>11 DEF Watched, Watching
<1> QED
  BY <1>13, <1>14, <1>15, Zenon DEF IInv

\* A step of a thread that calls into the timer queues.
LEMMA OperationInv ==
    ASSUME IInv, NEW t \in Threads, Operation(t)
    PROVE  IInv'
<1>1. \A mode : ModeEvent(mode) \in Int
  BY DEF ModeEvent, UserEvent, NoEvent
<1>2. CASE CreateQueue(t)
  BY <1>2, CreateQueueInv
<1>3. CASE \E q \in Queues, d \in Dues, p \in Periods, inline \in BOOLEAN :
             CreateTimer(t, q, d, p, inline)
  BY <1>3, CreateTimerInv, Zenon
<1>4. CASE \E h \in Handles, d \in Dues, p \in Periods : UpdateTimer(t, h, d, p)
  BY <1>4, UpdateTimerInv, Zenon
<1>5. CASE \E mode \in Modes(t) \ {"sync"} : \E h \in Handles :
             DeleteTimerAsync(t, h, ModeEvent(mode))
  BY <1>1, <1>5, DeleteTimerAsyncInv, Zenon
<1>6. CASE \E mode \in Modes(t) \ {"sync"} : \E q \in Queues :
             DeleteQueueAsync(t, q, ModeEvent(mode))
  BY <1>1, <1>6, DeleteQueueAsyncInv, Zenon
<1>7. CASE \E h \in Handles : DeleteTimerSync(t, h)
  BY <1>7, DeleteTimerSyncInv, Zenon
<1>8. CASE \E q \in Queues : DeleteQueueSync(t, q)
  BY <1>8, DeleteQueueSyncInv, ZenonT(30)
<1> QED
  BY <1>2, <1>3, <1>4, <1>5, <1>6, <1>7, <1>8, ZenonT(30) DEF Operation

\* Every step keeps the invariant.
LEMMA NextInv == IInv /\ [Next]_vars => IInv'
<1> SUFFICES ASSUME IInv, [Next]_vars PROVE IInv'
  OBVIOUS
<1>1. CASE \E t \in Threads : Operation(t)
  BY <1>1, OperationInv
<1>2. CASE \E t \in Threads : Proceed(t)
  <2>1. PICK t \in Threads : Proceed(t)
    BY <1>2, Zenon
  <2> QED
    BY <2>1, CreateEventInv, FinishSyncDeleteInv, ApplyInv, WaitForCompletionInv,
       ReportInv, ZenonT(30) DEF Proceed
<1>3. CASE \E t \in Threads : FinishCallback(t)
  BY <1>3, FinishCallbackInv
<1>4. CASE \E w \in Workers : StartCallback(w)
  BY <1>4, StartCallbackInv
<1>5. CASE SchedulerStep
  BY <1>5, ReadClockInv, ScanInv, FallAsleepInv, CompleteQueueExitInv, WakeUpInv,
     PostInv, ZenonT(30) DEF SchedulerStep
<1>6. CASE Tick
  BY <1>6, TickInv
<1>7. CASE UNCHANGED vars
  <2>1. /\ queue' = queue /\ handle' = handle /\ thread' = thread /\ plan' = plan
        /\ now' = now /\ wake' = wake /\ posted' = posted
    BY <1>7 DEF vars
  <2> QED
    BY <2>1, Zenon DEF IInv, Shape, Planning, Ticketing, Tickets, Watched
<1> QED
  BY <1>1, <1>2, <1>3, <1>4, <1>5, <1>6, <1>7, ZenonT(30) DEF Next

\* The tables of queues, timers and handles, the positions of the threads, the
\* tickets and the scheduler's timeout agree in every state of the timer
\* queues, whatever the numbers of threads, queues, timers and callbacks.
THEOREM TimerBooksInvariance == Spec => []IInv
  BY InitInv, NextInv, PTL DEF Spec

\* A queue's tickets and the callbacks its timers count are the same, one to one.
LEMMA TicketsMatchCallbacks ==
    ASSUME IInv, NEW q \in Queues
    PROVE  Cardinality(InFlight(queue[q].timer)) =
              Cardinality({k \in Tickets : k.q[1] = q})
<1> DEFINE S == InFlight(queue[q].timer)
           T == {k \in Tickets : k.q[1] = q}
           f == [k \in T |-> k.id]
<1>1. Balanced(Tickets, queue) /\ QueueOK(queue[q])
  BY DEF IInv, Ticketing, Shape, Queueing
<1>2. IsFiniteSet(S)
  <2>1. S \subseteq Ids
    BY <1>1, Zenon DEF InFlight, QueueOK, TimersOK, TimerRec
  <2>2. IsFiniteSet(Ids)
    <3>1. NumTimers * Capacity \in Nat
      BY BoundsAssumption, SMTT(30)
    <3> QED
      BY <3>1, FS_Interval, SMTT(30) DEF Ids
  <2> QED
    BY <2>1, <2>2, FS_Subset, SMTT(30)
<1>3. \A k \in T : k.id \in S
  <2> SUFFICES ASSUME NEW k \in Tickets, k.q[1] = q PROVE k.id \in S
    OBVIOUS
  <2>1. k \in TicketRec /\ CountedIn(k, queue)
    BY <1>1, ZenonT(30) DEF Balanced
  <2>2. k.i \in Timers /\ k.id \in queue[q].timer[k.i].active
    BY <2>1 DEF CountedIn, TicketRec
  <2> QED
    BY <2>2 DEF InFlight
<1>4. \A k, l \in T : k.id = l.id => k = l
  <2>1. Queueing(queue)
    BY DEF IInv, Shape
  <2> SUFFICES ASSUME NEW k \in T, NEW l \in T, k.id = l.id PROVE k = l
    OBVIOUS
  <2> QED
    BY <1>1, <2>1, TicketsDiffer, Zenon
<1>5. \A id \in S : \E k \in T : k.id = id
  <2> SUFFICES ASSUME NEW id \in S PROVE \E k \in T : k.id = id
    OBVIOUS
  <2>1. PICK i \in Timers : id \in queue[q].timer[i].active
    BY DEF InFlight
  <2>2. \A p \in Queues, j \in Timers : \A x \in queue[p].timer[j].active :
          \E k \in Tickets : k.q[1] = p /\ k.id = x
    BY <1>1, Zenon DEF Balanced
  <2>3. PICK k \in Tickets : k.q[1] = q /\ k.id = id
    BY <2>1, <2>2
  <2> QED
    BY <2>3
<1> HIDE DEF S, T
<1>6. f \in Injection(T, S) /\ f \in Surjection(T, S)
  BY <1>3, <1>4, <1>5, Zenon DEF Injection, Surjection, IsInjective
<1>7. Cardinality(S) = Cardinality(T)
  BY <1>2, <1>6, FS_Injection
<1> QED
  BY <1>7, SMTT(30) DEF S, T

\* Whatever deletions, updates and failures happen meanwhile, a callback that
\* is queued or running is counted by the timer that fired it, in a queue that
\* still exists, and nothing else is counted: finish_timer_callback never
\* meets a stale ticket.
THEOREM TicketsAlwaysCounted == Spec => []TicketsAreCounted
<1>1. IInv => TicketsAreCounted
  <2> SUFFICES ASSUME IInv PROVE TicketsAreCounted
    OBVIOUS
  <2>1. ASSUME NEW k \in Tickets
        PROVE  /\ QueueKnown(k.q) /\ Known(TimersOf(k.q), k.i, k.tgen)
               /\ k.id \in TimersOf(k.q)[k.i].active
    <3>1. CountedIn(k, queue)
      BY Zenon DEF IInv, Ticketing, Balanced
    <3> QED
      BY <3>1, ZenonT(30) DEF CountedIn, QueueKnown, TimersOf
  <2> QED
    BY <2>1, TicketsMatchCallbacks, Zenon DEF TicketsAreCounted
<1> QED
  BY <1>1, TimerBooksInvariance, PTL

\* While the scheduler thread sleeps and nobody is about to wake it, its timeout
\* covers the first timer of every queue that can be fired, and no deleted
\* queue waits to be retired, for every way of interleaving creations, updates,
\* deletions and completions with its scan and its wait.
THEOREM HeadNeverOverslept == Spec => []NoHeadOverslept
<1>1. IInv => NoHeadOverslept
  <2> SUFFICES ASSUME IInv, SoundAsleep, NEW q \in Queues
               PROVE  /\ ~Exiting(q)
                      /\ HeadDispatchable(q) =>
                           \A d \in DispatchTimes(q) : plan.clock + plan.timeout <= d
    BY DEF NoHeadOverslept
  <2>1. ~WakePending(thread)
    BY Zenon DEF SoundAsleep, WakePending
  <2>2. Covered(queue[q], plan.clock + plan.timeout)
    BY <2>1 DEF IInv, Watched, Watching, SoundAsleep
  <2>3. ~Exiting(q)
    BY <2>2, Zenon DEF Covered, Exiting
  <2>4. ASSUME HeadDispatchable(q), NEW d \in DispatchTimes(q)
        PROVE  plan.clock + plan.timeout <= d
    <3>1. PICK i \in Dispatchable(queue[q].timer) :
             /\ d = queue[q].timer[i].deadline
             /\ queue[q].state = "Live" /\ queue[q].inline = 0
      BY Zenon DEF DispatchTimes
    <3>2. HeadFrom(queue[q].timer, plan.clock + plan.timeout)
      BY <2>2, <3>1 DEF Covered
    <3>3. \A j \in Dispatchable(queue[q].timer) :
             plan.clock + plan.timeout <= queue[q].timer[j].deadline
      BY <2>4, <3>2, Zenon DEF HeadFrom, HeadDispatchable
    <3> QED
      BY <3>1, <3>3, Zenon
  <2> QED
    BY <2>3, <2>4
<1> QED
  BY <1>1, TimerBooksInvariance, PTL
=============================================================================
