---------------------------- MODULE TimerQueues ----------------------------
(***************************************************************************)
(* RTL timer queues of one process (nt-rtl-timer-wait::timer driven by     *)
(* ntdll's on_target.rs): RtlCreateTimerQueue, RtlCreateTimer,             *)
(* RtlUpdateTimer, RtlDeleteTimer, RtlDeleteTimerQueue(Ex), the scheduler  *)
(* thread that fires timers, and the pool workers that run callbacks.      *)
(*                                                                         *)
(* All tables are guarded by one lock, and every locked section is one     *)
(* step.  Events are set, waited for and closed outside the lock, in later *)
(* steps, and the handle value of a closed event is given out again.       *)
(* Callbacks run without the lock and may call any operation.              *)
(***************************************************************************)
EXTENDS Integers, Sequences, FiniteSets

CONSTANTS
    Callers,        \* threads of the process that are not RTL workers
    Workers,        \* completion workers of the pool
    NumQueues,      \* RTL_TIMER_QUEUE_CAPACITY
    NumTimers,      \* RTL_TIMERS_PER_QUEUE
    Capacity,       \* MAX_TIMER_CALLBACKS
    Dues,           \* due times and periods a caller may ask for
    Periods,
    CallerModes,    \* completion modes of deletes: async, event, sync
    CallbackModes,  \* the modes callbacks use
    MaxNow,         \* bound: the clock
    Forever,        \* later than every deadline
    MaxOps,         \* bound: operations
    MaxFaults       \* bound: events and work items that cannot be created

ASSUME BoundsAssumption ==
    /\ {NumQueues, NumTimers, Capacity, MaxNow} \subseteq Nat
    /\ Dues \cup Periods \subseteq Nat

ASSUME ForeverAssumption ==
    /\ Forever \in Nat
    /\ \A d \in Dues \cup Periods : MaxNow + d < Forever

Scheduler == "scheduler"
Threads == Callers \cup Workers \cup {Scheduler}
Queues == 1..NumQueues
Timers == 1..NumTimers
Handles == 1..(NumQueues * NumTimers)
Events == 1..Cardinality(Threads)

\* A thread of the process, a pool worker and the scheduler are different.
ASSUME ThreadsAssumption ==
    /\ IsFiniteSet(Threads)
    /\ Callers \cap Workers = {}
    /\ Scheduler \notin Callers \cup Workers

NoEvent == 0
UserEvent == -1      \* the event a caller passes in itself

VARIABLES
    now,      \* milliseconds
    queue,    \* RTL_TIMER_QUEUES
    handle,   \* RTL_TIMER_HANDLES
    event,    \* internal events: closed, clear or set
    wake,     \* RTL_ASYNC_WAKE_EVENT is set
    posted,   \* tickets of callbacks queued to the pool
    thread,   \* what each thread is doing
    plan,     \* the scheduler's clock reading, timeout and time of falling asleep
    used      \* how much of each bound is spent

vars == <<now, queue, handle, event, wake, posted, thread, plan, used>>

EmptyTimer == [gen |-> 0, phase |-> "Free", deadline |-> 0, seq |-> 0,
               period |-> 0, inline |-> FALSE, active |-> {}, ev |-> NoEvent]
EmptyQueue == [state |-> "Free", gen |-> 0, phase |-> "Running", inline |-> 0,
               ev |-> NoEvent, timer |-> [i \in Timers |-> EmptyTimer]]
EmptyHandle == [state |-> "Free", gen |-> 0, q |-> <<0, 0>>, i |-> 0, tgen |-> 0]
NoTicket == [q |-> <<0, 0>>, i |-> 0, tgen |-> 0, id |-> 0]
Resting == [pc |-> "idle", cb |-> NoTicket, op |-> "none", h |-> <<0, 0>>,
            q |-> <<0, 0>>, ev |-> NoEvent, sig |-> NoEvent, wake |-> FALSE,
            wait |-> FALSE]

Awake == [clock |-> 0, timeout |-> 0, start |-> 0]

Init ==
    /\ now = 0
    /\ queue = [q \in Queues |-> EmptyQueue]
    /\ handle = [h \in Handles |-> EmptyHandle]
    /\ event = [e \in Events |-> "closed"]
    /\ wake = FALSE
    /\ posted = {}
    /\ thread = [t \in Threads |-> IF t = Scheduler
                                     THEN [Resting EXCEPT !.pc = "read"]
                                     ELSE Resting]
    /\ plan = Awake
    /\ used = [ops |-> 0, faults |-> 0]

MayOp == used.ops < MaxOps
SpendOp == used' = [used EXCEPT !.ops = @ + 1]
MayFail == used.faults < MaxFaults
SpendFault == used' = [used EXCEPT !.faults = @ + 1]

OnWorker(t) == t \notin Callers

\* The first free slot, event or number of a table, if there is one.
LeastOf(S) == {x \in S : \A y \in S : x <= y}

(* Queue and handle tokens: the slot must be live, or retired where the    *)
(* caller allows it, and of the token's generation.                        *)
QueueLive(tok) == queue[tok[1]].state = "Live" /\ queue[tok[1]].gen = tok[2]
QueueKnown(tok) == queue[tok[1]].state # "Free" /\ queue[tok[1]].gen = tok[2]
HandleLive(tok) == handle[tok[1]].state = "Live" /\ handle[tok[1]].gen = tok[2]

(* TimerQueue::slot, for a queue's timers ts *)
Known(ts, i, gen) == ts[i].phase # "Free" /\ ts[i].gen = gen

Armed(ts) == {i \in Timers : ts[i].phase = "Armed"}
Dispatchable(ts) == {i \in Armed(ts) : Cardinality(ts[i].active) < Capacity}
InFlight(ts) == UNION {ts[i].active : i \in Timers}
Earlier(ts, i, j) ==
    \/ ts[i].deadline < ts[j].deadline
    \/ ts[i].deadline = ts[j].deadline /\ ts[i].seq <= ts[j].seq
FirstOf(ts, S) == {i \in S : \A j \in S : Earlier(ts, i, j)}

(* head_identity, empty for None.  Sequence numbers are kept as ranks: only *)
(* their order matters, and that the timer x just given one is new to the   *)
(* head.                                                                    *)
HeadIdentity(ts) == {<<i, ts[i].deadline>> : i \in FirstOf(ts, Armed(ts))}
HeadChanged(ts, us, x) ==
    \/ HeadIdentity(ts) # HeadIdentity(us)
    \/ x \in FirstOf(us, Armed(us))
Renumber(ts) ==
    [i \in Timers |-> [ts[i] EXCEPT !.seq =
        IF ts[i].phase = "Armed"
          THEN Cardinality({j \in Armed(ts) : ts[j].seq <= ts[i].seq}) ELSE 0]]
Sequenced(ts, x) == Renumber([ts EXCEPT ![x].seq = NumTimers + 1])

(* Where a thread goes when an operation, or its callback, is over.        *)
EndOp(t) ==
    [Resting EXCEPT !.cb = thread[t].cb,
                    !.pc = IF t = Scheduler \/ t \in Workers
                             THEN "callback" ELSE "idle"]
MayCall(t) == thread[t].pc = IF OnWorker(t) THEN "callback" ELSE "idle"

(* After the lock is released: signal what the plan says, wake the         *)
(* scheduler, then perhaps wait.                                           *)
ApplyPlan(t, sig, wk, wt) ==
    thread' = [thread EXCEPT ![t].pc = "apply", ![t].sig = sig, ![t].wake = wk,
                             ![t].wait = wt]

(***************************************************************************)
(* Creating and updating.                                                  *)
(***************************************************************************)
CreateQueue(t) ==
    /\ MayCall(t)
    /\ MayOp
    /\ SpendOp
    /\ \E q \in Queues :
         /\ queue[q].state = "Free"
         /\ \A p \in Queues : p < q => queue[p].state # "Free"
         /\ queue' = [queue EXCEPT ![q] =
                [EmptyQueue EXCEPT !.state = "Live", !.gen = queue[q].gen + 1]]
    /\ ApplyPlan(t, NoEvent, TRUE, FALSE)
    /\ UNCHANGED <<now, handle, event, wake, posted, plan>>

FreeTimers(q) == {i \in Timers : queue[q].timer[i].phase = "Free"}
FreeHandles == {h \in Handles : handle[h].state = "Free"}

CreateTimer(t, q, due, period, inline) ==
    /\ MayCall(t)
    /\ MayOp
    /\ queue[q].state = "Live"
    /\ queue[q].phase = "Running"
    /\ SpendOp
    /\ \E i \in LeastOf(FreeTimers(q)), h \in LeastOf(FreeHandles) :
         LET ts == queue[q].timer
             us == Sequenced([ts EXCEPT ![i] =
                     [EmptyTimer EXCEPT !.gen = ts[i].gen + 1, !.phase = "Armed",
                        !.deadline = now + due, !.period = period,
                        !.inline = inline]], i)
         IN  /\ queue' = [queue EXCEPT ![q].timer = us]
             /\ handle' = [handle EXCEPT ![h] =
                  [state |-> "Live", gen |-> @.gen + 1, q |-> <<q, queue[q].gen>>,
                   i |-> i, tgen |-> us[i].gen]]
             /\ ApplyPlan(t, NoEvent, HeadChanged(ts, us, i), FALSE)
    /\ UNCHANGED <<now, event, wake, posted, plan>>

MutUpdateTimer(t, h, due, period) ==
    /\ MayCall(t)
    /\ MayOp
    /\ handle[h].state = "Live"
    /\ QueueLive(handle[h].q)
    /\ LET q == handle[h].q[1]
           i == handle[h].i
           ts == queue[q].timer
           us == Sequenced([ts EXCEPT ![i].deadline = now + due,
                                      ![i].period = period], i)
       IN  /\ Known(ts, i, handle[h].tgen)
           /\ ts[i].phase = "Armed"
           /\ queue' = [queue EXCEPT ![q].timer = us]
           /\ ApplyPlan(t, NoEvent, FALSE, FALSE)
    /\ SpendOp
    /\ UNCHANGED <<now, handle, event, wake, posted, plan>>

UpdateTimer(t, h, due, period) ==
    /\ MayCall(t)
    /\ MayOp
    /\ handle[h].state = "Live"
    /\ QueueLive(handle[h].q)
    /\ LET q == handle[h].q[1]
           i == handle[h].i
           ts == queue[q].timer
           us == Sequenced([ts EXCEPT ![i].deadline = now + due,
                                      ![i].period = period], i)
       IN  /\ Known(ts, i, handle[h].tgen)
           /\ ts[i].phase = "Armed"
           /\ queue' = [queue EXCEPT ![q].timer = us]
           /\ ApplyPlan(t, NoEvent, HeadChanged(ts, us, i), FALSE)
    /\ SpendOp
    /\ UNCHANGED <<now, handle, event, wake, posted, plan>>

(***************************************************************************)
(* Deleting.  A synchronous delete on an RTL worker is first refused when  *)
(* callbacks are in flight; it then makes an event, and takes the lock     *)
(* again to delete.                                                        *)
(***************************************************************************)
TimersOf(tok) == queue[tok[1]].timer

RefusedTimer(t, h) ==
    OnWorker(t) /\ TimersOf(handle[h].q)[handle[h].i].active # {}
RefusedQueue(t, q) ==
    OnWorker(t) /\ InFlight(queue[q].timer) # {}

BeginSyncDelete(t, op, h, q, refused) ==
    /\ MayCall(t)
    /\ MayOp
    /\ SpendOp
    /\ ~refused
    /\ thread' = [thread EXCEPT ![t].pc = "event", ![t].op = op,
                                ![t].h = h, ![t].q = q]
    /\ UNCHANGED <<now, queue, handle, event, wake, posted, plan>>

DeleteTimerSync(t, h) ==
    /\ handle[h].state = "Live"
    /\ BeginSyncDelete(t, "timer", <<h, handle[h].gen>>, <<0, 0>>,
                       RefusedTimer(t, h))

DeleteQueueSync(t, q) ==
    /\ queue[q].state = "Live"
    /\ BeginSyncDelete(t, "queue", <<0, 0>>, <<q, queue[q].gen>>,
                       RefusedQueue(t, q))

(* timer_completion_mode: without an event a timer is deleted anyway,      *)
(* asynchronously; a queue is not deleted.                                 *)
CreateEvent(t, ok) ==
    /\ thread[t].pc = "event"
    /\ IF ok
         THEN \E e \in LeastOf({e \in Events : event[e] = "closed"}) :
                /\ event' = [event EXCEPT ![e] = "clear"]
                /\ thread' = [thread EXCEPT ![t].pc = "delete", ![t].ev = e]
                /\ UNCHANGED used
         ELSE /\ MayFail
              /\ SpendFault
              /\ thread' = [thread EXCEPT ![t] =
                   IF @.op = "timer" THEN [@ EXCEPT !.pc = "delete"]
                                     ELSE EndOp(t)]
              /\ UNCHANGED event
    /\ UNCHANGED <<now, queue, handle, wake, posted, plan>>

(* TimerQueue::delete_timer under the lock.  An idle timer is gone at      *)
(* once; otherwise the last callback to finish reports to ev.              *)
MutDestroyed(ts, i, ev) ==
    Renumber([ts EXCEPT ![i].phase = "Free", ![i].ev = NoEvent])

Destroyed(ts, i, ev) ==
    Renumber([ts EXCEPT
        ![i].phase = IF ts[i].active = {} THEN "Free" ELSE "Destroying",
        ![i].ev = IF ts[i].active = {} THEN NoEvent ELSE ev])

DeleteTimer(t, h, ev) ==
    LET q == handle[h].q[1]
        i == handle[h].i
        ts == queue[q].timer
        us == Destroyed(ts, i, ev)
        idle == ts[i].active = {}
    IN  /\ queue' = [queue EXCEPT ![q].timer = us]
        /\ handle' = [handle EXCEPT
             ![h].state = IF idle THEN "Free" ELSE "Retired"]
        /\ ApplyPlan(t, IF idle THEN ev ELSE NoEvent,
                     HeadIdentity(ts) # HeadIdentity(us), ev > 0 /\ ~idle)

MayDeleteTimer(tok) ==
    /\ HandleLive(tok)
    /\ QueueKnown(handle[tok[1]].q)
    /\ LET slot == TimersOf(handle[tok[1]].q)[handle[tok[1]].i]
       IN  /\ Known(TimersOf(handle[tok[1]].q), handle[tok[1]].i,
                    handle[tok[1]].tgen)
           /\ slot.phase # "Destroying"

QueueHandles(q) ==
    [h \in Handles |->
        IF handle[h].state = "Free" \/ handle[h].q # <<q, queue[q].gen>>
          THEN handle[h]
          ELSE [handle[h] EXCEPT !.state =
                 IF queue[q].timer[handle[h].i].active = {}
                   THEN "Free" ELSE "Retired"]]

DeleteQueue(t, q, ev) ==
    LET ts == queue[q].timer
        drained == InFlight(ts) = {}
        us == Renumber([i \in Timers |-> [ts[i] EXCEPT !.phase =
                IF ts[i].active = {} THEN "Free" ELSE "Destroying"]])
        leaves == drained /\ OnWorker(t)
    IN  /\ queue' = [queue EXCEPT ![q] =
             [@ EXCEPT !.state = IF leaves THEN "Free" ELSE "Retired",
                       !.phase = IF leaves THEN "Exited"
                                 ELSE IF drained THEN "AwaitingWorkerExit"
                                 ELSE "Deleting",
                       !.ev = IF leaves THEN NoEvent ELSE ev,
                       !.timer = us]]
        /\ handle' = QueueHandles(q)
        /\ ApplyPlan(t, IF leaves THEN ev ELSE NoEvent, TRUE, ev > 0)

(* Asynchronous deletes, and deletes that signal the caller's event.       *)
DeleteTimerAsync(t, h, ev) ==
    /\ MayCall(t)
    /\ MayOp
    /\ MayDeleteTimer(<<h, handle[h].gen>>)
    /\ SpendOp
    /\ DeleteTimer(t, h, ev)
    /\ UNCHANGED <<now, event, wake, posted, plan>>

DeleteQueueAsync(t, q, ev) ==
    /\ MayCall(t)
    /\ MayOp
    /\ queue[q].state = "Live"
    /\ SpendOp
    /\ DeleteQueue(t, q, ev)
    /\ UNCHANGED <<now, event, wake, posted, plan>>

(* The second half of a synchronous delete: what was checked may be gone,  *)
(* or may have fired, by now.                                              *)
FinishSyncDelete(t) ==
    /\ thread[t].pc = "delete"
    /\ LET r == thread[t]
           found == IF r.op = "timer" THEN MayDeleteTimer(r.h) ELSE QueueLive(r.q)
       IN  IF found
             THEN /\ IF r.op = "timer" THEN DeleteTimer(t, r.h[1], r.ev)
                                       ELSE DeleteQueue(t, r.q[1], r.ev)
                  /\ UNCHANGED event
             ELSE /\ event' = IF r.ev > 0 THEN [event EXCEPT ![r.ev] = "closed"]
                                          ELSE event
                  /\ thread' = [thread EXCEPT ![t] = EndOp(t)]
                  /\ UNCHANGED <<queue, handle>>
    /\ UNCHANGED <<now, wake, posted, plan, used>>

(* NtSetEvent on an event that is open sets it, whoever owns it by now.    *)
Signalled(ev, e) ==
    IF e > 0 /\ ev[e] = "clear" THEN [ev EXCEPT ![e] = "set"] ELSE ev

Apply(t) ==
    /\ thread[t].pc = "apply"
    /\ LET r == thread[t]
           ev == Signalled(event, r.sig)
       IN  /\ wake' = (wake \/ r.wake)
           /\ IF r.wait
                THEN /\ thread' = [thread EXCEPT ![t].pc = "wait"]
                     /\ event' = ev
                ELSE /\ thread' = [thread EXCEPT ![t] = EndOp(t)]
                     /\ event' = IF r.ev > 0 THEN [ev EXCEPT ![r.ev] = "closed"]
                                             ELSE ev
    /\ UNCHANGED <<now, queue, handle, posted, plan, used>>

(* rtl_async_wait_for_completion: a caller waits, a worker only looks.     *)
(* Either way the event is closed.                                         *)
WaitForCompletion(t) ==
    /\ thread[t].pc = "wait"
    /\ OnWorker(t) \/ event[thread[t].ev] = "set"
    /\ event' = [event EXCEPT ![thread[t].ev] = "closed"]
    /\ thread' = [thread EXCEPT ![t] = EndOp(t)]
    /\ UNCHANGED <<now, queue, handle, wake, posted, plan, used>>

(***************************************************************************)
(* The scheduler: next_timer_worker_action, then dispatch, exit or sleep.  *)
(***************************************************************************)
DispatchTimes(q) ==
    {queue[q].timer[i].deadline :
        i \in {i \in Dispatchable(queue[q].timer) :
                 queue[q].state = "Live" /\ queue[q].inline = 0}}

Exiting(q) ==
    queue[q].state = "Retired" /\ queue[q].phase = "AwaitingWorkerExit"
Busy(clock) ==
    {q \in Queues : Exiting(q) \/ \E d \in DispatchTimes(q) : d <= clock}

FreshId(q) == LeastOf((1..(NumTimers * Capacity)) \ InFlight(queue[q].timer))

Rearmed(slot, clock) ==
    IF slot.period = 0 THEN [slot EXCEPT !.phase = "Dormant"]
    ELSE [slot EXCEPT !.deadline =
            IF slot.deadline + slot.period < clock THEN clock + slot.period
            ELSE slot.deadline + slot.period]

ExpireOne(q, clock) ==
    LET ts == queue[q].timer
    IN  \E i \in FirstOf(ts, Dispatchable(ts)), id \in FreshId(q) :
          /\ queue' = [queue EXCEPT
               ![q].timer = Sequenced([ts EXCEPT ![i] =
                              Rearmed([ts[i] EXCEPT !.active = ts[i].active \cup {id}],
                                      clock)], i),
               ![q].inline = IF ts[i].inline THEN id ELSE @]
          /\ thread' = [thread EXCEPT ![Scheduler].cb =
                           [q |-> <<q, queue[q].gen>>, i |-> i,
                            tgen |-> ts[i].gen, id |-> id],
                         ![Scheduler].pc =
                           IF ts[i].inline THEN "callback" ELSE "post"]

ReadClock ==
    /\ thread[Scheduler].pc = "read"
    /\ plan' = [plan EXCEPT !.clock = now]
    /\ thread' = [thread EXCEPT ![Scheduler].pc = "scan"]
    /\ UNCHANGED <<now, queue, handle, event, wake, posted, used>>

Scan ==
    /\ thread[Scheduler].pc = "scan"
    /\ \/ /\ Busy(plan.clock) = {}
          /\ \E d \in LeastOf({Forever} \cup UNION {DispatchTimes(q) : q \in Queues}) :
               plan' = [plan EXCEPT !.timeout = d - plan.clock]
          /\ thread' = [thread EXCEPT ![Scheduler].pc = "rest"]
          /\ UNCHANGED queue
       \/ \E q \in Busy(plan.clock) :
            /\ \A p \in Busy(plan.clock) : q <= p
            /\ plan' = Awake
            /\ IF Exiting(q)
                 THEN /\ queue' = [queue EXCEPT ![q].phase = "Exited",
                                                ![q].ev = NoEvent]
                      /\ thread' = [thread EXCEPT ![Scheduler].pc = "exit",
                            ![Scheduler].q = <<q, queue[q].gen>>,
                            ![Scheduler].sig = queue[q].ev]
                 ELSE ExpireOne(q, plan.clock)
    /\ UNCHANGED <<now, handle, event, wake, posted, used>>

(* The timeout is relative: it runs from when the wait begins.             *)
FallAsleep ==
    /\ thread[Scheduler].pc = "rest"
    /\ plan' = [plan EXCEPT !.start = now]
    /\ thread' = [thread EXCEPT ![Scheduler].pc = "sleep"]
    /\ UNCHANGED <<now, queue, handle, event, wake, posted, used>>

(* complete_timer_queue_exit *)
CompleteQueueExit ==
    /\ thread[Scheduler].pc = "exit"
    /\ queue' = [queue EXCEPT ![thread[Scheduler].q[1]].state = "Free"]
    /\ event' = Signalled(event, thread[Scheduler].sig)
    /\ thread' = [thread EXCEPT ![Scheduler] = [Resting EXCEPT !.pc = "read"]]
    /\ UNCHANGED <<now, handle, wake, posted, plan, used>>

(* Wait for the wake event, an auto-reset event, with the timeout.  At the *)
(* bound of the clock every finite timeout has passed.                     *)
Elapsed == IF now < MaxNow THEN plan.start + plan.timeout <= now
           ELSE plan.clock + plan.timeout < Forever

WakeUp ==
    /\ thread[Scheduler].pc = "sleep"
    /\ wake \/ Elapsed
    /\ wake' = FALSE
    /\ plan' = Awake
    /\ thread' = [thread EXCEPT ![Scheduler].pc = "read"]
    /\ UNCHANGED <<now, queue, handle, event, posted, used>>

Drained(us, q) ==
    queue[q].phase = "Deleting" /\ \A i \in Timers : us[i].phase = "Free"

HandleOf(k) ==
    {h \in Handles : /\ handle[h].state # "Free"
                     /\ handle[h].q = k.q
                     /\ handle[h].i = k.i
                     /\ handle[h].tgen = k.tgen}

Reclaims(slot, k) == slot.phase = "Destroying" /\ slot.active = {k.id}

CallbackFinished(t) ==
    LET k == thread[t].cb
        q == k.q[1]
        slot == queue[q].timer[k.i]
        full == Cardinality(slot.active) = Capacity
        ours == queue[q].inline = k.id
        last == Reclaims(slot, k)
        us == [queue[q].timer EXCEPT
                 ![k.i].active = @ \ {k.id},
                 ![k.i].phase = IF last THEN "Free" ELSE @,
                 ![k.i].ev = IF last THEN NoEvent ELSE @]
        drained == Drained(us, q)
    IN  /\ queue' = [queue EXCEPT ![q] =
             [queue[q] EXCEPT
                !.timer = us,
                !.inline = IF ours THEN 0 ELSE queue[q].inline,
                !.phase = IF drained THEN "AwaitingWorkerExit" ELSE queue[q].phase]]
        /\ handle' = [h \in Handles |->
             IF last /\ h \in HandleOf(k) THEN [handle[h] EXCEPT !.state = "Free"]
                                          ELSE handle[h]]
        /\ thread' = [thread EXCEPT ![t] =
             [Resting EXCEPT !.pc = "report",
                             !.sig = IF last THEN slot.ev ELSE NoEvent,
                             !.wake = full \/ ours \/ drained]]

(* apply_timer_completion *)
MutReport(t) ==
    /\ thread[t].pc = "report"
    /\ wake' = (wake \/ thread[t].wake)
    /\ thread' = [thread EXCEPT ![t] =
         IF t = Scheduler THEN [Resting EXCEPT !.pc = "read"] ELSE Resting]
    /\ UNCHANGED <<now, queue, handle, event, posted, plan, used>>

Report(t) ==
    /\ thread[t].pc = "report"
    /\ event' = Signalled(event, thread[t].sig)
    /\ wake' = (wake \/ thread[t].wake)
    /\ thread' = [thread EXCEPT ![t] =
         IF t = Scheduler THEN [Resting EXCEPT !.pc = "read"] ELSE Resting]
    /\ UNCHANGED <<now, queue, handle, posted, plan, used>>

(* execute_timer_dispatch: a work item, or the callback right here.        *)
Post(ok) ==
    /\ thread[Scheduler].pc = "post"
    /\ IF ok
         THEN /\ posted' = posted \cup {thread[Scheduler].cb}
              /\ thread' = [thread EXCEPT ![Scheduler] =
                              [Resting EXCEPT !.pc = "read"]]
              /\ UNCHANGED <<queue, handle, used>>
         ELSE /\ MayFail
              /\ SpendFault
              /\ CallbackFinished(Scheduler)
              /\ UNCHANGED posted
    /\ UNCHANGED <<now, event, wake, plan>>

StartCallback(w) ==
    /\ thread[w].pc = "idle"
    /\ \E k \in posted :
         /\ posted' = posted \ {k}
         /\ thread' = [thread EXCEPT ![w].pc = "callback", ![w].cb = k]
    /\ UNCHANGED <<now, queue, handle, event, wake, plan, used>>

FinishCallback(t) ==
    /\ thread[t].pc = "callback"
    /\ CallbackFinished(t)
    /\ UNCHANGED <<now, event, wake, posted, plan, used>>

Tick ==
    /\ now < MaxNow
    /\ now' = now + 1
    /\ UNCHANGED <<queue, handle, event, wake, posted, thread, plan, used>>

Modes(t) == IF OnWorker(t) THEN CallbackModes ELSE CallerModes
ModeEvent(mode) == IF mode = "event" THEN UserEvent ELSE NoEvent

Operation(t) ==
    \/ CreateQueue(t)
    \/ \E q \in Queues, d \in Dues, p \in Periods, inline \in BOOLEAN :
         CreateTimer(t, q, d, p, inline)
    \/ \E h \in Handles, d \in Dues, p \in Periods : UpdateTimer(t, h, d, p)
    \/ \E mode \in Modes(t) \ {"sync"} :
         \/ \E h \in Handles : DeleteTimerAsync(t, h, ModeEvent(mode))
         \/ \E q \in Queues : DeleteQueueAsync(t, q, ModeEvent(mode))
    \/ /\ "sync" \in Modes(t)
       /\ \/ \E h \in Handles : DeleteTimerSync(t, h)
          \/ \E q \in Queues : DeleteQueueSync(t, q)

Proceed(t) ==
    \/ \E ok \in BOOLEAN : CreateEvent(t, ok)
    \/ FinishSyncDelete(t) \/ Apply(t) \/ WaitForCompletion(t) \/ Report(t)

SchedulerStep ==
    \/ ReadClock \/ Scan \/ FallAsleep \/ CompleteQueueExit \/ WakeUp
    \/ \E ok \in BOOLEAN : Post(ok)

Next ==
    \/ \E t \in Threads : Operation(t) \/ Proceed(t) \/ FinishCallback(t)
    \/ \E w \in Workers : StartCallback(w)
    \/ SchedulerStep
    \/ Tick

Spec == Init /\ [][Next]_vars

(* Threads are scheduled, callbacks return and time passes.                *)
FairSpec ==
    /\ Spec
    /\ \A t \in Threads : WF_vars(Proceed(t)) /\ WF_vars(FinishCallback(t))
    /\ \A w \in Workers : WF_vars(StartCallback(w))
    /\ WF_vars(SchedulerStep)
    /\ WF_vars(Tick)

(***************************************************************************)
(* Properties.                                                             *)
(***************************************************************************)
Tickets == (posted \cup {thread[t].cb : t \in Threads}) \ {NoTicket}

TimerType == [gen : Nat, phase : {"Free", "Armed", "Dormant", "Destroying"},
              deadline : Nat, seq : 0..NumTimers, period : Nat,
              inline : BOOLEAN, active : SUBSET (1..(NumTimers * Capacity)),
              ev : Events \cup {NoEvent, UserEvent}]

(* Every table, event and thread is of its declared shape; no timer has    *)
(* more callbacks than its array of active callbacks holds.                *)
TypeOK ==
    /\ now \in 0..MaxNow
    /\ \A q \in Queues :
         /\ queue[q].state \in {"Free", "Live", "Retired"}
         /\ queue[q].phase \in {"Running", "Deleting", "AwaitingWorkerExit", "Exited"}
         /\ queue[q].inline \in 0..(NumTimers * Capacity)
         /\ queue[q].ev \in Events \cup {NoEvent, UserEvent}
         /\ \A i \in Timers : /\ queue[q].timer[i] \in TimerType
                               /\ Cardinality(queue[q].timer[i].active) <= Capacity
    /\ \A h \in Handles : handle[h].state \in {"Free", "Live", "Retired"}
    /\ \A e \in Events : event[e] \in {"closed", "clear", "set"}
    /\ wake \in BOOLEAN
    /\ \A t \in Threads :
         thread[t].pc \in {"idle", "callback", "event", "delete", "apply", "wait",
                           "report", "read", "scan", "rest", "sleep", "post", "exit"}

(* A callback that is queued or running is counted by the timer that fired *)
(* it, in a queue that still exists, and every callback counted is queued  *)
(* or running: finish_timer_callback never meets a stale ticket, so no     *)
(* completion is lost.                                                     *)
TicketsAreCounted ==
    /\ \A k \in Tickets :
         /\ QueueKnown(k.q)
         /\ Known(TimersOf(k.q), k.i, k.tgen)
         /\ k.id \in TimersOf(k.q)[k.i].active
    /\ \A q \in Queues :
         Cardinality(InFlight(queue[q].timer)) =
            Cardinality({k \in Tickets : k.q[1] = q})

(* The scheduler is asleep and nobody has woken it or is about to.         *)
SoundAsleep ==
    /\ thread[Scheduler].pc = "sleep"
    /\ ~wake
    /\ \A t \in Threads : thread[t].pc \in {"apply", "report"} => ~thread[t].wake

HeadDispatchable(q) ==
    LET ts == queue[q].timer IN FirstOf(ts, Armed(ts)) \cap Dispatchable(ts) # {}

(* While the scheduler sleeps its timeout covers the first timer of every  *)
(* queue, if that timer can be fired, however timers were added, updated   *)
(* and deleted since it computed the timeout; and no deleted queue waits   *)
(* for it to be retired.                                                   *)
NoHeadOverslept ==
    SoundAsleep => \A q \in Queues :
        /\ ~Exiting(q)
        /\ HeadDispatchable(q) =>
             \A d \in DispatchTimes(q) : plan.clock + plan.timeout <= d

(* A thread that waits for a deletion is let go: the last callback of the  *)
(* timer, or the scheduler that retires the queue, sets its event.         *)
DeletionsReturn == \A t \in Callers : thread[t].pc = "wait" ~> thread[t].pc = "idle"
=============================================================================
