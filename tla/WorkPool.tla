------------------------------ MODULE WorkPool ------------------------------
(***************************************************************************)
(* The work-item pool of one process (nt-rtl-work-item driven by ntdll's   *)
(* on_target.rs): RtlQueueWorkItem, RtlSetIoCompletionCallback, the        *)
(* bounded fleet of completion workers and the completion port between     *)
(* them.                                                                   *)
(*                                                                         *)
(* Every thread interleaves freely: the callers, and the workers, whose    *)
(* callbacks may call the pool again.  Counters and fleet are read and     *)
(* written under one spin lock, so each locked section is one step; the    *)
(* system calls between the sections are steps of their own.  A worker is  *)
(* the pair of its fleet slot and the generation the slot was given to it. *)
(***************************************************************************)
EXTENDS Integers, Sequences, FiniteSets

CONSTANTS
    Callers,          \* threads of the process that are not pool workers
    NumSlots,         \* MAX_COMPLETION_WORKERS
    Kinds,            \* work items: [lane, long, persistent, token]
    CounterMax,       \* the largest value of a request counter (u32::MAX)
    MaxExitTries,     \* tries of finish_completion_worker_unexpected_exit (64)
    MaxCalls,         \* bound: calls into the pool
    MaxIo,            \* bound: completions of files bound to the port
    MaxFaults,        \* bound: starts, queue calls and creations that fail
    MaxErrors         \* bound: removals from the port that fail

Slots == 1..NumSlots
Ids == Slots \X (1..MaxCalls)
Threads == Callers \cup Ids
Lanes == {"normal", "io"}
NoId == <<0, 0>>
NoKind == [lane |-> "none", long |-> FALSE, persistent |-> FALSE, token |-> FALSE]
NoPacket == [id |-> 0, kind |-> NoKind]
IoPacket == [id |-> -1, kind |-> NoKind]   \* a bound file's completion
Packets == [id : 1..MaxCalls, kind : Kinds]

ASSUME BoundsAssumption ==
    NumSlots \in Nat /\ MaxCalls \in Nat /\ CounterMax \in Nat

(* What the flags of RtlQueueWorkItem tell apart.                          *)
ASSUME KindsAssumption ==
    Kinds \subseteq [lane : Lanes, long : BOOLEAN, persistent : BOOLEAN, token : BOOLEAN]

VARIABLES
    pool,      \* WORK_POOL_INIT_STATE
    port,      \* packets queued on WORK_POOL_PORT
    slot,      \* WORK_POOL_FLEET.completion
    floor,     \* WORK_POOL_FLEET.persistent_floor
    requests,  \* WORK_POOL_COUNTERS: requests of a lane
    longs,     \* WORK_POOL_COUNTERS: long requests of a lane
    tid,       \* RTL_COMPLETION_WORKER_TIDS
    heap,      \* packets allocated on the process heap
    tokens,    \* packets whose captured token is open
    thr,       \* the worker threads
    call,      \* the call into the pool each thread is making
    bound,     \* a file's completions go to the port
    used       \* how much of each bound is spent

vars == <<pool, port, slot, floor, requests, longs, tid, heap, tokens, thr,
          call, bound, used>>

fleet == <<slot, floor>>
counters == <<requests, longs>>
memory == <<heap, tokens>>

Idle == [pc |-> "idle", op |-> "none", pkt |-> NoPacket, id |-> NoId,
         ok |-> TRUE]
NoThread == [pc |-> "none", pkt |-> NoPacket, imp |-> FALSE, tries |-> 0]

Init ==
    /\ pool = "uninitialized"
    /\ port = <<>>
    /\ slot = [s \in Slots |-> [state |-> "Free", gen |-> 0]]
    /\ floor = FALSE
    /\ requests = [l \in Lanes |-> 0]
    /\ longs = [l \in Lanes |-> 0]
    /\ tid = [s \in Slots |-> NoId]
    /\ heap = {}
    /\ tokens = {}
    /\ thr = [i \in Ids |-> NoThread]
    /\ call = [t \in Threads |-> Idle]
    /\ bound = FALSE
    /\ used = [calls |-> 0, items |-> 0, io |-> 0, faults |-> 0, errors |-> 0]

Spend(what) == used' = [used EXCEPT ![what] = @ + 1]
MayFail == used.faults < MaxFaults

In(state) == {s \in Slots : slot[s].state = state}
TotalRequests == requests["normal"] + requests["io"]
TotalLong == longs["normal"] + longs["io"]
Provisioned == Cardinality(In("Running")) + Cardinality(In("Starting"))

At(t, pc) == call[t].pc = pc
Goto(t, pc) == call' = [call EXCEPT ![t].pc = pc]
ReturnCall(t) == call' = [call EXCEPT ![t] = Idle]

(***************************************************************************)
(* Calls.  A worker calls the pool only from a callback.                   *)
(***************************************************************************)
MayCall(t) == t \in Ids => thr[t].pc = "callback"

Begin(t, op) ==
    /\ At(t, "idle")
    /\ MayCall(t)
    /\ used.calls < MaxCalls
    /\ Spend("calls")
    /\ call' = [call EXCEPT ![t].pc = "init", ![t].op = op]
    /\ UNCHANGED <<pool, port, fleet, counters, tid, memory, thr, bound>>

AfterInit(t) ==
    Goto(t, IF call[t].op = "item" THEN "reserve" ELSE "ensure")

(* initialize_work_pool: one thread creates the port and the wake event,   *)
(* the others wait for it.                                                 *)
PoolReady(t) ==
    /\ At(t, "init")
    /\ pool = "ready"
    /\ AfterInit(t)
    /\ UNCHANGED <<pool, port, fleet, counters, tid, memory, thr, bound, used>>

ClaimInit(t) ==
    /\ At(t, "init")
    /\ pool = "uninitialized"
    /\ pool' = "initializing"
    /\ Goto(t, "initializing")
    /\ UNCHANGED <<port, fleet, counters, tid, memory, thr, bound, used>>

FinishInit(t, ok) ==
    /\ At(t, "initializing")
    /\ IF ok
         THEN pool' = "ready" /\ AfterInit(t) /\ UNCHANGED used
         ELSE /\ MayFail
              /\ Spend("faults")
              /\ pool' = "uninitialized"
              /\ ReturnCall(t)
    /\ UNCHANGED <<port, fleet, counters, tid, memory, thr, bound>>

Fits(k) ==
    /\ requests[k.lane] < CounterMax
    /\ k.long => longs[k.lane] < CounterMax

Reserve(t, k) ==
    /\ At(t, "reserve")
    /\ Fits(k)
    /\ LET p == [id |-> used.items + 1, kind |-> k]
       IN  /\ heap' = heap \cup {p}
           /\ tokens' = IF k.token THEN tokens \cup {p} ELSE tokens
           /\ call' = [call EXCEPT ![t].pc = "ensure", ![t].pkt = p]
    /\ requests' = [requests EXCEPT ![k.lane] = @ + 1]
    /\ longs' = IF k.long THEN [longs EXCEPT ![k.lane] = @ + 1] ELSE longs
    /\ Spend("items")
    /\ UNCHANGED <<pool, port, fleet, tid, thr, bound>>

(* No memory, no token, or no room in a counter: what was taken is given   *)
(* back and the call fails.                                                *)
ReserveFails(t) ==
    /\ At(t, "reserve")
    /\ MayFail \/ \E k \in Kinds : ~Fits(k)
    /\ used' = IF MayFail THEN [used EXCEPT !.faults = @ + 1] ELSE used
    /\ ReturnCall(t)
    /\ UNCHANGED <<pool, port, fleet, counters, tid, memory, thr, bound>>

(***************************************************************************)
(* start_completion_worker_for: WorkerFleet::ensure_completion decides,    *)
(* the caller starts the thread it reserved a slot for.                    *)
(***************************************************************************)
GrowthReason ==
    \/ TotalRequests > TotalLong /\ TotalLong >= Provisioned
    \/ TotalRequests > Provisioned

EnsureReady ==
    /\ In("Running") # {}
    /\ GrowthReason => In("Free") = {}

EnsureStart ==
    /\ In("Free") # {}
    /\ IF In("Running") = {}
         THEN In("Starting") \cup In("Stopping") = {}
         ELSE GrowthReason

WorkerReady(t) ==
    /\ At(t, "ensure")
    /\ EnsureReady
    /\ Goto(t, "submit")
    /\ UNCHANGED <<pool, port, fleet, counters, tid, memory, thr, bound, used>>

ReserveWorker(t) ==
    /\ At(t, "ensure")
    /\ EnsureStart
    /\ \E s \in In("Free") :
         /\ \A f \in In("Free") : s <= f
         /\ slot' = [slot EXCEPT ![s] = [state |-> "Starting", gen |-> @.gen + 1]]
         /\ call' = [call EXCEPT ![t].pc = "start",
                                 ![t].id = <<s, slot[s].gen + 1>>]
    /\ UNCHANGED <<pool, port, floor, counters, tid, memory, thr, bound, used>>

(* drive_pool_worker_start: create suspended, resume, wait for the latch.  *)
CreateThread(t, ok) ==
    /\ At(t, "start")
    /\ IF ok
         THEN /\ thr' = [thr EXCEPT ![call[t].id].pc = "suspended"]
              /\ Goto(t, "resume")
              /\ UNCHANGED used
         ELSE /\ MayFail
              /\ Spend("faults")
              /\ call' = [call EXCEPT ![t].pc = "started", ![t].ok = FALSE]
              /\ UNCHANGED thr
    /\ UNCHANGED <<pool, port, fleet, counters, tid, memory, bound>>

MutResumeThread(t, ok) ==
    /\ At(t, "resume")
    /\ ok
    /\ thr' = [thr EXCEPT ![call[t].id].pc = "entered"]
    /\ call' = [call EXCEPT ![t].pc = "started", ![t].ok = TRUE]
    /\ UNCHANGED <<pool, port, fleet, counters, tid, memory, bound, used>>

ResumeThread(t, ok) ==
    /\ At(t, "resume")
    /\ IF ok
         THEN /\ thr' = [thr EXCEPT ![call[t].id].pc = "entered"]
              /\ Goto(t, "latch")
              /\ UNCHANGED used
         ELSE /\ MayFail
              /\ Spend("faults")
              /\ call' = [call EXCEPT ![t].pc = "started", ![t].ok = FALSE]
              /\ UNCHANGED thr
    /\ UNCHANGED <<pool, port, fleet, counters, tid, memory, bound>>

SeeLatch(t) ==
    /\ At(t, "latch")
    /\ thr[call[t].id].pc \notin {"entered", "named"}
    /\ call' = [call EXCEPT ![t].pc = "started", ![t].ok = TRUE]
    /\ UNCHANGED <<pool, port, fleet, counters, tid, memory, thr, bound, used>>

(* WorkerFleet::finish_start, and what the caller makes of its result.     *)
FinishStart(t) ==
    /\ At(t, "started")
    /\ LET s == call[t].id[1]
           usable == In("Running") # {}
       IN  /\ slot' = [slot EXCEPT ![s].state =
                           IF call[t].ok THEN "Running" ELSE "Free"]
           /\ IF call[t].ok \/ usable
                THEN call' = [call EXCEPT ![t].pc = "submit", ![t].id = NoId,
                                          ![t].ok = TRUE]
                ELSE IF call[t].op = "item"
                  THEN call' = [call EXCEPT ![t].pc = "cleanup", ![t].id = NoId,
                                            ![t].ok = TRUE]
                  ELSE ReturnCall(t)
    /\ UNCHANGED <<pool, port, floor, counters, tid, memory, thr, bound, used>>

(***************************************************************************)
(* The end of a call: the packet goes to the port, or everything the call  *)
(* took is given back.                                                     *)
(***************************************************************************)
BindFile(t) ==
    /\ At(t, "submit")
    /\ call[t].op = "bind"
    /\ bound' = TRUE
    /\ ReturnCall(t)
    /\ UNCHANGED <<pool, port, fleet, counters, tid, memory, thr, used>>

SetIoCompletion(t, ok) ==
    /\ At(t, "submit")
    /\ call[t].op = "item"
    /\ IF ok
         THEN /\ port' = Append(port, call[t].pkt)
              /\ call' = [call EXCEPT ![t].pc = "commit"]
              /\ UNCHANGED used
         ELSE /\ MayFail
              /\ Spend("faults")
              /\ Goto(t, "cleanup")
              /\ UNCHANGED port
    /\ UNCHANGED <<pool, fleet, counters, tid, memory, thr, bound>>

CommitFloor(t) ==
    /\ At(t, "commit")
    /\ floor' = (floor \/ call[t].pkt.kind.persistent)
    /\ ReturnCall(t)
    /\ UNCHANGED <<pool, port, slot, counters, tid, memory, thr, bound, used>>

Consume(k) ==
    /\ requests' = [requests EXCEPT ![k.lane] = @ - 1]
    /\ longs' = IF k.long THEN [longs EXCEPT ![k.lane] = @ - 1] ELSE longs

MutCleanup(t) ==
    /\ At(t, "cleanup")
    /\ UNCHANGED counters
    /\ tokens' = tokens \ {call[t].pkt}
    /\ heap' = heap \ {call[t].pkt}
    /\ ReturnCall(t)
    /\ UNCHANGED <<pool, port, fleet, tid, thr, bound, used>>

(* cleanup_failed_submission *)
Cleanup(t) ==
    /\ At(t, "cleanup")
    /\ Consume(call[t].pkt.kind)
    /\ tokens' = tokens \ {call[t].pkt}
    /\ heap' = heap \ {call[t].pkt}
    /\ ReturnCall(t)
    /\ UNCHANGED <<pool, port, fleet, tid, thr, bound, used>>

(* A file bound to the port completes an operation (external).             *)
IoCompletes ==
    /\ bound
    /\ used.io < MaxIo
    /\ port' = Append(port, IoPacket)
    /\ Spend("io")
    /\ UNCHANGED <<pool, fleet, counters, tid, memory, thr, call, bound>>

(***************************************************************************)
(* The worker: rtlp_completion_worker_thread.                              *)
(***************************************************************************)
Runs(i, pc) == thr[i].pc = pc
GoOn(i, pc) == thr' = [thr EXCEPT ![i].pc = pc]

StoreTid(i) ==
    /\ Runs(i, "entered")
    /\ tid' = [tid EXCEPT ![i[1]] = i]
    /\ GoOn(i, "named")
    /\ UNCHANGED <<pool, port, fleet, counters, memory, call, bound, used>>

Acknowledge(i) ==
    /\ Runs(i, "named")
    /\ GoOn(i, "loop")
    /\ UNCHANGED <<pool, port, fleet, counters, tid, memory, call, bound, used>>

Remove(i) ==
    /\ Runs(i, "loop")
    /\ port # <<>>
    /\ port' = Tail(port)
    /\ thr' = [thr EXCEPT ![i].pc = "dequeued", ![i].pkt = Head(port)]
    /\ UNCHANGED <<pool, fleet, counters, tid, memory, call, bound, used>>

TimesOut(i) ==
    /\ Runs(i, "loop")
    /\ port = <<>>
    /\ GoOn(i, "idle")
    /\ UNCHANGED <<pool, port, fleet, counters, tid, memory, call, bound, used>>

RemoveFails(i) ==
    /\ Runs(i, "loop")
    /\ used.errors < MaxErrors
    /\ Spend("errors")
    /\ GoOn(i, "failed")
    /\ UNCHANGED <<pool, port, fleet, counters, tid, memory, call, bound>>

(* WorkerFleet::request_stop *)
MutMayStop(i) ==
    /\ slot[i[1]].state = "Running"
    /\ Provisioned > 1

MayStop(i) ==
    /\ slot[i[1]].state = "Running"
    /\ TotalRequests = 0
    /\ Provisioned > 1

RequestStop(i) ==
    /\ Runs(i, "idle")
    /\ IF MayStop(i)
         THEN /\ slot' = [slot EXCEPT ![i[1]].state = "Stopping"]
              /\ GoOn(i, "stopping")
         ELSE GoOn(i, "loop") /\ UNCHANGED slot
    /\ UNCHANGED <<pool, port, floor, counters, tid, memory, call, bound, used>>

(* finish_completion_worker_stop: the thread id goes before the slot does. *)
ClearTid(i) ==
    /\ Runs(i, "stopping")
    /\ tid' = [tid EXCEPT ![i[1]] = NoId]
    /\ GoOn(i, "cleared")
    /\ UNCHANGED <<pool, port, fleet, counters, memory, call, bound, used>>

FinishStop(i) ==
    /\ Runs(i, "cleared")
    /\ slot' = [slot EXCEPT ![i[1]].state = "Free"]
    /\ thr' = [thr EXCEPT ![i] = NoThread]
    /\ UNCHANGED <<pool, port, floor, counters, tid, memory, call, bound, used>>

(* finish_completion_worker_unexpected_exit: while the creator has not     *)
(* finished the start the slot cannot be released, and the worker gives up *)
(* after a number of tries.                                                *)
FailedClearTid(i) ==
    /\ Runs(i, "failed")
    /\ tid' = [tid EXCEPT ![i[1]] = NoId]
    /\ GoOn(i, "exiting")
    /\ UNCHANGED <<pool, port, fleet, counters, memory, call, bound, used>>

UnexpectedExit(i) ==
    /\ Runs(i, "exiting")
    /\ LET given == slot[i[1]].gen = i[2]
           held == slot[i[1]].state \in {"Running", "Stopping"}
           tries == thr[i].tries + 1
       IN  IF given /\ ~held /\ tries < MaxExitTries
             THEN thr' = [thr EXCEPT ![i].tries = tries] /\ UNCHANGED slot
             ELSE /\ thr' = [thr EXCEPT ![i] = NoThread]
                  /\ slot' = IF given /\ held
                               THEN [slot EXCEPT ![i[1]].state = "Free"]
                               ELSE slot
    /\ UNCHANGED <<pool, port, floor, counters, tid, memory, call, bound, used>>

(***************************************************************************)
(* rtlp_execute_work_item: the packet is freed and the token closed before *)
(* the callback runs, the request is counted off after it.                 *)
(***************************************************************************)
IsIo(i) == thr[i].pkt = IoPacket

StartCallback(i) ==
    /\ Runs(i, "dequeued")
    /\ heap' = heap \ {thr[i].pkt}
    /\ tokens' = tokens \ {thr[i].pkt}
    /\ \E imp \in IF thr[i].pkt \in tokens THEN BOOLEAN ELSE {FALSE} :
         thr' = [thr EXCEPT ![i].pc = "callback", ![i].imp = imp]
    /\ UNCHANGED <<pool, port, fleet, counters, tid, call, bound, used>>

CallbackReturns(i) ==
    /\ Runs(i, "callback")
    /\ At(i, "idle")
    /\ thr' = [thr EXCEPT ![i].pc = IF IsIo(i) THEN "loop" ELSE "account",
                          ![i].imp = FALSE,
                          ![i].pkt = IF IsIo(i) THEN NoPacket ELSE @]
    /\ UNCHANGED <<pool, port, fleet, counters, tid, memory, call, bound, used>>

CompleteAccounting(i) ==
    /\ Runs(i, "account")
    /\ Consume(thr[i].pkt.kind)
    /\ thr' = [thr EXCEPT ![i].pc = "loop", ![i].pkt = NoPacket]
    /\ UNCHANGED <<pool, port, fleet, tid, memory, call, bound, used>>

CallStep(t) ==
    \/ PoolReady(t) \/ ClaimInit(t)
    \/ \E k \in Kinds : Reserve(t, k)
    \/ ReserveFails(t)
    \/ WorkerReady(t) \/ ReserveWorker(t)
    \/ SeeLatch(t) \/ FinishStart(t)
    \/ BindFile(t) \/ CommitFloor(t) \/ Cleanup(t)
    \/ \E ok \in BOOLEAN :
         FinishInit(t, ok) \/ CreateThread(t, ok) \/ ResumeThread(t, ok)
           \/ SetIoCompletion(t, ok)

WorkerStep(i) ==
    \/ StoreTid(i) \/ Acknowledge(i)
    \/ Remove(i) \/ TimesOut(i) \/ RequestStop(i) \/ ClearTid(i) \/ FinishStop(i)
    \/ StartCallback(i) \/ CallbackReturns(i) \/ CompleteAccounting(i)
    \/ FailedClearTid(i) \/ UnexpectedExit(i)

Next ==
    \/ \E t \in Threads, op \in {"item", "bind"} : Begin(t, op)
    \/ \E t \in Threads : CallStep(t)
    \/ \E i \in Ids : WorkerStep(i) \/ RemoveFails(i)
    \/ IoCompletes

Spec == Init /\ [][Next]_vars

(* Threads of the process are scheduled; a callback returns.  Whether a    *)
(* thread makes another call, or a file completes, is up to the program.   *)
FairSpec ==
    /\ Spec
    /\ \A t \in Threads : WF_vars(CallStep(t))
    /\ \A i \in Ids : WF_vars(WorkerStep(i))

TypeOK ==
    /\ pool \in {"uninitialized", "initializing", "ready"}
    /\ \A n \in 1..Len(port) : port[n] \in Packets \cup {IoPacket}
    /\ \A s \in Slots : /\ slot[s].state \in {"Free", "Starting", "Running", "Stopping"}
                        /\ slot[s].gen \in 0..MaxCalls
                        /\ tid[s] \in Ids \cup {NoId}
    /\ floor \in BOOLEAN /\ bound \in BOOLEAN
    /\ requests \in [Lanes -> 0..CounterMax]
    /\ longs \in [Lanes -> 0..CounterMax]
    /\ heap \subseteq Packets /\ tokens \subseteq Packets
    /\ \A i \in Ids : thr[i].pkt \in Packets \cup {NoPacket, IoPacket}
    /\ \A t \in Threads : /\ call[t].pkt \in Packets \cup {NoPacket}
                          /\ call[t].id \in Ids \cup {NoId}

(* Work items a submitter still owns, on the port, and with a worker.      *)
Submitting ==
    {call[t].pkt : t \in {t \in Threads :
        call[t].op = "item" /\ call[t].pc \in
          {"ensure", "start", "resume", "latch", "started", "submit", "cleanup"}}}
Queued == {port[n] : n \in 1..Len(port)} \ {IoPacket}
Held(pcs) == {thr[i].pkt : i \in {i \in Ids : thr[i].pc \in pcs}}
                \ {NoPacket, IoPacket}
Outstanding == Submitting \cup Queued \cup Held({"dequeued", "callback", "account"})

(* The pool counters are exact: a lane's requests are the work items of    *)
(* that lane that a submitter still holds, that are queued, or whose       *)
(* callback has not been counted off, whichever of its failure paths a     *)
(* call takes.                                                             *)
CountersAreExact ==
    \A l \in Lanes :
      /\ requests[l] = Cardinality({p \in Outstanding : p.kind.lane = l})
      /\ longs[l] = Cardinality({p \in Outstanding : p.kind.lane = l /\ p.kind.long})

(* A worker reads its start parameter, which lives in the frame of the     *)
(* thread that started it, only while that thread waits for the latch.     *)
StartParameterAlive ==
    \A i \in Ids : thr[i].pc \in {"entered", "named"} =>
      \E t \in Threads : At(t, "latch") /\ call[t].id = i

(* Unless a worker's removals fail, every work item that reaches the port  *)
(* is taken from it and executed, however calls, starts and retirements    *)
(* interleave.                                                             *)
AcceptedWorkRuns == Queued # {} ~> Queued = {} \/ used.errors > 0
=============================================================================
