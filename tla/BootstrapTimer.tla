--------------------------- MODULE BootstrapTimer ---------------------------
(***************************************************************************)
(* Timer delivery while the executive boots: the receive loop drive        *)
(* (bootstrap_receive.rs), its scheduler pass service_irq_yield            *)
(* (component_scheduler.rs), the scans and rearm checkpoints of            *)
(* dispatcher_bootstrap.rs and nt-time, and the PIT one-shot whose         *)
(* interrupt reaches whatever receive the executive happens to be in.      *)
(*                                                                         *)
(* The counters of the code are only compared, so each pair is kept as its *)
(* difference: rearm is requested - completed of DeferredRearm, fresh is   *)
(* the pending ticks that DeferredTimerProgress has not observed.          *)
(* The gate is held exactly while pc is in Delivering.                     *)
(***************************************************************************)
EXTENDS Integers

CONSTANTS
    MinArm,        \* DELAY_TIMER_MIN_ARM_100NS
    MaxShot,       \* the longest shot the PIT can represent
    MaxDeadline    \* bound on the deadlines

ASSUME TimerAssumption ==
    /\ MinArm \in Nat \ {0} /\ MaxShot \in Nat /\ MinArm <= MaxShot
    /\ MaxDeadline \in Nat

(* Hosted driver timers and waits are served by the scheduler pass alone,  *)
(* provider waits, timers and retries also by the acknowledgement hook.    *)
Source == {"hosted", "provider"}
Demand == [src : Source, at : Nat]
None == [at |-> -1, from |-> -1]

VARIABLES
    pc,          \* where the loop is
    after,       \* where prepare_receive returns to
    now,         \* the monotonic clock
    demand,      \* the deadlines outstanding
    rearm,       \* rearm requests not completed
    captured,    \* of these, the ones that the open checkpoint will complete
    fresh,       \* ticks not observed by a completed scan
    sampled,     \* of these, the ones counted before the scan under way
    snap,        \* the clock of the scan under way
    pit,         \* the shot in flight: when it ends and when it was programmed
    signalled,   \* the bound notification is pending
    lastTick     \* history: when a tick was last taken

vars == <<pc, after, now, demand, rearm, captured, fresh, sampled, snap, pit, signalled, lastTick>>

Loop == {"pass", "yield", "wake", "scan", "drain", "prepare", "init", "services", "pass2",
         "request", "facts", "blocked", "done", "failed"}
Delivering == {"wake", "scan", "init"}                  \* TIMER_DELIVERY_GATE is held
Exchanging == {"pass", "wake", "scan", "drain", "init", "services", "pass2"}

(* Types; the clock never runs behind a snapshot or a tick taken from it.  *)
TypeOK ==
    /\ pc \in Loop /\ after \in {"services", "facts"}
    /\ now \in Nat /\ snap \in 0 .. now /\ lastTick \in -1 .. now
    /\ demand \in SUBSET Demand
    /\ rearm \in Nat /\ captured \in 0 .. rearm
    /\ fresh \in Nat /\ sampled \in 0 .. fresh
    /\ pit \in [at : Int, from : Int] /\ signalled \in BOOLEAN

Init ==
    /\ pc = "pass" /\ after = "facts"
    /\ now = 0 /\ snap = 0 /\ lastTick = -1
    /\ demand = {}
    /\ rearm = 0 /\ captured = 0
    /\ fresh = 0 /\ sampled = 0
    /\ pit = None /\ signalled = FALSE
-----------------------------------------------------------------------------
(***************************************************************************)
(* The clock, the PIT and the demand.                                      *)
(***************************************************************************)
(* Bound: past the last deadline the clock only runs on for a shot, and    *)
(* not further than the longest one.                                       *)
Clock ==
    /\ now < MaxDeadline \/ (now < pit.at /\ now < MaxDeadline + MaxShot)
    /\ now' = now + 1
    /\ UNCHANGED <<pc, after, demand, rearm, captured, fresh, sampled, snap, pit, signalled, lastTick>>

Fire ==
    /\ pit # None /\ pit.at <= now
    /\ pit' = None /\ signalled' = TRUE
    /\ UNCHANGED <<pc, after, now, demand, rearm, captured, fresh, sampled, snap, lastTick>>

(* Work that runs during an exchange sets a timer or starts a timed wait.  *)
Publish(d) ==
    /\ pc \in Exchanging
    /\ now < d.at /\ d.at <= MaxDeadline
    /\ demand' = demand \cup {d}
    /\ UNCHANGED <<pc, after, now, rearm, captured, fresh, sampled, snap, pit, signalled, lastTick>>

Due(sources, t) == {d \in demand : d.src \in sources /\ d.at <= t}

(* pump_handle_executive_event_badge and delay_timer_nested_ack: the tick  *)
(* is counted, providers are scanned unless a delivery is under way, and   *)
(* the interrupt is acknowledged.                                          *)
TakeTick ==
    /\ signalled
    /\ signalled' = FALSE /\ lastTick' = now
    /\ fresh' = fresh + 1
    /\ demand' = IF pc \in Delivering THEN demand ELSE demand \ Due({"provider"}, now)

NestedTick ==
    /\ pc \in Exchanging
    /\ TakeTick
    /\ UNCHANGED <<pc, after, now, rearm, captured, sampled, snap, pit>>
-----------------------------------------------------------------------------
(***************************************************************************)
(* service_irq_yield.                                                      *)
(***************************************************************************)
(* A scan with the clock of an earlier one.                                *)
MutStaleClock ==
    /\ pc = "yield" /\ pc' = "wake"
    /\ rearm' = rearm + 1
    /\ sampled' = fresh
    /\ UNCHANGED <<after, now, demand, captured, fresh, snap, pit, signalled, lastTick>>

(* request_receive_checkpoint, and the start of service_hosted_timer_work. *)
YieldScan ==
    /\ pc = "yield" /\ pc' = "wake"
    /\ rearm' = rearm + 1
    /\ sampled' = fresh /\ snap' = now
    /\ UNCHANGED <<after, now, demand, captured, fresh, pit, signalled, lastTick>>

WakeHosted ==
    /\ pc = "wake" /\ pc' = "scan"
    /\ demand' = demand \ Due({"hosted"}, snap)
    /\ UNCHANGED <<after, now, rearm, captured, fresh, sampled, snap, pit, signalled, lastTick>>

(* scan_owned_timer_work, and record_scan of the count sampled before.     *)
ScanOwned ==
    /\ pc = "scan" /\ pc' = "drain"
    /\ demand' = demand \ Due({"provider"}, snap)
    /\ fresh' = fresh - sampled /\ sampled' = 0
    /\ UNCHANGED <<after, now, rearm, captured, snap, pit, signalled, lastTick>>

(* The end of the IRQ and DPC drains, and another request.                 *)
DrainEnds ==
    /\ pc = "drain" /\ pc' = "prepare"
    /\ after' = "services"
    /\ rearm' = rearm + 1
    /\ UNCHANGED <<now, demand, captured, fresh, sampled, snap, pit, signalled, lastTick>>
-----------------------------------------------------------------------------
(***************************************************************************)
(* prepare_receive and reconcile_rearm.                                    *)
(***************************************************************************)
(* The pending request is captured; without demand it is complete.         *)
Prepare ==
    /\ pc = "prepare"
    /\ IF demand = {}
         THEN /\ pc' = after /\ rearm' = 0 /\ captured' = 0
         ELSE /\ pc' = "init" /\ captured' = rearm /\ UNCHANGED rearm
    /\ UNCHANGED <<after, now, demand, fresh, sampled, snap, pit, signalled, lastTick>>

Clamp(x, low, high) == IF x < low THEN low ELSE IF x > high THEN high ELSE x

(* pit_oneshot_for_deadline; a longer wait is split into shots.            *)
Shot(deadline) == [at |-> now + Clamp(deadline - now, MinArm, MaxShot), from |-> now]

Complete(n) == rearm' = rearm - n /\ captured' = 0

(* A checkpoint that leaves a shot in flight alone.                        *)
MutKeepShot ==
    /\ pc = "init" /\ pc' = after
    /\ \/ demand = {} /\ UNCHANGED pit
       \/ \E d \in demand :
            /\ \A e \in demand : d.at <= e.at
            /\ pit' = IF pit = None THEN Shot(d.at) ELSE pit
    /\ Complete(captured)
    /\ UNCHANGED <<after, now, demand, fresh, sampled, snap, signalled, lastTick>>

(* Demand is collected again after delay_timer_init, the earliest deadline *)
(* is programmed, and the captured request completed.                      *)
Program ==
    /\ pc = "init" /\ pc' = after
    /\ \/ demand = {} /\ UNCHANGED pit
       \/ \E d \in demand :
            /\ \A e \in demand : d.at <= e.at
            /\ pit' = Shot(d.at)
    /\ Complete(captured)
    /\ UNCHANGED <<after, now, demand, fresh, sampled, snap, signalled, lastTick>>

(* delay_timer_init or the ports refuse: nothing is completed.             *)
HardwareFails ==
    /\ pc = "init" /\ pc' = "failed"
    /\ UNCHANGED <<after, now, demand, rearm, captured, fresh, sampled, snap, pit, signalled, lastTick>>
-----------------------------------------------------------------------------
(***************************************************************************)
(* drive.                                                                  *)
(***************************************************************************)
Goto(from, to) ==
    /\ pc = from /\ pc' = to
    /\ UNCHANGED <<after, now, demand, rearm, captured, fresh, sampled, snap, pit, signalled, lastTick>>

PassEnds == Goto("pass", "yield") \/ Goto("pass2", "request")

(* The target is acknowledged or the pass refuses; drive may run again.    *)
TargetDone == Goto("pass", "done") \/ Goto("pass2", "done")
DriveAgain == Goto("done", "pass")

(* Retained and autonomous services: progress starts the loop over.        *)
ServicesEnd == Goto("services", "pass") \/ Goto("services", "pass2")

RequestCheckpoint ==
    /\ pc = "request" /\ pc' = "prepare"
    /\ after' = "facts"
    /\ rearm' = rearm + 1
    /\ UNCHANGED <<now, demand, captured, fresh, sampled, snap, pit, signalled, lastTick>>

(* needs_service, or permits_receive.                                      *)
CheckFacts ==
    IF rearm # 0 \/ fresh # 0 THEN Goto("facts", "pass") ELSE Goto("facts", "blocked")

ReceiveTick ==
    /\ pc = "blocked" /\ pc' = "pass"
    /\ TakeTick
    /\ UNCHANGED <<after, now, rearm, captured, sampled, snap, pit>>

ReceiveMessage == Goto("blocked", "pass")

Halted == Goto("failed", "failed")

Step ==
    \/ PassEnds \/ ServicesEnd
    \/ YieldScan \/ WakeHosted \/ ScanOwned \/ DrainEnds
    \/ Prepare \/ Program
    \/ RequestCheckpoint \/ CheckFacts \/ ReceiveTick

Next ==
    \/ Step \/ TargetDone \/ DriveAgain \/ HardwareFails \/ Halted \/ ReceiveMessage
    \/ NestedTick \/ Clock \/ Fire
    \/ \E src \in Source, at \in 1 .. MaxDeadline : Publish([src |-> src, at |-> at])

Spec == Init /\ [][Next]_vars

(* The loop runs on, time passes and the PIT fires.  No message need ever  *)
(* arrive and no exchange need be interrupted.                             *)
FairSpec == Spec /\ WF_vars(Step) /\ WF_vars(Clock) /\ WF_vars(Fire)
-----------------------------------------------------------------------------
(* The loop never sleeps on a deadline that nothing will end: the          *)
(* notification is pending or a shot is in flight that ends by the         *)
(* deadline, or after the minimum interval if that had passed already.     *)
NoLostWake ==
    pc = "blocked" =>
        \A d \in demand :
            \/ signalled
            \/ pit # None /\ (pit.at <= d.at \/ pit.at <= pit.from + MinArm)

(* A tick that lands in the middle of a scan is not taken for one that the *)
(* scan saw: whatever was due when the last tick came has been served      *)
(* before the loop sleeps.                                                 *)
TickServesDue ==
    pc = "blocked" => \A d \in demand : lastTick < d.at

(* Every deadline is served in the end, unless the target ends the loop    *)
(* or the timer hardware fails.                                            *)
EveryDeadlineServed ==
    \A src \in Source, at \in 1 .. MaxDeadline :
        [src |-> src, at |-> at] \in demand
          ~> ([src |-> src, at |-> at] \notin demand \/ pc \in {"done", "failed"})
=============================================================================
