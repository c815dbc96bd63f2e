------------------------ MODULE BootstrapTimerProofs ------------------------
(***************************************************************************)
(* Proofs that the bootstrap receive loop never sleeps on a deadline that  *)
(* nothing will end, and that it serves before sleeping whatever was due   *)
(* at the last tick, for every PIT range and every set of deadlines.       *)
(***************************************************************************)
EXTENDS BootstrapTimer, TLAPS

Ends(d) == pit # None /\ (pit.at <= d.at \/ pit.at <= pit.from + MinArm)

(* From the checkpoint on, every deadline has its wake.                    *)
CoveredInv == pc \in {"facts", "blocked"} => \A d \in demand : signalled \/ Ends(d)

(* Within a scan: without a tick since its sample, no tick is younger than *)
(* its snapshot, and hosted deadlines up to the snapshot are gone.         *)
ScanInv ==
    /\ pc \in {"wake", "scan"} => (fresh = sampled => lastTick <= snap)
    /\ pc = "scan" => \A d \in demand : d.src = "hosted" => snap < d.at

(* Outside a scan: without an unobserved tick nothing is overdue since the *)
(* last one.                                                               *)
TickInv ==
    pc \notin {"wake", "scan"} =>
        sampled = 0 /\ (fresh = 0 => \A d \in demand : lastTick < d.at)

(* The loop only sleeps after observing every tick.                        *)
SleepInv == pc = "blocked" => fresh = 0

IInv == TypeOK /\ CoveredInv /\ ScanInv /\ TickInv /\ SleepInv

LEMMA InitIInv == Init => IInv
<1> SUFFICES ASSUME Init PROVE IInv
  OBVIOUS
<1>1. None \in [at : Int, from : Int]
  BY DEF None
<1>2. TypeOK
  <2>1. signalled \in BOOLEAN
    BY DEF Init
  <2> QED BY <1>1, <2>1, SMT DEF Init, TypeOK, Loop
<1>3. CoveredInv /\ ScanInv /\ TickInv /\ SleepInv
  BY DEF Init, CoveredInv, ScanInv, TickInv, SleepInv
<1> QED BY <1>2, <1>3 DEF IInv

LEMMA ShotType ==
    ASSUME TypeOK, NEW t \in Nat
    PROVE  /\ Shot(t) \in [at : Int, from : Int]
           /\ Shot(t) # None
           /\ Shot(t).at <= t \/ Shot(t).at <= Shot(t).from + MinArm
BY TimerAssumption DEF Shot, Clamp, None, TypeOK

LEMMA ClockStep == IInv /\ Clock => IInv'
BY DEF Clock, IInv, TypeOK, CoveredInv, ScanInv, TickInv, SleepInv, Ends

LEMMA FireStep == IInv /\ Fire => IInv'
BY DEF Fire, IInv, TypeOK, CoveredInv, ScanInv, TickInv, SleepInv, Ends, None

LEMMA PublishStep ==
    ASSUME IInv, NEW src \in Source, NEW at \in 1 .. MaxDeadline,
           Publish([src |-> src, at |-> at])
    PROVE  IInv'
BY TimerAssumption
   DEF Publish, Exchanging, IInv, TypeOK, CoveredInv, ScanInv, TickInv, SleepInv, Ends, Demand

(* A tick is fresh, and only removes demand.                               *)
LEMMA TickFacts ==
    ASSUME TypeOK, TakeTick
    PROVE  /\ demand' \subseteq demand
           /\ fresh' = fresh + 1 /\ lastTick' = now /\ signalled' = FALSE
BY DEF TypeOK, TakeTick, Due

LEMMA NestedTickStep == IInv /\ NestedTick => IInv'
<1> SUFFICES ASSUME IInv, NestedTick PROVE IInv'
  OBVIOUS
<1>1. /\ demand' \subseteq demand
      /\ fresh' = fresh + 1 /\ lastTick' = now /\ signalled' = FALSE
  BY TickFacts DEF NestedTick, IInv
<1>2. TypeOK'
  <2>1. signalled' \in BOOLEAN
    BY <1>1
  <2> QED BY <1>1, <2>1 DEF NestedTick, IInv, TypeOK
<1>3. CoveredInv' /\ ScanInv' /\ TickInv' /\ SleepInv'
  BY <1>1 DEF NestedTick, Exchanging, IInv, TypeOK, CoveredInv, ScanInv, TickInv, SleepInv
<1> QED BY <1>2, <1>3 DEF IInv

LEMMA YieldStep == IInv /\ (YieldScan \/ WakeHosted \/ DrainEnds) => IInv'
<1> SUFFICES ASSUME IInv, YieldScan \/ WakeHosted \/ DrainEnds PROVE IInv'
  OBVIOUS
<1>1. CASE YieldScan
  BY <1>1 DEF YieldScan, IInv, TypeOK, Loop, CoveredInv, ScanInv, TickInv, SleepInv, Ends
<1>2. CASE WakeHosted
  BY <1>2 DEF WakeHosted, Due, IInv, TypeOK, Loop, Demand, CoveredInv, ScanInv, TickInv, SleepInv, Ends
<1>3. CASE DrainEnds
  BY <1>3 DEF DrainEnds, IInv, TypeOK, Loop, CoveredInv, ScanInv, TickInv, SleepInv, Ends
<1> QED BY <1>1, <1>2, <1>3

LEMMA ScanStep == IInv /\ ScanOwned => IInv'
<1> SUFFICES ASSUME IInv, ScanOwned PROVE IInv'
  OBVIOUS
<1>1. TypeOK' /\ CoveredInv' /\ ScanInv' /\ SleepInv'
  BY DEF ScanOwned, Due, IInv, TypeOK, Loop, CoveredInv, ScanInv, SleepInv
<1>2. \A d \in demand' : snap < d.at
  <2> SUFFICES ASSUME NEW d \in demand' PROVE snap < d.at
    OBVIOUS
  <2>1. d \in demand /\ d.src \in Source /\ d.at \in Nat
    BY DEF ScanOwned, Due, IInv, TypeOK, Demand
  <2>2. CASE d.src = "hosted"
    BY <2>1, <2>2 DEF ScanOwned, IInv, ScanInv
  <2>3. CASE d.src = "provider"
    BY <2>1, <2>3 DEF ScanOwned, Due, IInv, TypeOK
  <2> QED BY <2>1, <2>2, <2>3 DEF Source
<1>3. fresh' = 0 => lastTick <= snap
  BY DEF ScanOwned, IInv, TypeOK, ScanInv
<1>4. TickInv'
  BY <1>2, <1>3 DEF ScanOwned, IInv, TypeOK, Demand, TickInv
<1> QED BY <1>1, <1>4 DEF IInv

LEMMA PrepareStep == IInv /\ Prepare => IInv'
BY DEF Prepare, IInv, TypeOK, Loop, CoveredInv, ScanInv, TickInv, SleepInv, Ends

LEMMA ProgramStep == IInv /\ Program => IInv'
<1> SUFFICES ASSUME IInv, Program PROVE IInv'
  OBVIOUS
<1>1. CASE demand = {}
  BY <1>1 DEF Program, Complete, IInv, TypeOK, Loop, CoveredInv, ScanInv, TickInv, SleepInv, Ends
<1>2. CASE demand # {}
  <2>1. PICK d \in demand : (\A e \in demand : d.at <= e.at) /\ pit' = Shot(d.at)
    BY <1>2 DEF Program
  <2>2. /\ pit' \in [at : Int, from : Int]
        /\ pit' # None
        /\ pit'.at <= d.at \/ pit'.at <= pit'.from + MinArm
    BY <2>1, ShotType DEF IInv, TypeOK, Demand
  <2>3. \A e \in demand' : Ends(e)'
    BY <2>1, <2>2, TimerAssumption DEF Program, Ends, None, IInv, TypeOK, Demand
  <2>4. TypeOK' /\ ScanInv' /\ TickInv' /\ SleepInv'
    BY <2>2 DEF Program, Complete, IInv, TypeOK, Loop, ScanInv, TickInv, SleepInv
  <2> QED BY <2>3, <2>4 DEF IInv, CoveredInv
<1> QED BY <1>1, <1>2

LEMMA LoopStep ==
    IInv /\ (\/ PassEnds \/ TargetDone \/ DriveAgain \/ ServicesEnd \/ HardwareFails
             \/ Halted \/ ReceiveMessage \/ RequestCheckpoint)
      => IInv'
BY DEF PassEnds, TargetDone, DriveAgain, ServicesEnd, HardwareFails, Halted, ReceiveMessage,
       RequestCheckpoint, Goto, IInv, TypeOK, Loop, CoveredInv, ScanInv, TickInv, SleepInv, Ends

LEMMA FactsStep == IInv /\ CheckFacts => IInv'
BY DEF CheckFacts, Goto, IInv, TypeOK, Loop, CoveredInv, ScanInv, TickInv, SleepInv, Ends

LEMMA ReceiveTickStep == IInv /\ ReceiveTick => IInv'
<1> SUFFICES ASSUME IInv, ReceiveTick PROVE IInv'
  OBVIOUS
<1>1. /\ demand' \subseteq demand
      /\ fresh' = fresh + 1 /\ lastTick' = now /\ signalled' = FALSE
  BY TickFacts DEF ReceiveTick, IInv
<1>2. TypeOK'
  <2>1. signalled' \in BOOLEAN
    BY <1>1
  <2> QED BY <1>1, <2>1 DEF ReceiveTick, IInv, TypeOK, Loop
<1>3. CoveredInv' /\ ScanInv' /\ TickInv' /\ SleepInv'
  BY <1>1 DEF ReceiveTick, IInv, TypeOK, CoveredInv, ScanInv, TickInv, SleepInv
<1> QED BY <1>2, <1>3 DEF IInv

LEMMA StutterStep == IInv /\ UNCHANGED vars => IInv'
BY DEF vars, IInv, TypeOK, CoveredInv, ScanInv, TickInv, SleepInv, Ends

(* Every step of the loop, the clock and the hardware keeps the invariant. *)
LEMMA NextIInv == IInv /\ [Next]_vars => IInv'
BY ClockStep, FireStep, PublishStep, NestedTickStep, YieldStep, ScanStep, PrepareStep, ProgramStep,
   LoopStep, FactsStep, ReceiveTickStep, StutterStep
   DEF Next, Step

(* drive never blocks on a deadline for which neither a notification nor a *)
(* shot of the PIT is outstanding.                                         *)
THEOREM NeverLosesAWake == Spec => []NoLostWake
<1>1. IInv => NoLostWake
  BY DEF IInv, CoveredInv, Ends, NoLostWake
<1> QED BY InitIInv, NextIInv, <1>1, PTL DEF Spec

(* drive never blocks before it has served what was due at the last tick,  *)
(* wherever in the loop and its scans that tick arrived.                   *)
THEOREM ScansServeTicks == Spec => []TickServesDue
<1>1. IInv => TickServesDue
  BY DEF IInv, TickInv, SleepInv, TickServesDue
<1> QED BY InitIInv, NextIInv, <1>1, PTL DEF Spec
=============================================================================
