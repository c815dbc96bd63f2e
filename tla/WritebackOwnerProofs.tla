------------------------ MODULE WritebackOwnerProofs ------------------------
(***************************************************************************)
(* Proofs about WritebackOwner, for any number of flushers and any bounds. *)
(* The invariant adds to the properties what ties a report to the state of *)
(* its ticket: a Durable report means the image is on the disk, a NoEffect *)
(* report that is still believed means the ticket's write cannot start.    *)
(***************************************************************************)
EXTENDS WritebackOwner, TLAPS

InFlight(w) == w.state \in {"captured", "started"}

OwnerInv ==
    /\ owner.durable <= owner.dirty
    /\ owner.pending # NoBatch =>
         /\ owner.pending.mount = owner.mount
         /\ owner.pending.generation <= owner.dirty
         /\ owner.pending.serial < owner.nextSerial
    /\ owner.pending = NoBatch => ~owner.uncertain

ImageInv ==
    /\ image.mount <= owner.mount
    /\ owner.durable > 0 => image.mount = owner.mount /\ image.generation >= owner.durable
    /\ image.mount = owner.mount => image.generation <= owner.dirty
    /\ owner.pending # NoBatch /\ image.mount = owner.mount
         => image.generation <= owner.pending.generation

IoInv ==
    \A w \in io :
        /\ w.batch.mount <= owner.mount
        /\ w.batch.mount = owner.mount => w.batch.serial < owner.nextSerial
        /\ InFlight(w) => owner.pending = w.batch
        /\ w.state = "written" /\ w.batch.mount = owner.mount
             => image.mount = owner.mount /\ image.generation >= w.batch.generation

UniqueInv == \A v, w \in io : v.batch = w.batch => v = w

ReportInv ==
    \A r \in reports :
        /\ r.batch.mount <= owner.mount
        /\ r.batch.mount = owner.mount => r.batch.serial < owner.nextSerial
        /\ r.result = "Durable" =>
             /\ r.batch.mount = owner.mount =>
                  image.mount = owner.mount /\ image.generation >= r.batch.generation
             /\ \A w \in io : w.batch = r.batch => w.state = "written"
        /\ r.result = "NoEffect" /\ owner.pending = r.batch /\ ~owner.uncertain
             => \A w \in io : w.batch = r.batch => w.state = "idle"

IInv ==
    /\ TypeOK /\ OwnerInv /\ ImageInv /\ IoInv /\ UniqueInv /\ ReportInv /\ AckedSurvives
-----------------------------------------------------------------------------
(* A newer image covers whatever an older one covered.                     *)
LEMMA CoversTransitive ==
    ASSUME NEW i \in FlushTarget, NEW j \in FlushTarget, NEW t \in FlushTarget,
           Covers(i, t), j.mount >= i.mount,
           j.mount = i.mount => j.generation >= i.generation
    PROVE  Covers(j, t)
  BY DEF Covers, FlushTarget

(* The first mount starts with nothing dirty, nothing sent and nothing     *)
(* promised.                                                               *)
LEMMA InitInvariant == Init => IInv
  <1> SUFFICES ASSUME Init PROVE IInv
    OBVIOUS
  <1>1. image \in FlushTarget
    BY DEF Init, FlushTarget
  <1>2. owner \in Owner
    BY DEF Init, NewOwner, Owner
  <1>3. TypeOK
    BY <1>1, <1>2 DEF Init, TypeOK
  <1>4. OwnerInv /\ ImageInv
    BY DEF Init, NewOwner, OwnerInv, ImageInv
  <1>5. AckedSurvives
    BY DEF Init, AckedSurvives
  <1> QED
    BY <1>3, <1>4, <1>5 DEF Init, IInv, IoInv, UniqueInv, ReportInv

(* Steps that change neither the owner, the image nor the provider's work. *)
LEMMA FlushStep ==
    ASSUME IInv, NEW f \in Flusher, TakeFlushTarget(f) \/ PollFlush(f)
    PROVE  IInv'
  <1> USE DEF IInv
  <1>1. CurrentTarget \in FlushTarget
    BY DEF TypeOK, Owner, CurrentTarget, FlushTarget
  <1>2. TypeOK'
    <2>1. flush[f] \in [target : FlushTarget, acked : BOOLEAN]
      BY DEF TypeOK
    <2>2. [target |-> CurrentTarget, acked |-> FALSE] \in [target : FlushTarget, acked : BOOLEAN]
      BY <1>1
    <2>3. [flush[f] EXCEPT !.acked = TRUE] \in [target : FlushTarget, acked : BOOLEAN]
      BY <2>1
    <2>4. flush' \in [Flusher -> [target : FlushTarget, acked : BOOLEAN]]
      BY <2>2, <2>3 DEF TypeOK, TakeFlushTarget, PollFlush
    <2> QED
      BY <2>4 DEF TypeOK, TakeFlushTarget, PollFlush
  <1>3. (OwnerInv /\ ImageInv /\ IoInv /\ UniqueInv /\ ReportInv)'
    BY DEF TakeFlushTarget, PollFlush, OwnerInv, ImageInv, IoInv, UniqueInv, ReportInv, InFlight
  <1>4. AckedSurvives'
    <2>1. CASE TakeFlushTarget(f)
      BY <2>1 DEF TypeOK, TakeFlushTarget, AckedSurvives, Covers
    <2>2. CASE PollFlush(f)
      <3>1. Covers(image, flush[f].target)
        BY <2>2 DEF PollFlush, IsDurable, ImageInv, Covers, TypeOK, Owner, FlushTarget
      <3> QED
        BY <2>2, <3>1 DEF TypeOK, PollFlush, AckedSurvives, Covers
    <2> QED BY <2>1, <2>2
  <1> QED BY <1>2, <1>3, <1>4

LEMMA MutationStep ==
    ASSUME IInv, RecordMutation
    PROVE  IInv'
  <1> USE DEF IInv, RecordMutation
  <1>1. TypeOK'
    BY DEF TypeOK, Owner
  <1>2. OwnerInv'
    BY DEF TypeOK, Owner, OwnerInv, WritebackBatch
  <1>3. ImageInv'
    BY DEF TypeOK, Owner, ImageInv, FlushTarget, WritebackBatch
  <1>4. (IoInv /\ UniqueInv /\ ReportInv)'
    BY DEF TypeOK, Owner, IoInv, UniqueInv, ReportInv, InFlight
  <1>5. AckedSurvives'
    BY DEF AckedSurvives, Covers
  <1> QED BY <1>1, <1>2, <1>3, <1>4, <1>5

(* A new ticket differs from every earlier one of its mount by its serial. *)
LEMMA BeginStep ==
    ASSUME IInv, BeginBatch
    PROVE  IInv'
  <1> USE DEF IInv, BeginBatch
  <1> DEFINE w0 == [batch |-> NextBatch, state |-> "captured"]
  <1>1. NextBatch \in WritebackBatch
    BY DEF TypeOK, Owner, NextBatch, WritebackBatch
  <1>2. w0 \in [batch : WritebackBatch, state : IoState]
    BY <1>1 DEF IoState
  <1>3. TypeOK'
    <2>1. owner' \in Owner
      <3>1. /\ owner' = [owner EXCEPT !.nextSerial = @ + 1, !.pending = NextBatch]
            /\ owner \in Owner
        BY DEF TypeOK
      <3>2. NextBatch \in WritebackBatch \cup {NoBatch}
        BY <1>1
      <3>3. owner.nextSerial + 1 \in Nat
        BY <3>1 DEF Owner
      <3> HIDE DEF w0, BeginBatch, IInv
      <3>4. [owner EXCEPT !.nextSerial = @ + 1] \in Owner
        BY <3>1, <3>3 DEF Owner
      <3> QED BY <3>1, <3>2, <3>4 DEF Owner
    <2>2. io' \in SUBSET [batch : WritebackBatch, state : IoState]
      <3>1. io' = io \cup {w0} /\ io \in SUBSET [batch : WritebackBatch, state : IoState]
        BY DEF TypeOK
      <3> HIDE DEF w0, BeginBatch, IInv
      <3> QED BY <1>2, <3>1
    <2> QED BY <2>1, <2>2 DEF TypeOK
  <1>4. NextBatch # NoBatch
    BY <1>1, NoBatchAssumption
  <1>5. \A w \in io : w.batch # NextBatch
    BY DEF TypeOK, Owner, IoInv, NextBatch, WritebackBatch
  <1>6. \A r \in reports : r.batch # NextBatch
    BY DEF TypeOK, Owner, ReportInv, NextBatch, WritebackBatch, Report
  <1>7. owner' = [owner EXCEPT !.nextSerial = @ + 1, !.pending = NextBatch]
    OBVIOUS
  <1>8. OwnerInv'
    BY <1>4 DEF TypeOK, Owner, OwnerInv, NextBatch
  <1>9. ImageInv'
    BY <1>4 DEF TypeOK, Owner, ImageInv, NextBatch, FlushTarget
  <1>10. IoInv'
    <2> SUFFICES ASSUME NEW w \in io'
                 PROVE  /\ w.batch.mount <= owner'.mount
                        /\ w.batch.mount = owner'.mount => w.batch.serial < owner'.nextSerial
                        /\ InFlight(w) => owner'.pending = w.batch
                        /\ w.state = "written" /\ w.batch.mount = owner'.mount
                             => image'.mount = owner'.mount /\ image'.generation >= w.batch.generation
      BY DEF IoInv, InFlight
    <2>1. CASE w = w0
      BY <2>1 DEF TypeOK, Owner, NextBatch, InFlight
    <2>2. CASE w \in io
      <3>1. ~InFlight(w)
        <4>1. owner.pending = NoBatch
          OBVIOUS
        <4>2. w.batch \in WritebackBatch
          BY <2>2 DEF TypeOK
        <4> QED BY <2>2, <4>1, <4>2, NoBatchAssumption DEF IoInv
      <3> QED
        BY <2>2, <3>1 DEF TypeOK, Owner, IoInv, WritebackBatch
    <2> QED BY <2>1, <2>2
  <1>11. UniqueInv'
    BY <1>5 DEF UniqueInv
  <1>12. ReportInv'
    BY <1>6, SMTT(30) DEF TypeOK, Owner, ReportInv, Report, WritebackBatch
  <1>13. AckedSurvives'
    BY DEF AckedSurvives, Covers
  <1> QED BY <1>3, <1>8, <1>9, <1>10, <1>11, <1>12, <1>13

(* The owner believes a report only about the exact ticket it retains.     *)
LEMMA CompleteStep ==
    ASSUME IInv, NEW r \in reports, Complete(r)
    PROVE  IInv'
  <1> USE DEF IInv
  <1>1. /\ owner.pending = r.batch
        /\ r \in Report /\ r.batch \in WritebackBatch /\ r.batch # NoBatch
        /\ UNCHANGED <<io, image, reports, flush>>
    BY NoBatchAssumption DEF Complete, IsPending, TypeOK, Report
  <1>2. AckedSurvives' /\ UniqueInv'
    BY <1>1 DEF AckedSurvives, UniqueInv, Covers
  <1>3. CASE r.result = "Durable"
    <2>1. owner' = [owner EXCEPT !.durable = r.batch.generation, !.pending = NoBatch,
                                 !.uncertain = FALSE]
      BY <1>3 DEF Complete, CompleteDurable
    <2>2. TypeOK'
      BY <1>1, <2>1 DEF TypeOK, Owner, WritebackBatch
    <2>3. OwnerInv'
      BY <1>1, <2>1 DEF TypeOK, Owner, WritebackBatch, OwnerInv
    <2>4. ImageInv'
      BY <1>1, <1>3, <2>1 DEF TypeOK, Owner, WritebackBatch, OwnerInv, ImageInv, ReportInv
    <2>5. IoInv'
      <3>1. \A w \in io : ~InFlight(w)
        BY <1>1, <1>3 DEF IoInv, ReportInv, InFlight
      <3> QED
        BY <1>1, <2>1, <3>1 DEF TypeOK, Owner, IoInv
    <2>6. ReportInv'
      <3>1. \A q \in reports : q.batch # NoBatch
        BY NoBatchAssumption DEF TypeOK, Report
      <3> QED
        BY <1>1, <2>1, <3>1 DEF TypeOK, Owner, ReportInv
    <2> QED BY <1>2, <2>2, <2>3, <2>4, <2>5, <2>6
  <1>4. CASE r.result = "NoEffect"
    <2>1. ~owner.uncertain /\ owner' = [owner EXCEPT !.pending = NoBatch]
      BY <1>4 DEF Complete, CompleteNoEffect
    <2>2. TypeOK'
      BY <1>1, <2>1 DEF TypeOK, Owner
    <2>3. OwnerInv' /\ ImageInv'
      BY <1>1, <2>1 DEF TypeOK, Owner, OwnerInv, ImageInv
    <2>4. IoInv'
      <3>1. \A w \in io : ~InFlight(w)
        BY <1>1, <1>4, <2>1 DEF IoInv, ReportInv, InFlight
      <3> QED
        BY <1>1, <2>1, <3>1 DEF TypeOK, Owner, IoInv
    <2>5. ReportInv'
      <3>1. \A q \in reports : q.batch # NoBatch
        BY NoBatchAssumption DEF TypeOK, Report
      <3> QED
        BY <1>1, <2>1, <3>1 DEF TypeOK, Owner, ReportInv
    <2> QED BY <1>2, <2>2, <2>3, <2>4, <2>5
  <1>5. CASE r.result = "Uncertain"
    <2>1. owner' = [owner EXCEPT !.uncertain = TRUE]
      BY <1>5 DEF Complete
    <2>2. TypeOK'
      BY <1>1, <2>1 DEF TypeOK, Owner
    <2>3. OwnerInv' /\ ImageInv'
      BY <1>1, <2>1 DEF TypeOK, Owner, OwnerInv, ImageInv
    <2>4. IoInv'
      BY <1>1, <2>1 DEF TypeOK, Owner, IoInv, InFlight
    <2>5. ReportInv'
      BY <1>1, <2>1 DEF TypeOK, Owner, ReportInv
    <2> QED BY <1>2, <2>2, <2>3, <2>4, <2>5
  <1> QED
    BY <1>1, <1>3, <1>4, <1>5 DEF Report

(* The next mount starts with nothing of its own in flight or reported.    *)
LEMMA MountStep ==
    ASSUME IInv, Retire \/ PowerCut
    PROVE  IInv'
  <1> USE DEF IInv
  <1>1. /\ owner' = NewOwner(owner.mount + 1)
        /\ io' \subseteq io
        /\ UNCHANGED <<image, reports, flush>>
    BY DEF Retire, PowerCut
  <1>2. \A w \in io' : ~InFlight(w)
    <2>1. CASE Retire
      BY <2>1, NoBatchAssumption DEF Retire, TypeOK, IoInv
    <2>2. CASE PowerCut
      BY <2>2 DEF PowerCut
    <2> QED BY <2>1, <2>2
  <1>3. TypeOK'
    BY <1>1 DEF TypeOK, Owner, NewOwner
  <1>4. OwnerInv'
    BY <1>1 DEF TypeOK, Owner, NewOwner, OwnerInv
  <1>5. ImageInv'
    BY <1>1 DEF TypeOK, Owner, NewOwner, ImageInv, FlushTarget
  <1>6. IoInv'
    BY <1>1, <1>2 DEF TypeOK, Owner, NewOwner, IoInv, WritebackBatch
  <1>7. UniqueInv'
    BY <1>1 DEF UniqueInv
  <1>8. ReportInv'
    <2>1. \A q \in reports : q.batch # NoBatch /\ q.batch.mount # owner'.mount
                             /\ q.batch.mount <= owner'.mount
      BY <1>1, NoBatchAssumption DEF TypeOK, Owner, NewOwner, Report, WritebackBatch, ReportInv
    <2>2. owner'.pending = NoBatch
      BY <1>1 DEF NewOwner
    <2> QED
      BY <1>1, <2>1, <2>2 DEF ReportInv
  <1>9. AckedSurvives'
    BY <1>1 DEF AckedSurvives, Covers
  <1> QED BY <1>3, <1>4, <1>5, <1>6, <1>7, <1>8, <1>9

(* A ticket that moves on without reaching the disk.                       *)
LEMMA StateStep ==
    ASSUME IInv, NEW w \in io, NEW s \in IoState \ {"written"}, ToState(w, s),
           w.state # "written",
           s = "idle" \/ owner.pending = w.batch,
           s # "idle" => w.state \in {"captured", "started"} \/ owner.uncertain,
           UNCHANGED <<owner, image, flush>>,
           reports' = reports \/ (s = "idle" /\ Send(w, "NoEffect"))
    PROVE  IInv'
  <1> USE DEF IInv
  <1> DEFINE v == [w EXCEPT !.state = s]
  <1>1. /\ v \in [batch : WritebackBatch, state : IoState]
        /\ v.batch = w.batch /\ v.state = s
        /\ w.batch \in WritebackBatch /\ w.batch # NoBatch
    BY NoBatchAssumption DEF TypeOK
  <1>2. io' = (io \ {w}) \cup {v}
    BY DEF ToState
  <1> HIDE DEF v
  <1>3. TypeOK'
    <2>1. io' \in SUBSET [batch : WritebackBatch, state : IoState]
      BY <1>1, <1>2 DEF TypeOK
    <2>2. [batch |-> w.batch, result |-> "NoEffect"] \in Report
      BY <1>1 DEF Report
    <2>3. reports' \in SUBSET Report
      BY <2>2 DEF TypeOK, Send
    <2> QED BY <2>1, <2>3 DEF TypeOK
  <1>4. OwnerInv' /\ ImageInv' /\ AckedSurvives'
    BY DEF OwnerInv, ImageInv, AckedSurvives, Covers
  <1>5. IoInv'
    BY <1>1, <1>2 DEF IoInv, InFlight
  <1>6. UniqueInv'
    BY <1>1, <1>2 DEF UniqueInv
  <1>7. ReportInv'
    <2> SUFFICES ASSUME NEW r \in reports'
                 PROVE  /\ r.batch.mount <= owner.mount
                        /\ r.batch.mount = owner.mount => r.batch.serial < owner.nextSerial
                        /\ r.result = "Durable" =>
                             /\ r.batch.mount = owner.mount =>
                                  image.mount = owner.mount /\ image.generation >= r.batch.generation
                             /\ \A u \in io' : u.batch = r.batch => u.state = "written"
                        /\ r.result = "NoEffect" /\ owner.pending = r.batch /\ ~owner.uncertain
                             => \A u \in io' : u.batch = r.batch => u.state = "idle"
      BY DEF ReportInv
    <2>1. CASE r \in reports
      BY <1>1, <1>2, <2>1 DEF ReportInv
    <2>2. CASE r = [batch |-> w.batch, result |-> "NoEffect"] /\ s = "idle"
      BY <1>1, <1>2, <2>2 DEF IoInv, UniqueInv
    <2> QED BY <2>1, <2>2 DEF Send
  <1> QED BY <1>3, <1>4, <1>5, <1>6, <1>7

(* Only the retained ticket's write reaches the disk, and its image is the *)
(* newest one captured.                                                    *)
LEMMA FinishStep ==
    ASSUME IInv, NEW w \in io, FinishWrite(w)
    PROVE  IInv' /\ Covers(image', image)
  <1> USE DEF IInv
  <1> DEFINE v == [w EXCEPT !.state = "written"]
  <1>1. /\ v \in [batch : WritebackBatch, state : IoState]
        /\ v.batch = w.batch /\ v.state = "written"
        /\ w.batch \in WritebackBatch /\ w.batch # NoBatch
    BY NoBatchAssumption DEF TypeOK, IoState
  <1>2. /\ io' = (io \ {w}) \cup {v}
        /\ image' = [mount |-> w.batch.mount, generation |-> w.batch.generation]
        /\ UNCHANGED <<owner, reports, flush>>
    BY DEF FinishWrite, ToState
  <1> HIDE DEF v
  <1>3. owner.pending = w.batch /\ w.batch.mount = owner.mount
    BY <1>1 DEF FinishWrite, IoInv, InFlight, OwnerInv
  <1>4. /\ image.mount <= image'.mount
        /\ image.mount = image'.mount => image.generation <= image'.generation
    BY <1>1, <1>2, <1>3 DEF ImageInv
  <1>5. image \in FlushTarget /\ image' \in FlushTarget
    BY <1>1, <1>2 DEF TypeOK, FlushTarget, WritebackBatch
  <1>6. TypeOK'
    <2>1. io' \in SUBSET [batch : WritebackBatch, state : IoState]
      BY <1>1, <1>2 DEF TypeOK
    <2> QED BY <1>2, <1>5, <2>1 DEF TypeOK
  <1>7. OwnerInv'
    BY <1>2 DEF OwnerInv
  <1>8. ImageInv'
    BY <1>1, <1>2, <1>3, <1>4, <1>5 DEF TypeOK, Owner, WritebackBatch, FlushTarget,
                                       OwnerInv, ImageInv
  <1>9. IoInv'
    BY <1>1, <1>2, <1>3, <1>4, <1>5 DEF TypeOK, Owner, WritebackBatch, FlushTarget,
                                       IoInv, InFlight
  <1>10. UniqueInv'
    BY <1>1, <1>2 DEF UniqueInv
  <1>11. ReportInv'
    BY <1>1, <1>2, <1>3, <1>4, <1>5 DEF TypeOK, Owner, WritebackBatch, FlushTarget, Report,
                                       FinishWrite, ReportInv
  <1>12. AckedSurvives'
    <2> SUFFICES ASSUME NEW f \in Flusher, flush[f].acked
                 PROVE  Covers(image', flush[f].target)
      BY <1>2 DEF AckedSurvives, Covers
    <2>1. flush[f].target \in FlushTarget /\ Covers(image, flush[f].target)
      BY DEF TypeOK, AckedSurvives
    <2> QED
      BY <1>4, <1>5, <2>1, CoversTransitive DEF FlushTarget
  <1>13. Covers(image', image)
    BY <1>4, <1>5 DEF Covers, FlushTarget
  <1> QED BY <1>6, <1>7, <1>8, <1>9, <1>10, <1>11, <1>12, <1>13

(* Reports that leave the ticket where it is.                              *)
LEMMA SendStep ==
    ASSUME IInv, NEW w \in io, ReportDurable(w) \/ ReportUncertain(w)
    PROVE  IInv'
  <1> USE DEF IInv
  <1> DEFINE q == [batch |-> w.batch,
                   result |-> IF ReportDurable(w) THEN "Durable" ELSE "Uncertain"]
  <1>1. w.batch \in WritebackBatch
    BY DEF TypeOK
  <1>2. /\ reports' = reports \cup {q}
        /\ UNCHANGED <<owner, io, image, flush>>
    BY DEF ReportDurable, ReportUncertain, Send
  <1>3. /\ q \in Report /\ q.batch = w.batch /\ q.result # "NoEffect"
        /\ q.result = "Durable" => w.state = "written"
    BY <1>1 DEF Report, ReportDurable
  <1> HIDE DEF q
  <1>4. TypeOK'
    BY <1>2, <1>3 DEF TypeOK
  <1>5. OwnerInv' /\ ImageInv' /\ IoInv' /\ UniqueInv' /\ AckedSurvives'
    BY <1>2 DEF OwnerInv, ImageInv, IoInv, InFlight, UniqueInv, AckedSurvives, Covers
  <1>6. ReportInv'
    BY <1>2, <1>3 DEF ReportInv, IoInv, UniqueInv
  <1> QED BY <1>4, <1>5, <1>6

LEMMA ProviderInvariant ==
    ASSUME IInv, NEW w \in io, ProviderStep(w)
    PROVE  IInv'
  <1>1. CASE StartWrite(w)
    <2>1. owner.pending = w.batch
      BY <1>1 DEF IInv, IoInv, InFlight, StartWrite
    <2> QED
      BY <1>1, <2>1, StateStep DEF StartWrite, IoState
  <1>2. CASE FinishWrite(w)
    BY <1>2, FinishStep
  <1>3. CASE ReportDurable(w) \/ ReportUncertain(w)
    BY <1>3, SendStep
  <1>4. CASE ReportNoEffect(w)
    BY <1>4, StateStep DEF ReportNoEffect, IoState
  <1>5. CASE DriveAgain(w)
    BY <1>5, StateStep DEF DriveAgain, IoState
  <1> QED BY <1>1, <1>2, <1>3, <1>4, <1>5 DEF ProviderStep

LEMMA NextInvariant == IInv /\ [Next]_vars => IInv'
  <1> SUFFICES ASSUME IInv, [Next]_vars PROVE IInv'
    OBVIOUS
  <1>1. CASE UNCHANGED vars
    BY <1>1 DEF vars, IInv, TypeOK, OwnerInv, ImageInv, IoInv, InFlight, UniqueInv,
                ReportInv, AckedSurvives, Covers
  <1>2. CASE Next
    BY <1>2, MutationStep, BeginStep, MountStep, FlushStep, CompleteStep,
       ProviderInvariant DEF Next
  <1> QED BY <1>1, <1>2
-----------------------------------------------------------------------------
LEMMA Invariant == Spec => []IInv
  BY InitInvariant, NextInvariant, PTL DEF Spec

(* For every number of flushers, mounts, generations and batches: what     *)
(* is_durable answered stays true of the stored image.                     *)
THEOREM AckedAlwaysSurvives == Spec => []AckedSurvives
  <1>1. IInv => AckedSurvives
    BY DEF IInv
  <1> QED BY <1>1, Invariant, PTL

(* begin_batch and complete never let two batches of one mount be written  *)
(* at the same time.                                                       *)
THEOREM OneBatchAlways == Spec => []OneBatchInFlight
  <1>1. IInv => OneBatchInFlight
    BY DEF IInv, IoInv, InFlight, OneBatchInFlight
  <1> QED BY <1>1, Invariant, PTL

(* No order of begin_batch, complete, retire and the provider's writes     *)
(* replaces the stored image by an older one.                              *)
THEOREM ImageIsMonotone == Spec => ImageNeverRegresses
  <1>1. IInv /\ [Next]_vars => [Covers(image', image)]_vars
    <2> SUFFICES ASSUME IInv, Next PROVE Covers(image', image)
      OBVIOUS
    <2>1. CASE \E w \in io : FinishWrite(w)
      BY <2>1, FinishStep
    <2>2. CASE image' = image
      BY <2>2 DEF Covers, IInv, TypeOK, FlushTarget
    <2> QED
      BY <2>1, <2>2 DEF Next, RecordMutation, BeginBatch, Retire, PowerCut, TakeFlushTarget,
         PollFlush, Complete, ProviderStep, StartWrite, ReportDurable, ReportNoEffect,
         ReportUncertain, DriveAgain
  <1> QED BY <1>1, Invariant, PTL DEF Spec, ImageNeverRegresses

(* retire accepts only a mount whose every mutation is in the stored image.*)
THEOREM RetireIsSafe == Spec => RetireLosesNothing
  <1>1. IInv /\ [Next]_vars => [Retire => Covers(image, CurrentTarget)]_vars
    BY DEF IInv, TypeOK, Owner, FlushTarget, ImageInv, OwnerInv, Retire, IsDirty, CurrentTarget,
           Covers
  <1> QED BY <1>1, Invariant, PTL DEF Spec, RetireLosesNothing
=============================================================================
