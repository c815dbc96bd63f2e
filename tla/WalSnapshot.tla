---------------------------- MODULE WalSnapshot ----------------------------
(***************************************************************************)
(* The protocols that keep the snapshot headers and the registry WAL in    *)
(* step (crates/nt-fs/src: snapshot_store.rs, snapshot_wal_anchor.rs,      *)
(* snapshot_epoch_rollover.rs, snapshot_baseline_repair.rs).               *)
(*                                                                         *)
(* d is the content of the snapshot sectors, w that of the WAL sectors.    *)
(* An admission is a predicate on them, an effect a program of batches.    *)
(***************************************************************************)
EXTENDS RegistryWal, SnapshotStore

\* The plans of slots 0 and 1, in slot order.
SlotPlans(d) == <<ReadValidSlotPlan(d, 0), ReadValidSlotPlan(d, 1)>>

HeaderProgram(headers) == [i \in DOMAIN headers |-> HeaderBatch(headers[i])]

BothPayloadsValid(d) == \A s \in Slots : Present(ReadValidSlotPlan(d, s))

\* paired() of the rollover.
Paired(d) ==
    /\ BothPayloadsValid(d)
    /\ ReadSlotPlan(d, 0).generation # ReadSlotPlan(d, 1).generation

OlderSlot(d) ==
    IF ReadSlotPlan(d, 0).generation < ReadSlotPlan(d, 1).generation THEN 0 ELSE 1

\* verified_record_end_lba(serial) = end
NamesRecordEnd(ends, serial, end) ==
    serial \in 0 .. Len(ends) /\ end = FrameStart(ends, serial + 1)

WalAnchor(inc, ends) ==
    [incarnation |-> inc, serial |-> Len(ends), end_lba |-> PrefixEnd(ends)]
-----------------------------------------------------------------------------
(* Manifests a mounted volume works from *)

\* current_paired_wal_journal_manifest succeeds; it returns the manifest of
\* LatestValidSlot.
PairedManifestOk(d) ==
    /\ BothPayloadsValid(d)
    /\ \A s \in Slots : IsV2(ReadSlotPlan(d, s)) /\ ~ReadSlotPlan(d, s).resetting
    /\ SameAnchorCompanion(LatestValidSlot(d),
                           ReadSlotPlan(d, 1 - LatestValidSlot(d).slot))

\* current_wal_checkpoint_manifest succeeds: one payload may be torn.
CheckpointManifestOk(d) ==
    LET selected == LatestValidSlot(d)
        companion == ReadSlotPlan(d, 1 - selected.slot) IN
    /\ IsV2(selected) /\ IsV2(companion)
    /\ ~selected.resetting /\ ~companion.resetting
    /\ SameAnchorCompanion(selected, companion)
-----------------------------------------------------------------------------
(* boot_recovery_state *)

IsEmptyV2(plan) ==
    IsV2(plan) /\ plan.wal = EmptyManifest(plan.wal.incarnation)

\* One v2 slot beside an empty or a legacy one.
HalfBaseline(v2, other) == IsV2(v2) /\ other # CorruptPlan /\ ~IsV2(other)

HalfBaselineUsable(d, v2, other) ==
    /\ IsEmptyV2(v2) /\ PayloadValid(d, v2)
    /\ Present(other) => v2.generation > other.generation /\ PayloadValid(d, other)

BootRecoveryState(d) ==
    LET a == ReadSlotPlan(d, 0)
        b == ReadSlotPlan(d, 1) IN
    IF a.resetting \/ b.resetting THEN "resetting"
    ELSE IF HalfBaseline(a, b) \/ HalfBaseline(b, a)
    THEN IF HalfBaselineUsable(d, a, b) \/ HalfBaselineUsable(d, b, a)
         THEN "interrupted_empty_baseline" ELSE "corrupt"
    ELSE "ready"
-----------------------------------------------------------------------------
(* WalSnapshotBaselineRepair *)

\* repair_empty_wal_baseline: what the two slots allow.
RepairOutcome(d, inc) ==
    LET a == ReadValidSlotPlan(d, 0)
        b == ReadValidSlotPlan(d, 1)
        IsEmpty(plan) == Present(plan) /\ plan.wal = EmptyManifest(inc)
        IsLegacy(plan) == Present(plan) /\ plan.wal = NoManifest
        Recommits(v2, other) ==
            /\ IsEmpty(v2)
            /\ Present(other) => IsLegacy(other) /\ v2.generation > other.generation IN
    IF a.resetting \/ b.resetting THEN "corrupt"
    ELSE IF \/ IsLegacy(a) /\ (IsLegacy(b) \/ ~Present(b))
            \/ IsLegacy(b) /\ ~Present(a) THEN "legacy"
    ELSE IF IsEmpty(a) /\ IsEmpty(b) /\ a.generation # b.generation THEN "complete"
    ELSE IF Recommits(a, b) \/ Recommits(b, a) THEN "recommit"
    ELSE "corrupt"

\* The v2 payload is committed once more, over its companion.
RepairAllowed(d, inc) ==
    RepairOutcome(d, inc) = "recommit" /\ CommitAllowed(d, EmptyManifest(inc), TRUE)

RepairProgram(d, inc) ==
    CommitProgram(d, LatestValidSlot(d).image, EmptyManifest(inc))
-----------------------------------------------------------------------------
(* WalSnapshotAnchorUpdate *)

Torn(d, s) == ReadValidSlotPlan(d, s) = CorruptPlan

\* The plan that replaces a torn companion: the payload of the other slot
\* under a generation of its own.
RepairedPlan(d, s) ==
    LET selected == ReadValidSlotPlan(d, 1 - s)
        companion == ReadSlotPlan(d, s) IN
    [selected EXCEPT !.slot = s,
        !.generation = 1 + (IF companion.generation > @ THEN companion.generation ELSE @)]

\* Mutant: a torn companion is not replaced.
AnchorPlanTornKept(d, s) == ReadValidSlotPlan(d, s)

AnchorPlan(d, s) == IF Torn(d, s) THEN RepairedPlan(d, s) ELSE ReadValidSlotPlan(d, s)

\* admit_verified_wal: each header names a boundary of the verified prefix.
AnchorAdmitted(d, inc, ends) ==
    /\ \A s \in Slots : Torn(d, s) =>
           LET selected == ReadValidSlotPlan(d, 1 - s)
               companion == ReadSlotPlan(d, s) IN
           /\ IsV2(selected) /\ companion # CorruptPlan /\ IsV2(companion)
           /\ SameAnchorCompanion(selected, companion)
    /\ \A s \in Slots :
           LET plan == AnchorPlan(d, s) IN
           /\ IsV2(plan) /\ ~plan.resetting /\ plan.wal.incarnation = inc
           /\ NamesRecordEnd(ends, plan.wal.high_water_serial, plan.wal.high_water_end_lba)

AnchoredHeader(d, s, ends) ==
    [AnchorPlan(d, s) EXCEPT !.wal.high_water_serial = Len(ends),
                             !.wal.high_water_end_lba = PrefixEnd(ends)]

\* Mutant: only the first header is advanced.
AnchorProgramOneSlot(d, ends) == <<HeaderBatch(AnchoredHeader(d, 0, ends))>>

\* advance: a torn companion is rebuilt under the old anchor first.
AnchorProgram(d, ends) ==
    (IF \E s \in Slots : Torn(d, s)
     THEN LET s == CHOOSE s \in Slots : Torn(d, s) IN
          <<PayloadBatch(s, RepairedPlan(d, s).image), HeaderBatch(RepairedPlan(d, s))>>
     ELSE <<>>)
    \o <<HeaderBatch(AnchoredHeader(d, 0, ends)), HeaderBatch(AnchoredHeader(d, 1, ends))>>
-----------------------------------------------------------------------------
(* WalSnapshotEpochRollover *)

NeedsEpochRollover(end) == end # 0 /\ end >= SectorCount - SectorCount \div 4

\* admit: two complete snapshots that need no record of the old epoch.
RolloverAdmitted(d, old) ==
    /\ Paired(d) /\ old.serial # 0
    /\ \A s \in Slots :
           LET plan == ReadSlotPlan(d, s) IN
           /\ IsV2(plan) /\ ~plan.resetting
           /\ Anchor(plan.wal) = old /\ plan.wal.base_serial = old.serial

EpochHeader(plan, next, resetting) ==
    [plan EXCEPT !.wal = EmptyManifest(next), !.resetting = resetting]

\* publish_resetting: the older slot first, the old WAL untouched.
PublishResettingProgram(d, next) ==
    <<HeaderBatch(EpochHeader(ReadSlotPlan(d, OlderSlot(d)), next, TRUE))>>

\* resume: while an old header survives, erasure has not begun.
ResumeAllowed(d, w, next) ==
    /\ Paired(d)
    /\ \A s \in Slots :
           LET plan == ReadSlotPlan(d, s) IN
           /\ IsV2(plan)
           /\ \/ plan.wal = EmptyManifest(next)
              \/ /\ ~plan.resetting /\ plan.wal.incarnation # next
                 /\ plan.wal.base_serial = plan.wal.high_water_serial
                 /\ plan.wal.high_water_serial # 0
                 /\ \E ends \in EndLists :
                       /\ WalAnchor(plan.wal.incarnation, ends) = Anchor(plan.wal)
                       /\ ScanYields(w, plan.wal.incarnation, ends, 0)

\* finish, before the erasure: the headers of the old epoch.
ResetRestProgram(d, next) ==
    LET old == SelectSeq(SlotPlans(d), LAMBDA plan :
                   ~plan.resetting /\ plan.wal.incarnation # next) IN
    HeaderProgram([i \in DOMAIN old |-> EpochHeader(old[i], next, TRUE)])

\* finish: the re-read that gates the erasure.
ResetComplete(d, next) ==
    Paired(d) /\ \A s \in Slots : ReadSlotPlan(d, s).wal = EmptyManifest(next)

\* finish, after the erasure: the READY headers.
ReadyProgram(d, next) ==
    LET resetting == SelectSeq(SlotPlans(d), LAMBDA plan : plan.resetting) IN
    HeaderProgram([i \in DOMAIN resetting |-> EpochHeader(resetting[i], next, FALSE)])

\* erase_old_wal: everything but sector zero, then sector zero.
EraseBody == ZeroSectors(1, SectorCount - 1)

EraseHead == ZeroSectors(0, 0)
=============================================================================
