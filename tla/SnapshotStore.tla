--------------------------- MODULE SnapshotStore ---------------------------
(***************************************************************************)
(* The two-slot volume snapshot store of                                   *)
(* crates/nt-fs/src/snapshot_store.rs.                                     *)
(*                                                                         *)
(* A slot is a header sector and the payload sectors of one volume image.  *)
(* A header without a WAL manifest is the v1 ("legacy") format; a v2       *)
(* header names the WAL epoch, the serial its payload includes and the     *)
(* acknowledged end of the WAL; a RESETTING header marks an epoch change   *)
(* in progress.                                                            *)
(*                                                                         *)
(* Every writer of the store is a program: a sequence of batches of sector *)
(* writes, each ended by a flush.  One step issues a batch, another is its *)
(* barrier, so a power cut or an I/O error falls between any two of them.  *)
(* The CRC of a payload is taken to identify the image it covers.          *)
(***************************************************************************)
EXTENDS Integers, Sequences, SectorDevice

CONSTANTS ImageParts,   \* payload sectors of a volume image
          NoImage       \* the payload of a slot that was never committed

ASSUME SnapAssumption == ImageParts \in Nat \ {0}

VARIABLES snapMedia,    \* what a read of a snapshot sector returns
          snapStable,   \* what a power cut leaves at least
          program,      \* batches the current writer still has to make durable
          issued        \* the first of them is written, its flush outstanding

snapVars == <<snapMedia, snapStable, program, issued>>
-----------------------------------------------------------------------------
(* Headers *)

Slots == 0 .. 1

SnapAddress == Slots \X (0 .. ImageParts)

\* wal = None in a header; no valid manifest has incarnation 0.
NoManifest == [incarnation |-> 0, base_serial |-> 0, high_water_serial |-> 0,
               high_water_end_lba |-> 0]

EmptyManifest(inc) == [NoManifest EXCEPT !.incarnation = inc]

Anchor(m) == [incarnation |-> m.incarnation, serial |-> m.high_water_serial,
              end_lba |-> m.high_water_end_lba]

SlotHeader(slot, generation, image, m, resetting) ==
    [kind |-> "header", slot |-> slot, generation |-> generation, image |-> image,
     wal |-> m, resetting |-> resetting]

ImageSector(image, part) == [kind |-> "image", image |-> image, part |-> part]

\* Ok(None): the header sector is all zero.
NoPlan == [SlotHeader(0, 0, NoImage, NoManifest, FALSE) EXCEPT !.kind = "none"]

\* Err(Corrupt)
CorruptPlan == [NoPlan EXCEPT !.kind = "corrupt"]

Present(plan) == plan.kind = "header"
-----------------------------------------------------------------------------
(* Readers.  d is the content of the snapshot sectors. *)

\* read_slot_plan: the header alone.
ReadSlotPlan(d, s) ==
    LET h == d[<<s, 0>>] IN
    IF h = Zero THEN NoPlan
    ELSE IF h.kind = "header" /\ h.slot = s THEN h
    ELSE CorruptPlan

\* validate_slot_payload_crc
PayloadValid(d, plan) ==
    \A k \in 1 .. ImageParts : d[<<plan.slot, k>>] = ImageSector(plan.image, k)

\* read_valid_slot_plan: the header and the CRC of its payload.
ReadValidSlotPlan(d, s) ==
    LET plan == ReadSlotPlan(d, s) IN
    IF Present(plan) /\ ~PayloadValid(d, plan) THEN CorruptPlan ELSE plan

\* latest_valid_slot and latest_commit_slot: the newest slot whose payload is
\* intact; an error when there is none and a slot is damaged.
LatestValidSlot(d) ==
    LET a == ReadValidSlotPlan(d, 0)
        b == ReadValidSlotPlan(d, 1) IN
    IF Present(b) /\ (~Present(a) \/ b.generation > a.generation) THEN b
    ELSE IF Present(a) THEN a
    ELSE IF a = NoPlan /\ b = NoPlan THEN NoPlan
    ELSE CorruptPlan

IsV2(plan) == Present(plan) /\ plan.wal # NoManifest

\* same_anchor_wal_companion, on the two plans.
SameAnchorCompanion(selected, companion) ==
    /\ selected.generation # companion.generation
    /\ Anchor(selected.wal) = Anchor(companion.wal)
    /\ selected.wal.base_serial >= companion.wal.base_serial

\* The error return of wal_recovery_floor when both headers are v2.
FloorConsistent(selected, other) ==
    /\ selected.base_serial >= other.base_serial
    /\ selected.incarnation = other.incarnation
    /\ selected.high_water_serial = other.high_water_serial
           => selected.high_water_end_lba = other.high_water_end_lba
    /\ selected.high_water_serial < other.high_water_serial
           => selected.high_water_end_lba <= other.high_water_end_lba
    /\ selected.high_water_serial > other.high_water_serial
           => selected.high_water_end_lba >= other.high_water_end_lba

\* wal_recovery_floor: the higher of the two anchors.
WalRecoveryFloor(selected, other) ==
    IF other.high_water_serial > selected.high_water_serial
    THEN Anchor(other) ELSE Anchor(selected)

\* metadata_for_selected: whether the selected slot may be used beside the
\* other one ...
SelectionUsable(d, selected) ==
    LET other == ReadSlotPlan(d, 1 - selected.slot) IN
    /\ other # CorruptPlan
    /\ ~selected.resetting /\ ~other.resetting
    /\ IF ~IsV2(selected) THEN ~IsV2(other)
       ELSE Present(other) =>
                /\ IsV2(other)
                /\ PayloadValid(d, other) \/ SameAnchorCompanion(selected, other)
                /\ FloorConsistent(selected.wal, other.wal)

\* ... and the WAL prefix the recovery has to reach.
RecoveryFloor(d, selected) ==
    LET other == ReadSlotPlan(d, 1 - selected.slot) IN
    IF Present(other) THEN WalRecoveryFloor(selected.wal, other.wal)
    ELSE Anchor(selected.wal)
-----------------------------------------------------------------------------
(* commit_next_streaming_inner *)

\* A torn target may be recycled when its readable header cannot carry a
\* higher floor than the surviving slot.
TornCompanionCovered(d, latest, s, current) ==
    LET companion == ReadSlotPlan(d, s) IN
    /\ IsV2(latest) /\ companion # CorruptPlan /\ IsV2(companion)
    /\ SameAnchorCompanion(latest, companion)
    /\ Anchor(current) = Anchor(latest.wal)
    /\ current.base_serial >= latest.wal.base_serial

CommitSlot(latest) == IF Present(latest) THEN 1 - latest.slot ELSE 0

CommitAllowed(d, current, repair) ==
    LET latest == LatestValidSlot(d) IN
    /\ latest # CorruptPlan /\ ~latest.resetting
    /\ current = NoManifest => ~IsV2(latest)
    /\ current # NoManifest => \A s \in Slots :
           LET plan == ReadValidSlotPlan(d, s) IN
           \/ plan = NoPlan
           \/ /\ plan = CorruptPlan /\ s = CommitSlot(latest)
              /\ repair \/ TornCompanionCovered(d, latest, s, current)
           \/ /\ Present(plan) /\ ~plan.resetting
              /\ IsV2(plan) => /\ Anchor(plan.wal) = Anchor(current)
                               /\ plan.wal.base_serial <= current.base_serial

FlushOnly == [l \in {} |-> Zero]

PayloadBatch(slot, image) ==
    [l \in {slot} \X (1 .. ImageParts) |-> ImageSector(image, l[2])]

HeaderBatch(header) == [l \in {<<header.slot, 0>>} |-> header]

CommitHeader(d, image, current) ==
    LET latest == LatestValidSlot(d) IN
    SlotHeader(CommitSlot(latest), latest.generation + 1, image, current, FALSE)

\* The flush that precedes the choice of the slot, the payload, the header.
CommitProgram(d, image, current) ==
    LET header == CommitHeader(d, image, current) IN
    <<FlushOnly, PayloadBatch(header.slot, image), HeaderBatch(header)>>
-----------------------------------------------------------------------------
(* Running a program *)

BlankSnapshot == [l \in SnapAddress |-> Zero]

\* Slots that hold the given headers with intact payloads.
SnapshotOf(headers) ==
    [l \in SnapAddress |->
        LET h == headers[l[1]] IN
        IF ~Present(h) THEN Zero
        ELSE IF l[2] = 0 THEN h ELSE ImageSector(h.image, l[2])]

Idle == program = <<>>

IssueBatch ==
    /\ ~Idle /\ ~issued
    /\ snapMedia' = WriteSectors(snapMedia, Head(program))
    /\ issued' = TRUE
    /\ UNCHANGED <<snapStable, program>>

BatchBarrier ==
    /\ issued
    /\ snapStable' = snapMedia
    /\ program' = Tail(program)
    /\ issued' = FALSE
    /\ UNCHANGED snapMedia

\* A write or a flush returned an error: some of the batch may be written.
ProgramFails ==
    /\ ~Idle
    /\ \E part \in SUBSET DOMAIN Head(program) :
          snapMedia' = WriteSectors(snapMedia, [l \in part |-> Head(program)[l]])
    /\ program' = <<>> /\ issued' = FALSE
    /\ UNCHANGED snapStable

SnapPowerCut ==
    /\ \E d \in PowerCutOutcomes(snapStable, snapMedia) :
          snapMedia' = d /\ snapStable' = d
    /\ program' = <<>> /\ issued' = FALSE
=============================================================================
