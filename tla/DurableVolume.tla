--------------------------- MODULE DurableVolume ---------------------------
(***************************************************************************)
(* The executive's durable volume: components/ntos-executive/src,          *)
(* writable_fs.rs and writable_fs/{registry_wal, hive_wal, system_wal_fold,*)
(* snapshot_storage}.rs, driven by registry_mutation_work.rs.              *)
(*                                                                         *)
(* One reserve holds the two snapshot slots and the WAL.  Its single lease *)
(* is taken in turn by the boot, a SYSTEM registry mutation, a hive log    *)
(* append, a volume checkpoint and a WAL fold; `job' is the holder and its *)
(* phase.  The Configuration Manager (external, reached by IPC) admits one *)
(* mutation or checkpoint at a time.                                       *)
(*                                                                         *)
(* A volume image is [ver, sys, sidecar, hive, log]: a version standing    *)
(* for the ordinary files, the records the SYSTEM primary contains,        *)
(* whether SYSTEM.LOG still holds a journal of the legacy format, the      *)
(* records one other hive's primary contains and the records in its .LOG.  *)
(***************************************************************************)
EXTENDS WalSnapshot

LOCAL INSTANCE SequencesExt

CONSTANT Workloads  \* the workloads to explore, of which a behaviour is one

\* A workload bounds the SYSTEM mutations, the hive log appends, the writes to
\* ordinary files and the power cuts, and says whether the reserve was written
\* by the legacy format before.
ASSUME VolumeAssumption ==
    Workloads \subseteq
        [system : Nat, hive : Nat, version : Nat, cuts : Nat, legacy : BOOLEAN]

VARIABLES mode,      \* "boot", "mounted" or "refused" (boot failed closed)
          refusal,   \* the boot step that refused
          job,       \* the holder of the reserve lease
          live,      \* the mounted file system
          cm,        \* the SYSTEM hive of the Configuration Manager
          cmWork,    \* its one admitted mutation or checkpoint
          flags,     \* the executive's statics about the reserve
          ack,       \* history: what callers were told is durable
          doubt,     \* history: a record being committed, not yet reported
          used       \* how much of the workload was used, and the workload

volVars == <<mode, refusal, job, live, cm, cmWork, flags, ack, doubt, used>>

vars == <<walVars, snapVars, volVars>>
-----------------------------------------------------------------------------
(* Values *)

SystemPayload(id) == [type |-> "system", id |-> id, at |-> 0, seq |-> 0]

\* encode_hive_log_wal_payload: expected_log_len and the record's sequence.
HivePayload(id, fs) ==
    [type |-> "hive", id |-> id, at |-> Len(fs.log),
     seq |-> Len(fs.hive) + Len(fs.log) + 1]

FirstImage ==
    [ver |-> 0, sys |-> <<>>, sidecar |-> FALSE, hive |-> <<>>, log |-> <<>>]

HiveContent(fs) == fs.hive \o fs.log

NoJob == [kind |-> "none", phase |-> "idle", cont |-> NoToken, image |-> FirstImage,
          record |-> NoPayload, cm |-> <<>>, manifest |-> NoManifest,
          next |-> 0, hiveNext |-> FALSE, found |-> FALSE]

BootJob == [NoJob EXCEPT !.kind = "boot", !.phase = "probe"]

LeaseFree == job.kind = "none"

At(kind, phase) == job.kind = kind /\ job.phase = phase

Goto(phase) == job' = [job EXCEPT !.phase = phase]

CmIdle == [owner |-> "none", aborting |-> FALSE, record |-> NoPayload]

CleanFlags == [dirty |-> FALSE, blocked |-> FALSE, fold_required |-> FALSE,
               protected |-> FALSE, has_wal_records |-> FALSE]

ContinuationOf(w) ==
    [held |-> TRUE, incarnation |-> w.incarnation, record_end_lbas |-> w.record_end_lbas]

EmptyContinuation(inc) == [held |-> TRUE, incarnation |-> inc, record_end_lbas |-> <<>>]

LegacySlot(s) ==
    SlotHeader(s, s + 1, [FirstImage EXCEPT !.ver = s, !.sidecar = TRUE], NoManifest, FALSE)

\* What legacy commits leave: two slots, the older one perhaps torn by an
\* interrupted third commit.
LegacyStores ==
    LET both == SnapshotOf([s \in Slots |-> LegacySlot(s)]) IN
    {both, [both EXCEPT ![<<0, 1>>] = ImageSector(NoImage, 1)]}

\* The version of the newest legacy slot.
FirstVersion == IF used.of.legacy THEN 1 ELSE 0

VolumeInit ==
    /\ WalInit
    /\ \E w \in Workloads : used = [system |-> 0, hive |-> 0, cuts |-> 0, of |-> w]
    /\ snapMedia \in IF used.of.legacy THEN LegacyStores ELSE {BlankSnapshot}
    /\ snapStable = snapMedia
    /\ program = <<>> /\ issued = FALSE
    /\ mode = "boot" /\ refusal = "none" /\ job = BootJob
    /\ live = FirstImage /\ cm = <<>> /\ cmWork = CmIdle /\ flags = CleanFlags
    /\ ack = [ver |-> FirstVersion, sys |-> <<>>, hive |-> <<>>]
    /\ doubt = {}

exec == <<live, cm, cmWork, flags>>
hist == <<ack, doubt, used>>
-----------------------------------------------------------------------------
(* I/O of the lease holder *)

\* The next phase's program, with the device untouched so far.
Run(p) ==
    /\ program' = p
    /\ UNCHANGED <<snapMedia, snapStable, issued>>

JobIssue ==
    /\ IssueBatch
    /\ UNCHANGED <<walVars, volVars>>

\* A flush covers the whole device.
JobBarrier ==
    /\ BatchBarrier
    /\ walStable' = walMedia
    /\ UNCHANGED <<walMedia, wal, token, walHistory, volVars>>

\* An effect whose outcome is unknown keeps the lease until the next boot.
LoseReserve ==
    /\ Goto("uncertain")
    /\ mode' = IF job.kind = "boot" THEN "refused" ELSE mode
    /\ refusal' = IF job.kind = "boot" THEN "io" ELSE refusal
    /\ flags' = [flags EXCEPT !.blocked = @ \/ job.kind # "mutation",
                              !.dirty = @ \/ job.kind \in {"checkpoint", "fold"}]

ProgramError ==
    /\ ProgramFails
    /\ LoseReserve
    /\ UNCHANGED <<walVars, live, cm, cmWork, hist>>

WalError ==
    /\ EffectFails
    /\ LoseReserve
    /\ UNCHANGED <<snapVars, live, cm, cmWork, hist>>

WalBarrier ==
    /\ PrepareBarrier \/ CommitBarrier \/ ClearSuffixBarrier \/ ClearHeaderBarrier
    /\ snapStable' = snapMedia
    /\ UNCHANGED <<snapMedia, program, issued, volVars>>

PowerCut ==
    /\ used.cuts < used.of.cuts
    /\ WalPowerCut /\ SnapPowerCut
    /\ mode' = "boot" /\ refusal' = "none" /\ job' = BootJob
    /\ live' = FirstImage /\ cm' = <<>> /\ cmWork' = CmIdle /\ flags' = CleanFlags
    /\ used' = [used EXCEPT !.cuts = @ + 1]
    /\ UNCHANGED <<ack, doubt>>
-----------------------------------------------------------------------------
(* Boot: restore_boot_snapshot_volume_once, repair_boot_snapshot_baseline, *)
(* verified_boot_log, initialize_empty_boot_system_wal,                    *)
(* migrate_composed_boot_system, publish                                   *)

\* MOUNT_BLOCKED for the rest of this boot.
Refuse(why) ==
    /\ mode' = "refused" /\ refusal' = why
    /\ flags' = [flags EXCEPT !.blocked = TRUE]
    /\ Goto("refused")
    /\ UNCHANGED <<walVars, snapVars, live, cm, cmWork, hist>>

bootFrame == <<mode, refusal, exec, hist>>

Resetting(d) == CHOOSE s \in Slots : ReadSlotPlan(d, s).resetting

V2Slot(d) == CHOOSE s \in Slots : IsV2(ReadSlotPlan(d, s))

BootProbe ==
    /\ At("boot", "probe")
    /\ LET state == BootRecoveryState(snapMedia) IN
       \/ state = "corrupt" /\ Refuse("probe")
       \/ /\ state = "resetting"
          /\ LET next == ReadSlotPlan(snapMedia, Resetting(snapMedia)).wal.incarnation IN
             IF ResumeAllowed(snapMedia, walMedia, next)
             THEN /\ Run(ResetRestProgram(snapMedia, next))
                  /\ job' = [job EXCEPT !.phase = "reset_rest", !.next = next]
                  /\ UNCHANGED <<walVars, bootFrame>>
             ELSE Refuse("resume")
       \/ /\ state = "interrupted_empty_baseline"
          /\ job' = [job EXCEPT !.phase = "baseline_scan",
                       !.next = ReadSlotPlan(snapMedia, V2Slot(snapMedia)).wal.incarnation]
          /\ UNCHANGED <<walVars, snapVars, bootFrame>>
       \/ /\ state = "ready" /\ Goto("select")
          /\ UNCHANGED <<walVars, snapVars, bootFrame>>

\* A read fails anywhere before publication.
BootReadFails ==
    /\ job.kind = "boot" /\ mode = "boot" /\ Idle /\ wal.io = "idle"
    /\ Refuse("io")

\* RegistryWal::recover under the lease of the boot.
BootRecover(inc, phase) ==
    \/ RecoverOk(inc) /\ Goto(phase) /\ UNCHANGED <<snapVars, bootFrame>>
    \/ ScanFails(walMedia, inc) /\ Refuse("scan")

BootScan ==
    \/ At("boot", "baseline_scan") /\ BootRecover(job.next, "baseline")
    \/ At("boot", "scan") /\ BootRecover(job.next, "replay")
    \/ At("boot", "first_scan") /\ BootRecover(Incarnation, "first")

BootClearTail ==
    /\ At("boot", "baseline") \/ At("boot", "replay")
    /\ ClearRecoveredTail
    /\ UNCHANGED <<snapVars, volVars>>

\* WalSnapshotBaselineRepair::repair on the interrupted baseline.
BootBaseline ==
    /\ At("boot", "baseline") /\ wal.state = "Ready"
    /\ LET outcome == RepairOutcome(snapMedia, job.next) IN
       IF wal.record_end_lbas # <<>> \/ ~(outcome = "complete" \/ RepairAllowed(snapMedia, job.next))
       THEN Refuse("baseline")
       ELSE /\ Run(IF outcome = "complete" THEN <<FlushOnly>>
                   ELSE RepairProgram(snapMedia, job.next))
            /\ IntoDevice
            /\ Goto("baseline_done")
            /\ UNCHANGED bootFrame

BootRepaired ==
    /\ At("boot", "baseline_done") /\ Idle
    /\ Goto("select")
    /\ UNCHANGED <<walVars, snapVars, bootFrame>>

\* restore_volume_snapshot_with_metadata_from_store
BootSelect ==
    /\ At("boot", "select")
    /\ LET latest == LatestValidSlot(snapMedia) IN
       IF latest = CorruptPlan \/ (latest # NoPlan /\ ~SelectionUsable(snapMedia, latest))
       THEN Refuse("select")
       ELSE /\ job' = [job EXCEPT
                  !.phase = IF IsV2(latest) THEN "scan" ELSE "first_scan",
                  !.next = RecoveryFloor(snapMedia, latest).incarnation,
                  !.found = latest # NoPlan]
            /\ UNCHANGED <<walVars, snapVars, bootFrame>>

\* Mutant: the composed hive is put on a fresh volume.
ComposedFresh(fs) == FirstImage

\* fold_boot_system_sidecar: the composed hive replaces the primary, the
\* sidecar is emptied.
Composed(fs) == [fs EXCEPT !.sidecar = FALSE]

\* initialize, or migrate with its first repair_empty_wal_baseline: the
\* composed image becomes the first v2 slot.
BootFirst ==
    /\ At("boot", "first")
    /\ LET image == IF job.found THEN Composed(LatestValidSlot(snapMedia).image) ELSE FirstImage
           empty == EmptyManifest(Incarnation) IN
       IF \/ wal.state # "Ready" \/ wal.record_end_lbas # <<>>
          \/ job.found /\ RepairOutcome(snapMedia, Incarnation) # "legacy"
          \/ ~CommitAllowed(snapMedia, empty, TRUE)
       THEN Refuse("first")
       ELSE /\ Run(CommitProgram(snapMedia, image, empty))
            /\ IntoDevice
            /\ job' = [job EXCEPT !.phase = "first_done", !.image = image, !.cm = image.sys]
            /\ UNCHANGED bootFrame

\* initialize and migrate: the second slot.
BootSecond ==
    /\ At("boot", "first_done") /\ Idle
    /\ IF RepairAllowed(snapMedia, Incarnation)
       THEN /\ Run(RepairProgram(snapMedia, Incarnation))
            /\ job' = [job EXCEPT !.phase = "publish", !.cont = EmptyContinuation(Incarnation)]
            /\ UNCHANGED <<walVars, bootFrame>>
       ELSE Refuse("second")

\* replay_hive_log_wal_payload, after validate_first_record.
ReplayHive(acc, p) ==
    LET log == acc.fs.log IN
    IF ~acc.ok \/ Len(log) < p.at \/ Len(acc.fs.hive) + p.at + 1 # p.seq
    THEN [acc EXCEPT !.ok = FALSE]
    ELSE IF Len(log) = p.at THEN [acc EXCEPT !.fs.log = Append(@, p.id)]
    ELSE [acc EXCEPT !.ok = log[p.at + 1] = p.id]

IsHive(p) == p.type = "hive"

\* Mutant: the whole WAL is replayed, records the image contains included.
SuffixFromStart(records, base) == records

\* records().get(base..)
Suffix(records, base) == SubSeq(records, base + 1, Len(records))

ReplayAll(fs, records) ==
    FoldLeft(ReplayHive, [ok |-> TRUE, fs |-> fs], SelectSeq(records, IsHive))

SystemIds(records) ==
    LET system == SelectSeq(records, LAMBDA p : ~IsHive(p)) IN
    [i \in DOMAIN system |-> system[i].id]

\* verified_boot_log, then publish() up to the anchor update.
BootReplay ==
    /\ At("boot", "replay") /\ wal.state = "Ready"
    /\ LET latest == LatestValidSlot(snapMedia)
           floor == RecoveryFloor(snapMedia, latest)
           ends == wal.record_end_lbas
           base == latest.wal.base_serial
           suffix == Suffix(ParsedRecords(walMedia, ends), base)
           replayed == ReplayAll(latest.image, suffix) IN
       IF \/ Len(ends) < base
          \/ ~NamesRecordEnd(ends, floor.serial, floor.end_lba)
       THEN Refuse("floor")
       ELSE IF ~replayed.ok THEN Refuse("replay")
       ELSE IF ~AnchorAdmitted(snapMedia, wal.incarnation, ends) THEN Refuse("anchor")
       ELSE /\ Run(AnchorProgram(snapMedia, ends))
            /\ IntoDevice
            /\ job' = [job EXCEPT !.phase = "publish", !.cont = ContinuationOf(wal),
                                  !.image = replayed.fs,
                                  !.cm = latest.image.sys \o SystemIds(suffix)]
            /\ flags' = [flags EXCEPT !.fold_required = SystemIds(suffix) # <<>>,
                             !.protected = \E i \in DOMAIN suffix : IsHive(suffix[i])]
            /\ UNCHANGED <<mode, refusal, live, cm, cmWork, hist>>

\* install_wal_continuation, the lease dropped, install_writable_fs, which
\* marks the volume dirty when it provisions a file or stamps a node.
BootPublish ==
    /\ At("boot", "publish") /\ Idle
    /\ token' = job.cont
    /\ mode' = "mounted" /\ job' = NoJob
    /\ live' = job.image /\ cm' = job.cm
    /\ \E changed \in BOOLEAN : flags' = [flags EXCEPT !.dirty = changed]
    /\ ack' = [ack EXCEPT !.sys = job.cm, !.hive = HiveContent(job.image)]
    /\ doubt' = {}
    /\ UNCHANGED <<walMedia, walStable, wal, walHistory, snapVars, refusal, cmWork,
                   used>>
-----------------------------------------------------------------------------
(* Ordinary files *)

Mounted == mode = "mounted"

\* writable_fs() returns the mounted file system.
FsUsable == Mounted /\ ~flags.blocked

liveFrame == <<mode, refusal>>

\* Any write outside the registry; it may fall inside another job's I/O.
LiveWrite ==
    /\ FsUsable /\ live.ver < FirstVersion + used.of.version
    /\ live' = [live EXCEPT !.ver = @ + 1]
    /\ flags' = [flags EXCEPT !.dirty = TRUE]
    /\ UNCHANGED <<walVars, snapVars, liveFrame, job, cm, cmWork, hist>>

\* The write check of a node with wal_protected set.
LogWritable == ~flags.protected

\* A hive checkpoint: the primary takes over the records of its log.  The
\* hive's own log appends are serialised with it.
RewriteLog ==
    /\ FsUsable /\ LogWritable /\ live.log # <<>>
    /\ job.kind # "hive" /\ ~job.hiveNext
    /\ live' = [live EXCEPT !.hive = @ \o live.log, !.log = <<>>]
    /\ flags' = [flags EXCEPT !.dirty = TRUE]
    /\ UNCHANGED <<walVars, snapVars, liveFrame, job, cm, cmWork, hist>>
-----------------------------------------------------------------------------
(* checkpoint_dirty_volume *)

StartCheckpoint(record) ==
    IF ~CheckpointManifestOk(snapMedia)
    THEN /\ flags' = [flags EXCEPT !.dirty = TRUE, !.blocked = TRUE]
         /\ UNCHANGED <<snapVars, job>>
    ELSE LET m == LatestValidSlot(snapMedia).wal IN
         IF CommitAllowed(snapMedia, m, FALSE)
         THEN /\ Run(CommitProgram(snapMedia, live, m))
              /\ job' = [NoJob EXCEPT !.kind = "checkpoint", !.phase = "commit",
                             !.image = live, !.record = record,
                             !.hiveNext = record # NoPayload]
              /\ flags' = [flags EXCEPT !.dirty = FALSE]
         ELSE /\ job' = [NoJob EXCEPT !.kind = "checkpoint", !.phase = "uncertain"]
              /\ flags' = [flags EXCEPT !.dirty = TRUE, !.blocked = TRUE]
              /\ UNCHANGED snapVars

Checkpoint ==
    /\ FsUsable /\ LeaseFree /\ flags.dirty
    /\ StartCheckpoint(NoPayload)
    /\ UNCHANGED <<walVars, liveFrame, live, cm, cmWork, hist>>

\* Reading the manifest for a checkpoint, a hive append or a fold fails.
ManifestReadFails ==
    /\ FsUsable /\ LeaseFree
    /\ \E dirty \in {flags.dirty, TRUE} :
          flags' = [flags EXCEPT !.dirty = dirty, !.blocked = TRUE]
    /\ UNCHANGED <<walVars, snapVars, liveFrame, job, live, cm, cmWork, hist>>

\* Mutant: the dirty bit is cleared once the commit has returned.
CheckpointReturnsClean ==
    /\ At("checkpoint", "commit") /\ Idle
    /\ job' = NoJob
    /\ flags' = [flags EXCEPT !.dirty = FALSE]
    /\ ack' = [ack EXCEPT !.ver = job.image.ver]
    /\ UNCHANGED <<walVars, snapVars, liveFrame, live, cm, cmWork, doubt, used>>

\* The lease is dropped; a hive append that needed the baseline goes on
\* before anyone else can take it.
CheckpointReturns ==
    /\ At("checkpoint", "commit") /\ Idle
    /\ job' = IF job.hiveNext
              THEN [NoJob EXCEPT !.kind = "hive", !.phase = "admit", !.record = job.record]
              ELSE NoJob
    /\ ack' = [ack EXCEPT !.ver = job.image.ver]
    /\ UNCHANGED <<walVars, snapVars, liveFrame, exec, doubt, used>>
-----------------------------------------------------------------------------
(* Appending one record: resume the continuation, begin, prepare, marker,  *)
(* advance both anchors                                                    *)

\* The paired manifest is readable and take_wal_continuation finds its token.
TokenMatches ==
    /\ token.held
    /\ WalAnchor(token.incarnation, token.record_end_lbas)
           = Anchor(LatestValidSlot(snapMedia).wal)

ReserveAdmits == PairedManifestOk(snapMedia) /\ TokenMatches

Fits(p) == PrefixEnd(token.record_end_lbas) + FrameLength(p) <= SectorCount

\* resume_from_continuation and begin: no device effect.
AdmitRecord(p) ==
    /\ ReserveAdmits /\ Fits(p) /\ BoundariesValid(token.record_end_lbas)
    /\ wal' = [ReadyWal(token.incarnation, token.record_end_lbas) EXCEPT
                   !.state = "PendingPrepare", !.pending = p]
    /\ token' = NoToken
    /\ UNCHANGED <<walMedia, walStable, walHistory>>

RecordPrepare ==
    /\ job.kind \in {"mutation", "hive"} /\ job.phase = "durable"
    /\ PrepareWrite
    /\ UNCHANGED <<snapVars, volVars>>

\* The marker: after the CM commit for a mutation, at once for a hive log.
RecordMarker ==
    /\ At("mutation", "marker") \/ At("hive", "durable")
    /\ CommitWrite
    /\ doubt' = {[type |-> wal.pending.type, id |-> wal.pending.id]}
    /\ UNCHANGED <<snapVars, mode, refusal, job, exec, ack, used>>

\* admit_verified_wal over the committed prefix.
RecordAnchor ==
    /\ At("mutation", "marker") \/ At("hive", "durable")
    /\ wal.state = "Ready"
    /\ IF AnchorAdmitted(snapMedia, wal.incarnation, wal.record_end_lbas)
       THEN /\ Run(AnchorProgram(snapMedia, wal.record_end_lbas))
            /\ IntoDevice
            /\ job' = [job EXCEPT !.phase = "anchor", !.cont = ContinuationOf(wal)]
            /\ UNCHANGED <<mode, refusal, exec, hist>>
       ELSE /\ LoseReserve
            /\ UNCHANGED <<walVars, snapVars, live, cm, cmWork, hist>>
-----------------------------------------------------------------------------
(* A SYSTEM mutation: registry_mutation_work.rs over writable_fs/registry_wal.rs *)

\* Phase Begin and Prepare: CM admits the mutation.
MutationBegin ==
    /\ Mounted /\ cmWork = CmIdle /\ used.system < used.of.system
    /\ cmWork' = [owner |-> "mutation", aborting |-> FALSE,
                  record |-> SystemPayload(used.system + 1)]
    /\ used' = [used EXCEPT !.system = @ + 1]
    /\ UNCHANGED <<walVars, snapVars, liveFrame, job, live, cm, flags, ack, doubt>>

MutationPending == cmWork.owner = "mutation" /\ ~cmWork.aborting

\* Phase Admit; a busy lease is retried.
MutationAdmit ==
    /\ MutationPending /\ FsUsable /\ LeaseFree
    /\ AdmitRecord(cmWork.record)
    /\ job' = [NoJob EXCEPT !.kind = "mutation", !.phase = "durable"]
    /\ UNCHANGED <<snapVars, liveFrame, exec, hist>>

\* The mutation CM has admitted owns the lease.
MutationHoldsLease == job.kind = "mutation" /\ job.phase # "release"

\* Phase Admit: the file system is blocked, or the journal refuses the
\* record (no space, no manifest, no token).
MutationRefused ==
    /\ MutationPending /\ ~MutationHoldsLease
    /\ ~FsUsable \/ (LeaseFree /\ ~(ReserveAdmits /\ Fits(cmWork.record)))
    /\ cmWork' = [cmWork EXCEPT !.aborting = TRUE]
    /\ UNCHANGED <<walVars, snapVars, liveFrame, job, live, cm, flags, hist>>

\* Mutant: a cancellation is honoured after the CM commit.
MutationCancelledLate ==
    /\ MutationPending
    /\ MutationHoldsLease => job.phase \in {"durable", "marker"} /\ wal.io = "idle"
    /\ cmWork' = [cmWork EXCEPT !.aborting = TRUE]
    /\ job' = IF MutationHoldsLease THEN [job EXCEPT !.phase = "abort"] ELSE job
    /\ UNCHANGED <<walVars, snapVars, liveFrame, live, cm, flags, hist>>

\* The caller cancels before the CM commit, or a read fails: Phase Rollback.
MutationCancelled ==
    /\ MutationPending
    /\ MutationHoldsLease => job.phase = "durable" /\ wal.io = "idle"
    /\ cmWork' = [cmWork EXCEPT !.aborting = TRUE]
    /\ job' = IF MutationHoldsLease THEN [job EXCEPT !.phase = "abort"] ELSE job
    /\ UNCHANGED <<walVars, snapVars, liveFrame, live, cm, flags, hist>>

\* Phase DurableAbort: cancel_pending, or clear the prepared frame.
MutationUndo ==
    /\ At("mutation", "abort")
    /\ CancelPending \/ AbortPrepared
    /\ UNCHANGED <<snapVars, volVars>>

\* Mutant: an abort without a journal is never acknowledged.
MutationAbortedHolding ==
    /\ cmWork.aborting
    /\ At("mutation", "abort") /\ IntoContinuation /\ job' = NoJob
    /\ cmWork' = CmIdle
    /\ UNCHANGED <<snapVars, liveFrame, live, cm, flags, hist>>

\* Phases AcknowledgeAbort and ReleaseRollback.
MutationAborted ==
    /\ cmWork.aborting
    /\ \/ ~MutationHoldsLease /\ UNCHANGED <<walVars, job>>
       \/ At("mutation", "abort") /\ IntoContinuation /\ job' = NoJob
    /\ cmWork' = CmIdle
    /\ UNCHANGED <<snapVars, liveFrame, live, cm, flags, hist>>

\* Phase Commit: CM applies the mutation behind the prepared frame.
MutationCommit ==
    /\ At("mutation", "durable") /\ wal.state = "Prepared" /\ wal.io = "idle"
    /\ cm' = Append(cm, cmWork.record.id)
    /\ Goto("marker")
    /\ UNCHANGED <<walVars, snapVars, liveFrame, live, cmWork, flags, hist>>

\* CommitDurable done, Acknowledge: CM is free for the next one.
MutationAcknowledge ==
    /\ At("mutation", "anchor") /\ Idle
    /\ flags' = [flags EXCEPT !.fold_required = TRUE]
    /\ job' = [job EXCEPT !.phase = "release", !.record = cmWork.record]
    /\ cmWork' = CmIdle
    /\ UNCHANGED <<walVars, snapVars, liveFrame, live, cm, hist>>

\* ReleasePublication, Complete.
MutationComplete ==
    /\ At("mutation", "release")
    /\ token' = job.cont /\ job' = NoJob
    /\ ack' = [ack EXCEPT !.sys = Append(@, job.record.id)]
    /\ doubt' = {}
    /\ UNCHANGED <<walMedia, walStable, wal, walHistory, snapVars, liveFrame, exec, used>>
-----------------------------------------------------------------------------
(* commit_non_system_hive_log_wal *)

\* prepare_log_baseline: without a live cache entry the volume is
\* checkpointed first.
HiveBegin ==
    /\ FsUsable /\ LeaseFree /\ used.hive < used.of.hive
    /\ LET record == HivePayload(used.hive + 1, live) IN
       IF flags.has_wal_records
       THEN /\ job' = [NoJob EXCEPT !.kind = "hive", !.phase = "admit", !.record = record]
            /\ UNCHANGED <<snapVars, flags>>
       ELSE StartCheckpoint(record)
    /\ used' = [used EXCEPT !.hive = @ + 1]
    /\ UNCHANGED <<walVars, liveFrame, live, cm, cmWork, ack, doubt>>

HiveAdmit ==
    /\ At("hive", "admit")
    /\ AdmitRecord(job.record)
    /\ Goto("durable")
    /\ flags' = [flags EXCEPT !.protected = TRUE]
    /\ UNCHANGED <<snapVars, liveFrame, live, cm, cmWork, hist>>

\* protect_wal_log refuses (a hard link, a pending delete, no memory): the
\* reservation is converted with into_continuation().expect(..), which only
\* a Ready owner satisfies.
HiveProtectRefused ==
    /\ At("hive", "admit")
    /\ AdmitRecord(job.record)
    /\ Goto("panicked")
    /\ UNCHANGED <<snapVars, liveFrame, exec, hist>>

\* Out of space, or the manifest or the token cannot be used.
HiveRefused ==
    /\ At("hive", "admit")
    /\ job' = NoJob
    /\ \/ ReserveAdmits /\ ~Fits(job.record) /\ UNCHANGED flags
       \/ flags' = [flags EXCEPT !.blocked = TRUE]
    /\ UNCHANGED <<walVars, snapVars, liveFrame, live, cm, cmWork, hist>>

\* The live append, the baseline entry, the token, success to the caller.
HiveApply ==
    /\ At("hive", "anchor") /\ Idle
    /\ LET applied == ReplayHive([ok |-> TRUE, fs |-> live], job.record) IN
       IF applied.ok
       THEN /\ live' = applied.fs
            /\ flags' = [flags EXCEPT !.has_wal_records = TRUE]
            /\ token' = job.cont /\ job' = NoJob
            /\ ack' = [ack EXCEPT !.hive = Append(@, job.record.id)]
            /\ doubt' = {}
            /\ UNCHANGED liveFrame
       ELSE LoseReserve /\ UNCHANGED <<live, token, ack, doubt>>
    /\ UNCHANGED <<walMedia, walStable, wal, walHistory, snapVars, cm, cmWork, used>>
-----------------------------------------------------------------------------
(* fold_system_wal_if_dirty *)

\* config_manager_prepare_system_hive_checkpoint returns an image.
CmDirty == cm # live.sys

FoldedManifest(m) == [m EXCEPT !.base_serial = m.high_water_serial]

\* Admission up to the first commit of fold_retained.  A busy CM or nothing
\* to fold leaves everything as it was.
FoldBegin ==
    /\ FsUsable /\ LeaseFree /\ cmWork = CmIdle
    /\ LET m == LatestValidSlot(snapMedia).wal
           folded == FoldedManifest(m)
           fs == [live EXCEPT !.sys = cm] IN
       IF ~PairedManifestOk(snapMedia)
       THEN /\ flags' = [flags EXCEPT !.blocked = TRUE]
            /\ UNCHANGED <<snapVars, job, live, cmWork, token>>
       ELSE IF ~CmDirty /\ flags.fold_required
       THEN /\ flags' = [flags EXCEPT !.blocked = TRUE, !.dirty = TRUE]
            /\ UNCHANGED <<snapVars, job, live, cmWork, token>>
       ELSE /\ CmDirty \/ m.base_serial # m.high_water_serial
            /\ cmWork' = IF CmDirty THEN [CmIdle EXCEPT !.owner = "checkpoint"] ELSE cmWork
            /\ IF TokenMatches /\ CommitAllowed(snapMedia, folded, FALSE)
               THEN /\ Run(CommitProgram(snapMedia, fs, folded))
                    /\ job' = [NoJob EXCEPT !.kind = "fold", !.phase = "first",
                                   !.cont = token, !.image = fs, !.manifest = folded,
                                   !.found = CmDirty]
                    /\ flags' = [flags EXCEPT !.dirty = TRUE]
               ELSE /\ job' = [NoJob EXCEPT !.kind = "fold", !.phase = "uncertain"]
                    /\ flags' = [flags EXCEPT !.dirty = TRUE, !.blocked = TRUE]
                    /\ UNCHANGED snapVars
            /\ live' = IF TokenMatches THEN fs ELSE live
            /\ token' = IF TokenMatches THEN NoToken ELSE token
    /\ UNCHANGED <<walMedia, walStable, wal, walHistory, liveFrame, cm, hist>>

foldFrame == <<liveFrame, live, cm, cmWork, hist>>

FoldGivesUp == LoseReserve /\ UNCHANGED <<walVars, snapVars, live, cm, cmWork, hist>>

FoldSecond ==
    /\ At("fold", "first") /\ Idle
    /\ IF CommitAllowed(snapMedia, job.manifest, FALSE)
       THEN /\ Run(CommitProgram(snapMedia, job.image, job.manifest))
            /\ Goto("second")
            /\ UNCHANGED <<walVars, foldFrame, flags>>
       ELSE FoldGivesUp

\* Both slots are folded: reclaim the epoch, or go straight to the CM ack.
FoldRollover ==
    /\ At("fold", "second") /\ Idle
    /\ IF ~NeedsEpochRollover(job.manifest.high_water_end_lba)
       THEN Goto("ack") /\ UNCHANGED <<walVars, snapVars, foldFrame, flags>>
       ELSE IF RolloverAdmitted(snapMedia, Anchor(job.manifest))
       THEN LET next == job.manifest.incarnation + 1 IN
            /\ Run(PublishResettingProgram(snapMedia, next))
            /\ job' = [job EXCEPT !.phase = "publish_resetting", !.next = next]
            /\ UNCHANGED <<walVars, foldFrame, flags>>
       ELSE FoldGivesUp

FoldResetRest ==
    /\ At("fold", "publish_resetting") /\ Idle
    /\ Run(ResetRestProgram(snapMedia, job.next))
    /\ Goto("reset_rest")
    /\ UNCHANGED <<walVars, foldFrame, flags>>

\* Mutant: the erasure starts while a header of the old epoch remains.
RolloverEraseEarly ==
    /\ job.phase \in {"publish_resetting", "reset_rest"} /\ Idle
    /\ walMedia' = WriteSectors(walMedia, EraseBody)
    /\ Goto("erase_body")
    /\ UNCHANGED <<walStable, wal, token, walHistory, snapVars, foldFrame, flags>>

\* finish(), of a fold and of a boot that resumes it.
RolloverErase ==
    /\ job.phase = "reset_rest" /\ Idle
    /\ IF ResetComplete(snapMedia, job.next)
       THEN /\ walMedia' = WriteSectors(walMedia, EraseBody)
            /\ Goto("erase_body")
            /\ UNCHANGED <<walStable, wal, token, walHistory, snapVars, foldFrame, flags>>
       ELSE FoldGivesUp

RolloverEraseHead ==
    /\ job.phase = "erase_body"
    /\ walStable' = walMedia
    /\ walMedia' = WriteSectors(walMedia, EraseHead)
    /\ Goto("erase_head")
    /\ UNCHANGED <<wal, token, walHistory, snapVars, foldFrame, flags>>

RolloverReady ==
    /\ job.phase = "erase_head"
    /\ walStable' = walMedia
    /\ settled' = <<>> /\ settledEnds' = <<>> /\ maybe' = <<>>
    /\ Run(ReadyProgram(snapMedia, job.next))
    /\ Goto("ready")
    /\ UNCHANGED <<walMedia, wal, token, foldFrame, flags>>

RolloverEraseFails ==
    /\ job.phase \in {"erase_body", "erase_head"}
    /\ LoseReserve
    /\ UNCHANGED <<walVars, snapVars, live, cm, cmWork, hist>>

RolloverDone ==
    /\ job.phase = "ready" /\ Idle
    /\ job' = IF job.kind = "boot" THEN [job EXCEPT !.phase = "select"]
              ELSE [job EXCEPT !.phase = "ack", !.cont = EmptyContinuation(job.next)]
    /\ UNCHANGED <<walVars, snapVars, foldFrame, flags>>

\* CM takes a checkpoint acknowledgement; a repeated one changes nothing.
CmAcknowledged == IF cmWork.owner = "checkpoint" THEN CmIdle ELSE cmWork

\* The acknowledgement did not reach CM, or its answer was lost and CM already
\* serves the next mutation; it is sent again.
FoldAckUncertain ==
    /\ At("fold", "ack") /\ job.found
    /\ flags' = [flags EXCEPT !.blocked = TRUE, !.dirty = TRUE]
    /\ cmWork' \in {cmWork, CmAcknowledged}
    /\ UNCHANGED <<walVars, snapVars, liveFrame, live, cm, hist, job>>

\* acknowledge_retained and install_retained.
FoldComplete ==
    /\ At("fold", "ack")
    /\ token' = job.cont /\ job' = NoJob /\ cmWork' = CmAcknowledged
    /\ flags' = [dirty |-> flags.dirty, blocked |-> FALSE, fold_required |-> FALSE,
                 protected |-> FALSE, has_wal_records |-> FALSE]
    /\ UNCHANGED <<walMedia, walStable, wal, walHistory, snapVars, liveFrame, live, cm, hist>>
-----------------------------------------------------------------------------
BootNext ==
    \/ BootProbe \/ BootReadFails \/ BootScan \/ BootClearTail \/ BootBaseline
    \/ BootRepaired \/ BootSelect \/ BootFirst \/ BootSecond \/ BootReplay
    \/ BootPublish

DeviceNext ==
    \/ JobIssue \/ JobBarrier \/ ProgramError \/ WalError \/ WalBarrier \/ PowerCut

RecordNext ==
    \/ RecordPrepare \/ RecordMarker \/ RecordAnchor
    \/ MutationBegin \/ MutationAdmit \/ MutationRefused
    \/ MutationCancelled \/ MutationUndo \/ MutationAborted \/ MutationCommit \/ MutationAcknowledge \/ MutationComplete
    \/ HiveBegin \/ HiveAdmit \/ HiveProtectRefused \/ HiveRefused \/ HiveApply

FoldNext ==
    \/ FoldBegin \/ FoldSecond \/ FoldRollover \/ FoldResetRest
    \/ RolloverErase \/ RolloverEraseHead \/ RolloverReady \/ RolloverEraseFails
    \/ RolloverDone \/ FoldAckUncertain \/ FoldComplete

VolumeNext ==
    \/ BootNext \/ DeviceNext \/ RecordNext \/ FoldNext
    \/ LiveWrite \/ RewriteLog \/ Checkpoint \/ ManifestReadFails \/ CheckpointReturns

\* What the service loop and the drive keep doing for whoever holds the
\* lease, for a boot and for an admitted mutation: no new requests, no
\* cancellation, no error.
Progress ==
    \/ JobIssue \/ JobBarrier \/ WalBarrier
    \/ BootProbe \/ BootScan \/ BootClearTail \/ BootBaseline \/ BootRepaired
    \/ BootSelect \/ BootFirst \/ BootSecond \/ BootReplay \/ BootPublish
    \/ RecordPrepare \/ RecordMarker \/ RecordAnchor
    \/ MutationAdmit \/ MutationRefused \/ MutationUndo \/ MutationAborted
    \/ MutationCommit \/ MutationAcknowledge \/ MutationComplete
    \/ HiveAdmit \/ HiveRefused \/ HiveApply \/ CheckpointReturns
    \/ FoldSecond \/ FoldRollover \/ FoldResetRest \/ RolloverErase
    \/ RolloverEraseHead \/ RolloverReady \/ RolloverDone \/ FoldComplete

VolumeSpec == VolumeInit /\ [][VolumeNext]_vars

FairVolumeSpec == VolumeSpec /\ WF_vars(Progress)
-----------------------------------------------------------------------------
(* Properties *)

Contract == INSTANCE VolumeContract WITH
    registry <- [system |-> ack.sys, hive |-> ack.hive],
    inDoubt <- doubt,
    serving <- Mounted

\* The volume implements its contract: a boot restores exactly the reported
\* records in order, with or without the one record that was in doubt, and a
\* mounted volume never loses, repeats or reorders one.
ImplementsContract == Contract!ContractSpec

\* While mounted, the Configuration Manager and the live hive hold the
\* reported records and at most the one being committed, also across a fold
\* that moves records from the WAL into the primaries.
ServedRegistryIsReported ==
    Mounted =>
        /\ cm \in {ack.sys} \cup {Append(ack.sys, id) : id \in 1 .. used.system}
        /\ LeaseFree => cm = ack.sys
        /\ HiveContent(live) = ack.hive

\* Once a caller was told that a checkpoint succeeded, no later failure,
\* boot or repair brings back an older version of the files.
CheckpointedFilesSurvive == Mounted => live.ver >= ack.ver

\* The dirty bit covers every change the newest durable image lacks, also
\* one made while a checkpoint or a fold was writing.
DirtyBitCoversFiles ==
    Mounted /\ ~flags.dirty /\ LeaseFree =>
        LET image == LatestValidSlot(snapStable).image IN
        image.ver = live.ver /\ image.hive = live.hive

\* A free lease leaves nothing in the drive's cache, both slots intact under
\* one anchor, and the token that names exactly that anchor and what a scan
\* of the WAL would find: "no matching in-process token contradicts the
\* completed mutation/boot publication contract" (verify_durable_system_wal).
FreeReserveHasItsToken ==
    Mounted /\ LeaseFree =>
        /\ snapMedia = snapStable /\ walMedia = walStable /\ wal = NoWal
        /\ PairedManifestOk(snapStable) /\ TokenMatches
        /\ ScanYields(walStable, token.incarnation, token.record_end_lbas, 0)

\* The WAL is erased only when neither slot can need it any more: both
\* durable headers are of the next epoch and both images hold every
\* acknowledged record.
EraseAfterBothSlotsFolded ==
    job.phase \in {"erase_body", "erase_head"} =>
        \A s \in Slots :
            LET plan == ReadValidSlotPlan(snapStable, s) IN
            /\ plan.wal = EmptyManifest(job.next)
            /\ plan.image.sys = ack.sys /\ HiveContent(plan.image) = ack.hive

\* A boot is refused only for a read or write error, for a PREPARE header
\* lost while a later sector of the frame was kept, or for the legacy slot
\* of an interrupted migration being torn.  A power cut in a checkpoint, an
\* anchor update, a fold, an epoch rollover or a boot repair never leaves a
\* store its reader rejects.
BootRefusesOnlyKnownWindows ==
    /\ refusal \in {"none", "io", "probe", "scan"}
    /\ refusal = "scan" =>
           LET c == PrefixEnd(settledEnds) IN
           /\ walMedia[c] = Zero
           /\ \A l \in Lba : l > c => walMedia[l].kind \in {"zero", "data"}
    /\ refusal = "probe" =>
           \E s \in Slots : Torn(snapMedia, s) /\ Present(ReadSlotPlan(snapMedia, s))
                            /\ ~IsV2(ReadSlotPlan(snapMedia, s))

\* A mutation CM has admitted is acknowledged or aborted, whatever holds the
\* lease meanwhile, unless the power fails or an effect of unknown outcome
\* has claimed the reserve until the next boot.
MutationResolves ==
    cmWork.owner = "mutation" ~>
        (cmWork = CmIdle \/ job.phase \in {"uncertain", "panicked"})

=============================================================================
