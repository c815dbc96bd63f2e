----------------------------- MODULE RegistryWal -----------------------------
(***************************************************************************)
(* The bounded sector WAL of crates/nt-fs/src/registry_wal_store.rs.       *)
(*                                                                         *)
(* A record is a frame: a PREPARE header sector, the payload sectors, and  *)
(* a COMMIT marker sector written behind a barrier of its own.  One owner  *)
(* holds the device lease; it may lend its settled prefix to the process   *)
(* as a continuation token and be rebuilt from it without a scan, while a  *)
(* reboot must scan.                                                       *)
(*                                                                         *)
(* Every device effect is two steps here, the issue of a batch of writes   *)
(* and the barrier that ends it, so that a power cut or an I/O error falls *)
(* between them.  A payload stands for its bytes; the CRCs of the code are *)
(* taken to identify the payload they cover.                               *)
(***************************************************************************)
EXTENDS Integers, Sequences, SectorDevice

CONSTANTS Payload,          \* the payloads callers append
          PayloadSectors,   \* payload_sectors(len, size) of each of them
          NoPayload,        \* pending = None
          SectorCount,      \* sector_count() of the bounded WAL view
          Incarnation       \* the epoch the snapshot headers name

ASSUME WalAssumption ==
    /\ PayloadSectors \in [Payload -> Nat \ {0}]
    /\ NoPayload \notin Payload
    /\ SectorCount \in Nat /\ SectorCount >= 3
    /\ Incarnation \in Nat \ {0}

VARIABLES walMedia,    \* what a read of a WAL sector returns
          walStable,   \* what a power cut leaves at least
          wal,         \* the RegistryWal owner; state "Absent" when there is none
          token,       \* the RegistryWalContinuation held by the process
          settled,     \* history: records whose commit() or recovery succeeded
          settledEnds, \* history: the sector after the marker of each of them
          maybe        \* history: the record whose marker was issued, not settled

walHistory == <<settled, settledEnds, maybe>>

walVars == <<walMedia, walStable, wal, token, settled, settledEnds, maybe>>
-----------------------------------------------------------------------------
(* Sectors and frames *)

Lba == 0 .. SectorCount - 1

PrepareSector(inc, serial, p) ==
    [kind |-> "prepare", inc |-> inc, serial |-> serial, payload |-> p]

DataSector(p, part) == [kind |-> "data", payload |-> p, part |-> part]

CommitSector(inc, serial, p) ==
    [kind |-> "commit", inc |-> inc, serial |-> serial, payload |-> p]

FrameLength(p) == PayloadSectors[p] + 2

\* Sector k of the committed frame of payload p.
FrameSector(inc, serial, p, k) ==
    IF k = 0 THEN PrepareSector(inc, serial, p)
    ELSE IF k <= PayloadSectors[p] THEN DataSector(p, k)
    ELSE CommitSector(inc, serial, p)

\* Mutant: the marker sector is not compared.
HoldsFrameUnmarked(d, start, inc, serial, p) ==
    /\ start + FrameLength(p) <= SectorCount
    /\ \A k \in 0 .. PayloadSectors[p] :
           d[start + k] = FrameSector(inc, serial, p, k)

HoldsFrame(d, start, inc, serial, p) ==
    /\ start + FrameLength(p) <= SectorCount
    /\ \A k \in 0 .. PayloadSectors[p] + 1 :
           d[start + k] = FrameSector(inc, serial, p, k)

\* zero_suffix, with the sector it starts from.
ZeroFrom(d, start) == \A l \in Lba : l >= start => d[l] = Zero

ZeroSectors(first, last) == [l \in first .. last |-> Zero]
-----------------------------------------------------------------------------
(* recover: the scan.  The loop of the code parses frame after frame; ends *)
(* is the record_end_lbas it has pushed when it leaves the loop.           *)

FrameStart(ends, i) == IF i = 1 THEN 0 ELSE ends[i - 1]

PrefixEnd(ends) == FrameStart(ends, Len(ends) + 1)

\* Each frame parsed by the loop is complete, in serial order and marked.
CommittedPrefix(d, inc, ends) ==
    \A i \in 1 .. Len(ends) :
        \E p \in Payload :
            /\ ends[i] = FrameStart(ends, i) + FrameLength(p)
            /\ HoldsFrame(d, FrameStart(ends, i), inc, i, p)

\* Where the loop stops without an error: at the end of the device, at a
\* wholly zero rest, or at one unmarked frame of t payload sectors that is
\* followed by zeros only.
ScanStops(d, inc, ends, t) ==
    LET cursor == PrefixEnd(ends) IN
    \/ t = 0 /\ ZeroFrom(d, cursor)
    \/ \E p \in Payload :
           /\ t = PayloadSectors[p]
           /\ cursor + 1 + t < SectorCount
           /\ d[cursor] = PrepareSector(inc, Len(ends) + 1, p)
           /\ ZeroFrom(d, cursor + 1 + t)

ScanYields(d, inc, ends, t) ==
    CommittedPrefix(d, inc, ends) /\ ScanStops(d, inc, ends, t)

\* A frame takes at least three sectors.
EndLists ==
    UNION {[1 .. n -> 1 .. SectorCount] : n \in 0 .. SectorCount \div 3}

TailSizes == {0} \cup {PayloadSectors[p] : p \in Payload}

ScanFails(d, inc) ==
    ~ \E ends \in EndLists :
          /\ CommittedPrefix(d, inc, ends)
          /\ \E t \in TailSizes : ScanStops(d, inc, ends, t)

ParsedRecords(d, ends) ==
    [i \in 1 .. Len(ends) |-> d[FrameStart(ends, i)].payload]
-----------------------------------------------------------------------------
(* The owner *)

WalStates == {"Absent", "Ready", "RecoveredUncommitted", "PendingPrepare",
              "Prepared", "Uncertain", "Refused", "ReadFailed"}

\* The effect whose writes are issued and whose barrier is outstanding.
WalEffects == {"idle", "prepare", "marker", "clear_suffix", "clear_header"}

NoToken == [held |-> FALSE, incarnation |-> 0, record_end_lbas |-> <<>>]

NoWal == [state |-> "Absent", incarnation |-> 0, cursor |-> 0, next_serial |-> 1,
          record_end_lbas |-> <<>>, pending |-> NoPayload, tail |-> 0,
          io |-> "idle"]

ReadyWal(inc, ends) ==
    [NoWal EXCEPT !.state = "Ready", !.incarnation = inc,
                  !.cursor = PrefixEnd(ends), !.next_serial = Len(ends) + 1,
                  !.record_end_lbas = ends]

WalInit ==
    /\ walMedia = [l \in Lba |-> Zero]
    /\ walStable = walMedia
    /\ wal = NoWal
    /\ token = NoToken
    /\ settled = <<>> /\ settledEnds = <<>>
    /\ maybe = <<>>

RecoverOk(inc) ==
    /\ wal.state = "Absent" /\ ~token.held
    /\ \E ends \in EndLists : CommittedPrefix(walMedia, inc, ends) /\ \E t \in TailSizes :
          /\ ScanStops(walMedia, inc, ends, t)
          /\ wal' = [ReadyWal(inc, ends) EXCEPT
                         !.state = IF t = 0 THEN "Ready" ELSE "RecoveredUncommitted",
                         !.tail = t]
          /\ settled' = ParsedRecords(walMedia, ends)
          /\ settledEnds' = ends
    /\ maybe' = <<>>
    /\ UNCHANGED <<walMedia, walStable, token>>

\* Corrupt or WrongIncarnation: the boot path blocks the mount.
RecoverRefused(inc) ==
    /\ wal.state = "Absent" /\ ~token.held
    /\ ScanFails(walMedia, inc)
    /\ wal' = [NoWal EXCEPT !.state = "Refused"]
    /\ UNCHANGED <<walMedia, walStable, token, walHistory>>

\* read_sector or read_sectors failed during the scan.
RecoverReadFailed ==
    /\ wal.state = "Absent" /\ ~token.held
    /\ wal' = [NoWal EXCEPT !.state = "ReadFailed"]
    /\ UNCHANGED <<walMedia, walStable, token, walHistory>>

\* Mutant: the settled check accepts a prepared frame.
IntoContinuationPrepared ==
    /\ wal.state \in {"Ready", "Prepared"} /\ wal.io = "idle"
    /\ token' = [held |-> TRUE, incarnation |-> wal.incarnation,
                 record_end_lbas |-> wal.record_end_lbas]
    /\ wal' = NoWal
    /\ UNCHANGED <<walMedia, walStable, walHistory>>

\* into_continuation (after which the device lease is released).
IntoContinuation ==
    /\ wal.state = "Ready"
    /\ token' = [held |-> TRUE, incarnation |-> wal.incarnation,
                 record_end_lbas |-> wal.record_end_lbas]
    /\ wal' = NoWal
    /\ UNCHANGED <<walMedia, walStable, walHistory>>

\* into_device: the lease leaves without a token, so the next owner scans.
IntoDevice ==
    /\ wal.state = "Ready"
    /\ wal' = NoWal
    /\ UNCHANGED <<walMedia, walStable, token, walHistory>>

\* The structural check of resume_from_continuation.
BoundariesValid(ends) ==
    \A i \in 1 .. Len(ends) :
        ends[i] >= FrameStart(ends, i) + 3 /\ ends[i] <= SectorCount

ResumeFromContinuation ==
    /\ wal.state = "Absent" /\ token.held
    /\ BoundariesValid(token.record_end_lbas)
    /\ wal' = ReadyWal(token.incarnation, token.record_end_lbas)
    /\ token' = NoToken
    /\ UNCHANGED <<walMedia, walStable, walHistory>>

Begin(p) ==
    /\ wal.state = "Ready"
    /\ wal.cursor + FrameLength(p) <= SectorCount
    /\ wal' = [wal EXCEPT !.state = "PendingPrepare", !.pending = p]
    /\ UNCHANGED <<walMedia, walStable, token, walHistory>>

CancelPending ==
    /\ wal.state = "PendingPrepare" /\ wal.io = "idle"
    /\ wal' = [wal EXCEPT !.state = "Ready", !.pending = NoPayload]
    /\ UNCHANGED <<walMedia, walStable, token, walHistory>>

\* prepare: header and payload sectors are issued together ...
PrepareWrite ==
    /\ wal.state = "PendingPrepare" /\ wal.io = "idle"
    /\ walMedia' = WriteSectors(walMedia,
           [l \in wal.cursor .. wal.cursor + PayloadSectors[wal.pending] |->
               FrameSector(wal.incarnation, wal.next_serial, wal.pending,
                           l - wal.cursor)])
    /\ wal' = [wal EXCEPT !.io = "prepare"]
    /\ UNCHANGED <<walStable, token, walHistory>>

\* Mutant: prepare returns without its flush.
PrepareNoBarrier ==
    /\ wal.io = "prepare"
    /\ wal' = [wal EXCEPT !.state = "Prepared", !.io = "idle"]
    /\ UNCHANGED <<walMedia, walStable, token, walHistory>>

\* ... and become stable with one flush.
PrepareBarrier ==
    /\ wal.io = "prepare"
    /\ walStable' = walMedia
    /\ wal' = [wal EXCEPT !.state = "Prepared", !.io = "idle"]
    /\ UNCHANGED <<walMedia, token, walHistory>>

\* Mutant: the header sector is forgotten in the marker's address.
MarkerLbaShort(w) == w.cursor + PayloadSectors[w.pending]

MarkerLba(w) == w.cursor + 1 + PayloadSectors[w.pending]

CommitWrite ==
    /\ wal.state = "Prepared" /\ wal.io = "idle"
    /\ walMedia' = WriteSectors(walMedia,
           [l \in {MarkerLba(wal)} |->
               CommitSector(wal.incarnation, wal.next_serial, wal.pending)])
    /\ wal' = [wal EXCEPT !.io = "marker"]
    /\ maybe' = <<wal.pending>>
    /\ UNCHANGED <<walStable, token, settled, settledEnds>>

CommitBarrier ==
    /\ wal.io = "marker"
    /\ walStable' = walMedia
    /\ wal' = [wal EXCEPT !.state = "Ready", !.pending = NoPayload,
                          !.record_end_lbas = Append(@, MarkerLba(wal) + 1),
                          !.next_serial = @ + 1,
                          !.cursor = MarkerLba(wal) + 1,
                          !.io = "idle"]
    /\ settled' = Append(settled, wal.pending)
    /\ settledEnds' = Append(settledEnds, MarkerLba(wal) + 1)
    /\ maybe' = <<>>
    /\ UNCHANGED <<walMedia, token>>

\* clear_frame, first batch: payload and marker sectors, the header stays.
ClearSuffixWrite(n) ==
    /\ walMedia' = WriteSectors(walMedia, ZeroSectors(wal.cursor + 1, wal.cursor + 1 + n))
    /\ wal' = [wal EXCEPT !.io = "clear_suffix"]
    /\ UNCHANGED <<walStable, token, walHistory>>

ClearRecoveredTail ==
    /\ wal.state = "RecoveredUncommitted" /\ wal.io = "idle"
    /\ ClearSuffixWrite(wal.tail)

AbortPrepared ==
    /\ wal.state = "Prepared" /\ wal.io = "idle"
    /\ ClearSuffixWrite(PayloadSectors[wal.pending])

\* clear_frame: the barrier over the suffix, then the header's own batch.
ClearSuffixBarrier ==
    /\ wal.io = "clear_suffix"
    /\ walStable' = walMedia
    /\ walMedia' = WriteSectors(walMedia, ZeroSectors(wal.cursor, wal.cursor))
    /\ wal' = [wal EXCEPT !.io = "clear_header"]
    /\ UNCHANGED <<token, walHistory>>

ClearHeaderBarrier ==
    /\ wal.io = "clear_header"
    /\ walStable' = walMedia
    /\ wal' = [wal EXCEPT !.state = "Ready", !.pending = NoPayload, !.tail = 0,
                          !.io = "idle"]
    /\ UNCHANGED <<walMedia, token, walHistory>>

\* A write or flush returned an error: the owner keeps its lease for good.
EffectFails ==
    /\ wal.io # "idle"
    /\ wal' = [wal EXCEPT !.state = "Uncertain", !.io = "idle"]
    /\ UNCHANGED <<walMedia, walStable, token, walHistory>>

WalPowerCut ==
    /\ \E d \in PowerCutOutcomes(walStable, walMedia) :
          walMedia' = d /\ walStable' = d
    /\ wal' = NoWal
    /\ token' = NoToken
    /\ UNCHANGED walHistory

WalNext ==
    \/ RecoverOk(Incarnation)
    \/ RecoverRefused(Incarnation)
    \/ RecoverReadFailed
    \/ IntoContinuation
    \/ IntoDevice
    \/ ResumeFromContinuation
    \/ \E p \in Payload : Begin(p)
    \/ CancelPending
    \/ PrepareWrite
    \/ PrepareBarrier
    \/ CommitWrite
    \/ CommitBarrier
    \/ ClearRecoveredTail
    \/ AbortPrepared
    \/ ClearSuffixBarrier
    \/ ClearHeaderBarrier
    \/ EffectFails
    \/ WalPowerCut

WalSpec == WalInit /\ [][WalNext]_walVars

-----------------------------------------------------------------------------
(* Properties *)

SectorType ==
    {Zero}
    \cup [kind : {"prepare", "commit"}, inc : Nat, serial : Nat, payload : Payload]
    \cup [kind : {"data"}, payload : Payload, part : Nat]

WalOwner ==
    [state : WalStates, incarnation : Nat, cursor : Nat, next_serial : Nat,
     record_end_lbas : Seq(Nat), pending : Payload \cup {NoPayload}, tail : Nat,
     io : WalEffects]

WalToken == [held : BOOLEAN, incarnation : Nat, record_end_lbas : Seq(Nat)]

\* Type correctness of the device contents and of the owner's fields.
WalTypeOK ==
    /\ \A l \in Lba : walMedia[l] \in SectorType /\ walStable[l] \in SectorType
    /\ DOMAIN walMedia = Lba /\ DOMAIN walStable = Lba
    /\ wal \in WalOwner
    /\ token \in WalToken
    /\ settled \in Seq(Payload) /\ settledEnds \in Seq(Nat)
    /\ maybe \in Seq(Payload)

\* A record whose marker barrier returned, or that a recovery reported, keeps
\* its whole frame, with its serial and its place, on the media and on the
\* stable copy: no later prepare, abort, tail clearing, failed effect or
\* power cut touches a sector of it.
SettledFramesIntact ==
    /\ Len(settledEnds) = Len(settled)
    /\ \A i \in 1 .. Len(settled) :
          /\ settledEnds[i] = FrameStart(settledEnds, i) + FrameLength(settled[i])
          /\ \A d \in {walMedia, walStable} :
                HoldsFrame(d, FrameStart(settledEnds, i), Incarnation, i, settled[i])

\* recover() returns the settled records in order, and at most one more: the
\* record whose marker was issued without a reply.  An aborted, cancelled or
\* merely prepared record is never returned.
RecoveryIsExact ==
    [][wal.state = "Absent" /\ wal'.state \in {"Ready", "RecoveredUncommitted"}
           => settled' \in {settled, settled \o maybe}]_walVars

\* The continuation token stands for what a reboot would find: while the
\* process holds it, scanning the stable sectors yields exactly the token's
\* prefix and an unused zero suffix, so resuming without a scan is sound.
ContinuationMatchesScan ==
    token.held =>
        /\ walMedia = walStable
        /\ ScanYields(walStable, token.incarnation, token.record_end_lbas, 0)
        /\ token.record_end_lbas = settledEnds

\* recover() refuses the device only when the PREPARE header of an
\* unacknowledged frame was lost while a later sector of that frame was kept;
\* no commit marker follows the settled prefix, so nothing acknowledged is lost.
RefusedOnlyForLostHeader ==
    wal.state = "Refused" =>
        LET c == PrefixEnd(settledEnds) IN
        /\ c < SectorCount /\ walMedia[c] = Zero
        /\ \E l \in Lba : l > c /\ walMedia[l] # Zero
        /\ \A l \in Lba : l > c => walMedia[l].kind \in {"zero", "data"}

=============================================================================
