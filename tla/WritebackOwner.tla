--------------------------- MODULE WritebackOwner ---------------------------
(***************************************************************************)
(* RegistryWritebackOwner of nt-hive-core: the ownership of mutable hive   *)
(* writes that wait for a durable checkpoint, one owner per mount.  The    *)
(* provider that captures an image at begin_batch, persists it and reports *)
(* the outcome is external; its reports may be late, repeated or arrive in *)
(* any order, and a power cut may end the mount at any time.               *)
(***************************************************************************)
EXTENDS Naturals

CONSTANTS
    MaxGeneration,   \* last value of the dirty generation
    MaxSerial,       \* last value of the next serial
    MaxMounts,       \* bound on the mounts
    Flusher,         \* the callers of an explicit flush
    NoBatch

ASSUME BoundsAssumption == MaxGeneration \in Nat /\ MaxSerial \in Nat /\ MaxMounts \in Nat

FlushTarget == [mount : Nat, generation : Nat]
WritebackBatch == [mount : Nat, serial : Nat, generation : Nat]

ASSUME NoBatchAssumption == NoBatch \notin WritebackBatch

VARIABLES
    owner,    \* RegistryWritebackOwner of the current mount
    io,       \* the provider's work: batch -> captured, started, written, idle
    image,    \* the FlushTarget that the stored hive image contains
    reports,  \* reports sent and perhaps still to arrive, or arrive again
    flush     \* each flusher's target, and whether is_durable answered true

vars == <<owner, io, image, reports, flush>>

Owner ==
    [mount : Nat, dirty : Nat, durable : Nat, nextSerial : Nat,
     pending : WritebackBatch \cup {NoBatch}, uncertain : BOOLEAN]

IoState == {"captured", "started", "written", "idle"}
Report == [batch : WritebackBatch, result : {"Durable", "NoEffect", "Uncertain"}]

(* Types of the owner, the stored image, the provider's writes and reports.*)
TypeOK ==
    /\ owner \in Owner
    /\ io \in SUBSET [batch : WritebackBatch, state : IoState]
    /\ image \in FlushTarget
    /\ reports \in SUBSET Report
    /\ flush \in [Flusher -> [target : FlushTarget, acked : BOOLEAN]]

NewOwner(mount) ==
    [mount |-> mount, dirty |-> 0, durable |-> 0, nextSerial |-> 1,
     pending |-> NoBatch, uncertain |-> FALSE]

Init ==
    /\ owner = NewOwner(1)
    /\ io = {} /\ reports = {}
    /\ image = [mount |-> 1, generation |-> 0]
    /\ flush = [f \in Flusher |-> [target |-> image, acked |-> FALSE]]
-----------------------------------------------------------------------------
CurrentTarget == [mount |-> owner.mount, generation |-> owner.dirty]

(* A batch that is being written taken for a durable one.                  *)
MutPendingIsDurable(t) ==
    /\ t.mount = owner.mount
    /\ \/ t.generation <= owner.durable
       \/ owner.pending # NoBatch /\ t.generation <= owner.pending.generation

IsDurable(t) == t.mount = owner.mount /\ t.generation <= owner.durable

IsDirty == owner.dirty > owner.durable

RecordMutation ==
    /\ owner.dirty < MaxGeneration
    /\ owner' = [owner EXCEPT !.dirty = @ + 1]
    /\ UNCHANGED <<io, image, reports, flush>>

(* An explicit flush asks for everything visible now.                      *)
TakeFlushTarget(f) ==
    /\ flush' = [flush EXCEPT ![f] = [target |-> CurrentTarget, acked |-> FALSE]]
    /\ UNCHANGED <<owner, io, image, reports>>

(* The flusher polls its target, which may be of an earlier mount.         *)
PollFlush(f) ==
    /\ IsDurable(flush[f].target)
    /\ flush' = [flush EXCEPT ![f].acked = TRUE]
    /\ UNCHANGED <<owner, io, image, reports>>

NextBatch ==
    [mount |-> owner.mount, serial |-> owner.nextSerial, generation |-> owner.dirty]

(* begin_batch; the caller captures the image of the same instant.         *)
BeginBatch ==
    /\ ~owner.uncertain
    /\ owner.pending = NoBatch
    /\ IsDirty
    /\ owner.nextSerial < MaxSerial
    /\ owner' = [owner EXCEPT !.nextSerial = @ + 1, !.pending = NextBatch]
    /\ io' = io \cup {[batch |-> NextBatch, state |-> "captured"]}
    /\ UNCHANGED <<image, reports, flush>>

IsPending(b) == owner.pending = b

CompleteDurable(b) ==
    owner' = [owner EXCEPT !.durable = b.generation, !.pending = NoBatch, !.uncertain = FALSE]

(* An uncertain batch abandoned on a late claim of no effect.              *)
MutNoEffectAlways(b) == owner' = [owner EXCEPT !.pending = NoBatch, !.uncertain = FALSE]

CompleteNoEffect(b) ==
    ~owner.uncertain /\ owner' = [owner EXCEPT !.pending = NoBatch]

(* complete: any report, however late, is matched against the exact ticket.*)
Complete(r) ==
    /\ IsPending(r.batch)
    /\ CASE r.result = "Durable"   -> CompleteDurable(r.batch)
         [] r.result = "NoEffect"  -> CompleteNoEffect(r.batch)
         [] r.result = "Uncertain" -> owner' = [owner EXCEPT !.uncertain = TRUE]
    /\ UNCHANGED <<io, image, reports, flush>>

(* A mount discarded although a batch has not been written.                *)
MutRetireUnchecked ==
    /\ owner.pending = NoBatch
    /\ owner.mount < MaxMounts
    /\ owner' = NewOwner(owner.mount + 1)
    /\ UNCHANGED <<io, image, reports, flush>>

(* retire accepts; the next mount loads the stored image.                  *)
Retire ==
    /\ owner.pending = NoBatch /\ ~IsDirty
    /\ owner.mount < MaxMounts
    /\ owner' = NewOwner(owner.mount + 1)
    /\ UNCHANGED <<io, image, reports, flush>>

(* External: power is cut; the provider's work ends, its reports may not.  *)
PowerCut ==
    /\ owner.mount < MaxMounts
    /\ owner' = NewOwner(owner.mount + 1)
    /\ io' = {}
    /\ UNCHANGED <<image, reports, flush>>
-----------------------------------------------------------------------------
(***************************************************************************)
(* External: the provider.                                                 *)
(***************************************************************************)
ToState(w, s) == io' = (io \ {w}) \cup {[w EXCEPT !.state = s]}

StartWrite(w) ==
    /\ w.state = "captured"
    /\ ToState(w, "started")
    /\ UNCHANGED <<owner, image, reports, flush>>

(* The image of the batch and its storage barriers are on the disk.        *)
FinishWrite(w) ==
    /\ w.state = "started"
    /\ ToState(w, "written")
    /\ image' = [mount |-> w.batch.mount, generation |-> w.batch.generation]
    /\ UNCHANGED <<owner, reports, flush>>

Send(w, result) == reports' = reports \cup {[batch |-> w.batch, result |-> result]}

ReportDurable(w) ==
    /\ w.state = "written"
    /\ Send(w, "Durable")
    /\ UNCHANGED <<owner, io, image, flush>>

(* No persistent effect began, and none will unless the ticket is driven   *)
(* again.                                                                  *)
ReportNoEffect(w) ==
    /\ w.state = "captured"
    /\ Send(w, "NoEffect")
    /\ ToState(w, "idle")
    /\ UNCHANGED <<owner, image, flush>>

ReportUncertain(w) ==
    /\ w.state \in {"captured", "started"}
    /\ Send(w, "Uncertain")
    /\ UNCHANGED <<owner, io, image, flush>>

(* The owner kept the ticket: its write is driven again.                   *)
DriveAgain(w) ==
    /\ w.state = "idle" /\ owner.pending = w.batch /\ owner.uncertain
    /\ ToState(w, "captured")
    /\ UNCHANGED <<owner, image, reports, flush>>

ProviderStep(w) ==
    \/ StartWrite(w) \/ FinishWrite(w) \/ ReportDurable(w)
    \/ ReportNoEffect(w) \/ ReportUncertain(w) \/ DriveAgain(w)

Next ==
    \/ RecordMutation \/ BeginBatch \/ Retire \/ PowerCut
    \/ \E f \in Flusher : TakeFlushTarget(f) \/ PollFlush(f)
    \/ \E r \in reports : Complete(r)
    \/ \E w \in io : ProviderStep(w)

Spec == Init /\ [][Next]_vars

-----------------------------------------------------------------------------
(* The stored image holds everything up to t: it is of the same mount and  *)
(* no older, or of a later mount, which started from it.                   *)
Covers(i, t) ==
    \/ t.generation = 0
    \/ i.mount = t.mount /\ i.generation >= t.generation
    \/ i.mount > t.mount

(* What a flusher was told is durable survives: power cuts, later mounts   *)
(* and late reports of earlier batches included.                           *)
AckedSurvives == \A f \in Flusher : flush[f].acked => Covers(image, flush[f].target)

(* Two writes of one mount never race: at most one batch can still reach   *)
(* the disk, and it is the one the owner retains.                          *)
OneBatchInFlight ==
    \A w \in io :
        w.state \in {"captured", "started"} /\ w.batch.mount = owner.mount
          => owner.pending = w.batch

(* The stored image never goes back to an older one.                       *)
ImageNeverRegresses == [][Covers(image', image)]_vars

(* A mount that is retired, not cut, leaves none of its mutations behind.  *)
RetireLosesNothing ==
    [][Retire => Covers(image, CurrentTarget)]_vars

=============================================================================
