---------------------------- MODULE FileObjectIo ----------------------------
(***************************************************************************)
(* One hosted FILE_OBJECT of the executive: its references and handles,    *)
(* its Busy lock, the FIFO of threads parked for Busy with the retained    *)
(* retry and cancellation protocols of each parked thread, the operation   *)
(* that owns Busy (inline or a pending IRP), and the CLEANUP lifecycle of  *)
(* the last handle.                                                        *)
(*                                                                         *)
(* The executive serves one native call at a time; an acquisition with its *)
(* parking, and a retried call with its adoption, are one step.  The       *)
(* effects of a retained owner (release, wake, reference, reply) are steps *)
(* of their own: each is retried by later service passes, and a wake runs  *)
(* after the walk that released Busy.                                      *)
(***************************************************************************)
EXTENDS FileIoSerialization, Sequences, FiniteSets

CONSTANTS
    NoRow,       \* a thread without a row in the wait table
    MaxHandles,  \* bound on the handles of the File
    MaxDue,      \* bound on retained wakes and references when a call starts
    MaxAsync,    \* bound on the IRPs of an asynchronous File
    Failures     \* whether a Reply or its local retirement may fail

ASSUME ThreadsFinite == IsFiniteSet(Thread)

ASSUME BoundsAssumption == MaxHandles \in Nat \ {0} /\ MaxDue \in Nat /\ MaxAsync \in Nat

VARIABLES
    file,      \* the FileCompletionEntry, without its serialization
    ser,       \* its FileIoSerialization
    thread,    \* where each thread is
    row,       \* SynchronousFileWaitTable: the record of each thread
    fifo,      \* the threads with a published record, oldest first
    hold,      \* the operation owning Busy: none, active, irp, done
    wakeDue,   \* inline retirements whose wake is still due
    pend,      \* pending IRPs after their Busy release
    refDue,    \* operations whose File reference is still to be released
    manager,   \* the I/O manager's CLEANUP of this File
    async      \* IRPs of an asynchronous File in the driver

vars == <<file, ser, thread, row, fifo, hold, wakeDue, pend, refDue, manager, async>>

CancelPhase ==
    {"none", "Deferred", "Policy", "Wake", "Reference", "Followup", "Stage", "Staging",
     "Send", "SendStuck", "RetireApc", "Revoke", "RetireReply", "Complete"}

Row ==
    [state : {"waiting", "promoted"},
     retry : {"none", "ready", "acked", "indeterminate", "retired"},
     phase : CancelPhase,      \* the cancellation effect due next
     apc : BOOLEAN,            \* disposition UserApc
     teardown : BOOLEAN,
     owned : BOOLEAN,          \* policy_waiters is None
     cap : BOOLEAN]            \* reply_cap # 0

ASSUME NoRowAssumption == NoRow \notin Row

(* Types of the File record, its queue and the records of the threads.   *)
TypeOK ==
    /\ file \in [state : {"absent", "reserved", "open", "closed"}, sync : BOOLEAN,
                 references : Nat, handles : 0..MaxHandles, cleanupSent : BOOLEAN,
                 cleanupRef : BOOLEAN, started : BOOLEAN]
    /\ ser \in Serialization
    /\ thread \in [Thread -> {"user", "insys", "parked", "resumed", "blocked", "dead"}]
    /\ row \in [Thread -> Row \cup {NoRow}]
    /\ fifo \in Seq(Thread)
    /\ hold \in {"none", "active", "irp", "done"}
    /\ wakeDue \in Nat /\ refDue \in Nat
    /\ pend \in [Thread -> {"none", "wake", "settled"}]
    /\ manager \in {"none", "cleaning", "complete"}
    /\ async \in 0..MaxAsync

AbsentFile ==
    [state |-> "absent", sync |-> TRUE, references |-> 0, handles |-> 0,
     cleanupSent |-> FALSE, cleanupRef |-> FALSE, started |-> FALSE]

Init ==
    /\ file = AbsentFile
    /\ ser = NewSerialization
    /\ thread = [t \in Thread |-> "user"]
    /\ row = [t \in Thread |-> NoRow]
    /\ fifo = <<>>
    /\ hold = "none" /\ wakeDue = 0 /\ refDue = 0
    /\ pend = [t \in Thread |-> "none"]
    /\ manager = "none" /\ async = 0
-----------------------------------------------------------------------------
(***************************************************************************)
(* References, handles and the CLEANUP lifecycle.                          *)
(***************************************************************************)

(* finish_release: the entry is cleared with its last reference.           *)
FinishRelease(f) ==
    IF f.references = 0 THEN [AbsentFile EXCEPT !.state = "closed", !.sync = f.sync] ELSE f

ReserveFileHandle ==
    /\ file.state = "absent"
    /\ \E sync \in BOOLEAN :
         file' = [AbsentFile EXCEPT !.state = "reserved", !.sync = sync, !.references = 1]
    /\ UNCHANGED <<ser, thread, row, fifo, hold, wakeDue, pend, refDue, manager, async>>

CommitReservedFileHandle ==
    /\ file.state = "reserved"
    /\ file' = [file EXCEPT !.state = "open", !.handles = 1]
    /\ UNCHANGED <<ser, thread, row, fifo, hold, wakeDue, pend, refDue, manager, async>>

CancelReservedFileHandle ==
    /\ file.state = "reserved"
    /\ file' = FinishRelease([file EXCEPT !.references = 0])
    /\ UNCHANGED <<ser, thread, row, fifo, hold, wakeDue, pend, refDue, manager, async>>

RetainHandle ==
    /\ file.state = "open" /\ ~file.cleanupSent
    /\ file.handles \in 1..(MaxHandles - 1)
    /\ file' = [file EXCEPT !.references = @ + 1, !.handles = @ + 1]
    /\ UNCHANGED <<ser, thread, row, fifo, hold, wakeDue, pend, refDue, manager, async>>

(* start_file_cleanup: the entry is marked before the driver is entered.   *)
StartFileCleanup(f) ==
    /\ file' = [f EXCEPT !.started = TRUE]
    /\ manager' = "cleaning"

(* release_handle and complete_file_reference_release: the reference of    *)
(* the last handle becomes CLEANUP's, which starts at once or waits behind *)
(* the ordinary I/O.                                                       *)
ReleaseHandle ==
    /\ file.handles > 0
    /\ LET f == [file EXCEPT !.handles = @ - 1]
           last == [f EXCEPT !.cleanupSent = TRUE, !.cleanupRef = TRUE]
           s == IF file.sync THEN BeginCleanup(ser) ELSE ser
       IN IF f.handles # 0
            THEN /\ file' = FinishRelease([f EXCEPT !.references = @ - 1])
                 /\ UNCHANGED <<ser, manager>>
            ELSE /\ ser' = s
                 /\ IF s.cleanupWaiting
                      THEN file' = last /\ UNCHANGED manager
                      ELSE StartFileCleanup(last)
    /\ UNCHANGED <<thread, row, fifo, hold, wakeDue, pend, refDue, async>>

(* External: the driver finishes IRP_MJ_CLEANUP.                           *)
DriverCompletesCleanup ==
    /\ manager = "cleaning"
    /\ manager' = "complete"
    /\ UNCHANGED <<file, ser, thread, row, fifo, hold, wakeDue, pend, refDue, async>>

(* file_cleanup_redrive_all: Busy is released before the File reference.   *)
RetireCleanup ==
    /\ file.started /\ manager = "complete"
    /\ IF file.sync
         THEN CanReleaseCleanup(ser) /\ ser' = ReleaseBusy(ser)
         ELSE UNCHANGED ser
    /\ file' = FinishRelease([file EXCEPT !.cleanupRef = FALSE, !.started = FALSE,
                                          !.references = @ - 1])
    /\ UNCHANGED <<thread, row, fifo, hold, wakeDue, pend, refDue, manager, async>>

(* release_file for an operation that has nothing else left to undo.       *)
ReleaseReference ==
    /\ refDue > 0
    /\ refDue' = refDue - 1
    /\ file' = FinishRelease([file EXCEPT !.references = @ - 1])
    /\ UNCHANGED <<ser, thread, row, fifo, hold, wakeDue, pend, manager, async>>
-----------------------------------------------------------------------------
(***************************************************************************)
(* Waking the next waiter.                                                 *)
(***************************************************************************)

Rows == {t \in Thread : row[t] # NoRow}

(* cancellation_ownership: acquisitions a cancellation has yet to undo.    *)
Cancelling(state) ==
    {t \in Rows : row[t].phase # "none" /\ row[t].owned /\ row[t].state = state}

Promoted == {t \in Rows : row[t].state = "promoted" /\ row[t].phase = "none"}

Waiting == {t \in Rows : row[t].state = "waiting" /\ row[t].phase = "none"}

(* A queue served from its newest end.                                     *)
MutNewestWaiting == LET q == SelectSeq(fifo, LAMBDA t : t \in Waiting) IN q[Len(q)]

(* oldest_waiting_for_file: the first of the FIFO nobody is cancelling.    *)
OldestWaiting ==
    fifo[CHOOSE i \in DOMAIN fifo :
           /\ fifo[i] \in Waiting
           /\ \A j \in DOMAIN fifo : j < i => fifo[j] \notin Waiting]

(* A record leaves the table; the order of the others stays.               *)
Dequeue(q, t) ==
    IF \E i \in DOMAIN q : q[i] = t
      THEN LET at == CHOOSE i \in DOMAIN q : q[i] = t
           IN [i \in 1..(Len(q) - 1) |-> q[IF i < at THEN i ELSE i + 1]]
      ELSE q

CancellationMustDefer(r) == r.retry \in {"acked", "indeterminate"}

ActivateDeferred(r) ==
    IF r.phase = "Deferred" /\ ~CancellationMustDefer(r)
      THEN [r EXCEPT !.phase = "Policy"] ELSE r

(* finish_retry after the local retirement of the reply capability.        *)
RetryRetired(r) == ActivateDeferred([r EXCEPT !.retry = "retired", !.cap = FALSE])

(* The results of deliver_file on a row whose Reply is ready: sent and     *)
(* retired, sent and not yet retired, or of unknown effect.                *)
Deliveries(r) ==
    {RetryRetired(r)} \cup
    (IF Failures
       THEN {[r EXCEPT !.retry = "acked"], [r EXCEPT !.retry = "indeterminate"]}
       ELSE {})

(* deliver_file for thread t of the rows rs.                               *)
DeliverRetry(rs, t) ==
    CASE rs[t].retry = "ready" ->
           \E r \in Deliveries(rs[t]) :
             /\ row' = [rs EXCEPT ![t] = r]
             /\ thread' = IF r.retry # "indeterminate" /\ thread[t] = "parked"
                            THEN [thread EXCEPT ![t] = "resumed"] ELSE thread
      [] rs[t].retry = "acked" ->
           /\ \E r \in {rs[t], RetryRetired(rs[t])} : row' = [rs EXCEPT ![t] = r]
           /\ UNCHANGED thread
      [] OTHER -> row' = rs /\ UNCHANGED thread

(* try_synchronous_file_wake_next: a cancelled grant keeps its wake; a     *)
(* promoted thread is delivered; otherwise the oldest waiter is promoted   *)
(* and delivered; with no waiter left CLEANUP may take Busy.  Waiters that *)
(* are not all being cancelled are STATUS_DATA_ERROR, and the step is not  *)
(* taken.                                                                  *)
WakeNext(rs) ==
    CASE Cancelling("promoted") # {} -> row' = rs /\ UNCHANGED <<ser, file, manager, thread>>
      [] Cancelling("promoted") = {} /\ Promoted # {} ->
           /\ DeliverRetry(rs, CHOOSE t \in Promoted : TRUE)
           /\ UNCHANGED <<ser, file, manager>>
      [] Cancelling("promoted") = {} /\ Promoted = {} /\ Waiting # {} ->
           LET t == OldestWaiting
           IN /\ CanPromoteWaiter(ser)
              /\ ser' = PromoteWaiter(ser, t)
              /\ DeliverRetry([rs EXCEPT ![t].state = "promoted", ![t].retry = "ready"], t)
              /\ UNCHANGED <<file, manager>>
      [] OTHER ->
           /\ ser.waiters = Cardinality(Cancelling("waiting"))
           /\ row' = rs /\ UNCHANGED thread
           /\ IF ser.waiters = 0 /\ CleanupReady(ser)
                THEN ser' = PromoteCleanup(ser) /\ StartFileCleanup(file)
                ELSE UNCHANGED <<ser, file, manager>>

(* settle_synchronous_file_wake: a later owner inherits the wake.  A grant *)
(* without a promoted row, or waiters that nobody accounts for, are        *)
(* STATUS_DATA_ERROR.                                                      *)
SettleWake(rs) ==
    /\ ser.grant # NoThread => Promoted \cup Cancelling("promoted") # {}
    /\ IF ser.owner # NoThread /\ ser.grant = NoThread
         THEN /\ \/ ser.waiters = 0 \/ Waiting # {}
                 \/ ser.waiters = Cardinality(Cancelling("waiting"))
              /\ row' = rs
              /\ UNCHANGED <<ser, file, manager, thread>>
         ELSE WakeNext(rs)
-----------------------------------------------------------------------------
(***************************************************************************)
(* Acquiring Busy, parking for it, and the operation that owns it.         *)
(***************************************************************************)

ParkedRow ==
    [state |-> "waiting", retry |-> "none", phase |-> "none", apc |-> FALSE,
     teardown |-> FALSE, owned |-> TRUE, cap |-> TRUE]

(* cancel_reserved: a counted acquisition rolled back before it parked.    *)
UnpublishedRow == [ParkedRow EXCEPT !.phase = "Policy", !.teardown = TRUE, !.cap = FALSE]

(* prepare_owned_file_io for a new call.  acquire_file_io_with_mode        *)
(* refuses after the last handle closed, takes the operation's reference,  *)
(* and acquires Busy or counts a waiter; the service tail then parks the   *)
(* waiter, or rolls it back when an APC is queued, the caller is           *)
(* terminating or the Reply cannot be parked.                              *)
AcquireFileIo(t) ==
    /\ thread[t] = "user" /\ row[t] = NoRow
    /\ file.state = "open" /\ file.sync /\ ~file.cleanupSent
    /\ wakeDue + refDue < MaxDue
    /\ file' = [file EXCEPT !.references = @ + 1]
    /\ IF CanAcquire(ser)
         THEN /\ ser' = AcquireBusy(ser, t)
              /\ hold' = "active"
              /\ thread' = [thread EXCEPT ![t] = "insys"]
              /\ UNCHANGED <<row, fifo>>
         ELSE /\ ser' = CountWaiter(ser)
              /\ UNCHANGED hold
              /\ \/ /\ row' = [row EXCEPT ![t] = ParkedRow]
                    /\ fifo' = Append(fifo, t)
                    /\ thread' = [thread EXCEPT ![t] = "parked"]
                 \/ /\ row' = [row EXCEPT ![t] = UnpublishedRow]
                    /\ UNCHANGED <<fifo, thread>>
    /\ UNCHANGED <<wakeDue, pend, refDue, manager, async>>

(* An adoption that leaves the grant unconsumed.                           *)
MutAdoptKeepsGrant(t) ==
    /\ thread[t] = "resumed" /\ row[t] # NoRow
    /\ row[t].phase = "none" /\ row[t].retry = "retired"
    /\ CanAdoptGrant(ser, t)
    /\ row' = [row EXCEPT ![t] = NoRow]
    /\ fifo' = Dequeue(fifo, t)
    /\ hold' = "active"
    /\ thread' = [thread EXCEPT ![t] = "insys"]
    /\ UNCHANGED <<ser, file, wakeDue, pend, refDue, manager, async>>

(* The promoted thread repeats its call: begin_ingress, begin_adoption,    *)
(* adopt_io_grant, record_adoption.  Its reference and Busy move from the  *)
(* row to the call; it takes neither again.                                *)
AdoptGrantedIo(t) ==
    /\ thread[t] = "resumed" /\ row[t] # NoRow
    /\ row[t].phase = "none" /\ row[t].retry = "retired"
    /\ CanAdoptGrant(ser, t)
    /\ ser' = AdoptGrant(ser)
    /\ row' = [row EXCEPT ![t] = NoRow]
    /\ fifo' = Dequeue(fifo, t)
    /\ hold' = "active"
    /\ thread' = [thread EXCEPT ![t] = "insys"]
    /\ UNCHANGED <<file, wakeDue, pend, refDue, manager, async>>

(* reject_ingress: the repeated call fails before it reaches the File, and *)
(* the row undoes the grant through the cancellation protocol.             *)
RejectIngress(t) ==
    /\ thread[t] = "resumed" /\ row[t] # NoRow
    /\ row[t].phase = "none" /\ row[t].retry = "retired"
    /\ row' = [row EXCEPT ![t].phase = "Policy", ![t].teardown = TRUE]
    /\ thread' = [thread EXCEPT ![t] = "user"]
    /\ UNCHANGED <<file, ser, fifo, hold, wakeDue, pend, refDue, manager, async>>

(* begin_ingress refuses a call repeated before its reply capability is    *)
(* retired; the grant stays with the row.                                  *)
RefuseIngress(t) ==
    /\ thread[t] = "resumed" /\ row[t] # NoRow
    /\ row[t].retry = "acked" \/ row[t].phase # "none"
    /\ thread' = [thread EXCEPT ![t] = "user"]
    /\ UNCHANGED <<file, ser, row, fifo, hold, wakeDue, pend, refDue, manager, async>>

(* A later call of the same service claims the grant a refused one left.   *)
RepeatCall(t) ==
    /\ thread[t] = "user" /\ row[t] # NoRow
    /\ row[t].phase = "none" /\ row[t].retry = "retired"
    /\ thread' = [thread EXCEPT ![t] = "resumed"]
    /\ UNCHANGED <<file, ser, row, fifo, hold, wakeDue, pend, refDue, manager, async>>

Release(t) == CanReleaseIo(ser, t) /\ ser' = ReleaseBusy(ser) /\ hold' = "none"

Returned(t) == [thread EXCEPT ![t] = IF @ = "dead" THEN "dead" ELSE "user"]

(* before_post_action without an accepted IRP: the inline retirement       *)
(* releases Busy; its wake and reference follow as effects of their own.   *)
RetireInline(t) ==
    /\ hold = "active" /\ ser.owner = t
    /\ Release(t)
    /\ wakeDue' = wakeDue + 1
    /\ thread' = Returned(t)
    /\ UNCHANGED <<file, row, fifo, pend, refDue, manager, async>>

(* before_post_action with an accepted IRP: the pending row takes Busy and *)
(* the reference, and the caller waits for its completion.                 *)
TransferToPending(t) ==
    /\ hold = "active" /\ ser.owner = t /\ pend[t] = "none"
    /\ hold' = "irp"
    /\ thread' = [thread EXCEPT ![t] = IF @ = "dead" THEN "dead" ELSE "blocked"]
    /\ UNCHANGED <<file, ser, row, fifo, wakeDue, pend, refDue, manager, async>>

(* External: the driver completes the IRP (or its cancellation).           *)
DriverCompletesIrp ==
    /\ hold = "irp"
    /\ hold' = "done"
    /\ UNCHANGED <<file, ser, thread, row, fifo, wakeDue, pend, refDue, manager, async>>

(* release_if_ready: every surface but the reply is published.             *)
ReleasePendingBusy(t) ==
    /\ hold = "done" /\ ser.owner = t
    /\ Release(t)
    /\ pend' = [pend EXCEPT ![t] = "wake"]
    /\ UNCHANGED <<file, thread, row, fifo, wakeDue, refDue, manager, async>>

(* redrive_wakes: the wake of a released pending IRP.                      *)
WakePending(t) ==
    /\ pend[t] = "wake"
    /\ SettleWake(row)
    /\ pend' = [pend EXCEPT ![t] = "settled"]
    /\ UNCHANGED <<fifo, hold, wakeDue, refDue, async>>

(* The rest of pending_file_io_redrive_pass: the reply is sent only after  *)
(* Busy and its wake are settled; the reference follows.                   *)
FinishPending(t) ==
    /\ pend[t] = "settled"
    /\ pend' = [pend EXCEPT ![t] = "none"]
    /\ refDue' = refDue + 1
    /\ thread' = Returned(t)
    /\ UNCHANGED <<file, ser, row, fifo, hold, wakeDue, manager, async>>

(* The wake of an inline retirement.                                       *)
WakeInline ==
    /\ wakeDue > 0
    /\ SettleWake(row)
    /\ wakeDue' = wakeDue - 1
    /\ refDue' = refDue + 1
    /\ UNCHANGED <<fifo, hold, pend, async>>

(* An asynchronous File bypasses Busy and only retains the File.           *)
StartAsyncIo ==
    /\ file.state = "open" /\ ~file.sync /\ file.handles > 0 /\ async < MaxAsync
    /\ wakeDue + refDue < MaxDue
    /\ file' = [file EXCEPT !.references = @ + 1]
    /\ async' = async + 1
    /\ UNCHANGED <<ser, thread, row, fifo, hold, wakeDue, pend, refDue, manager>>

CompleteAsyncIo ==
    /\ async > 0
    /\ async' = async - 1
    /\ refDue' = refDue + 1
    /\ UNCHANGED <<file, ser, thread, row, fifo, hold, wakeDue, pend, manager>>
-----------------------------------------------------------------------------
(***************************************************************************)
(* Retained cancellation of a row: teardown, user APC and rollback.        *)
(***************************************************************************)

(* request_teardown: an APC effect not yet entered is replaced; an entered *)
(* one first gives its receipt.                                            *)
RequestTeardown(r) ==
    CASE r.teardown -> r
      [] ~r.teardown /\ r.phase \in {"Stage", "Send"} ->
           [r EXCEPT !.teardown = TRUE, !.apc = FALSE, !.phase = "Revoke"]
      [] ~r.teardown /\ r.phase \in {"Staging", "SendStuck", "RetireApc"} ->
           [r EXCEPT !.teardown = TRUE]
      [] OTHER -> [r EXCEPT !.teardown = TRUE, !.apc = FALSE]

(* request_thread_cancellation on one row: delivery that was entered keeps *)
(* its obligations until its receipt.                                      *)
CancelRow(r) ==
    IF r.phase # "none" THEN RequestTeardown(r)
    ELSE [r EXCEPT !.teardown = TRUE,
                   !.phase = IF CancellationMustDefer(r) THEN "Deferred" ELSE "Policy"]

(* A terminated thread: its parked row is cancelled where it stands; an    *)
(* operation it owns runs to its end without a consumer.                   *)
TerminateThread(t) ==
    /\ thread[t] # "dead"
    /\ thread' = [thread EXCEPT ![t] = "dead"]
    /\ row' = IF row[t] = NoRow THEN row ELSE [row EXCEPT ![t] = CancelRow(row[t])]
    /\ UNCHANGED <<file, ser, fifo, hold, wakeDue, pend, refDue, manager, async>>

(* request_user_apc_interruption: only a waiter nobody has touched yet.    *)
RequestUserApc(t) ==
    /\ thread[t] = "parked" /\ row[t] # NoRow
    /\ row[t].phase = "none" /\ row[t].retry = "none"
    /\ row[t].state = "waiting" /\ row[t].cap
    /\ row' = [row EXCEPT ![t].phase = "Policy", ![t].apc = TRUE]
    /\ UNCHANGED <<file, ser, thread, fifo, hold, wakeDue, pend, refDue, manager, async>>

Phase(t) == IF row[t] = NoRow THEN "none" ELSE row[t].phase

ReplyStep(r) == IF ~r.cap THEN "Complete" ELSE IF r.apc THEN "Stage" ELSE "Revoke"

(* Advancing a row to another effect, changing nothing else.               *)
RowStep(t, r) ==
    /\ row' = [row EXCEPT ![t] = r]
    /\ UNCHANGED <<file, ser, thread, fifo, hold, wakeDue, pend, refDue, manager, async>>

(* cancel_policy: the count or the grant is undone.                        *)
CancelPolicy(t) ==
    /\ Phase(t) = "Policy"
    /\ IF row[t].state = "waiting"
         THEN CanCancelWaiter(ser) /\ ser' = CancelWaiter(ser)
         ELSE CanCancelPromoted(ser, t) /\ ser' = CancelPromoted(ser)
    /\ row' = [row EXCEPT ![t].phase = "Wake", ![t].owned = FALSE]
    /\ UNCHANGED <<file, thread, fifo, hold, wakeDue, pend, refDue, manager, async>>

(* A cancellation that goes straight to its reference.                     *)
MutCancelSkipsWake(t) ==
    /\ Phase(t) = "Wake"
    /\ RowStep(t, [row[t] EXCEPT !.phase = "Reference"])

CancelWake(t) ==
    /\ Phase(t) = "Wake"
    /\ SettleWake([row EXCEPT ![t].phase = "Reference"])
    /\ UNCHANGED <<fifo, hold, wakeDue, pend, refDue, async>>

(* A cancellation that closes its record without the release.              *)
MutCancelKeepsReference(t) ==
    /\ Phase(t) = "Reference"
    /\ RowStep(t, [row[t] EXCEPT !.phase = ReplyStep(row[t])])

CancelReference(t) ==
    /\ Phase(t) = "Reference"
    /\ file' = FinishRelease([file EXCEPT !.references = @ - 1])
    /\ row' = [row EXCEPT ![t].phase =
                 IF file.references = 1 THEN "Followup" ELSE ReplyStep(row[t])]
    /\ UNCHANGED <<ser, thread, fifo, hold, wakeDue, pend, refDue, manager, async>>

(* ReferenceFollowup releases the completion port of the closed File.      *)
CancelFollowup(t) ==
    /\ Phase(t) = "Followup"
    /\ RowStep(t, [row[t] EXCEPT !.phase = ReplyStep(row[t])])

CancelRevokeReply(t) ==
    /\ Phase(t) = "Revoke"
    /\ RowStep(t, [row[t] EXCEPT !.phase = "RetireReply"])

CancelRetireReply(t) ==
    /\ Phase(t) = "RetireReply"
    /\ RowStep(t, [row[t] EXCEPT !.phase = "Complete", !.cap = FALSE])

(* StageUserApc copies out to the thread and may be re-entered.            *)
CancelStageApc(t) ==
    /\ Phase(t) = "Stage"
    /\ RowStep(t, [row[t] EXCEPT !.phase = "Staging"])

(* Its receipt: staged, or definitely not entered.                         *)
CancelStagedApc(t) ==
    /\ Phase(t) = "Staging"
    /\ IF row[t].teardown
         THEN RowStep(t, [row[t] EXCEPT !.phase = "Revoke", !.apc = FALSE])
         ELSE \E next \in {"Send"} \cup (IF Failures THEN {"Stage"} ELSE {}) :
                RowStep(t, [row[t] EXCEPT !.phase = next])

(* The empty Reply that lets the thread run its APC.                       *)
CancelSendApc(t) ==
    /\ Phase(t) = "Send"
    /\ \/ /\ row' = [row EXCEPT ![t].phase = "RetireApc"]
          /\ thread' = [thread EXCEPT ![t] = "user"]
       \/ /\ Failures
          /\ row' = [row EXCEPT ![t].phase = "SendStuck"]
          /\ UNCHANGED thread
    /\ UNCHANGED <<file, ser, fifo, hold, wakeDue, pend, refDue, manager, async>>

CancelRetireApc(t) ==
    /\ Phase(t) = "RetireApc"
    /\ RowStep(t, [row[t] EXCEPT !.phase = "Complete", !.cap = FALSE])

FinishCancellation(t) ==
    /\ Phase(t) = "Complete"
    /\ row' = [row EXCEPT ![t] = NoRow]
    /\ fifo' = Dequeue(fifo, t)
    /\ UNCHANGED <<file, ser, thread, hold, wakeDue, pend, refDue, manager, async>>

(* redrive_retirement: a Reply that was sent is retired, never sent again. *)
RedriveRetirement(t) ==
    /\ row[t] # NoRow
    /\ row[t].retry = "acked"
    /\ RowStep(t, RetryRetired(row[t]))
-----------------------------------------------------------------------------
Drive(t) ==
    \/ CancelPolicy(t) \/ CancelWake(t) \/ CancelReference(t) \/ CancelFollowup(t)
    \/ CancelRevokeReply(t) \/ CancelRetireReply(t) \/ CancelStageApc(t)
    \/ CancelStagedApc(t) \/ CancelSendApc(t) \/ CancelRetireApc(t)
    \/ FinishCancellation(t)

Service(t) ==
    \/ RedriveRetirement(t) \/ ReleasePendingBusy(t) \/ WakePending(t) \/ FinishPending(t)

Call(t) ==
    \/ AdoptGrantedIo(t) \/ RejectIngress(t) \/ RefuseIngress(t) \/ RepeatCall(t)

EndOfCall(t) == RetireInline(t) \/ TransferToPending(t)

ThreadStep(t) ==
    \/ AcquireFileIo(t) \/ Call(t) \/ EndOfCall(t) \/ Service(t) \/ Drive(t)
    \/ TerminateThread(t) \/ RequestUserApc(t)

FileStep ==
    \/ ReserveFileHandle \/ CommitReservedFileHandle \/ CancelReservedFileHandle
    \/ RetainHandle \/ ReleaseHandle \/ DriverCompletesCleanup \/ RetireCleanup
    \/ ReleaseReference \/ WakeInline \/ DriverCompletesIrp
    \/ StartAsyncIo \/ CompleteAsyncIo

Next == FileStep \/ \E t \in Thread : ThreadStep(t)

Spec == Init /\ [][Next]_vars
-----------------------------------------------------------------------------
(***************************************************************************)
(* Properties.                                                             *)
(***************************************************************************)
HoldsReference(t) ==
    row[t] # NoRow /\ row[t].phase \in {"none", "Deferred", "Policy", "Wake", "Reference"}

Count(b) == IF b THEN 1 ELSE 0

(* The File entry lives exactly as long as somebody needs it: its count is *)
(* one for every handle, for an unpublished reservation, for CLEANUP, for  *)
(* the operation owning Busy, for every parked or cancelled waiter that    *)
(* has not given its reference back, and for every retired operation with  *)
(* a wake or a release still to come.  In particular no wake or release    *)
(* ever meets a closed entry.                                              *)
ReferencesAccounted ==
    file.references =
        file.handles + Count(file.state = "reserved") + Count(file.cleanupRef)
        + Count(hold # "none") + Cardinality({t \in Thread : HoldsReference(t)})
        + Cardinality({t \in Thread : pend[t] # "none"}) + wakeDue + refDue + async

(* Busy, the grant and the count name exactly the rows and the operation   *)
(* behind them, so no service pass meets STATUS_DATA_ERROR and no waiter   *)
(* is counted twice or forgotten.                                          *)
BusyAccounted ==
    /\ ser.waiters = Cardinality(Waiting \cup Cancelling("waiting"))
    /\ {t \in Thread : ser.grant = t} = Promoted \cup Cancelling("promoted")
    /\ ser.grant # NoThread => ser.owner = ser.grant
    /\ hold # "none" <=> ser.owner \in Thread /\ ser.grant = NoThread

(* CLEANUP has Busy to itself: while the driver cleans up a synchronous    *)
(* File, no ordinary operation owns, is granted or waits for Busy.         *)
CleanupExcludesIo ==
    ser.owner = Cleanup =>
        /\ file.started /\ hold = "none"
        /\ Waiting \cup Promoted \cup Cancelling("waiting") \cup Cancelling("promoted") = {}

(* No wake is lost: a free Busy that threads or CLEANUP wait for has a     *)
(* service step outstanding that will look at the FIFO again.              *)
WakeOutstanding ==
    ser.owner = NoThread /\ (ser.waiters > 0 \/ ser.cleanupWaiting) =>
        \/ wakeDue > 0
        \/ \E t \in Thread : pend[t] = "wake" \/ Phase(t) \in {"Policy", "Wake"}

(* Promotion is first come, first served among the threads nobody is       *)
(* cancelling.                                                             *)
PromotionInOrder ==
    [][\A t, u \in Waiting :
         (\E i, j \in DOMAIN fifo : i < j /\ fifo[i] = t /\ fifo[j] = u)
           => ~(t \in Waiting' /\ u \in Promoted')]_vars
=============================================================================
