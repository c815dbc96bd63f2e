------------------------- MODULE FileIoSerialization -------------------------
(***************************************************************************)
(* The Busy lock of one synchronous FILE_OBJECT, as the pure transitions   *)
(* of crates/nt-io-completion/src/file_io_serialization.rs.  A state is a  *)
(* record: the owning thread, the thread holding an unconsumed promotion   *)
(* grant, the number of counted waiters, and whether CLEANUP waits behind  *)
(* them.  CLEANUP_LOCK_OWNER (u64::MAX) is the value Cleanup; tid 0 is     *)
(* NoThread.  For each transition the operator Can... is what the code     *)
(* checks before it changes anything, the operator of the same name is the *)
(* change.                                                                 *)
(***************************************************************************)
EXTENDS Naturals

CONSTANTS Thread, NoThread, Cleanup

ASSUME SentinelAssumption ==
    NoThread \notin Thread /\ Cleanup \notin Thread /\ NoThread # Cleanup

Serialization ==
    [owner : Thread \cup {NoThread, Cleanup}, grant : Thread \cup {NoThread},
     waiters : Nat, cleanupWaiting : BOOLEAN]

NewSerialization ==
    [owner |-> NoThread, grant |-> NoThread, waiters |-> 0, cleanupWaiting |-> FALSE]

(* begin_io acquires only when nobody owns, waits or cleans up: releasing  *)
(* Busy does not let a new arrival overtake a counted waiter.              *)
CanAcquire(s) == s.owner = NoThread /\ s.waiters = 0 /\ ~s.cleanupWaiting

AcquireBusy(s, t) == [s EXCEPT !.owner = t]

CountWaiter(s) == [s EXCEPT !.waiters = @ + 1]

(* CLEANUP that takes a free Busy in front of the counted waiters.         *)
MutCleanupOvertakes(s) ==
    IF s.owner = NoThread
      THEN [s EXCEPT !.owner = Cleanup]
      ELSE [s EXCEPT !.cleanupWaiting = TRUE]

(* begin_cleanup of a synchronous File.                                    *)
BeginCleanup(s) ==
    IF s.owner = NoThread /\ s.waiters = 0
      THEN [s EXCEPT !.owner = Cleanup]
      ELSE [s EXCEPT !.cleanupWaiting = TRUE]

CanAdoptGrant(s, t) == s.owner = t /\ s.grant = t

AdoptGrant(s) == [s EXCEPT !.grant = NoThread]

CanCancelWaiter(s) == s.waiters > 0

CancelWaiter(s) == [s EXCEPT !.waiters = @ - 1]

CanPromoteWaiter(s) ==
    s.owner = NoThread /\ s.grant = NoThread /\ s.waiters > 0

PromoteWaiter(s, t) ==
    [s EXCEPT !.waiters = @ - 1, !.owner = t, !.grant = t]

HasLiveIo(s) == s.owner # NoThread \/ s.grant # NoThread \/ s.waiters # 0

CleanupReady(s) == s.cleanupWaiting /\ ~HasLiveIo(s)

PromoteCleanup(s) == [s EXCEPT !.cleanupWaiting = FALSE, !.owner = Cleanup]

CanReleaseIo(s, t) == s.owner = t /\ s.grant = NoThread

CanReleaseCleanup(s) == s.owner = Cleanup /\ s.grant = NoThread

ReleaseBusy(s) == [s EXCEPT !.owner = NoThread]

CanCancelPromoted(s, t) == s.owner = t /\ s.grant = t

CancelPromoted(s) == [s EXCEPT !.owner = NoThread, !.grant = NoThread]
=============================================================================
