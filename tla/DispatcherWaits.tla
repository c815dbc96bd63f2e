--------------------------- MODULE DispatcherWaits ---------------------------
(***************************************************************************)
(* Waits on dispatcher objects across their two owners: native threads     *)
(* parked in the executive's object-wait table, and isolated providers     *)
(* parked in the ProviderDispatcherWaitArbiter.  An Event signal is        *)
(* arbitrated between both families in one global admission order; every   *)
(* waiter holds a lease on each of its objects until its result is         *)
(* delivered.                                                              *)
(*                                                                         *)
(* The executive serves one call at a time, so a handler is one step.  Two *)
(* things are spread over steps: a native wait is dispatched, other work   *)
(* of the same pass may signal objects, and only then is it parked; and a  *)
(* selected native waiter keeps its row until its Reply has been driven.   *)
(*                                                                         *)
(* The admission sequence is the place in queue: sequences are issued in   *)
(* increasing order and are only compared.                                 *)
(***************************************************************************)
EXTENDS Naturals, Sequences, SequencesExt, FiniteSets, FiniteSetsExt, Functions

CONSTANTS
    Events,          \* Events known to both families
    Timers,          \* provider timers: no native thread waits on them
    Files,           \* hosted File objects
    Synchronization, \* the Events and Timers that a wait consumes
    NativeSignaled,  \* the Events set by the paths that wake native waiters only
    Threads,         \* native threads
    Dispatches,      \* provider dispatches
    NativeWaits,     \* the waits native threads ask for
    ProviderWaits,   \* the waits providers ask for
    None,
    MaxDeferred      \* bound on completions between their capture and their commit

Objects == Events \cup Timers \cup Files

(* A wait: its objects in order, WaitAll, and its deadline.                *)
Wait ==
    [objects : Seq(Objects), all : BOOLEAN, timeout : {"poll", "timed", "never"}]

ASSUME WaitsAssumption ==
    /\ NativeWaits \cup ProviderWaits \subseteq Wait
    /\ \A w \in NativeWaits : Range(w.objects) \cap Timers = {}
    /\ NativeSignaled \subseteq Events
    /\ Synchronization \subseteq Events \cup Timers

VARIABLES
    signaled,   \* the signal state of every object
    queue,      \* unselected waiters of both families, in admission order
    claimed,    \* selected native waiters, whose Reply is not yet finished
    window,     \* the native wait between its dispatch and its parking
    leases,     \* wait_leases of every object
    deferred    \* completion barriers: the Event, and whether it is still current

vars == <<signaled, queue, claimed, window, leases, deferred>>

Waiter == [who : Threads \cup Dispatches, wait : NativeWaits \cup ProviderWaits]

(* Types of the signal state, the waiters and the leases.                  *)
TypeOK ==
    /\ signaled \in [Objects -> BOOLEAN]
    /\ queue \in Seq(Waiter)
    /\ claimed \subseteq Waiter
    /\ window \in Waiter \cup {None}
    /\ leases \in [Objects -> Nat]
    /\ deferred \in Seq([event : Events, current : BOOLEAN])

Init ==
    /\ signaled = [o \in Objects |-> FALSE]
    /\ queue = <<>>
    /\ claimed = {}
    /\ window = None
    /\ leases = [o \in Objects |-> 0]
    /\ deferred = <<>>

Native(w) == w.who \in Threads
Waiting(x) == \/ \E w \in Range(queue) \cup claimed : w.who = x
              \/ window # None /\ window.who = x

-----------------------------------------------------------------------------
(* Readiness and consumption, shared by both families.                     *)

ReadySet(wait, sig) == {i \in DOMAIN wait.objects : sig[wait.objects[i]]}

Ready(wait, sig) ==
    IF wait.all THEN ReadySet(wait, sig) = DOMAIN wait.objects
                ELSE ReadySet(wait, sig) # {}

(* The objects a ready wait consumes: all of them, or the first ready one. *)
Selection(wait, sig) ==
    IF wait.all THEN Range(wait.objects)
                ELSE {wait.objects[Min(ReadySet(wait, sig))]}

Consumes(wait, o, sig) == Ready(wait, sig) /\ o \in Selection(wait, sig)

(* Every mutation of an Event outdates the completions captured before it. *)
Outdate(def, changed) ==
    [i \in DOMAIN def |->
        [def[i] EXCEPT !.current = @ /\ def[i].event \notin changed]]

(* The dispatcher state an arbitration works on.                           *)
State ==
    [sig |-> signaled, queue |-> queue, claimed |-> claimed, leases |-> leases,
     def |-> deferred]

Signal(s, o) ==
    [s EXCEPT !.sig[o] = TRUE, !.def = Outdate(@, {o})]

Unsignal(s, o) ==
    [s EXCEPT !.sig[o] = FALSE, !.def = Outdate(@, {o})]

Consume(s, wait) ==
    LET taken == Selection(wait, s.sig) IN
    [s EXCEPT !.sig = [o \in Objects |-> @[o] /\ o \notin taken \cap Synchronization],
              !.def = Outdate(@, taken)]

Count(objects, o) == Cardinality({i \in DOMAIN objects : objects[i] = o})

Acquire(s, objects) ==
    [s EXCEPT !.leases = [o \in Objects |-> @[o] + Count(objects, o)]]

Release(s, objects) ==
    [s EXCEPT !.leases = [o \in Objects |-> @[o] - Count(objects, o)]]

(* A waiter leaves the queue: a native one is claimed with its result and  *)
(* keeps its leases, a provider's continuation is selected and its leases  *)
(* are released.                                                           *)
Complete(s, i) ==
    LET w == s.queue[i]
        left == [s EXCEPT !.queue = RemoveAt(@, i)]
    IN  IF Native(w) THEN [left EXCEPT !.claimed = @ \cup {w}]
                     ELSE Release(left, w.wait.objects)

SelectAt(s, i) == Complete(Consume(s, s.queue[i].wait), i)

-----------------------------------------------------------------------------
(* Arbitration.                                                            *)

(* The oldest ready waiter of one family that would consume the Event, as  *)
(* a set of at most one place.                                             *)
OldestReady(s, family, e) ==
    LET ready == {i \in DOMAIN s.queue :
                    s.queue[i].who \in family /\ Consumes(s.queue[i].wait, e, s.sig)}
    IN  {i \in ready : \A j \in ready : i <= j}

Candidates(s, e) == OldestReady(s, Threads, e) \cup OldestReady(s, Dispatches, e)

MutNativeFirst(s, e) ==
    LET native == OldestReady(s, Threads, e)
    IN  IF native # {} THEN native ELSE OldestReady(s, Dispatches, e)

NextSelected(s, e) == Candidates(s, e)

(* select_event_signal: select the older of the two families' candidates   *)
(* until neither has one.                                                  *)
SelectEventSignal(s, e) ==
    LET after[n \in 0..Len(s.queue)] ==
            IF n = 0 THEN s
            ELSE LET t == after[n - 1]
                     next == NextSelected(t, e)
                 IN  IF next = {} THEN t ELSE SelectAt(t, Min(next))
    IN  after[Len(s.queue)]

(* One pass over the waiters of a family in admission order, selecting     *)
(* every one that is ready when its turn comes.                            *)
SelectReady(s, family) ==
    LET Place(t, who) == CHOOSE i \in DOMAIN t.queue : t.queue[i].who = who
        after[n \in 0..Len(s.queue)] ==
            IF n = 0 THEN s
            ELSE LET t == after[n - 1]
                     w == s.queue[n]
                 IN  IF w.who \in family /\ Ready(w.wait, t.sig)
                        THEN SelectAt(t, Place(t, w.who))
                        ELSE t
    IN  after[Len(s.queue)]

(* The waiters of S leave with a timeout, whatever their objects are.      *)
CompleteAll(s, S) ==
    LET after[n \in 0..Len(s.queue)] ==   \* from the youngest, places stay valid
            IF n = 0 THEN s
            ELSE LET i == Len(s.queue) + 1 - n
                 IN  IF i \in S THEN Complete(after[n - 1], i) ELSE after[n - 1]
    IN  after[Len(s.queue)]

(* The Replies of some claimed waiters finish and release their leases;    *)
(* the others are retained for a later redrive.                            *)
Finish(s, done) ==
    [s EXCEPT !.claimed = @ \ done,
              !.leases = [o \in Objects |->
                  @[o] - MapThenSumSet(LAMBDA w : Count(w.wait.objects, o), done)]]

Become(s) ==
    /\ signaled' = s.sig
    /\ queue' = s.queue
    /\ claimed' = s.claimed
    /\ leases' = s.leases
    /\ deferred' = s.def

Redriven(s) == \E done \in SUBSET s.claimed : Become(Finish(s, done))

-----------------------------------------------------------------------------
(* Event services.  A wake runs only on a FALSE to TRUE transition.        *)

SetEvent(e) ==
    LET s == Signal(State, e) IN
    /\ IF signaled[e] THEN Become(s) ELSE Redriven(SelectEventSignal(s, e))
    /\ UNCHANGED window

PulseEvent(e) ==
    /\ IF signaled[e]
          THEN Become(Unsignal(State, e))
          ELSE Redriven(Unsignal(SelectEventSignal(Signal(State, e), e), e))
    /\ UNCHANGED window

ResetEvent(e) ==
    /\ Become(Unsignal(State, e))
    /\ UNCHANGED window

(* The Event of a finished pending File operation is set, and only native  *)
(* waiters are scanned.                                                    *)
SetFileIoEvent(e) ==
    /\ e \in NativeSignaled
    /\ Redriven(SelectReady(Signal(State, e), Threads))
    /\ UNCHANGED window

(* A File completion wakes both families.                                  *)
SignalFile(o) ==
    /\ Redriven(SelectReady(SelectReady(Signal(State, o), Threads), Dispatches))
    /\ UNCHANGED window

(* The next operation on the File resets it.                               *)
BeginFileIo(o) ==
    /\ window = None
    /\ Become(Unsignal(State, o))
    /\ UNCHANGED window

(* A completion is captured with an Operation lease; its Event is set when *)
(* the origin acknowledges, unless a newer mutation outdated it.           *)
CaptureCompletion(e) ==
    /\ Len(deferred) < MaxDeferred
    /\ leases' = [leases EXCEPT ![e] = @ + 1]
    /\ deferred' = Append(deferred, [event |-> e, current |-> TRUE])
    /\ UNCHANGED <<signaled, queue, claimed, window>>

(* Tokens after the committed one stay current: their sequence is newer    *)
(* than the one the commit publishes.                                      *)
ReleaseCompletion(i) ==
    LET e == deferred[i].event
        published == [State EXCEPT !.sig[e] = TRUE,
                                   !.def = [j \in DOMAIN deferred |->
                                       [deferred[j] EXCEPT !.current =
                                           @ /\ (j > i \/ deferred[j].event # e)]]]
        done(s) == [Release(s, <<e>>) EXCEPT !.def = RemoveAt(@, i)]
    IN  /\ IF deferred[i].current
              THEN LET s == SelectEventSignal(published, e) IN Redriven(done(s))
              ELSE Become(done(State))
        /\ UNCHANGED window

-----------------------------------------------------------------------------
(* Native waits.                                                           *)

(* The dispatch of a wait: satisfied at once, timed out at once, or left   *)
(* to be parked by the same pass.                                          *)
BeginWait(s, t, wait) ==
    \/ /\ Ready(wait, s.sig)
       /\ Redriven(Consume(s, wait))
       /\ UNCHANGED window
    \/ /\ ~Ready(wait, s.sig)
       /\ Redriven(s)
       /\ window' = IF wait.timeout = "poll" THEN None ELSE [who |-> t, wait |-> wait]

NtWait(t, wait) ==
    /\ window = None /\ ~Waiting(t)
    /\ BeginWait(State, t, wait)

(* The signal half scans native waiters only, then the caller waits.       *)
SignalAndWait(t, e, wait) ==
    /\ window = None /\ ~Waiting(t)
    /\ e \in NativeSignaled
    /\ Len(wait.objects) = 1
    /\ BeginWait(SelectReady(Signal(State, e), Threads), t, wait)

Park ==
    LET admitted == [Acquire(State, window.wait.objects) EXCEPT !.queue = Append(@, window)]
    IN  /\ window # None
        /\ Redriven(SelectReady(admitted, Threads))
        /\ window' = None

(* The k-th object cannot be retained, or the row cannot be published: the *)
(* leases taken so far are released and the caller gets an error.          *)
ParkFails ==
    /\ window # None
    /\ \E k \in 0..Len(window.wait.objects) :
          LET taken == SubSeq(window.wait.objects, 1, k)
          IN  Become(Release(Acquire(State, taken), taken))
    /\ window' = None

(* wait_wake_due: every native waiter whose deadline passed is claimed.    *)
Due(family) ==
    {i \in DOMAIN queue : queue[i].who \in family /\ queue[i].wait.timeout = "timed"}

NativeDue ==
    /\ window = None
    /\ \E S \in SUBSET Due(Threads) \ {{}} : Redriven(CompleteAll(State, S))
    /\ UNCHANGED window

(* An APC or the teardown of the thread claims its row.                    *)
ClaimThread(t) ==
    /\ window = None
    /\ \E i \in DOMAIN queue : queue[i].who = t /\ Become(Complete(State, i))
    /\ UNCHANGED window

Redrive ==
    /\ claimed # {}
    /\ Redriven(State)
    /\ UNCHANGED window

-----------------------------------------------------------------------------
(* Provider waits.                                                         *)

(* Admission acquires every lease, publishes the continuation, and then    *)
(* completes at once or parks.                                             *)
MutPublicationLeak(d, wait, k) ==
    /\ window = None /\ ~Waiting(d)
    /\ LET taken == SubSeq(wait.objects, 1, k)
       IN  Become(IF k = Len(wait.objects) THEN Acquire(State, taken)
                  ELSE Release(Acquire(State, taken), taken))
    /\ UNCHANGED window

(* Object k + 1 cannot be leased, or with all k leases the continuation    *)
(* rejects the publication.                                                *)
AdmissionFails(d, wait, k) ==
    /\ window = None /\ ~Waiting(d)
    /\ LET taken == SubSeq(wait.objects, 1, k)
       IN  Become(Release(Acquire(State, taken), taken))
    /\ UNCHANGED window

Admit(d, wait) ==
    LET s == Acquire(State, wait.objects) IN
    /\ window = None /\ ~Waiting(d)
    /\ \/ /\ Ready(wait, s.sig)
          /\ Become(Release(Consume(s, wait), wait.objects))
       \/ /\ ~Ready(wait, s.sig)
          /\ wait.timeout # "never"
          /\ Become(Release(s, wait.objects))
       \/ /\ ~Ready(wait, s.sig)
          /\ wait.timeout # "poll"
          /\ Become([s EXCEPT !.queue = Append(@, [who |-> d, wait |-> wait])])
    /\ UNCHANGED window

MutExpireOnly(s, X) ==
    [s EXCEPT !.sig = [o \in Objects |-> @[o] \/ o \in X]]

(* The timer pass: expired provider waits leave, oldest first; then due    *)
(* timers expire, and only if one did are ready providers selected.        *)
ExpireTimers(s, X) ==
    IF X = {} THEN s
    ELSE SelectReady([s EXCEPT !.sig = [o \in Objects |-> @[o] \/ o \in X]], Dispatches)

ProviderDue ==
    /\ window = None
    /\ \E S \in SUBSET Due(Dispatches), X \in SUBSET Timers :
          /\ S # {} \/ X # {}
          /\ Become(ExpireTimers(CompleteAll(State, S), X))
    /\ UNCHANGED window

(* A provider sets its timer, which clears it.                             *)
SetTimer(o) ==
    /\ window = None
    /\ signaled' = [signaled EXCEPT ![o] = FALSE]
    /\ UNCHANGED <<queue, claimed, window, leases, deferred>>

(* Cancellation, or the alert of an alertable wait.                        *)
Withdraw(d) ==
    /\ window = None
    /\ \E i \in DOMAIN queue : queue[i].who = d /\ Become(Complete(State, i))
    /\ UNCHANGED window

-----------------------------------------------------------------------------
Next ==
    \/ \E e \in Events : \/ SetEvent(e)
                         \/ PulseEvent(e)
                         \/ ResetEvent(e)
                         \/ SetFileIoEvent(e)
                         \/ CaptureCompletion(e)
    \/ \E o \in Files : SignalFile(o) \/ BeginFileIo(o)
    \/ \E i \in DOMAIN deferred : ReleaseCompletion(i)
    \/ \E t \in Threads : ClaimThread(t)
    \/ \E t \in Threads, wait \in NativeWaits :
          NtWait(t, wait) \/ \E e \in Events : SignalAndWait(t, e, wait)
    \/ Park \/ ParkFails \/ NativeDue \/ Redrive
    \/ \E d \in Dispatches, wait \in ProviderWaits :
          \/ Admit(d, wait)
          \/ \E k \in 0..Len(wait.objects) : AdmissionFails(d, wait, k)
    \/ \E d \in Dispatches : Withdraw(d)
    \/ ProviderDue
    \/ \E o \in Timers : SetTimer(o)

Spec == Init /\ [][Next]_vars

-----------------------------------------------------------------------------
(* Properties.                                                             *)

(* A ready provider waiter stays parked only if one of its Events is set   *)
(* by the native-only paths: no other signal, timer expiry, File           *)
(* completion or admission leaves a provider behind.                       *)
StrandedOnlyByNativeSignal ==
    \A i \in DOMAIN queue :
        ~Native(queue[i]) /\ Ready(queue[i].wait, signaled) =>
            Range(queue[i].wait.objects) \cap NativeSignaled # {}

(* Complete one false-to-true Event transition across all admitted wait    *)
(* owners: no admitted waiter of either family is left ready.              *)
NoReadyWaiterParked ==
    \A i \in DOMAIN queue : ~Ready(queue[i].wait, signaled)

(* The leases of an object are those of its parked waiters, of its         *)
(* selected waiters with an unfinished Reply, and of the completions       *)
(* captured for it: no failed admission and no wake loses or keeps one.    *)
LeasesAccounted ==
    \A o \in Objects :
        leases[o] =
            MapThenSumSet(LAMBDA i : Count(queue[i].wait.objects, o), DOMAIN queue)
            + MapThenSumSet(LAMBDA w : Count(w.wait.objects, o), claimed)
            + Cardinality({i \in DOMAIN deferred : deferred[i].event = o})

(* The reference for one signal: all waiters in admission order, whatever  *)
(* their family, each taken if it is ready when its turn comes.            *)
FifoSignal(s, e) == SelectReady(Signal(s, e), Threads \cup Dispatches)

(* Setting any clear Event serves the waiters as one queue in admission    *)
(* order: no family overtakes the other, although each publishes only its  *)
(* own oldest candidate.                                                   *)
SignalIsFifo ==
    \A e \in Events :
        NoReadyWaiterParked /\ ~signaled[e] =>
            LET s == SelectEventSignal(Signal(State, e), e)
            IN  s.queue = FifoSignal(State, e).queue /\ s.sig = FifoSignal(State, e).sig

=============================================================================
