------------------------- MODULE FileObjectIoProofs -------------------------
(***************************************************************************)
(* The books of one FILE_OBJECT, for every finite set of threads: its      *)
(* reference count, its Busy lock, the exclusion of CLEANUP, the wake that *)
(* is never lost and the order of promotion.  First the invariant behind   *)
(* them and lemmas about the operators of the model, then the steps that   *)
(* leave the lock to the rows (a cancellation that moves on, a Reply that  *)
(* is retired, a wake that is settled), the steps on the File and the      *)
(* lock, and the theorems.                                                 *)
(***************************************************************************)
EXTENDS FileObjectIo, FiniteSetTheorems, WellFoundedInduction, TLAPS

(* The acquisitions the File still counts: as waiters and as the grant.    *)
Counted == {t \in Thread : row[t] # NoRow /\ row[t].owned /\ row[t].state = "waiting"}

Granted == {t \in Thread : row[t] # NoRow /\ row[t].owned /\ row[t].state = "promoted"}

ReferencePhases == {"none", "Deferred", "Policy", "Wake", "Reference"}

(* The rows and the pending IRPs that still own a reference of the File.   *)
Referring == {t \in Thread : HoldsReference(t)}

Pending == {t \in Thread : pend[t] # "none"}

(* An acquisition is undone exactly when its cancellation has run its      *)
(* policy; a waiter was never sent a Reply, so its cancellation is never   *)
(* deferred behind one.                                                    *)
RowOK(r) ==
    /\ r.owned <=> r.phase \in {"none", "Deferred", "Policy"}
    /\ r.state = "waiting" => r.retry = "none"
    /\ r.phase = "Deferred" => r.state = "promoted"

(* The row q keeps the acquisition and the reference of the row r.         *)
Keeps(r, q) ==
    /\ q = NoRow <=> r = NoRow
    /\ q # NoRow =>
         /\ q \in Row /\ RowOK(q)
         /\ q.state = r.state /\ q.owned = r.owned
         /\ q.phase \in ReferencePhases <=> r.phase \in ReferencePhases
         /\ q.phase = "none" => r.phase = "none"

RowInv == \A t \in Thread : row[t] # NoRow => RowOK(row[t])

FileType ==
    [state : {"absent", "reserved", "open", "closed"}, sync : BOOLEAN,
     references : Nat, handles : 0..MaxHandles, cleanupSent : BOOLEAN,
     cleanupRef : BOOLEAN, started : BOOLEAN]

(* The life of the entry: a reservation is one reference, no entry has     *)
(* none, and CLEANUP runs once, after the last handle.                     *)
FileInv ==
    /\ file.state = "reserved" => file.references = 1 /\ ~file.cleanupSent
    /\ file.state \in {"absent", "closed"} => file.references = 0
    /\ file.handles > 0 => ~file.cleanupSent
    /\ file.cleanupRef => file.cleanupSent
    /\ file.started => file.cleanupRef

(* Who has Busy, and for whom the operation behind it runs.                *)
BusyInv ==
    /\ ser.waiters = Cardinality(Counted)
    /\ {t \in Thread : ser.grant = t} = Granted
    /\ ser.grant # NoThread => ser.owner = ser.grant
    /\ hold # "none" <=> ser.owner \in Thread /\ ser.grant = NoThread
    /\ hold \in {"irp", "done"} => pend[ser.owner] = "none"

(* CLEANUP waits before it starts, and owns Busy only when it has started  *)
(* with nobody counted.                                                    *)
CleanupInv ==
    /\ ser.cleanupWaiting => file.cleanupRef /\ ~file.started /\ file.sync
    /\ ser.owner = Cleanup => file.started /\ file.sync /\ ser.waiters = 0

(* The FIFO names every waiter nobody cancels, each once, and only rows.   *)
FifoInv ==
    /\ \A i, j \in DOMAIN fifo : fifo[i] = fifo[j] => i = j
    /\ \A i \in DOMAIN fifo : row[fifo[i]] # NoRow
    /\ \A t \in Waiting : \E i \in DOMAIN fifo : fifo[i] = t

(* The reference count: what the entry itself records, and its users.      *)
Own(f) == f.handles + Count(f.state = "reserved") + Count(f.cleanupRef)

Owed == wakeDue + refDue

Users ==
    Count(hold # "none") + Cardinality(Referring) + Cardinality(Pending) + Owed + async

ReferenceInv == file.references = Own(file) + Users

IInv ==
    /\ TypeOK
    /\ ReferenceInv
    /\ RowInv
    /\ FileInv
    /\ BusyInv
    /\ CleanupInv
    /\ FifoInv
    /\ WakeOutstanding
-----------------------------------------------------------------------------
(***************************************************************************)
(* Lemmas about the operators of the model.                                *)
(***************************************************************************)

(* Sets of threads are finite and have a count.                            *)
LEMMA ThreadSets ==
    ASSUME NEW S \in SUBSET Thread
    PROVE  IsFiniteSet(S) /\ Cardinality(S) \in Nat
BY ThreadsFinite, FS_Subset, FS_CardinalityType

(* One more member, one more in the count.                                 *)
LEMMA CountAdded ==
    ASSUME NEW S \in SUBSET Thread, NEW t \in Thread, t \notin S
    PROVE  Cardinality(S \cup {t}) = Cardinality(S) + 1
BY ThreadSets, FS_AddElement

(* One member less, one less in the count.                                 *)
LEMMA CountRemoved ==
    ASSUME NEW S \in SUBSET Thread, NEW t \in S
    PROVE  /\ Cardinality(S \ {t}) = Cardinality(S) - 1
           /\ Cardinality(S) > 0
<1>1. /\ IsFiniteSet(S \ {t})
      /\ Cardinality(S \ {t}) = Cardinality(S) - 1
  BY ThreadSets, FS_RemoveElement
<1>2. Cardinality(S \ {t}) \in Nat /\ Cardinality(S) \in Nat
  BY ThreadSets
<1> QED
  BY <1>1, <1>2

(* A count of zero means nobody.                                           *)
LEMMA CountZero ==
    ASSUME NEW S \in SUBSET Thread
    PROVE  Cardinality(S) = 0 <=> S = {}
BY ThreadSets, FS_EmptySet

(* The terms of the reference count are numbers.                           *)
LEMMA CountType == \A b : Count(b) \in {0, 1}
BY DEF Count

(* What the entry records of itself is a number.                           *)
LEMMA OwnType ==
    ASSUME NEW f \in FileType
    PROVE  Own(f) \in Nat
<1>1. f.handles \in Nat
  BY BoundsAssumption DEF FileType
<1> QED
  BY <1>1, CountType DEF Own

(* So is the number of its users.                                          *)
LEMMA UsersType ==
    ASSUME TypeOK
    PROVE  Users \in Nat /\ Owed \in Nat
<1>1. Cardinality(Referring) \in Nat /\ Cardinality(Pending) \in Nat
  BY ThreadSets DEF Referring, Pending
<1>2. Owed \in Nat /\ async \in Nat
  BY BoundsAssumption DEF TypeOK, Owed
<1>3. Count(hold # "none") \in Nat
  BY CountType
<1> QED
  BY <1>1, <1>2, <1>3 DEF Users

(* A nonempty set of numbers has a least member.                           *)
LEMMA LeastMember ==
    ASSUME NEW T \in SUBSET Nat, T # {}
    PROVE  \E x \in T : \A y \in T : x <= y
<1> DEFINE R == OpToRel(<, Nat)
<1>1. IsWellFoundedOn(R, Nat)
  BY NatLessThanWellFounded, Zenon
<1>2. \A x, y \in Nat : y < x => <<y, x>> \in R
  BY DEF OpToRel
<1> HIDE DEF R
<1>3. PICK x \in T : \A y \in T : ~(<<y, x>> \in R)
  BY <1>1, WFMin, Zenon
<1>4. ASSUME NEW y \in T
      PROVE  x <= y
  <2>1. x \in Nat /\ y \in Nat
    OBVIOUS
  <2>2. ~(y < x)
    BY <1>2, <1>3, <2>1, Zenon
  <2> QED
    BY <2>1, <2>2
<1> QED
  BY <1>4

(* oldest_waiting_for_file finds a waiter when there is one, and nobody    *)
(* queued before it waits.                                                 *)
LEMMA OldestIsFirst ==
    ASSUME fifo \in Seq(Thread), FifoInv, Waiting # {}
    PROVE  \E i \in DOMAIN fifo :
             /\ OldestWaiting = fifo[i] /\ fifo[i] \in Waiting
             /\ \A j \in DOMAIN fifo : j < i => fifo[j] \notin Waiting
<1> DEFINE At == {i \in DOMAIN fifo : fifo[i] \in Waiting}
           First(i) == /\ fifo[i] \in Waiting
                       /\ \A j \in DOMAIN fifo : j < i => fifo[j] \notin Waiting
<1>1. DOMAIN fifo \subseteq Nat
  OBVIOUS
<1>2. At \in SUBSET Nat /\ At # {}
  BY <1>1 DEF FifoInv
<1>3. PICK x \in At : \A y \in At : x <= y
  BY <1>2, LeastMember, Zenon
<1>4. First(x)
  <2>1. ASSUME NEW j \in DOMAIN fifo, j < x, fifo[j] \in Waiting
        PROVE  FALSE
    <3>1. j \in At /\ j \in Nat /\ x \in Nat
      BY <2>1, <1>1
    <3> QED
      BY <3>1, <2>1, <1>3
  <2> QED
    BY <2>1
<1>5. x \in DOMAIN fifo
  OBVIOUS
<1>6. OldestWaiting = fifo[CHOOSE i \in DOMAIN fifo : First(i)]
  BY DEF OldestWaiting
<1> HIDE DEF First, At
<1>7. (CHOOSE i \in DOMAIN fifo : First(i)) \in DOMAIN fifo
      /\ First(CHOOSE i \in DOMAIN fifo : First(i))
  BY <1>4, <1>5
<1> QED
  BY <1>6, <1>7 DEF First

(* A record that leaves the FIFO leaves the others queued, each once.      *)
LEMMA DequeueKeepsOthers ==
    ASSUME NEW q \in Seq(Thread), NEW t \in Thread, NEW p, p = Dequeue(q, t),
           \A i, j \in DOMAIN q : q[i] = q[j] => i = j
    PROVE  /\ p \in Seq(Thread)
           /\ \A i, j \in DOMAIN p : p[i] = p[j] => i = j
           /\ \A i \in DOMAIN p : p[i] # t /\ \E j \in DOMAIN q : q[j] = p[i]
           /\ \A j \in DOMAIN q : q[j] # t => \E i \in DOMAIN p : p[i] = q[j]
<1>1. CASE ~\E i \in DOMAIN q : q[i] = t
  BY <1>1 DEF Dequeue
<1>2. CASE \E i \in DOMAIN q : q[i] = t
  <2> DEFINE at == CHOOSE i \in DOMAIN q : q[i] = t
             d == [i \in 1..(Len(q) - 1) |-> q[IF i < at THEN i ELSE i + 1]]
  <2>1. p = d
    BY <1>2 DEF Dequeue
  <2>2. at \in 1..Len(q) /\ q[at] = t /\ DOMAIN q = 1..Len(q) /\ Len(q) \in Nat
    BY <1>2
  <2> HIDE DEF at
  <2>3. /\ \A i \in 1..(Len(q) - 1) : d[i] = IF i < at THEN q[i] ELSE q[i + 1]
        /\ \A i \in 1..Len(q) : q[i] \in Thread
    BY <2>2
  <2>4. d \in [1..(Len(q) - 1) -> Thread] /\ Len(q) - 1 \in Nat
    BY <2>2, <2>3
  <2>5. d \in Seq(Thread) /\ DOMAIN d = 1..(Len(q) - 1)
    BY <2>4
  <2> HIDE DEF d
  <2>6. ASSUME NEW i \in DOMAIN d, NEW j \in DOMAIN d, d[i] = d[j]
        PROVE  i = j
    <3> DEFINE From(k) == IF k < at THEN k ELSE k + 1
    <3>1. /\ From(i) \in DOMAIN q /\ From(j) \in DOMAIN q
          /\ d[i] = q[From(i)] /\ d[j] = q[From(j)]
      BY <2>2, <2>3, <2>5
    <3>2. From(i) = From(j)
      BY <3>1, <2>6, Zenon
    <3> QED
      BY <3>2, <2>2, <2>5
  <2>7. ASSUME NEW i \in DOMAIN d
        PROVE  d[i] # t /\ \E j \in DOMAIN q : q[j] = d[i]
    <3> DEFINE k == IF i < at THEN i ELSE i + 1
    <3>1. i \in 1..(Len(q) - 1)
      BY <2>5
    <3>2. d[i] = q[k]
      BY <2>3, <3>1
    <3>3. k \in DOMAIN q /\ k # at
      BY <2>2, <3>1
    <3> HIDE DEF k
    <3>4. q[k] # t
      BY <2>2, <3>3
    <3> QED
      BY <3>2, <3>3, <3>4
  <2>8. ASSUME NEW j \in DOMAIN q, q[j] # t
        PROVE  \E i \in DOMAIN d : d[i] = q[j]
    <3>1. CASE j < at
      BY <3>1, <2>2, <2>3, <2>5
    <3>2. CASE j > at
      <4>1. j - 1 \in DOMAIN d /\ d[j - 1] = q[j]
        BY <3>2, <2>2, <2>3, <2>5
      <4> QED
        BY <4>1
    <3> QED
      BY <3>1, <3>2, <2>8, <2>2
  <2> QED
    BY <2>1, <2>5, <2>6, <2>7, <2>8
<1> QED
  BY <1>1, <1>2
-----------------------------------------------------------------------------
(***************************************************************************)
(* Steps on the rows.                                                      *)
(***************************************************************************)

(* Rows that keep their acquisitions and references keep every set the     *)
(* books are made of.                                                      *)
LEMMA KeptSets ==
    ASSUME TypeOK, RowInv, row' \in [Thread -> Row \cup {NoRow}],
           \A u \in Thread : Keeps(row[u], row'[u])
    PROVE  /\ RowInv'
           /\ Counted' = Counted /\ Granted' = Granted /\ Referring' = Referring
           /\ Waiting' \subseteq Waiting
<1>1. RowInv'
  BY DEF RowInv, Keeps
<1>2. Counted' = Counted
  BY DEF Counted, Keeps
<1>3. Granted' = Granted
  BY DEF Granted, Keeps
<1>4. Referring' = Referring
  BY DEF Referring, HoldsReference, Keeps, ReferencePhases
<1>5. Waiting' \subseteq Waiting
  BY DEF Waiting, Rows, Keeps
<1> QED
  BY <1>1, <1>2, <1>3, <1>4, <1>5

(* A step that moves one row to another effect and leaves the File, the    *)
(* lock and the obligations alone preserves the invariant.                 *)
LEMMA RowChange ==
    ASSUME IInv, NEW t \in Thread, NEW r, row[t] # NoRow, Keeps(row[t], r),
           row[t].phase \in {"Policy", "Wake"} => r.phase \in {"Policy", "Wake"},
           row' = [row EXCEPT ![t] = r],
           thread' \in [Thread -> {"user", "insys", "parked", "resumed", "blocked", "dead"}],
           UNCHANGED <<file, ser, fifo, hold, wakeDue, pend, refDue, manager, async>>
    PROVE  IInv'
<1>1. TypeOK /\ RowInv /\ ReferenceInv /\ FileInv /\ BusyInv /\ CleanupInv /\ FifoInv
      /\ WakeOutstanding
  BY DEF IInv
<1>2. r \in Row /\ r # NoRow
  BY NoRowAssumption DEF Keeps
<1>3. row' \in [Thread -> Row \cup {NoRow}]
  BY <1>1, <1>2 DEF TypeOK
<1>4. row'[t] = r /\ \A u \in Thread \ {t} : row'[u] = row[u]
  BY <1>1 DEF TypeOK
<1>5. \A u \in Thread : Keeps(row[u], row'[u])
  <2> SUFFICES ASSUME NEW u \in Thread, u # t
               PROVE  Keeps(row[u], row[u])
    BY <1>4
  <2> QED
    BY <1>1 DEF TypeOK, RowInv, Keeps
<1>6. /\ RowInv'
      /\ Counted' = Counted /\ Granted' = Granted /\ Referring' = Referring
      /\ Waiting' \subseteq Waiting
  BY <1>1, <1>3, <1>5, KeptSets
<1>7. TypeOK'
  BY <1>1, <1>3 DEF TypeOK
<1>8. ReferenceInv'
  BY <1>1, <1>6 DEF ReferenceInv, Users, Pending, Owed
<1>9. FileInv' /\ CleanupInv'
  BY <1>1 DEF FileInv, CleanupInv
<1>10. BusyInv'
  BY <1>1, <1>6 DEF BusyInv
<1>11. FifoInv'
  <2>1. \A i \in DOMAIN fifo : row'[fifo[i]] # NoRow
    BY <1>1, <1>2, <1>4 DEF FifoInv, TypeOK
  <2> QED
    BY <1>1, <1>6, <2>1 DEF FifoInv
<1>12. WakeOutstanding'
  <2>1. ASSUME NEW u \in Thread, Phase(u) \in {"Policy", "Wake"}
        PROVE  Phase(u)' \in {"Policy", "Wake"}
    BY <1>2, <1>4, <2>1 DEF Phase
  <2> QED
    BY <1>1, <2>1 DEF WakeOutstanding
<1> QED
  BY <1>6, <1>7, <1>8, <1>9, <1>10, <1>11, <1>12 DEF IInv

(* The thread's own position is no part of the books.                      *)
LEMMA ThreadChange ==
    ASSUME IInv, UNCHANGED row,
           thread' \in [Thread -> {"user", "insys", "parked", "resumed", "blocked", "dead"}],
           UNCHANGED <<file, ser, fifo, hold, wakeDue, pend, refDue, manager, async>>
    PROVE  IInv'
<1>1. TypeOK'
  BY DEF IInv, TypeOK
<1>2. RowInv' /\ FileInv' /\ CleanupInv'
  BY DEF IInv, RowInv, FileInv, CleanupInv
<1>3. Counted' = Counted /\ Granted' = Granted /\ Referring' = Referring
      /\ Pending' = Pending /\ Waiting' = Waiting
  BY DEF Counted, Granted, Referring, HoldsReference, Pending, Waiting, Rows
<1>4. ReferenceInv' /\ BusyInv'
  BY <1>3 DEF IInv, ReferenceInv, Users, BusyInv, Owed
<1>5. FifoInv' /\ WakeOutstanding'
  BY <1>3 DEF IInv, FifoInv, WakeOutstanding, Phase
<1> QED
  BY <1>1, <1>2, <1>4, <1>5 DEF IInv

(* reject_ingress starts the cancellation of a granted row, which keeps    *)
(* the grant until its policy runs.                                        *)
LEMMA RejectIngressStep ==
    ASSUME IInv, NEW t \in Thread, RejectIngress(t)
    PROVE  IInv'
<1> DEFINE r == [row[t] EXCEPT !.phase = "Policy", !.teardown = TRUE]
<1>1. row[t] \in Row /\ RowOK(row[t]) /\ row[t] # NoRow
  BY DEF IInv, TypeOK, RowInv, RejectIngress
<1>2. Keeps(row[t], r)
  BY <1>1, NoRowAssumption, Zenon
     DEF Keeps, RowOK, Row, CancelPhase, ReferencePhases, RejectIngress
<1>3. row' = [row EXCEPT ![t] = r]
  BY Zenon DEF RejectIngress, IInv, TypeOK
<1>4. r.phase = "Policy"
  BY <1>1 DEF Row
<1> QED
  BY <1>1, <1>2, <1>3, <1>4, RowChange, Zenon DEF RejectIngress, IInv, TypeOK

(* request_user_apc_interruption starts the cancellation of a waiter,      *)
(* which stays counted until its policy runs.                              *)
LEMMA RequestUserApcStep ==
    ASSUME IInv, NEW t \in Thread, RequestUserApc(t)
    PROVE  IInv'
<1> DEFINE r == [row[t] EXCEPT !.phase = "Policy", !.apc = TRUE]
<1>1. row[t] \in Row /\ RowOK(row[t]) /\ row[t] # NoRow
  BY DEF IInv, TypeOK, RowInv, RequestUserApc
<1>2. Keeps(row[t], r)
  BY <1>1, NoRowAssumption, Zenon
     DEF Keeps, RowOK, Row, CancelPhase, ReferencePhases, RequestUserApc
<1>3. row' = [row EXCEPT ![t] = r]
  BY Zenon DEF RequestUserApc, IInv, TypeOK
<1>4. r.phase = "Policy"
  BY <1>1 DEF Row
<1> QED
  BY <1>1, <1>2, <1>3, <1>4, RowChange, Zenon DEF RequestUserApc, IInv, TypeOK

(* request_thread_cancellation takes nothing from the row of the thread: a *)
(* Reply already entered defers it, an APC already entered is kept.        *)
LEMMA TerminateThreadStep ==
    ASSUME IInv, NEW t \in Thread, TerminateThread(t)
    PROVE  IInv'
<1>1. thread' \in [Thread -> {"user", "insys", "parked", "resumed", "blocked", "dead"}]
  BY DEF TerminateThread, IInv, TypeOK
<1>2. CASE row[t] = NoRow
  BY <1>1, <1>2, ThreadChange DEF TerminateThread
<1>3. CASE row[t] # NoRow
  <2> DEFINE r == CancelRow(row[t])
  <2>1. row[t] \in Row /\ RowOK(row[t])
    BY <1>3 DEF IInv, TypeOK, RowInv
  <2>2. r \in Row /\ r.state = row[t].state /\ r.owned = row[t].owned
        /\ r.retry = row[t].retry
    <3>1. CASE row[t].phase = "none"
      BY <2>1, <3>1, Zenon DEF CancelRow, CancellationMustDefer, Row, CancelPhase
    <3>2. CASE row[t].phase # "none"
      <4>1. r = RequestTeardown(row[t])
        BY <3>2 DEF CancelRow
      <4>2. CASE row[t].teardown
        BY <2>1, <4>1, <4>2 DEF RequestTeardown
      <4>3. CASE ~row[t].teardown /\ row[t].phase \in {"Stage", "Send"}
        BY <2>1, <4>1, <4>3, ZenonT(30) DEF RequestTeardown, Row, CancelPhase
      <4>4. CASE ~row[t].teardown /\ row[t].phase \in {"Staging", "SendStuck", "RetireApc"}
        BY <2>1, <4>1, <4>4, ZenonT(30) DEF RequestTeardown, Row, CancelPhase
      <4>5. CASE ~row[t].teardown /\ row[t].phase \notin
                   {"Stage", "Send", "Staging", "SendStuck", "RetireApc"}
        BY <2>1, <4>1, <4>5, Zenon DEF RequestTeardown, Row, CancelPhase
      <4> QED
        BY <4>2, <4>3, <4>4, <4>5
    <3> QED
      BY <3>1, <3>2
  <2>3. \/ row[t].phase = "none" /\ ~CancellationMustDefer(row[t]) /\ r.phase = "Policy"
        \/ row[t].phase = "none" /\ CancellationMustDefer(row[t]) /\ r.phase = "Deferred"
        \/ row[t].phase # "none" /\ r.phase = row[t].phase
        \/ row[t].phase \in {"Stage", "Send"} /\ r.phase = "Revoke"
    BY <2>1 DEF CancelRow, RequestTeardown, Row
  <2>4. row' = [row EXCEPT ![t] = r]
    BY <1>3 DEF TerminateThread
  <2> HIDE DEF r
  <2>5. RowOK(r)
    BY <2>1, <2>2, <2>3 DEF RowOK, CancellationMustDefer, Row
  <2>6. Keeps(row[t], r)
    BY <1>3, <2>2, <2>3, <2>5, NoRowAssumption DEF Keeps, ReferencePhases
  <2>7. row[t].phase \in {"Policy", "Wake"} => r.phase \in {"Policy", "Wake"}
    BY <2>3
  <2> QED
    BY <1>1, <1>3, <2>4, <2>6, <2>7, RowChange, Zenon DEF TerminateThread
<1> QED
  BY <1>2, <1>3

(* The effects of a cancellation after its reference, and the retirement   *)
(* of a Reply that was sent.                                               *)
LEMMA EffectStep ==
    ASSUME IInv, NEW t \in Thread, row[t] # NoRow, NEW r \in Row,
           row[t].phase \notin ReferencePhases, r.phase \notin ReferencePhases,
           r.state = row[t].state, r.owned = row[t].owned, r.retry = row[t].retry,
           row' = [row EXCEPT ![t] = r],
           thread' \in [Thread -> {"user", "insys", "parked", "resumed", "blocked", "dead"}],
           UNCHANGED <<file, ser, fifo, hold, wakeDue, pend, refDue, manager, async>>
    PROVE  IInv'
<1>1. RowOK(row[t])
  BY DEF IInv, RowInv
<1>2. Keeps(row[t], r)
  BY <1>1, NoRowAssumption DEF Keeps, RowOK, ReferencePhases
<1> QED
  BY <1>2, RowChange, Zenon DEF ReferencePhases

(* The port, APC and Reply effects of a cancellation come after its        *)
(* reference and touch no count.                                           *)
LEMMA CancellationEffectSteps ==
    ASSUME IInv, NEW t \in Thread,
           \/ CancelFollowup(t) \/ CancelRevokeReply(t) \/ CancelRetireReply(t)
           \/ CancelStageApc(t) \/ CancelStagedApc(t) \/ CancelSendApc(t)
           \/ CancelRetireApc(t)
    PROVE  IInv'
<1>1. row[t] # NoRow /\ row[t] \in Row /\ row[t].phase = Phase(t)
      /\ row[t].phase \notin ReferencePhases
  BY DEF IInv, TypeOK, Phase, CancelFollowup, CancelRevokeReply, CancelRetireReply,
         CancelStageApc, CancelStagedApc, CancelSendApc, CancelRetireApc, ReferencePhases
<1>2. /\ thread' \in [Thread -> {"user", "insys", "parked", "resumed", "blocked", "dead"}]
      /\ UNCHANGED <<file, ser, fifo, hold, wakeDue, pend, refDue, manager, async>>
  BY DEF IInv, TypeOK, RowStep, CancelFollowup, CancelRevokeReply, CancelRetireReply,
         CancelStageApc, CancelStagedApc, CancelSendApc, CancelRetireApc
<1>3. \E r \in Row : /\ r.phase \notin ReferencePhases
                     /\ r.state = row[t].state /\ r.owned = row[t].owned
                     /\ r.retry = row[t].retry
                     /\ row' = [row EXCEPT ![t] = r]
  <2>1. CASE CancelFollowup(t)
    <3>1. ReplyStep(row[t]) \in {"Complete", "Stage", "Revoke"}
      BY DEF ReplyStep
    <3>2. row' = [row EXCEPT ![t] = [row[t] EXCEPT !.phase = ReplyStep(row[t])]]
      BY <2>1 DEF CancelFollowup, RowStep
    <3> QED
      BY <1>1, <3>1, <3>2, Zenon DEF Row, CancelPhase, ReferencePhases
  <2>2. CASE CancelRevokeReply(t)
    BY <1>1, <2>2, Zenon DEF CancelRevokeReply, RowStep, Row, CancelPhase, ReferencePhases
  <2>3. CASE CancelRetireReply(t)
    BY <1>1, <2>3, Zenon DEF CancelRetireReply, RowStep, Row, CancelPhase, ReferencePhases
  <2>4. CASE CancelStageApc(t)
    BY <1>1, <2>4, Zenon DEF CancelStageApc, RowStep, Row, CancelPhase, ReferencePhases
  <2>5. CASE CancelStagedApc(t)
    <3>1. CASE row[t].teardown
      <4>1. row' = [row EXCEPT ![t] = [row[t] EXCEPT !.phase = "Revoke", !.apc = FALSE]]
        BY <2>5, <3>1 DEF CancelStagedApc, RowStep
      <4> QED
        BY <1>1, <4>1, Zenon DEF Row, CancelPhase, ReferencePhases
    <3>2. CASE ~row[t].teardown
      <4>1. PICK next \in {"Send", "Stage"} :
                   row' = [row EXCEPT ![t] = [row[t] EXCEPT !.phase = next]]
        BY <2>5, <3>2 DEF CancelStagedApc, RowStep
      <4> QED
        BY <1>1, <4>1, Zenon DEF Row, CancelPhase, ReferencePhases
    <3> QED
      BY <3>1, <3>2
  <2>6. CASE CancelSendApc(t)
    <3>1. PICK next \in {"RetireApc", "SendStuck"} :
                 row' = [row EXCEPT ![t] = [row[t] EXCEPT !.phase = next]]
      BY <2>6 DEF CancelSendApc
    <3> QED
      BY <1>1, <3>1, Zenon DEF Row, CancelPhase, ReferencePhases
  <2>7. CASE CancelRetireApc(t)
    BY <1>1, <2>7, Zenon DEF CancelRetireApc, RowStep, Row, CancelPhase, ReferencePhases
  <2> QED
    BY <2>1, <2>2, <2>3, <2>4, <2>5, <2>6, <2>7
<1> QED
  BY <1>1, <1>2, <1>3, EffectStep, Zenon

(* finish_retry keeps the grant and the reference of the row; it releases  *)
(* a cancellation that was deferred behind the Reply.                      *)
LEMMA RetiredRow ==
    ASSUME NEW r \in Row, RowOK(r), r.state = "promoted"
    PROVE  /\ Keeps(r, RetryRetired(r))
           /\ RetryRetired(r).state = "promoted"
           /\ r.phase = "none" => RetryRetired(r).phase = "none"
           /\ r.phase \in {"Policy", "Wake"} => RetryRetired(r).phase = r.phase
<1> DEFINE q == [r EXCEPT !.retry = "retired", !.cap = FALSE]
<1>1. /\ q \in Row /\ q.state = "promoted" /\ q.owned = r.owned /\ q.phase = r.phase
      /\ q.retry = "retired"
  BY Zenon DEF Row
<1>2. RowOK(q)
  BY <1>1 DEF RowOK, Row
<1>3. RetryRetired(r) = ActivateDeferred(q)
  BY DEF RetryRetired
<1> HIDE DEF q
<1>4. CASE q.phase = "Deferred"
  <2> DEFINE p == [q EXCEPT !.phase = "Policy"]
  <2>1. RetryRetired(r) = p
    BY <1>1, <1>3, <1>4 DEF ActivateDeferred, CancellationMustDefer
  <2>2. p \in Row /\ p.state = q.state /\ p.owned = q.owned /\ p.retry = q.retry
        /\ p.phase = "Policy"
    BY <1>1 DEF Row, CancelPhase
  <2> HIDE DEF p
  <2>3. RowOK(p)
    BY <1>1, <1>2, <1>4, <2>2 DEF RowOK, Row
  <2> QED
    BY <1>1, <1>4, <2>1, <2>2, <2>3, NoRowAssumption DEF Keeps, ReferencePhases
<1>5. CASE q.phase # "Deferred"
  <2>1. RetryRetired(r) = q
    BY <1>3, <1>5 DEF ActivateDeferred
  <2> QED
    BY <1>1, <1>2, <2>1, NoRowAssumption DEF Keeps, ReferencePhases
<1> QED
  BY <1>4, <1>5

(* redrive_retirement of a Reply that was sent.                            *)
LEMMA RedriveRetirementStep ==
    ASSUME IInv, NEW t \in Thread, RedriveRetirement(t)
    PROVE  IInv'
<1>1. row[t] \in Row /\ RowOK(row[t]) /\ row[t] # NoRow
  BY DEF IInv, TypeOK, RowInv, RedriveRetirement
<1>2. row[t].state = "promoted"
  BY <1>1 DEF RowOK, Row, RedriveRetirement
<1>3. /\ Keeps(row[t], RetryRetired(row[t]))
      /\ row[t].phase \in {"Policy", "Wake"} => RetryRetired(row[t]).phase = row[t].phase
  BY <1>1, <1>2, RetiredRow
<1>4. row' = [row EXCEPT ![t] = RetryRetired(row[t])]
  BY DEF RedriveRetirement, RowStep
<1> QED
  BY <1>1, <1>3, <1>4, RowChange, Zenon DEF RedriveRetirement, RowStep, IInv, TypeOK

(* deliver_file for a promoted row nobody cancels, whatever becomes of the *)
(* Reply: the row keeps the grant.                                         *)
LEMMA Delivered ==
    ASSUME thread \in [Thread -> {"user", "insys", "parked", "resumed", "blocked", "dead"}],
           NEW rs \in [Thread -> Row \cup {NoRow}], NEW t \in Thread,
           rs[t] \in Row, RowOK(rs[t]), rs[t].state = "promoted", rs[t].phase = "none",
           DeliverRetry(rs, t)
    PROVE  /\ thread' \in [Thread -> {"user", "insys", "parked", "resumed", "blocked", "dead"}]
           /\ \E r : /\ Keeps(rs[t], r) /\ r.phase = "none" /\ r.state = "promoted"
                     /\ row' = [rs EXCEPT ![t] = r]
<1> DEFINE Good(r) == Keeps(rs[t], r) /\ r.phase = "none" /\ r.state = "promoted"
<1>1. Good(rs[t])
  BY NoRowAssumption DEF Keeps
<1>2. Good(RetryRetired(rs[t]))
  BY RetiredRow
<1>3. ASSUME NEW x \in {"acked", "indeterminate"}
      PROVE  Good([rs[t] EXCEPT !.retry = x])
  <2> DEFINE q == [rs[t] EXCEPT !.retry = x]
  <2>1. /\ q \in Row /\ q.state = rs[t].state /\ q.owned = rs[t].owned
        /\ q.phase = rs[t].phase
    BY DEF Row
  <2> HIDE DEF q
  <2>2. RowOK(q)
    BY <2>1 DEF RowOK, Row
  <2>3. Good(q)
    BY <2>1, <2>2, NoRowAssumption DEF Keeps
  <2> QED
    BY <2>3 DEF q
<1>4. rs = [rs EXCEPT ![t] = rs[t]]
  OBVIOUS
<1> HIDE DEF Good
<1>5. CASE rs[t].retry = "ready"
  <2>1. PICK r \in Deliveries(rs[t]) :
               /\ row' = [rs EXCEPT ![t] = r]
               /\ thread' = IF r.retry # "indeterminate" /\ thread[t] = "parked"
                              THEN [thread EXCEPT ![t] = "resumed"] ELSE thread
    BY <1>5 DEF DeliverRetry
  <2>2. \/ r = RetryRetired(rs[t])
        \/ r = [rs[t] EXCEPT !.retry = "acked"]
        \/ r = [rs[t] EXCEPT !.retry = "indeterminate"]
    BY <2>1, Zenon DEF Deliveries
  <2>3. Good(r)
    BY <1>2, <1>3, <2>2
  <2>4. thread' \in [Thread -> {"user", "insys", "parked", "resumed", "blocked", "dead"}]
    BY <2>1
  <2> QED
    BY <2>1, <2>3, <2>4, Zenon DEF Good
<1>6. CASE rs[t].retry = "acked"
  <2>1. /\ UNCHANGED thread
        /\ \E r \in {rs[t], RetryRetired(rs[t])} : row' = [rs EXCEPT ![t] = r]
    BY <1>6 DEF DeliverRetry
  <2> QED
    BY <1>1, <1>2, <2>1, Zenon DEF Good
<1>7. CASE rs[t].retry \notin {"ready", "acked"}
  <2>1. row' = rs /\ UNCHANGED thread
    BY <1>7 DEF DeliverRetry
  <2> QED
    BY <1>1, <1>4, <2>1 DEF Good
<1> QED
  BY <1>5, <1>6, <1>7

(* The rows of a settled wake: all keep what they own, but for one waiter  *)
(* that is promoted with the grant.                                        *)
Promotes(t) ==
    /\ t \in Waiting /\ CanPromoteWaiter(ser) /\ ser' = PromoteWaiter(ser, t)
    /\ row'[t] \in Row /\ RowOK(row'[t])
    /\ row'[t].state = "promoted" /\ row'[t].phase = "none"
    /\ \A u \in Thread \ {t} : Keeps(row[u], row'[u])
    /\ UNCHANGED <<file, manager>>

Passes ==
    /\ \A u \in Thread : Keeps(row[u], row'[u])
    /\ UNCHANGED <<ser, file, manager>>
    /\ \/ ser.owner # NoThread
       \/ ser.waiters = 0 /\ ~ser.cleanupWaiting
       \/ \E u \in Thread : Phase(u)' = "Policy"

StartsCleanup ==
    /\ \A u \in Thread : Keeps(row[u], row'[u])
    /\ ser.waiters = 0 /\ CleanupReady(ser) /\ ser' = PromoteCleanup(ser)
    /\ StartFileCleanup(file)

(* settle_synchronous_file_wake either leaves the lock with an owner, a    *)
(* cancellation or nobody to wake, or promotes the oldest waiter, or hands *)
(* Busy to CLEANUP.                                                        *)
LEMMA WakeSettles ==
    ASSUME IInv, NEW rs \in [Thread -> Row \cup {NoRow}],
           \A u \in Thread : /\ Keeps(row[u], rs[u])
                             /\ row[u] # NoRow /\ row[u].phase \in {"none", "Policy"}
                                  => rs[u] = row[u],
           SettleWake(rs)
    PROVE  /\ row' \in [Thread -> Row \cup {NoRow}]
           /\ thread' \in [Thread -> {"user", "insys", "parked", "resumed", "blocked", "dead"}]
           /\ Passes \/ StartsCleanup \/ (Waiting # {} /\ Promotes(OldestWaiting))
<1> USE NoRowAssumption
<1>1. TypeOK /\ RowInv /\ BusyInv /\ FifoInv
  BY DEF IInv
<1>2. /\ thread \in [Thread -> {"user", "insys", "parked", "resumed", "blocked", "dead"}]
      /\ \A u \in Thread : row[u] # NoRow => row[u] \in Row /\ RowOK(row[u])
  BY <1>1 DEF TypeOK, RowInv
<1>3. ser.owner \in Thread \cup {NoThread, Cleanup} /\ ser.grant \in Thread \cup {NoThread}
      /\ ser.waiters \in Nat
  BY <1>1 DEF TypeOK, Serialization
<1>4. \A u \in Promoted \cup Cancelling("promoted") : u \in Granted
  BY <1>2, Zenon DEF Promoted, Cancelling, Granted, Rows, RowOK
<1>5. Granted # {} => ser.owner # NoThread
  BY <1>1, SentinelAssumption DEF BusyInv, Granted
<1>6. CASE ser.owner # NoThread /\ ser.grant = NoThread
  <2>1. row' = rs /\ UNCHANGED <<ser, file, manager, thread>>
    BY <1>6 DEF SettleWake
  <2> QED
    BY <1>2, <1>6, <2>1 DEF Passes
<1>7. CASE ~(ser.owner # NoThread /\ ser.grant = NoThread)
  <2>1. WakeNext(rs)
    BY <1>7 DEF SettleWake
  <2>2. CASE Cancelling("promoted") # {}
    <3>1. row' = rs /\ UNCHANGED <<ser, file, manager, thread>>
      BY <2>1, <2>2 DEF WakeNext
    <3>2. ser.owner # NoThread
      BY <2>2, <1>4, <1>5
    <3> QED
      BY <1>2, <3>1, <3>2 DEF Passes
  <2>3. CASE Cancelling("promoted") = {} /\ Promoted # {}
    <3>1. PICK t \in Promoted : DeliverRetry(rs, t) /\ UNCHANGED <<ser, file, manager>>
      BY <2>1, <2>3 DEF WakeNext
    <3>2. /\ t \in Thread /\ row[t] # NoRow /\ row[t].state = "promoted"
          /\ row[t].phase = "none"
      BY <3>1 DEF Promoted, Rows
    <3>3. rs[t] = row[t] /\ rs[t] \in Row /\ RowOK(rs[t])
      BY <1>2, <3>2
    <3>4. /\ thread' \in [Thread -> {"user", "insys", "parked", "resumed", "blocked", "dead"}]
          /\ \E r : /\ Keeps(rs[t], r) /\ r.phase = "none" /\ r.state = "promoted"
                    /\ row' = [rs EXCEPT ![t] = r]
      BY <1>2, <3>1, <3>2, <3>3, Delivered
    <3>5. PICK r : Keeps(rs[t], r) /\ row' = [rs EXCEPT ![t] = r]
      BY <3>4, Zenon
    <3>6. r \in Row
      BY <3>2, <3>3, <3>5 DEF Keeps
    <3>7. row' \in [Thread -> Row \cup {NoRow}]
          /\ row'[t] = r /\ \A u \in Thread \ {t} : row'[u] = rs[u]
      BY <3>2, <3>5, <3>6
    <3>8. \A u \in Thread : Keeps(row[u], row'[u])
      BY <3>3, <3>5, <3>7
    <3>9. ser.owner # NoThread
      BY <2>3, <1>4, <1>5
    <3> QED
      BY <3>1, <3>4, <3>7, <3>8, <3>9 DEF Passes
  <2>4. CASE Cancelling("promoted") = {} /\ Promoted = {} /\ Waiting # {}
    <3> DEFINE t == OldestWaiting
               ps == [rs EXCEPT ![t].state = "promoted", ![t].retry = "ready"]
    <3>1. /\ CanPromoteWaiter(ser) /\ ser' = PromoteWaiter(ser, t)
          /\ DeliverRetry(ps, t)
          /\ UNCHANGED <<file, manager>>
      BY <2>1, <2>4 DEF WakeNext
    <3>2. t \in Waiting
      BY <1>1, <2>4, OldestIsFirst DEF TypeOK
    <3> HIDE DEF t
    <3>3. /\ t \in Thread /\ row[t] # NoRow /\ row[t].state = "waiting"
          /\ row[t].phase = "none"
      BY <3>2 DEF Waiting, Rows
    <3>4. rs[t] = row[t] /\ rs[t] \in Row /\ RowOK(rs[t])
      BY <1>2, <3>3
    <3> DEFINE p == [rs[t] EXCEPT !.state = "promoted", !.retry = "ready"]
    <3>5. ps = [rs EXCEPT ![t] = p]
      BY <3>3, Zenon
    <3>6. p \in Row /\ p.state = "promoted" /\ p.phase = "none" /\ p.owned = rs[t].owned
      BY <3>3, <3>4, Zenon DEF Row
    <3> HIDE DEF p
    <3>7. RowOK(p)
      BY <3>3, <3>4, <3>6 DEF RowOK, Row
    <3>8. ps \in [Thread -> Row \cup {NoRow}] /\ ps[t] = p
          /\ \A u \in Thread \ {t} : ps[u] = rs[u]
      BY <3>3, <3>5, <3>6
    <3> HIDE DEF ps
    <3>9. /\ thread' \in [Thread -> {"user", "insys", "parked", "resumed", "blocked", "dead"}]
          /\ \E r : /\ Keeps(ps[t], r) /\ r.phase = "none" /\ r.state = "promoted"
                    /\ row' = [ps EXCEPT ![t] = r]
      BY <1>2, <3>1, <3>3, <3>6, <3>7, <3>8, Delivered
    <3>10. PICK r : /\ Keeps(ps[t], r) /\ r.phase = "none" /\ r.state = "promoted"
                    /\ row' = [ps EXCEPT ![t] = r]
      BY <3>9, Zenon
    <3>11. r \in Row /\ RowOK(r)
      BY <3>6, <3>8, <3>10 DEF Keeps
    <3>12. row' \in [Thread -> Row \cup {NoRow}]
           /\ row'[t] = r /\ \A u \in Thread \ {t} : row'[u] = rs[u]
      BY <3>3, <3>8, <3>10, <3>11, Zenon
    <3>13. Promotes(t)
      BY <3>1, <3>2, <3>10, <3>11, <3>12 DEF Promotes
    <3> QED
      BY <2>4, <3>9, <3>12, <3>13 DEF t
  <2>5. CASE Cancelling("promoted") = {} /\ Promoted = {} /\ Waiting = {}
    <3>1. /\ ser.waiters = Cardinality(Cancelling("waiting"))
          /\ row' = rs /\ UNCHANGED thread
          /\ IF ser.waiters = 0 /\ CleanupReady(ser)
               THEN ser' = PromoteCleanup(ser) /\ StartFileCleanup(file)
               ELSE UNCHANGED <<ser, file, manager>>
      BY <2>1, <2>5 DEF WakeNext
    <3>2. CASE ser.waiters = 0 /\ CleanupReady(ser)
      BY <1>2, <3>1, <3>2 DEF StartsCleanup
    <3>3. CASE ~(ser.waiters = 0 /\ CleanupReady(ser)) /\ ser.waiters = 0
      <4>1. ser.grant # NoThread => ser.owner # NoThread
        BY <1>1 DEF BusyInv
      <4>2. ser.owner # NoThread \/ ~ser.cleanupWaiting
        BY <3>3, <4>1, Zenon DEF CleanupReady, HasLiveIo
      <4> QED
        BY <1>2, <3>1, <3>3, <4>2 DEF Passes
    <3>4. CASE ser.waiters # 0
      <4>1. Cancelling("waiting") # {}
        BY <3>1, <3>4, CountZero DEF Cancelling, Rows
      <4>2. PICK u \in Cancelling("waiting") : TRUE
        BY <4>1
      <4>3. u \in Thread /\ row[u] # NoRow /\ row[u].phase = "Policy"
        BY <1>2, <4>2 DEF Cancelling, Rows, RowOK
      <4>4. Phase(u)' = "Policy"
        BY <3>1, <4>3 DEF Phase
      <4> QED
        BY <1>2, <3>1, <3>4, <4>3, <4>4, Zenon DEF Passes
    <3> QED
      BY <3>2, <3>3, <3>4
  <2> QED
    BY <2>2, <2>3, <2>4, <2>5
<1> QED
  BY <1>6, <1>7

(* A settled wake preserves the invariant, for every step that takes one:  *)
(* the obligation it discharges keeps its reference.                       *)
LEMMA WakeKeeps ==
    ASSUME IInv, row' \in [Thread -> Row \cup {NoRow}],
           thread' \in [Thread -> {"user", "insys", "parked", "resumed", "blocked", "dead"}],
           Passes \/ StartsCleanup \/ (Waiting # {} /\ Promotes(OldestWaiting)),
           UNCHANGED <<fifo, hold, async>>,
           wakeDue' \in Nat, refDue' \in Nat, wakeDue' + refDue' = wakeDue + refDue,
           pend' \in [Thread -> {"none", "wake", "settled"}],
           \A u \in Thread : pend'[u] = "none" <=> pend[u] = "none"
    PROVE  IInv'
<1> USE NoRowAssumption, SentinelAssumption
<1>1. TypeOK /\ RowInv /\ ReferenceInv /\ FileInv /\ BusyInv /\ CleanupInv /\ FifoInv
  BY DEF IInv
<1>2. Pending' = Pending
  BY DEF Pending
<1>3. /\ Cardinality(Counted) \in Nat /\ Cardinality(Referring) \in Nat
      /\ Cardinality(Pending) \in Nat
  BY ThreadSets DEF Counted, Referring, Pending
<1>4. /\ ser \in Serialization
      /\ file \in [state : {"absent", "reserved", "open", "closed"}, sync : BOOLEAN,
                   references : Nat, handles : 0..MaxHandles, cleanupSent : BOOLEAN,
                   cleanupRef : BOOLEAN, started : BOOLEAN]
      /\ wakeDue \in Nat /\ refDue \in Nat /\ async \in Nat /\ fifo \in Seq(Thread)
      /\ hold \in {"none", "active", "irp", "done"}
      /\ manager \in {"none", "cleaning", "complete"}
  BY <1>1, BoundsAssumption DEF TypeOK
<1>5. CASE Passes
  <2>1. /\ RowInv'
        /\ Counted' = Counted /\ Granted' = Granted /\ Referring' = Referring
        /\ Waiting' \subseteq Waiting
    BY <1>1, <1>5, KeptSets DEF Passes
  <2>2. UNCHANGED <<ser, file, manager>>
    BY <1>5 DEF Passes
  <2>3. TypeOK'
    BY <1>1, <2>2 DEF TypeOK
  <2>4. ReferenceInv'
    <3>1. Own(file') = Own(file) /\ file'.references = file.references
      BY <2>2 DEF Own
    <3>2. Owed' = Owed
      BY DEF Owed
    <3>3. Users' = Users
      BY <1>2, <2>1, <2>2, <3>2, Zenon DEF Users
    <3> QED
      BY <1>1, <3>1, <3>3 DEF ReferenceInv
  <2>5. FileInv' /\ CleanupInv'
    BY <1>1, <2>2 DEF FileInv, CleanupInv
  <2>6. BusyInv'
    <3>1. hold \in {"irp", "done"} => ser.owner \in Thread
      BY <1>1 DEF BusyInv
    <3> QED
      BY <1>1, <2>1, <2>2, <3>1 DEF BusyInv
  <2>7. FifoInv'
    <3>1. \A i \in DOMAIN fifo : row'[fifo[i]] # NoRow
      BY <1>1, <1>4, <1>5, SMTT(30) DEF FifoInv, Passes, Keeps
    <3> QED
      BY <1>1, <2>1, <3>1, ZenonT(30) DEF FifoInv
  <2>8. WakeOutstanding'
    <3>1. \/ ser.owner # NoThread
          \/ ser.waiters = 0 /\ ~ser.cleanupWaiting
          \/ \E u \in Thread : Phase(u)' = "Policy"
      BY <1>5, Zenon DEF Passes
    <3>2. ser.waiters = 0 => ~(ser.waiters > 0)
      BY SMTT(30)
    <3> QED
      BY <2>2, <3>1, <3>2, Zenon DEF WakeOutstanding
  <2> QED
    BY <2>1, <2>3, <2>4, <2>5, <2>6, <2>7, <2>8, Zenon DEF IInv
<1>6. CASE StartsCleanup
  <2>1. /\ RowInv'
        /\ Counted' = Counted /\ Granted' = Granted /\ Referring' = Referring
        /\ Waiting' \subseteq Waiting
    BY <1>1, <1>6, KeptSets DEF StartsCleanup
  <2>2. /\ ser.owner = NoThread /\ ser.grant = NoThread /\ ser.waiters = 0
        /\ ser.cleanupWaiting
    BY <1>6 DEF StartsCleanup, CleanupReady, HasLiveIo
  <2>3. /\ ser' \in Serialization
        /\ ser'.owner = Cleanup /\ ser'.grant = NoThread /\ ser'.waiters = 0
        /\ ser'.cleanupWaiting = FALSE
    BY <1>4, <1>6, <2>2, Zenon DEF StartsCleanup, PromoteCleanup, Serialization
  <2>4. /\ file' \in [state : {"absent", "reserved", "open", "closed"}, sync : BOOLEAN,
                      references : Nat, handles : 0..MaxHandles, cleanupSent : BOOLEAN,
                      cleanupRef : BOOLEAN, started : BOOLEAN]
        /\ file'.state = file.state /\ file'.sync = file.sync
        /\ file'.references = file.references /\ file'.handles = file.handles
        /\ file'.cleanupSent = file.cleanupSent /\ file'.cleanupRef = file.cleanupRef
        /\ file'.started = TRUE /\ manager' = "cleaning"
    BY <1>4, <1>6, Zenon DEF StartsCleanup, StartFileCleanup
  <2>5. TypeOK'
    BY <1>1, <2>3, <2>4, Zenon DEF TypeOK
  <2>6. ReferenceInv'
    <3>1. Own(file') = Own(file) /\ file'.references = file.references
      BY <2>4 DEF Own
    <3>2. Owed' = Owed
      BY DEF Owed
    <3>3. Users' = Users
      BY <1>2, <2>1, <2>4, <3>2, Zenon DEF Users
    <3> QED
      BY <1>1, <3>1, <3>3 DEF ReferenceInv
  <2>7. file.cleanupRef /\ file.sync
    BY <1>1, <2>2, Zenon DEF CleanupInv
  <2>8. FileInv' /\ CleanupInv'
    BY <1>1, <2>3, <2>4, <2>7, Zenon DEF FileInv, CleanupInv
  <2>9. BusyInv'
    <3>1. hold = "none"
      BY <1>1, <2>2, Zenon DEF BusyInv
    <3>2. {t \in Thread : ser'.grant = t} = Granted'
      BY <1>1, <2>1, <2>2, <2>3, SMTT(30) DEF BusyInv
    <3> QED
      BY <1>1, <2>1, <2>2, <2>3, <3>1, <3>2, Zenon DEF BusyInv
  <2>10. FifoInv'
    <3>1. \A i \in DOMAIN fifo : row'[fifo[i]] # NoRow
      BY <1>1, <1>4, <1>6 DEF FifoInv, StartsCleanup, Keeps
    <3> QED
      BY <1>1, <2>1, <3>1, Zenon DEF FifoInv
  <2>11. WakeOutstanding'
    BY <2>3 DEF WakeOutstanding
  <2> QED
    BY <2>1, <2>5, <2>6, <2>8, <2>9, <2>10, <2>11 DEF IInv
<1>7. CASE Waiting # {} /\ Promotes(OldestWaiting)
  <2> DEFINE t == OldestWaiting
  <2>1. Promotes(t)
    BY <1>7, Zenon
  <2> HIDE DEF t
  <2>2. /\ t \in Thread /\ row[t] # NoRow /\ row[t].state = "waiting"
        /\ row[t].phase = "none" /\ row[t] \in Row /\ RowOK(row[t])
    BY <1>1, <2>1 DEF Promotes, Waiting, Rows, TypeOK, RowInv
  <2>3. /\ row'[t] \in Row /\ RowOK(row'[t]) /\ row'[t] # NoRow
        /\ row'[t].state = "promoted" /\ row'[t].phase = "none"
        /\ \A u \in Thread \ {t} : Keeps(row[u], row'[u])
        /\ UNCHANGED <<file, manager>>
    BY <2>1, Zenon DEF Promotes
  <2>4. ser.owner = NoThread /\ ser.grant = NoThread /\ ser.waiters > 0
    BY <2>1, Zenon DEF Promotes, CanPromoteWaiter
  <2>5. /\ ser' \in Serialization
        /\ ser'.owner = t /\ ser'.grant = t /\ ser'.waiters = ser.waiters - 1
        /\ ser'.cleanupWaiting = ser.cleanupWaiting
    <3>1. ser.waiters - 1 \in Nat
      BY <1>4, <2>4 DEF Serialization
    <3>2. ser' = [ser EXCEPT !.waiters = ser.waiters - 1, !.owner = t, !.grant = t]
      BY <2>1 DEF Promotes, PromoteWaiter
    <3> QED
      BY <1>4, <2>2, <3>1, <3>2, Zenon DEF Serialization
  <2>6. TypeOK'
    BY <1>1, <2>3, <2>5, Zenon DEF TypeOK
  <2>7. RowInv'
    BY <2>3 DEF RowInv, Keeps
  <2>8. row[t].owned /\ row'[t].owned
    BY <2>2, <2>3, Zenon DEF RowOK
  <2>9. t \in Counted /\ Counted' = Counted \ {t}
    BY <2>2, <2>3, <2>8 DEF Counted, Keeps
  <2>10. Granted = {}
    BY <1>1, <2>4 DEF BusyInv
  <2>11. Granted' = {t}
    BY <2>2, <2>3, <2>8, <2>10, SMTT(30) DEF Granted, Keeps
  <2>12. Referring' = Referring
    BY <2>2, <2>3, Zenon DEF Referring, HoldsReference, Keeps, ReferencePhases
  <2>13. ReferenceInv'
    <3>1. Own(file') = Own(file) /\ file'.references = file.references
      BY <2>3, Zenon DEF Own
    <3>2. Owed' = Owed
      BY DEF Owed
    <3>3. Users' = Users
      BY <1>2, <2>3, <2>12, <3>2, Zenon DEF Users
    <3> QED
      BY <1>1, <3>1, <3>3 DEF ReferenceInv
  <2>14. FileInv' /\ CleanupInv'
    BY <1>1, <2>2, <2>3, <2>5, Zenon DEF FileInv, CleanupInv
  <2>15. BusyInv'
    <3>1. hold = "none"
      BY <1>1, <2>4 DEF BusyInv
    <3>2. Cardinality(Counted') = Cardinality(Counted) - 1
      BY <2>9, CountRemoved, ZenonT(30) DEF Counted
    <3>3. {u \in Thread : ser'.grant = u} = Granted'
      BY <2>2, <2>5, <2>11
    <3> QED
      BY <1>1, <2>2, <2>5, <3>1, <3>2, <3>3 DEF BusyInv
  <2>16. FifoInv'
    <3>1. \A i \in DOMAIN fifo : row'[fifo[i]] # NoRow
      BY <1>1, <1>4, <2>3, SMTT(30) DEF FifoInv, Keeps
    <3>2. Waiting' \subseteq Waiting
      BY <2>3, Zenon DEF Waiting, Rows, Keeps
    <3> QED
      BY <1>1, <3>1, <3>2, Zenon DEF FifoInv
  <2>17. WakeOutstanding'
    BY <2>2, <2>5 DEF WakeOutstanding
  <2> QED
    BY <2>6, <2>7, <2>13, <2>14, <2>15, <2>16, <2>17, Zenon DEF IInv
<1> QED
  BY <1>5, <1>6, <1>7

(* The three steps that settle a wake: of an inline retirement, of a       *)
(* pending IRP and of a cancellation.                                      *)
SettlesWake == WakeInline \/ \E t \in Thread : WakePending(t) \/ CancelWake(t)

(* Whichever of the three steps it is, the wake ends in one of the three   *)
(* ways.                                                                   *)
LEMMA WakeOutcome ==
    ASSUME IInv, SettlesWake
    PROVE  /\ row' \in [Thread -> Row \cup {NoRow}]
           /\ thread' \in [Thread -> {"user", "insys", "parked", "resumed", "blocked", "dead"}]
           /\ Passes \/ StartsCleanup \/ (Waiting # {} /\ Promotes(OldestWaiting))
<1>1. TypeOK /\ RowInv
  BY Zenon DEF IInv
<1>2. \A u \in Thread : Keeps(row[u], row[u])
  BY <1>1 DEF TypeOK, RowInv, Keeps
<1>3. CASE SettleWake(row)
  <2>1. row \in [Thread -> Row \cup {NoRow}]
    BY <1>1, Zenon DEF TypeOK
  <2> QED
    BY <1>2, <1>3, <2>1, WakeSettles
<1>4. ASSUME NEW t \in Thread, CancelWake(t)
      PROVE  /\ row' \in [Thread -> Row \cup {NoRow}]
             /\ thread' \in [Thread -> {"user", "insys", "parked", "resumed", "blocked",
                                        "dead"}]
             /\ Passes \/ StartsCleanup \/ (Waiting # {} /\ Promotes(OldestWaiting))
  <2> DEFINE r == [row[t] EXCEPT !.phase = "Reference"]
             rs == [row EXCEPT ![t].phase = "Reference"]
  <2>1. row[t] # NoRow /\ row[t] \in Row /\ RowOK(row[t]) /\ row[t].phase = "Wake"
    BY <1>1, <1>4 DEF TypeOK, RowInv, CancelWake, Phase
  <2>2. SettleWake(rs)
    BY <1>4 DEF CancelWake
  <2>3. rs = [row EXCEPT ![t] = r]
    BY <1>1 DEF TypeOK
  <2>4. r \in Row /\ r.phase = "Reference" /\ r.state = row[t].state
        /\ r.owned = row[t].owned /\ r.retry = row[t].retry
    BY <2>1 DEF Row, CancelPhase
  <2> HIDE DEF r
  <2>5. Keeps(row[t], r)
    BY <2>1, <2>4, NoRowAssumption DEF Keeps, RowOK, ReferencePhases, Row
  <2>6. rs \in [Thread -> Row \cup {NoRow}] /\ rs[t] = r
        /\ \A u \in Thread \ {t} : rs[u] = row[u]
    BY <1>1, <2>3, <2>4, ZenonT(30) DEF TypeOK
  <2> HIDE DEF rs
  <2>7. \A u \in Thread : /\ Keeps(row[u], rs[u])
                          /\ row[u] # NoRow /\ row[u].phase \in {"none", "Policy"}
                               => rs[u] = row[u]
    BY <1>2, <2>1, <2>5, <2>6, Zenon
  <2> QED
    BY <2>2, <2>6, <2>7, WakeSettles
<1> QED
  BY <1>3, <1>4 DEF SettlesWake, WakeInline, WakePending

(* The wake moves its obligation on to the reference and keeps the count.  *)
LEMMA WakeSteps ==
    ASSUME IInv, SettlesWake
    PROVE  IInv'
<1>1. TypeOK
  BY DEF IInv
<1>2. /\ row' \in [Thread -> Row \cup {NoRow}]
      /\ thread' \in [Thread -> {"user", "insys", "parked", "resumed", "blocked", "dead"}]
      /\ Passes \/ StartsCleanup \/ (Waiting # {} /\ Promotes(OldestWaiting))
  BY WakeOutcome
<1>3. UNCHANGED <<fifo, hold, async>>
  BY Zenon DEF SettlesWake, WakeInline, WakePending, CancelWake
<1>4. wakeDue' \in Nat /\ refDue' \in Nat /\ wakeDue' + refDue' = wakeDue + refDue
  <2>1. \/ wakeDue > 0 /\ wakeDue' = wakeDue - 1 /\ refDue' = refDue + 1
        \/ UNCHANGED <<wakeDue, refDue>>
    BY Zenon DEF SettlesWake, WakeInline, WakePending, CancelWake
  <2>2. wakeDue \in Nat /\ refDue \in Nat
    BY <1>1 DEF TypeOK
  <2> QED
    BY <2>1, <2>2
<1>5. pend' \in [Thread -> {"none", "wake", "settled"}]
      /\ \A u \in Thread : pend'[u] = "none" <=> pend[u] = "none"
  BY <1>1, ZenonT(30) DEF TypeOK, SettlesWake, WakeInline, WakePending, CancelWake
<1> QED
  BY <1>2, <1>3, <1>4, <1>5, WakeKeeps

-----------------------------------------------------------------------------
(***************************************************************************)
(* Steps on the File, the lock and the obligations.                        *)
(***************************************************************************)

(* The counts of the invariant are numbers.                                *)
LEMMA Numbers ==
    ASSUME IInv
    PROVE  /\ file \in FileType /\ ser \in Serialization
           /\ Own(file) \in Nat /\ Users \in Nat /\ Owed \in Nat /\ async \in Nat
           /\ wakeDue \in Nat /\ refDue \in Nat /\ Count(hold # "none") \in {0, 1}
           /\ Cardinality(Counted) \in Nat /\ Cardinality(Referring) \in Nat
           /\ Cardinality(Pending) \in Nat
<1>1. TypeOK
  BY DEF IInv
<1>2. /\ Cardinality(Counted) \in Nat /\ Cardinality(Referring) \in Nat
      /\ Cardinality(Pending) \in Nat
  BY ThreadSets DEF Counted, Referring, Pending
<1>3. file \in FileType /\ ser \in Serialization /\ async \in Nat
      /\ wakeDue \in Nat /\ refDue \in Nat
  BY <1>1, BoundsAssumption DEF TypeOK, FileType
<1> QED
  BY <1>1, <1>2, <1>3, OwnType, UsersType, CountType

(* Steps that leave the rows alone.                                        *)
LEMMA RowsSame ==
    ASSUME IInv, UNCHANGED <<row, fifo>>
    PROVE  /\ RowInv' /\ FifoInv'
           /\ Counted' = Counted /\ Granted' = Granted /\ Referring' = Referring
           /\ \A u \in Thread : Phase(u)' = Phase(u)
<1>1. RowInv /\ FifoInv
  BY DEF IInv
<1>2. /\ Counted' = Counted /\ Granted' = Granted /\ Referring' = Referring
      /\ Waiting' = Waiting
  BY DEF Counted, Granted, Referring, HoldsReference, Waiting, Rows
<1>3. RowInv' /\ FifoInv'
  BY <1>1, <1>2 DEF RowInv, FifoInv
<1>4. \A u \in Thread : Phase(u)' = Phase(u)
  BY DEF Phase
<1> QED
  BY <1>2, <1>3, <1>4

(* Whoever uses the entry is counted.                                      *)
LEMMA UsersCounted ==
    ASSUME IInv,
           \/ Owed > 0 \/ async > 0 \/ Referring # {} \/ Pending # {} \/ hold # "none"
    PROVE  Users > 0
<1> DEFINE a == Cardinality(Referring)
           b == Cardinality(Pending)
           h == Count(hold # "none")
<1>1. a \in Nat /\ b \in Nat /\ Owed \in Nat /\ async \in Nat /\ h \in Nat
  BY Numbers
<1>2. (Referring # {} => a > 0) /\ (Pending # {} => b > 0)
  BY Numbers, CountZero DEF Referring, Pending
<1>3. hold # "none" => h > 0
  BY DEF Count
<1>4. Users = h + a + b + Owed + async
  BY DEF Users
<1> HIDE DEF a, b, h
<1>5. Owed > 0 \/ async > 0 \/ a > 0 \/ b > 0 \/ h > 0
  BY <1>2, <1>3, Zenon
<1> QED
  BY <1>1, <1>4, <1>5

(* An entry somebody still refers to is open.                              *)
LEMMA HeldIsOpen ==
    ASSUME IInv, Users > 0 \/ file.handles > 0 \/ file.cleanupRef
    PROVE  file.state = "open" /\ file.references > 0
<1> DEFINE c == Count(file.cleanupRef)
           v == Count(file.state = "reserved")
<1>1. ReferenceInv /\ FileInv
  BY DEF IInv
<1>2. file.handles \in Nat /\ file.references \in Nat
      /\ file.state \in {"absent", "reserved", "open", "closed"}
  BY Numbers, BoundsAssumption DEF FileType
<1>3. c \in Nat /\ v \in Nat
  BY CountType
<1>4. (file.cleanupRef => c = 1) /\ (file.state = "reserved" => v = 1)
  BY DEF Count
<1>5. file.references = file.handles + v + c + Users
  BY <1>1 DEF ReferenceInv, Own
<1> HIDE DEF c, v
<1>6. Users > 0 \/ file.handles > 0 \/ c = 1
  BY <1>4, Zenon
<1>7. file.references > 0 /\ (v = 1 => file.references > 1)
  BY <1>2, <1>3, <1>5, <1>6, Numbers
<1> QED
  BY <1>1, <1>2, <1>4, <1>7 DEF FileInv

(* finish_release: the entry that loses its last reference had no user and *)
(* no CLEANUP left, so clearing it forgets nothing.                        *)
LEMMA FinishKeeps ==
    ASSUME NEW f \in FileType, f.state = "open", NEW n \in Nat,
           f.references = Own(f) + n
    PROVE  /\ FinishRelease(f) \in FileType /\ FinishRelease(f).sync = f.sync
           /\ FinishRelease(f).references = Own(FinishRelease(f)) + n
           /\ f.references # 0 => FinishRelease(f) = f
           /\ f.references = 0 =>
                /\ ~f.cleanupRef
                /\ FinishRelease(f) =
                     [AbsentFile EXCEPT !.state = "closed", !.sync = f.sync]
<1>1. CASE f.references # 0
  BY <1>1 DEF FinishRelease
<1>2. CASE f.references = 0
  <2> DEFINE g == [state |-> "closed", sync |-> f.sync, references |-> 0, handles |-> 0,
                   cleanupSent |-> FALSE, cleanupRef |-> FALSE, started |-> FALSE]
             c == Count(f.cleanupRef)
             v == Count(f.state = "reserved")
  <2>1. FinishRelease(f) = [AbsentFile EXCEPT !.state = "closed", !.sync = f.sync]
    BY <1>2 DEF FinishRelease
  <2>2. FinishRelease(f) = g
    BY <2>1, Zenon DEF AbsentFile
  <2>3. g \in FileType
    BY BoundsAssumption DEF FileType
  <2>4. c \in Nat /\ v \in Nat /\ f.handles \in Nat
    BY CountType, BoundsAssumption DEF FileType
  <2>5. 0 = f.handles + v + c + n
    BY <1>2 DEF Own
  <2>6. c = 0 /\ n = 0
    <3> HIDE DEF c, v
    <3> QED
      BY <2>4, <2>5
  <2>7. ~f.cleanupRef
    BY <2>6 DEF Count
  <2>8. Own(g) = 0
    BY DEF Own, Count
  <2>9. g.references = Own(g) + n /\ g.sync = f.sync
    BY <2>6, <2>8
  <2> HIDE DEF c, v, g
  <2> QED
    BY <1>2, <2>1, <2>2, <2>3, <2>7, <2>9, Zenon
<1> QED
  BY <1>1, <1>2

(* A step that ends in finish_release.                                     *)
LEMMA ReleaseKeeps ==
    ASSUME NEW f \in FileType, f.state = "open", Users' \in Nat,
           f.references = Own(f) + Users', file' = FinishRelease(f),
           f.handles > 0 => ~f.cleanupSent,
           f.cleanupRef => f.cleanupSent,
           f.started => f.cleanupRef,
           ser'.cleanupWaiting => f.cleanupRef /\ ~f.started /\ f.sync,
           ser'.owner = Cleanup => f.started /\ f.sync /\ ser'.waiters = 0
    PROVE  file' \in FileType /\ ReferenceInv' /\ FileInv' /\ CleanupInv'
<1>1. /\ file' \in FileType /\ file'.references = Own(file') + Users'
      /\ f.references # 0 => file' = f
      /\ f.references = 0 =>
           /\ ~f.cleanupRef
           /\ file' = [AbsentFile EXCEPT !.state = "closed", !.sync = f.sync]
  BY FinishKeeps, Zenon
<1>2. ReferenceInv'
  BY <1>1 DEF ReferenceInv
<1>3. CASE f.references # 0
  <2>1. file' = f
    BY <1>1, <1>3
  <2> QED
    BY <1>1, <1>2, <2>1 DEF FileInv, CleanupInv
<1>4. CASE f.references = 0
  <2>1. /\ ~f.cleanupRef /\ file'.state = "closed" /\ file'.references = 0
        /\ file'.handles = 0 /\ ~file'.cleanupRef /\ ~file'.started
    BY <1>1, <1>4, Zenon DEF AbsentFile
  <2>2. FileInv'
    BY <2>1 DEF FileInv
  <2>3. CleanupInv'
    BY <2>1 DEF CleanupInv
  <2> QED
    BY <1>1, <1>2, <2>2, <2>3
<1> QED
  BY <1>3, <1>4

(* release_file of a retired operation.                                    *)
LEMMA ReleaseReferenceStep ==
    ASSUME IInv, ReleaseReference
    PROVE  IInv'
<1> DEFINE f == [file EXCEPT !.references = file.references - 1]
<1>1. /\ TypeOK /\ ReferenceInv /\ FileInv /\ BusyInv /\ CleanupInv /\ WakeOutstanding
  BY DEF IInv
<1>2. /\ UNCHANGED <<row, fifo>> /\ refDue > 0 /\ refDue' = refDue - 1
      /\ UNCHANGED <<ser, thread, hold, wakeDue, pend, manager, async>>
      /\ file' = FinishRelease(f)
  BY DEF ReleaseReference
<1>3. /\ RowInv' /\ FifoInv'
      /\ Counted' = Counted /\ Granted' = Granted /\ Referring' = Referring
      /\ \A u \in Thread : Phase(u)' = Phase(u)
  BY <1>2, RowsSame
<1>4. Owed > 0 /\ Owed' = Owed - 1
  BY <1>2, Numbers DEF Owed
<1>5. file.state = "open" /\ file.references > 0
  BY <1>4, UsersCounted, HeldIsOpen
<1>6. Users' = Users - 1 /\ Users > 0
  <2>1. Pending' = Pending
    BY <1>2 DEF Pending
  <2>2. Users' = Users - 1
    BY <1>2, <1>3, <1>4, <2>1, Numbers DEF Users
  <2> QED
    BY <1>4, <2>2, UsersCounted
<1>7. /\ f \in FileType /\ f.references = file.references - 1 /\ f.state = file.state
      /\ f.sync = file.sync /\ f.handles = file.handles /\ f.started = file.started
      /\ f.cleanupSent = file.cleanupSent /\ f.cleanupRef = file.cleanupRef
  BY <1>5, Numbers DEF FileType
<1> HIDE DEF f
<1>8. Own(f) = Own(file)
  BY <1>7 DEF Own
<1>9. Users' \in Nat /\ f.references = Own(f) + Users'
  BY <1>1, <1>6, <1>7, <1>8, Numbers DEF ReferenceInv
<1>10. file' \in FileType /\ ReferenceInv' /\ FileInv' /\ CleanupInv'
  BY <1>1, <1>2, <1>5, <1>7, <1>9, ReleaseKeeps, ZenonT(30) DEF FileInv, CleanupInv
<1>11. TypeOK'
  BY <1>1, <1>2, <1>10, Numbers, SMTT(30) DEF TypeOK, FileType
<1>12. BusyInv' /\ WakeOutstanding'
  BY <1>1, <1>2, <1>3 DEF BusyInv, WakeOutstanding
<1> QED
  BY <1>3, <1>10, <1>11, <1>12 DEF IInv

(* file_cleanup_redrive_all: CLEANUP gives Busy back and then its          *)
(* reference. Nobody was counted while it had Busy, so no wake is due.     *)
LEMMA RetireCleanupStep ==
    ASSUME IInv, RetireCleanup
    PROVE  IInv'
<1> DEFINE f == [file EXCEPT !.cleanupRef = FALSE, !.started = FALSE,
                             !.references = file.references - 1]
<1>1. /\ TypeOK /\ ReferenceInv /\ FileInv /\ BusyInv /\ CleanupInv /\ WakeOutstanding
  BY DEF IInv
<1>2. /\ UNCHANGED <<row, fifo>> /\ file.started
      /\ UNCHANGED <<thread, hold, wakeDue, pend, refDue, manager, async>>
      /\ file' = FinishRelease(f)
  BY DEF RetireCleanup
<1>3. /\ RowInv' /\ FifoInv'
      /\ Counted' = Counted /\ Granted' = Granted /\ Referring' = Referring
      /\ \A u \in Thread : Phase(u)' = Phase(u)
  BY <1>2, RowsSame
<1>4. file.cleanupRef /\ file.cleanupSent /\ ~ser.cleanupWaiting
  BY <1>1, <1>2 DEF FileInv, CleanupInv
<1>5. file.state = "open" /\ file.references > 0
  BY <1>4, HeldIsOpen
<1>6. Users' = Users
  BY <1>2, <1>3 DEF Users, Owed, Pending
<1>7. /\ f \in FileType /\ f.references = file.references - 1 /\ f.state = file.state
      /\ f.sync = file.sync /\ f.handles = file.handles /\ f.started = FALSE
      /\ f.cleanupSent = file.cleanupSent /\ f.cleanupRef = FALSE
  <2>1. file \in FileType /\ file.references - 1 \in Nat
    BY <1>5, Numbers DEF FileType
  <2> QED
    BY <2>1, Zenon DEF FileType
<1> HIDE DEF f
<1>8. Own(f) = Own(file) - 1
  <2>1. Count(file.cleanupRef) = 1 /\ Count(f.cleanupRef) = 0
    BY <1>4, <1>7 DEF Count
  <2>2. file.handles \in Nat /\ Count(file.state = "reserved") \in Nat
    BY Numbers, CountType, BoundsAssumption DEF FileType
  <2> QED
    BY <1>7, <2>1, <2>2 DEF Own
<1>9. Users' \in Nat /\ f.references = Own(f) + Users'
  BY <1>1, <1>6, <1>7, <1>8, Numbers DEF ReferenceInv
<1>10. \/ file.sync /\ ser.owner = Cleanup /\ ser' = ReleaseBusy(ser)
       \/ ~file.sync /\ ser' = ser
  BY DEF RetireCleanup, CanReleaseCleanup
<1>11. /\ ser' \in Serialization /\ ser'.grant = ser.grant /\ ser'.waiters = ser.waiters
       /\ ser'.cleanupWaiting = ser.cleanupWaiting
       /\ \/ ser'.owner = NoThread /\ ser.owner = Cleanup
          \/ ser'.owner = ser.owner /\ ~file.sync
  <2>1. ser \in Serialization
    BY Numbers
  <2>2. CASE ser.owner = Cleanup /\ ser' = ReleaseBusy(ser)
    BY <2>1, <2>2 DEF ReleaseBusy, Serialization
  <2>3. CASE ~file.sync /\ ser' = ser
    BY <2>1, <2>3
  <2> QED
    BY <1>10, <2>2, <2>3
<1>12. ser'.owner # Cleanup
  BY <1>1, <1>11, SentinelAssumption, Zenon DEF CleanupInv
<1>13. file' \in FileType /\ ReferenceInv' /\ FileInv' /\ CleanupInv'
  BY <1>1, <1>2, <1>4, <1>5, <1>7, <1>9, <1>11, <1>12, ReleaseKeeps, ZenonT(30)
     DEF FileInv, CleanupInv
<1>14. TypeOK'
  BY <1>1, <1>2, <1>11, <1>13 DEF TypeOK, FileType
<1>15. BusyInv'
  <2>1. CASE ser'.owner = NoThread /\ ser.owner = Cleanup
    <3>1. hold = "none" /\ ser.grant = NoThread
      BY <1>1, <2>1, SentinelAssumption, Numbers, Zenon DEF BusyInv, Serialization
    <3> QED
      BY <1>1, <1>2, <1>3, <1>11, <2>1, <3>1, SentinelAssumption, Zenon DEF BusyInv
  <2>2. CASE ser'.owner = ser.owner
    BY <1>1, <1>2, <1>3, <1>11, <2>2, Zenon DEF BusyInv
  <2> QED
    BY <1>11, <2>1, <2>2, Zenon
<1>16. WakeOutstanding'
  <2>1. CASE ser'.owner = NoThread /\ ser.owner = Cleanup
    BY <1>1, <1>4, <1>11, <2>1 DEF WakeOutstanding, CleanupInv
  <2>2. CASE ser'.owner = ser.owner
    BY <1>1, <1>2, <1>3, <1>11, <2>2, Zenon DEF WakeOutstanding
  <2> QED
    BY <1>11, <2>1, <2>2, Zenon
<1> QED
  BY <1>3, <1>13, <1>14, <1>15, <1>16 DEF IInv

(* release_handle: the last handle leaves its reference to CLEANUP, which  *)
(* takes a free Busy or waits behind the operations that have it.          *)
LEMMA ReleaseHandleStep ==
    ASSUME IInv, ReleaseHandle
    PROVE  IInv'
<1> DEFINE f == [file EXCEPT !.handles = file.handles - 1]
           last == [f EXCEPT !.cleanupSent = TRUE, !.cleanupRef = TRUE]
           less == [f EXCEPT !.references = f.references - 1]
           s == IF file.sync THEN BeginCleanup(ser) ELSE ser
<1>1. /\ TypeOK /\ ReferenceInv /\ FileInv /\ BusyInv /\ CleanupInv /\ WakeOutstanding
  BY DEF IInv
<1>2. /\ UNCHANGED <<row, fifo>> /\ file.handles > 0
      /\ UNCHANGED <<thread, hold, wakeDue, pend, refDue, async>>
  BY DEF ReleaseHandle
<1>3. /\ RowInv' /\ FifoInv'
      /\ Counted' = Counted /\ Granted' = Granted /\ Referring' = Referring
      /\ \A u \in Thread : Phase(u)' = Phase(u)
  BY <1>2, RowsSame
<1>4. /\ ~file.cleanupSent /\ ~file.cleanupRef /\ ~file.started /\ ~ser.cleanupWaiting
      /\ ser.owner # Cleanup
  BY <1>1, <1>2 DEF FileInv, CleanupInv
<1>5. file.state = "open" /\ file.references > 0
  BY <1>2, HeldIsOpen
<1>6. Users' = Users
  BY <1>2, <1>3 DEF Users, Owed, Pending
<1>7. /\ f \in FileType /\ f.references = file.references /\ f.state = "open"
      /\ f.sync = file.sync /\ f.handles = file.handles - 1 /\ f.started = FALSE
      /\ f.cleanupSent = FALSE /\ f.cleanupRef = FALSE
  BY <1>2, <1>4, <1>5, Numbers, BoundsAssumption DEF FileType
<1>8. \/ f.handles # 0 /\ file' = FinishRelease(less) /\ UNCHANGED <<ser, manager>>
      \/ f.handles = 0 /\ ser' = s /\ s.cleanupWaiting /\ file' = last /\ UNCHANGED manager
      \/ f.handles = 0 /\ ser' = s /\ ~s.cleanupWaiting /\ StartFileCleanup(last)
  BY DEF ReleaseHandle
<1> HIDE DEF f
<1>9. Own(f) = Own(file) - 1
  <2>1. Count(f.cleanupRef) = 0 /\ Count(file.cleanupRef) = 0
    BY <1>4, <1>7, Zenon DEF Count
  <2>2. file.handles \in Nat /\ Count(file.state = "reserved") \in Nat
    BY Numbers, CountType, BoundsAssumption DEF FileType
  <2>3. Count(f.state = "reserved") = Count(file.state = "reserved")
    BY <1>5, <1>7
  <2> QED
    BY <1>7, <2>1, <2>2, <2>3, SMTT(30) DEF Own
<1>10. CASE f.handles # 0 /\ file' = FinishRelease(less) /\ UNCHANGED <<ser, manager>>
  <2>1. /\ less \in FileType /\ less.references = file.references - 1
        /\ less.state = "open" /\ less.sync = f.sync /\ less.handles = f.handles
        /\ less.started = FALSE /\ less.cleanupSent = FALSE /\ less.cleanupRef = FALSE
    BY <1>5, <1>7, Numbers DEF FileType
  <2> HIDE DEF less
  <2>2. Own(less) = Own(f)
    BY <1>7, <2>1, Zenon DEF Own
  <2>3. Users' \in Nat /\ less.references = Own(less) + Users'
    BY <1>1, <1>6, <1>9, <2>1, <2>2, Numbers, SMTT(30) DEF ReferenceInv
  <2>4. file' \in FileType /\ ReferenceInv' /\ FileInv' /\ CleanupInv'
    BY <1>4, <1>10, <2>1, <2>3, ReleaseKeeps, Zenon
  <2>5. TypeOK'
    BY <1>1, <1>2, <1>10, <2>4, Zenon DEF TypeOK, FileType
  <2>6. BusyInv' /\ WakeOutstanding'
    BY <1>1, <1>2, <1>3, <1>10, Zenon DEF BusyInv, WakeOutstanding
  <2> QED
    BY <1>3, <2>4, <2>5, <2>6 DEF IInv
<1>11. CASE f.handles = 0 /\ ser' = s
            /\ \/ s.cleanupWaiting /\ file' = last /\ UNCHANGED manager
               \/ ~s.cleanupWaiting /\ StartFileCleanup(last)
  <2>1. /\ last \in FileType /\ last.references = file.references
        /\ last.state = "open" /\ last.sync = file.sync /\ last.handles = 0
        /\ last.started = FALSE /\ last.cleanupSent = TRUE /\ last.cleanupRef = TRUE
    BY <1>7, <1>11, Zenon DEF FileType
  <2>2. /\ file' \in FileType /\ file'.references = file.references
        /\ file'.state = "open" /\ file'.sync = file.sync /\ file'.handles = 0
        /\ file'.cleanupSent = TRUE /\ file'.cleanupRef = TRUE
        /\ file'.started = ~s.cleanupWaiting
        /\ manager' \in {manager, "cleaning"}
    <3> HIDE DEF last
    <3>1. CASE s.cleanupWaiting /\ file' = last /\ UNCHANGED manager
      BY <2>1, <3>1, Zenon
    <3>2. CASE ~s.cleanupWaiting /\ StartFileCleanup(last)
      BY <2>1, <3>2, Zenon DEF StartFileCleanup, FileType
    <3> QED
      BY <1>11, <3>1, <3>2, Zenon
  <2>3. ReferenceInv'
    <3>1. Own(file') = Own(file)
      <4>1. Count(file'.cleanupRef) = 1 /\ Count(file.cleanupRef) = 0
        BY <1>4, <2>2 DEF Count
      <4>2. Count(file'.state = "reserved") = 0 /\ Count(file.state = "reserved") = 0
        BY <1>5, <2>2 DEF Count
      <4>3. file.handles = 1
        BY <1>7, <1>11, Numbers, BoundsAssumption DEF FileType
      <4> QED
        BY <2>2, <4>1, <4>2, <4>3, SMTT(30) DEF Own
    <3> QED
      BY <1>1, <1>6, <2>2, <3>1, Zenon DEF ReferenceInv
  <2>4. /\ s \in Serialization /\ s.grant = ser.grant /\ s.waiters = ser.waiters
        /\ \/ s = ser /\ ~file.sync
           \/ /\ file.sync /\ ser.owner = NoThread /\ ser.waiters = 0
              /\ s.owner = Cleanup /\ ~s.cleanupWaiting
           \/ /\ file.sync /\ (ser.owner # NoThread \/ ser.waiters # 0)
              /\ s.owner = ser.owner /\ s.cleanupWaiting
    <3>1. CASE ~file.sync
      BY <3>1, Numbers
    <3>2. CASE file.sync /\ ser.owner = NoThread /\ ser.waiters = 0
      <4>1. s = [ser EXCEPT !.owner = Cleanup]
        BY <3>2 DEF BeginCleanup
      <4> HIDE DEF s
      <4> QED
        BY <1>4, <3>2, <4>1, Numbers DEF Serialization
    <3>3. CASE file.sync /\ ~(ser.owner = NoThread /\ ser.waiters = 0)
      <4>1. s = [ser EXCEPT !.cleanupWaiting = TRUE]
        BY <3>3 DEF BeginCleanup
      <4> HIDE DEF s
      <4> QED
        BY <3>3, <4>1, Numbers, Zenon DEF Serialization
    <3> QED
      BY <3>1, <3>2, <3>3, Zenon
  <2> HIDE DEF s
  <2>5. ser' = s
    BY <1>11
  <2>6. FileInv'
    BY <2>2 DEF FileInv
  <2>7. CleanupInv'
    BY <1>4, <2>2, <2>4, <2>5, Zenon DEF CleanupInv
  <2>8. BusyInv'
    <3>1. /\ ser'.waiters = ser.waiters /\ ser'.grant = ser.grant
          /\ \/ ser'.owner = ser.owner
             \/ ser'.owner = Cleanup /\ ser.owner = NoThread
      BY <2>4, <2>5
    <3> QED
      BY <1>1, <1>2, <1>3, <3>1, SentinelAssumption, Zenon DEF BusyInv
  <2>9. WakeOutstanding'
    <3>1. ASSUME ser'.owner = NoThread, ser'.waiters > 0 \/ ser'.cleanupWaiting
          PROVE  ser.owner = NoThread /\ ser.waiters > 0
      <4>1. ser.waiters \in Nat
        BY Numbers, Zenon DEF Serialization
      <4> QED
        BY <1>4, <2>4, <2>5, <3>1, <4>1, SentinelAssumption, SMTT(30)
    <3> QED
      BY <1>1, <1>2, <1>3, <3>1, ZenonT(30) DEF WakeOutstanding
  <2>10. TypeOK'
    BY <1>1, <1>2, <2>2, <2>4, <2>5, ZenonT(30) DEF TypeOK, FileType
  <2> QED
    BY <1>3, <2>3, <2>6, <2>7, <2>8, <2>9, <2>10 DEF IInv
<1> QED
  BY <1>8, <1>10, <1>11

(* A step that leaves the rows, the lock and the pending IRPs alone has    *)
(* only the books of the entry to keep.                                    *)
LEMMA FileChange ==
    ASSUME IInv, UNCHANGED <<row, fifo>>, UNCHANGED <<ser, thread, hold, pend>>,
           wakeDue' = wakeDue, refDue' \in Nat, async' \in 0..MaxAsync,
           manager' \in {"none", "cleaning", "complete"},
           file' \in FileType, ReferenceInv', FileInv', CleanupInv'
    PROVE  IInv'
<1>1. TypeOK /\ BusyInv /\ WakeOutstanding
  BY DEF IInv
<1>2. /\ RowInv' /\ FifoInv'
      /\ Counted' = Counted /\ Granted' = Granted /\ Referring' = Referring
      /\ \A u \in Thread : Phase(u)' = Phase(u)
  BY RowsSame
<1>3. TypeOK'
  BY <1>1, Zenon DEF TypeOK, FileType
<1>4. BusyInv'
  BY <1>1, <1>2 DEF BusyInv
<1>5. WakeOutstanding'
  BY <1>1, <1>2 DEF WakeOutstanding
<1> QED
  BY <1>2, <1>3, <1>4, <1>5 DEF IInv

(* An entry that is absent or only reserved has no users, and CLEANUP has  *)
(* no business with it.                                                    *)
LEMMA UnpublishedIsUnused ==
    ASSUME IInv, file.state \in {"absent", "reserved"}
    PROVE  /\ Users = 0 /\ ~file.cleanupRef /\ ~file.started
           /\ ~ser.cleanupWaiting /\ ser.owner # Cleanup
           /\ file.state = "reserved" => file.handles = 0
<1> DEFINE c == Count(file.cleanupRef)
           v == Count(file.state = "reserved")
<1>1. ReferenceInv /\ FileInv /\ CleanupInv
  BY DEF IInv
<1>2. file.handles \in Nat /\ Users \in Nat
  BY Numbers, BoundsAssumption DEF FileType
<1>3. c \in Nat /\ v \in Nat /\ (file.cleanupRef => c = 1)
      /\ (file.state = "reserved" => v = 1)
  BY CountType DEF Count
<1>4. file.references = file.handles + v + c + Users
  BY <1>1 DEF ReferenceInv, Own
<1>5. /\ file.state = "absent" => file.references = 0
      /\ file.state = "reserved" => file.references = 1
  BY <1>1 DEF FileInv
<1> HIDE DEF c, v
<1>6. Users = 0 /\ c = 0 /\ (file.state = "reserved" => file.handles = 0)
  BY <1>2, <1>3, <1>4, <1>5
<1>7. ~file.cleanupRef
  BY <1>3, <1>6
<1> QED
  BY <1>1, <1>6, <1>7 DEF FileInv, CleanupInv

(* The users of the entry stay when only the entry changes.                *)
LEMMA UsersSame ==
    ASSUME UNCHANGED <<row, hold, pend, wakeDue, refDue, async>>
    PROVE  Users' = Users
BY DEF Users, Referring, HoldsReference, Pending, Owed

(* reserve_file_handle: a fresh entry with one reference.                  *)
LEMMA ReserveFileHandleStep ==
    ASSUME IInv, ReserveFileHandle
    PROVE  IInv'
<1>1. /\ Users = 0 /\ ~ser.cleanupWaiting /\ ser.owner # Cleanup
  BY UnpublishedIsUnused DEF ReserveFileHandle
<1>2. /\ UNCHANGED <<row, fifo>> /\ UNCHANGED <<ser, thread, hold, pend>>
      /\ UNCHANGED <<row, hold, pend, wakeDue, refDue, async>> /\ manager' = manager
  BY DEF ReserveFileHandle
<1>3. PICK sync \in BOOLEAN :
             file' = [AbsentFile EXCEPT !.state = "reserved", !.sync = sync,
                                        !.references = 1]
  BY Zenon DEF ReserveFileHandle
<1>4. /\ file' \in FileType /\ file'.state = "reserved" /\ file'.references = 1
      /\ file'.handles = 0 /\ ~file'.cleanupSent /\ file'.cleanupRef = FALSE
      /\ ~file'.started
  <2>1. file' = [state |-> "reserved", sync |-> sync, references |-> 1, handles |-> 0,
                 cleanupSent |-> FALSE, cleanupRef |-> FALSE, started |-> FALSE]
    BY <1>3, Zenon DEF AbsentFile
  <2>2. 0 \in 0..MaxHandles
    BY BoundsAssumption
  <2> QED
    BY <2>1, <2>2 DEF FileType
<1>5. FileInv' /\ CleanupInv'
  BY <1>1, <1>2, <1>4 DEF FileInv, CleanupInv
<1>6. ReferenceInv'
  <2>1. Own(file') = 1
    BY <1>4 DEF Own, Count
  <2>2. Users' = 0
    BY <1>1, <1>2, UsersSame
  <2> QED
    BY <1>4, <2>1, <2>2 DEF ReferenceInv
<1>7. /\ refDue' \in Nat /\ async' \in 0..MaxAsync
      /\ manager' \in {"none", "cleaning", "complete"}
  BY <1>2 DEF IInv, TypeOK
<1> QED
  BY <1>2, <1>4, <1>5, <1>6, <1>7, FileChange

(* commit_reserved_file_handle: the reservation becomes the first handle.  *)
LEMMA CommitReservedFileHandleStep ==
    ASSUME IInv, CommitReservedFileHandle
    PROVE  IInv'
<1>1. /\ Users = 0 /\ ~file.cleanupRef /\ ~file.started
      /\ ~ser.cleanupWaiting /\ ser.owner # Cleanup
  BY UnpublishedIsUnused DEF CommitReservedFileHandle
<1>2. /\ UNCHANGED <<row, fifo>> /\ UNCHANGED <<ser, thread, hold, pend>>
      /\ UNCHANGED <<row, hold, pend, wakeDue, refDue, async>> /\ manager' = manager
      /\ file' = [file EXCEPT !.state = "open", !.handles = 1]
  BY DEF CommitReservedFileHandle
<1>3. file.references = 1 /\ ~file.cleanupSent
  BY DEF IInv, FileInv, CommitReservedFileHandle
<1>4. /\ file' \in FileType /\ file'.state = "open" /\ file'.references = 1
      /\ file'.handles = 1 /\ ~file'.cleanupSent /\ ~file'.cleanupRef
      /\ ~file'.started
  <2>1. file \in FileType /\ 1 \in 0..MaxHandles
    BY Numbers, BoundsAssumption
  <2> QED
    BY <1>1, <1>2, <1>3, <2>1, Zenon DEF FileType
<1>5. FileInv' /\ CleanupInv'
  BY <1>1, <1>2, <1>4 DEF FileInv, CleanupInv
<1>6. ReferenceInv'
  <2>1. Own(file') = 1
    BY <1>4 DEF Own, Count
  <2>2. Users' = 0
    BY <1>1, <1>2, UsersSame
  <2> QED
    BY <1>4, <2>1, <2>2 DEF ReferenceInv
<1>7. /\ refDue' \in Nat /\ async' \in 0..MaxAsync
      /\ manager' \in {"none", "cleaning", "complete"}
  BY <1>2 DEF IInv, TypeOK
<1> QED
  BY <1>2, <1>4, <1>5, <1>6, <1>7, FileChange

(* cancel_reserved_file_handle: nobody else can refer to the entry yet.    *)
LEMMA CancelReservedFileHandleStep ==
    ASSUME IInv, CancelReservedFileHandle
    PROVE  IInv'
<1> DEFINE f == [file EXCEPT !.references = 0]
<1>1. /\ Users = 0 /\ ~ser.cleanupWaiting /\ ser.owner # Cleanup
  BY UnpublishedIsUnused DEF CancelReservedFileHandle
<1>2. /\ UNCHANGED <<row, fifo>> /\ UNCHANGED <<ser, thread, hold, pend>>
      /\ UNCHANGED <<row, hold, pend, wakeDue, refDue, async>> /\ manager' = manager
      /\ file' = FinishRelease(f)
  BY DEF CancelReservedFileHandle
<1>3. f.references = 0 /\ f.sync = file.sync /\ file.sync \in BOOLEAN
  BY Numbers DEF FileType
<1> HIDE DEF f
<1>4. file' = [AbsentFile EXCEPT !.state = "closed", !.sync = f.sync]
  BY <1>2, <1>3, Zenon DEF FinishRelease
<1>5. /\ file' \in FileType /\ file'.state = "closed" /\ file'.references = 0
      /\ file'.handles = 0 /\ ~file'.cleanupSent /\ file'.cleanupRef = FALSE
      /\ ~file'.started
  <2>1. file' = [state |-> "closed", sync |-> f.sync, references |-> 0, handles |-> 0,
                 cleanupSent |-> FALSE, cleanupRef |-> FALSE, started |-> FALSE]
    BY <1>4, Zenon DEF AbsentFile
  <2>2. 0 \in 0..MaxHandles
    BY BoundsAssumption
  <2> QED
    BY <1>3, <2>1, <2>2 DEF FileType
<1>6. FileInv' /\ CleanupInv'
  BY <1>1, <1>2, <1>5 DEF FileInv, CleanupInv
<1>7. ReferenceInv'
  <2>1. Own(file') = 0
    BY <1>5 DEF Own, Count
  <2>2. Users' = 0
    BY <1>1, <1>2, UsersSame
  <2> QED
    BY <1>5, <2>1, <2>2 DEF ReferenceInv
<1>8. /\ refDue' \in Nat /\ async' \in 0..MaxAsync
      /\ manager' \in {"none", "cleaning", "complete"}
  BY <1>2 DEF IInv, TypeOK
<1> QED
  BY <1>2, <1>5, <1>6, <1>7, <1>8, FileChange

(* retain_handle: one handle and one reference more.                       *)
LEMMA RetainHandleStep ==
    ASSUME IInv, RetainHandle
    PROVE  IInv'
<1>1. TypeOK /\ ReferenceInv /\ FileInv /\ CleanupInv
  BY DEF IInv
<1>2. /\ UNCHANGED <<row, fifo>> /\ UNCHANGED <<ser, thread, hold, pend>>
      /\ UNCHANGED <<row, hold, pend, wakeDue, refDue, async>> /\ manager' = manager
      /\ file' = [file EXCEPT !.references = file.references + 1,
                              !.handles = file.handles + 1]
  BY DEF RetainHandle
<1>3. /\ file.state = "open" /\ ~file.cleanupSent
      /\ file.handles + 1 \in 0..MaxHandles /\ file.references + 1 \in Nat
      /\ file \in FileType
  BY Numbers, BoundsAssumption DEF RetainHandle, FileType
<1>4. /\ file' \in FileType /\ file'.state = file.state
      /\ file'.references = file.references + 1 /\ file'.handles = file.handles + 1
      /\ file'.cleanupSent = file.cleanupSent /\ file'.cleanupRef = file.cleanupRef
      /\ file'.started = file.started /\ file'.sync = file.sync
  BY <1>2, <1>3, Zenon DEF FileType
<1>5. FileInv' /\ CleanupInv'
  BY <1>1, <1>2, <1>3, <1>4, Zenon DEF FileInv, CleanupInv
<1>6. ReferenceInv'
  <2>1. file.handles \in Nat /\ Count(file.state = "reserved") \in Nat
        /\ Count(file.cleanupRef) \in Nat
    BY Numbers, CountType, BoundsAssumption DEF FileType
  <2>2. Own(file') = Own(file) + 1
    BY <1>4, <2>1 DEF Own
  <2>3. Users' = Users
    BY <1>2, UsersSame
  <2> QED
    BY <1>1, <1>4, <2>2, <2>3, Numbers DEF ReferenceInv
<1>7. /\ refDue' \in Nat /\ async' \in 0..MaxAsync
      /\ manager' \in {"none", "cleaning", "complete"}
  BY <1>1, <1>2 DEF TypeOK
<1> QED
  BY <1>2, <1>4, <1>5, <1>6, <1>7, FileChange

(* The driver finishing CLEANUP changes no count of the File.              *)
LEMMA DriverCompletesCleanupStep ==
    ASSUME IInv, DriverCompletesCleanup
    PROVE  IInv'
<1>1. TypeOK /\ ReferenceInv /\ FileInv /\ CleanupInv
  BY DEF IInv
<1>2. /\ UNCHANGED <<row, fifo>> /\ UNCHANGED <<ser, thread, hold, pend>>
      /\ UNCHANGED <<row, hold, pend, wakeDue, refDue, async>> /\ manager' = "complete"
      /\ file' = file
  BY Zenon DEF DriverCompletesCleanup
<1>3. FileInv' /\ CleanupInv' /\ file' \in FileType
  BY <1>1, <1>2, Numbers DEF FileInv, CleanupInv
<1>4. ReferenceInv'
  BY <1>1, <1>2, UsersSame, Zenon DEF ReferenceInv
<1>5. refDue' \in Nat /\ async' \in 0..MaxAsync
  BY <1>1, <1>2 DEF TypeOK
<1> QED
  BY <1>2, <1>3, <1>4, <1>5, FileChange

(* An IRP of an asynchronous File retains the entry.                       *)
LEMMA StartAsyncIoStep ==
    ASSUME IInv, StartAsyncIo
    PROVE  IInv'
<1>1. TypeOK /\ ReferenceInv /\ FileInv /\ CleanupInv
  BY DEF IInv
<1>2. /\ UNCHANGED <<row, fifo>> /\ UNCHANGED <<ser, thread, hold, pend>>
      /\ UNCHANGED <<wakeDue, refDue, manager>> /\ async' = async + 1
      /\ file' = [file EXCEPT !.references = file.references + 1]
      /\ file.state = "open" /\ async < MaxAsync
  BY DEF StartAsyncIo
<1>3. file.references + 1 \in Nat /\ file \in FileType
  BY Numbers DEF FileType
<1>4. /\ file' \in FileType /\ file'.state = file.state
      /\ file'.references = file.references + 1 /\ file'.handles = file.handles
      /\ file'.cleanupSent = file.cleanupSent /\ file'.cleanupRef = file.cleanupRef
      /\ file'.started = file.started /\ file'.sync = file.sync
  BY <1>2, <1>3 DEF FileType
<1>5. FileInv' /\ CleanupInv'
  BY <1>1, <1>2, <1>4 DEF FileInv, CleanupInv
<1>6. ReferenceInv'
  <2>1. Own(file') = Own(file)
    BY <1>4 DEF Own
  <2>2. Referring' = Referring /\ Pending' = Pending /\ Owed' = Owed
    BY <1>2 DEF Referring, HoldsReference, Pending, Owed
  <2>3. Users' = Users + 1
    BY <1>2, <2>2, Numbers DEF Users
  <2> QED
    BY <1>1, <1>4, <2>1, <2>3, Numbers, SMTT(30) DEF ReferenceInv
<1>7. /\ refDue' \in Nat /\ async' \in 0..MaxAsync
      /\ manager' \in {"none", "cleaning", "complete"}
  BY <1>1, <1>2, BoundsAssumption, SMTT(30) DEF TypeOK
<1> QED
  BY <1>2, <1>4, <1>5, <1>6, <1>7, FileChange

(* Its completion turns that reference into one to be released.            *)
LEMMA CompleteAsyncIoStep ==
    ASSUME IInv, CompleteAsyncIo
    PROVE  IInv'
<1>1. TypeOK /\ ReferenceInv /\ FileInv /\ CleanupInv
  BY DEF IInv
<1>2. /\ UNCHANGED <<row, fifo>> /\ UNCHANGED <<ser, thread, hold, pend>>
      /\ UNCHANGED <<wakeDue, file, manager>> /\ async' = async - 1
      /\ refDue' = refDue + 1 /\ async > 0
  BY Zenon DEF CompleteAsyncIo
<1>3. FileInv' /\ CleanupInv' /\ file' \in FileType
  BY <1>1, <1>2, Numbers DEF FileInv, CleanupInv
<1>4. ReferenceInv'
  <2>1. Referring' = Referring /\ Pending' = Pending
    BY <1>2 DEF Referring, HoldsReference, Pending
  <2>2. Owed' = Owed + 1
    BY <1>2, Numbers DEF Owed
  <2>3. Users' = Users
    BY <1>2, <2>1, <2>2, Numbers DEF Users
  <2> QED
    BY <1>1, <1>2, <2>3 DEF ReferenceInv
<1>5. /\ refDue' \in Nat /\ async' \in 0..MaxAsync
      /\ manager' \in {"none", "cleaning", "complete"}
  BY <1>1, <1>2, BoundsAssumption DEF TypeOK
<1> QED
  BY <1>2, <1>3, <1>4, <1>5, FileChange, Zenon

(* A completed IRP keeps Busy until release_if_ready.                      *)
LEMMA DriverCompletesIrpStep ==
    ASSUME IInv, DriverCompletesIrp
    PROVE  IInv'
<1>1. TypeOK /\ ReferenceInv /\ FileInv /\ BusyInv /\ CleanupInv /\ WakeOutstanding
  BY DEF IInv
<1>2. /\ UNCHANGED <<row, fifo>> /\ hold = "irp" /\ hold' = "done"
      /\ UNCHANGED <<file, ser, thread, wakeDue, pend, refDue, manager, async>>
  BY DEF DriverCompletesIrp
<1>3. /\ RowInv' /\ FifoInv'
      /\ Counted' = Counted /\ Granted' = Granted /\ Referring' = Referring
      /\ \A u \in Thread : Phase(u)' = Phase(u)
  BY <1>2, RowsSame
<1>4. TypeOK'
  BY <1>1, <1>2, Zenon DEF TypeOK
<1>5. FileInv' /\ CleanupInv' /\ WakeOutstanding'
  BY <1>1, <1>2, <1>3 DEF FileInv, CleanupInv, WakeOutstanding
<1>6. BusyInv'
  BY <1>1, <1>2, <1>3, Zenon DEF BusyInv
<1>7. ReferenceInv'
  <2>1. Pending' = Pending /\ Owed' = Owed /\ Count(hold # "none")' = Count(hold # "none")
    BY <1>2 DEF Pending, Owed, Count
  <2>2. Users' = Users
    BY <1>2, <1>3, <2>1 DEF Users
  <2> QED
    BY <1>1, <1>2, <2>2 DEF ReferenceInv
<1> QED
  BY <1>3, <1>4, <1>5, <1>6, <1>7 DEF IInv

(* before_post_action and release_if_ready: the operation gives Busy back. *)
LEMMA BusyReleased ==
    ASSUME IInv, NEW t \in Thread, ser.owner = t, Release(t), UNCHANGED <<row, fifo>>,
           UNCHANGED file
    PROVE  /\ RowInv' /\ FifoInv' /\ FileInv' /\ BusyInv' /\ CleanupInv'
           /\ ser' \in Serialization /\ hold' = "none" /\ hold # "none"
           /\ Referring' = Referring
<1>1. FileInv /\ BusyInv /\ CleanupInv
  BY DEF IInv
<1>2. /\ RowInv' /\ FifoInv'
      /\ Counted' = Counted /\ Granted' = Granted /\ Referring' = Referring
  BY RowsSame
<1>3. ser.grant = NoThread /\ hold' = "none" /\ ser' = [ser EXCEPT !.owner = NoThread]
  BY DEF Release, CanReleaseIo, ReleaseBusy
<1>4. /\ ser' \in Serialization /\ ser'.owner = NoThread /\ ser'.grant = NoThread
      /\ ser'.waiters = ser.waiters /\ ser'.cleanupWaiting = ser.cleanupWaiting
  BY <1>3, Numbers, ZenonT(30) DEF Serialization
<1>5. FileInv' /\ CleanupInv'
  BY <1>1, <1>4, SentinelAssumption DEF FileInv, CleanupInv
<1>6. BusyInv' /\ hold # "none"
  BY <1>1, <1>2, <1>3, <1>4, SentinelAssumption, Zenon DEF BusyInv
<1> QED
  BY <1>2, <1>3, <1>4, <1>5, <1>6

(* An inline retirement owes the wake of the Busy it released.             *)
LEMMA RetireInlineStep ==
    ASSUME IInv, NEW t \in Thread, RetireInline(t)
    PROVE  IInv'
<1>1. TypeOK /\ ReferenceInv
  BY DEF IInv
<1>2. /\ UNCHANGED <<row, fifo>> /\ UNCHANGED file /\ ser.owner = t /\ Release(t)
      /\ wakeDue' = wakeDue + 1 /\ thread' = Returned(t)
      /\ UNCHANGED <<pend, refDue, manager, async>>
  BY DEF RetireInline
<1>3. /\ RowInv' /\ FifoInv' /\ FileInv' /\ BusyInv' /\ CleanupInv'
      /\ ser' \in Serialization /\ hold' = "none" /\ hold # "none"
      /\ Referring' = Referring
  BY <1>2, BusyReleased, Zenon
<1>4. TypeOK'
  BY <1>1, <1>2, <1>3, SMTT(30) DEF TypeOK, Returned
<1>5. WakeOutstanding'
  BY <1>2, Numbers DEF WakeOutstanding
<1>6. ReferenceInv'
  <2>1. /\ Pending' = Pending /\ Owed' = Owed + 1
        /\ Count(hold # "none") = 1 /\ Count(hold # "none")' = 0
    BY <1>2, <1>3, Numbers, SMTT(30) DEF Pending, Owed, Count
  <2>2. Users' = Users
    BY <1>2, <1>3, <2>1, Numbers, SMTT(30) DEF Users
  <2> QED
    BY <1>1, <1>2, <2>2, ZenonT(30) DEF ReferenceInv
<1> QED
  BY <1>3, <1>4, <1>5, <1>6 DEF IInv

(* A pending IRP that released Busy owes the wake, on a slot that was      *)
(* free.                                                                   *)
LEMMA ReleasePendingBusyStep ==
    ASSUME IInv, NEW t \in Thread, ReleasePendingBusy(t)
    PROVE  IInv'
<1>1. TypeOK /\ ReferenceInv /\ BusyInv
  BY DEF IInv
<1>2. /\ UNCHANGED <<row, fifo>> /\ UNCHANGED file /\ ser.owner = t /\ Release(t)
      /\ hold = "done" /\ pend' = [pend EXCEPT ![t] = "wake"]
      /\ UNCHANGED <<thread, wakeDue, refDue, manager, async>>
  BY DEF ReleasePendingBusy
<1>3. /\ RowInv' /\ FifoInv' /\ FileInv' /\ BusyInv' /\ CleanupInv'
      /\ ser' \in Serialization /\ hold' = "none" /\ hold # "none"
      /\ Referring' = Referring
  BY <1>2, BusyReleased, Zenon
<1>4. TypeOK'
  BY <1>1, <1>2, <1>3, ZenonT(30) DEF TypeOK
<1>5. pend'[t] = "wake" /\ pend[t] = "none"
  BY <1>1, <1>2 DEF TypeOK, BusyInv
<1>6. WakeOutstanding'
  BY <1>5 DEF WakeOutstanding
<1>7. ReferenceInv'
  <2>1. t \notin Pending /\ Pending' = Pending \cup {t}
    BY <1>1, <1>2, <1>5, Zenon DEF Pending, TypeOK
  <2>2. Cardinality(Pending') = Cardinality(Pending) + 1
    BY <2>1, CountAdded DEF Pending
  <2>3. Owed' = Owed /\ Count(hold # "none") = 1 /\ Count(hold # "none")' = 0
    BY <1>2, <1>3, Zenon DEF Owed, Count
  <2>4. Users' = Users
    BY <1>2, <1>3, <2>2, <2>3, Numbers, SMTT(30) DEF Users
  <2> QED
    BY <1>1, <1>2, <2>4, Zenon DEF ReferenceInv
<1> QED
  BY <1>3, <1>4, <1>6, <1>7 DEF IInv

(* The pending row takes Busy and the reference over from the call.        *)
LEMMA TransferToPendingStep ==
    ASSUME IInv, NEW t \in Thread, TransferToPending(t)
    PROVE  IInv'
<1>1. TypeOK /\ ReferenceInv /\ FileInv /\ BusyInv /\ CleanupInv /\ WakeOutstanding
  BY DEF IInv
<1>2. /\ UNCHANGED <<row, fifo>> /\ hold = "active" /\ hold' = "irp"
      /\ ser.owner = t /\ pend[t] = "none"
      /\ UNCHANGED <<file, ser, wakeDue, pend, refDue, manager, async>>
      /\ thread' = [thread EXCEPT ![t] = IF thread[t] = "dead" THEN "dead" ELSE "blocked"]
  BY Zenon DEF TransferToPending
<1>3. /\ RowInv' /\ FifoInv'
      /\ Counted' = Counted /\ Granted' = Granted /\ Referring' = Referring
      /\ \A u \in Thread : Phase(u)' = Phase(u)
  BY <1>2, RowsSame, Zenon
<1>4. TypeOK'
  BY <1>1, <1>2 DEF TypeOK
<1>5. FileInv' /\ CleanupInv' /\ WakeOutstanding'
  BY <1>1, <1>2, <1>3, Zenon DEF FileInv, CleanupInv, WakeOutstanding
<1>6. BusyInv'
  BY <1>1, <1>2, <1>3, Zenon DEF BusyInv
<1>7. ReferenceInv'
  <2>1. Pending' = Pending /\ Owed' = Owed /\ Count(hold # "none")' = Count(hold # "none")
    BY <1>2, Zenon DEF Pending, Owed, Count
  <2>2. Users' = Users
    BY <1>2, <1>3, <2>1, Zenon DEF Users
  <2> QED
    BY <1>1, <1>2, <2>2, ZenonT(30) DEF ReferenceInv
<1> QED
  BY <1>3, <1>4, <1>5, <1>6, <1>7 DEF IInv

(* The reply of a settled pending IRP leaves its reference to be released. *)
LEMMA FinishPendingStep ==
    ASSUME IInv, NEW t \in Thread, FinishPending(t)
    PROVE  IInv'
<1>1. TypeOK /\ ReferenceInv /\ FileInv /\ BusyInv /\ CleanupInv /\ WakeOutstanding
  BY DEF IInv
<1>2. /\ UNCHANGED <<row, fifo>> /\ pend[t] = "settled"
      /\ pend' = [pend EXCEPT ![t] = "none"] /\ refDue' = refDue + 1
      /\ thread' = Returned(t)
      /\ UNCHANGED <<file, ser, hold, wakeDue, manager, async>>
  BY DEF FinishPending
<1>3. /\ RowInv' /\ FifoInv'
      /\ Counted' = Counted /\ Granted' = Granted /\ Referring' = Referring
      /\ \A u \in Thread : Phase(u)' = Phase(u)
  BY <1>2, RowsSame, Zenon
<1>4. TypeOK'
  BY <1>1, <1>2, SMTT(30) DEF TypeOK, Returned
<1>5. pend'[t] = "none" /\ \A u \in Thread \ {t} : pend'[u] = pend[u]
  BY <1>1, <1>2, Zenon DEF TypeOK
<1>6. FileInv' /\ CleanupInv'
  BY <1>1, <1>2, Zenon DEF FileInv, CleanupInv
<1>7. WakeOutstanding'
  BY <1>1, <1>2, <1>3, <1>5, ZenonT(30) DEF WakeOutstanding
<1>8. BusyInv'
  BY <1>1, <1>2, <1>3, <1>5 DEF BusyInv
<1>9. ReferenceInv'
  <2>1. t \in Pending /\ Pending' = Pending \ {t}
    BY <1>2, <1>5 DEF Pending
  <2>2. Cardinality(Pending') = Cardinality(Pending) - 1
    BY <2>1, CountRemoved DEF Pending
  <2>3. Owed' = Owed + 1
    BY <1>2, Numbers, SMTT(30) DEF Owed
  <2>4. Users' = Users
    BY <1>2, <1>3, <2>2, <2>3, Numbers, SMTT(30) DEF Users
  <2> QED
    BY <1>1, <1>2, <2>4 DEF ReferenceInv
<1> QED
  BY <1>3, <1>4, <1>6, <1>7, <1>8, <1>9, ZenonT(30) DEF IInv

(* begin_ingress that refuses, and the call that comes again.              *)
LEMMA RefusedCallSteps ==
    ASSUME IInv, NEW t \in Thread, RefuseIngress(t) \/ RepeatCall(t)
    PROVE  IInv'
<1>1. TypeOK
  BY Zenon DEF IInv
<1>2. /\ UNCHANGED row
      /\ UNCHANGED <<file, ser, fifo, hold, wakeDue, pend, refDue, manager, async>>
      /\ \E p \in {"user", "resumed"} : thread' = [thread EXCEPT ![t] = p]
  BY DEF RefuseIngress, RepeatCall
<1>3. thread' \in [Thread -> {"user", "insys", "parked", "resumed", "blocked", "dead"}]
  BY <1>1, <1>2, Zenon DEF TypeOK
<1> QED
  BY <1>2, <1>3, ThreadChange

(* A record leaves the table and the FIFO, and no other thread notices.    *)
LEMMA RowGone ==
    ASSUME IInv, NEW t \in Thread, row[t] # NoRow,
           row' = [row EXCEPT ![t] = NoRow], fifo' = Dequeue(fifo, t)
    PROVE  /\ row' \in [Thread -> Row \cup {NoRow}] /\ fifo' \in Seq(Thread)
           /\ RowInv' /\ FifoInv'
           /\ Counted' = Counted \ {t} /\ Granted' = Granted \ {t}
           /\ Referring' = Referring \ {t}
           /\ \A u \in Thread \ {t} : Phase(u)' = Phase(u)
<1>1. TypeOK /\ RowInv /\ FifoInv
  BY DEF IInv
<1>2. /\ row' \in [Thread -> Row \cup {NoRow}] /\ row'[t] = NoRow
      /\ \A u \in Thread \ {t} : row'[u] = row[u]
  BY <1>1, Zenon DEF TypeOK
<1>3. /\ fifo' \in Seq(Thread)
      /\ \A i, j \in DOMAIN fifo' : fifo'[i] = fifo'[j] => i = j
      /\ \A i \in DOMAIN fifo' :
           fifo'[i] # t /\ \E j \in DOMAIN fifo : fifo[j] = fifo'[i]
      /\ \A j \in DOMAIN fifo : fifo[j] # t => \E i \in DOMAIN fifo' : fifo'[i] = fifo[j]
  <2>1. /\ fifo \in Seq(Thread)
        /\ \A i, j \in DOMAIN fifo : fifo[i] = fifo[j] => i = j
    BY <1>1 DEF TypeOK, FifoInv
  <2> QED
    BY <2>1, DequeueKeepsOthers, SMTT(30)
<1>4. RowInv'
  BY <1>1, <1>2 DEF RowInv
<1>5. Waiting' = Waiting \ {t}
  BY <1>2, Zenon DEF Waiting, Rows
<1>6. FifoInv'
  <2>1. ASSUME NEW i \in DOMAIN fifo'
        PROVE  row'[fifo'[i]] # NoRow
    <3>1. PICK j \in DOMAIN fifo : fifo[j] = fifo'[i]
      BY <1>3, Zenon
    <3>2. fifo'[i] \in Thread \ {t}
      BY <1>3, SMTT(30)
    <3> QED
      BY <1>1, <1>2, <3>1, <3>2, ZenonT(30) DEF FifoInv
  <2>2. ASSUME NEW u \in Waiting'
        PROVE  \E i \in DOMAIN fifo' : fifo'[i] = u
    BY <1>1, <1>3, <1>5, SMTT(30) DEF FifoInv
  <2> QED
    BY <1>3, <2>1, <2>2, Zenon DEF FifoInv
<1>7. Counted' = Counted \ {t} /\ Granted' = Granted \ {t} /\ Referring' = Referring \ {t}
  BY <1>2 DEF Counted, Granted, Referring, HoldsReference
<1>8. \A u \in Thread \ {t} : Phase(u)' = Phase(u)
  BY <1>2 DEF Phase
<1> QED
  BY <1>2, <1>3, <1>4, <1>6, <1>7, <1>8, Zenon

(* adopt_io_grant: Busy and the reference move from the row to the call.   *)
LEMMA AdoptGrantedIoStep ==
    ASSUME IInv, NEW t \in Thread, AdoptGrantedIo(t)
    PROVE  IInv'
<1>1. TypeOK /\ ReferenceInv /\ FileInv /\ BusyInv /\ CleanupInv
  BY DEF IInv
<1>2. /\ row[t] # NoRow /\ row' = [row EXCEPT ![t] = NoRow] /\ fifo' = Dequeue(fifo, t)
      /\ row[t].phase = "none" /\ ser.owner = t /\ ser.grant = t
      /\ ser' = [ser EXCEPT !.grant = NoThread] /\ hold' = "active"
      /\ UNCHANGED <<file, wakeDue, pend, refDue, manager, async>>
      /\ thread' = [thread EXCEPT ![t] = "insys"]
  BY DEF AdoptGrantedIo, CanAdoptGrant, AdoptGrant
<1>3. /\ row' \in [Thread -> Row \cup {NoRow}] /\ fifo' \in Seq(Thread)
      /\ RowInv' /\ FifoInv'
      /\ Counted' = Counted \ {t} /\ Granted' = Granted \ {t}
      /\ Referring' = Referring \ {t}
  BY <1>2, RowGone, Zenon
<1>4. /\ ser' \in Serialization /\ ser'.owner = t /\ ser'.grant = NoThread
      /\ ser'.waiters = ser.waiters /\ ser'.cleanupWaiting = ser.cleanupWaiting
  BY <1>2, Numbers DEF Serialization
<1>5. Granted = {t} /\ hold = "none"
  BY <1>1, <1>2, SentinelAssumption DEF BusyInv
<1>6. t \in Referring /\ t \notin Counted
  BY <1>2, <1>5 DEF Referring, HoldsReference, Counted, Granted
<1>7. TypeOK'
  BY <1>1, <1>2, <1>3, <1>4, Zenon DEF TypeOK
<1>8. FileInv' /\ CleanupInv' /\ WakeOutstanding'
  BY <1>1, <1>2, <1>4, SentinelAssumption DEF FileInv, CleanupInv, WakeOutstanding
<1>9. BusyInv'
  <2>1. Counted' = Counted /\ Granted' = {}
    BY <1>3, <1>5, <1>6, Zenon
  <2>2. ser'.waiters = Cardinality(Counted')
    BY <1>1, <1>4, <2>1, Zenon DEF BusyInv
  <2>3. {u \in Thread : ser'.grant = u} = Granted'
    BY <1>4, <2>1, SentinelAssumption
  <2> QED
    BY <1>2, <1>4, <2>2, <2>3 DEF BusyInv
<1>10. ReferenceInv'
  <2>1. Cardinality(Referring') = Cardinality(Referring) - 1
    BY <1>3, <1>6, CountRemoved, Zenon DEF Referring
  <2>2. /\ Pending' = Pending /\ Owed' = Owed
        /\ Count(hold # "none") = 0 /\ Count(hold # "none")' = 1
    BY <1>2, <1>5 DEF Pending, Owed, Count
  <2>3. Users' = Users
    BY <1>2, <2>1, <2>2, Numbers, SMTT(30) DEF Users
  <2> QED
    BY <1>1, <1>2, <2>3 DEF ReferenceInv
<1> QED
  BY <1>3, <1>7, <1>8, <1>9, <1>10 DEF IInv

(* A cancellation that is complete has nothing left to give back.          *)
LEMMA FinishCancellationStep ==
    ASSUME IInv, NEW t \in Thread, FinishCancellation(t)
    PROVE  IInv'
<1>1. TypeOK /\ RowInv /\ ReferenceInv /\ FileInv /\ BusyInv /\ CleanupInv
      /\ WakeOutstanding
  BY DEF IInv
<1>2. /\ row[t] # NoRow /\ row' = [row EXCEPT ![t] = NoRow] /\ fifo' = Dequeue(fifo, t)
      /\ row[t].phase = "Complete" /\ Phase(t) = "Complete"
      /\ UNCHANGED <<file, ser, thread, hold, wakeDue, pend, refDue, manager, async>>
  BY Zenon DEF FinishCancellation, Phase
<1>3. /\ row' \in [Thread -> Row \cup {NoRow}] /\ fifo' \in Seq(Thread)
      /\ RowInv' /\ FifoInv'
      /\ Counted' = Counted \ {t} /\ Granted' = Granted \ {t}
      /\ Referring' = Referring \ {t}
      /\ \A u \in Thread \ {t} : Phase(u)' = Phase(u)
  BY <1>2, RowGone, Zenon
<1>4. ~row[t].owned
  BY <1>1, <1>2, ZenonT(30) DEF RowInv, RowOK
<1>5. t \notin Counted /\ t \notin Granted /\ t \notin Referring
  BY <1>2, <1>4, Zenon DEF Counted, Granted, Referring, HoldsReference
<1>6. Counted' = Counted /\ Granted' = Granted /\ Referring' = Referring
  BY <1>3, <1>5, Zenon
<1>7. TypeOK'
  BY <1>1, <1>2, <1>3, Zenon DEF TypeOK
<1>8. FileInv' /\ CleanupInv'
  BY <1>1, <1>2, Zenon DEF FileInv, CleanupInv
<1>9. BusyInv'
  BY <1>1, <1>2, <1>6, Zenon DEF BusyInv
<1>10. WakeOutstanding'
  BY <1>1, <1>2, <1>3, Zenon DEF WakeOutstanding
<1>11. ReferenceInv'
  <2>1. Users' = Users
    BY <1>2, <1>6 DEF Users, Pending, Owed
  <2> QED
    BY <1>1, <1>2, <2>1, Zenon DEF ReferenceInv
<1> QED
  BY <1>3, <1>7, <1>8, <1>9, <1>10, <1>11, Zenon DEF IInv

(* A cancellation that gives something back: the row keeps its place.      *)
LEMMA RowAdvances ==
    ASSUME IInv, NEW t \in Thread, row[t] # NoRow, NEW r \in Row, RowOK(r),
           r.phase # "none", row' = [row EXCEPT ![t] = r], UNCHANGED fifo
    PROVE  /\ row' \in [Thread -> Row \cup {NoRow}] /\ row'[t] = r
           /\ \A u \in Thread \ {t} : row'[u] = row[u]
           /\ RowInv' /\ FifoInv'
<1>1. TypeOK /\ RowInv /\ FifoInv
  BY DEF IInv
<1>2. /\ row' \in [Thread -> Row \cup {NoRow}] /\ row'[t] = r
      /\ \A u \in Thread \ {t} : row'[u] = row[u]
  BY <1>1 DEF TypeOK
<1>3. RowInv'
  BY <1>1, <1>2 DEF RowInv
<1>4. Waiting' \subseteq Waiting
  BY <1>2, Zenon DEF Waiting, Rows
<1>5. \A i \in DOMAIN fifo : row'[fifo[i]] # NoRow
  BY <1>1, <1>2, NoRowAssumption, SMTT(30) DEF FifoInv, TypeOK
<1> QED
  BY <1>1, <1>2, <1>3, <1>4, <1>5 DEF FifoInv

(* cancel_policy: the count or the grant is undone, the reference stays.   *)
LEMMA CancelPolicyStep ==
    ASSUME IInv, NEW t \in Thread, CancelPolicy(t)
    PROVE  IInv'
<1> DEFINE r == [row[t] EXCEPT !.phase = "Wake", !.owned = FALSE]
<1>1. TypeOK /\ RowInv /\ ReferenceInv /\ FileInv /\ BusyInv /\ CleanupInv
  BY DEF IInv
<1>2. /\ row[t] # NoRow /\ row[t] \in Row /\ RowOK(row[t]) /\ row[t].phase = "Policy"
  BY <1>1 DEF CancelPolicy, Phase, TypeOK, RowInv
<1>3. /\ UNCHANGED <<file, thread, hold, wakeDue, pend, refDue, manager, async>>
      /\ UNCHANGED fifo /\ row' = [row EXCEPT ![t] = r]
  BY <1>1, Zenon DEF CancelPolicy, TypeOK
<1>4. r \in Row /\ r.phase = "Wake" /\ r.owned = FALSE /\ r.state = row[t].state
      /\ r.retry = row[t].retry
  BY <1>2, Zenon DEF Row, CancelPhase
<1> HIDE DEF r
<1>5. RowOK(r) /\ row[t].owned
  BY <1>2, <1>4 DEF RowOK
<1>6. /\ row' \in [Thread -> Row \cup {NoRow}] /\ row'[t] = r
      /\ \A u \in Thread \ {t} : row'[u] = row[u]
      /\ RowInv' /\ FifoInv'
  BY <1>2, <1>3, <1>4, <1>5, RowAdvances, Zenon
<1>7. r # NoRow
  BY <1>4, NoRowAssumption, ZenonT(30)
<1>8. Counted' = Counted \ {t} /\ Granted' = Granted \ {t} /\ Referring' = Referring
  BY <1>2, <1>4, <1>6, <1>7 DEF Counted, Granted, Referring, HoldsReference
<1>9. FileInv'
  BY <1>1, <1>3 DEF FileInv
<1>10. ReferenceInv'
  <2>1. Users' = Users
    BY <1>3, <1>8 DEF Users, Pending, Owed
  <2> QED
    BY <1>1, <1>3, <2>1, Zenon DEF ReferenceInv
<1>11. WakeOutstanding'
  <2>1. Phase(t)' = "Wake"
    BY <1>4, <1>6, <1>7 DEF Phase
  <2> QED
    BY <2>1, Zenon DEF WakeOutstanding
<1>12. CASE row[t].state = "waiting"
  <2>1. ser.waiters > 0 /\ ser' = [ser EXCEPT !.waiters = ser.waiters - 1]
    BY <1>12 DEF CancelPolicy, CanCancelWaiter, CancelWaiter
  <2>2. /\ ser' \in Serialization /\ ser'.owner = ser.owner /\ ser'.grant = ser.grant
        /\ ser'.waiters = ser.waiters - 1 /\ ser'.cleanupWaiting = ser.cleanupWaiting
    <3>1. ser \in Serialization /\ ser.waiters - 1 \in Nat
      BY <2>1, Numbers, SMTT(30) DEF Serialization
    <3> QED
      BY <2>1, <3>1 DEF Serialization
  <2>3. t \in Counted /\ t \notin Granted
    BY <1>2, <1>5, <1>12, ZenonT(30) DEF Counted, Granted
  <2>4. Cardinality(Counted') = Cardinality(Counted) - 1 /\ Granted' = Granted
    BY <1>8, <2>3, CountRemoved DEF Counted
  <2>5. BusyInv'
    BY <1>1, <1>3, <2>2, <2>4, Zenon DEF BusyInv
  <2>6. CleanupInv'
    BY <1>1, <1>3, <2>1, <2>2, SMTT(30) DEF CleanupInv
  <2>7. TypeOK'
    BY <1>1, <1>3, <1>6, <2>2, Zenon DEF TypeOK
  <2> QED
    BY <1>6, <1>9, <1>10, <1>11, <2>5, <2>6, <2>7, ZenonT(30) DEF IInv
<1>13. CASE row[t].state = "promoted"
  <2>1. /\ ser.owner = t /\ ser.grant = t
        /\ ser' = [ser EXCEPT !.owner = NoThread, !.grant = NoThread]
    BY <1>13 DEF CancelPolicy, CanCancelPromoted, CancelPromoted
  <2>2. /\ ser' \in Serialization /\ ser'.owner = NoThread /\ ser'.grant = NoThread
        /\ ser'.waiters = ser.waiters /\ ser'.cleanupWaiting = ser.cleanupWaiting
    BY <2>1, Numbers, Zenon DEF Serialization
  <2>3. Granted = {t} /\ hold = "none"
    BY <1>1, <2>1, SentinelAssumption DEF BusyInv
  <2>4. t \notin Counted
    BY <1>13 DEF Counted
  <2>5. Granted' = {} /\ Counted' = Counted
    BY <1>8, <2>3, <2>4
  <2>6. BusyInv'
    <3>1. {u \in Thread : ser'.grant = u} = Granted'
      BY <2>2, <2>5, SentinelAssumption, Zenon
    <3>2. ser'.waiters = Cardinality(Counted')
      BY <1>1, <2>2, <2>5, Zenon DEF BusyInv
    <3> QED
      BY <1>3, <2>2, <2>3, <3>1, <3>2, SentinelAssumption, ZenonT(30) DEF BusyInv
  <2>7. CleanupInv'
    BY <1>1, <1>3, <2>2, SentinelAssumption, Zenon DEF CleanupInv
  <2>8. TypeOK'
    BY <1>1, <1>3, <1>6, <2>2, Zenon DEF TypeOK
  <2> QED
    BY <1>6, <1>9, <1>10, <1>11, <2>6, <2>7, <2>8 DEF IInv
<1> QED
  BY <1>2, <1>12, <1>13 DEF Row

(* The cancellation's last effect on the File: its reference.              *)
LEMMA CancelReferenceStep ==
    ASSUME IInv, NEW t \in Thread, CancelReference(t)
    PROVE  IInv'
<1> DEFINE p == IF file.references = 1 THEN "Followup" ELSE ReplyStep(row[t])
           r == [row[t] EXCEPT !.phase = p]
           f == [file EXCEPT !.references = file.references - 1]
<1>1. TypeOK /\ RowInv /\ ReferenceInv /\ FileInv /\ BusyInv /\ CleanupInv
      /\ WakeOutstanding
  BY DEF IInv
<1>2. /\ row[t] # NoRow /\ row[t] \in Row /\ RowOK(row[t]) /\ row[t].phase = "Reference"
  BY <1>1 DEF CancelReference, Phase, TypeOK, RowInv
<1>3. /\ UNCHANGED <<ser, thread, hold, wakeDue, pend, refDue, manager, async>>
      /\ UNCHANGED fifo /\ row' = [row EXCEPT ![t] = r] /\ file' = FinishRelease(f)
  BY <1>1 DEF CancelReference, TypeOK
<1>4. p \in {"Followup", "Complete", "Stage", "Revoke"}
  BY DEF ReplyStep
<1> HIDE DEF p
<1>5. r \in Row /\ r.phase = p /\ r.owned = row[t].owned /\ r.state = row[t].state
      /\ r.retry = row[t].retry
  BY <1>2, <1>4, Zenon DEF Row, CancelPhase
<1> HIDE DEF r
<1>6. RowOK(r) /\ ~row[t].owned
  BY <1>2, <1>4, <1>5 DEF RowOK
<1>7. /\ row' \in [Thread -> Row \cup {NoRow}] /\ row'[t] = r
      /\ \A u \in Thread \ {t} : row'[u] = row[u]
      /\ RowInv' /\ FifoInv'
  BY <1>2, <1>3, <1>4, <1>5, <1>6, RowAdvances, Zenon
<1>8. r # NoRow
  BY <1>5, NoRowAssumption
<1>9. /\ Counted' = Counted /\ Granted' = Granted
      /\ Referring' = Referring \ {t} /\ t \in Referring
  BY <1>2, <1>4, <1>5, <1>6, <1>7, <1>8, ZenonT(30)
     DEF Counted, Granted, Referring, HoldsReference
<1>10. Users' = Users - 1 /\ Users > 0
  <2>1. Cardinality(Referring') = Cardinality(Referring) - 1
    BY <1>9, CountRemoved DEF Referring
  <2>2. Pending' = Pending /\ Owed' = Owed
    BY <1>3 DEF Pending, Owed
  <2>3. Users' = Users - 1
    BY <1>3, <2>1, <2>2, Numbers DEF Users
  <2> QED
    BY <1>9, <2>3, UsersCounted, Zenon
<1>11. file.state = "open" /\ file.references > 0
  BY <1>10, HeldIsOpen
<1>12. /\ f \in FileType /\ f.references = file.references - 1 /\ f.state = file.state
       /\ f.sync = file.sync /\ f.handles = file.handles /\ f.started = file.started
       /\ f.cleanupSent = file.cleanupSent /\ f.cleanupRef = file.cleanupRef
  BY <1>11, Numbers, SMTT(30) DEF FileType
<1> HIDE DEF f
<1>13. Own(f) = Own(file)
  BY <1>12, Zenon DEF Own
<1>14. Users' \in Nat /\ f.references = Own(f) + Users'
  BY <1>1, <1>10, <1>12, <1>13, Numbers DEF ReferenceInv
<1>15. file' \in FileType /\ ReferenceInv' /\ FileInv' /\ CleanupInv'
  BY <1>1, <1>3, <1>11, <1>12, <1>14, ReleaseKeeps, ZenonT(30) DEF FileInv, CleanupInv
<1>16. TypeOK'
  BY <1>1, <1>3, <1>7, <1>15 DEF TypeOK, FileType
<1>17. BusyInv'
  BY <1>1, <1>3, <1>9, Zenon DEF BusyInv
<1>18. WakeOutstanding'
  <2>1. ASSUME NEW u \in Thread, Phase(u) \in {"Policy", "Wake"}
        PROVE  Phase(u)' \in {"Policy", "Wake"}
    <3>1. u # t
      BY <1>2, <2>1 DEF Phase
    <3> QED
      BY <1>7, <2>1, <3>1, Zenon DEF Phase
  <2> QED
    BY <1>1, <1>3, <2>1, Zenon DEF WakeOutstanding
<1> QED
  BY <1>7, <1>15, <1>16, <1>17, <1>18 DEF IInv

(* acquire_file_io_with_mode: the operation's reference, and Busy or a     *)
(* place among the waiters.  While a handle is left CLEANUP is nowhere     *)
(* near, so a free Busy that is refused has waiters with a wake to come.   *)
LEMMA AcquireFileIoStep ==
    ASSUME IInv, NEW t \in Thread, AcquireFileIo(t)
    PROVE  IInv'
<1>1. TypeOK /\ RowInv /\ ReferenceInv /\ FileInv /\ BusyInv /\ CleanupInv /\ FifoInv
      /\ WakeOutstanding
  BY DEF IInv
<1>2. /\ row[t] = NoRow /\ file.state = "open" /\ file.sync /\ ~file.cleanupSent
      /\ file' = [file EXCEPT !.references = file.references + 1]
      /\ UNCHANGED <<wakeDue, pend, refDue, manager, async>>
  BY DEF AcquireFileIo
<1>3. ~ser.cleanupWaiting /\ ser.owner # Cleanup
  BY <1>1, <1>2 DEF FileInv, CleanupInv
<1>4. /\ file' \in FileType /\ file'.state = file.state
      /\ file'.references = file.references + 1 /\ file'.handles = file.handles
      /\ file'.cleanupSent = file.cleanupSent /\ file'.cleanupRef = file.cleanupRef
      /\ file'.started = file.started /\ file'.sync = file.sync
  <2>1. file \in FileType /\ file.references + 1 \in Nat
    BY Numbers DEF FileType
  <2> QED
    BY <1>2, <2>1, Zenon DEF FileType
<1>5. FileInv'
  BY <1>1, <1>2, <1>4 DEF FileInv
<1>6. Own(file') = Own(file) /\ Pending' = Pending /\ Owed' = Owed
  BY <1>2, <1>4 DEF Own, Pending, Owed
<1>7. ser \in Serialization
  BY Numbers
<1>8. CASE CanAcquire(ser)
  <2>1. /\ ser' = [ser EXCEPT !.owner = t] /\ hold' = "active"
        /\ thread' = [thread EXCEPT ![t] = "insys"] /\ UNCHANGED <<row, fifo>>
    BY <1>8, Zenon DEF AcquireFileIo, AcquireBusy
  <2>2. ser.owner = NoThread /\ ser.grant = NoThread /\ hold = "none"
    BY <1>1, <1>8, SentinelAssumption DEF CanAcquire, BusyInv
  <2>3. /\ ser' \in Serialization /\ ser'.owner = t /\ ser'.grant = NoThread
        /\ ser'.waiters = ser.waiters /\ ser'.cleanupWaiting = ser.cleanupWaiting
    BY <1>7, <2>1, <2>2 DEF Serialization
  <2>4. /\ RowInv' /\ FifoInv'
        /\ Counted' = Counted /\ Granted' = Granted /\ Referring' = Referring
    BY <2>1, RowsSame
  <2>5. TypeOK'
    BY <1>1, <1>2, <1>4, <2>1, <2>3, ZenonT(30) DEF TypeOK, FileType
  <2>6. CleanupInv' /\ WakeOutstanding'
    BY <1>3, <2>3, SentinelAssumption DEF CleanupInv, WakeOutstanding
  <2>7. BusyInv'
    BY <1>1, <2>1, <2>2, <2>3, <2>4, Zenon DEF BusyInv
  <2>8. ReferenceInv'
    <3>1. Count(hold # "none") = 0 /\ Count(hold # "none")' = 1
      BY <2>1, <2>2 DEF Count
    <3>2. Users' = Users + 1
      BY <1>2, <1>6, <2>4, <3>1, Numbers, SMTT(30) DEF Users
    <3> QED
      BY <1>1, <1>4, <1>6, <3>2, Numbers DEF ReferenceInv
  <2> QED
    BY <1>5, <2>4, <2>5, <2>6, <2>7, <2>8, Zenon DEF IInv
<1>9. CASE ~CanAcquire(ser)
  <2>1. /\ ser' = [ser EXCEPT !.waiters = ser.waiters + 1] /\ UNCHANGED hold
        /\ \/ /\ row' = [row EXCEPT ![t] = ParkedRow] /\ fifo' = Append(fifo, t)
              /\ thread' = [thread EXCEPT ![t] = "parked"]
           \/ /\ row' = [row EXCEPT ![t] = UnpublishedRow]
              /\ UNCHANGED <<fifo, thread>>
    BY <1>9 DEF AcquireFileIo, CountWaiter
  <2>2. PICK r \in {ParkedRow, UnpublishedRow} :
               /\ row' = [row EXCEPT ![t] = r]
               /\ \/ fifo' = Append(fifo, t)
                  \/ fifo' = fifo /\ r = UnpublishedRow
    BY <2>1
  <2>3. /\ r \in Row /\ r.state = "waiting" /\ r.owned = TRUE /\ r.retry = "none"
        /\ r.phase \in {"none", "Policy"} /\ (r = UnpublishedRow => r.phase = "Policy")
    <3>1. CASE r = ParkedRow
      <4>1. ParkedRow # UnpublishedRow
        BY Zenon DEF ParkedRow, UnpublishedRow
      <4> QED
        BY <3>1, <4>1 DEF ParkedRow, Row, CancelPhase
    <3>2. CASE r = UnpublishedRow
      <4>1. r = [state |-> "waiting", retry |-> "none", phase |-> "Policy", apc |-> FALSE,
                 teardown |-> TRUE, owned |-> TRUE, cap |-> FALSE]
        BY <3>2, Zenon DEF ParkedRow, UnpublishedRow
      <4> QED
        BY <4>1 DEF Row, CancelPhase
    <3> QED
      BY <2>2, <3>1, <3>2, Zenon
  <2>4. RowOK(r) /\ r # NoRow
    BY <2>3, NoRowAssumption, Zenon DEF RowOK
  <2>5. /\ row' \in [Thread -> Row \cup {NoRow}] /\ row'[t] = r
        /\ \A u \in Thread \ {t} : row'[u] = row[u]
    BY <1>1, <2>2, <2>3, Zenon DEF TypeOK
  <2>6. fifo \in Seq(Thread) /\ fifo' \in Seq(Thread)
    <3>1. fifo \in Seq(Thread) /\ Append(fifo, t) \in Seq(Thread)
      BY <1>1 DEF TypeOK
    <3> QED
      BY <2>2, <3>1, Zenon
  <2>7. RowInv'
    BY <1>1, <2>4, <2>5 DEF RowInv
  <2>8. /\ Counted' = Counted \cup {t} /\ t \notin Counted
        /\ Granted' = Granted
        /\ Referring' = Referring \cup {t} /\ t \notin Referring
    BY <1>2, <2>3, <2>4, <2>5, ZenonT(30) DEF Counted, Granted, Referring, HoldsReference
  <2>9. /\ ser' \in Serialization /\ ser'.owner = ser.owner /\ ser'.grant = ser.grant
        /\ ser'.waiters = ser.waiters + 1 /\ ser'.cleanupWaiting = ser.cleanupWaiting
    <3>1. ser.waiters + 1 \in Nat
      BY <1>7 DEF Serialization
    <3> QED
      BY <1>7, <2>1, <3>1, Zenon DEF Serialization
  <2>10. TypeOK'
    <3>1. thread' \in [Thread -> {"user", "insys", "parked", "resumed", "blocked", "dead"}]
      BY <1>1, <2>1, Zenon DEF TypeOK
    <3> QED
      BY <1>1, <1>2, <1>4, <2>1, <2>5, <2>6, <2>9, <3>1, Zenon DEF TypeOK, FileType
  <2>11. CleanupInv'
    BY <1>3, <2>9 DEF CleanupInv
  <2>12. BusyInv'
    <3>1. Cardinality(Counted') = Cardinality(Counted) + 1
      BY <2>8, CountAdded, Zenon DEF Counted
    <3> QED
      BY <1>1, <1>2, <2>1, <2>8, <2>9, <3>1, Zenon DEF BusyInv
  <2>13. ReferenceInv'
    <3>1. Cardinality(Referring') = Cardinality(Referring) + 1
      BY <2>8, CountAdded DEF Referring
    <3>2. Count(hold # "none")' = Count(hold # "none") /\ async' = async
      BY <1>2, <2>1, Zenon
    <3>3. Users' = Users + 1
      BY <1>6, <3>1, <3>2, Numbers, SMTT(30) DEF Users
    <3> QED
      BY <1>1, <1>4, <1>6, <3>3, Numbers, SMTT(30) DEF ReferenceInv
  <2>14. FifoInv'
    <3>1. \A i \in DOMAIN fifo : fifo[i] \in Thread /\ fifo[i] # t
      BY <1>1, <1>2, <2>6, SMTT(30) DEF FifoInv
    <3>2. CASE fifo' = fifo /\ r = UnpublishedRow
      <4>1. Waiting' \subseteq Waiting
        BY <2>3, <2>5, <3>2, Zenon DEF Waiting, Rows
      <4> QED
        BY <1>1, <2>5, <3>1, <3>2, <4>1, Zenon DEF FifoInv
    <3>3. CASE fifo' = Append(fifo, t)
      <4> DEFINE n == Len(fifo)
      <4>1. /\ n \in Nat /\ DOMAIN fifo = 1..n /\ DOMAIN fifo' = 1..(n + 1)
            /\ fifo'[n + 1] = t /\ \A i \in 1..n : fifo'[i] = fifo[i]
        BY <2>6, <3>3, SMTT(30)
      <4> HIDE DEF n
      <4>2. \A i, j \in DOMAIN fifo' : fifo'[i] = fifo'[j] => i = j
        BY <1>1, <3>1, <4>1, SMTT(30) DEF FifoInv
      <4>3. \A i \in DOMAIN fifo' : row'[fifo'[i]] # NoRow
        BY <1>1, <2>4, <2>5, <3>1, <4>1, SMTT(30) DEF FifoInv
      <4>4. ASSUME NEW u \in Waiting'
            PROVE  \E i \in DOMAIN fifo' : fifo'[i] = u
        <5>1. CASE u = t
          BY <4>1, <5>1, SMTT(30)
        <5>2. CASE u # t
          <6>1. u \in Waiting
            BY <2>5, <5>2 DEF Waiting, Rows
          <6> QED
            BY <1>1, <4>1, <6>1, SMTT(30) DEF FifoInv
        <5> QED
          BY <5>1, <5>2, ZenonT(30)
      <4> QED
        BY <4>2, <4>3, <4>4, Zenon DEF FifoInv
    <3> QED
      BY <2>2, <3>2, <3>3
  <2>15. WakeOutstanding'
    <3>1. ASSUME NEW u \in Thread, Phase(u) \in {"Policy", "Wake"}
          PROVE  Phase(u)' \in {"Policy", "Wake"}
      <4>1. u # t
        BY <1>2, <3>1 DEF Phase
      <4> QED
        BY <2>5, <3>1, <4>1, Zenon DEF Phase
    <3>2. ser.owner = NoThread => ser.waiters > 0 \/ ser.cleanupWaiting
      BY <1>7, <1>9 DEF CanAcquire, Serialization
    <3> QED
      BY <1>1, <1>2, <2>9, <3>1, <3>2, Zenon DEF WakeOutstanding
  <2> QED
    BY <1>5, <2>7, <2>10, <2>11, <2>12, <2>13, <2>14, <2>15, Zenon DEF IInv
<1> QED
  BY <1>8, <1>9
-----------------------------------------------------------------------------
(***************************************************************************)
(* The invariant and its consequences.                                     *)
(***************************************************************************)
LEMMA InitInv ==
    ASSUME Init
    PROVE  IInv
<1> USE DEF Init
<1>1. /\ file = AbsentFile /\ ser = NewSerialization
      /\ \A t \in Thread : row[t] = NoRow /\ pend[t] = "none"
      /\ fifo = <<>> /\ hold = "none" /\ wakeDue = 0 /\ refDue = 0 /\ async = 0
  OBVIOUS
<1>2. TypeOK
  <2>1. file \in FileType
    BY BoundsAssumption DEF AbsentFile, FileType
  <2>2. ser \in Serialization
    BY DEF NewSerialization, Serialization
  <2>3. async \in 0..MaxAsync
    BY BoundsAssumption
  <2> QED
    BY <2>1, <2>2, <2>3, SMTT(30) DEF TypeOK, FileType
<1>3. Counted = {} /\ Granted = {} /\ Referring = {} /\ Pending = {} /\ Waiting = {}
  BY <1>1 DEF Counted, Granted, Referring, HoldsReference, Pending, Waiting, Rows
<1>4. Cardinality({}) = 0
  BY FS_EmptySet, Zenon
<1>5. ReferenceInv
  <2>1. Users = 0
    BY <1>1, <1>3, <1>4, SMTT(30) DEF Users, Owed, Count
  <2>2. Own(file) = 0
    BY <1>1, SMTT(30) DEF Own, Count, AbsentFile
  <2> QED
    BY <1>1, <2>1, <2>2, SMTT(30) DEF ReferenceInv, AbsentFile
<1>6. RowInv /\ FileInv /\ CleanupInv /\ FifoInv /\ WakeOutstanding
  <2>1. RowInv
    BY <1>1, Zenon DEF RowInv
  <2>2. FileInv
    BY <1>1, SMTT(30) DEF FileInv, AbsentFile
  <2>3. CleanupInv
    BY <1>1, SentinelAssumption, SMTT(30) DEF CleanupInv, AbsentFile, NewSerialization
  <2>4. FifoInv
    BY <1>1, <1>3, SMTT(30) DEF FifoInv
  <2>5. WakeOutstanding
    BY <1>1, SMTT(30) DEF WakeOutstanding, NewSerialization
  <2> QED
    BY <2>1, <2>2, <2>3, <2>4, <2>5, Zenon
<1>7. BusyInv
  BY <1>1, <1>3, <1>4, SentinelAssumption DEF BusyInv, NewSerialization
<1> QED
  BY <1>2, <1>5, <1>6, <1>7, Zenon DEF IInv

(* Every step of the File, of a thread and of the service passes preserves *)
(* the invariant.                                                          *)
LEMMA StepInv ==
    ASSUME IInv, [Next]_vars
    PROVE  IInv'
<1>1. CASE FileStep
  BY <1>1, ReserveFileHandleStep, CommitReservedFileHandleStep, CancelReservedFileHandleStep,
     RetainHandleStep, ReleaseHandleStep, DriverCompletesCleanupStep, RetireCleanupStep,
     ReleaseReferenceStep, WakeSteps, DriverCompletesIrpStep, StartAsyncIoStep,
     CompleteAsyncIoStep, ZenonT(30) DEF FileStep, SettlesWake
<1>2. ASSUME NEW t \in Thread, ThreadStep(t)
      PROVE  IInv'
  <2>1. CASE Call(t) \/ EndOfCall(t)
    BY <2>1, AdoptGrantedIoStep, RejectIngressStep, RefusedCallSteps, RetireInlineStep,
       TransferToPendingStep DEF Call, EndOfCall
  <2>2. CASE Service(t)
    BY <2>2, RedriveRetirementStep, ReleasePendingBusyStep, WakeSteps,
       FinishPendingStep, Zenon DEF Service, SettlesWake
  <2>3. CASE Drive(t)
    BY <2>3, CancelPolicyStep, WakeSteps, CancelReferenceStep,
       CancellationEffectSteps, FinishCancellationStep DEF Drive, SettlesWake
  <2>4. CASE AcquireFileIo(t) \/ TerminateThread(t) \/ RequestUserApc(t)
    BY <2>4, AcquireFileIoStep, TerminateThreadStep, RequestUserApcStep, Zenon
  <2> QED
    BY <1>2, <2>1, <2>2, <2>3, <2>4, Zenon DEF ThreadStep
<1>3. CASE UNCHANGED vars
  <2>1. thread' \in [Thread -> {"user", "insys", "parked", "resumed", "blocked", "dead"}]
    BY <1>3 DEF IInv, TypeOK, vars
  <2> QED
    BY <1>3, <2>1, ThreadChange, Zenon DEF vars
<1> QED
  BY <1>1, <1>2, <1>3 DEF Next

(* The books of the File entry, its Busy lock and its FIFO hold in every   *)
(* state, for every finite set of threads and every bound.                 *)
THEOREM FileBooksInvariance == Spec => []IInv
<1>1. Init => IInv
  BY InitInv
<1>2. IInv /\ [Next]_vars => IInv'
  BY StepInv
<1> QED
  BY <1>1, <1>2, PTL DEF Spec

(* retain_file, release_file and finish_release: the reference count of    *)
(* the entry is always the number of its handles, reservation, CLEANUP,    *)
(* operations, waiters and obligations, so it is cleared exactly when      *)
(* nobody needs it and no late wake or release meets a closed entry.       *)
THEOREM ReferencesAlwaysAccounted == Spec => []ReferencesAccounted
<1>1. ASSUME IInv
      PROVE  ReferencesAccounted
  <2> DEFINE h == file.handles
             v == Count(file.state = "reserved")
             c == Count(file.cleanupRef)
             o == Count(hold # "none")
             a == Cardinality(Referring)
             b == Cardinality(Pending)
  <2>1. file.references = (h + v + c) + (o + a + b + (wakeDue + refDue) + async)
    BY <1>1 DEF IInv, ReferenceInv, Own, Users, Owed
  <2>2. /\ h \in Nat /\ v \in Nat /\ c \in Nat /\ o \in Nat /\ a \in Nat /\ b \in Nat
        /\ wakeDue \in Nat /\ refDue \in Nat /\ async \in Nat
    BY <1>1, Numbers, CountType, BoundsAssumption, SMTT(30) DEF FileType
  <2>3. ReferencesAccounted <=>
          file.references = h + v + c + o + a + b + wakeDue + refDue + async
    BY Zenon DEF ReferencesAccounted, Referring, Pending
  <2> HIDE DEF h, v, c, o, a, b
  <2> QED
    BY <2>1, <2>2, <2>3, SMTT(30)
<1> QED
  BY <1>1, FileBooksInvariance, PTL

(* The rows that own an acquisition are those nobody cancels and those     *)
(* whose cancellation has yet to run its policy.                           *)
LEMMA OwnedRows ==
    ASSUME IInv
    PROVE  /\ Waiting \cup Cancelling("waiting") = Counted
           /\ Promoted \cup Cancelling("promoted") = Granted
<1>1. \A t \in Thread : row[t] # NoRow => (row[t].phase = "none" => row[t].owned)
  BY ZenonT(30) DEF IInv, RowInv, RowOK
<1> QED
  BY <1>1, Zenon DEF Waiting, Promoted, Cancelling, Rows, Counted, Granted

(* begin_io, cancel_waiter, promote_waiter, adopt_io_grant and release_io: *)
(* the owner, the grant and the waiter count of Busy always name exactly   *)
(* the operation and the rows behind them, so the service passes never     *)
(* find the STATUS_DATA_ERROR they check for.                              *)
THEOREM BusyAlwaysAccounted == Spec => []BusyAccounted
<1>1. ASSUME IInv
      PROVE  BusyAccounted
  BY <1>1, OwnedRows DEF IInv, BusyInv, BusyAccounted
<1> QED
  BY <1>1, FileBooksInvariance, PTL

(* begin_cleanup and promote_cleanup: while CLEANUP owns Busy it has been  *)
(* started, and no operation owns, is granted or waits for the File.       *)
THEOREM CleanupAlwaysExcludesIo == Spec => []CleanupExcludesIo
<1>1. ASSUME IInv, ser.owner = Cleanup
      PROVE  /\ file.started /\ hold = "none"
             /\ Waiting \cup Promoted \cup Cancelling("waiting") \cup Cancelling("promoted")
                  = {}
  <2>1. file.started /\ ser.waiters = 0
    BY <1>1, Zenon DEF IInv, CleanupInv
  <2>2. hold = "none" /\ ser.grant = NoThread
    BY <1>1, Numbers, SentinelAssumption, Zenon DEF IInv, BusyInv, Serialization
  <2>3. Counted = {}
    <3>1. Cardinality(Counted) = 0
      BY <1>1, <2>1, Zenon DEF IInv, BusyInv
    <3> QED
      BY <3>1, CountZero, Zenon DEF Counted
  <2>4. Granted = {}
    BY <1>1, <2>2, SentinelAssumption DEF IInv, BusyInv
  <2> QED
    BY <1>1, <2>1, <2>2, <2>3, <2>4, OwnedRows, Zenon
<1>2. IInv => CleanupExcludesIo
  BY <1>1 DEF CleanupExcludesIo
<1> QED
  BY <1>2, FileBooksInvariance, PTL

(* try_synchronous_file_wake_next: a free Busy that threads or CLEANUP     *)
(* wait for always has an inline retirement, a pending IRP or a            *)
(* cancellation left that will wake the next of them.                      *)
THEOREM WakeAlwaysOutstanding == Spec => []WakeOutstanding
<1>1. IInv => WakeOutstanding
  BY DEF IInv
<1> QED
  BY <1>1, FileBooksInvariance, PTL

(* A step that settles no wake promotes nobody.                            *)
LEMMA OtherStepsPromoteNobody ==
    ASSUME IInv, Next, NEW u \in Waiting, u \in Promoted'
    PROVE  SettlesWake
<1>1. TypeOK /\ RowInv
  BY Zenon DEF IInv
<1>2. /\ u \in Thread /\ row[u] # NoRow /\ row[u].state = "waiting" /\ row[u].phase = "none"
      /\ row[u].retry = "none" /\ Phase(u) = "none"
  BY <1>1 DEF Waiting, Rows, RowInv, RowOK, Phase
<1>3. /\ row'[u] # NoRow /\ row'[u].state = "promoted" /\ row'[u].phase = "none"
  BY DEF Promoted, Rows
<1>4. row'[u] # row[u]
  BY <1>2, <1>3
<1>5. CASE FileStep
  BY <1>4, <1>5, Zenon
     DEF SettlesWake, FileStep, ReserveFileHandle, CommitReservedFileHandle,
     CancelReservedFileHandle, RetainHandle, ReleaseHandle, DriverCompletesCleanup,
     RetireCleanup, ReleaseReference, DriverCompletesIrp, StartAsyncIo, CompleteAsyncIo
<1>6. ASSUME NEW t \in Thread, ThreadStep(t), ~WakePending(t), ~CancelWake(t)
      PROVE  FALSE
  <2>1. CASE t # u
    <3>1. \/ row' = row
          \/ \E r : row' = [row EXCEPT ![t] = r]
      <4>1. CASE AcquireFileIo(t)
        BY <4>1 DEF AcquireFileIo
      <4>2. CASE Call(t)
        BY <4>2, Zenon DEF Call, AdoptGrantedIo, RejectIngress, RefuseIngress, RepeatCall
      <4>3. CASE EndOfCall(t)
        BY <4>3, Zenon DEF EndOfCall, RetireInline, TransferToPending
      <4>4. CASE Service(t)
        BY <1>6, <4>4, Zenon
           DEF Service, RedriveRetirement, ReleasePendingBusy, FinishPending, RowStep
      <4>5. CASE Drive(t)
        <5>1. CASE CancelStagedApc(t)
          BY <5>1 DEF CancelStagedApc, RowStep
        <5>2. CASE CancelSendApc(t)
          BY <5>2 DEF CancelSendApc
        <5>3. CASE CancelPolicy(t) \/ CancelReference(t) \/ FinishCancellation(t)
          BY <5>3 DEF CancelPolicy, CancelReference, FinishCancellation
        <5>4. CASE CancelFollowup(t) \/ CancelRevokeReply(t) \/ CancelRetireReply(t)
                   \/ CancelStageApc(t) \/ CancelRetireApc(t)
          BY <5>4 DEF CancelFollowup, CancelRevokeReply, CancelRetireReply, CancelStageApc,
             CancelRetireApc, RowStep
        <5> QED
          BY <1>6, <4>5, <5>1, <5>2, <5>3, <5>4, Zenon DEF Drive
      <4>6. CASE TerminateThread(t)
        BY <4>6, Zenon DEF TerminateThread
      <4>7. CASE RequestUserApc(t)
        BY <4>7, Zenon DEF RequestUserApc
      <4> QED
        BY <1>6, <4>1, <4>2, <4>3, <4>4, <4>5, <4>6, <4>7, ZenonT(30) DEF ThreadStep
    <3> QED
      BY <1>1, <1>2, <1>4, <2>1, <3>1, Zenon DEF TypeOK
  <2>2. CASE t = u
    <3>1. CASE AcquireFileIo(u)
      BY <1>2, <3>1 DEF AcquireFileIo
    <3>2. CASE AdoptGrantedIo(u) \/ RejectIngress(u) \/ RedriveRetirement(u)
      BY <1>2, <3>2, SMTT(30) DEF AdoptGrantedIo, RejectIngress, RedriveRetirement
    <3>3. CASE RefuseIngress(u) \/ RepeatCall(u) \/ EndOfCall(u) \/ ReleasePendingBusy(u)
               \/ FinishPending(u)
      BY <1>4, <3>3, Zenon DEF RefuseIngress, RepeatCall, EndOfCall, RetireInline,
         TransferToPending, ReleasePendingBusy, FinishPending
    <3>4. CASE Drive(u)
      BY <1>2, <1>6, <2>2, <3>4, Zenon
         DEF Drive, CancelPolicy, CancelReference, CancelFollowup,
         CancelRevokeReply, CancelRetireReply, CancelStageApc, CancelStagedApc,
         CancelSendApc, CancelRetireApc, FinishCancellation
    <3>5. CASE TerminateThread(u)
      <4>1. row'[u] = CancelRow(row[u]) /\ row[u] \in Row
        BY <1>1, <1>2, <3>5 DEF TerminateThread, TypeOK
      <4>2. CancelRow(row[u]).phase \in {"Deferred", "Policy"}
        BY <1>2, <4>1, SMTT(30) DEF CancelRow, Row
      <4> QED
        BY <1>3, <4>1, <4>2, ZenonT(30)
    <3>6. CASE RequestUserApc(u)
      <4>1. row'[u].phase = "Policy"
        BY <1>1, <1>2, <3>6 DEF RequestUserApc, TypeOK, Row
      <4> QED
        BY <1>3, <4>1
    <3> QED
      BY <1>6, <2>2, <3>1, <3>2, <3>3, <3>4, <3>5, <3>6, ZenonT(30)
         DEF ThreadStep, Call, Service
  <2> QED
    BY <2>1, <2>2, Zenon
<1> QED
  BY <1>5, <1>6 DEF Next, SettlesWake

(* oldest_waiting_for_file: among the threads nobody is cancelling, Busy   *)
(* is granted in the order they parked.  Only a settled wake promotes, and *)
(* it promotes the first waiter of a FIFO that names each waiter once.     *)
THEOREM PromotionAlwaysInOrder == Spec => PromotionInOrder
<1> DEFINE InOrder ==
             \A t, u \in Waiting :
               (\E i, j \in DOMAIN fifo : i < j /\ fifo[i] = t /\ fifo[j] = u)
                 => ~(t \in Waiting' /\ u \in Promoted')
<1>1. ASSUME IInv, [Next]_vars
      PROVE  [InOrder]_vars
  <2> SUFFICES ASSUME Next, NEW t \in Waiting, NEW u \in Waiting, u \in Promoted',
                      NEW i \in DOMAIN fifo, NEW j \in DOMAIN fifo,
                      i < j, fifo[i] = t, fifo[j] = u
               PROVE  FALSE
    BY <1>1, ZenonT(30)
  <2>1. /\ u \in Thread /\ row[u] # NoRow /\ row[u].state = "waiting"
        /\ row'[u] # NoRow /\ row'[u].state = "promoted"
    BY DEF Waiting, Promoted, Rows
  <2>2. Passes \/ StartsCleanup \/ (Waiting # {} /\ Promotes(OldestWaiting))
    BY <1>1, OtherStepsPromoteNobody, WakeOutcome, Zenon
  <2>3. ~Keeps(row[u], row'[u])
    BY <2>1 DEF Keeps
  <2>4. Promotes(OldestWaiting) /\ u = OldestWaiting
    BY <2>1, <2>2, <2>3, ZenonT(30) DEF Passes, StartsCleanup, Promotes
  <2>5. PICK k \in DOMAIN fifo :
               /\ OldestWaiting = fifo[k]
               /\ \A m \in DOMAIN fifo : m < k => fifo[m] \notin Waiting
    BY <1>1, OldestIsFirst, SMTT(30) DEF IInv, TypeOK
  <2>6. k = j
    BY <1>1, <2>4, <2>5, Zenon DEF IInv, FifoInv
  <2> QED
    BY <2>5, <2>6
<1>2. PromotionInOrder <=> [][InOrder]_vars
  BY DEF PromotionInOrder
<1> QED
  BY <1>1, <1>2, FileBooksInvariance, PTL DEF Spec
=============================================================================
