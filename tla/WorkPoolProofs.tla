--------------------------- MODULE WorkPoolProofs ---------------------------
(***************************************************************************)
(* Proofs about WorkPool, for any number of callers, fleet slots, kinds of *)
(* work items and any bound on calls, failures and completions.            *)
(*                                                                         *)
(* The argument has three layers.  Shape: a slot's generation makes every  *)
(* worker identity new, so a start finds no earlier worker under its name. *)
(* Room: a call reserves at most one slot and one packet, so identities    *)
(* and packet numbers never repeat.  Books: a packet is at one place only, *)
(* with a submitter, on the port or with a worker, and the counters, the   *)
(* heap and the open tokens follow it from place to place.                 *)
(***************************************************************************)
EXTENDS WorkPool, SequenceTheorems, FiniteSetTheorems, TLAPS

StartPcs == {"start", "resume", "latch", "started"}
SubmitPcs == {"ensure", "submit", "cleanup"} \cup StartPcs
EarlyPcs == {"init", "initializing", "reserve"}
PendingPcs == EarlyPcs \cup {"ensure"}
WorkPcs == {"dequeued", "callback", "account"}

CallType ==
    [pc : {"idle", "commit"} \cup EarlyPcs \cup SubmitPcs,
     op : {"none", "item", "bind"}, pkt : Packets \cup {NoPacket},
     id : Ids \cup {NoId}, ok : BOOLEAN]
WorkerType ==
    [pc : {"none", "suspended", "entered", "named", "loop", "idle", "stopping",
           "cleared", "failed", "exiting"} \cup WorkPcs,
     pkt : Packets \cup {NoPacket, IoPacket}, imp : BOOLEAN, tries : Nat]
SlotType == [state : {"Free", "Starting", "Running", "Stopping"}, gen : Nat]
UsedType == [calls : Nat, items : Nat, io : Nat, faults : Nat, errors : Nat]

(* What a call has in hand at each point of its way.                       *)
Started(r) == r.pc \in StartPcs
Owns(r) == r.op = "item" /\ r.pc \in SubmitPcs
CallOK(r) ==
    /\ r \in CallType
    /\ r.pc \in {"reserve", "commit", "cleanup"} => r.op = "item"
    /\ r.pc # "idle" => r.op \in {"item", "bind"}
    /\ Owns(r) \/ r.pc = "commit" => r.pkt \in Packets
    /\ Started(r) => r.id \in Ids

(* What a worker has in hand: a packet, from the port to the accounting.   *)
Holds(w) == w.pc \in WorkPcs /\ w.pkt \in Packets
WorkerOK(w) ==
    /\ w \in WorkerType
    /\ w.pc \in WorkPcs => w.pkt # NoPacket
    /\ w.pc = "account" => w.pkt \in Packets

(* The worker a start is about has not run before the start lets it.       *)
StartOK(r, th, sl) ==
    Started(r) => /\ r.id[2] <= sl[r.id[1]].gen
                  /\ r.pc = "start" => th[r.id].pc = "none"
                  /\ r.pc = "resume" => th[r.id].pc = "suspended"

Shape(c, th, sl) ==
    /\ c \in [Threads -> CallType] /\ \A t \in Threads : CallOK(c[t])
    /\ th \in [Ids -> WorkerType] /\ \A i \in Ids : WorkerOK(th[i])
    /\ sl \in [Slots -> SlotType]
    /\ \A t \in Threads : StartOK(c[t], th, sl)
    /\ \A t, u \in Threads :
         Started(c[t]) /\ Started(c[u]) /\ c[t].id = c[u].id => t = u
    /\ \A i \in Ids : i[2] > sl[i[1]].gen => th[i].pc = "none"

(* A call that has yet to take its slot, or its packet, is room for one.   *)
Pending(c) == {t \in Threads : c[t].pc \in PendingPcs}
Early(c) == {t \in Threads : c[t].pc \in EarlyPcs}
Room(c, sl, us) ==
    /\ us \in UsedType /\ us.calls <= MaxCalls
    /\ IsFiniteSet(Pending(c))
    /\ IsFiniteSet(Early(c))
    /\ \A s \in Slots : sl[s].gen + Cardinality(Pending(c)) <= us.calls
    /\ us.items + Cardinality(Early(c)) <= us.calls

(* The three places of a work item.                                        *)
Owned(c) == {c[t].pkt : t \in {t \in Threads : Owns(c[t])}}
Queue(q) == {q[n] : n \in 1..Len(q)} \ {IoPacket}
Working(th) == {th[i].pkt : i \in {i \in Ids : Holds(th[i])}}
Unread(th) == {th[i].pkt : i \in {i \in Ids : Holds(th[i]) /\ th[i].pc = "dequeued"}}

OwnedOnce(c) ==
    \A t, u \in Threads : Owns(c[t]) /\ Owns(c[u]) /\ c[t].pkt = c[u].pkt => t = u
QueuedOnce(q) ==
    /\ q \in Seq(Packets \cup {IoPacket})
    /\ \A m, n \in 1..Len(q) : q[m] = q[n] /\ q[m] # IoPacket => m = n
WorkingOnce(th) ==
    \A i, j \in Ids : Holds(th[i]) /\ Holds(th[j]) /\ th[i].pkt = th[j].pkt => i = j

OnePlace(c, q, th) ==
    /\ OwnedOnce(c) /\ QueuedOnce(q) /\ WorkingOnce(th)
    /\ Owned(c) \cap Queue(q) = {}
    /\ Owned(c) \cap Working(th) = {}
    /\ Queue(q) \cap Working(th) = {}

(* The counters count a set of packets.                                    *)
Lane(S, l) == {p \in S : p.kind.lane = l}
LongLane(S, l) == {p \in S : p.kind.lane = l /\ p.kind.long}
Counted(S, req, lng) ==
    /\ S \subseteq Packets /\ IsFiniteSet(S)
    /\ req \in [Lanes -> 0..CounterMax] /\ lng \in [Lanes -> 0..CounterMax]
    /\ \A l \in Lanes : /\ req[l] = Cardinality(Lane(S, l))
                        /\ lng[l] = Cardinality(LongLane(S, l))

Items == Owned(call) \cup Queue(port) \cup Working(thr)
Books ==
    /\ OnePlace(call, port, thr)
    /\ \A p \in Items : p.id <= used.items
    /\ Counted(Items, requests, longs)

(* A packet is on the heap, and its token open, from the reservation to    *)
(* the start of its callback or to the cleanup of its failed submission:   *)
(* nothing is freed twice, used after it was freed, or left behind.        *)
MemoryIsExact ==
    /\ heap = Owned(call) \cup Queue(port) \cup Unread(thr)
    /\ tokens = {p \in heap : p.kind.token}

Flags ==
    /\ pool \in {"uninitialized", "initializing", "ready"}
    /\ floor \in BOOLEAN /\ bound \in BOOLEAN
    /\ tid \in [Slots -> Ids \cup {NoId}]

IInv ==
    /\ Flags
    /\ Shape(call, thr, slot)
    /\ Room(call, slot, used)
    /\ StartParameterAlive
    /\ Books
    /\ MemoryIsExact

-----------------------------------------------------------------------------
(***************************************************************************)
(* The shape of the fleet.                                                 *)
(***************************************************************************)

(* A packet is none of the two that stand for no work item.                *)
LEMMA PacketFacts ==
    /\ NoPacket \notin Packets
    /\ IoPacket \notin Packets
    /\ NoPacket # IoPacket
    /\ \A p \in Packets : /\ p.id \in Nat
                          /\ p.kind.lane \in Lanes
                          /\ p.kind.long \in BOOLEAN
                          /\ p.kind.persistent \in BOOLEAN
                          /\ p.kind.token \in BOOLEAN
  BY BoundsAssumption, KindsAssumption DEF NoPacket, IoPacket, Packets

(* A call moves on without starting a worker other than the one it had.    *)
LEMMA ShapeCall ==
    ASSUME NEW c, NEW th, NEW sl, Shape(c, th, sl),
           NEW t \in Threads, NEW r, CallOK(r), StartOK(r, th, sl),
           Started(r) => Started(c[t]) /\ r.id = c[t].id
    PROVE  Shape([c EXCEPT ![t] = r], th, sl)
  <1> DEFINE d == [c EXCEPT ![t] = r]
  <1>1. d \in [Threads -> CallType] /\ \A u \in Threads : d[u] = IF u = t THEN r ELSE c[u]
    BY DEF Shape, CallOK
  <1> HIDE DEF d
  <1>2. \A u \in Threads : CallOK(d[u]) /\ StartOK(d[u], th, sl)
    BY <1>1 DEF Shape
  <1>3. \A u, v \in Threads :
          Started(d[u]) /\ Started(d[v]) /\ d[u].id = d[v].id => u = v
    BY <1>1 DEF Shape
  <1> QED
    BY <1>1, <1>2, <1>3 DEF Shape, d

(* A worker that runs moves on.                                            *)
LEMMA ShapeWorker ==
    ASSUME NEW c, NEW th, NEW sl, Shape(c, th, sl),
           NEW i \in Ids, NEW w, WorkerOK(w),
           th[i].pc \notin {"none", "suspended"}
    PROVE  Shape(c, [th EXCEPT ![i] = w], sl)
  <1> DEFINE h == [th EXCEPT ![i] = w]
  <1>1. h \in [Ids -> WorkerType] /\ \A j \in Ids : h[j] = IF j = i THEN w ELSE th[j]
    BY DEF Shape, WorkerOK
  <1> HIDE DEF h
  <1>2. \A j \in Ids : WorkerOK(h[j])
    BY <1>1 DEF Shape
  <1>3. \A t \in Threads : StartOK(c[t], h, sl)
    <2> TAKE t \in Threads
    <2>1. StartOK(c[t], th, sl) /\ CallOK(c[t])
      BY DEF Shape
    <2> QED
      BY <1>1, <2>1 DEF StartOK, CallOK
  <1>4. \A j \in Ids : j[2] > sl[j[1]].gen => h[j].pc = "none"
    BY <1>1 DEF Shape
  <1> QED
    BY <1>1, <1>2, <1>3, <1>4, Zenon DEF Shape, h

(* A slot changes state and keeps its generation.                          *)
LEMMA ShapeSlot ==
    ASSUME NEW c, NEW th, NEW sl, Shape(c, th, sl),
           NEW m \in [Slots -> SlotType], \A s \in Slots : m[s].gen = sl[s].gen
    PROVE  Shape(c, th, m)
  <1>1. \A i \in Ids : i[1] \in Slots
    BY DEF Ids
  <1>2. \A t \in Threads : StartOK(c[t], th, m)
    <2> TAKE t \in Threads
    <2>1. StartOK(c[t], th, sl) /\ CallOK(c[t])
      BY DEF Shape
    <2> QED
      BY <1>1, <2>1 DEF StartOK, CallOK
  <1>3. \A i \in Ids : i[2] > m[i[1]].gen => th[i].pc = "none"
    BY <1>1 DEF Shape
  <1> QED
    BY <1>2, <1>3 DEF Shape

(* A slot is reserved under its next generation: the worker is new.        *)
LEMMA ShapeReserve ==
    ASSUME NEW c, NEW th, NEW sl, Shape(c, th, sl),
           NEW t \in Threads, c[t].pc = "ensure",
           NEW s \in Slots, sl[s].gen + 1 <= MaxCalls,
           NEW r, CallOK(r), r.pc = "start", r.id = <<s, sl[s].gen + 1>>,
           NEW m, m = [sl EXCEPT ![s] = [state |-> "Starting", gen |-> @.gen + 1]]
    PROVE  Shape([c EXCEPT ![t] = r], th, m)
  <1> DEFINE d == [c EXCEPT ![t] = r]
  <1>1. d \in [Threads -> CallType] /\ \A u \in Threads : d[u] = IF u = t THEN r ELSE c[u]
    BY DEF Shape, CallOK
  <1>2. /\ sl \in [Slots -> SlotType] /\ m \in [Slots -> SlotType]
        /\ m[s].gen = sl[s].gen + 1 /\ sl[s].gen \in Nat
        /\ \A x \in Slots : x # s => m[x] = sl[x]
        /\ \A x \in Slots : m[x].gen \in Nat /\ sl[x].gen \in Nat
    BY DEF Shape, SlotType
  <1> HIDE DEF d
  <1>3. /\ r.id \in Ids /\ r.id[1] = s /\ r.id[2] = sl[s].gen + 1
        /\ \A i \in Ids : i[1] \in Slots /\ i[2] \in Nat /\ i = <<i[1], i[2]>>
    BY <1>2, BoundsAssumption DEF Ids
  <1>4. \A x \in Slots : sl[x].gen <= m[x].gen
    BY <1>2
  <1>5. \A u \in Threads : CallOK(d[u])
    BY <1>1 DEF Shape
  <1>6. \A u \in Threads : StartOK(d[u], th, m)
    <2> TAKE u \in Threads
    <2>1. CASE u = t
      <3>1. th[r.id].pc = "none"
        BY <1>2, <1>3 DEF Shape
      <3> QED
        BY <1>1, <1>2, <1>3, <2>1, <3>1 DEF StartOK
    <2>2. CASE u # t
      <3>1. StartOK(c[u], th, sl) /\ CallOK(c[u]) /\ d[u] = c[u]
        BY <1>1, <2>2 DEF Shape
      <3>2. Started(c[u]) => c[u].id[1] \in Slots /\ c[u].id[2] \in Nat
        BY <1>3, <3>1 DEF CallOK
      <3> QED
        BY <1>2, <1>4, <3>1, <3>2 DEF StartOK
    <2> QED
      BY <2>1, <2>2
  <1>7. \A u \in Threads : u # t /\ Started(c[u]) => c[u].id # r.id
    <2> SUFFICES ASSUME NEW u \in Threads, Started(c[u]), c[u].id = r.id
                 PROVE  FALSE
      OBVIOUS
    <2>1. StartOK(c[u], th, sl)
      BY DEF Shape
    <2> QED
      BY <1>2, <1>3, <2>1 DEF StartOK
  <1>8. \A u, v \in Threads :
          Started(d[u]) /\ Started(d[v]) /\ d[u].id = d[v].id => u = v
    BY <1>1, <1>7 DEF Shape
  <1>9. \A i \in Ids : i[2] > m[i[1]].gen => th[i].pc = "none"
    BY <1>2, <1>3, <1>4 DEF Shape
  <1> QED
    BY <1>1, <1>2, <1>5, <1>6, <1>8, <1>9, Zenon DEF Shape, d

(* The worker of a start is created, or let run, and the start goes on.    *)
LEMMA ShapeStart ==
    ASSUME NEW c, NEW th, NEW sl, Shape(c, th, sl),
           NEW t \in Threads, Started(c[t]), NEW i, i = c[t].id,
           NEW r, CallOK(r), Started(r), r.id = i,
           NEW w, WorkerOK(w),
           r.pc = "start" => w.pc = "none",
           r.pc = "resume" => w.pc = "suspended"
    PROVE  Shape([c EXCEPT ![t] = r], [th EXCEPT ![i] = w], sl)
  <1> DEFINE d == [c EXCEPT ![t] = r]
             h == [th EXCEPT ![i] = w]
  <1>1. d \in [Threads -> CallType] /\ \A u \in Threads : d[u] = IF u = t THEN r ELSE c[u]
    BY DEF Shape, CallOK
  <1>2. i \in Ids /\ i[2] <= sl[i[1]].gen /\ i[2] \in Nat /\ sl[i[1]].gen \in Nat
    <2>1. i \in Ids /\ i[2] <= sl[i[1]].gen
      BY DEF Shape, CallOK, StartOK
    <2> QED
      BY <2>1 DEF Shape, SlotType, Ids
  <1>3. h \in [Ids -> WorkerType] /\ \A j \in Ids : h[j] = IF j = i THEN w ELSE th[j]
    BY Zenon DEF Shape, WorkerOK
  <1> HIDE DEF d, h
  <1>4. \A u \in Threads : CallOK(d[u])
    BY <1>1 DEF Shape
  <1>5. \A j \in Ids : WorkerOK(h[j])
    BY <1>3 DEF Shape
  <1>6. \A u \in Threads : StartOK(d[u], h, sl)
    <2> TAKE u \in Threads
    <2>1. CASE u = t
      BY <1>1, <1>2, <1>3, <2>1 DEF StartOK
    <2>2. CASE u # t
      <3>1. StartOK(c[u], th, sl) /\ CallOK(c[u]) /\ d[u] = c[u]
        BY <1>1, <2>2 DEF Shape
      <3>2. Started(c[u]) => c[u].id \in Ids /\ c[u].id # i
        BY <2>2, <3>1 DEF Shape, CallOK
      <3> QED
        BY <1>3, <3>1, <3>2 DEF StartOK
    <2> QED
      BY <2>1, <2>2
  <1>7. \A u, v \in Threads :
          Started(d[u]) /\ Started(d[v]) /\ d[u].id = d[v].id => u = v
    BY <1>1 DEF Shape
  <1>8. \A j \in Ids : j[2] > sl[j[1]].gen => h[j].pc = "none"
    BY <1>2, <1>3 DEF Shape
  <1> QED
    BY <1>1, <1>3, <1>4, <1>5, <1>6, <1>7, <1>8, Zenon DEF Shape, d, h

-----------------------------------------------------------------------------
(***************************************************************************)
(* Room for identities and packet numbers.                                 *)
(***************************************************************************)

(* A call moves on without becoming pending or early again.                *)
LEMMA RoomCall ==
    ASSUME NEW c, c \in [Threads -> CallType], NEW sl \in [Slots -> SlotType],
           NEW us, Room(c, sl, us),
           NEW t \in Threads, NEW r \in CallType,
           r.pc \in PendingPcs => c[t].pc \in PendingPcs,
           r.pc \in EarlyPcs => c[t].pc \in EarlyPcs,
           NEW m \in [Slots -> SlotType], \A s \in Slots : m[s].gen = sl[s].gen,
           NEW vs \in UsedType, vs.calls = us.calls, vs.items = us.items
    PROVE  Room([c EXCEPT ![t] = r], m, vs)
  <1> DEFINE d == [c EXCEPT ![t] = r]
  <1>1. \A u \in Threads : d[u] = IF u = t THEN r ELSE c[u]
    OBVIOUS
  <1> HIDE DEF d
  <1>2. Pending(d) \subseteq Pending(c) /\ Early(d) \subseteq Early(c)
    BY <1>1 DEF Pending, Early
  <1>3. /\ IsFiniteSet(Pending(d)) /\ Cardinality(Pending(d)) <= Cardinality(Pending(c))
        /\ IsFiniteSet(Early(d)) /\ Cardinality(Early(d)) <= Cardinality(Early(c))
    BY <1>2, FS_Subset DEF Room
  <1>4. /\ Cardinality(Pending(d)) \in Nat /\ Cardinality(Pending(c)) \in Nat
        /\ Cardinality(Early(d)) \in Nat /\ Cardinality(Early(c)) \in Nat
    BY <1>3, FS_CardinalityType DEF Room
  <1>5. \A s \in Slots : m[s].gen \in Nat
    BY DEF SlotType
  <1>6. us.calls \in Nat /\ us.items \in Nat
    BY DEF Room, UsedType
  <1>7. Room(d, m, vs)
    BY <1>3, <1>4, <1>5, <1>6 DEF Room
  <1> QED
    BY <1>7 DEF d

(* A new call is counted: there is room for its slot and its packet.       *)
LEMMA RoomBegin ==
    ASSUME NEW c, c \in [Threads -> CallType], NEW sl \in [Slots -> SlotType],
           NEW us, Room(c, sl, us), us.calls < MaxCalls,
           NEW t \in Threads, NEW r \in CallType,
           c[t].pc = "idle", r.pc = "init",
           NEW vs, vs = [us EXCEPT !["calls"] = @ + 1]
    PROVE  Room([c EXCEPT ![t] = r], sl, vs)
  <1> DEFINE d == [c EXCEPT ![t] = r]
  <1>1. \A u \in Threads : d[u] = IF u = t THEN r ELSE c[u]
    OBVIOUS
  <1> HIDE DEF d
  <1>2. /\ Pending(d) = Pending(c) \cup {t} /\ t \notin Pending(c)
        /\ Early(d) = Early(c) \cup {t} /\ t \notin Early(c)
    BY <1>1 DEF Pending, Early, PendingPcs, EarlyPcs
  <1>3. /\ IsFiniteSet(Pending(d)) /\ Cardinality(Pending(d)) = Cardinality(Pending(c)) + 1
        /\ IsFiniteSet(Early(d)) /\ Cardinality(Early(d)) = Cardinality(Early(c)) + 1
    BY <1>2, FS_AddElement DEF Room
  <1>4. Cardinality(Pending(c)) \in Nat /\ Cardinality(Early(c)) \in Nat
    BY FS_CardinalityType DEF Room
  <1>5. \A s \in Slots : sl[s].gen \in Nat
    BY DEF SlotType
  <1>6. /\ us.calls \in Nat /\ us.items \in Nat
        /\ vs \in UsedType /\ vs.calls = us.calls + 1 /\ vs.items = us.items
    BY DEF Room, UsedType
  <1>7. Room(d, sl, vs)
    BY <1>3, <1>4, <1>5, <1>6, BoundsAssumption DEF Room
  <1> QED
    BY <1>7 DEF d

(* A call that is to take a packet finds a number for it.                  *)
LEMMA RoomForPacket ==
    ASSUME NEW c, c \in [Threads -> CallType], NEW sl, NEW us, Room(c, sl, us),
           NEW t \in Threads, c[t].pc = "reserve"
    PROVE  us.items \in Nat /\ us.items + 1 <= MaxCalls
  <1>1. t \in Early(c)
    BY DEF Early, EarlyPcs
  <1>2. Cardinality(Early(c)) \in Nat /\ Cardinality(Early(c)) # 0
    BY <1>1, FS_CardinalityType, FS_EmptySet DEF Room
  <1>3. us.calls \in Nat /\ us.items \in Nat
    BY DEF Room, UsedType
  <1> QED
    BY <1>2, <1>3, BoundsAssumption DEF Room

(* A call takes its packet.                                                *)
LEMMA RoomReserve ==
    ASSUME NEW c, c \in [Threads -> CallType], NEW sl \in [Slots -> SlotType],
           NEW us, Room(c, sl, us),
           NEW t \in Threads, NEW r \in CallType,
           c[t].pc = "reserve", r.pc = "ensure",
           NEW vs, vs = [us EXCEPT !["items"] = @ + 1]
    PROVE  Room([c EXCEPT ![t] = r], sl, vs)
  <1> DEFINE d == [c EXCEPT ![t] = r]
  <1>1. \A u \in Threads : d[u] = IF u = t THEN r ELSE c[u]
    OBVIOUS
  <1> HIDE DEF d
  <1>2. Pending(d) = Pending(c) /\ Early(d) = Early(c) \ {t} /\ t \in Early(c)
    BY <1>1 DEF Pending, Early, PendingPcs, EarlyPcs
  <1>3. IsFiniteSet(Early(d)) /\ Cardinality(Early(d)) = Cardinality(Early(c)) - 1
    BY <1>2, FS_RemoveElement DEF Room
  <1>4. Cardinality(Early(c)) \in Nat /\ Cardinality(Early(d)) \in Nat
    BY <1>3, FS_CardinalityType DEF Room
  <1>5. /\ us.calls \in Nat /\ us.items \in Nat
        /\ vs \in UsedType /\ vs.calls = us.calls /\ vs.items = us.items + 1
    BY DEF Room, UsedType
  <1>6. Room(d, sl, vs)
    BY <1>2, <1>3, <1>4, <1>5 DEF Room
  <1> QED
    BY <1>6 DEF d

(* A call takes its slot.                                                  *)
LEMMA RoomStart ==
    ASSUME NEW c, c \in [Threads -> CallType], NEW sl \in [Slots -> SlotType],
           NEW us, Room(c, sl, us),
           NEW t \in Threads, NEW r \in CallType,
           c[t].pc = "ensure", r.pc = "start", NEW s \in Slots,
           NEW m, m = [sl EXCEPT ![s] = [state |-> "Starting", gen |-> @.gen + 1]]
    PROVE  Room([c EXCEPT ![t] = r], m, us) /\ sl[s].gen + 1 <= MaxCalls
  <1> DEFINE d == [c EXCEPT ![t] = r]
  <1>1. \A u \in Threads : d[u] = IF u = t THEN r ELSE c[u]
    OBVIOUS
  <1> HIDE DEF d
  <1>2. Early(d) = Early(c) /\ Pending(d) = Pending(c) \ {t} /\ t \in Pending(c)
    BY <1>1 DEF Pending, Early, PendingPcs, EarlyPcs
  <1>3. IsFiniteSet(Pending(d)) /\ Cardinality(Pending(d)) = Cardinality(Pending(c)) - 1
    BY <1>2, FS_RemoveElement DEF Room
  <1>4. Cardinality(Pending(c)) \in Nat /\ Cardinality(Pending(d)) \in Nat
    BY <1>3, FS_CardinalityType DEF Room
  <1>5. \A x \in Slots : /\ sl[x].gen \in Nat
                         /\ m[x].gen = IF x = s THEN sl[x].gen + 1 ELSE sl[x].gen
    BY DEF SlotType
  <1>6. us.calls \in Nat
    BY DEF Room, UsedType
  <1>7. \A x \in Slots : m[x].gen + Cardinality(Pending(d)) <= us.calls
    BY <1>3, <1>4, <1>5, <1>6 DEF Room
  <1>8. sl[s].gen + 1 <= MaxCalls
    BY <1>3, <1>4, <1>5, <1>6, BoundsAssumption DEF Room
  <1>9. Room(d, m, us)
    BY <1>2, <1>3, <1>7, Zenon DEF Room
  <1> QED
    BY <1>8, <1>9 DEF d

-----------------------------------------------------------------------------
(***************************************************************************)
(* The places of work items.                                               *)
(***************************************************************************)

(* A call moves on with what it owns.                                      *)
LEMMA OwnedKept ==
    ASSUME NEW c, c \in [Threads -> CallType], OwnedOnce(c),
           NEW t \in Threads, NEW r,
           Owns(r) <=> Owns(c[t]), Owns(r) => r.pkt = c[t].pkt
    PROVE  Owned([c EXCEPT ![t] = r]) = Owned(c) /\ OwnedOnce([c EXCEPT ![t] = r])
  <1> DEFINE d == [c EXCEPT ![t] = r]
  <1>1. \A u \in Threads : d[u] = IF u = t THEN r ELSE c[u]
    OBVIOUS
  <1> HIDE DEF d
  <1>2. \A u \in Threads : /\ Owns(d[u]) <=> Owns(c[u])
                           /\ Owns(d[u]) => d[u].pkt = c[u].pkt
    BY <1>1
  <1>3. Owned(d) = Owned(c)
    BY <1>2 DEF Owned
  <1>4. OwnedOnce(d)
    BY <1>2 DEF OwnedOnce
  <1> QED
    BY <1>3, <1>4 DEF d

(* A call parts with its packet.                                           *)
LEMMA OwnedGiven ==
    ASSUME NEW c, c \in [Threads -> CallType], OwnedOnce(c),
           NEW t \in Threads, NEW r, Owns(c[t]), ~Owns(r)
    PROVE  /\ Owned([c EXCEPT ![t] = r]) = Owned(c) \ {c[t].pkt}
           /\ c[t].pkt \in Owned(c)
           /\ OwnedOnce([c EXCEPT ![t] = r])
  <1> DEFINE d == [c EXCEPT ![t] = r]
  <1>1. \A u \in Threads : d[u] = IF u = t THEN r ELSE c[u]
    OBVIOUS
  <1> HIDE DEF d
  <1>2. \A u \in Threads : /\ Owns(d[u]) <=> u # t /\ Owns(c[u])
                           /\ Owns(d[u]) => d[u].pkt = c[u].pkt
    BY <1>1
  <1>3. Owned(d) = Owned(c) \ {c[t].pkt}
    BY <1>2 DEF Owned, OwnedOnce
  <1>4. OwnedOnce(d) /\ c[t].pkt \in Owned(c)
    BY <1>2 DEF OwnedOnce, Owned
  <1> QED
    BY <1>3, <1>4, Zenon DEF d

(* A call takes a packet nobody submits.                                   *)
LEMMA OwnedTaken ==
    ASSUME NEW c, c \in [Threads -> CallType], OwnedOnce(c),
           NEW t \in Threads, NEW r, ~Owns(c[t]), Owns(r), r.pkt \notin Owned(c)
    PROVE  /\ Owned([c EXCEPT ![t] = r]) = Owned(c) \cup {r.pkt}
           /\ OwnedOnce([c EXCEPT ![t] = r])
  <1> DEFINE d == [c EXCEPT ![t] = r]
  <1>1. \A u \in Threads : d[u] = IF u = t THEN r ELSE c[u]
    OBVIOUS
  <1> HIDE DEF d
  <1>2. Owned(d) = Owned(c) \cup {r.pkt}
    BY <1>1 DEF Owned
  <1>3. OwnedOnce(d)
    BY <1>1 DEF OwnedOnce, Owned
  <1> QED
    BY <1>2, <1>3, Zenon DEF d

(* A worker moves on with the packet it holds; unless this is the start of *)
(* the callback, what is unread stays.                                     *)
LEMMA WorkingKept ==
    ASSUME NEW th, th \in [Ids -> WorkerType], WorkingOnce(th),
           NEW i \in Ids, NEW w,
           Holds(w) <=> Holds(th[i]), Holds(w) => w.pkt = th[i].pkt
    PROVE  LET h == [th EXCEPT ![i] = w] IN
           /\ Working(h) = Working(th)
           /\ WorkingOnce(h)
           /\ (w.pc = "dequeued" <=> th[i].pc = "dequeued") => Unread(h) = Unread(th)
           /\ th[i].pc = "dequeued" /\ w.pc # "dequeued"
                => Unread(h) = Unread(th) \ {th[i].pkt}
  <1> DEFINE h == [th EXCEPT ![i] = w]
  <1>1. \A j \in Ids : h[j] = IF j = i THEN w ELSE th[j]
    OBVIOUS
  <1> HIDE DEF h
  <1>2. \A j \in Ids : /\ Holds(h[j]) <=> Holds(th[j])
                       /\ Holds(h[j]) => h[j].pkt = th[j].pkt
    BY <1>1
  <1>3. Working(h) = Working(th) /\ WorkingOnce(h)
    BY <1>2 DEF Working, WorkingOnce
  <1>4. ASSUME w.pc = "dequeued" <=> th[i].pc = "dequeued"
        PROVE  Unread(h) = Unread(th)
    <2>1. \A j \in Ids : h[j].pc = "dequeued" <=> th[j].pc = "dequeued"
      BY <1>1, <1>4
    <2> QED
      BY <1>2, <2>1 DEF Unread
  <1>5. ASSUME th[i].pc = "dequeued", w.pc # "dequeued"
        PROVE  Unread(h) = Unread(th) \ {th[i].pkt}
    <2>1. \A j \in Ids : h[j].pc = "dequeued" <=> j # i /\ th[j].pc = "dequeued"
      BY <1>1, <1>5
    <2>2. CASE Holds(th[i])
      BY <1>2, <2>1, <2>2 DEF Unread, WorkingOnce
    <2>3. CASE ~Holds(th[i])
      <3>1. Unread(h) = Unread(th)
        BY <1>2, <2>1, <2>3 DEF Unread
      <3>2. th[i].pkt \notin Packets /\ Unread(th) \subseteq Packets
        BY <1>5, <2>3 DEF Holds, Unread, WorkPcs
      <3> QED
        BY <3>1, <3>2
    <2> QED
      BY <2>2, <2>3
  <1> QED
    BY <1>3, <1>4, <1>5, Zenon DEF h

(* A worker that has no packet moves on without one.                       *)
LEMMA WorkingNone ==
    ASSUME NEW th, th \in [Ids -> WorkerType], WorkingOnce(th),
           NEW i \in Ids, NEW w, ~Holds(th[i]), ~Holds(w),
           NEW h, h = [th EXCEPT ![i] = w]
    PROVE  Working(h) = Working(th) /\ WorkingOnce(h) /\ Unread(h) = Unread(th)
  <1>1. \A j \in Ids : h[j] = IF j = i THEN w ELSE th[j]
    OBVIOUS
  <1>2. \A j \in Ids : /\ Holds(h[j]) <=> Holds(th[j])
                       /\ Holds(h[j]) => h[j] = th[j]
    BY <1>1
  <1>3. Working(h) = Working(th) /\ WorkingOnce(h)
    BY <1>2 DEF Working, WorkingOnce
  <1>4. Unread(h) = Unread(th)
    BY <1>2 DEF Unread
  <1> QED
    BY <1>3, <1>4

(* A worker takes a packet nobody works on.                                *)
LEMMA WorkingTaken ==
    ASSUME NEW th, th \in [Ids -> WorkerType], WorkingOnce(th),
           NEW i \in Ids, NEW w, ~Holds(th[i]),
           Holds(w), w.pc = "dequeued", w.pkt \notin Working(th)
    PROVE  LET h == [th EXCEPT ![i] = w] IN
           /\ Working(h) = Working(th) \cup {w.pkt}
           /\ Unread(h) = Unread(th) \cup {w.pkt}
           /\ WorkingOnce(h)
  <1> DEFINE h == [th EXCEPT ![i] = w]
  <1>1. \A j \in Ids : h[j] = IF j = i THEN w ELSE th[j]
    OBVIOUS
  <1> HIDE DEF h
  <1>2. Working(h) = Working(th) \cup {w.pkt}
    BY <1>1 DEF Working
  <1>3. Unread(h) = Unread(th) \cup {w.pkt}
    BY <1>1 DEF Unread
  <1>4. WorkingOnce(h)
    BY <1>1 DEF WorkingOnce, Working
  <1> QED
    BY <1>2, <1>3, <1>4, Zenon DEF h

(* A worker is done with its packet, which it had read.                    *)
LEMMA WorkingGiven ==
    ASSUME NEW th, th \in [Ids -> WorkerType], WorkingOnce(th),
           NEW i \in Ids, NEW w, Holds(th[i]), ~Holds(w), th[i].pc # "dequeued"
    PROVE  LET h == [th EXCEPT ![i] = w] IN
           /\ Working(h) = Working(th) \ {th[i].pkt}
           /\ th[i].pkt \in Working(th)
           /\ Unread(h) = Unread(th)
           /\ WorkingOnce(h)
  <1> DEFINE h == [th EXCEPT ![i] = w]
  <1>1. \A j \in Ids : h[j] = IF j = i THEN w ELSE th[j]
    OBVIOUS
  <1> HIDE DEF h
  <1>2. \A j \in Ids : /\ Holds(h[j]) <=> j # i /\ Holds(th[j])
                       /\ Holds(h[j]) => h[j] = th[j]
    BY <1>1
  <1>3. Working(h) = Working(th) \ {th[i].pkt} /\ th[i].pkt \in Working(th)
    BY <1>2 DEF Working, WorkingOnce
  <1>4. Unread(h) = Unread(th)
    BY <1>2 DEF Unread
  <1>5. WorkingOnce(h)
    BY <1>2 DEF WorkingOnce
  <1> QED
    BY <1>3, <1>4, <1>5, Zenon DEF h

(* The port takes a packet that is not on it, or a file's completion.      *)
LEMMA QueueAppend ==
    ASSUME NEW q, QueuedOnce(q), NEW p \in Packets \cup {IoPacket}, p \notin Queue(q)
    PROVE  /\ QueuedOnce(Append(q, p))
           /\ Queue(Append(q, p)) = (Queue(q) \cup {p}) \ {IoPacket}
  <1> DEFINE a == Append(q, p)
  <1>1. /\ q \in Seq(Packets \cup {IoPacket}) /\ Len(q) \in Nat
        /\ a \in Seq(Packets \cup {IoPacket}) /\ Len(a) = Len(q) + 1
        /\ \A n \in 1..Len(q) : a[n] = q[n]
        /\ a[Len(q) + 1] = p
    BY AppendProperties, LenProperties DEF QueuedOnce
  <1> HIDE DEF a
  <1>2. \A n \in 1..Len(a) : n \in 1..Len(q) \/ n = Len(q) + 1
    BY <1>1
  <1>3. \A n \in 1..Len(q) : n \in 1..Len(a)
    BY <1>1
  <1>4. Len(q) + 1 \in 1..Len(a)
    BY <1>1
  <1>5. Queue(a) = (Queue(q) \cup {p}) \ {IoPacket}
    BY <1>1, <1>2, <1>3, <1>4 DEF Queue
  <1>6. \A m, n \in 1..Len(a) : a[m] = a[n] /\ a[m] # IoPacket => m = n
    BY <1>1, <1>2 DEF QueuedOnce, Queue
  <1> QED
    BY <1>1, <1>5, <1>6 DEF QueuedOnce, a

(* The oldest packet leaves the port.                                      *)
LEMMA QueueTail ==
    ASSUME NEW q, QueuedOnce(q), q # <<>>
    PROVE  /\ QueuedOnce(Tail(q))
           /\ Head(q) \in Packets \cup {IoPacket}
           /\ Queue(Tail(q)) = Queue(q) \ {Head(q)}
           /\ Head(q) # IoPacket => Head(q) \in Queue(q)
  <1> DEFINE a == Tail(q)
  <1>1. /\ q \in Seq(Packets \cup {IoPacket}) /\ Len(q) \in Nat \ {0}
        /\ a \in Seq(Packets \cup {IoPacket}) /\ Len(a) = Len(q) - 1
        /\ \A n \in 1..Len(a) : a[n] = q[n + 1]
        /\ Head(q) = q[1]
    BY HeadTailProperties, EmptySeq, LenProperties DEF QueuedOnce
  <1> HIDE DEF a
  <1>2. \A n \in 1..Len(a) : n + 1 \in 1..Len(q) /\ n + 1 # 1
    BY <1>1
  <1>3. \A n \in 1..Len(q) : n # 1 => n - 1 \in 1..Len(a) /\ a[n - 1] = q[n]
    BY <1>1
  <1>4. 1 \in 1..Len(q)
    BY <1>1
  <1>5. Head(q) \in Packets \cup {IoPacket}
    BY <1>1, <1>4, ElementOfSeq
  <1>6. Queue(a) = Queue(q) \ {Head(q)}
    <2>1. \A x \in Queue(a) : x \in Queue(q) /\ x # Head(q)
      BY <1>1, <1>2, <1>4 DEF Queue, QueuedOnce
    <2>2. \A x \in Queue(q) : x # Head(q) => x \in Queue(a)
      BY <1>1, <1>3 DEF Queue
    <2> QED
      BY <2>1, <2>2
  <1>7. \A m, n \in 1..Len(a) : a[m] = a[n] /\ a[m] # IoPacket => m = n
    <2> SUFFICES ASSUME NEW m \in 1..Len(a), NEW n \in 1..Len(a),
                        a[m] = a[n], a[m] # IoPacket
                 PROVE  m = n
      OBVIOUS
    <2>1. m + 1 = n + 1
      BY <1>1, <1>2 DEF QueuedOnce
    <2> QED
      BY <2>1
  <1>8. Head(q) # IoPacket => Head(q) \in Queue(q)
    BY <1>1, <1>4 DEF Queue
  <1> QED
    BY <1>1, <1>5, <1>6, <1>7, <1>8 DEF QueuedOnce, a

-----------------------------------------------------------------------------
(***************************************************************************)
(* The counters.                                                           *)
(***************************************************************************)

(* PoolCounters::reserve counts one item more.                             *)
LEMMA CountedMore ==
    ASSUME NEW S, NEW req, NEW lng, Counted(S, req, lng),
           NEW p \in Packets, p \notin S, NEW k, k = p.kind,
           req[k.lane] < CounterMax, k.long => lng[k.lane] < CounterMax
    PROVE  Counted(S \cup {p}, [req EXCEPT ![k.lane] = @ + 1],
                   IF k.long THEN [lng EXCEPT ![k.lane] = @ + 1] ELSE lng)
  <1> DEFINE T == S \cup {p}
             r == [req EXCEPT ![k.lane] = @ + 1]
             g == IF k.long THEN [lng EXCEPT ![k.lane] = @ + 1] ELSE lng
  <1>1. k.lane \in Lanes /\ k.long \in BOOLEAN
    BY PacketFacts
  <1>2. /\ \A l \in Lanes : Lane(T, l) = IF k.lane = l THEN Lane(S, l) \cup {p}
                                                      ELSE Lane(S, l)
        /\ \A l \in Lanes : LongLane(T, l) = IF k.lane = l /\ k.long
                                               THEN LongLane(S, l) \cup {p}
                                               ELSE LongLane(S, l)
    BY DEF Lane, LongLane
  <1>3. \A l \in Lanes : /\ Lane(S, l) \in SUBSET S /\ LongLane(S, l) \in SUBSET S
                         /\ p \notin Lane(S, l) /\ p \notin LongLane(S, l)
    BY DEF Lane, LongLane
  <1>4. \A l \in Lanes : IsFiniteSet(Lane(S, l)) /\ IsFiniteSet(LongLane(S, l))
    BY <1>3, FS_Subset DEF Counted
  <1>5. \A l \in Lanes : /\ Cardinality(Lane(S, l) \cup {p}) = Cardinality(Lane(S, l)) + 1
                         /\ Cardinality(LongLane(S, l) \cup {p})
                              = Cardinality(LongLane(S, l)) + 1
    BY <1>3, <1>4, FS_AddElement, Zenon
  <1>6. T \subseteq Packets /\ IsFiniteSet(T)
    BY FS_AddElement DEF Counted
  <1>7. /\ r \in [Lanes -> 0..CounterMax] /\ g \in [Lanes -> 0..CounterMax]
        /\ \A l \in Lanes : r[l] = IF k.lane = l THEN req[l] + 1 ELSE req[l]
        /\ \A l \in Lanes : g[l] = IF k.lane = l /\ k.long THEN lng[l] + 1 ELSE lng[l]
    BY <1>1, BoundsAssumption DEF Counted
  <1> HIDE DEF T, r, g
  <1>8. \A l \in Lanes : /\ r[l] = Cardinality(Lane(T, l))
                         /\ g[l] = Cardinality(LongLane(T, l))
    <2> TAKE l \in Lanes
    <2>1. req[l] = Cardinality(Lane(S, l)) /\ lng[l] = Cardinality(LongLane(S, l))
      BY DEF Counted
    <2>2. r[l] = Cardinality(Lane(T, l))
      <3>1. CASE k.lane = l
        BY <1>2, <1>5, <1>7, <2>1, <3>1, Zenon
      <3>2. CASE k.lane # l
        BY <1>2, <1>7, <2>1, <3>2
      <3> QED
        BY <3>1, <3>2
    <2>3. g[l] = Cardinality(LongLane(T, l))
      <3>1. CASE k.lane = l /\ k.long
        <4>1. LongLane(T, l) = LongLane(S, l) \cup {p} /\ g[l] = lng[l] + 1
          BY <1>2, <1>7, <3>1
        <4> QED
          BY <1>5, <2>1, <4>1, Zenon
      <3>2. CASE ~(k.lane = l /\ k.long)
        BY <1>2, <1>7, <2>1, <3>2
      <3> QED
        BY <3>1, <3>2
    <2> QED
      BY <2>2, <2>3
  <1> QED
    BY <1>6, <1>7, <1>8 DEF Counted, T, r, g

(* Consume counts one item less.                                           *)
LEMMA CountedLess ==
    ASSUME NEW S, NEW req, NEW lng, Counted(S, req, lng),
           NEW p \in S, NEW k, k = p.kind
    PROVE  Counted(S \ {p}, [req EXCEPT ![k.lane] = @ - 1],
                   IF k.long THEN [lng EXCEPT ![k.lane] = @ - 1] ELSE lng)
  <1> DEFINE T == S \ {p}
             r == [req EXCEPT ![k.lane] = @ - 1]
             g == IF k.long THEN [lng EXCEPT ![k.lane] = @ - 1] ELSE lng
  <1>1. k.lane \in Lanes /\ k.long \in BOOLEAN
    BY PacketFacts DEF Counted
  <1>2. /\ \A l \in Lanes : Lane(T, l) = IF k.lane = l THEN Lane(S, l) \ {p}
                                                      ELSE Lane(S, l)
        /\ \A l \in Lanes : LongLane(T, l) = IF k.lane = l /\ k.long
                                               THEN LongLane(S, l) \ {p}
                                               ELSE LongLane(S, l)
    BY DEF Lane, LongLane
  <1>3. \A l \in Lanes : /\ Lane(S, l) \in SUBSET S /\ LongLane(S, l) \in SUBSET S
                         /\ k.lane = l => p \in Lane(S, l)
                         /\ k.lane = l /\ k.long => p \in LongLane(S, l)
    BY DEF Lane, LongLane
  <1>4. \A l \in Lanes : IsFiniteSet(Lane(S, l)) /\ IsFiniteSet(LongLane(S, l))
    BY <1>3, FS_Subset DEF Counted
  <1>5. \A l \in Lanes :
          /\ k.lane = l =>
               Cardinality(Lane(S, l) \ {p}) = Cardinality(Lane(S, l)) - 1
          /\ k.lane = l /\ k.long =>
               Cardinality(LongLane(S, l) \ {p}) = Cardinality(LongLane(S, l)) - 1
    BY <1>3, <1>4, FS_RemoveElement, Zenon
  <1>6. \A l \in Lanes :
          /\ k.lane = l => Cardinality(Lane(S, l) \ {p}) \in Nat
          /\ k.lane = l /\ k.long => Cardinality(LongLane(S, l) \ {p}) \in Nat
    BY <1>4, FS_RemoveElement, FS_CardinalityType, Zenon
  <1>7. T \subseteq Packets /\ IsFiniteSet(T)
    BY FS_RemoveElement DEF Counted
  <1>8. /\ req[k.lane] \in 0..CounterMax /\ req[k.lane] - 1 \in Nat
        /\ k.long => lng[k.lane] \in 0..CounterMax /\ lng[k.lane] - 1 \in Nat
    BY <1>1, <1>5, <1>6, Zenon DEF Counted
  <1>9. /\ r \in [Lanes -> 0..CounterMax] /\ g \in [Lanes -> 0..CounterMax]
        /\ \A l \in Lanes : r[l] = IF k.lane = l THEN req[l] - 1 ELSE req[l]
        /\ \A l \in Lanes : g[l] = IF k.lane = l /\ k.long THEN lng[l] - 1 ELSE lng[l]
    BY <1>1, <1>8, BoundsAssumption DEF Counted
  <1> HIDE DEF T, r, g
  <1>10. \A l \in Lanes : /\ r[l] = Cardinality(Lane(T, l))
                          /\ g[l] = Cardinality(LongLane(T, l))
    <2> TAKE l \in Lanes
    <2>1. req[l] = Cardinality(Lane(S, l)) /\ lng[l] = Cardinality(LongLane(S, l))
      BY DEF Counted
    <2>2. r[l] = Cardinality(Lane(T, l))
      <3>1. CASE k.lane = l
        BY <1>2, <1>5, <1>9, <2>1, <3>1, Zenon
      <3>2. CASE k.lane # l
        BY <1>2, <1>9, <2>1, <3>2
      <3> QED
        BY <3>1, <3>2
    <2>3. g[l] = Cardinality(LongLane(T, l))
      <3>1. CASE k.lane = l /\ k.long
        BY <1>2, <1>5, <1>9, <2>1, <3>1
      <3>2. CASE ~(k.lane = l /\ k.long)
        BY <1>2, <1>9, <2>1, <3>2
      <3> QED
        BY <3>1, <3>2
    <2> QED
      BY <2>2, <2>3
  <1> QED
    BY <1>7, <1>9, <1>10 DEF Counted, T, r, g

-----------------------------------------------------------------------------
(***************************************************************************)
(* Steps that leave every work item where it is.                           *)
(***************************************************************************)

(* The slots and the bounds after a step that reserves nothing.            *)
Steady ==
    /\ slot' \in [Slots -> SlotType] /\ \A s \in Slots : slot'[s].gen = slot[s].gen
    /\ used' \in UsedType /\ used'.calls = used.calls /\ used'.items = used.items

(* What the invariant says of calls, workers and slots.                    *)
LEMMA InvTypes ==
    ASSUME IInv
    PROVE  /\ call \in [Threads -> CallType] /\ \A t \in Threads : CallOK(call[t])
           /\ thr \in [Ids -> WorkerType] /\ \A i \in Ids : WorkerOK(thr[i])
           /\ slot \in [Slots -> SlotType]
           /\ used \in UsedType
  BY DEF IInv, Shape, Room

(* A step that changes neither slots nor bounds is steady.                 *)
LEMMA SteadyKept ==
    ASSUME IInv, UNCHANGED <<slot, used>>
    PROVE  Steady
  BY InvTypes DEF Steady

(* Spending a failure, a completion or an error reserves nothing.          *)
LEMMA SteadySpent ==
    ASSUME IInv, UNCHANGED slot,
           Spend("faults") \/ Spend("io") \/ Spend("errors")
    PROVE  Steady
  <1>1. used' \in UsedType /\ used'.calls = used.calls /\ used'.items = used.items
    BY InvTypes DEF Spend, UsedType
  <1> QED
    BY <1>1, InvTypes DEF Steady

(* A slot changes its state.                                               *)
LEMMA SteadySlot ==
    ASSUME IInv, UNCHANGED used, NEW s \in Slots,
           NEW x \in {"Free", "Starting", "Running", "Stopping"},
           slot' = [slot EXCEPT ![s].state = x]
    PROVE  Steady
  <1>1. slot' \in [Slots -> SlotType] /\ \A y \in Slots : slot'[y].gen = slot[y].gen
    BY InvTypes DEF SlotType
  <1> QED
    BY <1>1, InvTypes DEF Steady

(* The books after a step that moves no packet.                            *)
LEMMA BooksKept ==
    ASSUME IInv, UNCHANGED <<port, counters, memory>>, used'.items = used.items,
           Owned(call') = Owned(call), OwnedOnce(call'),
           Working(thr') = Working(thr), WorkingOnce(thr'), Unread(thr') = Unread(thr)
    PROVE  Books' /\ MemoryIsExact'
  <1>1. Items' = Items
    BY DEF Items
  <1>2. OnePlace(call', port', thr')
    BY DEF IInv, Books, OnePlace
  <1> QED
    BY <1>1, <1>2 DEF IInv, Books, MemoryIsExact, counters, memory

(* A call takes a step of its own.                                         *)
LEMMA QuietCall ==
    ASSUME IInv, NEW t \in Threads, NEW r, CallOK(r),
           call' = [call EXCEPT ![t] = r],
           Started(r) => /\ Started(call[t]) /\ r.id = call[t].id
                         /\ r.pc \in {"latch", "started"},
           call[t].pc = "latch" => thr[call[t].id].pc \notin {"entered", "named"},
           Owns(r) <=> Owns(call[t]), Owns(r) => r.pkt = call[t].pkt,
           r.pc \in PendingPcs => call[t].pc \in PendingPcs,
           r.pc \in EarlyPcs => call[t].pc \in EarlyPcs,
           UNCHANGED <<thr, port, counters, memory>>, Steady, Flags'
    PROVE  IInv'
  <1>1. Shape(call, thr, slot) /\ Room(call, slot, used) /\ OwnedOnce(call) /\ WorkingOnce(thr)
    BY DEF IInv, Books, OnePlace
  <1>2. StartOK(r, thr, slot)
    BY <1>1 DEF Shape, StartOK
  <1>3. Shape(call', thr', slot')
    <2>1. Shape(call', thr, slot)
      BY <1>1, <1>2, ShapeCall, Zenon
    <2> QED
      BY <2>1, ShapeSlot DEF Steady
  <1>4. Room(call', slot', used')
    BY <1>1, InvTypes, RoomCall, Zenon DEF Steady, CallOK
  <1>5. Owned(call') = Owned(call) /\ OwnedOnce(call')
    BY <1>1, InvTypes, OwnedKept, Zenon
  <1>6. Books' /\ MemoryIsExact'
    BY <1>1, <1>5, BooksKept DEF Steady
  <1>7. StartParameterAlive'
    <2>1. \A u \in Threads : u # t => call'[u] = call[u]
      BY InvTypes
    <2> QED
      BY <2>1 DEF IInv, StartParameterAlive, At
  <1> QED
    BY <1>3, <1>4, <1>6, <1>7 DEF IInv

(* A worker takes a step of its own.                                       *)
LEMMA QuietWorker ==
    ASSUME IInv, NEW i \in Ids, NEW w, WorkerOK(w),
           thr' = [thr EXCEPT ![i] = w],
           thr[i].pc \notin {"none", "suspended"},
           w.pc \in {"entered", "named"} => thr[i].pc \in {"entered", "named"},
           Holds(w) <=> Holds(thr[i]), Holds(w) => w.pkt = thr[i].pkt,
           w.pc = "dequeued" <=> thr[i].pc = "dequeued",
           UNCHANGED <<call, port, counters, memory>>, Steady, Flags'
    PROVE  IInv'
  <1>1. Shape(call, thr, slot) /\ Room(call, slot, used) /\ OwnedOnce(call) /\ WorkingOnce(thr)
    BY DEF IInv, Books, OnePlace
  <1>2. Shape(call', thr', slot')
    <2>1. Shape(call, thr', slot)
      BY <1>1, ShapeWorker, Zenon
    <2> QED
      BY <2>1, ShapeSlot DEF Steady
  <1>3. Room(call', slot', used')
    BY <1>1, Zenon DEF Steady, Room
  <1>4. Working(thr') = Working(thr) /\ WorkingOnce(thr') /\ Unread(thr') = Unread(thr)
    BY <1>1, InvTypes, WorkingKept, ZenonT(30)
  <1>5. Books' /\ MemoryIsExact'
    BY <1>1, <1>4, BooksKept DEF Steady
  <1>6. StartParameterAlive'
    <2>1. \A j \in Ids : thr'[j] = IF j = i THEN w ELSE thr[j]
      BY InvTypes
    <2> QED
      BY <2>1 DEF IInv, StartParameterAlive, At
  <1> QED
    BY <1>2, <1>3, <1>5, <1>6 DEF IInv

(* A call at another point of its way.                                     *)
LEMMA CallMoved ==
    ASSUME NEW r0 \in CallType,
           NEW pc \in {"idle", "commit"} \cup EarlyPcs \cup SubmitPcs,
           NEW r, r = [r0 EXCEPT !.pc = pc]
    PROVE  /\ r \in CallType /\ r.pc = pc
           /\ r.op = r0.op /\ r.pkt = r0.pkt /\ r.id = r0.id
  BY DEF CallType

(* A call that is over owns nothing.                                       *)
LEMMA IdleFacts ==
    CallOK(Idle) /\ ~Owns(Idle) /\ ~Started(Idle) /\ Idle.pc = "idle"
  BY DEF Idle, CallOK, CallType, Owns, Started, SubmitPcs, StartPcs

(* A call that owns nothing and waits for nothing returns.                 *)
LEMMA QuietReturn ==
    ASSUME IInv, NEW t \in Threads, ReturnCall(t),
           ~Owns(call[t]), call[t].pc # "latch",
           UNCHANGED <<thr, port, counters, memory>>, Steady, Flags'
    PROVE  IInv'
  <1>1. Idle.pc \notin PendingPcs /\ Idle.pc \notin EarlyPcs
    BY IdleFacts DEF PendingPcs, EarlyPcs
  <1> QED
    BY <1>1, IdleFacts, QuietCall, Zenon DEF ReturnCall

(* A call that waits for nothing goes on to a point that is no start.      *)
LEMMA QuietGoto ==
    ASSUME IInv, NEW t \in Threads,
           NEW pc \in {"ensure", "submit", "cleanup"} \cup EarlyPcs,
           Goto(t, pc),
           call[t].pc \notin {"idle", "latch"},
           pc \in {"reserve", "cleanup"} => call[t].op = "item",
           call[t].op = "item" =>
             (pc \in {"ensure", "submit", "cleanup"} <=> call[t].pc \in SubmitPcs),
           pc \in PendingPcs => call[t].pc \in PendingPcs,
           pc \in EarlyPcs => call[t].pc \in EarlyPcs,
           UNCHANGED <<thr, port, counters, memory>>, Steady, Flags'
    PROVE  IInv'
  <1> DEFINE r == [call[t] EXCEPT !.pc = pc]
  <1>1. call[t] \in CallType /\ CallOK(call[t]) /\ call' = [call EXCEPT ![t] = r]
    BY InvTypes DEF Goto
  <1>2. /\ r \in CallType /\ r.pc = pc
        /\ r.op = call[t].op /\ r.pkt = call[t].pkt /\ r.id = call[t].id
    BY <1>1, CallMoved DEF SubmitPcs
  <1> HIDE DEF r
  <1>3. ~Started(r)
    BY <1>2 DEF Started, StartPcs, EarlyPcs
  <1>4. Owns(r) <=> Owns(call[t])
    BY <1>2 DEF Owns, SubmitPcs, StartPcs, EarlyPcs
  <1>5. CallOK(r)
    BY <1>1, <1>2, <1>3, <1>4 DEF CallOK, EarlyPcs
  <1> QED
    BY <1>1, <1>2, <1>3, <1>4, <1>5, QuietCall, Zenon

(* The flags after a step that touches none of them.                       *)
LEMMA FlagsKept ==
    ASSUME IInv, UNCHANGED <<pool, floor, tid, bound>>
    PROVE  Flags'
  BY DEF IInv, Flags

(***************************************************************************)
(* The steps of a call.                                                    *)
(***************************************************************************)

(* initialize_work_pool finds the pool ready, or is done with it.          *)
LEMMA AfterInitInv ==
    ASSUME IInv, NEW t \in Threads, call[t].pc \in {"init", "initializing"}, AfterInit(t),
           UNCHANGED <<thr, port, counters, memory, slot, used>>, Flags'
    PROVE  IInv'
  <1>1. CallOK(call[t]) /\ call[t].op \in {"item", "bind"}
    BY InvTypes DEF CallOK
  <1>2. Steady
    BY SteadyKept
  <1>3. CASE call[t].op = "item"
    <2>1. Goto(t, "reserve")
      BY <1>3 DEF AfterInit
    <2> QED
      BY <1>2, <1>3, <2>1, QuietGoto DEF EarlyPcs, PendingPcs, SubmitPcs, StartPcs
  <1>4. CASE call[t].op = "bind"
    <2>1. Goto(t, "ensure")
      BY <1>4 DEF AfterInit
    <2> QED
      BY <1>2, <1>4, <2>1, QuietGoto DEF EarlyPcs, PendingPcs
  <1> QED
    BY <1>1, <1>3, <1>4

\* A caller finds the pool initialised.
LEMMA PoolReadyInv ==
    ASSUME IInv, NEW t \in Threads, PoolReady(t)
    PROVE  IInv'
  <1>1. Flags'
    BY FlagsKept DEF PoolReady, fleet
  <1> QED
    BY <1>1, AfterInitInv DEF PoolReady, At, fleet

\* A caller wins the race to initialise the pool.
LEMMA ClaimInitInv ==
    ASSUME IInv, NEW t \in Threads, ClaimInit(t)
    PROVE  IInv'
  <1>1. Flags'
    BY DEF ClaimInit, IInv, Flags, fleet
  <1>2. Steady
    BY SteadyKept DEF ClaimInit, fleet
  <1> QED
    BY <1>1, <1>2, QuietGoto
    DEF ClaimInit, At, EarlyPcs, PendingPcs, SubmitPcs, StartPcs

\* The initialisation of the pool ends, well or badly.
LEMMA FinishInitInv ==
    ASSUME IInv, NEW t \in Threads, NEW ok \in BOOLEAN, FinishInit(t, ok)
    PROVE  IInv'
  <1>1. Flags'
    BY DEF FinishInit, IInv, Flags, fleet
  <1>2. CASE ok
    BY <1>1, <1>2, AfterInitInv DEF FinishInit, At, fleet
  <1>3. CASE ~ok
    <2>1. Steady
      BY <1>3, SteadySpent DEF FinishInit, fleet
    <2>2. ~Owns(call[t]) /\ call[t].pc # "latch"
      BY DEF FinishInit, At, Owns, SubmitPcs, StartPcs
    <2> QED
      BY <1>1, <1>3, <2>1, <2>2, QuietReturn DEF FinishInit
  <1> QED
    BY <1>2, <1>3

\* No packet can be had: the call fails and leaves nothing.
LEMMA ReserveFailsInv ==
    ASSUME IInv, NEW t \in Threads, ReserveFails(t)
    PROVE  IInv'
  <1>1. Flags'
    BY FlagsKept DEF ReserveFails, fleet
  <1>2. Steady
    <2>1. CASE MayFail
      BY <2>1, SteadySpent, Zenon DEF ReserveFails, Spend, fleet
    <2>2. CASE ~MayFail
      BY <2>2, SteadyKept DEF ReserveFails, fleet
    <2> QED
      BY <2>1, <2>2
  <1>3. ~Owns(call[t]) /\ call[t].pc # "latch"
    BY DEF ReserveFails, At, Owns, SubmitPcs, StartPcs
  <1> QED
    BY <1>1, <1>2, <1>3, QuietReturn DEF ReserveFails

\* The fleet is large enough: no worker is started.
LEMMA WorkerReadyInv ==
    ASSUME IInv, NEW t \in Threads, WorkerReady(t)
    PROVE  IInv'
  <1>1. Flags' /\ Steady
    BY FlagsKept, SteadyKept DEF WorkerReady, fleet
  <1> QED
    BY <1>1, QuietGoto
    DEF WorkerReady, At, EarlyPcs, PendingPcs, SubmitPcs, StartPcs

(* A start is over, well or badly; the slot is not settled yet.            *)
LEMMA StartEnds ==
    ASSUME IInv, NEW t \in Threads, Started(call[t]),
           call[t].pc = "latch" => thr[call[t].id].pc \notin {"entered", "named"},
           NEW r \in CallType, call' = [call EXCEPT ![t] = r], r.pc = "started",
           r.op = call[t].op, r.pkt = call[t].pkt, r.id = call[t].id,
           UNCHANGED <<thr, port, counters, memory>>, Steady, Flags'
    PROVE  IInv'
  <1>1. CallOK(call[t])
    BY InvTypes
  <1>2. Started(r) /\ (Owns(r) <=> Owns(call[t])) /\ call[t].pc \in StartPcs
    BY DEF Started, Owns, SubmitPcs, StartPcs
  <1>3. CallOK(r)
    BY <1>1, <1>2 DEF CallOK, StartPcs
  <1> QED
    BY <1>1, <1>2, <1>3, QuietCall, Zenon DEF PendingPcs, EarlyPcs

\* A submitter sees that its worker has latched the start block.
LEMMA SeeLatchInv ==
    ASSUME IInv, NEW t \in Threads, SeeLatch(t)
    PROVE  IInv'
  <1> DEFINE r == [call[t] EXCEPT !.pc = "started", !.ok = TRUE]
  <1>1. Flags' /\ Steady
    BY FlagsKept, SteadyKept DEF SeeLatch, fleet
  <1>2. call[t] \in CallType /\ call' = [call EXCEPT ![t] = r]
    BY InvTypes, Zenon DEF SeeLatch
  <1>3. /\ r \in CallType /\ r.pc = "started"
        /\ r.op = call[t].op /\ r.pkt = call[t].pkt /\ r.id = call[t].id
    BY <1>2, Zenon DEF CallType, SubmitPcs, StartPcs
  <1> HIDE DEF r
  <1>4. Started(call[t]) /\ thr[call[t].id].pc \notin {"entered", "named"}
    BY DEF SeeLatch, At, Started, StartPcs
  <1> QED
    BY <1>1, <1>2, <1>3, <1>4, StartEnds, Zenon DEF SeeLatch

(* default_start_pool_thread cannot create or resume the thread.           *)
LEMMA StartFails ==
    ASSUME IInv, NEW t \in Threads, call[t].pc \in {"start", "resume"},
           call' = [call EXCEPT ![t].pc = "started", ![t].ok = FALSE],
           Spend("faults"),
           UNCHANGED <<pool, port, fleet, counters, tid, memory, thr, bound>>
    PROVE  IInv'
  <1> DEFINE r == [call[t] EXCEPT !.pc = "started", !.ok = FALSE]
  <1>1. Flags' /\ Steady
    BY FlagsKept, SteadySpent DEF fleet
  <1>2. call[t] \in CallType /\ call' = [call EXCEPT ![t] = r]
    BY InvTypes, Zenon
  <1>3. /\ r \in CallType /\ r.pc = "started"
        /\ r.op = call[t].op /\ r.pkt = call[t].pkt /\ r.id = call[t].id
    BY <1>2, Zenon DEF CallType, SubmitPcs, StartPcs
  <1> HIDE DEF r
  <1>4. Started(call[t]) /\ call[t].pc # "latch"
    BY DEF Started, StartPcs
  <1> QED
    BY <1>1, <1>2, <1>3, <1>4, StartEnds, Zenon

(* A start brings its worker one step further.                             *)
LEMMA StartAdvances ==
    ASSUME IInv, NEW t \in Threads, call[t].pc \in {"start", "resume"},
           NEW i \in Ids, i = call[t].id,
           NEW r \in CallType, call' = [call EXCEPT ![t] = r],
           r.op = call[t].op, r.pkt = call[t].pkt, r.id = i,
           NEW w, WorkerOK(w), thr' = [thr EXCEPT ![i] = w],
           \/ r.pc = "resume" /\ w.pc = "suspended"
           \/ r.pc = "latch" /\ w.pc = "entered",
           UNCHANGED <<pool, port, fleet, counters, tid, memory, bound, used>>
    PROVE  IInv'
  <1>1. CallOK(call[t]) /\ Started(call[t])
    BY InvTypes DEF Started, StartPcs
  <1>2. thr[i].pc \in {"none", "suspended"}
    <2>1. StartOK(call[t], thr, slot)
      BY DEF IInv, Shape
    <2> QED
      BY <1>1, <2>1 DEF StartOK
  <1>3. ~Holds(w) /\ ~Holds(thr[i])
    BY <1>2 DEF Holds, WorkPcs
  <1>4. Started(r) /\ (Owns(r) <=> Owns(call[t]))
    BY <1>1 DEF Started, Owns, SubmitPcs, StartPcs
  <1>5. CallOK(r)
    BY <1>1, <1>4 DEF CallOK
  <1>6. Shape(call', thr', slot')
    <2>1. Shape(call, thr, slot)
      BY DEF IInv
    <2>2. r.pc # "start" /\ (r.pc = "resume" => w.pc = "suspended")
      OBVIOUS
    <2>3. Shape([call EXCEPT ![t] = r], [thr EXCEPT ![i] = w], slot)
      BY <1>1, <1>4, <1>5, <2>1, <2>2, ShapeStart, Zenon
    <2> QED
      BY <2>3 DEF fleet
  <1>7. Room(call', slot', used')
    <2>1. r.pc \notin PendingPcs /\ r.pc \notin EarlyPcs
      BY DEF PendingPcs, EarlyPcs
    <2>2. Room(call, slot, used)
      BY DEF IInv
    <2>3. Room(call', slot, used)
      BY <2>1, <2>2, InvTypes, RoomCall, Zenon
    <2> QED
      BY <2>3 DEF fleet
  <1>8. Books' /\ MemoryIsExact'
    <2>1. OwnedOnce(call) /\ WorkingOnce(thr)
      BY DEF IInv, Books, OnePlace
    <2>2. Owned(call') = Owned(call) /\ OwnedOnce(call')
      BY <1>4, <2>1, InvTypes, OwnedKept, Zenon
    <2>3. Working(thr') = Working(thr) /\ WorkingOnce(thr') /\ Unread(thr') = Unread(thr)
      BY <1>3, <2>1, InvTypes, WorkingNone, Zenon
    <2> QED
      BY <2>2, <2>3, BooksKept
  <1>9. StartParameterAlive'
    <2> SUFFICES ASSUME NEW j \in Ids, thr'[j].pc \in {"entered", "named"}
                 PROVE  \E u \in Threads : call'[u].pc = "latch" /\ call'[u].id = j
      BY DEF StartParameterAlive, At
    <2>1. CASE j = i
      <3>1. call'[t] = r /\ thr'[i] = w
        BY InvTypes
      <3>2. r.pc = "latch"
        BY <2>1, <3>1
      <3> QED
        BY <2>1, <3>1, <3>2
    <2>2. CASE j # i
      <3>1. thr'[j] = thr[j]
        BY <2>2, InvTypes
      <3>2. PICK u \in Threads : call[u].pc = "latch" /\ call[u].id = j
        BY <3>1 DEF IInv, StartParameterAlive, At
      <3>3. u # t
        BY <2>2, <3>2
      <3> QED
        BY <3>2, <3>3, InvTypes
    <2> QED
      BY <2>1, <2>2
  <1>10. Flags'
    BY FlagsKept DEF fleet
  <1> QED
    BY <1>6, <1>7, <1>8, <1>9, <1>10 DEF IInv

\* A reserved worker's thread is created, suspended, or is not.
LEMMA CreateThreadInv ==
    ASSUME IInv, NEW t \in Threads, NEW ok \in BOOLEAN, CreateThread(t, ok)
    PROVE  IInv'
  <1>1. CASE ok
    <2> DEFINE i == call[t].id
               r == [call[t] EXCEPT !.pc = "resume"]
               w == [thr[i] EXCEPT !.pc = "suspended"]
    <2>1. call[t] \in CallType /\ i \in Ids
      BY InvTypes DEF CreateThread, At, CallOK, Started, StartPcs
    <2>2. thr[i] \in WorkerType
      BY <2>1, InvTypes
    <2>3. /\ call' = [call EXCEPT ![t] = r] /\ thr' = [thr EXCEPT ![i] = w]
          /\ UNCHANGED <<pool, port, fleet, counters, tid, memory, bound, used>>
      BY <1>1 DEF CreateThread, Goto
    <2>4. /\ r \in CallType /\ r.pc = "resume"
          /\ r.op = call[t].op /\ r.pkt = call[t].pkt /\ r.id = i
      BY <2>1 DEF CallType, SubmitPcs, StartPcs
    <2>5. w \in WorkerType /\ w.pc = "suspended"
      BY <2>2 DEF WorkerType
    <2> HIDE DEF i, r, w
    <2>6. WorkerOK(w)
      BY <2>5 DEF WorkerOK, WorkPcs
    <2>7. call[t].pc \in {"start", "resume"} /\ i = call[t].id
      BY DEF CreateThread, At, i
    <2> QED
      BY <2>1, <2>3, <2>4, <2>5, <2>6, <2>7, StartAdvances, Zenon
  <1>2. CASE ~ok
    BY <1>2, StartFails DEF CreateThread, At
  <1> QED
    BY <1>1, <1>2

\* A created thread is resumed, or its start fails.
LEMMA ResumeThreadInv ==
    ASSUME IInv, NEW t \in Threads, NEW ok \in BOOLEAN, ResumeThread(t, ok)
    PROVE  IInv'
  <1>1. CASE ok
    <2> DEFINE i == call[t].id
               r == [call[t] EXCEPT !.pc = "latch"]
               w == [thr[i] EXCEPT !.pc = "entered"]
    <2>1. call[t] \in CallType /\ i \in Ids
      BY InvTypes DEF ResumeThread, At, CallOK, Started, StartPcs
    <2>2. thr[i] \in WorkerType
      BY <2>1, InvTypes
    <2>3. /\ call' = [call EXCEPT ![t] = r] /\ thr' = [thr EXCEPT ![i] = w]
          /\ UNCHANGED <<pool, port, fleet, counters, tid, memory, bound, used>>
      BY <1>1 DEF ResumeThread, Goto
    <2>4. /\ r \in CallType /\ r.pc = "latch"
          /\ r.op = call[t].op /\ r.pkt = call[t].pkt /\ r.id = i
      BY <2>1 DEF CallType, SubmitPcs, StartPcs
    <2>5. w \in WorkerType /\ w.pc = "entered"
      BY <2>2 DEF WorkerType
    <2> HIDE DEF i, r, w
    <2>6. WorkerOK(w)
      BY <2>5 DEF WorkerOK, WorkPcs
    <2>7. call[t].pc \in {"start", "resume"} /\ i = call[t].id
      BY DEF ResumeThread, At, i
    <2> QED
      BY <2>1, <2>3, <2>4, <2>5, <2>6, <2>7, StartAdvances, Zenon
  <1>2. CASE ~ok
    BY <1>2, StartFails DEF ResumeThread, At
  <1> QED
    BY <1>1, <1>2

(* A call goes on from a start that is over.                               *)
LEMMA StartSettles ==
    ASSUME IInv, NEW t \in Threads, call[t].pc = "started",
           NEW r \in CallType, call' = [call EXCEPT ![t] = r],
           r.pc = "submit" \/ (r.pc = "cleanup" /\ call[t].op = "item"),
           r.op = call[t].op, r.pkt = call[t].pkt,
           UNCHANGED <<thr, port, counters, memory>>, Steady, Flags'
    PROVE  IInv'
  <1>1. CallOK(call[t])
    BY InvTypes
  <1>2. ~Started(r) /\ (Owns(r) <=> Owns(call[t]))
    BY DEF Started, Owns, SubmitPcs, StartPcs
  <1>3. CallOK(r)
    BY <1>1, <1>2 DEF CallOK
  <1> QED
    BY <1>1, <1>2, <1>3, QuietCall, Zenon DEF PendingPcs, EarlyPcs

(* WorkerFleet::finish_start settles the slot; the call goes on, or fails. *)
LEMMA FinishStartInv ==
    ASSUME IInv, NEW t \in Threads, FinishStart(t)
    PROVE  IInv'
  <1> DEFINE s == call[t].id[1]
             state == IF call[t].ok THEN "Running" ELSE "Free"
             good == [call[t] EXCEPT !.pc = "submit", !.id = NoId, !.ok = TRUE]
             bad == [call[t] EXCEPT !.pc = "cleanup", !.id = NoId, !.ok = TRUE]
  <1>1. call[t] \in CallType /\ CallOK(call[t]) /\ call[t].pc = "started"
    BY InvTypes DEF FinishStart, At
  <1>2. Started(call[t]) /\ call[t].op \in {"item", "bind"}
    BY <1>1 DEF Started, StartPcs, CallOK
  <1>3. s \in Slots
    BY <1>1, <1>2 DEF CallOK, Ids
  <1>4. Steady /\ Flags'
    <2>1. slot' = [slot EXCEPT ![s].state = state]
      BY DEF FinishStart
    <2>2. state \in {"Free", "Starting", "Running", "Stopping"}
      OBVIOUS
    <2> HIDE DEF s, state
    <2>3. Steady
      BY <1>3, <2>1, <2>2, SteadySlot, Zenon DEF FinishStart
    <2> QED
      BY <2>3, FlagsKept DEF FinishStart
  <1>5. UNCHANGED <<thr, port, counters, memory>>
    BY DEF FinishStart
  <1>6. \/ call' = [call EXCEPT ![t] = good]
        \/ call' = [call EXCEPT ![t] = bad] /\ call[t].op = "item"
        \/ call[t].op = "bind" /\ ReturnCall(t)
    BY <1>2, Zenon DEF FinishStart
  <1>8. CASE call' = [call EXCEPT ![t] = good]
    <2>1. /\ good \in CallType /\ good.pc = "submit"
          /\ good.op = call[t].op /\ good.pkt = call[t].pkt
      BY <1>1, Zenon DEF CallType, SubmitPcs
    <2> HIDE DEF good
    <2> QED
      BY <1>1, <1>4, <1>5, <1>8, <2>1, StartSettles, Zenon
  <1>9. CASE call' = [call EXCEPT ![t] = bad] /\ call[t].op = "item"
    <2>1. /\ bad \in CallType /\ bad.pc = "cleanup"
          /\ bad.op = call[t].op /\ bad.pkt = call[t].pkt
      BY <1>1, Zenon DEF CallType, SubmitPcs
    <2> HIDE DEF bad
    <2> QED
      BY <1>1, <1>4, <1>5, <1>9, <2>1, StartSettles, Zenon
  <1>10. CASE call[t].op = "bind" /\ ReturnCall(t)
    BY <1>1, <1>4, <1>5, <1>10, QuietReturn DEF Owns
  <1> QED
    BY <1>6, <1>8, <1>9, <1>10

\* A file is bound to the pool's port.
LEMMA BindFileInv ==
    ASSUME IInv, NEW t \in Threads, BindFile(t)
    PROVE  IInv'
  <1>1. Flags' /\ Steady
    BY SteadyKept DEF BindFile, IInv, Flags, fleet
  <1> QED
    BY <1>1, QuietReturn DEF BindFile, At, Owns

\* A submitted persistent item raises the floor of the fleet.
LEMMA CommitFloorInv ==
    ASSUME IInv, NEW t \in Threads, CommitFloor(t)
    PROVE  IInv'
  <1>1. call[t].pkt.kind.persistent \in BOOLEAN
    BY InvTypes, PacketFacts, Zenon DEF CommitFloor, At, CallOK
  <1>2. Flags'
    BY <1>1 DEF CommitFloor, IInv, Flags
  <1>3. Steady
    BY SteadyKept DEF CommitFloor
  <1> QED
    BY <1>2, <1>3, QuietReturn DEF CommitFloor, At, Owns, SubmitPcs, StartPcs

(* SetIoCompletion: the packet goes from its submitter to the port.        *)
LEMMA SetIoCompletionInv ==
    ASSUME IInv, NEW t \in Threads, NEW ok \in BOOLEAN, SetIoCompletion(t, ok)
    PROVE  IInv'
  <1> DEFINE p == call[t].pkt
             r == [call[t] EXCEPT !.pc = "commit"]
  <1>1. /\ call[t] \in CallType /\ CallOK(call[t])
        /\ call[t].pc = "submit" /\ call[t].op = "item"
    BY InvTypes DEF SetIoCompletion, At
  <1>2. Owns(call[t]) /\ ~Started(call[t]) /\ p \in Packets
    BY <1>1 DEF CallOK, Owns, Started, SubmitPcs, StartPcs
  <1>3. Flags'
    BY FlagsKept DEF SetIoCompletion, fleet
  <1>4. CASE ~ok
    <2>1. Steady
      BY <1>4, SteadySpent DEF SetIoCompletion, fleet
    <2> QED
      BY <1>1, <1>3, <1>4, <2>1, QuietGoto
      DEF SetIoCompletion, EarlyPcs, PendingPcs, SubmitPcs
  <1>5. CASE ok
    <2>1. /\ port' = Append(port, p) /\ call' = [call EXCEPT ![t] = r]
          /\ UNCHANGED <<thr, counters, memory, slot, used>>
      BY <1>5 DEF SetIoCompletion, fleet
    <2>2. /\ r \in CallType /\ r.pc = "commit"
          /\ r.op = "item" /\ r.pkt = p /\ r.id = call[t].id
      BY <1>1, CallMoved
    <2> HIDE DEF p, r
    <2>3. ~Started(r) /\ ~Owns(r) /\ r.pc \notin PendingPcs /\ r.pc \notin EarlyPcs
      BY <2>2 DEF Started, Owns, SubmitPcs, StartPcs, PendingPcs, EarlyPcs
    <2>4. CallOK(r)
      BY <1>2, <2>2, <2>3 DEF CallOK
    <2>5. Shape(call', thr', slot')
      <3>1. StartOK(r, thr, slot)
        BY <2>3 DEF StartOK
      <3> QED
        BY <2>1, <2>3, <2>4, <3>1, ShapeCall, Zenon DEF IInv
    <2>6. Room(call', slot', used')
      <3>1. Room([call EXCEPT ![t] = r], slot, used)
        BY <2>2, <2>3, InvTypes, RoomCall, Zenon DEF IInv
      <3> QED
        BY <2>1, <3>1
    <2>7. StartParameterAlive'
      <3>1. \A u \in Threads : u # t => call'[u] = call[u]
        BY <2>1, InvTypes
      <3> QED
        BY <1>1, <2>1, <3>1 DEF IInv, StartParameterAlive, At
    <2>8. OnePlace(call, port, thr)
      BY DEF IInv, Books
    <2>9. /\ Owned(call') = Owned(call) \ {p} /\ p \in Owned(call) /\ OwnedOnce(call')
      BY <1>2, <2>1, <2>3, <2>8, InvTypes, OwnedGiven, Zenon DEF OnePlace, p
    <2>10. Queue(port') = Queue(port) \cup {p} /\ QueuedOnce(port')
      <3>1. p \notin Queue(port) /\ QueuedOnce(port)
        BY <2>8, <2>9 DEF OnePlace
      <3>2. IoPacket \notin Queue(port) /\ p # IoPacket
        BY <1>2, PacketFacts DEF Queue
      <3>3. /\ QueuedOnce(Append(port, p))
            /\ Queue(Append(port, p)) = (Queue(port) \cup {p}) \ {IoPacket}
        BY <1>2, <3>1, QueueAppend
      <3> QED
        BY <2>1, <3>2, <3>3
    <2>11. Items' = Items /\ OnePlace(call', port', thr')
      BY <2>1, <2>8, <2>9, <2>10, Zenon DEF OnePlace, Items
    <2>12. Books' /\ MemoryIsExact'
      <3>1. Owned(call') \cup Queue(port') = Owned(call) \cup Queue(port)
        BY <2>9, <2>10
      <3> QED
        BY <2>1, <2>11, <3>1, Zenon DEF IInv, Books, MemoryIsExact, counters, memory
    <2> QED
      BY <1>3, <2>5, <2>6, <2>7, <2>12 DEF IInv
  <1> QED
    BY <1>4, <1>5

(* cleanup_failed_submission: the packet is given back.                    *)
LEMMA CleanupInv ==
    ASSUME IInv, NEW t \in Threads, Cleanup(t)
    PROVE  IInv'
  <1> DEFINE p == call[t].pkt
  <1>1. CallOK(call[t]) /\ call[t].pc = "cleanup" /\ call[t].op = "item"
    BY InvTypes DEF Cleanup, At, CallOK
  <1>2. Owns(call[t]) /\ p \in Packets
    BY <1>1 DEF CallOK, Owns, SubmitPcs
  <1>3. /\ call' = [call EXCEPT ![t] = Idle] /\ Consume(p.kind)
        /\ tokens' = tokens \ {p} /\ heap' = heap \ {p}
        /\ UNCHANGED <<thr, port, slot, used>>
    BY DEF Cleanup, ReturnCall, fleet
  <1> HIDE DEF p
  <1>4. Flags'
    BY FlagsKept DEF Cleanup, fleet
  <1>5. Shape(call', thr', slot')
    <2>1. StartOK(Idle, thr, slot)
      BY IdleFacts DEF StartOK
    <2> QED
      BY <1>3, <2>1, IdleFacts, ShapeCall, Zenon DEF IInv
  <1>6. Room(call', slot', used')
    <2>1. Idle \in CallType /\ Idle.pc \notin PendingPcs /\ Idle.pc \notin EarlyPcs
      BY IdleFacts DEF CallOK, PendingPcs, EarlyPcs
    <2>2. Room([call EXCEPT ![t] = Idle], slot, used)
      BY <2>1, InvTypes, RoomCall, Zenon DEF IInv
    <2> QED
      BY <1>3, <2>2
  <1>7. StartParameterAlive'
    <2>1. \A u \in Threads : u # t => call'[u] = call[u]
      BY <1>3, InvTypes
    <2> QED
      BY <1>1, <1>3, <2>1 DEF IInv, StartParameterAlive, At
  <1>8. OnePlace(call, port, thr)
    BY DEF IInv, Books
  <1>9. /\ Owned(call') = Owned(call) \ {p} /\ p \in Owned(call) /\ OwnedOnce(call')
    BY <1>2, <1>3, <1>8, IdleFacts, InvTypes, OwnedGiven, Zenon DEF OnePlace, p
  <1>10. /\ p \notin Queue(port) /\ p \notin Working(thr)
         /\ Items' = Items \ {p} /\ p \in Items
    BY <1>3, <1>8, <1>9, Zenon DEF OnePlace, Items
  <1>11. OnePlace(call', port', thr')
    BY <1>3, <1>8, <1>9, Zenon DEF OnePlace
  <1>12. Counted(Items', requests', longs')
    BY <1>3, <1>10, CountedLess, Zenon DEF Consume, IInv, Books
  <1>13. Books'
    BY <1>3, <1>10, <1>11, <1>12 DEF IInv, Books
  <1>14. MemoryIsExact'
    <2>1. p \notin Unread(thr)
      BY <1>10 DEF Unread, Working
    <2> QED
      BY <1>3, <1>9, <1>10, <2>1, Zenon DEF IInv, MemoryIsExact
  <1> QED
    BY <1>4, <1>5, <1>6, <1>7, <1>13, <1>14 DEF IInv

(* rtl_queue_work_item: a new packet, under a number no packet has had.    *)
LEMMA ReserveInv ==
    ASSUME IInv, NEW t \in Threads, NEW k \in Kinds, Reserve(t, k)
    PROVE  IInv'
  <1> DEFINE p == [id |-> used.items + 1, kind |-> k]
             r == [call[t] EXCEPT !.pc = "ensure", !.pkt = p]
  <1>1. /\ call[t] \in CallType /\ CallOK(call[t])
        /\ call[t].pc = "reserve" /\ call[t].op = "item"
    BY InvTypes DEF Reserve, At, CallOK
  <1>2. /\ call' = [call EXCEPT ![t] = r] /\ heap' = heap \cup {p}
        /\ tokens' = IF k.token THEN tokens \cup {p} ELSE tokens
        /\ requests' = [requests EXCEPT ![k.lane] = @ + 1]
        /\ longs' = IF k.long THEN [longs EXCEPT ![k.lane] = @ + 1] ELSE longs
        /\ used' = [used EXCEPT !["items"] = @ + 1]
        /\ UNCHANGED <<pool, port, slot, floor, tid, thr, bound>>
    BY Zenon DEF Reserve, Spend, fleet
  <1>3. p.kind = k /\ p.id = used.items + 1
    OBVIOUS
  <1>4. used.items \in Nat /\ used.items + 1 <= MaxCalls /\ used'.items = used.items + 1
    <2>1. Room(call, slot, used) /\ call \in [Threads -> CallType]
      BY InvTypes DEF IInv
    <2>2. used.items \in Nat /\ used.items + 1 <= MaxCalls
      BY <1>1, <2>1, RoomForPacket
    <2>3. used'.items = used.items + 1
      BY <1>2, InvTypes DEF UsedType
    <2> QED
      BY <2>2, <2>3
  <1>5. p \in Packets
    BY <1>4, BoundsAssumption DEF Packets
  <1>6. r \in CallType /\ r.pc = "ensure" /\ r.op = "item" /\ r.pkt = p
    BY <1>1, <1>5, Zenon DEF CallType, SubmitPcs
  <1> HIDE DEF p, r
  <1>7. ~Started(r) /\ Owns(r) /\ ~Owns(call[t])
    BY <1>1, <1>6 DEF Started, Owns, SubmitPcs, StartPcs
  <1>8. CallOK(r)
    BY <1>5, <1>6, <1>7 DEF CallOK
  <1>9. Flags'
    BY <1>2, FlagsKept
  <1>10. Shape(call', thr', slot')
    <2>1. StartOK(r, thr, slot)
      BY <1>7 DEF StartOK
    <2> QED
      BY <1>2, <1>7, <1>8, <2>1, ShapeCall, Zenon DEF IInv
  <1>11. Room(call', slot', used')
    <2>1. Room([call EXCEPT ![t] = r], slot, used')
      BY <1>1, <1>2, <1>6, InvTypes, RoomReserve, Zenon DEF IInv
    <2> QED
      BY <1>2, <2>1
  <1>12. StartParameterAlive'
    <2>1. \A u \in Threads : u # t => call'[u] = call[u]
      BY <1>2, InvTypes
    <2> QED
      BY <1>1, <1>2, <2>1 DEF IInv, StartParameterAlive, At
  <1>13. p \notin Items
    <2> SUFFICES ASSUME p \in Items PROVE FALSE
      OBVIOUS
    <2>1. p.id <= used.items
      BY DEF IInv, Books
    <2> QED
      BY <1>3, <1>4, <2>1
  <1>14. OnePlace(call, port, thr)
    BY DEF IInv, Books
  <1>15. Owned(call') = Owned(call) \cup {p} /\ OwnedOnce(call')
    <2>1. r.pkt \notin Owned(call) /\ OwnedOnce(call)
      BY <1>6, <1>13, <1>14 DEF Items, OnePlace
    <2> QED
      BY <1>2, <1>6, <1>7, <2>1, InvTypes, OwnedTaken, Zenon
  <1>16. Items' = Items \cup {p}
    BY <1>2, <1>15, Zenon DEF Items
  <1>17. OnePlace(call', port', thr')
    BY <1>2, <1>13, <1>14, <1>15, Zenon DEF OnePlace, Items
  <1>18. \A x \in Items' : x.id <= used'.items
    <2> TAKE x \in Items'
    <2>1. CASE x = p
      BY <1>3, <1>4, <2>1
    <2>2. CASE x # p
      <3>1. x \in Items /\ x.id <= used.items
        BY <1>16, <2>2 DEF IInv, Books
      <3>2. x.id \in Nat
        BY <3>1, PacketFacts, Zenon DEF IInv, Books, Counted
      <3> QED
        BY <1>4, <3>1, <3>2
    <2> QED
      BY <2>1, <2>2
  <1>19. Counted(Items', requests', longs')
    <2>1. requests[k.lane] < CounterMax /\ (k.long => longs[k.lane] < CounterMax)
      BY DEF Reserve, Fits
    <2>2. Counted(Items, requests, longs)
      BY DEF IInv, Books
    <2> QED
      BY <1>2, <1>3, <1>5, <1>13, <1>16, <2>1, <2>2, CountedMore, Zenon
  <1>20. MemoryIsExact'
    <2>1. heap' = Owned(call') \cup Queue(port') \cup Unread(thr')
      BY <1>2, <1>15, Zenon DEF IInv, MemoryIsExact
    <2>2. p \notin heap
      BY <1>13, Zenon DEF IInv, MemoryIsExact, Items, Unread, Working
    <2>3. tokens' = {x \in heap' : x.kind.token}
      BY <1>2, <1>3, <2>2, Zenon DEF IInv, MemoryIsExact
    <2> QED
      BY <2>1, <2>3 DEF MemoryIsExact
  <1>21. Books'
    BY <1>17, <1>18, <1>19 DEF Books
  <1> QED
    BY <1>9, <1>10, <1>11, <1>12, <1>20, <1>21 DEF IInv

(* WorkerFleet::reserve_completion: a new worker for the first free slot.  *)
LEMMA ReserveWorkerInv ==
    ASSUME IInv, NEW t \in Threads, ReserveWorker(t)
    PROVE  IInv'
  <1>1. PICK s \in Slots :
          /\ slot' = [slot EXCEPT ![s] = [state |-> "Starting", gen |-> @.gen + 1]]
          /\ call' = [call EXCEPT ![t].pc = "start", ![t].id = <<s, slot[s].gen + 1>>]
    BY Zenon DEF ReserveWorker, In
  <1> DEFINE i == <<s, slot[s].gen + 1>>
             r == [call[t] EXCEPT !.pc = "start", !.id = i]
             e == [call[t] EXCEPT !.pc = "start"]
  <1>2. call[t] \in CallType /\ CallOK(call[t]) /\ call[t].pc = "ensure"
    BY InvTypes DEF ReserveWorker, At
  <1>3. call' = [call EXCEPT ![t] = r] /\ UNCHANGED <<thr, port, counters, memory, used>>
    BY <1>1, Zenon DEF ReserveWorker
  <1>4. Room(call, slot, used) /\ Shape(call, thr, slot)
    BY DEF IInv
  <1>5. slot[s].gen \in Nat /\ slot[s].gen + 1 <= MaxCalls
    <2>1. e \in CallType /\ e.pc = "start"
      BY <1>2 DEF CallType, SubmitPcs, StartPcs
    <2> HIDE DEF e
    <2>2. slot[s].gen + 1 <= MaxCalls
      BY <1>2, <1>4, <2>1, InvTypes, RoomStart, Zenon
    <2>3. slot[s].gen \in Nat
      BY InvTypes DEF SlotType
    <2> QED
      BY <2>2, <2>3
  <1>6. i \in Ids
    BY <1>5, BoundsAssumption DEF Ids
  <1>7. r \in CallType /\ r.pc = "start" /\ r.id = i
        /\ r.op = call[t].op /\ r.pkt = call[t].pkt
    BY <1>2, <1>6, Zenon DEF CallType, SubmitPcs, StartPcs
  <1>8. r.id = <<s, slot[s].gen + 1>>
    BY <1>7
  <1> HIDE DEF r, i, e
  <1>9. Started(r) /\ (Owns(r) <=> Owns(call[t]))
    BY <1>2, <1>7 DEF Started, Owns, SubmitPcs, StartPcs
  <1>10. CallOK(r)
    BY <1>2, <1>6, <1>7, <1>9 DEF CallOK
  <1>11. Shape(call', thr', slot')
    <2>1. Shape([call EXCEPT ![t] = r], thr, slot')
      BY <1>1, <1>2, <1>4, <1>5, <1>7, <1>8, <1>10, ShapeReserve, Zenon
    <2> QED
      BY <1>3, <2>1
  <1>12. Room(call', slot', used')
    <2>1. Room([call EXCEPT ![t] = r], slot', used)
      BY <1>1, <1>2, <1>4, <1>7, InvTypes, RoomStart, Zenon
    <2> QED
      BY <1>3, <2>1
  <1>13. StartParameterAlive'
    <2>1. \A u \in Threads : u # t => call'[u] = call[u]
      BY <1>3, InvTypes
    <2> QED
      BY <1>2, <1>3, <2>1 DEF IInv, StartParameterAlive, At
  <1>14. Books' /\ MemoryIsExact'
    <2>1. OwnedOnce(call) /\ WorkingOnce(thr)
      BY DEF IInv, Books, OnePlace
    <2>2. Owned(call') = Owned(call) /\ OwnedOnce(call')
      BY <1>3, <1>7, <1>9, <2>1, InvTypes, OwnedKept, Zenon
    <2> QED
      BY <1>3, <2>1, <2>2, BooksKept
  <1>15. Flags'
    BY FlagsKept DEF ReserveWorker
  <1> QED
    BY <1>11, <1>12, <1>13, <1>14, <1>15 DEF IInv

(* A thread calls the pool.                                                *)
LEMMA BeginInv ==
    ASSUME IInv, NEW t \in Threads, NEW op \in {"item", "bind"}, Begin(t, op)
    PROVE  IInv'
  <1> DEFINE r == [call[t] EXCEPT !.pc = "init", !.op = op]
  <1>1. call[t] \in CallType /\ CallOK(call[t]) /\ call[t].pc = "idle"
    BY InvTypes DEF Begin, At
  <1>2. /\ call' = [call EXCEPT ![t] = r] /\ used.calls < MaxCalls
        /\ used' = [used EXCEPT !["calls"] = @ + 1]
        /\ UNCHANGED <<pool, port, slot, floor, counters, tid, memory, thr, bound>>
    BY Zenon DEF Begin, Spend, fleet
  <1>3. r \in CallType /\ r.pc = "init" /\ r.op = op
    BY <1>1, Zenon DEF CallType, EarlyPcs
  <1> HIDE DEF r
  <1>4. ~Started(r) /\ ~Owns(r) /\ ~Owns(call[t])
    BY <1>1, <1>3 DEF Started, Owns, SubmitPcs, StartPcs
  <1>5. CallOK(r)
    BY <1>3, <1>4 DEF CallOK
  <1>6. Shape(call', thr', slot')
    <2>1. StartOK(r, thr, slot)
      BY <1>4 DEF StartOK
    <2> QED
      BY <1>2, <1>4, <1>5, <2>1, ShapeCall, Zenon DEF IInv
  <1>7. Room(call', slot', used') /\ used'.items = used.items
    <2>1. Room([call EXCEPT ![t] = r], slot, used')
      BY <1>1, <1>2, <1>3, InvTypes, RoomBegin, Zenon DEF IInv
    <2>2. used'.items = used.items
      BY <1>2, InvTypes, Zenon DEF UsedType
    <2> QED
      BY <1>2, <2>1, <2>2
  <1>8. StartParameterAlive'
    <2>1. \A u \in Threads : u # t => call'[u] = call[u]
      BY <1>2, InvTypes, Zenon
    <2> QED
      BY <1>1, <1>2, <2>1 DEF IInv, StartParameterAlive, At
  <1>9. Books' /\ MemoryIsExact'
    <2>1. OwnedOnce(call) /\ WorkingOnce(thr)
      BY DEF IInv, Books, OnePlace
    <2>2. Owned(call') = Owned(call) /\ OwnedOnce(call')
      BY <1>2, <1>4, <2>1, InvTypes, OwnedKept, Zenon
    <2> QED
      BY <1>2, <1>7, <2>1, <2>2, BooksKept, Zenon
  <1>10. Flags'
    BY <1>2, FlagsKept
  <1> QED
    BY <1>6, <1>7, <1>8, <1>9, <1>10 DEF IInv

(* A completion of a bound file is no work item.                           *)
LEMMA IoCompletesInv ==
    ASSUME IInv, IoCompletes
    PROVE  IInv'
  <1>1. /\ port' = Append(port, IoPacket) /\ Spend("io")
        /\ UNCHANGED <<pool, slot, floor, counters, tid, memory, thr, call, bound>>
    BY DEF IoCompletes, fleet
  <1>2. Flags' /\ Steady
    BY <1>1, FlagsKept, SteadySpent
  <1>3. OnePlace(call, port, thr)
    BY DEF IInv, Books
  <1>4. Queue(port') = Queue(port) /\ QueuedOnce(port')
    <2>1. IoPacket \notin Queue(port) /\ QueuedOnce(port)
      BY <1>3 DEF Queue, OnePlace
    <2>2. /\ QueuedOnce(Append(port, IoPacket))
          /\ Queue(Append(port, IoPacket)) = (Queue(port) \cup {IoPacket}) \ {IoPacket}
      BY <2>1, QueueAppend
    <2> QED
      BY <1>1, <2>1, <2>2
  <1>5. Items' = Items /\ OnePlace(call', port', thr')
    BY <1>1, <1>3, <1>4 DEF Items, OnePlace
  <1>6. Books' /\ MemoryIsExact'
    BY <1>1, <1>2, <1>4, <1>5, Zenon
    DEF IInv, Books, MemoryIsExact, Steady, counters, memory
  <1>7. Room(call', slot', used') /\ Shape(call', thr', slot')
    BY <1>1, <1>2 DEF IInv, Room, Steady
  <1>8. StartParameterAlive'
    BY <1>1, Zenon DEF IInv, StartParameterAlive, At
  <1> QED
    BY <1>2, <1>6, <1>7, <1>8 DEF IInv

-----------------------------------------------------------------------------
(***************************************************************************)
(* The steps of a worker.                                                  *)
(***************************************************************************)

(* A worker without a packet goes on without one.                          *)
LEMMA QuietGoOn ==
    ASSUME IInv, NEW i \in Ids,
           NEW pc \in {"named", "loop", "idle", "stopping", "cleared", "failed", "exiting"},
           GoOn(i, pc),
           thr[i].pc \notin {"none", "suspended"} \cup WorkPcs,
           pc = "named" => thr[i].pc = "entered",
           UNCHANGED <<call, port, counters, memory>>, Steady, Flags'
    PROVE  IInv'
  <1> DEFINE w == [thr[i] EXCEPT !.pc = pc]
  <1>1. thr[i] \in WorkerType /\ thr' = [thr EXCEPT ![i] = w]
    BY InvTypes DEF GoOn
  <1>2. w \in WorkerType /\ w.pc = pc
    BY <1>1 DEF WorkerType
  <1> HIDE DEF w
  <1>3. ~Holds(w) /\ ~Holds(thr[i]) /\ w.pc # "dequeued" /\ thr[i].pc # "dequeued"
    BY <1>2 DEF Holds, WorkPcs
  <1>4. WorkerOK(w)
    BY <1>2 DEF WorkerOK, WorkPcs
  <1>5. /\ Holds(w) <=> Holds(thr[i])
        /\ Holds(w) => w.pkt = thr[i].pkt
        /\ w.pc = "dequeued" <=> thr[i].pc = "dequeued"
        /\ w.pc \in {"entered", "named"} => thr[i].pc \in {"entered", "named"}
    BY <1>2, <1>3
  <1> QED
    BY <1>1, <1>4, <1>5, QuietWorker, Zenon

(* A worker that runs no callback ends.                                    *)
LEMMA QuietExit ==
    ASSUME IInv, NEW i \in Ids, thr' = [thr EXCEPT ![i] = NoThread],
           thr[i].pc \notin {"none", "suspended"} \cup WorkPcs,
           UNCHANGED <<call, port, counters, memory>>, Steady, Flags'
    PROVE  IInv'
  <1>1. NoThread \in WorkerType /\ NoThread.pc = "none"
    BY DEF NoThread, WorkerType
  <1>2. WorkerOK(NoThread)
    BY <1>1 DEF WorkerOK, WorkPcs
  <1>3. ~Holds(NoThread) /\ ~Holds(thr[i]) /\ thr[i].pc # "dequeued"
    BY <1>1 DEF Holds, WorkPcs
  <1>4. /\ Holds(NoThread) <=> Holds(thr[i])
        /\ Holds(NoThread) => NoThread.pkt = thr[i].pkt
        /\ NoThread.pc = "dequeued" <=> thr[i].pc = "dequeued"
        /\ NoThread.pc \in {"entered", "named"} => thr[i].pc \in {"entered", "named"}
    BY <1>1, <1>3
  <1> QED
    BY <1>2, <1>4, QuietWorker, Zenon

(* A worker that gives its slot back is one of the fleet.                  *)
LEMMA SlotOf ==
    ASSUME NEW i \in Ids
    PROVE  i[1] \in Slots
  BY DEF Ids

(* The table of thread ids after one entry changed.                        *)
LEMMA TidStored ==
    ASSUME IInv, NEW i \in Ids, NEW x \in Ids \cup {NoId},
           tid' = [tid EXCEPT ![i[1]] = x], UNCHANGED <<pool, floor, bound>>
    PROVE  Flags'
  BY SlotOf DEF IInv, Flags

\* A new worker stores its thread id.
LEMMA StoreTidInv ==
    ASSUME IInv, NEW i \in Ids, StoreTid(i)
    PROVE  IInv'
  <1>1. Flags' /\ Steady
    BY TidStored, SteadyKept, Zenon DEF StoreTid, fleet
  <1> QED
    BY <1>1, QuietGoOn DEF StoreTid, Runs, WorkPcs

\* A new worker acknowledges its start and enters its loop.
LEMMA AcknowledgeInv ==
    ASSUME IInv, NEW i \in Ids, Acknowledge(i)
    PROVE  IInv'
  <1>1. Flags' /\ Steady
    BY FlagsKept, SteadyKept DEF Acknowledge, fleet
  <1> QED
    BY <1>1, QuietGoOn DEF Acknowledge, Runs, WorkPcs

\* A worker's wait on the port times out.
LEMMA TimesOutInv ==
    ASSUME IInv, NEW i \in Ids, TimesOut(i)
    PROVE  IInv'
  <1>1. Flags' /\ Steady
    BY FlagsKept, SteadyKept DEF TimesOut, fleet
  <1> QED
    BY <1>1, QuietGoOn DEF TimesOut, Runs, WorkPcs

\* A worker's wait on the port fails.
LEMMA RemoveFailsInv ==
    ASSUME IInv, NEW i \in Ids, RemoveFails(i)
    PROVE  IInv'
  <1>1. Flags' /\ Steady
    BY FlagsKept, SteadySpent DEF RemoveFails, fleet
  <1> QED
    BY <1>1, QuietGoOn DEF RemoveFails, Runs, WorkPcs

\* A stopping worker clears its thread id.
LEMMA ClearTidInv ==
    ASSUME IInv, NEW i \in Ids, ClearTid(i)
    PROVE  IInv'
  <1>1. Flags' /\ Steady
    BY TidStored, SteadyKept, Zenon DEF ClearTid, fleet
  <1> QED
    BY <1>1, QuietGoOn DEF ClearTid, Runs, WorkPcs

\* A worker that failed clears its thread id.
LEMMA FailedClearTidInv ==
    ASSUME IInv, NEW i \in Ids, FailedClearTid(i)
    PROVE  IInv'
  <1>1. Flags' /\ Steady
    BY TidStored, SteadyKept, Zenon DEF FailedClearTid, fleet
  <1> QED
    BY <1>1, QuietGoOn DEF FailedClearTid, Runs, WorkPcs

\* A worker asks to leave the fleet.
LEMMA RequestStopInv ==
    ASSUME IInv, NEW i \in Ids, RequestStop(i)
    PROVE  IInv'
  <1>1. Flags'
    BY FlagsKept DEF RequestStop
  <1>2. CASE MayStop(i)
    <2>1. Steady
      BY <1>2, SlotOf, SteadySlot DEF RequestStop
    <2> QED
      BY <1>1, <1>2, <2>1, QuietGoOn DEF RequestStop, Runs, WorkPcs
  <1>3. CASE ~MayStop(i)
    <2>1. Steady
      BY <1>3, SteadyKept DEF RequestStop
    <2> QED
      BY <1>1, <1>3, <2>1, QuietGoOn DEF RequestStop, Runs, WorkPcs
  <1> QED
    BY <1>2, <1>3

\* A worker's slot becomes free.
LEMMA FinishStopInv ==
    ASSUME IInv, NEW i \in Ids, FinishStop(i)
    PROVE  IInv'
  <1>1. Flags' /\ Steady
    BY FlagsKept, SlotOf, SteadySlot, Zenon DEF FinishStop
  <1> QED
    BY <1>1, QuietExit, Zenon DEF FinishStop, Runs, WorkPcs

(* finish_completion_worker_unexpected_exit tries again, or the worker     *)
(* ends.                                                                   *)
LEMMA UnexpectedExitInv ==
    ASSUME IInv, NEW i \in Ids, UnexpectedExit(i)
    PROVE  IInv'
  <1> DEFINE given == slot[i[1]].gen = i[2]
             held == slot[i[1]].state \in {"Running", "Stopping"}
             tries == thr[i].tries + 1
             w == [thr[i] EXCEPT !.tries = tries]
  <1>1. /\ Flags' /\ thr[i].pc = "exiting" /\ thr[i] \in WorkerType
        /\ UNCHANGED <<call, port, counters, memory, used>>
    BY FlagsKept, InvTypes DEF UnexpectedExit, Runs
  <1>2. \/ thr' = [thr EXCEPT ![i] = w] /\ UNCHANGED slot
        \/ /\ thr' = [thr EXCEPT ![i] = NoThread]
           /\ \/ slot' = [slot EXCEPT ![i[1]].state = "Free"]
              \/ UNCHANGED slot
    BY DEF UnexpectedExit
  <1>3. CASE thr' = [thr EXCEPT ![i] = w] /\ UNCHANGED slot
    <2>1. w \in WorkerType /\ w.pc = "exiting"
      BY <1>1 DEF WorkerType
    <2> HIDE DEF w
    <2>2. WorkerOK(w)
      BY <2>1 DEF WorkerOK, WorkPcs
    <2>3. /\ Holds(w) <=> Holds(thr[i])
          /\ Holds(w) => w.pkt = thr[i].pkt
          /\ w.pc = "dequeued" <=> thr[i].pc = "dequeued"
          /\ w.pc \in {"entered", "named"} => thr[i].pc \in {"entered", "named"}
      BY <1>1, <2>1 DEF Holds, WorkPcs
    <2>4. Steady
      BY <1>1, <1>3, SteadyKept
    <2> QED
      BY <1>1, <1>3, <2>2, <2>3, <2>4, QuietWorker, Zenon
  <1>4. CASE thr' = [thr EXCEPT ![i] = NoThread]
    <2>1. ASSUME Steady PROVE IInv'
      BY <1>1, <1>4, <2>1, QuietExit, Zenon DEF WorkPcs
    <2>2. CASE slot' = [slot EXCEPT ![i[1]].state = "Free"]
      BY <1>1, <2>1, <2>2, SlotOf, SteadySlot, Zenon
    <2>3. CASE UNCHANGED slot
      BY <1>1, <2>1, <2>3, SteadyKept
    <2>4. CASE thr' = [thr EXCEPT ![i] = w] /\ UNCHANGED slot
      BY <1>3, <2>4
    <2> QED
      BY <1>2, <2>2, <2>3, <2>4
  <1> QED
    BY <1>2, <1>3, <1>4

(* A worker takes the oldest packet from the port.                         *)
LEMMA RemoveInv ==
    ASSUME IInv, NEW i \in Ids, Remove(i)
    PROVE  IInv'
  <1> DEFINE p == Head(port)
             w == [thr[i] EXCEPT !.pc = "dequeued", !.pkt = p]
  <1>1. /\ thr[i] \in WorkerType /\ thr[i].pc = "loop" /\ port # <<>>
        /\ port' = Tail(port) /\ thr' = [thr EXCEPT ![i] = w]
        /\ UNCHANGED <<pool, slot, floor, counters, tid, memory, call, bound, used>>
    BY InvTypes, Zenon DEF Remove, Runs, fleet
  <1>2. OnePlace(call, port, thr)
    BY DEF IInv, Books
  <1>3. /\ QueuedOnce(port') /\ p \in Packets \cup {IoPacket}
        /\ Queue(port') = Queue(port) \ {p}
        /\ p # IoPacket => p \in Queue(port)
    BY <1>1, <1>2, QueueTail DEF OnePlace
  <1>4. w \in WorkerType /\ w.pc = "dequeued" /\ w.pkt = p
    BY <1>1, <1>3, Zenon DEF WorkerType, WorkPcs
  <1> HIDE DEF p, w
  <1>5. WorkerOK(w) /\ ~Holds(thr[i]) /\ (Holds(w) <=> p \in Packets)
    BY <1>1, <1>3, <1>4, PacketFacts DEF WorkerOK, Holds, WorkPcs
  <1>6. Flags'
    BY <1>1, FlagsKept
  <1>7. Shape(call', thr', slot')
    <2>1. Shape(call, thr, slot)
      BY DEF IInv
    <2>2. Shape(call, [thr EXCEPT ![i] = w], slot)
      BY <1>1, <1>5, <2>1, ShapeWorker, Zenon
    <2> QED
      BY <1>1, <2>2
  <1>8. Room(call', slot', used')
    BY <1>1 DEF IInv
  <1>9. StartParameterAlive'
    <2>1. \A j \in Ids : thr'[j] = IF j = i THEN w ELSE thr[j]
      BY <1>1, InvTypes
    <2> QED
      BY <1>1, <1>4, <2>1 DEF IInv, StartParameterAlive, At
  <1>10. CASE p \in Packets
    <2>1. p \in Queue(port) /\ p \notin Working(thr) /\ p \notin Owned(call)
      BY <1>2, <1>3, <1>10, PacketFacts DEF OnePlace
    <2>2. /\ Working(thr') = Working(thr) \cup {p}
          /\ Unread(thr') = Unread(thr) \cup {p}
          /\ WorkingOnce(thr')
      <3>1. Holds(w) /\ w.pkt \notin Working(thr)
        BY <1>4, <1>5, <1>10, <2>1
      <3> QED
        BY <1>1, <1>2, <1>4, <1>5, <3>1, InvTypes, WorkingTaken, Zenon DEF OnePlace
    <2>3. Items' = Items
      BY <1>1, <1>3, <2>1, <2>2, Zenon DEF Items
    <2>4. OnePlace(call', port', thr')
      BY <1>1, <1>2, <1>3, <2>1, <2>2, Zenon DEF OnePlace
    <2>5. Books'
      BY <1>1, <2>3, <2>4 DEF IInv, Books, counters
    <2>6. Owned(call') \cup Queue(port') \cup Unread(thr')
            = Owned(call) \cup Queue(port) \cup Unread(thr)
      BY <1>1, <1>3, <2>1, <2>2, Zenon
    <2>7. MemoryIsExact'
      BY <1>1, <2>6, Zenon DEF IInv, MemoryIsExact, memory
    <2> QED
      BY <1>6, <1>7, <1>8, <1>9, <2>5, <2>7 DEF IInv
  <1>11. CASE p \notin Packets
    <2>1. Queue(port') = Queue(port)
      BY <1>3, <1>11, Zenon DEF Queue
    <2>2. Working(thr') = Working(thr) /\ WorkingOnce(thr') /\ Unread(thr') = Unread(thr)
      BY <1>1, <1>2, <1>5, <1>11, InvTypes, WorkingNone, Zenon DEF OnePlace
    <2>3. Items' = Items /\ OnePlace(call', port', thr')
      BY <1>1, <1>2, <1>3, <2>1, <2>2, Zenon DEF OnePlace, Items
    <2>4. Books' /\ MemoryIsExact'
      BY <1>1, <2>1, <2>2, <2>3, Zenon DEF IInv, Books, MemoryIsExact, counters, memory
    <2> QED
      BY <1>6, <1>7, <1>8, <1>9, <2>4 DEF IInv
  <1> QED
    BY <1>10, <1>11

(* rtlp_execute_work_item frees the packet and closes its token before it  *)
(* calls the callback.                                                     *)
LEMMA StartCallbackInv ==
    ASSUME IInv, NEW i \in Ids, StartCallback(i)
    PROVE  IInv'
  <1> DEFINE p == thr[i].pkt
  <1>1. PICK imp \in BOOLEAN :
          thr' = [thr EXCEPT ![i].pc = "callback", ![i].imp = imp]
    BY Zenon DEF StartCallback
  <1> DEFINE w == [thr[i] EXCEPT !.pc = "callback", !.imp = imp]
  <1>2. /\ thr[i] \in WorkerType /\ WorkerOK(thr[i]) /\ thr[i].pc = "dequeued"
        /\ thr' = [thr EXCEPT ![i] = w]
        /\ heap' = heap \ {p} /\ tokens' = tokens \ {p}
        /\ UNCHANGED <<pool, port, slot, floor, counters, tid, call, bound, used>>
    BY <1>1, InvTypes, Zenon DEF StartCallback, Runs, fleet
  <1>3. w \in WorkerType /\ w.pc = "callback" /\ w.pkt = p
    BY <1>2, Zenon DEF WorkerType, WorkPcs
  <1> HIDE DEF w
  <1>4. WorkerOK(w) /\ (Holds(w) <=> Holds(thr[i])) /\ (Holds(w) => w.pkt = thr[i].pkt)
    BY <1>2, <1>3 DEF WorkerOK, Holds, WorkPcs
  <1>5. Flags'
    BY <1>2, FlagsKept
  <1>6. Shape(call', thr', slot')
    <2>1. Shape(call, thr, slot)
      BY DEF IInv
    <2>2. Shape(call, [thr EXCEPT ![i] = w], slot)
      BY <1>2, <1>4, <2>1, ShapeWorker, Zenon
    <2> QED
      BY <1>2, <2>2
  <1>7. Room(call', slot', used')
    BY <1>2 DEF IInv
  <1>8. StartParameterAlive'
    <2>1. \A j \in Ids : thr'[j] = IF j = i THEN w ELSE thr[j]
      BY <1>2, InvTypes
    <2> QED
      BY <1>2, <1>3, <2>1 DEF IInv, StartParameterAlive, At
  <1>9. OnePlace(call, port, thr)
    BY DEF IInv, Books
  <1>10. Working(thr') = Working(thr) /\ WorkingOnce(thr') /\ Unread(thr') = Unread(thr) \ {p}
    <2>1. w.pc # "dequeued"
      BY <1>3
    <2> DEFINE h == [thr EXCEPT ![i] = w]
    <2>2. Working(h) = Working(thr) /\ WorkingOnce(h) /\ Unread(h) = Unread(thr) \ {thr[i].pkt}
      BY <1>2, <1>4, <1>9, <2>1, InvTypes, WorkingKept, Zenon DEF OnePlace
    <2> QED
      BY <1>2, <2>2, Zenon
  <1>11. Items' = Items /\ OnePlace(call', port', thr')
    BY <1>2, <1>9, <1>10, Zenon DEF Items, OnePlace
  <1>12. Books'
    BY <1>2, <1>11 DEF IInv, Books, counters
  <1>13. p \notin Owned(call) /\ p \notin Queue(port)
    <2>1. CASE p \in Packets
      <3>1. p \in Working(thr)
        BY <1>2, <2>1 DEF Working, Holds, WorkPcs
      <3> QED
        BY <1>9, <3>1 DEF OnePlace
    <2>2. CASE p \notin Packets
      <3>1. Items \subseteq Packets
        BY DEF IInv, Books, Counted
      <3> QED
        BY <2>2, <3>1 DEF Items
    <2> QED
      BY <2>1, <2>2
  <1>14. MemoryIsExact'
    <2>1. heap' = Owned(call') \cup Queue(port') \cup Unread(thr')
      BY <1>2, <1>10, <1>13, Zenon DEF IInv, MemoryIsExact
    <2>2. tokens' = {x \in heap' : x.kind.token}
      BY <1>2 DEF IInv, MemoryIsExact
    <2> QED
      BY <2>1, <2>2 DEF MemoryIsExact
  <1> QED
    BY <1>5, <1>6, <1>7, <1>8, <1>12, <1>14 DEF IInv

(* The callback returns: a work item is still to be counted off, the       *)
(* completion of a file is done with.                                      *)
LEMMA CallbackReturnsInv ==
    ASSUME IInv, NEW i \in Ids, CallbackReturns(i)
    PROVE  IInv'
  <1> DEFINE w == [thr[i] EXCEPT !.pc = IF IsIo(i) THEN "loop" ELSE "account",
                                 !.imp = FALSE,
                                 !.pkt = IF IsIo(i) THEN NoPacket ELSE @]
  <1>1. /\ thr[i] \in WorkerType /\ WorkerOK(thr[i]) /\ thr[i].pc = "callback"
        /\ thr' = [thr EXCEPT ![i] = w]
        /\ UNCHANGED <<pool, port, slot, floor, counters, tid, memory, call, bound, used>>
    BY InvTypes, Zenon DEF CallbackReturns, Runs, fleet
  <1>2. thr[i].pkt \in Packets \cup {IoPacket} /\ (IsIo(i) <=> thr[i].pkt = IoPacket)
    BY <1>1 DEF WorkerOK, WorkerType, WorkPcs, IsIo
  <1>3. /\ w \in WorkerType
        /\ IsIo(i) => w.pc = "loop" /\ w.pkt = NoPacket
        /\ ~IsIo(i) => w.pc = "account" /\ w.pkt = thr[i].pkt
    BY <1>1, <1>2, Zenon DEF WorkerType, WorkPcs
  <1> HIDE DEF w
  <1>4. WorkerOK(w)
    BY <1>2, <1>3, PacketFacts DEF WorkerOK, WorkPcs
  <1>5. /\ Holds(w) <=> Holds(thr[i])
        /\ Holds(w) => w.pkt = thr[i].pkt
        /\ w.pc = "dequeued" <=> thr[i].pc = "dequeued"
        /\ w.pc \in {"entered", "named"} => thr[i].pc \in {"entered", "named"}
    BY <1>1, <1>2, <1>3, PacketFacts DEF Holds, WorkPcs
  <1>6. Flags' /\ Steady
    BY <1>1, FlagsKept, SteadyKept
  <1> QED
    BY <1>1, <1>4, <1>5, <1>6, QuietWorker, Zenon

(* complete_accounting counts the item off.                                *)
LEMMA CompleteAccountingInv ==
    ASSUME IInv, NEW i \in Ids, CompleteAccounting(i)
    PROVE  IInv'
  <1> DEFINE p == thr[i].pkt
             w == [thr[i] EXCEPT !.pc = "loop", !.pkt = NoPacket]
  <1>1. /\ thr[i] \in WorkerType /\ WorkerOK(thr[i]) /\ thr[i].pc = "account"
        /\ thr' = [thr EXCEPT ![i] = w] /\ Consume(p.kind)
        /\ UNCHANGED <<pool, port, slot, floor, tid, memory, call, bound, used>>
    BY InvTypes, Zenon DEF CompleteAccounting, Runs, fleet
  <1>2. p \in Packets /\ Holds(thr[i]) /\ thr[i].pc # "dequeued"
    BY <1>1 DEF WorkerOK, Holds, WorkPcs
  <1>3. w \in WorkerType /\ w.pc = "loop"
    BY <1>1, Zenon DEF WorkerType
  <1> HIDE DEF w
  <1>4. WorkerOK(w) /\ ~Holds(w)
    BY <1>3 DEF WorkerOK, Holds, WorkPcs
  <1>5. Flags'
    BY <1>1, FlagsKept
  <1>6. Shape(call', thr', slot')
    <2>1. Shape(call, thr, slot)
      BY DEF IInv
    <2>2. Shape(call, [thr EXCEPT ![i] = w], slot)
      BY <1>1, <1>4, <2>1, ShapeWorker, Zenon
    <2> QED
      BY <1>1, <2>2
  <1>7. Room(call', slot', used')
    BY <1>1 DEF IInv
  <1>8. StartParameterAlive'
    <2>1. \A j \in Ids : thr'[j] = IF j = i THEN w ELSE thr[j]
      BY <1>1, InvTypes
    <2> QED
      BY <1>1, <1>3, <2>1 DEF IInv, StartParameterAlive, At
  <1>9. OnePlace(call, port, thr)
    BY DEF IInv, Books
  <1>10. /\ Working(thr') = Working(thr) \ {p} /\ p \in Working(thr)
         /\ Unread(thr') = Unread(thr) /\ WorkingOnce(thr')
    <2> DEFINE h == [thr EXCEPT ![i] = w]
    <2>1. /\ Working(h) = Working(thr) \ {thr[i].pkt} /\ thr[i].pkt \in Working(thr)
          /\ Unread(h) = Unread(thr) /\ WorkingOnce(h)
      BY <1>2, <1>4, <1>9, InvTypes, WorkingGiven, ZenonT(30) DEF OnePlace
    <2> QED
      BY <1>1, <2>1, Zenon
  <1> HIDE DEF p
  <1>11. Items' = Items \ {p} /\ p \in Items
    BY <1>1, <1>9, <1>10, Zenon DEF Items, OnePlace
  <1>12. OnePlace(call', port', thr')
    BY <1>1, <1>9, <1>10, Zenon DEF OnePlace
  <1>13. Counted(Items', requests', longs')
    BY <1>1, <1>11, CountedLess, Zenon DEF Consume, IInv, Books
  <1>14. Books'
    BY <1>1, <1>11, <1>12, <1>13 DEF IInv, Books
  <1>15. MemoryIsExact'
    BY <1>1, <1>10 DEF IInv, MemoryIsExact, memory
  <1> QED
    BY <1>5, <1>6, <1>7, <1>8, <1>14, <1>15 DEF IInv

-----------------------------------------------------------------------------
(***************************************************************************)
(* The invariant.                                                          *)
(***************************************************************************)

(* No call, no worker, no work item.                                       *)
LEMMA InitInv ==
    Init => IInv
  <1> SUFFICES ASSUME Init PROVE IInv
    OBVIOUS
  <1>1. Flags
    BY Zenon DEF Init, Flags
  <1>2. /\ call \in [Threads -> CallType] /\ \A t \in Threads : call[t] = Idle
    BY IdleFacts DEF Init, CallOK
  <1>3. NoThread \in WorkerType /\ NoThread.pc = "none"
    BY DEF NoThread, WorkerType
  <1>4. thr \in [Ids -> WorkerType] /\ \A i \in Ids : thr[i] = NoThread
    BY <1>3 DEF Init
  <1>5. slot \in [Slots -> SlotType] /\ \A s \in Slots : slot[s].gen = 0
    BY DEF Init, SlotType
  <1>6. Shape(call, thr, slot)
    <2>1. WorkerOK(NoThread)
      BY <1>3 DEF WorkerOK, WorkPcs
    <2> QED
      BY <1>2, <1>3, <1>4, <1>5, <2>1, IdleFacts, Zenon DEF Shape, StartOK
  <1>7. Room(call, slot, used)
    <2>1. Pending(call) = {} /\ Early(call) = {}
      BY <1>2, IdleFacts DEF Pending, Early, PendingPcs, EarlyPcs
    <2>2. used \in UsedType /\ used.calls = 0 /\ used.items = 0
      BY DEF Init, UsedType
    <2> QED
      BY <1>5, <2>1, <2>2, FS_EmptySet, BoundsAssumption DEF Room
  <1>8. StartParameterAlive
    BY <1>3, <1>4 DEF StartParameterAlive
  <1>9. Owned(call) = {} /\ OwnedOnce(call)
    BY <1>2, IdleFacts DEF Owned, OwnedOnce
  <1>10. Working(thr) = {} /\ Unread(thr) = {} /\ WorkingOnce(thr)
    <2>1. ~Holds(NoThread)
      BY <1>3 DEF Holds, WorkPcs
    <2> QED
      BY <1>4, <2>1 DEF Working, Unread, WorkingOnce
  <1>11. Queue(port) = {} /\ QueuedOnce(port)
    BY DEF Init, Queue, QueuedOnce
  <1>12. Items = {}
    BY <1>9, <1>10, <1>11 DEF Items
  <1>13. Counted(Items, requests, longs)
    <2>1. \A l \in Lanes : Lane({}, l) = {} /\ LongLane({}, l) = {}
      BY DEF Lane, LongLane
    <2>2. /\ requests \in [Lanes -> 0..CounterMax] /\ longs \in [Lanes -> 0..CounterMax]
          /\ \A l \in Lanes : requests[l] = 0 /\ longs[l] = 0
      BY BoundsAssumption DEF Init
    <2>3. Counted({}, requests, longs)
      BY <2>1, <2>2, FS_EmptySet DEF Counted
    <2> QED
      BY <1>12, <2>3
  <1>14. Books
    BY <1>9, <1>10, <1>11, <1>12, <1>13 DEF Books, OnePlace
  <1>15. MemoryIsExact
    BY <1>9, <1>10, <1>11 DEF Init, MemoryIsExact
  <1> QED
    BY <1>1, <1>6, <1>7, <1>8, <1>14, <1>15 DEF IInv

(* Every step of a call, a worker or a bound file keeps the books.         *)
LEMMA StepInv ==
    IInv /\ [Next]_vars => IInv'
  <1> SUFFICES ASSUME IInv, [Next]_vars PROVE IInv'
    OBVIOUS
  <1>1. ASSUME NEW t \in Threads, CallStep(t) PROVE IInv'
    BY <1>1, PoolReadyInv, ClaimInitInv, ReserveInv, ReserveFailsInv, WorkerReadyInv,
       ReserveWorkerInv, SeeLatchInv, FinishStartInv, BindFileInv, CommitFloorInv,
       CleanupInv, FinishInitInv, CreateThreadInv, ResumeThreadInv, SetIoCompletionInv
    DEF CallStep
  <1>2. ASSUME NEW i \in Ids, WorkerStep(i) PROVE IInv'
    BY <1>2, StoreTidInv, AcknowledgeInv, RemoveInv, TimesOutInv, RequestStopInv,
       ClearTidInv, FinishStopInv, StartCallbackInv, CallbackReturnsInv,
       CompleteAccountingInv, FailedClearTidInv, UnexpectedExitInv
    DEF WorkerStep
  <1>3. CASE UNCHANGED vars
    <2>1. UNCHANGED <<pool, port, slot, floor, requests, longs, tid, heap, tokens, thr,
                      call, bound, used>>
      BY <1>3 DEF vars
    <2> QED
      BY <2>1, Zenon DEF IInv, Flags, StartParameterAlive, At, Books, MemoryIsExact, Items
  <1> QED
    BY <1>1, <1>2, <1>3, BeginInv, RemoveFailsInv, IoCompletesInv DEF Next

(* The books of the pool are always in order: worker identities and packet *)
(* numbers are never used twice, a work item is at one place only, and     *)
(* counters, heap and tokens agree with where the items are.               *)
THEOREM PoolBooksInvariance ==
    Spec => []IInv
  BY InitInv, StepInv, PTL DEF Spec

(* The places of the model's definitions are those of the invariant.       *)
LEMMA PlacesAgree ==
    ASSUME IInv
    PROVE  Outstanding = Items
  <1>1. Submitting = Owned(call)
    BY DEF Submitting, Owned, Owns, SubmitPcs, StartPcs
  <1>2. Queued = Queue(port)
    BY DEF Queued, Queue
  <1>3. Held(WorkPcs) = Working(thr)
    <2>1. \A i \in Ids : thr[i].pkt \in Packets \cup {NoPacket, IoPacket}
      BY InvTypes DEF WorkerType
    <2> QED
      BY <2>1, PacketFacts DEF Held, Working, Holds
  <1> QED
    BY <1>1, <1>2, <1>3 DEF Outstanding, Items, WorkPcs

(* PoolCounters counts exactly the work items that are outstanding, on     *)
(* every path of rtl_queue_work_item and rtlp_execute_work_item.           *)
THEOREM CountersAlwaysExact ==
    Spec => []CountersAreExact
  <1>1. IInv => CountersAreExact
    <2> SUFFICES ASSUME IInv PROVE CountersAreExact
      OBVIOUS
    <2>1. Counted(Outstanding, requests, longs)
      BY PlacesAgree DEF IInv, Books
    <2> QED
      BY <2>1 DEF CountersAreExact, Counted, Lane, LongLane
  <1> QED
    BY <1>1, PoolBooksInvariance, PTL

(* A worker reads its start parameter only while the thread that owns it   *)
(* waits in drive_pool_worker_start.                                       *)
THEOREM StartParameterAlwaysAlive ==
    Spec => []StartParameterAlive
  <1>1. IInv => StartParameterAlive
    BY DEF IInv
  <1> QED
    BY <1>1, PoolBooksInvariance, PTL

(* Packets are freed and tokens closed exactly once, by the worker before  *)
(* it calls the callback or by cleanup_failed_submission.                  *)
THEOREM PacketsFreedOnce ==
    Spec => []MemoryIsExact
  <1>1. IInv => MemoryIsExact
    BY DEF IInv
  <1> QED
    BY <1>1, PoolBooksInvariance, PTL

(* The counters stay within their width, no slot is given more generations *)
(* than there were calls, and every variable keeps its type.               *)
THEOREM PoolTypeCorrect ==
    Spec => []TypeOK
  <1>1. IInv => TypeOK
    <2> SUFFICES ASSUME IInv PROVE TypeOK
      OBVIOUS
    <2>1. /\ pool \in {"uninitialized", "initializing", "ready"}
          /\ floor \in BOOLEAN /\ bound \in BOOLEAN
          /\ \A s \in Slots : tid[s] \in Ids \cup {NoId}
      BY DEF IInv, Flags
    <2>2. \A n \in 1..Len(port) : port[n] \in Packets \cup {IoPacket}
      BY ElementOfSeq DEF IInv, Books, OnePlace, QueuedOnce
    <2>3. \A s \in Slots : /\ slot[s].state \in {"Free", "Starting", "Running", "Stopping"}
                           /\ slot[s].gen \in 0..MaxCalls
      <3> TAKE s \in Slots
      <3>1. slot[s] \in SlotType
        BY InvTypes
      <3>2. /\ Cardinality(Pending(call)) \in Nat /\ used.calls \in Nat
            /\ slot[s].gen + Cardinality(Pending(call)) <= used.calls
            /\ used.calls <= MaxCalls
        BY FS_CardinalityType DEF IInv, Room, UsedType
      <3> QED
        BY <3>1, <3>2, BoundsAssumption DEF SlotType
    <2>4. requests \in [Lanes -> 0..CounterMax] /\ longs \in [Lanes -> 0..CounterMax]
      BY DEF IInv, Books, Counted
    <2>5. heap \subseteq Packets /\ tokens \subseteq Packets
      <3>1. heap \subseteq Items
        BY Zenon DEF IInv, MemoryIsExact, Items, Unread, Working
      <3> QED
        BY <3>1 DEF IInv, MemoryIsExact, Books, Counted
    <2>6. \A i \in Ids : thr[i].pkt \in Packets \cup {NoPacket, IoPacket}
      BY InvTypes DEF WorkerType
    <2>7. \A t \in Threads : /\ call[t].pkt \in Packets \cup {NoPacket}
                             /\ call[t].id \in Ids \cup {NoId}
      BY InvTypes DEF CallType
    <2> QED
      BY <2>1, <2>2, <2>3, <2>4, <2>5, <2>6, <2>7, Zenon DEF TypeOK
  <1> QED
    BY <1>1, PoolBooksInvariance, PTL
=============================================================================
