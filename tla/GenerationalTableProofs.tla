----------------------- MODULE GenerationalTableProofs -----------------------
(***************************************************************************)
(* Proofs about GenerationalTable for every generation mask, 2^24 - 1 of   *)
(* the code included.  The invariant says where a slot's generation stands *)
(* relative to an id issued for it: as many steps ahead as the slot was    *)
(* reused, modulo one wrap.                                                *)
(***************************************************************************)
EXTENDS GenerationalTable, TLAPS

(* What a slot may look like d reuses after the id was issued.             *)
Ahead(id, gen, occupant, d) ==
    /\ d >= 0
    /\ d = 0 => gen = id.gen /\ occupant \in {None, id.occupant}
    /\ d > 0 /\ d < GenMask => gen = id.gen + d \/ gen = id.gen + d - GenMask

AheadInv ==
    \A id \in issued :
        Ahead(id, slots[id.slot].gen, slots[id.slot].occupant, Reuses(id))

IInv == TableAssumption /\ TypeOK /\ AheadInv

LEMMA GenerationRange ==
    ASSUME TableAssumption, NEW g \in 0 .. GenMask
    PROVE  NextGeneration(g) \in 1 .. GenMask
  BY DEF TableAssumption, NextGeneration

(* One more reuse moves the generation one step around the ring.           *)
LEMMA AheadStep ==
    ASSUME TableAssumption,
           NEW id \in [slot : Slot, gen : 1 .. GenMask, occupant : Nat \ {0}, at : Nat],
           NEW g \in 1 .. GenMask, NEW o \in Nat, NEW n \in Nat, NEW d \in Int,
           Ahead(id, g, o, d)
    PROVE  Ahead(id, NextGeneration(g), n, d + 1)
  <1>1. id.gen \in 1 .. GenMask
    OBVIOUS
  <1>2. CASE d = 0
    BY <1>1, <1>2 DEF TableAssumption, Ahead, NextGeneration
  <1>3. CASE d > 0
    BY <1>1, <1>3 DEF TableAssumption, Ahead, NextGeneration
  <1> QED BY <1>2, <1>3 DEF Ahead

LEMMA InitInvariant == TableAssumption /\ Init => IInv
  BY DEF TableAssumption, Init, IInv, TypeOK, AheadInv, None

LEMMA AllocateInvariant ==
    ASSUME IInv, NEW s \in Slot, Allocate(s)
    PROVE  IInv'
  <1> USE DEF IInv
  <1> DEFINE gen == NextGeneration(slots[s].gen)
             new == [slot |-> s, gen |-> gen, occupant |-> next, at |-> allocs[s] + 1]
  <1>1. gen \in 1 .. GenMask
    BY GenerationRange DEF TypeOK
  <1>2. /\ slots' = [slots EXCEPT ![s] = [gen |-> gen, occupant |-> next]]
        /\ issued' = issued \cup {new}
        /\ allocs' = [allocs EXCEPT ![s] = @ + 1]
        /\ next' = next + 1
    BY DEF Allocate
  <1>3. new \in [slot : Slot, gen : 1 .. GenMask, occupant : Nat \ {0}, at : Nat]
    BY <1>1 DEF TypeOK
  <1>4. [gen |-> gen, occupant |-> next] \in [gen : 0 .. GenMask, occupant : Nat]
    BY <1>1 DEF TypeOK
  <1> HIDE DEF gen
  <1>5. TypeOK'
    <2>1. slots' \in [Slot -> [gen : 0 .. GenMask, occupant : Nat]]
      BY <1>2, <1>4 DEF TypeOK
    <2>2. allocs' \in [Slot -> Nat] /\ next' \in Nat \ {0}
      BY <1>2 DEF TypeOK
    <2>3. issued' \in SUBSET [slot : Slot, gen : 1 .. GenMask, occupant : Nat \ {0}, at : Nat]
      BY <1>2, <1>3 DEF TypeOK
    <2> QED BY <2>1, <2>2, <2>3 DEF TypeOK
  <1>6. AheadInv'
    <2> SUFFICES ASSUME NEW id \in issued'
                 PROVE  Ahead(id, slots'[id.slot].gen, slots'[id.slot].occupant,
                              allocs'[id.slot] - id.at)
      BY DEF AheadInv, Reuses, Ahead
    <2>1. CASE id = new
      <3>1. /\ slots'[s] = [gen |-> gen, occupant |-> next]
            /\ allocs'[s] = allocs[s] + 1 /\ allocs[s] \in Nat
        BY <1>2 DEF TypeOK
      <3> QED
        BY <2>1, <3>1 DEF Ahead
    <2>2. CASE id \in issued /\ id.slot # s
      <3>1. slots'[id.slot] = slots[id.slot] /\ allocs'[id.slot] = allocs[id.slot]
        BY <1>2, <2>2 DEF TypeOK
      <3> QED
        BY <2>2, <3>1 DEF AheadInv, Reuses
    <2>3. CASE id \in issued /\ id.slot = s
      <3> DEFINE d == allocs[s] - id.at
      <3>1. id \in [slot : Slot, gen : 1 .. GenMask, occupant : Nat \ {0}, at : Nat]
        BY <2>3 DEF TypeOK
      <3>2. Ahead(id, slots[s].gen, slots[s].occupant, d)
        BY <2>3 DEF AheadInv, Reuses
      <3>3. d \in Int /\ slots[s].occupant \in Nat /\ slots[s].gen \in 0 .. GenMask /\ next \in Nat
        BY <3>1 DEF TypeOK
      <3>4. slots'[s].gen = gen /\ slots'[s].occupant = next /\ allocs'[s] - id.at = d + 1
        BY <1>2, <3>1 DEF TypeOK
      <3>5. CASE slots[s].gen # 0
        <4>1. slots[s].gen \in 1 .. GenMask
          BY <3>3, <3>5
        <4>2. Ahead(id, NextGeneration(slots[s].gen), next, d + 1)
          BY <3>1, <3>2, <3>3, <4>1, AheadStep
        <4> QED
          BY <2>3, <3>4, <4>2 DEF gen
      <3>6. CASE slots[s].gen = 0
        <4>1. id.gen \in 1 .. GenMask
          BY <3>1
        <4>2. d > 0
          BY <3>2, <3>3, <3>6, <4>1 DEF Ahead
        <4>3. gen = 1
          BY <3>6 DEF TableAssumption, gen, NextGeneration
        <4> HIDE DEF d
        <4> QED
          BY <2>3, <3>2, <3>3, <3>4, <3>6, <4>1, <4>2, <4>3 DEF TableAssumption, Ahead
      <3> QED BY <3>5, <3>6
    <2> QED BY <1>2, <2>1, <2>2, <2>3
  <1> QED BY <1>5, <1>6

LEMMA FreeInvariant ==
    ASSUME IInv, NEW s \in Slot, Free(s)
    PROVE  IInv'
  <1> USE DEF IInv
  <1>1. /\ slots' = [slots EXCEPT ![s].occupant = None]
        /\ UNCHANGED <<allocs, issued, next>>
    BY DEF Free
  <1>2. [slots[s] EXCEPT !.occupant = None] \in [gen : 0 .. GenMask, occupant : Nat]
    BY DEF TypeOK, None
  <1>3. TypeOK'
    BY <1>1, <1>2 DEF TypeOK
  <1>4. \A t \in Slot : slots'[t].gen = slots[t].gen /\ slots'[t].occupant \in {None, slots[t].occupant}
    BY <1>1 DEF TypeOK
  <1>5. AheadInv'
    BY <1>1, <1>4 DEF TypeOK, AheadInv, Ahead, Reuses
  <1> QED BY <1>3, <1>5

LEMMA NextInvariant == IInv /\ [Next]_vars => IInv'
  <1> SUFFICES ASSUME IInv, [Next]_vars PROVE IInv'
    OBVIOUS
  <1>1. CASE UNCHANGED vars
    BY <1>1 DEF vars, IInv, TableAssumption, TypeOK, AheadInv, Ahead, Reuses
  <1>2. CASE Next
    BY <1>2, AllocateInvariant, FreeInvariant DEF Next
  <1> QED BY <1>1, <1>2

LEMMA Aliasing == IInv => StaleIdsDoNotAlias
  <1> SUFFICES ASSUME IInv, NEW id \in issued, Reuses(id) < GenMask
               PROVE  Resolve(id) \in {None, id.occupant}
    BY DEF StaleIdsDoNotAlias
  <1>1. Ahead(id, slots[id.slot].gen, slots[id.slot].occupant, Reuses(id))
    BY DEF IInv, AheadInv
  <1>2. id.gen \in 1 .. GenMask /\ Reuses(id) \in Int
    BY DEF IInv, TypeOK, Reuses
  <1> QED
    BY <1>1, <1>2 DEF IInv, TableAssumption, Ahead, Resolve

(* With generations 1..GenMask, no id of ObjectStore or of a HandleTable   *)
(* ever resolves to a later occupant of its slot before the slot has been  *)
(* reused GenMask times.                                                   *)
THEOREM StaleIdsNeverAlias == TableAssumption /\ Spec => []StaleIdsDoNotAlias
  BY InitInvariant, NextInvariant, Aliasing, PTL DEF Spec

(* The generation field of every id stays within 1..GenMask, so packing it *)
(* into GEN_BITS loses nothing and no id is ever the null id.              *)
THEOREM GenerationsFitTheirBits == TableAssumption /\ Spec => []TypeOK
  <1>1. IInv => TypeOK
    BY DEF IInv
  <1> QED BY <1>1, InitInvariant, NextInvariant, PTL DEF Spec
=============================================================================
