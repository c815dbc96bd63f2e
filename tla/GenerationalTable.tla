------------------------- MODULE GenerationalTable -------------------------
(***************************************************************************)
(* The generation-protected slot map that both the object store and every  *)
(* client's handle table of nt-object-manager are.  An id is a slot and the*)
(* generation the slot had when the id was issued; freeing leaves the      *)
(* generation, the next allocation of the slot advances it.  Generations   *)
(* run over 1..GenMask and wrap: GenMask is 2^24 - 1 in the code.          *)
(***************************************************************************)
EXTENDS Integers

CONSTANTS
    GenMask,       \* the largest generation
    MaxSlots,      \* bound on the slots
    MaxReuses      \* bound on the allocations of one slot

(* What the constants of the code satisfy; the hypothesis of the theorems. *)
TableAssumption == GenMask \in Nat \ {0} /\ MaxSlots \in Nat /\ MaxReuses \in Nat

Slot == 0 .. MaxSlots - 1

None == 0          \* no occupant; occupants are numbered from 1

VARIABLES
    slots,    \* generation and occupant of each slot; generation 0: not yet pushed
    allocs,   \* history: how often each slot was allocated
    issued,   \* history: every id handed out, with its occupant and allocs at that time
    next      \* history: the next occupant

vars == <<slots, allocs, issued, next>>

(* Generations fit the bits of an ObjectId or a HandleValue, and no issued *)
(* id has the null generation.                                             *)
TypeOK ==
    /\ slots \in [Slot -> [gen : 0 .. GenMask, occupant : Nat]]
    /\ allocs \in [Slot -> Nat]
    /\ issued \in SUBSET [slot : Slot, gen : 1 .. GenMask, occupant : Nat \ {0}, at : Nat]
    /\ next \in Nat \ {0}

Init ==
    /\ slots = [s \in Slot |-> [gen |-> 0, occupant |-> None]]
    /\ allocs = [s \in Slot |-> 0]
    /\ issued = {}
    /\ next = 1
-----------------------------------------------------------------------------
(* Generation::next: wraps within the mask and skips the null generation.  *)
NextGeneration(g) == IF g = GenMask THEN 1 ELSE g + 1

(* find_free_slot: the first slot without an occupant, or one past the end.*)
FirstFree(s) ==
    /\ slots[s].occupant = None
    /\ \A t \in Slot : t < s => slots[t].occupant # None

(* allocate, and HandleTable::insert.                                      *)
Allocate(s) ==
    /\ FirstFree(s)
    /\ allocs[s] < MaxReuses
    /\ LET gen == NextGeneration(slots[s].gen) IN
         /\ slots' = [slots EXCEPT ![s] = [gen |-> gen, occupant |-> next]]
         /\ issued' = issued \cup
                        {[slot |-> s, gen |-> gen, occupant |-> next, at |-> allocs[s] + 1]}
    /\ allocs' = [allocs EXCEPT ![s] = @ + 1]
    /\ next' = next + 1

(* The last strong reference drops, or the handle is closed.               *)
Free(s) ==
    /\ slots[s].occupant # None
    /\ slots' = [slots EXCEPT ![s].occupant = None]
    /\ UNCHANGED <<allocs, issued, next>>

(* resolve, and HandleTable::get: None is STATUS_INVALID_HANDLE.           *)
Resolve(id) ==
    IF slots[id.slot].gen = id.gen THEN slots[id.slot].occupant ELSE None

Next == \E s \in Slot : Allocate(s) \/ Free(s)

Spec == Init /\ [][Next]_vars
-----------------------------------------------------------------------------
Reuses(id) == allocs[id.slot] - id.at

(* Until its slot was reused GenMask times, an id resolves to its own      *)
(* occupant or to nothing, whatever was allocated and freed since.         *)
StaleIdsDoNotAlias ==
    \A id \in issued : Reuses(id) < GenMask => Resolve(id) \in {None, id.occupant}

=============================================================================
