--------------------------- MODULE ObjectWaitReply ---------------------------
(***************************************************************************)
(* How a parked object wait ends.  A row of the object-waiter table is     *)
(* claimed once: by a selected result, by a user APC, or by the teardown   *)
(* of its thread.  The claim then owes effects that may each fail before   *)
(* it is entered: releasing every reference (with a follow-up), staging    *)
(* the APC, sending the Reply, and retiring the Reply capability.  Retry   *)
(* flags bring later passes back to a row; the table survives the runtime  *)
(* of the thread.                                                          *)
(*                                                                         *)
(* An effect that calls out may reenter the executive: a nested call can   *)
(* claim other rows, request teardown of this one, and run a redrive of    *)
(* its own.  The stack holds the redrives that are running, outermost      *)
(* first; only the innermost one moves.                                    *)
(***************************************************************************)
EXTENDS Naturals, Sequences, FiniteSets

CONSTANTS
    Threads,
    MaxSlots,   \* bound on the slots of the table
    MaxRefs,    \* WAITER_MAX_EVENTS: the objects of one wait
    MaxDepth,   \* bound on nested redrives
    None

ASSUME BoundsAssumption ==
    MaxSlots \in Nat /\ MaxRefs \in Nat \ {0} /\ MaxDepth \in Nat

VARIABLES
    row,      \* the table: the owner of each slot
    len,      \* its slots so far
    retry,    \* RETRY_PENDING of the reply and of the APC driver
    term,     \* TERMINATION_PENDING
    runtime,  \* the runtime of each thread
    stack     \* the running redrives

vars == <<row, len, retry, term, runtime, stack>>

Slots == 1..MaxSlots
Kinds == {"reply", "apc"}
Effects == {"Release", "Followup", "Stage", "Send", "RetireSent", "Revoke", "Retype"}

Row ==
    [tid : Threads,
     kind : Kinds \cup {"unclaimed"},
     phase : {"Ready", "Invoking", "Indeterminate", "Complete"},
     effect : Effects,
     teardown : BOOLEAN,    \* disposition Teardown
     requested : BOOLEAN,   \* teardown_requested
     remaining : 0..MaxRefs,
     held : 0..MaxRefs,     \* references the row really holds
     followup : BOOLEAN,    \* reference_followup is Some
     staged : BOOLEAN,      \* the APC was installed and its claim consumed
     cap : {"bound", "uncertain", "sent", "revoked", "free"}]

(* A slot without a row is told apart from one with a row.                 *)
ASSUME NoneAssumption == None \notin Row

(* A redrive, a direct drive, or a pass over terminated runtimes.          *)
Frame ==
    [kind : Kinds \cup {"term"},
     cursor : 0..MaxSlots,
     limit : 0..MaxSlots,
     slot : 0..MaxSlots,    \* the row being driven, 0 for none
     busy : BOOLEAN,        \* inside an effect of that row
     effect : Effects,
     spent : Nat]           \* iterations of drive

(* Types of the table, the flags and the running redrives.                 *)
TypeOK ==
    /\ row \in [Slots -> Row \cup {None}]
    /\ len \in 0..MaxSlots
    /\ retry \in [Kinds -> BOOLEAN]
    /\ term \in BOOLEAN
    /\ runtime \in [Threads -> {"live", "terminating", "gone"}]
    /\ stack \in Seq(Frame)

Init ==
    /\ row = [s \in Slots |-> None]
    /\ len = 0
    /\ retry = [k \in Kinds |-> FALSE]
    /\ term = FALSE
    /\ runtime = [t \in Threads |-> "live"]
    /\ stack = <<>>

Top == stack[Len(stack)]
Inner(f) == [stack EXCEPT ![Len(stack)] = f]
Pop == SubSeq(stack, 1, Len(stack) - 1)

(* References and the APC frame are released or staged by calls that may   *)
(* come back; Send and the capability operations do not.                   *)
Callouts == {"Release", "Followup", "Stage"}

(* Whether another executive call may start now.                           *)
CanEnter ==
    stack # <<>> => Top.busy /\ (Top.kind = "term" \/ Top.effect \in Callouts)

Owned(s, t) == row[s] # None /\ row[s].tid = t
NoRow(t) == \A s \in Slots : ~Owned(s, t)

-----------------------------------------------------------------------------
(* The control of one row.                                                 *)

AfterReferences(r) ==
    IF r.teardown THEN "Revoke" ELSE IF r.kind = "apc" THEN "Stage" ELSE "Send"

(* A row is parked with at least one object, so its first effect is the    *)
(* release of the last reference.                                          *)
Claim(r, kind, teardown) ==
    [r EXCEPT !.kind = kind, !.phase = "Ready", !.effect = "Release",
              !.teardown = teardown, !.requested = teardown, !.remaining = r.held]

ToTarget == {"Stage", "Send"}

MutTeardown(r) ==
    IF r.requested THEN r
    ELSE IF r.effect \in ToTarget /\ r.phase # "Complete"
         THEN [r EXCEPT !.requested = TRUE, !.teardown = TRUE, !.phase = "Ready",
                        !.effect = "Revoke"]
         ELSE [r EXCEPT !.requested = TRUE, !.teardown = TRUE]

MutUnpin(r) ==
    IF r.requested THEN r
    ELSE IF r.phase = "Ready" /\ r.effect \in ToTarget
         THEN [r EXCEPT !.requested = TRUE, !.teardown = TRUE, !.effect = "Revoke"]
         ELSE [r EXCEPT !.requested = TRUE, !.teardown = TRUE]

(* request_teardown: an effect on the target that is not entered yet is    *)
(* replaced by the revocation; one that is entered or uncertain keeps the  *)
(* disposition until its outcome is known.                                 *)
RequestTeardown(r) ==
    IF r.requested THEN r
    ELSE IF r.effect \in ToTarget /\ r.phase = "Ready"
         THEN [r EXCEPT !.requested = TRUE, !.teardown = TRUE, !.effect = "Revoke"]
         ELSE IF r.effect \in ToTarget /\ r.phase \in {"Invoking", "Indeterminate"}
         THEN [r EXCEPT !.requested = TRUE]
         ELSE [r EXCEPT !.requested = TRUE, !.teardown = TRUE]

Ready(r, effect) == [r EXCEPT !.phase = "Ready", !.effect = effect]

NextReference(r) == IF r.remaining = 0 THEN AfterReferences(r) ELSE "Release"

(* The effect was performed, and its receipt recorded.                     *)
Completed(r) ==
    CASE r.effect = "Release" ->
            Ready([r EXCEPT !.held = @ - 1, !.followup = TRUE, !.remaining = @ - 1], "Followup")
      [] r.effect = "Followup" ->
            Ready([r EXCEPT !.followup = FALSE], NextReference(r))
      [] r.effect = "Stage" -> Ready([r EXCEPT !.staged = TRUE], "Send")
      [] r.effect = "Send" ->
            Ready([r EXCEPT !.cap = "sent", !.teardown = @ \/ r.requested], "RetireSent")
      [] r.effect = "RetireSent" -> [r EXCEPT !.cap = "free", !.phase = "Complete"]
      [] r.effect = "Revoke" -> Ready([r EXCEPT !.cap = "revoked"], "Retype")
      [] r.effect = "Retype" -> [r EXCEPT !.cap = "free", !.phase = "Complete"]

(* The effect committed nothing: it is retried, unless a teardown waits    *)
(* for the target to be given up.                                          *)
NotEntered(r) ==
    IF r.requested /\ r.effect \in ToTarget
    THEN [Ready(r, "Revoke") EXCEPT !.teardown = TRUE]
    ELSE Ready(r, r.effect)

-----------------------------------------------------------------------------
(* Executive calls that touch the table.                                   *)

FreeSlot(s) ==
    \/ s <= len /\ row[s] = None /\ \A i \in 1..(s - 1) : row[i] # None
    \/ s = len + 1 /\ \A i \in 1..len : row[i] # None

Park(t, refs) ==
    /\ CanEnter
    /\ runtime[t] = "live" /\ NoRow(t)
    /\ \E s \in Slots :
          /\ FreeSlot(s)
          /\ row' = [row EXCEPT ![s] =
                [tid |-> t, kind |-> "unclaimed", phase |-> "Ready", effect |-> "Release",
                 teardown |-> FALSE, requested |-> FALSE, remaining |-> refs, held |-> refs,
                 followup |-> FALSE, staged |-> FALSE, cap |-> "bound"]]
          /\ len' = IF s > len THEN s ELSE len
    /\ UNCHANGED <<retry, term, runtime, stack>>

(* A signal or a timeout selects the wait.                                 *)
Select(s) ==
    /\ CanEnter
    /\ row[s] # None /\ row[s].kind = "unclaimed"
    /\ row' = [row EXCEPT ![s] = Claim(@, "reply", FALSE)]
    /\ retry' = [retry EXCEPT !["reply"] = TRUE]
    /\ UNCHANGED <<len, term, runtime, stack>>

NewFrame(kind, cursor, slot) ==
    [kind |-> kind, cursor |-> cursor, limit |-> len, slot |-> slot, busy |-> FALSE,
     effect |-> "Release", spent |-> 0]

(* A user APC interrupts an alertable wait and drives its row at once.     *)
RequestApc(s) ==
    /\ CanEnter /\ Len(stack) < MaxDepth
    /\ row[s] # None /\ row[s].kind = "unclaimed"
    /\ runtime[row[s].tid] = "live"
    /\ row' = [row EXCEPT ![s] = Claim(@, "apc", FALSE)]
    /\ retry' = [retry EXCEPT !["apc"] = TRUE]
    /\ stack' = Append(stack, NewFrame("apc", MaxSlots, s))
    /\ UNCHANGED <<len, term, runtime>>

(* Both request_thread: every row of the thread learns of the teardown     *)
(* before any of them is driven.                                           *)
RequestThread(t) ==
    /\ CanEnter
    /\ runtime[t] # "gone"
    /\ runtime' = [runtime EXCEPT ![t] = "terminating"]
    /\ row' = [s \in Slots |->
                 IF ~Owned(s, t) THEN row[s]
                 ELSE IF row[s].kind = "unclaimed" THEN Claim(row[s], "reply", TRUE)
                 ELSE RequestTeardown(row[s])]
    /\ retry' = [k \in Kinds |->
                   \/ retry[k]
                   \/ \E s \in Slots :
                        Owned(s, t) /\ (row[s].kind = "apc" <=> k = "apc")]
    /\ UNCHANGED <<len, term, stack>>

(* The runtime is released only if no row still needs its target.          *)
HasDependency(t) ==
    \E s \in Slots : Owned(s, t) /\ row[s].kind # "unclaimed" /\ ~row[s].teardown

ReleaseRuntime(t) ==
    /\ CanEnter
    /\ runtime[t] = "terminating"
    /\ ~HasDependency(t)
    /\ runtime' = [runtime EXCEPT ![t] = "gone"]
    /\ UNCHANGED <<row, len, retry, term, stack>>

-----------------------------------------------------------------------------
(* redrive and drive.                                                      *)

Redrive(k) ==
    /\ CanEnter /\ Len(stack) < MaxDepth
    /\ retry[k]
    /\ retry' = [retry EXCEPT ![k] = FALSE]
    /\ stack' = Append(stack, NewFrame(k, 0, 0))
    /\ UNCHANGED <<row, len, term, runtime>>

(* The rows a pass still has to visit.                                     *)
Pending(f) ==
    {s \in 1..len : /\ s > f.cursor
                    /\ row[s] # None /\ row[s].kind = f.kind
                    /\ row[s].phase \in {"Ready", "Complete"}}

NextRow ==
    /\ stack # <<>> /\ Top.kind # "term" /\ Top.slot = 0
    /\ Pending(Top) # {}
    /\ \E s \in Pending(Top) :
          /\ \A i \in Pending(Top) : s <= i
          /\ IF s > Top.limit
                THEN /\ stack' = Pop
                     /\ retry' = [retry EXCEPT ![Top.kind] = TRUE]
                ELSE /\ stack' = Inner([Top EXCEPT !.cursor = s, !.slot = s, !.spent = 0])
                     /\ UNCHANGED retry
    /\ UNCHANGED <<row, len, term, runtime>>

EndPass ==
    /\ stack # <<>> /\ Top.kind # "term" /\ Top.slot = 0
    /\ Pending(Top) = {}
    /\ stack' = Pop
    /\ UNCHANGED <<row, len, retry, term, runtime>>

Driving == stack # <<>> /\ Top.kind # "term" /\ Top.slot # 0 /\ ~Top.busy
Leave == stack' = Inner([Top EXCEPT !.slot = 0])

MutBudget == 2 * MaxRefs + 3

(* Iterations of drive's loop.  BudgetSuffices: the loop never ends for    *)
(* lack of them; and a row that is being driven is never found entered or  *)
(* uncertain, so the two early exits of drive are not steps.               *)
Budget == 2 * MaxRefs + 4

(* A settled row leaves the table; a torn-down reply row stays until the   *)
(* runtime is gone.  Returning the claim of an unstaged APC may fail.      *)
DriveComplete ==
    /\ Driving
    /\ row[Top.slot].phase = "Complete"
    /\ \/ /\ Top.kind = "reply" /\ row[Top.slot].requested
          /\ term' = TRUE
          /\ UNCHANGED <<row, retry>>
       \/ /\ Top.kind = "reply" => ~row[Top.slot].requested
          /\ row' = [row EXCEPT ![Top.slot] = None]
          /\ UNCHANGED <<retry, term>>
       \/ /\ Top.kind = "apc" /\ ~row[Top.slot].staged
          /\ retry' = [retry EXCEPT !["apc"] = TRUE]
          /\ UNCHANGED <<row, term>>
    /\ Leave
    /\ UNCHANGED <<len, runtime>>

Begin ==
    /\ Driving
    /\ row[Top.slot].phase = "Ready"
    /\ row' = [row EXCEPT ![Top.slot].phase = "Invoking"]
    /\ stack' = Inner([Top EXCEPT !.busy = TRUE, !.effect = row[Top.slot].effect,
                                  !.spent = @ + 1])
    /\ UNCHANGED <<len, retry, term, runtime>>

(* Stage looks at the teardown again after its copyout; Stage and Send     *)
(* validate the caller.                                                    *)
MayComplete(r) ==
    /\ r.effect = "Stage" => ~r.requested
    /\ r.effect \in ToTarget => runtime[r.tid] # "gone"

Invoked == stack # <<>> /\ Top.kind # "term" /\ Top.busy

RecordCompleted ==
    /\ Invoked
    /\ MayComplete(row[Top.slot])
    /\ row' = [row EXCEPT ![Top.slot] = Completed(@)]
    /\ stack' = Inner([Top EXCEPT !.busy = FALSE])
    /\ UNCHANGED <<len, retry, term, runtime>>

MutForgetRetry ==
    /\ Invoked
    /\ row' = [row EXCEPT ![Top.slot] = NotEntered(@)]
    /\ stack' = Inner([Top EXCEPT !.busy = FALSE, !.slot = 0])
    /\ UNCHANGED <<len, retry, term, runtime>>

RecordNotEntered ==
    /\ Invoked
    /\ row' = [row EXCEPT ![Top.slot] = NotEntered(@)]
    /\ retry' = [retry EXCEPT ![Top.kind] = TRUE]
    /\ stack' = Inner([Top EXCEPT !.busy = FALSE, !.slot = 0])
    /\ UNCHANGED <<len, term, runtime>>

RecordIndeterminate ==
    /\ Invoked /\ Top.effect = "Send"
    /\ runtime[row[Top.slot].tid] # "gone"
    /\ row' = [row EXCEPT ![Top.slot].phase = "Indeterminate", ![Top.slot].cap = "uncertain"]
    /\ stack' = Inner([Top EXCEPT !.busy = FALSE, !.slot = 0])
    /\ UNCHANGED <<len, retry, term, runtime>>

-----------------------------------------------------------------------------
(* redrive_terminated_runtimes.                                            *)

Active == \E i \in DOMAIN stack : stack[i].kind = "term"

TerminatedPass ==
    /\ CanEnter /\ Len(stack) < MaxDepth
    /\ ~Active /\ term
    /\ term' = FALSE
    /\ stack' = Append(stack, NewFrame("term", 0, 0))
    /\ UNCHANGED <<row, len, retry, runtime>>

Settled(s) ==
    row[s] # None /\ row[s].kind = "reply" /\ row[s].phase = "Complete" /\ row[s].requested

InTerm == stack # <<>> /\ Top.kind = "term"

Visit ==
    /\ InTerm /\ ~Top.busy /\ Top.cursor < Top.limit
    /\ stack' = Inner([Top EXCEPT !.cursor = @ + 1, !.slot = Top.cursor + 1,
                                  !.busy = Settled(Top.cursor + 1)])
    /\ UNCHANGED <<row, len, retry, term, runtime>>

(* reconcile has retried the termination.                                  *)
Reconciled ==
    /\ InTerm /\ Top.busy
    /\ IF runtime[row[Top.slot].tid] = "gone"
          THEN row' = [row EXCEPT ![Top.slot] = None] /\ UNCHANGED term
          ELSE term' = TRUE /\ UNCHANGED row
    /\ stack' = Inner([Top EXCEPT !.busy = FALSE])
    /\ UNCHANGED <<len, retry, runtime>>

EndTerminatedPass ==
    /\ InTerm /\ ~Top.busy /\ Top.cursor = Top.limit
    /\ stack' = Pop
    /\ UNCHANGED <<row, len, retry, term, runtime>>

Drive ==
    \/ NextRow \/ EndPass \/ DriveComplete \/ Begin
    \/ RecordCompleted \/ RecordNotEntered \/ RecordIndeterminate
    \/ Visit \/ Reconciled \/ EndTerminatedPass

Next ==
    \/ \E t \in Threads : \/ \E refs \in 1..MaxRefs : Park(t, refs)
                          \/ RequestThread(t)
                          \/ ReleaseRuntime(t)
    \/ \E s \in Slots : Select(s) \/ RequestApc(s)
    \/ \E k \in Kinds : Redrive(k)
    \/ TerminatedPass
    \/ Drive

Spec == Init /\ [][Next]_vars

-----------------------------------------------------------------------------
(* Properties.                                                             *)

(* The receipt of an entered effect still finds its row, in the phase and  *)
(* with the effect it entered, whatever nested calls did meanwhile: the    *)
(* driver's expectations cannot fail.                                      *)
ReceiptMatches ==
    \A i \in DOMAIN stack :
        stack[i].busy =>
            LET f == stack[i] IN
            /\ row[f.slot] # None
            /\ IF f.kind = "term" THEN Settled(f.slot)
               ELSE /\ row[f.slot].kind = f.kind
                    /\ row[f.slot].phase = "Invoking"
                    /\ row[f.slot].effect = f.effect

(* The pass will come to the row, or is at it.                             *)
Reaches(f, kind, s) ==
    /\ f.kind = kind
    /\ \/ f.slot = s /\ (kind = "term" => f.busy)
       \/ f.cursor < s /\ (kind = "term" => s <= f.limit)

(* Some running pass will come to the row.                                 *)
Ahead(kind, s) == \E i \in DOMAIN stack : Reaches(stack[i], kind, s)

(* A claimed row with work left is never forgotten: the retry flag of its  *)
(* driver is set, or a running pass will come to it; a torn-down row waits *)
(* for the pass over terminated runtimes.                                  *)
NoForgottenRow ==
    \A s \in Slots :
        row[s] # None /\ row[s].kind # "unclaimed"
            /\ row[s].phase \in {"Ready", "Complete"} =>
            \/ retry[row[s].kind]
            \/ Ahead(row[s].kind, s)
            \/ Settled(s) /\ (term \/ Ahead("term", s))

(* A Stage or Send that is entered, or whose outcome is unknown, still has *)
(* the runtime it was aimed at: teardown waits for the definite outcome.   *)
TargetOutlivesEffect ==
    \A s \in Slots :
        row[s] # None /\ row[s].effect \in ToTarget
            /\ row[s].phase \in {"Invoking", "Indeterminate"} =>
            runtime[row[s].tid] # "gone"

(* One drive has enough iterations for a row with the most references and  *)
(* whatever teardown does to it: it settles the row or stops at a failure. *)
BudgetSuffices ==
    \A i \in DOMAIN stack :
        stack[i].slot # 0 /\ ~stack[i].busy => stack[i].spent < Budget

=============================================================================
