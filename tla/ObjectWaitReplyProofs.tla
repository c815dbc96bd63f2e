------------------------ MODULE ObjectWaitReplyProofs ------------------------
(***************************************************************************)
(* The books of the object-waiter table, for any number of threads, slots, *)
(* references and nested redrives.                                         *)
(*                                                                         *)
(* None of the four properties is inductive alone.  ReceiptMatches needs   *)
(* that every redrive but the innermost is inside an effect, and that no   *)
(* two of them are inside effects of one row.  NoForgottenRow needs        *)
(* ReceiptMatches, since a receipt is what makes a row ready again.        *)
(* TargetOutlivesEffect needs that an effect on the target is never        *)
(* entered under the disposition Teardown, and that the runtime goes only  *)
(* when every row of its thread has it.  BudgetSuffices needs a bound on   *)
(* the effects a row still owes.                                           *)
(***************************************************************************)
EXTENDS ObjectWaitReply, SequenceTheorems, TLAPS

-----------------------------------------------------------------------------
(* Rows.                                                                   *)

(* How many effects a drive can still have to enter for the row.           *)
Work(r) ==
    IF r.phase = "Complete" THEN 0
    ELSE IF r.effect = "Release" THEN 2 * r.remaining + 3
    ELSE IF r.effect = "Followup" THEN 2 * r.remaining + 4
    ELSE IF r.effect = "Stage" THEN 3
    ELSE IF r.effect \in {"Send", "Revoke"} THEN 2
    ELSE 1

(* What holds of a row whoever drives it.                                  *)
RowOK(r) ==
    /\ r.kind = "unclaimed" => r.phase = "Ready" /\ r.effect = "Release"
    /\ r.remaining = r.held
    /\ r.effect = "Release" => r.remaining # 0
    /\ r.effect = "Followup" => r.remaining < MaxRefs
    /\ r.effect \in ToTarget => ~r.teardown /\ r.phase # "Complete"

(* What the runtime of its thread says about a row.                        *)
RuntimeOK(r, rt) ==
    /\ rt # "live" => r.kind # "unclaimed"
    /\ rt = "gone" => r.teardown

(* A torn-down row whose reply is settled: it waits for the runtime.       *)
Done(r) == r # None /\ r.kind = "reply" /\ r.phase = "Complete" /\ r.requested

(* Every row is within the table, in order, and true to its runtime.       *)
RowsOK ==
    \A s \in Slots :
        row[s] # None =>
            s <= len /\ RowOK(row[s]) /\ RuntimeOK(row[s], runtime[row[s].tid])

-----------------------------------------------------------------------------
(* Running redrives.                                                       *)

(* A driver inside an effect finds its row as it left it; between effects  *)
(* it finds the row ready for the next one; and it can afford the rest.    *)
FrameOK(f, rows) ==
    /\ f.busy => f.slot # 0
    /\ f.kind = "term" => f.spent = 0 /\ (f.busy => Done(rows[f.slot]))
    /\ f.kind # "term" /\ f.slot # 0 =>
          /\ rows[f.slot] # None
          /\ rows[f.slot].kind = f.kind
          /\ f.busy => /\ rows[f.slot].phase = "Invoking"
                       /\ rows[f.slot].effect = f.effect
                       /\ f.spent + Work(rows[f.slot]) <= Budget
          /\ ~f.busy => /\ rows[f.slot].phase \in {"Ready", "Complete"}
                        /\ f.spent + Work(rows[f.slot]) < Budget

(* There is one pass over terminated runtimes, and two drivers are never   *)
(* inside effects of the same row.                                         *)
Apart(f, g) ==
    /\ ~(f.kind = "term" /\ g.kind = "term")
    /\ f.busy /\ g.busy /\ f.kind # "term" /\ g.kind # "term" => f.slot # g.slot

(* Every redrive but the innermost is inside an effect.                    *)
StackOK(stk, rows) ==
    /\ \A i \in 1..Len(stk) : FrameOK(stk[i], rows)
    /\ \A i \in 1..Len(stk) : i < Len(stk) => stk[i].busy
    /\ \A i, j \in 1..Len(stk) : i < j => Apart(stk[i], stk[j])

(* Some redrive of the stack will come to the row.                         *)
InReach(stk, kind, s) == \E i \in 1..Len(stk) : Reaches(stk[i], kind, s)

(* NoForgottenRow for one slot.                                            *)
Served(r, s, rt, tm, stk) ==
    r # None /\ r.kind # "unclaimed" /\ r.phase \in {"Ready", "Complete"} =>
        \/ rt[r.kind]
        \/ InReach(stk, r.kind, s)
        \/ Done(r) /\ (tm \/ InReach(stk, "term", s))

AllServed == \A s \in Slots : Served(row[s], s, retry, term, stack)

(* The inductive invariant.                                                *)
IInv == TypeOK /\ RowsOK /\ StackOK(stack, row) /\ AllServed

-----------------------------------------------------------------------------
(* What the operations on a row do.                                        *)

(* A claim turns a parked row into one that owes its last reference.       *)
LEMMA ClaimRow ==
  ASSUME NEW r \in Row, RowOK(r), r.kind = "unclaimed", NEW kind \in Kinds
  PROVE  /\ Claim(r, kind, FALSE) \in Row /\ RowOK(Claim(r, kind, FALSE))
         /\ Claim(r, kind, FALSE).tid = r.tid /\ Claim(r, kind, FALSE).kind = kind
         /\ Claim(r, kind, FALSE).phase = "Ready"
         /\ Claim(r, kind, TRUE) \in Row /\ RowOK(Claim(r, kind, TRUE))
         /\ Claim(r, kind, TRUE).tid = r.tid /\ Claim(r, kind, TRUE).kind = kind
  <1>1. ASSUME NEW c, c = Claim(r, kind, FALSE)
        PROVE  /\ c \in Row /\ RowOK(c)
               /\ c.tid = r.tid /\ c.kind = kind /\ c.phase = "Ready"
    BY <1>1, Zenon DEF Claim, Row, RowOK, Kinds, ToTarget, Effects
  <1>2. ASSUME NEW c, c = Claim(r, kind, TRUE)
        PROVE  c \in Row /\ RowOK(c) /\ c.tid = r.tid /\ c.kind = kind
    BY <1>2, Zenon DEF Claim, Row, RowOK, Kinds, ToTarget, Effects
  <1> QED  BY <1>1, <1>2, Zenon

(* A teardown request leaves an entered effect alone, never takes the      *)
(* disposition back and adds no work.                                      *)
LEMMA TeardownRow ==
  ASSUME NEW r \in Row, RowOK(r), r.kind # "unclaimed",
         NEW c, c = RequestTeardown(r)
  PROVE  /\ c \in Row /\ RowOK(c)
         /\ c.tid = r.tid /\ c.kind = r.kind /\ c.phase = r.phase
         /\ c.remaining = r.remaining
         /\ r.phase = "Invoking" => c.effect = r.effect
         /\ r.teardown => c.teardown
         /\ r.requested => c.requested
  BY ZenonT(30) DEF RequestTeardown, Row, RowOK, ToTarget, Effects

(* A receipt makes the row ready for its next effect, or settled, and      *)
(* leaves less to do.                                                      *)
LEMMA CompletedRow ==
  ASSUME NEW r \in Row, RowOK(r), r.kind \in Kinds, r.phase = "Invoking",
         NEW c, c = Completed(r)
  PROVE  /\ c \in Row /\ RowOK(c)
         /\ c.tid = r.tid /\ c.kind = r.kind
         /\ c.phase \in {"Ready", "Complete"}
         /\ r.teardown => c.teardown
         /\ Work(c) < Work(r)
  <1> DEFINE Fields(phase, effect, remaining) ==
               /\ c \in Row
               /\ c.tid = r.tid /\ c.kind = r.kind
               /\ c.phase = phase /\ c.effect = effect
               /\ c.remaining = remaining /\ c.held = remaining
               /\ r.teardown => c.teardown
               /\ ~r.teardown /\ effect \in ToTarget => ~c.teardown
  <1>1. CASE r.effect = "Release"
    <2>1. c = Ready([r EXCEPT !.held = @ - 1, !.followup = TRUE, !.remaining = @ - 1],
                    "Followup")
      BY <1>1 DEF Completed
    <2>2. Fields("Ready", "Followup", r.remaining - 1)
      <3>1. r.remaining - 1 \in 0..MaxRefs /\ r.held = r.remaining
        BY <1>1, BoundsAssumption DEF Row, RowOK
      <3>2. c = [r EXCEPT !.held = r.remaining - 1, !.followup = TRUE,
                          !.remaining = r.remaining - 1, !.phase = "Ready",
                          !.effect = "Followup"]
        BY <2>1, <3>1 DEF Ready, Row
      <3> QED  BY <3>1, <3>2, ZenonT(30) DEF Row, Effects, ToTarget
    <2> QED  BY <1>1, <2>2, BoundsAssumption DEF Row, RowOK, Work, ToTarget, Kinds
  <1>2. CASE r.effect = "Stage"
    <2>1. c = Ready([r EXCEPT !.staged = TRUE], "Send")
      BY <1>2 DEF Completed
    <2>2. Fields("Ready", "Send", r.remaining)
      BY <1>2, <2>1, Zenon DEF Row, RowOK, Ready, Effects, ToTarget
    <2> QED  BY <1>2, <2>2 DEF Row, RowOK, Work, ToTarget, Kinds
  <1>3. CASE r.effect = "Send"
    <2>1. c = Ready([r EXCEPT !.cap = "sent", !.teardown = @ \/ r.requested], "RetireSent")
      BY <1>3 DEF Completed
    <2>2. Fields("Ready", "RetireSent", r.remaining)
      BY <1>3, <2>1, Zenon DEF Row, RowOK, Ready, Effects, ToTarget
    <2> QED  BY <1>3, <2>2 DEF Row, RowOK, Work, ToTarget, Kinds
  <1>4. CASE r.effect = "RetireSent"
    <2>1. c = [r EXCEPT !.cap = "free", !.phase = "Complete"]
      BY <1>4 DEF Completed
    <2>2. Fields("Complete", "RetireSent", r.remaining)
      BY <1>4, <2>1, Zenon DEF Row, RowOK, Ready, Effects, ToTarget
    <2> QED  BY <1>4, <2>2 DEF Row, RowOK, Work, ToTarget, Kinds
  <1>5. CASE r.effect = "Revoke"
    <2>1. c = Ready([r EXCEPT !.cap = "revoked"], "Retype")
      BY <1>5 DEF Completed
    <2>2. Fields("Ready", "Retype", r.remaining)
      BY <1>5, <2>1, Zenon DEF Row, RowOK, Ready, Effects, ToTarget
    <2> QED  BY <1>5, <2>2 DEF Row, RowOK, Work, ToTarget, Kinds
  <1>6. CASE r.effect = "Retype"
    <2>1. c = [r EXCEPT !.cap = "free", !.phase = "Complete"]
      BY <1>6 DEF Completed
    <2>2. Fields("Complete", "Retype", r.remaining)
      BY <1>6, <2>1, Zenon DEF Row, RowOK, Ready, Effects, ToTarget
    <2> QED  BY <1>6, <2>2 DEF Row, RowOK, Work, ToTarget, Kinds
  <1>7. CASE r.effect = "Followup"
    <2>1. c = Ready([r EXCEPT !.followup = FALSE], NextReference(r))
      BY <1>7 DEF Completed
    <2>2. /\ NextReference(r) \in {"Release", "Revoke", "Stage", "Send"}
          /\ NextReference(r) = "Release" <=> r.remaining # 0
          /\ NextReference(r) \in ToTarget => ~r.teardown
      BY DEF NextReference, AfterReferences, ToTarget
    <2>3. Fields("Ready", NextReference(r), r.remaining)
      BY <2>1, <2>2, Zenon DEF Row, RowOK, Ready, Effects, ToTarget
    <2> QED  BY <1>7, <2>2, <2>3 DEF Row, RowOK, Work, ToTarget, Kinds
  <1> QED  BY <1>1, <1>2, <1>3, <1>4, <1>5, <1>6, <1>7 DEF Row, Effects

(* An effect that was not entered leaves the row ready.                    *)
LEMMA NotEnteredRow ==
  ASSUME NEW r \in Row, RowOK(r), r.kind \in Kinds,
         NEW c, c = NotEntered(r)
  PROVE  /\ c \in Row /\ RowOK(c)
         /\ c.tid = r.tid /\ c.kind = r.kind /\ c.phase = "Ready"
         /\ r.teardown => c.teardown
  BY ZenonT(30) DEF NotEntered, Ready, Row, RowOK, Kinds, ToTarget, Effects

(* Beginning an effect, and losing sight of a Send.                        *)
LEMMA PhaseRow ==
  ASSUME NEW r \in Row, RowOK(r), r.kind \in Kinds,
         NEW c, \/ c = [r EXCEPT !.phase = "Invoking"]
                \/ c = [r EXCEPT !.phase = "Indeterminate", !.cap = "uncertain"]
  PROVE  /\ c \in Row /\ RowOK(c)
         /\ c.tid = r.tid /\ c.kind = r.kind
         /\ c.phase \in {"Invoking", "Indeterminate"}
         /\ c.teardown = r.teardown /\ c.effect = r.effect
         /\ c.remaining = r.remaining
  BY ZenonT(30) DEF Row, RowOK, Kinds, ToTarget, Effects

(* The work of a row that a drive finds is within the budget.              *)
LEMMA WorkBound ==
  ASSUME NEW r \in Row, RowOK(r)
  PROVE  Work(r) \in Nat /\ Work(r) < Budget
  BY BoundsAssumption DEF Row, RowOK, Work, Budget, Effects

-----------------------------------------------------------------------------
(* What the operations on the stack do.                                    *)

(* What a step may do to a row that another driver is inside of.           *)
Keep(a, b) ==
    /\ a # None /\ a.phase = "Invoking" =>
          /\ b # None
          /\ b.phase = a.phase /\ b.effect = a.effect /\ b.kind = a.kind
          /\ b.remaining = a.remaining
    /\ Done(a) => Done(b)

Table == [Slots -> Row \cup {None}]

(* A driver inside an effect is content with whatever keeps its row.       *)
LEMMA BusyFrameKept ==
  ASSUME NEW a, NEW b, NEW f \in Frame, f.busy,
         FrameOK(f, a), Keep(a[f.slot], b[f.slot])
  PROVE  FrameOK(f, b)
  BY DEF FrameOK, Keep, Work, Done

(* Seen from the stack, nothing happened to the rows.                      *)
LEMMA StackSame ==
  ASSUME NEW a, NEW b, NEW stk \in Seq(Frame), StackOK(stk, a),
         \A i \in 1..Len(stk) : stk[i].busy /\ Keep(a[stk[i].slot], b[stk[i].slot])
  PROVE  StackOK(stk, b)
  <1>1. ASSUME NEW i \in 1..Len(stk)  PROVE FrameOK(stk[i], b)
    <2>1. stk[i] \in Frame  BY ElementOfSeq
    <2> QED  BY <1>1, <2>1, BusyFrameKept DEF StackOK
  <1> QED  BY <1>1 DEF StackOK

(* A redrive that starts inside the effects of all others joins the stack. *)
LEMMA StackPush ==
  ASSUME NEW a, NEW stk \in Seq(Frame), NEW f \in Frame,
         StackOK(stk, a), FrameOK(f, a),
         \A i \in 1..Len(stk) : stk[i].busy /\ Apart(stk[i], f)
  PROVE  StackOK(Append(stk, f), a)
  <1> DEFINE new == Append(stk, f)
  <1>1. /\ Len(new) = Len(stk) + 1
        /\ \A i \in 1..Len(stk) : new[i] = stk[i]
        /\ new[Len(stk) + 1] = f
    BY AppendProperties
  <1>2. Len(stk) \in Nat  BY LenProperties
  <1> HIDE DEF new
  <1>3. \A i \in 1..Len(new) : i \in 1..Len(stk) \/ i = Len(stk) + 1
    BY <1>1, <1>2
  <1>4. \A i \in 1..Len(new) : FrameOK(new[i], a)
    BY <1>1, <1>2, <1>3 DEF StackOK
  <1>5. \A i \in 1..Len(new) : i < Len(new) => new[i].busy
    BY <1>1, <1>2, <1>3
  <1>6. \A i, j \in 1..Len(new) : i < j => Apart(new[i], new[j])
    BY <1>1, <1>2, <1>3 DEF StackOK
  <1> QED  BY <1>4, <1>5, <1>6 DEF StackOK, new

(* The innermost redrive moves and the rows change with it; the others are *)
(* content if theirs are kept.                                             *)
LEMMA StackInner ==
  ASSUME NEW a, NEW b, NEW stk \in Seq(Frame), stk # <<>>, NEW f \in Frame,
         StackOK(stk, a), FrameOK(f, b),
         \A i \in 1..Len(stk) : i < Len(stk) =>
             Apart(stk[i], f) /\ Keep(a[stk[i].slot], b[stk[i].slot])
  PROVE  StackOK([stk EXCEPT ![Len(stk)] = f], b)
  <1> DEFINE new == [stk EXCEPT ![Len(stk)] = f]
  <1>1. Len(stk) \in Nat /\ Len(stk) \in 1..Len(stk)  BY EmptySeq, LenProperties
  <1>2. /\ Len(new) = Len(stk)
        /\ \A i \in 1..Len(stk) : new[i] = IF i = Len(stk) THEN f ELSE stk[i]
    BY <1>1, ExceptSeq
  <1> HIDE DEF new
  <1>3. ASSUME NEW i \in 1..Len(stk), i < Len(stk)  PROVE FrameOK(stk[i], b)
    <2>1. stk[i] \in Frame  BY ElementOfSeq
    <2> QED  BY <1>3, <2>1, BusyFrameKept DEF StackOK
  <1>4. \A i \in 1..Len(new) : FrameOK(new[i], b)
    BY <1>1, <1>2, <1>3
  <1>5. \A i \in 1..Len(new) : i < Len(new) => new[i].busy
    BY <1>1, <1>2 DEF StackOK
  <1>6. \A i, j \in 1..Len(new) : i < j => Apart(new[i], new[j])
    BY <1>1, <1>2 DEF StackOK
  <1> QED  BY <1>4, <1>5, <1>6 DEF StackOK, new

(* A redrive that ends leaves the others as they are.                      *)
LEMMA StackPop ==
  ASSUME NEW a, NEW stk \in Seq(Frame), stk # <<>>, StackOK(stk, a),
         NEW new, new = SubSeq(stk, 1, Len(stk) - 1)
  PROVE  /\ StackOK(new, a)
         /\ new \in Seq(Frame)
         /\ Len(new) = Len(stk) - 1
         /\ \A i \in 1..Len(new) : new[i] = stk[i]
  <1>1. Len(stk) \in Nat \ {0}  BY EmptySeq
  <1>2. \A i \in 1..(Len(stk) - 1) : stk[i] \in Frame
    BY <1>1, ElementOfSeq
  <1>3. /\ new \in Seq(Frame)
        /\ Len(new) = Len(stk) - 1
        /\ \A i \in 1..(Len(stk) - 1) : new[i] = stk[i]
    <2>1. /\ SubSeq(stk, 1, Len(stk) - 1) \in Seq(Frame)
          /\ Len(SubSeq(stk, 1, Len(stk) - 1)) =
                IF 1 <= Len(stk) - 1 THEN Len(stk) - 1 - 1 + 1 ELSE 0
          /\ \A i \in 1..(Len(stk) - 1 - 1 + 1) :
                SubSeq(stk, 1, Len(stk) - 1)[i] = stk[1 + i - 1]
      BY <1>1, <1>2, SubSeqProperties
    <2>2. Len(stk) - 1 - 1 + 1 = Len(stk) - 1
      BY <1>1
    <2>3. \A i \in 1..(Len(stk) - 1) : 1 + i - 1 = i
      BY <1>1
    <2>4. Len(new) = Len(stk) - 1
      <3>1. CASE Len(stk) = 1
        <4>1. ~(1 <= Len(stk) - 1) /\ Len(stk) - 1 = 0  BY <3>1
        <4> QED  BY <2>1, <4>1, Zenon
      <3>2. CASE 1 <= Len(stk) - 1
        BY <2>1, <2>2, <3>2, Zenon
      <3>3. \A n \in Nat \ {0} : n = 1 \/ 1 <= n - 1
        OBVIOUS
      <3> QED  BY <1>1, <3>1, <3>2, <3>3, Zenon
    <2>5. \A i \in 1..(Len(stk) - 1) : new[i] = stk[i]
      BY <2>1, <2>2, <2>3
    <2> QED  BY <2>1, <2>4, <2>5
  <1> QED  BY <1>1, <1>3, SMTT(30) DEF StackOK

(* A redrive on the stack stays in reach of its rows while others start.   *)
LEMMA ReachPush ==
  ASSUME NEW stk \in Seq(Frame), NEW f \in Frame, NEW kind, NEW s,
         InReach(stk, kind, s) \/ Reaches(f, kind, s)
  PROVE  InReach(Append(stk, f), kind, s)
  <1> DEFINE new == Append(stk, f)
  <1>1. /\ Len(new) = Len(stk) + 1
        /\ \A i \in 1..Len(stk) : new[i] = stk[i]
        /\ new[Len(stk) + 1] = f
    BY AppendProperties
  <1>2. Len(stk) \in Nat  BY LenProperties
  <1> HIDE DEF new
  <1>3. 1..Len(stk) \subseteq 1..Len(new) /\ Len(stk) + 1 \in 1..Len(new)
    BY <1>1, <1>2
  <1>4. InReach(new, kind, s)
    BY <1>1, <1>3 DEF InReach
  <1> QED  BY <1>4 DEF new

(* The innermost redrive may move as long as it keeps the row in reach.    *)
LEMMA ReachInner ==
  ASSUME NEW stk \in Seq(Frame), stk # <<>>, NEW f \in Frame, NEW kind, NEW s,
         \/ Reaches(f, kind, s)
         \/ InReach(stk, kind, s) /\ ~Reaches(stk[Len(stk)], kind, s)
  PROVE  InReach([stk EXCEPT ![Len(stk)] = f], kind, s)
  <1> DEFINE new == [stk EXCEPT ![Len(stk)] = f]
  <1>1. Len(stk) \in 1..Len(stk)  BY EmptySeq, LenProperties
  <1>2. /\ Len(new) = Len(stk)
        /\ \A i \in 1..Len(stk) : new[i] = IF i = Len(stk) THEN f ELSE stk[i]
    BY <1>1, ExceptSeq
  <1> HIDE DEF new
  <1>3. InReach(new, kind, s)
    BY <1>1, <1>2 DEF InReach
  <1> QED  BY <1>3 DEF new

(* A redrive that ends takes out of reach only what it was about to reach. *)
LEMMA ReachPop ==
  ASSUME NEW stk \in Seq(Frame), stk # <<>>, NEW kind, NEW s,
         InReach(stk, kind, s), ~Reaches(stk[Len(stk)], kind, s),
         NEW new, Len(new) = Len(stk) - 1, \A i \in 1..Len(new) : new[i] = stk[i]
  PROVE  InReach(new, kind, s)
  <1>1. Len(stk) \in Nat  BY LenProperties
  <1>2. PICK i \in 1..Len(stk) : Reaches(stk[i], kind, s)  BY DEF InReach
  <1>3. i # Len(stk)  BY <1>2
  <1>4. i \in 1..Len(new)  BY <1>1, <1>3
  <1> QED  BY <1>2, <1>4 DEF InReach

(* A row stays served when flags are only set and reach is only gained.    *)
LEMMA ServedMore ==
  ASSUME NEW r \in Row \cup {None}, NEW s, NEW rt, NEW tm, NEW stk,
         NEW rt2, NEW tm2, NEW stk2,
         Served(r, s, rt, tm, stk),
         \A k \in Kinds : rt[k] => rt2[k],
         tm => tm2,
         \A k \in Kinds \cup {"term"} : InReach(stk, k, s) => InReach(stk2, k, s)
  PROVE  Served(r, s, rt2, tm2, stk2)
  <1>1. r # None /\ r.kind # "unclaimed" => r.kind \in Kinds  BY DEF Row
  <1> QED  BY <1>1 DEF Served

-----------------------------------------------------------------------------
(* The innermost redrive.                                                  *)

(* The innermost redrive is on the stack.                                  *)
LEMMA TopFrame ==
  ASSUME TypeOK, stack # <<>>
  PROVE  /\ Len(stack) \in 1..Len(stack)
         /\ Top \in Frame
  <1>1. Len(stack) \in 1..Len(stack)  BY EmptySeq, LenProperties DEF TypeOK
  <1> QED  BY <1>1, ElementOfSeq DEF TypeOK, Top

(* A call enters the executive only from within an effect, so every        *)
(* running redrive is inside one.                                          *)
LEMMA Entered ==
  ASSUME TypeOK, StackOK(stack, row), CanEnter, NEW i \in 1..Len(stack)
  PROVE  /\ stack[i] \in Frame /\ stack[i].busy
         /\ stack[i].slot \in Slots
         /\ FrameOK(stack[i], row)
  <1>1. stack[i] \in Frame  BY ElementOfSeq DEF TypeOK
  <1>2. stack # <<>> /\ Len(stack) \in Nat
    BY EmptySeq, LenProperties DEF TypeOK
  <1>3. stack[i].busy
    <2>1. CASE i = Len(stack)  BY <1>2, <2>1 DEF CanEnter, Top
    <2>2. CASE i # Len(stack)
      <3>1. i < Len(stack)  BY <1>2, <2>2
      <3> QED  BY <3>1 DEF StackOK
    <2> QED  BY <2>1, <2>2
  <1>4. FrameOK(stack[i], row)  BY DEF StackOK
  <1>5. stack[i].slot \in Slots
    BY <1>1, <1>3, <1>4, BoundsAssumption DEF FrameOK, Frame, Slots
  <1> QED  BY <1>1, <1>3, <1>4, <1>5

(* No outer redrive is inside an effect of the row that the innermost one  *)
(* drives; at most the pass over terminated runtimes looks at it.          *)
LEMMA DriverAlone ==
  ASSUME TypeOK, StackOK(stack, row), stack # <<>>,
         Top.kind # "term", Top.slot # 0,
         NEW i \in 1..Len(stack), i < Len(stack), stack[i].slot = Top.slot
  PROVE  stack[i].kind = "term" /\ ~Top.busy /\ Done(row[Top.slot])
  <1>1. Len(stack) \in 1..Len(stack)  BY TopFrame
  <1>2. FrameOK(stack[i], row) /\ stack[i].busy  BY DEF StackOK
  <1>3. FrameOK(Top, row)  BY <1>1 DEF StackOK, Top
  <1>4. Apart(stack[i], Top)  BY <1>1 DEF StackOK, Top
  <1>5. stack[i].kind = "term"
    BY <1>2, <1>3, <1>4 DEF FrameOK, Apart
  <1>6. Done(row[Top.slot])  BY <1>2, <1>5 DEF FrameOK
  <1>7. ~Top.busy  BY <1>3, <1>6 DEF FrameOK, Done
  <1> QED  BY <1>5, <1>6, <1>7

(* So the innermost redrive may do what it likes to its row, except take a *)
(* settled row away from that pass.                                        *)
LEMMA DriverKeeps ==
  ASSUME TypeOK, StackOK(stack, row), stack # <<>>,
         Top.kind # "term", Top.slot # 0,
         NEW rows, \A x \in Slots : x # Top.slot => rows[x] = row[x],
         ~Top.busy /\ Done(row[Top.slot]) => Done(rows[Top.slot]),
         NEW f, f.kind = Top.kind,
         f.busy => f.slot = Top.slot,
         NEW i \in 1..Len(stack), i < Len(stack)
  PROVE  Apart(stack[i], f) /\ Keep(row[stack[i].slot], rows[stack[i].slot])
  <1>1. stack[i] \in Frame  BY ElementOfSeq DEF TypeOK
  <1>2. FrameOK(stack[i], row) /\ stack[i].busy  BY DEF StackOK
  <1>3. stack[i].slot \in Slots
    BY <1>1, <1>2, BoundsAssumption DEF FrameOK, Frame, Slots
  <1>4. CASE stack[i].slot = Top.slot
    <2>1. stack[i].kind = "term" /\ ~Top.busy /\ Done(row[Top.slot])
      BY <1>4, DriverAlone
    <2> QED  BY <1>4, <2>1 DEF Apart, Keep, Done
  <1>5. CASE stack[i].slot # Top.slot
    BY <1>3, <1>5 DEF Apart, Keep
  <1> QED  BY <1>4, <1>5

(* The row the innermost redrive drives.                                   *)
LEMMA DrivenRow ==
  ASSUME TypeOK, RowsOK, StackOK(stack, row), stack # <<>>,
         Top.kind # "term", Top.slot # 0
  PROVE  /\ Top.slot \in Slots
         /\ row[Top.slot] \in Row /\ RowOK(row[Top.slot])
         /\ row[Top.slot].kind = Top.kind /\ Top.kind \in Kinds
         /\ FrameOK(Top, row)
         /\ row[Top.slot] # None
  <1>1. Len(stack) \in 1..Len(stack) /\ Top \in Frame  BY TopFrame
  <1>2. FrameOK(Top, row)  BY <1>1 DEF StackOK, Top
  <1>3. Top.slot \in Slots  BY <1>1, BoundsAssumption DEF Frame, Slots
  <1>4. Top.kind \in Kinds  BY <1>1 DEF Frame
  <1> QED  BY <1>2, <1>3, <1>4 DEF FrameOK, RowsOK, TypeOK

(* The driver replaces its row by one true to the same thread.             *)
LEMMA DrivenRows ==
  ASSUME TypeOK, RowsOK, StackOK(stack, row), stack # <<>>,
         Top.kind # "term", Top.slot # 0,
         NEW c \in Row, RowOK(c), c.tid = row[Top.slot].tid,
         c.kind = row[Top.slot].kind,
         row[Top.slot].teardown => c.teardown,
         row' = [row EXCEPT ![Top.slot] = c], UNCHANGED <<len, runtime>>
  PROVE  RowsOK' /\ row' \in Table
  <1>1. /\ Top.slot \in Slots /\ row[Top.slot] # None
        /\ row[Top.slot].kind \in Kinds
    BY DrivenRow
  <1>2. row' \in Table  BY Zenon DEF TypeOK, Table
  <1>3. RuntimeOK(c, runtime[c.tid])
    BY <1>1 DEF RowsOK, RuntimeOK, Kinds
  <1>4. RowsOK'
    <2> SUFFICES ASSUME NEW s \in Slots, row'[s] # None
                 PROVE  /\ s <= len /\ RowOK(row'[s])
                        /\ RuntimeOK(row'[s], runtime[row'[s].tid])
      BY DEF RowsOK
    <2>1. CASE s = Top.slot
      <3>1. row'[s] = c  BY <1>1, <2>1 DEF TypeOK
      <3> QED  BY <1>1, <1>3, <2>1, <3>1 DEF RowsOK
    <2>2. CASE s # Top.slot
      <3>1. row'[s] = row[s]  BY <2>2 DEF TypeOK
      <3> QED  BY <3>1 DEF RowsOK
    <2> QED  BY <2>1, <2>2
  <1> QED  BY <1>2, <1>4

-----------------------------------------------------------------------------
(* Calls that enter the executive.                                         *)

(* A new row is unclaimed, and no driver knows its slot.                   *)
LEMMA ParkStep ==
  ASSUME IInv, NEW t \in Threads, NEW refs \in 1..MaxRefs, Park(t, refs)
  PROVE  IInv'
  <1> DEFINE c == [tid |-> t, kind |-> "unclaimed", phase |-> "Ready",
                   effect |-> "Release", teardown |-> FALSE, requested |-> FALSE,
                   remaining |-> refs, held |-> refs, followup |-> FALSE,
                   staged |-> FALSE, cap |-> "bound"]
  <1>1. PICK s \in Slots : /\ FreeSlot(s)
                           /\ row' = [row EXCEPT ![s] = c]
                           /\ len' = IF s > len THEN s ELSE len
    BY Zenon DEF Park
  <1>2. /\ CanEnter /\ runtime[t] = "live"
        /\ UNCHANGED <<retry, term, runtime, stack>>
    BY DEF Park
  <1>3. c \in Row /\ RowOK(c) /\ c.kind = "unclaimed" /\ c.tid = t
    BY BoundsAssumption DEF Row, RowOK, Kinds, Effects, ToTarget
  <1> HIDE DEF c
  <1>4. row[s] = None
    BY <1>1, BoundsAssumption DEF FreeSlot, IInv, RowsOK, TypeOK, Slots
  <1>5. len' \in 0..MaxSlots /\ s <= len' /\ len <= len'
    BY <1>1, BoundsAssumption DEF IInv, TypeOK, Slots
  <1>6. row' \in Table /\ row'[s] = c /\ \A x \in Slots : x # s => row'[x] = row[x]
    BY <1>1, <1>3 DEF IInv, TypeOK, Table
  <1>7. TypeOK'
    BY <1>2, <1>5, <1>6 DEF IInv, TypeOK, Table
  <1>8. RowsOK'
    <2>1. RuntimeOK(c, runtime[t])  BY <1>2 DEF RuntimeOK
    <2>2. \A x \in Slots : row[x] # None => x <= len'
      BY <1>5, BoundsAssumption DEF IInv, RowsOK, TypeOK, Slots
    <2> QED  BY <1>2, <1>3, <1>5, <1>6, <2>1, <2>2 DEF IInv, RowsOK
  <1>9. StackOK(stack, row')
    <2>1. ASSUME NEW i \in 1..Len(stack)
          PROVE  stack[i].busy /\ Keep(row[stack[i].slot], row'[stack[i].slot])
      <3>1. stack[i].busy /\ stack[i].slot \in Slots
        BY <1>2, Entered DEF IInv
      <3> QED  BY <1>4, <1>6, <3>1 DEF Keep, Done
    <2> QED  BY <2>1, StackSame DEF IInv, TypeOK
  <1>10. AllServed'
    BY <1>2, <1>3, <1>6 DEF IInv, AllServed, Served
  <1> QED  BY <1>2, <1>7, <1>8, <1>9, <1>10 DEF IInv

(* What a claim of a parked row does to the table and to the stack.        *)
LEMMA ClaimStep ==
  ASSUME IInv, NEW s \in Slots, CanEnter, row[s] # None, row[s].kind = "unclaimed",
         NEW kind \in Kinds,
         row' = [row EXCEPT ![s] = Claim(@, kind, FALSE)],
         UNCHANGED <<len, runtime>>
  PROVE  /\ row' \in Table /\ RowsOK' /\ StackOK(stack, row')
         /\ row'[s] \in Row /\ RowOK(row'[s])
         /\ row'[s].kind = kind /\ row'[s].phase = "Ready"
         /\ \A x \in Slots : x # s => row'[x] = row[x]
  <1> DEFINE c == Claim(row[s], kind, FALSE)
  <1>1. row[s] \in Row /\ RowOK(row[s]) /\ s <= len
    BY DEF IInv, RowsOK, TypeOK
  <1>2. /\ c \in Row /\ RowOK(c) /\ c.tid = row[s].tid
        /\ c.kind = kind /\ c.phase = "Ready"
    BY <1>1, ClaimRow, Zenon
  <1>3. row' = [row EXCEPT ![s] = c]  OBVIOUS
  <1> HIDE DEF c
  <1>4. row' \in Table /\ row'[s] = c /\ \A x \in Slots : x # s => row'[x] = row[x]
    BY <1>2, <1>3, Zenon DEF IInv, TypeOK, Table
  <1>5. RowsOK'
    <2>1. RuntimeOK(c, runtime[c.tid])
      BY <1>2 DEF IInv, RowsOK, RuntimeOK, Kinds
    <2> QED  BY <1>1, <1>2, <1>4, <2>1, Zenon DEF IInv, RowsOK
  <1>6. StackOK(stack, row')
    <2>1. ASSUME NEW i \in 1..Len(stack)
          PROVE  stack[i].busy /\ Keep(row[stack[i].slot], row'[stack[i].slot])
      <3>1. stack[i].busy /\ stack[i].slot \in Slots
        BY Entered DEF IInv
      <3>2. ~(row[s].phase = "Invoking") /\ ~Done(row[s])
        BY <1>1 DEF RowOK, Done
      <3> QED  BY <1>4, <3>1, <3>2, Zenon DEF Keep
    <2> QED  BY <2>1, StackSame, Zenon DEF IInv, TypeOK
  <1> QED  BY <1>2, <1>4, <1>5, <1>6, Zenon

(* A selected wait is claimed for its reply and the retry flag is set.     *)
LEMMA SelectStep ==
  ASSUME IInv, NEW s \in Slots, Select(s)
  PROVE  IInv'
  <1>1. /\ row' \in Table /\ RowsOK' /\ StackOK(stack, row')
        /\ row'[s].kind = "reply"
        /\ \A x \in Slots : x # s => row'[x] = row[x]
    BY ClaimStep, Zenon DEF Select, Kinds
  <1>2. /\ retry' \in [Kinds -> BOOLEAN] /\ retry'["reply"]
        /\ \A k \in Kinds : retry[k] => retry'[k]
    BY DEF Select, IInv, TypeOK, Kinds
  <1>3. UNCHANGED <<len, term, runtime, stack>>  BY DEF Select
  <1>4. TypeOK'  BY <1>1, <1>2, <1>3 DEF IInv, TypeOK, Table
  <1>5. AllServed'
    <2> SUFFICES ASSUME NEW x \in Slots
                 PROVE  Served(row'[x], x, retry', term, stack)
      BY <1>3 DEF AllServed
    <2>1. CASE x = s  BY <1>1, <1>2, <2>1 DEF Served
    <2>2. CASE x # s
      <3>1. row'[x] = row[x] /\ row[x] \in Row \cup {None}
        BY <1>1, <2>2 DEF IInv, TypeOK
      <3> QED  BY <1>2, <3>1, ServedMore DEF IInv, AllServed
    <2> QED  BY <2>1, <2>2
  <1> QED  BY <1>1, <1>3, <1>4, <1>5 DEF IInv

(* A new redrive, or the direct drive of a row that is ready, starts       *)
(* inside the effect of the call that runs it.                             *)
LEMMA PushStep ==
  ASSUME TypeOK, CanEnter, NEW rows, StackOK(stack, row), StackOK(stack, rows),
         NEW f \in Frame, ~f.busy, f.kind = "term" => ~Active, FrameOK(f, rows)
  PROVE  StackOK(Append(stack, f), rows)
  <1>1. \A i \in 1..Len(stack) : stack[i].busy
    BY Entered
  <1>2. \A i \in 1..Len(stack) : Apart(stack[i], f)
    <2>1. DOMAIN stack = 1..Len(stack)  BY LenProperties DEF TypeOK
    <2> QED  BY <2>1 DEF Apart, Active
  <1> QED  BY <1>1, <1>2, StackPush DEF TypeOK

(* The frame of a new redrive.                                             *)
LEMMA NewFrameType ==
  ASSUME TypeOK, NEW kind \in Kinds \cup {"term"}, NEW cursor \in 0..MaxSlots,
         NEW slot \in 0..MaxSlots, NEW f, f = NewFrame(kind, cursor, slot)
  PROVE  /\ f \in Frame
         /\ f.kind = kind /\ f.cursor = cursor /\ f.limit = len /\ f.slot = slot
         /\ ~f.busy /\ f.spent = 0
  BY DEF NewFrame, Frame, TypeOK, Effects, Kinds

(* A user APC claims the row and drives it at once.                        *)
LEMMA RequestApcStep ==
  ASSUME IInv, NEW s \in Slots, RequestApc(s)
  PROVE  IInv'
  <1> DEFINE f == NewFrame("apc", MaxSlots, s)
  <1>1. /\ row' \in Table /\ RowsOK' /\ StackOK(stack, row')
        /\ row'[s] \in Row /\ RowOK(row'[s])
        /\ row'[s].kind = "apc" /\ row'[s].phase = "Ready"
        /\ \A x \in Slots : x # s => row'[x] = row[x]
    BY ClaimStep, Zenon DEF RequestApc, Kinds
  <1>2. /\ retry' \in [Kinds -> BOOLEAN] /\ retry'["apc"]
        /\ \A k \in Kinds : retry[k] => retry'[k]
    BY DEF RequestApc, IInv, TypeOK, Kinds
  <1>3. /\ CanEnter /\ stack' = Append(stack, f)
        /\ UNCHANGED <<len, term, runtime>>
    BY DEF RequestApc
  <1>4. /\ f \in Frame /\ f.kind = "apc" /\ f.slot = s
        /\ ~f.busy /\ f.spent = 0
    BY NewFrameType, BoundsAssumption DEF IInv, Kinds, Slots
  <1> HIDE DEF f
  <1>5. FrameOK(f, row')
    <2>1. Work(row'[s]) \in Nat /\ Work(row'[s]) < Budget
      BY <1>1, WorkBound
    <2>2. row'[s] # None  BY <1>1, NoneAssumption
    <2> QED  BY <1>1, <1>4, <2>1, <2>2 DEF FrameOK
  <1>6. StackOK(stack', row')
    BY <1>1, <1>3, <1>4, <1>5, PushStep DEF IInv
  <1>7. TypeOK'
    <2>1. stack' \in Seq(Frame)
      BY <1>3, <1>4, AppendProperties DEF IInv, TypeOK
    <2> QED  BY <1>1, <1>2, <1>3, <2>1 DEF IInv, TypeOK, Table
  <1>8. AllServed'
    <2> SUFFICES ASSUME NEW x \in Slots
                 PROVE  Served(row'[x], x, retry', term, stack')
      BY <1>3 DEF AllServed
    <2>1. CASE x = s  BY <1>1, <1>2, <2>1 DEF Served
    <2>2. CASE x # s
      <3>1. row'[x] = row[x] /\ row[x] \in Row \cup {None}
        BY <1>1, <2>2 DEF IInv, TypeOK
      <3>2. \A k \in Kinds \cup {"term"} : InReach(stack, k, x) => InReach(stack', k, x)
        BY <1>3, <1>4, ReachPush DEF IInv, TypeOK
      <3> QED  BY <1>2, <3>1, <3>2, ServedMore DEF IInv, AllServed
    <2> QED  BY <2>1, <2>2
  <1> QED  BY <1>1, <1>6, <1>7, <1>8 DEF IInv

(* Every row of a terminating thread learns of the teardown; a driver that *)
(* is inside one of its effects finds the row as it left it.               *)
LEMMA RequestThreadStep ==
  ASSUME IInv, NEW t \in Threads, RequestThread(t)
  PROVE  IInv'
  <1> DEFINE New(s) == IF row[s].kind = "unclaimed" THEN Claim(row[s], "reply", TRUE)
                       ELSE RequestTeardown(row[s])
  <1>1. /\ CanEnter /\ runtime[t] # "gone"
        /\ runtime' = [runtime EXCEPT ![t] = "terminating"]
        /\ row' = [s \in Slots |-> IF ~Owned(s, t) THEN row[s] ELSE New(s)]
        /\ UNCHANGED <<len, term, stack>>
    BY DEF RequestThread
  <1>2. /\ retry' \in [Kinds -> BOOLEAN]
        /\ \A k \in Kinds : retry[k] => retry'[k]
        /\ \A s \in Slots : Owned(s, t) =>
              IF row[s].kind = "apc" THEN retry'["apc"] ELSE retry'["reply"]
    BY DEF RequestThread, IInv, TypeOK, Kinds
  <1>3. ASSUME NEW s \in Slots, Owned(s, t)
        PROVE  /\ New(s) \in Row /\ RowOK(New(s)) /\ New(s) # None
               /\ New(s).tid = t
               /\ New(s).kind = IF row[s].kind = "unclaimed" THEN "reply" ELSE row[s].kind
               /\ Keep(row[s], New(s))
    <2>1. /\ row[s] # None /\ row[s].tid = t
          /\ row[s] \in Row /\ RowOK(row[s])
      BY <1>3 DEF Owned, IInv, RowsOK, TypeOK
    <2>2. CASE row[s].kind = "unclaimed"
      <3>1. New(s) = Claim(row[s], "reply", TRUE)  BY <2>2
      <3>2. "reply" \in Kinds  BY DEF Kinds
      <3> HIDE DEF New
      <3>3. /\ New(s) \in Row /\ RowOK(New(s)) /\ New(s).tid = t
            /\ New(s).kind = "reply"
        <4> DEFINE c == Claim(row[s], "reply", TRUE)
        <4>1. c \in Row /\ RowOK(c) /\ c.tid = row[s].tid /\ c.kind = "reply"
          BY <2>1, <2>2, <3>2, ClaimRow, Zenon
        <4>2. New(s) = c  BY <3>1
        <4> HIDE DEF c
        <4> QED  BY <2>1, <4>1, <4>2
      <3>4. Keep(row[s], New(s))  BY <2>1, <2>2 DEF RowOK, Keep, Done
      <3> QED  BY <2>2, <3>3, <3>4, NoneAssumption
    <2>3. CASE row[s].kind # "unclaimed"
      <3>1. New(s) = RequestTeardown(row[s])  BY <2>3
      <3> HIDE DEF New
      <3>2. /\ New(s) \in Row /\ RowOK(New(s))
            /\ New(s).tid = row[s].tid /\ New(s).kind = row[s].kind
            /\ New(s).phase = row[s].phase
            /\ New(s).remaining = row[s].remaining
            /\ row[s].phase = "Invoking" => New(s).effect = row[s].effect
            /\ row[s].requested => New(s).requested
        BY <2>1, <2>3, <3>1, TeardownRow
      <3>3. Keep(row[s], New(s))  BY <3>2, NoneAssumption DEF Keep, Done
      <3> QED  BY <2>1, <2>3, <3>2, <3>3, NoneAssumption
    <2> QED  BY <2>2, <2>3, Zenon
  <1> HIDE DEF New
  <1>4. row' \in Table
    BY <1>1, <1>3 DEF IInv, TypeOK, Table
  <1>5. TypeOK'
    <2>1. runtime' \in [Threads -> {"live", "terminating", "gone"}]
      BY <1>1 DEF IInv, TypeOK
    <2> QED  BY <1>1, <1>2, <1>4, <2>1 DEF IInv, TypeOK, Table
  <1>6. RowsOK'
    <2> SUFFICES ASSUME NEW s \in Slots, row'[s] # None
                 PROVE  /\ s <= len /\ RowOK(row'[s])
                        /\ RuntimeOK(row'[s], runtime'[row'[s].tid])
      BY <1>1 DEF RowsOK
    <2>1. CASE Owned(s, t)
      <3>1. row'[s] = New(s)  BY <1>1, <2>1
      <3>2. runtime'[t] = "terminating"  BY <1>1 DEF IInv, TypeOK
      <3>3. s <= len  BY <2>1 DEF Owned, IInv, RowsOK
      <3>4. New(s).kind # "unclaimed"  BY <1>3, <2>1
      <3> QED  BY <1>3, <2>1, <3>1, <3>2, <3>3, <3>4 DEF RuntimeOK
    <2>2. CASE ~Owned(s, t)
      <3>1. row'[s] = row[s] /\ row[s].tid # t  BY <1>1, <2>2 DEF Owned
      <3>2. row[s] \in Row  BY <3>1 DEF IInv, TypeOK
      <3>3. runtime'[row[s].tid] = runtime[row[s].tid]
        BY <1>1, <3>1, <3>2 DEF IInv, TypeOK, Row
      <3> QED  BY <3>1, <3>3 DEF IInv, RowsOK
    <2> QED  BY <2>1, <2>2
  <1>7. StackOK(stack, row')
    <2>1. ASSUME NEW i \in 1..Len(stack)
          PROVE  stack[i].busy /\ Keep(row[stack[i].slot], row'[stack[i].slot])
      <3>1. stack[i].busy /\ stack[i].slot \in Slots
        BY <1>1, Entered DEF IInv
      <3>2. CASE Owned(stack[i].slot, t)
        BY <1>1, <1>3, <3>1, <3>2
      <3>3. CASE ~Owned(stack[i].slot, t)
        BY <1>1, <3>1, <3>3 DEF Keep
      <3> QED  BY <3>1, <3>2, <3>3
    <2> QED  BY <2>1, StackSame DEF IInv, TypeOK
  <1>8. AllServed'
    <2> SUFFICES ASSUME NEW s \in Slots
                 PROVE  Served(row'[s], s, retry', term, stack)
      BY <1>1 DEF AllServed
    <2>1. CASE Owned(s, t)
      <3>1. row'[s] = New(s)  BY <1>1, <2>1
      <3>2. row[s].kind \in Kinds \cup {"unclaimed"}
        BY <2>1 DEF Owned, IInv, TypeOK, Row
      <3>3. retry'[New(s).kind]
        BY <1>2, <1>3, <2>1, <3>2 DEF Kinds
      <3> QED  BY <3>1, <3>3 DEF Served
    <2>2. CASE ~Owned(s, t)
      <3>1. row'[s] = row[s] /\ row[s] \in Row \cup {None}
        BY <1>1, <2>2 DEF IInv, TypeOK
      <3> QED  BY <1>2, <3>1, ServedMore DEF IInv, AllServed
    <2> QED  BY <2>1, <2>2
  <1> QED  BY <1>1, <1>5, <1>6, <1>7, <1>8 DEF IInv

(* The runtime goes when every row of its thread has the disposition.      *)
LEMMA ReleaseRuntimeStep ==
  ASSUME IInv, NEW t \in Threads, ReleaseRuntime(t)
  PROVE  IInv'
  <1>1. /\ runtime[t] = "terminating" /\ ~HasDependency(t)
        /\ runtime' = [runtime EXCEPT ![t] = "gone"]
        /\ UNCHANGED <<row, len, retry, term, stack>>
    BY DEF ReleaseRuntime
  <1>2. TypeOK'  BY <1>1 DEF IInv, TypeOK
  <1>3. RowsOK'
    <2> SUFFICES ASSUME NEW s \in Slots, row[s] # None
                 PROVE  /\ s <= len /\ RowOK(row[s])
                        /\ RuntimeOK(row[s], runtime'[row[s].tid])
      BY <1>1 DEF RowsOK
    <2>1. row[s] \in Row /\ row[s].tid \in Threads  BY DEF IInv, TypeOK, Row
    <2>2. /\ s <= len /\ RowOK(row[s])
          /\ RuntimeOK(row[s], runtime[row[s].tid])
      BY DEF IInv, RowsOK
    <2>3. CASE row[s].tid = t
      BY <1>1, <2>2, <2>3 DEF RuntimeOK, HasDependency, Owned
    <2>4. CASE row[s].tid # t
      <3>1. runtime'[row[s].tid] = runtime[row[s].tid]
        BY <1>1, <2>1, <2>4 DEF IInv, TypeOK
      <3> QED  BY <2>2, <3>1
    <2> QED  BY <2>3, <2>4
  <1>4. StackOK(stack, row)' /\ AllServed'
    BY <1>1 DEF IInv, AllServed
  <1> QED  BY <1>2, <1>3, <1>4 DEF IInv

(* A redrive takes the retry flag down and has every row before it.        *)
LEMMA RedriveStep ==
  ASSUME IInv, NEW k \in Kinds, Redrive(k)
  PROVE  IInv'
  <1> DEFINE f == NewFrame(k, 0, 0)
  <1>1. /\ CanEnter /\ stack' = Append(stack, f)
        /\ retry' = [retry EXCEPT ![k] = FALSE]
        /\ UNCHANGED <<row, len, term, runtime>>
    BY DEF Redrive
  <1>2. /\ f \in Frame /\ f.kind = k /\ f.slot = 0 /\ f.cursor = 0
        /\ ~f.busy /\ f.spent = 0
    BY NewFrameType, BoundsAssumption DEF IInv
  <1> HIDE DEF f
  <1>3. k # "term"  BY DEF Kinds
  <1>4. StackOK(stack', row)
    <2>1. FrameOK(f, row)  BY <1>2, <1>3 DEF FrameOK
    <2> QED  BY <1>1, <1>2, <1>3, <2>1, PushStep DEF IInv
  <1>5. TypeOK'
    <2>1. stack' \in Seq(Frame)
      BY <1>1, <1>2, AppendProperties DEF IInv, TypeOK
    <2> QED  BY <1>1, <2>1 DEF IInv, TypeOK
  <1>6. AllServed'
    <2> SUFFICES ASSUME NEW s \in Slots
                 PROVE  Served(row[s], s, retry', term, stack')
      BY <1>1, Zenon DEF AllServed
    <2>1. \A x \in Kinds \cup {"term"} : InReach(stack, x, s) => InReach(stack', x, s)
      BY <1>1, <1>2, ReachPush DEF IInv, TypeOK
    <2>2. InReach(stack', k, s)
      <3>1. Reaches(f, k, s)
        BY <1>2, <1>3, BoundsAssumption DEF Reaches, Slots
      <3> QED  BY <1>1, <1>2, <3>1, ReachPush DEF IInv, TypeOK
    <2>3. \A x \in Kinds : x # k => retry'[x] = retry[x]
      BY <1>1 DEF IInv, TypeOK
    <2>4. Served(row[s], s, retry, term, stack)  BY DEF IInv, AllServed
    <2>5. row[s] # None /\ row[s].kind # "unclaimed" => row[s].kind \in Kinds
      BY DEF IInv, TypeOK, Row
    <2> QED  BY <2>1, <2>2, <2>3, <2>4, <2>5 DEF Served
  <1> QED  BY <1>1, <1>4, <1>5, <1>6 DEF IInv, RowsOK

(* A pass over terminated runtimes takes its flag down and has every       *)
(* settled row of the table before it.                                     *)
LEMMA TerminatedPassStep ==
  ASSUME IInv, TerminatedPass
  PROVE  IInv'
  <1> DEFINE f == NewFrame("term", 0, 0)
  <1>1. /\ CanEnter /\ ~Active /\ stack' = Append(stack, f) /\ term' = FALSE
        /\ UNCHANGED <<row, len, retry, runtime>>
    BY DEF TerminatedPass
  <1>2. /\ f \in Frame /\ f.kind = "term" /\ f.slot = 0 /\ f.cursor = 0
        /\ f.limit = len /\ ~f.busy /\ f.spent = 0
    BY NewFrameType, BoundsAssumption DEF IInv
  <1> HIDE DEF f
  <1>3. StackOK(stack', row)
    <2>1. FrameOK(f, row)  BY <1>2 DEF FrameOK
    <2> QED  BY <1>1, <1>2, <2>1, PushStep DEF IInv
  <1>4. TypeOK'
    <2>1. stack' \in Seq(Frame)
      BY <1>1, <1>2, AppendProperties DEF IInv, TypeOK
    <2> QED  BY <1>1, <2>1, Zenon DEF IInv, TypeOK
  <1>5. AllServed'
    <2> SUFFICES ASSUME NEW s \in Slots
                 PROVE  Served(row[s], s, retry, FALSE, stack')
      BY <1>1, Zenon DEF AllServed
    <2>1. \A x \in Kinds \cup {"term"} : InReach(stack, x, s) => InReach(stack', x, s)
      BY <1>1, <1>2, ReachPush DEF IInv, TypeOK
    <2>2. row[s] # None => InReach(stack', "term", s)
      <3> SUFFICES ASSUME row[s] # None PROVE InReach(stack', "term", s)
        OBVIOUS
      <3>1. s <= len  BY DEF IInv, RowsOK
      <3>2. Reaches(f, "term", s)
        BY <1>2, <3>1, BoundsAssumption DEF Reaches, Slots
      <3> QED  BY <1>1, <1>2, <3>2, ReachPush DEF IInv, TypeOK
    <2>3. Served(row[s], s, retry, term, stack)  BY DEF IInv, AllServed
    <2>4. row[s] # None /\ row[s].kind # "unclaimed" => row[s].kind \in Kinds
      BY DEF IInv, TypeOK, Row
    <2> QED  BY <2>1, <2>2, <2>3, <2>4 DEF Served
  <1> QED  BY <1>1, <1>3, <1>4, <1>5 DEF IInv, RowsOK

-----------------------------------------------------------------------------
(* Steps of the innermost redrive.                                         *)

(* The stack after the innermost redrive moved.                            *)
LEMMA MovedType ==
  ASSUME TypeOK, stack # <<>>, NEW f \in Frame
  PROVE  Inner(f) \in Seq(Frame)
  BY TopFrame, ExceptSeq DEF TypeOK, Inner

(* Moving the innermost redrive keeps in reach what it still reaches.      *)
LEMMA ReachMoved ==
  ASSUME TypeOK, stack # <<>>, NEW f \in Frame, NEW k, NEW x,
         Reaches(f, k, x) \/ ~Reaches(Top, k, x),
         InReach(stack, k, x)
  PROVE  InReach(Inner(f), k, x)
  BY ReachInner DEF TypeOK, Inner, Top

(* The stack after the innermost redrive ended.                            *)
LEMMA Popped ==
  ASSUME TypeOK, StackOK(stack, row), stack # <<>>
  PROVE  /\ StackOK(Pop, row) /\ Pop \in Seq(Frame) /\ Len(Pop) = Len(stack) - 1
         /\ \A i \in 1..Len(Pop) : Pop[i] = stack[i]
  <1>1. Pop = SubSeq(stack, 1, Len(stack) - 1) /\ stack \in Seq(Frame)
    BY DEF Pop, TypeOK
  <1> QED  BY <1>1, StackPop, Zenon

(* The innermost redrive picks the next row of its pass, or finds one that *)
(* was added since it began and leaves it to a later pass.                 *)
LEMMA NextRowStep ==
  ASSUME IInv, NextRow
  PROVE  IInv'
  <1>1. PICK s \in Pending(Top) :
          /\ \A i \in Pending(Top) : s <= i
          /\ IF s > Top.limit
                THEN /\ stack' = Pop
                     /\ retry' = [retry EXCEPT ![Top.kind] = TRUE]
                ELSE /\ stack' = Inner([Top EXCEPT !.cursor = s, !.slot = s, !.spent = 0])
                     /\ UNCHANGED retry
    BY Zenon DEF NextRow
  <1>2. /\ stack # <<>> /\ Top.kind # "term" /\ Top.slot = 0
        /\ UNCHANGED <<row, len, term, runtime>>
    BY DEF NextRow
  <1>3. Len(stack) \in 1..Len(stack) /\ Top \in Frame
    BY <1>2, TopFrame DEF IInv
  <1>4. s \in Slots /\ row[s] # None /\ row[s].kind = Top.kind
        /\ row[s].phase \in {"Ready", "Complete"}
    BY BoundsAssumption DEF Pending, IInv, TypeOK, Slots
  <1>5. Top.kind \in Kinds  BY <1>2, <1>3 DEF Frame
  <1>6. FrameOK(Top, row)  BY <1>3 DEF IInv, StackOK, Top
  <1>7. CASE s > Top.limit
    <2>1. /\ StackOK(Pop, row) /\ Pop \in Seq(Frame) /\ Len(Pop) = Len(stack) - 1
          /\ \A i \in 1..Len(Pop) : Pop[i] = stack[i]
      BY <1>2, Popped DEF IInv
    <2>2. stack' = Pop /\ retry' = [retry EXCEPT ![Top.kind] = TRUE]
      BY <1>1, <1>7
    <2>3. TypeOK'
      <3>1. retry' \in [Kinds -> BOOLEAN]  BY <2>2, Zenon DEF IInv, TypeOK
      <3> QED  BY <1>2, <2>1, <2>2, <3>1 DEF IInv, TypeOK
    <2>4. AllServed'
      <3> SUFFICES ASSUME NEW x \in Slots
                   PROVE  Served(row[x], x, retry', term, stack')
        BY <1>2 DEF AllServed
      <3>1. \A k : k # Top.kind /\ InReach(stack, k, x) => InReach(stack', k, x)
        <4>1. \A k : k # Top.kind => ~Reaches(Top, k, x)  BY DEF Reaches
        <4> QED  BY <1>2, <2>1, <2>2, <4>1, ReachPop, Zenon DEF IInv, TypeOK, Top
      <3>2. /\ retry'[Top.kind]
            /\ \A k \in Kinds : k # Top.kind => retry'[k] = retry[k]
        BY <1>5, <2>2 DEF IInv, TypeOK
      <3>3. row[x] # None /\ row[x].kind # "unclaimed" => row[x].kind \in Kinds
        BY DEF IInv, TypeOK, Row
      <3>4. Served(row[x], x, retry, term, stack)  BY DEF IInv, AllServed
      <3> QED  BY <1>2, <3>1, <3>2, <3>3, <3>4 DEF Served
    <2> QED  BY <1>2, <2>1, <2>2, <2>3, <2>4 DEF IInv, RowsOK
  <1>8. CASE ~(s > Top.limit)
    <2> DEFINE f == [Top EXCEPT !.cursor = s, !.slot = s, !.spent = 0]
    <2>1. stack' = Inner(f) /\ UNCHANGED retry  BY <1>1, <1>8
    <2>2. /\ f \in Frame /\ f.kind = Top.kind /\ f.slot = s /\ f.cursor = s
          /\ f.busy = Top.busy /\ f.spent = 0
      <3>1. s \in 0..MaxSlots  BY <1>4, BoundsAssumption DEF Slots
      <3> QED  BY <1>3, <3>1, Zenon DEF Frame
    <2> HIDE DEF f
    <2>3. ~f.busy  BY <1>2, <1>6, <2>2 DEF FrameOK
    <2>4. FrameOK(f, row)
      <3>1. row[s] \in Row /\ RowOK(row[s])  BY <1>4 DEF IInv, RowsOK, TypeOK
      <3>2. Work(row[s]) \in Nat /\ Work(row[s]) < Budget  BY <3>1, WorkBound
      <3> QED  BY <1>2, <1>4, <2>2, <2>3, <3>2 DEF FrameOK
    <2>5. StackOK(stack', row)
      <3>1. \A i \in 1..Len(stack) : Apart(stack[i], f) /\
                Keep(row[stack[i].slot], row[stack[i].slot])
        BY <1>2, <2>2, <2>3 DEF Apart, Keep
      <3> QED  BY <1>2, <2>1, <2>2, <2>4, <3>1, StackInner, Zenon DEF IInv, TypeOK, Inner
    <2>6. TypeOK'
      <3>1. stack' \in Seq(Frame)  BY <1>2, <2>1, <2>2, MovedType DEF IInv
      <3> QED  BY <1>2, <2>1, <3>1 DEF IInv, TypeOK
    <2>7. AllServed'
      <3> SUFFICES ASSUME NEW x \in Slots
                   PROVE  Served(row[x], x, retry, term, stack')
        BY <1>2, <2>1 DEF AllServed
      <3>1. ASSUME NEW k, InReach(stack, k, x),
                   k = "term" \/ (row[x] # None /\ row[x].kind = k
                                  /\ row[x].phase \in {"Ready", "Complete"})
            PROVE  InReach(stack', k, x)
        <4>1. Reaches(Top, k, x) => Reaches(f, k, x)
          <5> SUFFICES ASSUME Reaches(Top, k, x) PROVE Reaches(f, k, x)
            OBVIOUS
          <5>1. k = Top.kind /\ k # "term"  BY <1>2 DEF Reaches
          <5>2. Top.cursor < x
            BY <1>2, <5>1, BoundsAssumption DEF Reaches, Slots
          <5>3. x \in Pending(Top)
            <6>1. x <= len  BY <3>1, <5>1 DEF IInv, RowsOK
            <6>2. x \in 1..len
              BY <6>1, BoundsAssumption DEF Slots, IInv, TypeOK
            <6>3. x > Top.cursor
              BY <5>2, <1>3, BoundsAssumption DEF Frame, Slots
            <6> QED  BY <3>1, <5>1, <6>2, <6>3 DEF Pending
          <5>4. s <= x  BY <1>1, <5>3
          <5>5. s = x \/ s < x
            BY <1>4, <5>4, BoundsAssumption DEF Slots
          <5> QED  BY <2>2, <5>1, <5>5 DEF Reaches
        <4> QED  BY <1>2, <2>1, <2>2, <3>1, <4>1, ReachMoved DEF IInv
      <3>2. Served(row[x], x, retry, term, stack)  BY DEF IInv, AllServed
      <3> QED  BY <3>1, <3>2 DEF Served
    <2> QED  BY <1>2, <2>1, <2>5, <2>6, <2>7 DEF IInv, RowsOK
  <1> QED  BY <1>7, <1>8

(* A pass ends when no row is before it.                                   *)
LEMMA EndPassStep ==
  ASSUME IInv, EndPass
  PROVE  IInv'
  <1>1. /\ stack # <<>> /\ Top.kind # "term" /\ Top.slot = 0
        /\ Pending(Top) = {} /\ stack' = Pop
        /\ UNCHANGED <<row, len, retry, term, runtime>>
    BY DEF EndPass
  <1>2. /\ StackOK(Pop, row) /\ Pop \in Seq(Frame) /\ Len(Pop) = Len(stack) - 1
        /\ \A i \in 1..Len(Pop) : Pop[i] = stack[i]
    BY <1>1, Popped DEF IInv
  <1>3. Top \in Frame  BY <1>1, TopFrame DEF IInv
  <1>4. TypeOK'  BY <1>1, <1>2 DEF IInv, TypeOK
  <1>5. AllServed'
    <2> SUFFICES ASSUME NEW x \in Slots
                 PROVE  Served(row[x], x, retry, term, stack')
      BY <1>1 DEF AllServed
    <2>1. ASSUME NEW k, InReach(stack, k, x),
                 k = "term" \/ (row[x] # None /\ row[x].kind = k
                                /\ row[x].phase \in {"Ready", "Complete"})
          PROVE  InReach(stack', k, x)
      <3>1. ~Reaches(Top, k, x)
        <4> SUFFICES ASSUME Reaches(Top, k, x) PROVE FALSE
          OBVIOUS
        <4>1. k = Top.kind /\ k # "term"  BY <1>1 DEF Reaches
        <4>2. Top.cursor < x
          BY <1>1, <4>1, BoundsAssumption DEF Reaches, Slots
        <4>3. x <= len  BY <2>1, <4>1 DEF IInv, RowsOK
        <4>4. x \in 1..len
          BY <4>3, BoundsAssumption DEF Slots, IInv, TypeOK
        <4>5. x > Top.cursor
          BY <4>2, <1>3, BoundsAssumption DEF Frame, Slots
        <4>6. x \in Pending(Top)  BY <2>1, <4>1, <4>4, <4>5 DEF Pending
        <4> QED  BY <1>1, <4>6
      <3> QED  BY <1>1, <1>2, <2>1, <3>1, ReachPop, Zenon DEF IInv, TypeOK, Top
    <2>2. Served(row[x], x, retry, term, stack)  BY DEF IInv, AllServed
    <2> QED  BY <2>1, <2>2 DEF Served
  <1> QED  BY <1>1, <1>2, <1>4, <1>5 DEF IInv, RowsOK

(* What every step of a driver that keeps its row leaves behind: c is the  *)
(* row after the step, f the driver.                                       *)
LEMMA DriverStep ==
  ASSUME IInv, stack # <<>>, Top.kind # "term", Top.slot # 0,
         NEW c \in Row, RowOK(c), c.tid = row[Top.slot].tid,
         c.kind = row[Top.slot].kind,
         row[Top.slot].teardown => c.teardown,
         ~Done(row[Top.slot]),
         NEW f \in Frame, f.kind = Top.kind, f.cursor = Top.cursor,
         f.slot = Top.slot \/ f.slot = 0,
         f.busy => f.slot = Top.slot,
         row' = [row EXCEPT ![Top.slot] = c],
         FrameOK(f, row'),
         stack' = Inner(f),
         UNCHANGED <<len, term, runtime>>,
         retry' \in [Kinds -> BOOLEAN], \A k \in Kinds : retry[k] => retry'[k],
         \/ f.slot = Top.slot \/ retry'[Top.kind]
         \/ c.phase \notin {"Ready", "Complete"}
  PROVE  IInv'
  <1>1. RowsOK' /\ row' \in Table
    BY DrivenRows, Zenon DEF IInv
  <1>2. /\ Top.slot \in Slots /\ row[Top.slot] # None
        /\ row[Top.slot].kind = Top.kind /\ Top.kind \in Kinds
    BY DrivenRow DEF IInv
  <1>3. row'[Top.slot] = c /\ \A x \in Slots : x # Top.slot => row'[x] = row[x]
    BY <1>2 DEF IInv, TypeOK
  <1>4. StackOK(stack', row')
    <2>1. \A i \in 1..Len(stack) : i < Len(stack) =>
             Apart(stack[i], f) /\ Keep(row[stack[i].slot], row'[stack[i].slot])
      BY <1>3, DriverKeeps, Zenon DEF IInv
    <2> QED  BY <2>1, StackInner, Zenon DEF IInv, TypeOK, Inner
  <1>5. TypeOK'
    <2>1. stack' \in Seq(Frame)  BY MovedType DEF IInv
    <2> QED  BY <1>1, <2>1 DEF IInv, TypeOK, Table
  <1>6. AllServed'
    <2> SUFFICES ASSUME NEW x \in Slots
                 PROVE  Served(row'[x], x, retry', term, stack')
      BY DEF AllServed
    <2>1. CASE x = Top.slot
      <3>1. CASE f.slot = Top.slot
        <4>1. Reaches(f, Top.kind, x)  BY <2>1, <3>1 DEF Reaches
        <4>2. InReach(stack', Top.kind, x)
          BY <4>1, ReachInner, ZenonT(30) DEF IInv, TypeOK, Inner
        <4> QED  BY <1>2, <1>3, <2>1, <4>2 DEF Served
      <3>2. CASE retry'[Top.kind]
        BY <1>2, <1>3, <2>1, <3>2 DEF Served
      <3>3. CASE c.phase \notin {"Ready", "Complete"}
        BY <1>3, <2>1, <3>3 DEF Served
      <3> QED  BY <3>1, <3>2, <3>3, SMTT(30)
    <2>2. CASE x # Top.slot
      <3>1. row'[x] = row[x] /\ row[x] \in Row \cup {None}
        BY <1>3, <2>2 DEF IInv, TypeOK
      <3>2. \A k \in Kinds \cup {"term"} : InReach(stack, k, x) => InReach(stack', k, x)
        <4>1. \A k : Reaches(Top, k, x) => Reaches(f, k, x)
          BY <2>2 DEF Reaches
        <4> QED  BY <4>1, ReachMoved DEF IInv
      <3>3. Served(row[x], x, retry, term, stack)  BY DEF IInv, AllServed
      <3>4. Served(row[x], x, retry', term, stack')
        BY <3>1, <3>2, <3>3, ServedMore, SMTT(30)
      <3> QED  BY <3>1, <3>4
    <2> QED  BY <2>1, <2>2
  <1> QED  BY <1>1, <1>4, <1>5, <1>6 DEF IInv

(* The driver enters the next effect.                                      *)
LEMMA BeginStep ==
  ASSUME IInv, Begin
  PROVE  IInv'
  <1> DEFINE r == row[Top.slot]
             c == [r EXCEPT !.phase = "Invoking"]
             f == [Top EXCEPT !.busy = TRUE, !.effect = r.effect, !.spent = @ + 1]
  <1>1. /\ stack # <<>> /\ Top.kind # "term" /\ Top.slot # 0 /\ ~Top.busy
        /\ r.phase = "Ready"
        /\ row' = [row EXCEPT ![Top.slot] = c] /\ stack' = Inner(f)
        /\ UNCHANGED <<len, retry, term, runtime>>
    BY DEF Begin, Driving
  <1>2. /\ Top.slot \in Slots /\ r \in Row /\ RowOK(r)
        /\ r.kind = Top.kind /\ Top.kind \in Kinds /\ FrameOK(Top, row) /\ r # None
    BY <1>1, DrivenRow DEF IInv
  <1>3. /\ c \in Row /\ RowOK(c) /\ c.tid = r.tid /\ c.kind = r.kind
        /\ c.phase = "Invoking" /\ c.teardown = r.teardown
        /\ c.effect = r.effect /\ c.remaining = r.remaining
    BY <1>2, PhaseRow, Zenon DEF Row
  <1>4. Top \in Frame  BY <1>1, TopFrame DEF IInv
  <1>5. /\ f \in Frame /\ f.kind = Top.kind /\ f.cursor = Top.cursor
        /\ f.slot = Top.slot /\ f.busy /\ f.effect = r.effect
        /\ f.spent = Top.spent + 1
    <2>1. r.effect \in Effects  BY <1>2 DEF Row
    <2>2. Top.spent + 1 \in Nat  BY <1>4 DEF Frame
    <2> QED  BY <1>4, <2>1, <2>2, Zenon DEF Frame
  <1>6. row'[Top.slot] = c  BY <1>1, <1>2 DEF IInv, TypeOK
  <1>7. Top.spent + Work(r) < Budget  BY <1>1, <1>2 DEF FrameOK
  <1>8. Work(c) = Work(r)  BY <1>1, <1>3 DEF Work
  <1>9. Work(r) \in Nat /\ Budget \in Nat /\ Top.spent \in Nat
    BY <1>2, <1>4, WorkBound, BoundsAssumption DEF Frame, Budget
  <1>10. c # None  BY <1>3, NoneAssumption
  <1> HIDE DEF c, f
  <1>11. f.spent + Work(c) <= Budget  BY <1>5, <1>7, <1>8, <1>9
  <1>12. FrameOK(f, row')
    BY <1>1, <1>2, <1>3, <1>5, <1>6, <1>10, <1>11 DEF FrameOK
  <1>13. ~Done(r)  BY <1>1 DEF Done
  <1>14. retry' \in [Kinds -> BOOLEAN]  BY <1>1 DEF IInv, TypeOK
  <1> QED  BY <1>1, <1>3, <1>5, <1>12, <1>13, <1>14, DriverStep, Zenon

(* The driver that is inside an effect, and its row.                       *)
LEMMA InvokedRow ==
  ASSUME IInv, Invoked
  PROVE  /\ stack # <<>> /\ Top.kind # "term" /\ Top.slot # 0 /\ Top.busy
         /\ Top \in Frame /\ Top.slot \in Slots /\ Top.kind \in Kinds
         /\ row[Top.slot] \in Row /\ RowOK(row[Top.slot])
         /\ row[Top.slot].kind = Top.kind /\ row[Top.slot].phase = "Invoking"
         /\ Top.spent + Work(row[Top.slot]) <= Budget
         /\ ~Done(row[Top.slot])
  <1>1. stack # <<>> /\ Top.kind # "term" /\ Top.busy  BY DEF Invoked
  <1>2. Len(stack) \in 1..Len(stack) /\ Top \in Frame  BY <1>1, TopFrame DEF IInv
  <1>3. FrameOK(Top, row)  BY <1>2 DEF IInv, StackOK, Top
  <1>4. Top.slot # 0  BY <1>1, <1>3 DEF FrameOK
  <1>5. /\ Top.slot \in Slots /\ Top.kind \in Kinds
        /\ row[Top.slot] \in Row /\ RowOK(row[Top.slot])
    BY <1>1, <1>4, DrivenRow DEF IInv
  <1> QED  BY <1>1, <1>2, <1>3, <1>4, <1>5 DEF FrameOK, Done

(* The effect was performed.                                               *)
LEMMA RecordCompletedStep ==
  ASSUME IInv, RecordCompleted
  PROVE  IInv'
  <1> DEFINE r == row[Top.slot]
             c == Completed(r)
             f == [Top EXCEPT !.busy = FALSE]
  <1>1. /\ Invoked
        /\ row' = [row EXCEPT ![Top.slot] = c] /\ stack' = Inner(f)
        /\ UNCHANGED <<len, retry, term, runtime>>
    BY DEF RecordCompleted
  <1>2. /\ stack # <<>> /\ Top.kind # "term" /\ Top.slot # 0
        /\ Top \in Frame /\ Top.slot \in Slots /\ Top.kind \in Kinds
        /\ r \in Row /\ RowOK(r) /\ r.kind = Top.kind /\ r.phase = "Invoking"
        /\ Top.spent + Work(r) <= Budget /\ ~Done(r)
    BY <1>1, InvokedRow
  <1>3. /\ c \in Row /\ RowOK(c) /\ c.tid = r.tid /\ c.kind = r.kind
        /\ c.phase \in {"Ready", "Complete"}
        /\ r.teardown => c.teardown
        /\ Work(c) < Work(r)
    BY <1>2, CompletedRow
  <1>4. /\ f \in Frame /\ f.kind = Top.kind /\ f.cursor = Top.cursor
        /\ f.slot = Top.slot /\ ~f.busy /\ f.spent = Top.spent
    BY <1>2, Zenon DEF Frame
  <1> HIDE DEF c, f
  <1>5. row'[Top.slot] = c  BY <1>1, <1>2 DEF IInv, TypeOK
  <1>6. Work(r) \in Nat /\ Work(c) \in Nat /\ Budget \in Nat /\ Top.spent \in Nat
    BY <1>2, <1>3, WorkBound, BoundsAssumption DEF Frame, Budget
  <1>7. f.spent + Work(c) < Budget  BY <1>2, <1>3, <1>4, <1>6
  <1>8. c # None  BY <1>3, NoneAssumption
  <1>9. FrameOK(f, row')
    BY <1>2, <1>3, <1>4, <1>5, <1>7, <1>8 DEF FrameOK
  <1>10. retry' \in [Kinds -> BOOLEAN]  BY <1>1 DEF IInv, TypeOK
  <1> QED  BY <1>1, <1>2, <1>3, <1>4, <1>9, <1>10, DriverStep, Zenon

(* The effect was not entered: the row is left to a later pass.            *)
LEMMA RecordNotEnteredStep ==
  ASSUME IInv, RecordNotEntered
  PROVE  IInv'
  <1> DEFINE r == row[Top.slot]
             c == NotEntered(r)
             f == [Top EXCEPT !.busy = FALSE, !.slot = 0]
  <1>1. /\ Invoked
        /\ row' = [row EXCEPT ![Top.slot] = c] /\ stack' = Inner(f)
        /\ retry' = [retry EXCEPT ![Top.kind] = TRUE]
        /\ UNCHANGED <<len, term, runtime>>
    BY DEF RecordNotEntered
  <1>2. /\ stack # <<>> /\ Top.kind # "term" /\ Top.slot # 0
        /\ Top \in Frame /\ Top.kind \in Kinds
        /\ r \in Row /\ RowOK(r) /\ r.kind = Top.kind /\ ~Done(r)
    BY <1>1, InvokedRow
  <1>3. /\ c \in Row /\ RowOK(c) /\ c.tid = r.tid /\ c.kind = r.kind
        /\ r.teardown => c.teardown
    BY <1>2, NotEnteredRow
  <1>4. /\ f \in Frame /\ f.kind = Top.kind /\ f.cursor = Top.cursor
        /\ f.slot = 0 /\ ~f.busy /\ FrameOK(f, row')
    <2>1. 0 \in 0..MaxSlots  BY BoundsAssumption
    <2> QED  BY <1>2, <2>1, Zenon DEF Frame, FrameOK
  <1> HIDE DEF c, f
  <1>5. /\ retry' \in [Kinds -> BOOLEAN] /\ retry'[Top.kind]
        /\ \A k \in Kinds : retry[k] => retry'[k]
    BY <1>1, <1>2 DEF IInv, TypeOK
  <1> QED  BY <1>1, <1>2, <1>3, <1>4, <1>5, DriverStep, Zenon

(* The outcome of a Send is unknown: no pass drives the row any more.      *)
LEMMA RecordIndeterminateStep ==
  ASSUME IInv, RecordIndeterminate
  PROVE  IInv'
  <1> DEFINE r == row[Top.slot]
             c == [r EXCEPT !.phase = "Indeterminate", !.cap = "uncertain"]
             f == [Top EXCEPT !.busy = FALSE, !.slot = 0]
  <1>1. /\ Invoked /\ stack' = Inner(f)
        /\ row' = [row EXCEPT ![Top.slot].phase = "Indeterminate",
                              ![Top.slot].cap = "uncertain"]
        /\ UNCHANGED <<len, retry, term, runtime>>
    BY DEF RecordIndeterminate
  <1>2. /\ stack # <<>> /\ Top.kind # "term" /\ Top.slot # 0
        /\ Top \in Frame /\ Top.kind \in Kinds /\ Top.slot \in Slots
        /\ r \in Row /\ RowOK(r) /\ r.kind = Top.kind /\ ~Done(r)
    BY <1>1, InvokedRow
  <1>3. row' = [row EXCEPT ![Top.slot] = c]
    BY <1>1, <1>2, Zenon DEF IInv, TypeOK
  <1>4. /\ c \in Row /\ RowOK(c) /\ c.tid = r.tid /\ c.kind = r.kind
        /\ c.phase = "Indeterminate" /\ c.teardown = r.teardown
    BY <1>2, PhaseRow, Zenon DEF Row
  <1>5. /\ f \in Frame /\ f.kind = Top.kind /\ f.cursor = Top.cursor
        /\ f.slot = 0 /\ ~f.busy /\ FrameOK(f, row')
    <2>1. 0 \in 0..MaxSlots  BY BoundsAssumption
    <2> QED  BY <1>2, <2>1, Zenon DEF Frame, FrameOK
  <1> HIDE DEF c, f
  <1>6. retry' \in [Kinds -> BOOLEAN]  BY <1>1 DEF IInv, TypeOK
  <1> QED  BY <1>1, <1>2, <1>3, <1>4, <1>5, <1>6, DriverStep, Zenon

(* A settled row leaves the table, waits for the runtime of its thread, or *)
(* is tried again.                                                         *)
LEMMA DriveCompleteStep ==
  ASSUME IInv, DriveComplete
  PROVE  IInv'
  <1> DEFINE r == row[Top.slot]
             f == [Top EXCEPT !.slot = 0]
  <1>1. /\ stack # <<>> /\ Top.kind # "term" /\ Top.slot # 0 /\ ~Top.busy
        /\ r.phase = "Complete" /\ stack' = Inner(f)
        /\ UNCHANGED <<len, runtime>>
    BY DEF DriveComplete, Driving, Leave
  <1>2. /\ Top.slot \in Slots /\ r \in Row /\ RowOK(r) /\ r # None
        /\ r.kind = Top.kind /\ Top.kind \in Kinds
    BY <1>1, DrivenRow DEF IInv
  <1>3. Top \in Frame  BY <1>1, TopFrame DEF IInv
  <1>4. /\ f \in Frame /\ f.kind = Top.kind /\ f.cursor = Top.cursor
        /\ f.slot = 0 /\ ~f.busy /\ FrameOK(f, row')
    <2>1. 0 \in 0..MaxSlots  BY BoundsAssumption
    <2> QED  BY <1>1, <1>3, <2>1 DEF Frame, FrameOK
  <1> HIDE DEF f
  <1>5. ASSUME NEW x \in Slots, x # Top.slot
        PROVE  \A k \in Kinds \cup {"term"} : InReach(stack, k, x) => InReach(stack', k, x)
    <2>1. \A k : Reaches(Top, k, x) => Reaches(f, k, x)
      BY <1>1, <1>4, <1>5 DEF Reaches
    <2> QED  BY <1>1, <1>4, <2>1, ReachMoved DEF IInv
  <1>6. stack' \in Seq(Frame)  BY <1>1, <1>4, MovedType DEF IInv
  <1>7. ASSUME /\ \A x \in Slots : x # Top.slot => row'[x] = row[x]
               /\ Done(r) => Done(row'[Top.slot])
        PROVE  StackOK(stack', row')
    <2>1. \A i \in 1..Len(stack) : i < Len(stack) =>
             Apart(stack[i], f) /\ Keep(row[stack[i].slot], row'[stack[i].slot])
      BY <1>1, <1>4, <1>7, DriverKeeps DEF IInv
    <2> QED  BY <1>1, <1>4, <2>1, StackInner, ZenonT(30) DEF IInv, TypeOK, Inner
  <1>8. ASSUME Served(row'[Top.slot], Top.slot, retry', term', stack'),
               \A x \in Slots : x # Top.slot => row'[x] = row[x],
               \A k \in Kinds : retry[k] => retry'[k], term => term'
        PROVE  AllServed'
    <2> SUFFICES ASSUME NEW x \in Slots, x # Top.slot
                 PROVE  Served(row'[x], x, retry', term', stack')
      BY <1>8 DEF AllServed
    <2>1. row'[x] = row[x] /\ row[x] \in Row \cup {None}
      BY <1>8 DEF IInv, TypeOK
    <2> QED  BY <1>5, <1>8, <2>1, ServedMore DEF IInv, AllServed
  <1>9. CASE Top.kind = "reply" /\ r.requested /\ term' = TRUE /\ UNCHANGED <<row, retry>>
    <2>1. StackOK(stack', row')  BY <1>7, <1>9
    <2>2. Done(r)  BY <1>1, <1>2, <1>9 DEF Done
    <2>3. Served(row'[Top.slot], Top.slot, retry', term', stack')
      BY <1>9, <2>2 DEF Served
    <2>4. AllServed'  BY <1>8, <1>9, <2>3
    <2>5. TypeOK'  BY <1>1, <1>6, <1>9 DEF IInv, TypeOK
    <2> QED  BY <1>1, <1>9, <2>1, <2>4, <2>5 DEF IInv, RowsOK
  <1>10. CASE /\ Top.kind = "reply" => ~r.requested
              /\ row' = [row EXCEPT ![Top.slot] = None] /\ UNCHANGED <<retry, term>>
    <2>1. /\ row'[Top.slot] = None /\ row' \in Table
          /\ \A x \in Slots : x # Top.slot => row'[x] = row[x]
      BY <1>2, <1>10 DEF IInv, TypeOK, Table
    <2>2. ~Done(r)  BY <1>2, <1>10 DEF Done
    <2>3. StackOK(stack', row')  BY <1>7, <2>1, <2>2
    <2>4. Served(row'[Top.slot], Top.slot, retry', term', stack')
      BY <2>1 DEF Served
    <2>5. AllServed'  BY <1>8, <1>10, <2>1, <2>4
    <2>6. TypeOK'  BY <1>1, <1>6, <1>10, <2>1 DEF IInv, TypeOK, Table
    <2>7. RowsOK'  BY <1>1, <2>1 DEF IInv, RowsOK
    <2> QED  BY <2>3, <2>5, <2>6, <2>7 DEF IInv
  <1>11. CASE /\ Top.kind = "apc" /\ ~r.staged
              /\ retry' = [retry EXCEPT !["apc"] = TRUE] /\ UNCHANGED <<row, term>>
    <2>1. StackOK(stack', row')  BY <1>7, <1>11
    <2>2. /\ retry' \in [Kinds -> BOOLEAN] /\ retry'["apc"]
          /\ \A k \in Kinds : retry[k] => retry'[k]
      BY <1>11 DEF IInv, TypeOK, Kinds
    <2>3. Served(row'[Top.slot], Top.slot, retry', term', stack')
      BY <1>2, <1>11, <2>2 DEF Served
    <2>4. AllServed'  BY <1>8, <1>11, <2>2, <2>3
    <2>5. TypeOK'  BY <1>1, <1>6, <1>11, <2>2 DEF IInv, TypeOK
    <2> QED  BY <1>1, <1>11, <2>1, <2>4, <2>5 DEF IInv, RowsOK
  <1> QED  BY <1>9, <1>10, <1>11, Zenon DEF DriveComplete

-----------------------------------------------------------------------------
(* The pass over terminated runtimes.                                      *)

(* The pass is the only one of its kind, and no driver is inside an effect *)
(* of a row that it looks at.                                              *)
LEMMA TermAlone ==
  ASSUME IInv, InTerm, NEW f, f.kind = "term",
         NEW i \in 1..Len(stack), i < Len(stack)
  PROVE  /\ stack[i] \in Frame /\ stack[i].slot \in Slots
         /\ Apart(stack[i], f)
         /\ Top.busy => stack[i].slot # Top.slot
  <1>1. stack # <<>> /\ Top.kind = "term"  BY DEF InTerm
  <1>2. Len(stack) \in 1..Len(stack)  BY <1>1, TopFrame DEF IInv
  <1>3. stack[i] \in Frame  BY ElementOfSeq DEF IInv, TypeOK
  <1>4. FrameOK(stack[i], row) /\ stack[i].busy  BY DEF IInv, StackOK
  <1>5. FrameOK(Top, row)  BY <1>2 DEF IInv, StackOK, Top
  <1>6. Apart(stack[i], Top)  BY <1>2 DEF IInv, StackOK, Top
  <1>7. stack[i].kind # "term"  BY <1>1, <1>6 DEF Apart
  <1>8. stack[i].slot \in Slots
    BY <1>3, <1>4, BoundsAssumption DEF FrameOK, Frame, Slots
  <1>9. Top.busy => stack[i].slot # Top.slot
    BY <1>1, <1>4, <1>5, <1>7 DEF FrameOK, Done
  <1> QED  BY <1>3, <1>7, <1>8, <1>9 DEF Apart

(* The pass looks at the next slot.                                        *)
LEMMA VisitStep ==
  ASSUME IInv, Visit
  PROVE  IInv'
  <1> DEFINE n == Top.cursor + 1
             f == [Top EXCEPT !.cursor = @ + 1, !.slot = n, !.busy = Settled(n)]
  <1>1. /\ InTerm /\ stack # <<>> /\ Top.kind = "term" /\ ~Top.busy
        /\ Top.cursor < Top.limit /\ stack' = Inner(f)
        /\ UNCHANGED <<row, len, retry, term, runtime>>
    BY DEF Visit, InTerm
  <1>2. Len(stack) \in 1..Len(stack) /\ Top \in Frame
    BY <1>1, TopFrame DEF IInv
  <1>3. n \in Slots /\ n \in 0..MaxSlots /\ n # 0
    BY <1>1, <1>2, BoundsAssumption DEF Frame, Slots
  <1>4. Settled(n) <=> Done(row[n])  BY DEF Settled, Done
  <1>5. /\ f \in Frame /\ f.kind = "term" /\ f.cursor = n /\ f.slot = n
        /\ f.limit = Top.limit /\ f.spent = Top.spent /\ (f.busy <=> Done(row[n]))
    <2>1. Settled(n) \in BOOLEAN  BY <1>3 DEF Settled, IInv, TypeOK, Row
    <2> HIDE DEF n
    <2>2. Top.cursor + 1 = n  BY DEF n
    <2> QED  BY <1>1, <1>2, <1>3, <1>4, <2>1, <2>2, ZenonT(30) DEF Frame
  <1>6. FrameOK(Top, row)  BY <1>2 DEF IInv, StackOK, Top
  <1> HIDE DEF f
  <1>7. FrameOK(f, row)  BY <1>1, <1>3, <1>5, <1>6 DEF FrameOK
  <1>8. StackOK(stack', row)
    <2>1. \A i \in 1..Len(stack) : i < Len(stack) =>
             Apart(stack[i], f) /\ Keep(row[stack[i].slot], row[stack[i].slot])
      BY <1>1, <1>5, TermAlone DEF Keep
    <2> QED  BY <1>1, <1>5, <1>7, <2>1, StackInner, Zenon DEF IInv, TypeOK, Inner
  <1>9. TypeOK'
    <2>1. stack' \in Seq(Frame)  BY <1>1, <1>5, MovedType, SMTT(30) DEF IInv
    <2> QED  BY <1>1, <2>1 DEF IInv, TypeOK
  <1>10. AllServed'
    <2> SUFFICES ASSUME NEW x \in Slots
                 PROVE  Served(row[x], x, retry, term, stack')
      BY <1>1 DEF AllServed
    <2>1. ASSUME NEW k, InReach(stack, k, x), k = "term" => Done(row[x])
          PROVE  InReach(stack', k, x)
      <3>1. Reaches(Top, k, x) => Reaches(f, k, x)
        <4> SUFFICES ASSUME Reaches(Top, k, x) PROVE Reaches(f, k, x)
          OBVIOUS
        <4>1. k = "term" /\ Top.cursor < x /\ x <= Top.limit
          BY <1>1 DEF Reaches
        <4>2. x = n \/ n < x
          BY <1>2, <4>1, BoundsAssumption DEF Frame, Slots
        <4> QED  BY <1>5, <2>1, <4>1, <4>2 DEF Reaches
      <3> QED  BY <1>1, <1>5, <2>1, <3>1, ReachMoved DEF IInv
    <2>2. Served(row[x], x, retry, term, stack)  BY DEF IInv, AllServed
    <2>3. row[x] # None /\ row[x].kind # "unclaimed" => row[x].kind # "term"
      BY DEF IInv, TypeOK, Row, Kinds
    <2> QED  BY <2>1, <2>2, <2>3 DEF Served
  <1> QED  BY <1>1, <1>8, <1>9, <1>10 DEF IInv, RowsOK

(* The termination was retried: the row leaves with the runtime, or waits  *)
(* for another pass.                                                       *)
LEMMA ReconciledStep ==
  ASSUME IInv, Reconciled
  PROVE  IInv'
  <1> DEFINE f == [Top EXCEPT !.busy = FALSE]
  <1>1. /\ InTerm /\ stack # <<>> /\ Top.kind = "term" /\ Top.busy
        /\ stack' = Inner(f)
        /\ UNCHANGED <<len, retry, runtime>>
    BY DEF Reconciled, InTerm
  <1>2. Len(stack) \in 1..Len(stack) /\ Top \in Frame
    BY <1>1, TopFrame DEF IInv
  <1>3. FrameOK(Top, row)  BY <1>2 DEF IInv, StackOK, Top
  <1>4. Top.slot \in Slots /\ Done(row[Top.slot])
    BY <1>1, <1>2, <1>3, BoundsAssumption DEF FrameOK, Frame, Slots
  <1>5. /\ f \in Frame /\ f.kind = "term" /\ f.cursor = Top.cursor
        /\ f.limit = Top.limit /\ ~f.busy /\ f.spent = Top.spent
    BY <1>1, <1>2, Zenon DEF Frame
  <1> HIDE DEF f
  <1>6. FrameOK(f, row')  BY <1>1, <1>3, <1>5 DEF FrameOK
  <1>7. stack' \in Seq(Frame)  BY <1>1, <1>5, MovedType DEF IInv
  <1>8. ASSUME \A x \in Slots : x # Top.slot => row'[x] = row[x]
        PROVE  StackOK(stack', row')
    <2>1. \A i \in 1..Len(stack) : i < Len(stack) =>
             Apart(stack[i], f) /\ Keep(row[stack[i].slot], row'[stack[i].slot])
      BY <1>1, <1>5, <1>8, TermAlone DEF Keep
    <2> QED  BY <1>1, <1>5, <1>6, <2>1, StackInner, ZenonT(30) DEF IInv, TypeOK, Inner
  <1>9. ASSUME Served(row'[Top.slot], Top.slot, retry, term', stack'),
               \A x \in Slots : x # Top.slot => row'[x] = row[x], term => term'
        PROVE  AllServed'
    <2> SUFFICES ASSUME NEW x \in Slots, x # Top.slot
                 PROVE  Served(row'[x], x, retry, term', stack')
      BY <1>1, <1>9 DEF AllServed
    <2>1. row'[x] = row[x] /\ row[x] \in Row \cup {None}
      BY <1>9 DEF IInv, TypeOK
    <2>2. \A k \in Kinds \cup {"term"} : InReach(stack, k, x) => InReach(stack', k, x)
      <3>1. \A k : Reaches(Top, k, x) => Reaches(f, k, x)
        BY <1>1, <1>5 DEF Reaches
      <3> QED  BY <1>1, <1>5, <3>1, ReachMoved DEF IInv
    <2> QED  BY <1>9, <2>1, <2>2, ServedMore DEF IInv, AllServed
  <1>10. CASE runtime[row[Top.slot].tid] = "gone"
    <2>1. row' = [row EXCEPT ![Top.slot] = None] /\ UNCHANGED term
      BY <1>10 DEF Reconciled
    <2>2. /\ row'[Top.slot] = None /\ row' \in Table
          /\ \A x \in Slots : x # Top.slot => row'[x] = row[x]
      BY <1>4, <2>1 DEF IInv, TypeOK, Table
    <2>3. StackOK(stack', row')  BY <1>8, <2>2
    <2>4. Served(row'[Top.slot], Top.slot, retry, term', stack')
      BY <2>2 DEF Served
    <2>5. AllServed'  BY <1>9, <2>1, <2>2, <2>4
    <2>6. TypeOK'  BY <1>1, <1>7, <2>1, <2>2 DEF IInv, TypeOK, Table
    <2>7. RowsOK'  BY <1>1, <2>2 DEF IInv, RowsOK
    <2> QED  BY <2>3, <2>5, <2>6, <2>7 DEF IInv
  <1>11. CASE runtime[row[Top.slot].tid] # "gone"
    <2>1. term' = TRUE /\ UNCHANGED row
      BY <1>11 DEF Reconciled
    <2>2. StackOK(stack', row')  BY <1>8, <2>1
    <2>3. Served(row'[Top.slot], Top.slot, retry, term', stack')
      BY <1>4, <2>1 DEF Served
    <2>4. AllServed'  BY <1>9, <2>1, <2>3
    <2>5. TypeOK'  BY <1>1, <1>7, <2>1 DEF IInv, TypeOK
    <2> QED  BY <1>1, <2>1, <2>2, <2>4, <2>5 DEF IInv, RowsOK
  <1> QED  BY <1>10, <1>11

(* The pass ends after its last slot.                                      *)
LEMMA EndTerminatedPassStep ==
  ASSUME IInv, EndTerminatedPass
  PROVE  IInv'
  <1>1. /\ stack # <<>> /\ Top.kind = "term" /\ ~Top.busy
        /\ Top.cursor = Top.limit /\ stack' = Pop
        /\ UNCHANGED <<row, len, retry, term, runtime>>
    BY DEF EndTerminatedPass, InTerm
  <1>2. /\ StackOK(Pop, row) /\ Pop \in Seq(Frame) /\ Len(Pop) = Len(stack) - 1
        /\ \A i \in 1..Len(Pop) : Pop[i] = stack[i]
    BY <1>1, Popped DEF IInv
  <1>3. Top \in Frame  BY <1>1, TopFrame DEF IInv
  <1>4. TypeOK'  BY <1>1, <1>2 DEF IInv, TypeOK
  <1>5. AllServed'
    <2> SUFFICES ASSUME NEW x \in Slots
                 PROVE  Served(row[x], x, retry, term, stack')
      BY <1>1 DEF AllServed
    <2>1. \A k : ~Reaches(Top, k, x)
      BY <1>1, <1>3, BoundsAssumption DEF Reaches, Frame, Slots
    <2>2. \A k \in Kinds \cup {"term"} : InReach(stack, k, x) => InReach(stack', k, x)
      BY <1>1, <1>2, <2>1, ReachPop, Zenon DEF IInv, TypeOK, Top
    <2>3. row[x] \in Row \cup {None}  BY DEF IInv, TypeOK
    <2> QED  BY <2>2, <2>3, ServedMore DEF IInv, AllServed
  <1> QED  BY <1>1, <1>2, <1>4, <1>5 DEF IInv, RowsOK

-----------------------------------------------------------------------------
(* The theorems.                                                           *)

(* An empty table and no redrive.                                          *)
LEMMA InitInv ==
  ASSUME Init
  PROVE  IInv
  <1>1. /\ row \in [Slots -> Row \cup {None}] /\ \A s \in Slots : row[s] = None
        /\ stack = <<>>
    BY DEF Init
  <1>2. stack \in Seq(Frame) /\ Len(stack) = 0  BY <1>1, EmptySeq
  <1>3. TypeOK
    <2>1. 0 \in 0..MaxSlots  BY BoundsAssumption
    <2> QED  BY <1>1, <1>2, <2>1, Zenon DEF Init, TypeOK
  <1>4. RowsOK  BY <1>1 DEF RowsOK
  <1>5. StackOK(stack, row)  BY <1>2 DEF StackOK
  <1>6. AllServed  BY <1>1 DEF AllServed, Served
  <1> QED  BY <1>3, <1>4, <1>5, <1>6 DEF IInv

(* Every operation on the table keeps the books.                           *)
LEMMA StepInv ==
  ASSUME IInv, [Next]_vars
  PROVE  IInv'
  <1>1. CASE UNCHANGED vars
    BY <1>1 DEF vars, IInv, TypeOK, RowsOK, AllServed
  <1>2. ASSUME NEW t \in Threads, NEW refs \in 1..MaxRefs, Park(t, refs)  PROVE IInv'
    BY <1>2, ParkStep
  <1>3. ASSUME NEW t \in Threads, RequestThread(t) \/ ReleaseRuntime(t)  PROVE IInv'
    BY <1>3, RequestThreadStep, ReleaseRuntimeStep
  <1>4. ASSUME NEW s \in Slots, Select(s) \/ RequestApc(s)  PROVE IInv'
    BY <1>4, SelectStep, RequestApcStep
  <1>5. ASSUME NEW k \in Kinds, Redrive(k)  PROVE IInv'
    BY <1>5, RedriveStep
  <1>6. CASE TerminatedPass  BY <1>6, TerminatedPassStep
  <1>7. CASE NextRow \/ EndPass  BY <1>7, NextRowStep, EndPassStep
  <1>8. CASE DriveComplete \/ Begin  BY <1>8, DriveCompleteStep, BeginStep
  <1>9. CASE RecordCompleted \/ RecordNotEntered \/ RecordIndeterminate
    BY <1>9, RecordCompletedStep, RecordNotEnteredStep, RecordIndeterminateStep
  <1>10. CASE Visit \/ Reconciled \/ EndTerminatedPass
    BY <1>10, VisitStep, ReconciledStep, EndTerminatedPassStep
  <1> QED
    BY <1>1, <1>2, <1>3, <1>4, <1>5, <1>6, <1>7, <1>8, <1>9, <1>10 DEF Next, Drive

(* The rows, the running redrives and the retry flags agree after every    *)
(* step, however calls nest and whichever effects fail.                    *)
THEOREM WaitBooksInvariance == Spec => []IInv
  BY InitInv, StepInv, PTL DEF Spec

(* The receipt of an effect always finds the row as the driver left it: no *)
(* nested call can take it away, drive it or change its effect.            *)
THEOREM ReceiptsAlwaysMatch == Spec => []ReceiptMatches
  <1>1. ASSUME IInv PROVE ReceiptMatches
    <2> SUFFICES ASSUME NEW i \in DOMAIN stack, stack[i].busy
                 PROVE  /\ row[stack[i].slot] # None
                        /\ IF stack[i].kind = "term" THEN Settled(stack[i].slot)
                           ELSE /\ row[stack[i].slot].kind = stack[i].kind
                                /\ row[stack[i].slot].phase = "Invoking"
                                /\ row[stack[i].slot].effect = stack[i].effect
      BY DEF ReceiptMatches
    <2>1. DOMAIN stack = 1..Len(stack)  BY <1>1, LenProperties DEF IInv, TypeOK
    <2>2. FrameOK(stack[i], row)  BY <1>1, <2>1 DEF IInv, StackOK
    <2> QED  BY <2>2 DEF FrameOK, Done, Settled
  <1> QED  BY <1>1, WaitBooksInvariance, PTL

(* A claimed row with work left is never forgotten: a flag or a running    *)
(* pass always leads back to it.                                           *)
THEOREM RowsNeverForgotten == Spec => []NoForgottenRow
  <1>1. ASSUME IInv PROVE NoForgottenRow
    <2>1. DOMAIN stack = 1..Len(stack)  BY <1>1, LenProperties, SMTT(30) DEF IInv, TypeOK
    <2> QED
      BY <1>1, <2>1
      DEF IInv, AllServed, Served, InReach, Done, NoForgottenRow, Ahead, Settled
  <1> QED  BY <1>1, WaitBooksInvariance, PTL

(* A Stage or Send that is entered, or whose outcome is unknown, always    *)
(* still has the runtime it was aimed at.                                  *)
THEOREM TargetAlwaysOutlivesEffect == Spec => []TargetOutlivesEffect
  <1>1. ASSUME IInv PROVE TargetOutlivesEffect
    BY <1>1 DEF IInv, RowsOK, RowOK, RuntimeOK, TargetOutlivesEffect
  <1> QED  BY <1>1, WaitBooksInvariance, PTL

(* For every number of references the loop of drive has enough iterations  *)
(* to settle the row.                                                      *)
THEOREM BudgetAlwaysSuffices == Spec => []BudgetSuffices
  <1>1. ASSUME IInv PROVE BudgetSuffices
    <2> SUFFICES ASSUME NEW i \in DOMAIN stack, stack[i].slot # 0, ~stack[i].busy
                 PROVE  stack[i].spent < Budget
      BY DEF BudgetSuffices
    <2>1. i \in 1..Len(stack)  BY <1>1, LenProperties DEF IInv, TypeOK
    <2>2. FrameOK(stack[i], row) /\ stack[i] \in Frame
      BY <1>1, <2>1, ElementOfSeq DEF IInv, StackOK, TypeOK
    <2>3. CASE stack[i].kind = "term"
      BY <2>2, <2>3, BoundsAssumption DEF FrameOK, Budget
    <2>4. CASE stack[i].kind # "term"
      <3> DEFINE r == row[stack[i].slot]
      <3>1. r # None /\ stack[i].spent + Work(r) < Budget
        BY <2>2, <2>4 DEF FrameOK
      <3>2. stack[i].slot \in Slots
        BY <2>2, BoundsAssumption DEF Frame, Slots
      <3>3. r \in Row /\ RowOK(r)  BY <1>1, <3>1, <3>2 DEF IInv, RowsOK, TypeOK
      <3>4. Work(r) \in Nat /\ Budget \in Nat /\ stack[i].spent \in Nat
        BY <2>2, <3>3, WorkBound, BoundsAssumption DEF Frame, Budget
      <3> HIDE DEF r
      <3> QED  BY <3>1, <3>4
    <2> QED  BY <2>3, <2>4
  <1> QED  BY <1>1, WaitBooksInvariance, PTL
=============================================================================
