----------------------------- MODULE Exo4Proofs -----------------------------
(* Proofs about exo4 for every length of the buffer, every bound of the      *)
(* first loop and every content of the stack.                                *)
EXTENDS Exo4, TLAPS

LEMMA BufType == buf \in [0 .. Members - 1 -> Value]
BY Shape DEF buf

(* The round with i = 0 is the only one, and the slot keeps what it left. *)
Rest == /\ pc = "first" => i = 0 /\ out = <<>>
        /\ pc \in {"print", "done"} =>
             i \in 0 .. Members /\ (build = "debug" => slot = buf)
        /\ pc = "done" => i = Members

(* Each line shows the member it names, as the slot holds it. *)
PrintsTheSlot == pc \in {"print", "done"} => out = [k \in 1 .. i |-> slot[k - 1]]

IInv == TypeOK /\ Rest /\ PointerLinked /\ PrintsTheSlot

LEMMA InitInv == Init => IInv
BY Shape DEF Init, IInv, TypeOK, Rest, PointerLinked, PrintsTheSlot

LEMMA NextInv == IInv /\ [Next]_vars => IInv'
<1> SUFFICES ASSUME IInv, [Next]_vars PROVE IInv'
  OBVIOUS
<1> USE Shape DEF IInv, TypeOK
<1>1. CASE FirstLoop
  <2>1. /\ i = 0 /\ out = <<>> /\ pc' = "print" /\ i' = 0 /\ p' = "buf"
        /\ slot' = (IF build = "debug" THEN buf ELSE slot)
        /\ build' = build /\ out' = out
    BY <1>1 DEF FirstLoop, LinkBuffer, Rest
  <2>2. TypeOK' /\ Rest' /\ PointerLinked'
    BY <2>1, BufType DEF Rest, PointerLinked
  <2>3. PrintsTheSlot'
    BY <2>1 DEF PrintsTheSlot
  <2> QED BY <2>2, <2>3
<1>2. CASE PrintMember
  <2>1. /\ pc = "print" /\ pc' = pc /\ slot' = slot /\ build' = build /\ p' = p
        /\ i \in 0 .. Members - 1 /\ i' = i + 1
        /\ out' = Append(out, slot[i]) /\ slot[i] \in Value
    BY <1>2 DEF PrintMember, Rest
  <2>2. TypeOK' /\ Rest' /\ PointerLinked'
    BY <2>1 DEF Rest, PointerLinked
  <2>3. PrintsTheSlot'
    <3>1. out = [k \in 1 .. i |-> slot[k - 1]] /\ out \in Seq(Value)
      BY <2>1 DEF PrintsTheSlot
    <3>2. Len(out) = i
      BY <2>1, <3>1
    <3>3. Append(out, slot[i]) = [k \in 1 .. i + 1 |-> slot[k - 1]]
      BY <2>1, <3>1, <3>2
    <3> QED BY <2>1, <3>3 DEF PrintsTheSlot
  <2> QED BY <2>2, <2>3
<1>3. CASE Return
  BY <1>3 DEF Return, Rest, PointerLinked, PrintsTheSlot
<1>4. CASE UNCHANGED vars
  BY <1>4 DEF vars, Rest, PointerLinked, PrintsTheSlot
<1> QED BY <1>1, <1>2, <1>3, <1>4 DEF Next

LEMMA Invariance == Spec => []IInv
BY InitInv, NextInv, PTL DEF Spec
-----------------------------------------------------------------------------
(* Every variable of exo4 keeps its type. *)
THEOREM TypeCorrect == Spec => []TypeOK
<1>1. IInv => TypeOK
  BY DEF IInv
<1> QED BY <1>1, Invariance, PTL

(* p is linked before the second loop reads it, in both builds. *)
THEOREM PointerIsLinked == Spec => []PointerLinked
<1>1. IInv => PointerLinked
  BY DEF IInv
<1> QED BY <1>1, Invariance, PTL

(* The -O0 build prints 1 to Members for every Members. *)
THEOREM DebugIsRight == Spec => []DebugPrintsAll
<1>1. IInv => DebugPrintsAll
  <2> SUFFICES ASSUME IInv, pc = "done", build = "debug"
               PROVE  out = [k \in 1 .. Members |-> k]
    BY DEF DebugPrintsAll
  <2>1. slot = buf /\ i = Members /\ out = [k \in 1 .. i |-> slot[k - 1]]
    BY DEF IInv, Rest, PrintsTheSlot
  <2>2. \A k \in 1 .. Members : buf[k - 1] = k
    BY Shape DEF buf
  <2> QED BY <2>1, <2>2
<1> QED BY <1>1, Invariance, PTL

(* The first loop is left, the second goes round once per member, and main
   returns: every step lowers the bound (exo4.c:13-26). *)
THEOREM RoundsAreBounded == Spec => RoundsCount
<1>1. IInv /\ [Next]_vars => [RoundsLeft' \in 0 .. RoundsLeft - 1]_vars
  <2> SUFFICES ASSUME IInv, Next PROVE RoundsLeft' \in 0 .. RoundsLeft - 1
    BY DEF vars
  <2> USE Shape DEF IInv, TypeOK, Rest, RoundsLeft
  <2>1. CASE FirstLoop
    BY <2>1 DEF FirstLoop
  <2>2. CASE PrintMember
    BY <2>2 DEF PrintMember
  <2>3. CASE Return
    BY <2>3 DEF Return
  <2> QED BY <2>1, <2>2, <2>3 DEF Next
<1> QED BY <1>1, Invariance, PTL DEF Spec, RoundsCount
=============================================================================
