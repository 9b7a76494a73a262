----------------------------- MODULE Exo2Proofs -----------------------------
(* Proofs about exo2 for every word width, number of LEDs and test pattern. *)
EXTENDS Exo2, TLAPS

(* The contract of the driver (test_leds.a) met by exo2.c:17: a write that
   inverts the current word with the mask is accepted, and it is the only one. *)
LEMMA InverseIsTheAcceptedWord ==
  ASSUME NEW v \in Word, NEW w \in Word
  PROVE  (Xor(v, w) \cap Reserved = {} /\ Leds \ Xor(v, w) = {}) <=> w = inverse(v)
BY LedLayout, MaskCoversLeds DEF Xor, inverse, Word, Reserved, Leds, Bits

LEMMA RandIsWord == RandWord \subseteq Word
BY LedLayout DEF RandWord, Word, Bits

(* The mask leaves the top bit, which rand() never sets, alone. *)
LEMMA InverseType == ASSUME NEW v \in RandWord PROVE inverse(v) \in RandWord
BY LedLayout, MaskCoversLeds DEF Xor, inverse, RandWord

(* Every variable of exo2 keeps its type. *)
THEOREM TypeCorrect == Spec => []TypeOK
<1>1. Init => TypeOK
  BY DEF Init, LedInit, TypeOK, LedTypeOK, RandWord
<1>2. TypeOK /\ [Next]_vars => TypeOK'
  <2> SUFFICES ASSUME TypeOK, [Next]_vars PROVE TypeOK'
    OBVIOUS
  <2> USE DEF TypeOK, LedTypeOK
  <2>1. CASE InitLeds
    BY <2>1 DEF InitLeds, init_reg_leds
  <2>2. CASE GetLeds
    BY <2>2 DEF GetLeds, get_reg_leds, ledVars
  <2>3. CASE InverseLeds
    BY <2>3, InverseType DEF InverseLeds, ledVars
  <2>4. CASE SetLeds
    BY <2>4 DEF SetLeds, set_reg_leds
  <2>5. CASE tests_exo2
    BY <2>5 DEF tests_exo2, ledVars
  <2>6. CASE UNCHANGED vars
    BY <2>6 DEF vars
  <2> QED BY <2>1, <2>2, <2>3, <2>4, <2>5, <2>6 DEF Next
<1> QED BY <1>1, <1>2, PTL DEF Spec
-----------------------------------------------------------------------------
(* What links main's copy of the word to the register between two calls. *)
Linked == /\ pc = "inverse" => leds = value_reg_leds
          /\ pc = "set" => leds = inverse(value_reg_leds)
          /\ pc \in {"tests", "done"} => report = "ok"

IInv == TypeOK /\ Linked

(* The driver's answer to the write of main. *)
LEMMA WriteTaken ==
  ASSUME IInv, SetLeds
  PROVE  report' = "ok" /\ value_reg_leds' = inverse(value_reg_leds)
<1>1. /\ value_reg_leds \in Word /\ leds \in Word
      /\ leds = inverse(value_reg_leds) /\ set_reg_leds(leds)
  BY RandIsWord DEF IInv, TypeOK, LedTypeOK, Linked, SetLeds
<1>2. Xor(value_reg_leds, leds) \cap Reserved = {} /\ Leds \ Xor(value_reg_leds, leds) = {}
  BY <1>1, InverseIsTheAcceptedWord
<1> QED BY <1>1, <1>2 DEF set_reg_leds

LEMMA Invariance == Spec => []IInv
<1>1. Init => Linked
  BY DEF Init, Linked
<1>2. IInv /\ [Next]_vars => Linked'
  <2> SUFFICES ASSUME IInv, [Next]_vars PROVE Linked'
    OBVIOUS
  <2>1. CASE InitLeds
    BY <2>1 DEF InitLeds, Linked
  <2>2. CASE GetLeds
    BY <2>2 DEF GetLeds, get_reg_leds, ledVars, Linked
  <2>3. CASE InverseLeds
    BY <2>3 DEF InverseLeds, ledVars, IInv, Linked
  <2>4. CASE SetLeds
    BY <2>4, WriteTaken DEF SetLeds, Linked
  <2>5. CASE tests_exo2
    BY <2>5 DEF tests_exo2, ledVars, IInv, Linked
  <2>6. CASE UNCHANGED vars
    BY <2>6 DEF vars, IInv, Linked
  <2> QED BY <2>1, <2>2, <2>3, <2>4, <2>5, <2>6 DEF Next
<1> QED BY <1>1, <1>2, TypeCorrect, PTL DEF Spec, IInv

(* exo2.c:24-28 computes the one word that the driver accepts. *)
THEOREM WriteIsAccepted == Spec => []WriteAccepted
<1>1. IInv => WriteAccepted
  BY DEF IInv, Linked, WriteAccepted
<1> QED BY <1>1, Invariance, PTL

(* The write flips every LED, keeps the reserved bits, and is the only one. *)
THEOREM WriteIsAFlip == Spec => WriteFlipsLeds
<1>1. IInv /\ [Next]_vars =>
        [pc # "init" => Xor(value_reg_leds, value_reg_leds') = IF pc = "set" THEN Leds ELSE {}]_vars
  <2> SUFFICES ASSUME IInv, Next, pc # "init"
               PROVE  Xor(value_reg_leds, value_reg_leds') = IF pc = "set" THEN Leds ELSE {}
    BY DEF vars
  <2>1. CASE SetLeds
    <3>1. value_reg_leds' = inverse(value_reg_leds) /\ value_reg_leds \in Word /\ pc = "set"
      BY <2>1, WriteTaken, RandIsWord DEF SetLeds, IInv, TypeOK, LedTypeOK
    <3> QED BY <3>1, MaskCoversLeds DEF inverse, Xor, Leds
  <2>2. CASE GetLeds \/ InverseLeds \/ tests_exo2
    BY <2>2 DEF GetLeds, InverseLeds, tests_exo2, ledVars, Xor
  <2> QED BY <2>1, <2>2 DEF Next, InitLeds
<1> QED BY <1>1, Invariance, PTL DEF Spec, WriteFlipsLeds
-----------------------------------------------------------------------------
LEMMA VectorsHold ==
  ASSUME NEW k \in 1 .. 3
  PROVE  inverse(Vector[k].in) = Vector[k].out
<1> USE LedLayout, MaskCoversLeds, PatternOfLeds DEF inverse, Xor, Reserved, Leds, Bits
<1>1. CASE k = 1  BY <1>1 DEF Vector
<1>2. CASE k = 2  BY <1>2 DEF Vector
<1>3. CASE k = 3  BY <1>3 DEF Vector
<1> QED BY <1>1, <1>2, <1>3

(* The tests run in turn, one verdict each. *)
Counting == /\ pc \in {"init", "get", "inverse", "set", "tests"} => Len(verdicts) \in 0 .. 2
            /\ TestsPass

(* tests_exo2 never prints FAILED, for any width, LED count and pattern. *)
THEOREM TestsAlwaysPass == Spec => []TestsPass
<1>1. Init => Counting
  BY DEF Init, Counting, TestsPass
<1>2. TypeOK /\ Counting /\ [Next]_vars => Counting'
  <2> SUFFICES ASSUME TypeOK, Counting, [Next]_vars PROVE Counting'
    OBVIOUS
  <2>1. CASE verdicts' = verdicts /\ (pc' = pc \/ pc \notin {"tests", "done"})
    BY <2>1 DEF Counting, TestsPass, TypeOK
  <2>2. CASE tests_exo2
    <3> DEFINE v == inverse(Vector[Len(verdicts) + 1].in) = Vector[Len(verdicts) + 1].out
    <3>1. Len(verdicts) \in 0 .. 2 /\ verdicts \in Seq(BOOLEAN) /\ Len(verdicts) + 1 \in 1 .. 3
      BY <2>2 DEF tests_exo2, Counting, TypeOK
    <3>2. v = TRUE /\ verdicts' = Append(verdicts, v)
      BY <2>2, <3>1, VectorsHold DEF tests_exo2
    <3>3. verdicts' = Append(verdicts, TRUE)
      BY <3>2
    <3>4. TestsPass' /\ Len(verdicts') = Len(verdicts) + 1
      BY <3>1, <3>3 DEF Counting, TestsPass
    <3>5. pc' # "done" => Len(verdicts') # 3
      BY <2>2 DEF tests_exo2, Vector
    <3>6. pc' \in {"init", "get", "inverse", "set", "tests"} => Len(verdicts') \in 0 .. 2
      BY <3>1, <3>4, <3>5
    <3> QED BY <3>4, <3>6 DEF Counting
  <2> QED
    BY <2>1, <2>2 DEF Next, InitLeds, GetLeds, InverseLeds, SetLeds, vars
<1>3. Counting => TestsPass
  BY DEF Counting
<1> QED BY <1>1, <1>2, <1>3, TypeCorrect, PTL DEF Spec
=============================================================================
