-------------------------------- MODULE Exo2 --------------------------------
(***************************************************************************)
(* c/exo2.c: main reads the LED register, inverts it and writes it back,   *)
(* then runs the tests of libtests_exo2.a.  One action per call of main.   *)
(***************************************************************************)
EXTENDS LedRegister, Sequences

CONSTANTS MaskBits, \* width of the XOR mask of inverse, 24 ones in 0xFFFFFF
          Pattern   \* the bits set in the test vector 0xAAAAAA

ASSUME MaskCoversLeds == MaskBits = LedBits
ASSUME PatternOfLeds == Pattern \subseteq Leds

VARIABLES pc, leds, verdicts
vars == <<value_reg_leds, report, pc, leds, verdicts>>

(* Mutants of inverse: a mask one bit too wide; the complement of the
   whole word, as by ~v; that of the LEDs alone, which drops the reserved octet. *)
inverseOneTooWide(v) == Xor(v, 0 .. MaskBits)
inverseNot(v) == Bits \ v
inverseComplement(v) == (0 .. MaskBits - 1) \ v

inverse(v) == Xor(v, 0 .. MaskBits - 1)

Init == /\ LedInit
        /\ pc = "init"
        /\ leds = {}             \* declared by GetLeds
        /\ verdicts = <<>>

InitLeds == pc = "init" /\ pc' = "get" /\ init_reg_leds /\ UNCHANGED <<leds, verdicts>>

GetLeds == /\ pc = "get" /\ pc' = "inverse"
           /\ leds' = get_reg_leds
           /\ UNCHANGED <<ledVars, verdicts>>

InverseLeds == /\ pc = "inverse" /\ pc' = "set"
               /\ leds' = inverse(leds)
               /\ UNCHANGED <<ledVars, verdicts>>

SetLeds == pc = "set" /\ pc' = "tests" /\ set_reg_leds(leds) /\ UNCHANGED <<leds, verdicts>>

\* The words tests_exo2 gives to inverse, and the ones it expects back.
Vector == << [in |-> Pattern, out |-> Leds \ Pattern],
             [in |-> Leds \ Pattern, out |-> Pattern],
             [in |-> Reserved \cup (Leds \ Pattern), out |-> Reserved \cup Pattern] >>

tests_exo2 ==
  /\ pc = "tests"
  /\ LET test == Vector[Len(verdicts) + 1]
     IN  verdicts' = Append(verdicts, inverse(test.in) = test.out)
  /\ pc' = IF Len(verdicts') = Len(Vector) THEN "done" ELSE "tests"
  /\ UNCHANGED <<ledVars, leds>>

Next == InitLeds \/ GetLeds \/ InverseLeds \/ SetLeds \/ tests_exo2

Spec == Init /\ [][Next]_vars /\ WF_vars(Next)
-----------------------------------------------------------------------------
TypeOK == /\ LedTypeOK
          /\ pc \in {"init", "get", "inverse", "set", "tests", "done"}
          /\ leds \in RandWord
          /\ verdicts \in Seq(BOOLEAN)

(* Whatever word the register starts from, the value that main computes from
   its earlier read is the one the driver accepts: its check of the reserved
   octet and of every LED, against the register as it is at the write, passes. *)
WriteAccepted == pc \in {"tests", "done"} => report = "ok"

(* The register changes only at its initialisation and at main's write, and
   that write flips every LED and no reserved bit (exo2.c:24-28). *)
WriteFlipsLeds ==
  [][pc # "init" => Xor(value_reg_leds, value_reg_leds') = IF pc = "set" THEN Leds ELSE {}]_vars

(* The three vectors of tests_exo2 and the driver ask the same of inverse:
   FAILED is never printed (tests.h:11-15). *)
TestsPass == \A k \in DOMAIN verdicts : verdicts[k]
=============================================================================
