----------------------------- MODULE LedRegister -----------------------------
(***************************************************************************)
(* The LED register that exo2 drives through c/include/libleds.h; its code *)
(* is the archive c/test_leds.a.  A word is the set of its bits that are 1.*)
(***************************************************************************)
EXTENDS Integers

CONSTANTS WordBits, \* width of uint32_t
          LedBits   \* how many low-order bits drive a LED; the rest are reserved

ASSUME LedLayout == LedBits \in Nat /\ WordBits \in Nat /\ LedBits < WordBits

Bits == 0 .. WordBits - 1
Leds == 0 .. LedBits - 1
Reserved == Bits \ Leds
Word == SUBSET Bits

Xor(v, w) == (v \ w) \cup (w \ v)

\* What rand() can return: RAND_MAX is 2^31 - 1, so the top bit is clear and
\* the reduction modulo 0xFFFFFFFF that init_reg_leds makes changes nothing.
RandWord == SUBSET (0 .. WordBits - 2)

VARIABLES value_reg_leds, \* the static word behind the three functions
          report          \* the line set_reg_leds last printed
ledVars == <<value_reg_leds, report>>

LedTypeOK == /\ value_reg_leds \in RandWord
             /\ report \in {"none", "octet", "led", "ok"}

LedInit == value_reg_leds = {} /\ report = "none"   \* .bss

init_reg_leds == value_reg_leds' \in RandWord /\ UNCHANGED report

get_reg_leds == value_reg_leds

(* Mutant of set_reg_leds: the verdict is printed, the write is forgotten. *)
set_reg_ledsForgotten(val) ==
  /\ report' = IF Xor(value_reg_leds, val) = Leds THEN "ok" ELSE "led"
  /\ UNCHANGED value_reg_leds

\* The write is made only when val keeps the reserved bits and flips every LED.
set_reg_leds(val) ==
  LET diff == Xor(value_reg_leds, val) IN
  \/ /\ diff \cap Reserved # {}
     /\ report' = "octet" /\ UNCHANGED value_reg_leds
  \/ /\ diff \cap Reserved = {} /\ Leds \ diff # {}
     /\ report' = "led" /\ UNCHANGED value_reg_leds
  \/ /\ diff \cap Reserved = {} /\ Leds \ diff = {}
     /\ report' = "ok" /\ value_reg_leds' = val
=============================================================================
