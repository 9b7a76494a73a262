-------------------------------- MODULE Exo3 --------------------------------
(***************************************************************************)
(* c/exo3.c: check_endianness stores a 16-bit constant and looks at its    *)
(* first byte; tests_exo3 (c/libtests_exo3.a) calls it, then main does.    *)
(***************************************************************************)
EXTENDS Naturals

CONSTANTS Byte, High, Low  \* the bytes; 0x12 and 0x34 of the constant 0x1234

ASSUME BytesDiffer == {High, Low} \subseteq Byte /\ High # Low

VARIABLES host,     \* the byte order of the machine
          pc, caller,
          checker,  \* the two bytes at &checker, by address
          result,   \* what check_endianness returned
          verdict,  \* what tests_exo3 printed
          printed   \* the order main printed
vars == <<host, pc, caller, checker, result, verdict, printed>>

(* Mutant of InMemory: the bytes are one address too far. *)
InMemoryShifted(order) == [a \in {1, 2} |-> IF (a = 1) = (order = "big") THEN High ELSE Low]

\* How a machine lays out 0x1234.
InMemory(order) == [a \in {0, 1} |-> IF (a = 0) = (order = "big") THEN High ELSE Low]

(* Mutant of FirstByteTest: the two results are swapped. *)
FirstByteTestSwapped(c) == IF c[0] = High THEN 1 ELSE 0

\* *ptr is the byte at the lower address.
FirstByteTest(c) == IF c[0] = High THEN 0 ELSE 1

Init == /\ host \in {"little", "big"}
        /\ pc = "enter" /\ caller = "tests"
        /\ checker \in [{0, 1} -> Byte]   \* the stack before the frame exists
        /\ result = 0 /\ verdict = "none" /\ printed = "none"

Store == /\ pc = "enter" /\ pc' = "test"
         /\ checker' = InMemory(host)
         /\ UNCHANGED <<host, caller, result, verdict, printed>>

Test == /\ pc = "test" /\ pc' = "return"
        /\ result' = FirstByteTest(checker)
        /\ UNCHANGED <<host, caller, checker, verdict, printed>>

\* tests_exo3 expects 1; the frame is gone when main calls again, and its
\* bytes may have been reused by printf.
tests_exo3 == /\ pc = "return" /\ caller = "tests"
              /\ verdict' = IF result = 1 THEN "PASSED" ELSE "FAILED"
              /\ pc' = "enter" /\ caller' = "main"
              /\ checker' \in [{0, 1} -> Byte]
              /\ UNCHANGED <<host, result, printed>>

PrintOrder == /\ pc = "return" /\ caller = "main"
              /\ pc' = "done"
              /\ printed' = IF result # 0 THEN "little" ELSE "big"
              /\ UNCHANGED <<host, caller, checker, result, verdict>>

Next == Store \/ Test \/ tests_exo3 \/ PrintOrder

Spec == Init /\ [][Next]_vars /\ WF_vars(Next)
-----------------------------------------------------------------------------
TypeOK == /\ host \in {"little", "big"}
          /\ pc \in {"enter", "test", "return", "done"}
          /\ caller \in {"tests", "main"}
          /\ checker \in [{0, 1} -> Byte]
          /\ result \in {0, 1}
          /\ verdict \in {"none", "PASSED", "FAILED"}
          /\ printed \in {"none", "little", "big"}

(* The order main prints is the one of the machine, whatever the stack held
   before (exo3.c:13-18, 25-28). *)
OrderReported == pc = "done" => printed = host

(* "Ce test vérifie que l'endianess correspond bien à celui de la machine
   hôte" (tests.h:19): the test passes on every host, as check_endianness
   returns the order of every host. *)
TestAcceptsHost == pc = "done" => verdict = "PASSED"
=============================================================================
