----------------------------- MODULE Exo3Proofs -----------------------------
(* Proofs about exo3 for every set of bytes and every constant whose two     *)
(* bytes differ.                                                             *)
EXTENDS Exo3, TLAPS

(* The first byte of the constant tells the order (exo3.c:13-18). *)
LEMMA FirstByteTellsOrder ==
  ASSUME NEW order \in {"little", "big"}
  PROVE  /\ InMemory(order) \in [{0, 1} -> Byte]
         /\ FirstByteTest(InMemory(order)) = IF order = "little" THEN 1 ELSE 0
BY BytesDiffer DEF InMemory, FirstByteTest

(* A returned result is the order of the host. *)
Reported ==
  /\ pc = "test" => checker = InMemory(host)
  /\ pc = "return" => result = IF host = "little" THEN 1 ELSE 0
  /\ pc = "done" => printed = host

IInv == TypeOK /\ Reported

LEMMA Invariance == Spec => []IInv
<1>1. Init => IInv
  BY DEF Init, IInv, TypeOK, Reported
<1>2. IInv /\ [Next]_vars => IInv'
  <2> SUFFICES ASSUME IInv, [Next]_vars PROVE IInv'
    OBVIOUS
  <2> USE DEF IInv, TypeOK, Reported
  <2>1. CASE Store
    BY <2>1, FirstByteTellsOrder DEF Store
  <2>2. CASE Test
    BY <2>2, FirstByteTellsOrder DEF Test
  <2>3. CASE tests_exo3
    BY <2>3 DEF tests_exo3
  <2>4. CASE PrintOrder
    BY <2>4 DEF PrintOrder
  <2>5. CASE UNCHANGED vars
    BY <2>5 DEF vars
  <2> QED BY <2>1, <2>2, <2>3, <2>4, <2>5 DEF Next
<1> QED BY <1>1, <1>2, PTL DEF Spec

(* Every variable of exo3 keeps its type. *)
THEOREM TypeCorrect == Spec => []TypeOK
<1>1. IInv => TypeOK
  BY DEF IInv
<1> QED BY <1>1, Invariance, PTL

(* main prints the byte order of the machine it runs on. *)
THEOREM ReportIsTrue == Spec => []OrderReported
<1>1. IInv => OrderReported
  BY DEF IInv, Reported, OrderReported
<1> QED BY <1>1, Invariance, PTL
=============================================================================
