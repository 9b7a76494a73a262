--------------------------- MODULE EmulatorProofs ---------------------------
(***************************************************************************)
(* Proofs about the launchers for any number of machines and of runs of    *)
(* their scripts.                                                          *)
(***************************************************************************)
EXTENDS Emulator, TLAPS

(* The port admits one emulator, and a gdb is connected to one that runs. *)
OneServer == \A p, q \in Process : emulator[p] = "running" /\ emulator[q] = "running" => p = q
PeerRuns == \A m \in Machine : peer[m] # Nothing => emulator[peer[m]] = "running"

IInv == TypeOK /\ OneServer /\ PeerRuns

LEMMA InitIInv == Init => IInv
BY DEF Init, IInv, TypeOK, OneServer, PeerRuns

LEMMA GoneIInv == ASSUME IInv, NEW p \in Process, Gone(p) PROVE IInv'
BY Processes DEF IInv, TypeOK, OneServer, PeerRuns, Gone, Disconnect, Dropped

LEMMA NextIInv == IInv /\ [Next]_vars => IInv'
<1> SUFFICES ASSUME IInv, [Next]_vars PROVE IInv'
  OBVIOUS
<1> USE Processes DEF IInv, TypeOK, OneServer, PeerRuns
<1>1. ASSUME NEW p \in Process, Run(p) PROVE IInv'
  BY <1>1 DEF Run
<1>2. ASSUME NEW p \in Process, Listen(p) PROVE IInv'
  BY <1>2 DEF Listen, Taken, ServerPort
<1>3. ASSUME NEW p \in Process, Quit(p) PROVE IInv'
  BY <1>3, GoneIInv DEF Quit
<1>4. ASSUME NEW m \in Machine, Debug(m) PROVE IInv'
  BY <1>4 DEF Debug
<1>5. ASSUME NEW m \in Machine, Answer(m) PROVE IInv'
  BY <1>5 DEF Answer
<1>6. ASSUME NEW m \in Machine, Detach(m) PROVE IInv'
  BY <1>6 DEF Detach, Disconnect
<1>7. ASSUME NEW m \in Machine, Kill(m) PROVE IInv'
  <2>1. peer[m] \in Process
    BY <1>7 DEF Kill
  <2> QED BY <1>7, <2>1, GoneIInv DEF Kill
<1>8. CASE UNCHANGED vars
  BY <1>8 DEF vars
<1> QED BY <1>1, <1>2, <1>3, <1>4, <1>5, <1>6, <1>7, <1>8 DEF Next

LEMMA Invariance == Spec => []IInv
BY InitIInv, NextIInv, PTL DEF Spec

(* Every variable of the launchers keeps its type. *)
THEOREM TypeCorrect == Spec => []TypeOK
<1>1. IInv => TypeOK
  BY DEF IInv
<1> QED BY <1>1, Invariance, PTL

(* With one port for all machines, no gdb is on the wrong emulator while the
   right one runs. *)
THEOREM RightWhenUp == Spec => []WrongOnlyWhileDown
<1>1. IInv => WrongOnlyWhileDown
  BY Processes DEF IInv, TypeOK, OneServer, PeerRuns, WrongOnlyWhileDown
<1> QED BY <1>1, Invariance, PTL

(* An answered gdb is connected to the one emulator that runs, and that
   emulator answers one gdb. *)
LEMMA OneAnsweredNext == IInv /\ OneAnswered /\ [Next]_vars => OneAnswered'
<1> SUFFICES ASSUME IInv, OneAnswered, [Next]_vars PROVE OneAnswered'
  OBVIOUS
<1> USE Processes DEF IInv, TypeOK, OneAnswered
<1>1. ASSUME NEW p \in Process, Run(p) \/ Listen(p) \/ Quit(p) PROVE OneAnswered'
  BY <1>1 DEF Run, Listen, Quit, Gone, Disconnect
<1>2. ASSUME NEW m \in Machine, Debug(m) \/ Detach(m) \/ Kill(m) PROVE OneAnswered'
  BY <1>2 DEF Debug, Detach, Kill, Gone, Disconnect
<1>3. ASSUME NEW m \in Machine, Answer(m) PROVE OneAnswered'
  <2>1. \A k \in served : peer[k] = peer[m]
    BY <1>3 DEF Answer, OneServer, PeerRuns
  <2>2. served = {}
    BY <1>3, <2>1 DEF Answer
  <2> QED BY <1>3, <2>2 DEF Answer
<1>4. CASE UNCHANGED vars
  BY <1>4 DEF vars
<1> QED BY <1>1, <1>2, <1>3, <1>4 DEF Next

(* Two debug sessions, of one machine or of two, are never answered at once. *)
THEOREM OneSession == Spec => []OneAnswered
<1>1. Init => OneAnswered
  BY DEF Init, OneAnswered
<1> QED BY <1>1, OneAnsweredNext, Invariance, PTL DEF Spec
=============================================================================
