------------------------------ MODULE Emulator ------------------------------
(***************************************************************************)
(* st and st86, which start an emulator of one machine with a gdb server,  *)
(* and the remote debug configuration the IDE has for each machine, whose  *)
(* gdb connects to such a server.  A script may be run more than once.     *)
(***************************************************************************)
EXTENDS Naturals

CONSTANTS Machine,   \* arm and x86
          Process,   \* runs of the two scripts
          MachineOf, \* the machine each of them emulates
          Nothing

ASSUME Processes == MachineOf \in [Process -> Machine] /\ Nothing \notin Process

VARIABLES emulator,  \* per run of a script, whether its emulator is off, starting or running
          peer,      \* per machine, the emulator that its gdb is connected to
          served     \* the machines whose gdb has been answered
vars == <<emulator, peer, served>>

Init == /\ emulator = [p \in Process |-> "off"]
        /\ peer = [m \in Machine |-> Nothing] /\ served = {}

(* Mutant of ServerPort: one machine is given a port of its own, the debug
   configurations are left as they are. *)
ServerPortOwn(p) == IF MachineOf[p] = CHOOSE m \in Machine : TRUE THEN 1235 ELSE 1234

\* The port of `-s', and the one that a debug configuration connects to.
ServerPort(p) == 1234
DebugPort(m) == 1234

Run(p) == /\ emulator[p] = "off" /\ emulator' = [emulator EXCEPT ![p] = "starting"]
          /\ UNCHANGED <<peer, served>>

(* Mutant of Taken: only an emulator of the same machine is in the way. *)
TakenBySame(p) == \E q \in Process : emulator[q] = "running" /\ MachineOf[q] = MachineOf[p]

\* The emulator listens, or finds its port taken and exits.
Taken(p) == \E q \in Process : emulator[q] = "running" /\ ServerPort(q) = ServerPort(p)
Listen(p) == /\ emulator[p] = "starting"
             /\ emulator' = [emulator EXCEPT ![p] = IF Taken(p) THEN "off" ELSE "running"]
             /\ UNCHANGED <<peer, served>>

(* Mutant of Disconnect: nobody notices that the answered gdb is gone. *)
DisconnectUnnoticed(ms) == /\ peer' = [m \in Machine |-> IF m \in ms THEN Nothing ELSE peer[m]]
                           /\ served' = served

Disconnect(ms) == /\ peer' = [m \in Machine |-> IF m \in ms THEN Nothing ELSE peer[m]]
                  /\ served' = served \ ms

\* The gdb sessions that lose their connection, the waiting ones too.
Dropped(p) == {m \in Machine : peer[m] = p}
Gone(p) == emulator' = [emulator EXCEPT ![p] = "off"] /\ Disconnect(Dropped(p))

Quit(p) == emulator[p] # "off" /\ Gone(p)

\* gdb connects to whatever listens on its port, and is answered when no other
\* gdb is being served there.
Debug(m) == /\ peer[m] = Nothing
            /\ \E p \in Process : /\ emulator[p] = "running" /\ ServerPort(p) = DebugPort(m)
                                  /\ peer' = [peer EXCEPT ![m] = p]
            /\ UNCHANGED <<emulator, served>>
Answer(m) == /\ peer[m] # Nothing /\ \A k \in served : peer[k] # peer[m]
             /\ served' = served \cup {m}
             /\ UNCHANGED <<emulator, peer>>

\* gdb disconnects; one that was answered may kill the emulator instead.
Detach(m) == peer[m] # Nothing /\ Disconnect({m}) /\ UNCHANGED emulator
Kill(m) == m \in served /\ Gone(peer[m])

Next == \/ \E p \in Process : Run(p) \/ Listen(p) \/ Quit(p)
        \/ \E m \in Machine : Debug(m) \/ Answer(m) \/ Detach(m) \/ Kill(m)

Spec == Init /\ [][Next]_vars
-----------------------------------------------------------------------------
TypeOK == /\ emulator \in [Process -> {"off", "starting", "running"}]
          /\ peer \in [Machine -> Process \cup {Nothing}]
          /\ served \subseteq {m \in Machine : peer[m] # Nothing}

(* A gdb is connected, or waits to be answered, on the emulator of the other
   machine only as long as no emulator of its own is up: whoever debugs while
   the right emulator runs debugs the right one (st:2, st86:2). *)
WrongOnlyWhileDown ==
  \A m \in Machine : peer[m] # Nothing /\ MachineOf[peer[m]] # m =>
    \A p \in Process : MachineOf[p] = m => emulator[p] # "running"

(* No two debug sessions are answered at the same time, whichever machines they
   are for: one port, one emulator behind it, one gdb at a time (st:2, st86:2). *)
OneAnswered == \A m, k \in served : m = k
=============================================================================
