-------------------------------- MODULE Exo4 --------------------------------
(***************************************************************************)
(* c/exo4.c: main points p at a buffer whose block ends before p is read.  *)
(* C leaves the read undefined; the two builds of the Makefile both keep a *)
(* slot for the buffer in the frame of main, which printf does not reach.  *)
(* exo4-debug (-O0) fills the slot; exo4-optimized (-O3) drops the stores, *)
(* dead once the block ends, and prints what the stack held.               *)
(***************************************************************************)
EXTENDS Integers, Sequences

CONSTANTS Members,  \* length of buf, 4
          Rounds,   \* bound of the first loop, 2
          Value     \* the ints the stack may hold

ASSUME Shape == /\ Members \in Nat \ {0} /\ Rounds \in Nat \ {0}
                /\ 1 .. Members \subseteq Value

VARIABLES build, pc, i, p,
          slot,     \* the stack slot of buf
          out       \* the values printed so far
vars == <<build, pc, i, p, slot, out>>

(* Mutants of buf: one initializer too many; the members counted from 0. *)
bufTooLong == [k \in 0 .. Members |-> k + 1]
bufFromZero == [k \in 0 .. Members - 1 |-> k]

buf == [k \in 0 .. Members - 1 |-> k + 1]

Init == /\ build \in {"debug", "optimized"}
        /\ pc = "first" /\ i = 0 /\ p = "unset" /\ out = <<>>
        /\ slot \in [0 .. Members - 1 -> Value]

\* The block of the if: fill buf, link p to it.
LinkBuffer == /\ p' = "buf"
              /\ slot' = IF build = "debug" THEN buf ELSE slot

(* Mutants of FirstLoop: the last i is tested for instead of 0; neither break
   nor ++i leaves the round. *)
FirstLoopAtTwo ==
  /\ pc = "first"
  /\ IF i < Rounds /\ i # Rounds
       THEN i' = i + 1 /\ UNCHANGED <<pc, p, slot>>
       ELSE /\ pc' = "print" /\ i' = 0
            /\ IF i < Rounds THEN LinkBuffer ELSE UNCHANGED <<p, slot>>
  /\ UNCHANGED <<build, out>>
FirstLoopStuck == pc = "first" /\ LinkBuffer /\ UNCHANGED <<build, pc, i, out>>

\* One round: the block is run, and breaks, for i = 0 only; without it p would
\* stay unset.  The second loop has an i of its own.
FirstLoop ==
  /\ pc = "first"
  /\ IF i < Rounds /\ i # 0
       THEN i' = i + 1 /\ UNCHANGED <<pc, p, slot>>
       ELSE /\ pc' = "print" /\ i' = 0
            /\ IF i < Rounds THEN LinkBuffer ELSE UNCHANGED <<p, slot>>
  /\ UNCHANGED <<build, out>>

PrintMember == /\ pc = "print" /\ i < Members
               /\ out' = Append(out, slot[i])
               /\ i' = i + 1
               /\ UNCHANGED <<build, pc, p, slot>>

Return == pc = "print" /\ ~(i < Members) /\ pc' = "done" /\ UNCHANGED <<build, i, p, slot, out>>

Next == FirstLoop \/ PrintMember \/ Return

Spec == Init /\ [][Next]_vars /\ WF_vars(Next)
-----------------------------------------------------------------------------
TypeOK == /\ build \in {"debug", "optimized"}
          /\ pc \in {"first", "print", "done"}
          /\ i \in 0 .. Members \cup 0 .. Rounds
          /\ p \in {"unset", "buf"}
          /\ slot \in [0 .. Members - 1 -> Value]
          /\ out \in Seq(Value)

(* p is never read while unset: the path around the block does not exist,
   although no initializer protects the read (exo4.c:11-25). *)
PointerLinked == pc \in {"print", "done"} => p = "buf"

(* The -O0 build prints the whole buffer in order although its lifetime is
   over (README.md:88-94, 134-135). *)
DebugPrintsAll == pc = "done" /\ build = "debug" => out = [k \in 1 .. Members |-> k]

(* A bound on the rounds still to come that every step lowers, in the first
   loop, left by its break, as in the second (exo4.c:13-26). *)
RoundsLeft == CASE pc = "first" -> Rounds - i + Members + 2
                [] pc = "print" -> Members - i + 1
                [] pc = "done"  -> 0
RoundsCount == [][RoundsLeft' \in 0 .. RoundsLeft - 1]_vars

(* Both loops end and main returns. *)
LoopsEnd == <>(pc = "done")

(* main prints all members inside the pointer (comment at exo4.c:23). *)
AllMembersPrinted == pc = "done" => out = [k \in 1 .. Members |-> k]
=============================================================================
