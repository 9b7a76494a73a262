-------------------------------- MODULE Exo1 --------------------------------
(***************************************************************************)
(* c/exo1.c: allocate_string copies a string to the heap.  It is called    *)
(* once by main and three times by tests_exo1 (c/libtests_exo1.a), in that *)
(* order; `call' numbers the calls and the block each one may obtain.      *)
(***************************************************************************)
EXTENDS Integers, Sequences

CONSTANTS Char, NUL,  \* the bytes, and the one that ends a C string
          MainText,   \* the array `string' of main, "Bonjour de main!"
          TestText,   \* the literal of tests_exo1, "Hello world"
          IntMax, SizeMax

strlen(t) == CHOOSE n \in DOMAIN t : t[n] = NUL /\ \A k \in 0 .. n - 1 : t[k] # NUL

IsCString(t) == /\ strlen(t) \in Nat
                /\ t \in [0 .. strlen(t) -> Char]
                /\ t[strlen(t)] = NUL
                /\ \A k \in 0 .. strlen(t) - 1 : t[k] # NUL

ASSUME TextsAreStrings == NUL \in Char /\ IsCString(MainText) /\ IsCString(TestText)
ASSUME WidthsSuffice ==
  /\ IntMax \in Nat /\ SizeMax \in Nat /\ IntMax < SizeMax
  /\ strlen(MainText) <= IntMax /\ strlen(TestText) + 1 <= IntMax

(* Mutants of the conversions: IntMax itself taken for a negative number, no
   byte for the terminator. *)
ToIntShort(n) == LET m == n % (2 * IntMax + 2)
                 IN  IF m >= IntMax THEN m - (2 * IntMax + 2) ELSE m
MallocSizeNoNul(n) == n % (SizeMax + 1)

\* Conversions of a call: strlen's size_t to the int parameter, and that
\* parameter back to size_t in the argument of malloc.
ToInt(n) == LET m == n % (2 * IntMax + 2)
            IN  IF m > IntMax THEN m - (2 * IntMax + 2) ELSE m
MallocSize(n) == (n + 1) % (SizeMax + 1)

Calls == 1 .. 4
NULL == 0
\* Call 2 also copies the terminator; call 4 checks how NULL is handled.
Argument == << [string |-> "main", length |-> strlen(MainText)],
               [string |-> "test", length |-> strlen(TestText) + 1],
               [string |-> "test", length |-> strlen(TestText)],
               [string |-> "NULL", length |-> strlen(TestText)] >>
Text == [s \in {"main", "test"} |-> IF s = "main" THEN MainText ELSE TestText]

VARIABLES pc, call,
          string, length, alloc, i,  \* parameters and locals of allocate_string
          block,                     \* the bytes of the block of each call
          live,                      \* the blocks that are allocated
          verdicts                   \* what tests_exo1 has printed
vars == <<pc, call, string, length, alloc, i, block, live, verdicts>>

Init == /\ pc = "call" /\ call = 1
        /\ string = "NULL" /\ length = 0 /\ alloc = NULL /\ i = 0
        /\ block = [c \in Calls |-> <<>>] /\ live = {}
        /\ verdicts = <<>>

Call == /\ pc = "call" /\ pc' = "enter"
        /\ string' = Argument[call].string
        /\ length' = ToInt(Argument[call].length)
        /\ UNCHANGED <<call, alloc, i, block, live, verdicts>>

RejectNull == /\ pc = "enter" /\ string = "NULL"
              /\ pc' = "return" /\ alloc' = NULL
              /\ UNCHANGED <<call, string, length, i, block, live, verdicts>>

MallocFails == /\ pc = "enter" /\ string # "NULL"
               /\ pc' = "return" /\ alloc' = NULL
               /\ UNCHANGED <<call, string, length, i, block, live, verdicts>>

(* Mutant of Obtained: every call gets the same static buffer. *)
ObtainedStatic == 1

\* The block that malloc gives to the current call.
Obtained == call

\* The fresh bytes are whatever the heap held there before.
Malloc == /\ pc = "enter" /\ string # "NULL"
          /\ pc' = "copy" /\ alloc' = Obtained /\ i' = 0
          /\ \E junk \in [0 .. MallocSize(length) - 1 -> Char] :
               block' = [block EXCEPT ![Obtained] = junk]
          /\ live' = live \cup {Obtained}
          /\ UNCHANGED <<call, string, length, verdicts>>

(* Mutants of the stores: the copy is reversed; the NUL is forgotten, or
   written at the first byte. *)
FilledReversed == [block EXCEPT ![alloc][length - 1 - i] = Text[string][i]]
TerminatedForgotten == block
TerminatedFirst == [block EXCEPT ![alloc][0] = NUL]

\* The two stores to the block.
Filled == [block EXCEPT ![alloc][i] = Text[string][i]]
Terminated == [block EXCEPT ![alloc][length] = NUL]

(* Mutant of CopyChar: i is never incremented. *)
CopyCharStuck == /\ pc = "copy" /\ i < length /\ block' = Filled
                 /\ UNCHANGED <<pc, call, string, length, alloc, i, live, verdicts>>

CopyChar == /\ pc = "copy" /\ i < length
            /\ block' = Filled
            /\ i' = i + 1
            /\ UNCHANGED <<pc, call, string, length, alloc, live, verdicts>>

Terminate == /\ pc = "copy" /\ ~(i < length)
             /\ block' = Terminated
             /\ pc' = "return"
             /\ UNCHANGED <<call, string, length, alloc, i, live, verdicts>>

\* main prints its copy, keeps it and calls tests_exo1.
PrintMessage == /\ pc = "return" /\ call = 1
                /\ pc' = "call" /\ call' = 2
                /\ UNCHANGED <<string, length, alloc, i, block, live, verdicts>>

SameString(t, b) == \E n \in DOMAIN t \cap DOMAIN b :
                      t[n] = NUL /\ \A k \in 0 .. n : b[k] = t[k]

\* What tests_exo1 prints for the result of each of its calls: strcmp finds
\* the copy equal; its last byte is NUL; NULL gave NULL.
Passed == \/ call = 2 /\ alloc # NULL /\ SameString(TestText, block[alloc])
          \/ call = 3 /\ alloc # NULL /\ block[alloc][strlen(TestText)] = NUL
          \/ call = 4 /\ alloc = NULL

Judge == /\ pc = "return" /\ call # 1
         /\ verdicts' = Append(verdicts, Passed)
         /\ pc' = "free"
         /\ UNCHANGED <<call, string, length, alloc, i, block, live>>

(* Mutant of Released: the test forgets its free. *)
ReleasedNone == {}

\* free(NULL) does nothing.
Released == {alloc}
Free == /\ pc = "free"
        /\ live' = live \ Released
        /\ block' = [c \in Calls |-> IF c \in Released THEN <<>> ELSE block[c]]
        /\ IF call = 4 THEN pc' = "done" /\ UNCHANGED call
                       ELSE pc' = "call" /\ call' = call + 1
        /\ UNCHANGED <<string, length, alloc, i, verdicts>>

allocate_string == RejectNull \/ MallocFails \/ Malloc \/ CopyChar \/ Terminate
Next == Call \/ allocate_string \/ PrintMessage \/ Judge \/ Free

Spec == Init /\ [][Next]_vars /\ WF_vars(Next)
-----------------------------------------------------------------------------
Byte == UNION {[0 .. n - 1 -> Char] : n \in 0 .. IntMax + 1}

TypeOK == /\ pc \in {"call", "enter", "copy", "return", "free", "done"}
          /\ call \in Calls
          /\ string \in {"main", "test", "NULL"}
          /\ length \in 0 .. IntMax /\ i \in 0 .. IntMax
          /\ alloc \in Calls \cup {NULL}
          /\ block \in [Calls -> Byte]
          /\ live \subseteq Calls
          /\ verdicts \in Seq(BOOLEAN)

(* Each read and write of allocate_string, the final NUL included, falls in
   the source array and in the block that malloc sized, and test 2's read of
   the last byte falls in the copy (exo1.c:20-29). *)
InBounds ==
  /\ pc = "copy" =>
       /\ alloc \in live
       /\ i < length => i \in DOMAIN Text[string] /\ i \in DOMAIN block[alloc]
       /\ i >= length => length \in DOMAIN block[alloc]
  /\ pc = "return" /\ call = 3 /\ alloc # NULL => strlen(TestText) \in DOMAIN block[alloc]

(* A pointer returned to its caller is NULL or a block with exactly the
   characters asked for and a NUL after them, whatever bytes malloc left in
   it (exo1.c:25-32). *)
CopyFaithful ==
  pc = "return" /\ alloc # NULL =>
    LET asked == Argument[call]
    IN  block[alloc] = [k \in 0 .. asked.length |->
                          IF k < asked.length THEN Text[asked.string][k] ELSE NUL]

(* tests_exo1 reports FAILED only when malloc refused the copy, and the NULL
   test passes even then (tests.h:5-9). *)
OnlyMemoryFailsTests ==
  pc = "free" => (verdicts[Len(verdicts)] <=> alloc # NULL \/ call = 4)

(* Every copy of tests_exo1 is freed once, while allocated, and before the next
   call; only the copy main keeps is still allocated at exit (exo1.c:41-48). *)
OnlyMainCopyKept ==
  /\ pc = "free" /\ alloc # NULL => alloc \in live
  /\ pc \in {"call", "done"} => live \subseteq {1}

(* No later call of allocate_string, and no free, disturbs a string that an
   earlier caller still owns. *)
OwnedCopiesStable ==
  [][\A c \in live : c # call => c \in live' /\ block'[c] = block[c]]_vars

(* A bound on the steps still to come that every step lowers: the loop over the
   characters, whose length it takes from an int, goes round as often as that
   int says and no more, and the four calls come once each (exo1.c:25). *)
StepsLeft == (4 - call) * (IntMax + 6) + CASE pc = "call"   -> IntMax + 5
                                           [] pc = "enter"  -> IntMax + 4
                                           [] pc = "copy"   -> length - i + 3
                                           [] pc = "return" -> 2
                                           [] pc = "free"   -> 1
                                           [] pc = "done"   -> 0
StepsCount == [][StepsLeft' \in 0 .. StepsLeft - 1]_vars

(* Whatever malloc answers, the program reaches its return 0. *)
Terminates == <>(pc = "done")

(* The copying loop implements the one-step contract of StringCopies: the
   block being filled is nobody's until allocate_string returns it. *)
Copies == INSTANCE StringCopies WITH
  Request <- {Argument[c] : c \in Calls},
  Block <- Calls,
  request <- IF pc \in {"enter", "copy"} THEN <<Argument[call]>> ELSE <<>>,
  copies <- [b \in live \ (IF pc = "copy" THEN {alloc} ELSE {}) |-> block[b]]

ImplementsCopies == Copies!Spec

(* main prints the message it received in its copy (comment at exo1.c:43). *)
MessageReceived == pc = "return" /\ call = 1 => alloc # NULL
=============================================================================
