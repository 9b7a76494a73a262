----------------------------- MODULE Exo1Proofs -----------------------------
(***************************************************************************)
(* Proofs about exo1 for every pair of texts and every width of int and    *)
(* size_t for which the lengths fit (TextsAreStrings, WidthsSuffice).      *)
(***************************************************************************)
EXTENDS Exo1, TLAPS

(* A length that fits an int survives the conversion of the call. *)
LEMMA ToIntExact == ASSUME NEW n \in 0 .. IntMax PROVE ToInt(n) = n
BY WidthsSuffice DEF ToInt

(* malloc is asked for one byte more than the length: nothing wraps. *)
LEMMA MallocSizeExact == ASSUME NEW n \in 0 .. IntMax PROVE MallocSize(n) = n + 1
BY WidthsSuffice DEF MallocSize

LEMMA ArgumentFacts ==
  ASSUME NEW c \in Calls
  PROVE  /\ Argument[c].length \in 0 .. IntMax
         /\ Argument[c].string \in {"main", "test", "NULL"}
         /\ Argument[c].string = "NULL" <=> c = 4
         /\ c # 4 => \A k \in 0 .. Argument[c].length - 1 :
                       /\ k \in DOMAIN Text[Argument[c].string]
                       /\ Text[Argument[c].string][k] \in Char
<1> USE TextsAreStrings, WidthsSuffice DEF IsCString
<1>1. CASE c = 1  BY <1>1 DEF Argument, Text
<1>2. CASE c = 2  BY <1>2 DEF Argument, Text
<1>3. CASE c = 3  BY <1>3 DEF Argument, Text
<1>4. CASE c = 4  BY <1>4 DEF Argument, Text
<1> QED BY <1>1, <1>2, <1>3, <1>4 DEF Calls
-----------------------------------------------------------------------------
(***************************************************************************)
(* The inductive invariant: TypeOK, and one conjunct for each stretch of a *)
(* call.  CopyFaithful only looks at the return; Copying carries it there  *)
(* through the loop, and Arguments ties the parameters to the call site.   *)
(***************************************************************************)
Arguments == pc \in {"enter", "copy", "return", "free"} =>
               /\ string = Argument[call].string
               /\ length = Argument[call].length

Copying == pc = "copy" =>
             /\ call # 4 /\ alloc = call /\ call \in live
             /\ i <= length
             /\ block[call] \in [0 .. length -> Char]
             /\ \A k \in 0 .. i - 1 : block[call][k] = Text[string][k]

Returned == pc \in {"return", "free"} /\ alloc # NULL =>
              /\ call # 4 /\ alloc = call /\ call \in live
              /\ block[call] = [k \in 0 .. length |->
                                  IF k < length THEN Text[string][k] ELSE NUL]

Owned == live \subseteq {1} \cup (IF pc \in {"copy", "return", "free"} THEN {alloc} ELSE {})

IInv == TypeOK /\ Arguments /\ Copying /\ Returned /\ Owned /\ OnlyMemoryFailsTests

LEMMA BlockType == ASSUME NEW n \in 0 .. IntMax, NEW b \in [0 .. n -> Char]
                   PROVE  b \in Byte
<1>1. n + 1 \in 0 .. IntMax + 1 /\ (n + 1) - 1 = n
  BY WidthsSuffice
<1> QED BY <1>1 DEF Byte

LEMMA EmptyBlockType == <<>> \in Byte
<1>1. 0 \in 0 .. IntMax + 1 /\ 0 .. 0 - 1 = {}
  BY WidthsSuffice
<1>2. <<>> \in [0 .. 0 - 1 -> Char]
  BY <1>1
<1> QED BY <1>1, <1>2 DEF Byte

LEMMA InitInv == Init => IInv
<1> SUFFICES ASSUME Init PROVE IInv
  OBVIOUS
<1>1. TypeOK
  BY EmptyBlockType, WidthsSuffice DEF Init, TypeOK, Calls, NULL
<1> QED
  BY <1>1 DEF Init, IInv, Arguments, Copying, Returned, Owned, OnlyMemoryFailsTests

LEMMA NextInv == IInv /\ [Next]_vars => IInv'
<1> SUFFICES ASSUME IInv, [Next]_vars PROVE IInv'
  OBVIOUS
<1> USE WidthsSuffice DEF IInv, TypeOK
<1>1. CASE Call
  <2>1. TypeOK'
    BY <1>1, ArgumentFacts, ToIntExact DEF Call
  <2>2. Arguments' /\ Copying' /\ Returned' /\ Owned' /\ OnlyMemoryFailsTests'
    BY <1>1, ArgumentFacts, ToIntExact
    DEF Call, Arguments, Copying, Returned, Owned, OnlyMemoryFailsTests
  <2> QED BY <2>1, <2>2
<1>2. CASE RejectNull \/ MallocFails
  BY <1>2 DEF RejectNull, MallocFails, NULL, Arguments, Copying, Returned, Owned,
              OnlyMemoryFailsTests
<1>3. CASE Malloc
  <2>1. PICK junk \in [0 .. MallocSize(length) - 1 -> Char] :
               block' = [block EXCEPT ![call] = junk]
    BY <1>3 DEF Malloc, Obtained
  <2>2. junk \in [0 .. length -> Char] /\ junk \in Byte
    <3>1. length \in 0 .. IntMax
      OBVIOUS
    <3>2. 0 .. MallocSize(length) - 1 = 0 .. length
      BY <3>1, MallocSizeExact, WidthsSuffice
    <3> QED BY <3>1, <3>2, BlockType
  <2>3. TypeOK'
    BY <1>3, <2>1, <2>2, WidthsSuffice DEF Malloc, Obtained
  <2>4. call # 4
    BY <1>3, ArgumentFacts DEF Malloc, Obtained, Arguments
  <2> QED
    BY <1>3, <2>1, <2>2, <2>3, <2>4
    DEF Malloc, Obtained, Calls, Arguments, Copying, Returned, Owned, OnlyMemoryFailsTests
<1>4. CASE CopyChar
  <2>1. /\ i \in DOMAIN Text[string] /\ Text[string][i] \in Char
        /\ alloc = call /\ block[call] \in [0 .. length -> Char]
    <3>1. /\ call # 4 /\ alloc = call /\ block[call] \in [0 .. length -> Char]
          /\ string = Argument[call].string /\ length = Argument[call].length
          /\ i \in 0 .. length - 1
      BY <1>4 DEF CopyChar, Filled, Arguments, Copying
    <3> QED BY <3>1, ArgumentFacts
  <2>2. /\ block' = [block EXCEPT ![call] = [block[call] EXCEPT ![i] = Text[string][i]]]
        /\ block'[call] \in [0 .. length -> Char] /\ block'[call] \in Byte
    <3>1. block' = [block EXCEPT ![call] = [block[call] EXCEPT ![i] = Text[string][i]]]
      BY <1>4, <2>1 DEF CopyChar, Filled
    <3>2. [block[call] EXCEPT ![i] = Text[string][i]] \in [0 .. length -> Char]
      BY <2>1
    <3> QED BY <3>1, <3>2, BlockType
  <2>3. TypeOK'
    <3>1. block' \in [Calls -> Byte]
      BY <2>2
    <3>2. i' \in 0 .. IntMax
      BY <1>4 DEF CopyChar, Filled
    <3> QED BY <1>4, <3>1, <3>2 DEF CopyChar, Filled
  <2>4. Copying'
    BY <1>4, <2>1, <2>2 DEF CopyChar, Filled, Copying
  <2> QED
    BY <1>4, <2>3, <2>4 DEF CopyChar, Filled, Arguments, Returned, Owned, OnlyMemoryFailsTests
<1>5. CASE Terminate
  <2>1. /\ alloc = call /\ i = length /\ call # 4 /\ call \in live
        /\ block[call] \in [0 .. length -> Char]
        /\ \A k \in 0 .. length - 1 : block[call][k] = Text[string][k]
    BY <1>5 DEF Terminate, Terminated, Copying
  <2>2. block' = [block EXCEPT ![call] = [block[call] EXCEPT ![length] = NUL]]
    BY <1>5, <2>1 DEF Terminate, Terminated
  <2>3. [block[call] EXCEPT ![length] = NUL] \in [0 .. length -> Char]
    BY <2>1, TextsAreStrings
  <2>4. TypeOK'
    BY <1>5, <2>2, <2>3, BlockType DEF Terminate, Terminated
  <2>5. block'[call] = [k \in 0 .. length |->
                          IF k < length THEN Text[string][k] ELSE NUL]
    <3>1. block'[call] = [block[call] EXCEPT ![length] = NUL]
      BY <2>2
    <3>2. \A k \in 0 .. length : block'[call][k] = IF k < length THEN Text[string][k] ELSE NUL
      BY <2>1, <3>1
    <3>3. block'[call] = [k \in 0 .. length |-> block'[call][k]]
      BY <2>1, <3>1
    <3> QED BY <3>2, <3>3
  <2> QED
    BY <1>5, <2>1, <2>4, <2>5
    DEF Terminate, Terminated, Arguments, Copying, Returned, Owned, OnlyMemoryFailsTests
<1>6. CASE PrintMessage
  <2>1. TypeOK'
    BY <1>6 DEF PrintMessage, Calls
  <2>2. live \subseteq {1}
    BY <1>6 DEF PrintMessage, Returned, Owned, NULL, Calls
  <2> QED
    BY <1>6, <2>1, <2>2
    DEF PrintMessage, Arguments, Copying, Returned, Owned, OnlyMemoryFailsTests
<1>7. CASE Judge
  <2>1. Passed <=> alloc # NULL \/ call = 4
    <3>1. CASE call = 2 /\ alloc # NULL
      <4>1. block[alloc] = [k \in 0 .. strlen(TestText) + 1 |->
                              IF k < strlen(TestText) + 1 THEN TestText[k] ELSE NUL]
        BY <1>7, <3>1 DEF Judge, Returned, Arguments, Argument, Text
      <4>2. SameString(TestText, block[alloc])
        <5> DEFINE n == strlen(TestText)
        <5>1. /\ n \in Nat /\ n \in DOMAIN TestText /\ TestText[n] = NUL
          BY TextsAreStrings DEF IsCString
        <5>2. n \in DOMAIN block[alloc] /\ \A k \in 0 .. n : block[alloc][k] = TestText[k]
          BY <4>1, <5>1
        <5> QED BY <5>1, <5>2 DEF SameString
      <4> QED BY <3>1, <4>2 DEF Passed
    <3>2. CASE call = 3 /\ alloc # NULL
      <4>1. block[alloc] = [k \in 0 .. strlen(TestText) |->
                              IF k < strlen(TestText) THEN TestText[k] ELSE NUL]
        BY <1>7, <3>2 DEF Judge, Returned, Arguments, Argument, Text
      <4> QED BY <3>2, <4>1, TextsAreStrings DEF Passed, IsCString
    <3> QED BY <1>7, <3>1, <3>2 DEF Judge, Passed, Returned, Calls
  <2>2. /\ verdicts' \in Seq(BOOLEAN)
        /\ verdicts'[Len(verdicts')] <=> alloc # NULL \/ call = 4
    <3>1. Passed \in BOOLEAN
      BY DEF Passed, SameString
    <3>2. verdicts' = Append(verdicts, Passed)
      BY <1>7 DEF Judge
    <3>3. verdicts' \in Seq(BOOLEAN) /\ verdicts'[Len(verdicts')] = Passed
      BY <3>1, <3>2
    <3> QED BY <3>3, <2>1
  <2>3. TypeOK'
    BY <1>7, <2>2 DEF Judge
  <2> QED
    BY <1>7, <2>2, <2>3
    DEF Judge, Arguments, Copying, Returned, Owned, OnlyMemoryFailsTests
<1>8. CASE Free
  <2>1. TypeOK'
    BY <1>8, EmptyBlockType DEF Free, Released, Calls
  <2> QED
    BY <1>8, <2>1 DEF Free, Released, Calls, Arguments, Copying, Returned, Owned, OnlyMemoryFailsTests
<1>9. CASE UNCHANGED vars
  BY <1>9 DEF vars, Arguments, Copying, Returned, Owned, OnlyMemoryFailsTests
<1> QED
  BY <1>1, <1>2, <1>3, <1>4, <1>5, <1>6, <1>7, <1>8, <1>9 DEF Next, allocate_string

LEMMA Invariance == Spec => []IInv
BY InitInv, NextInv, PTL DEF Spec
-----------------------------------------------------------------------------
(* Every variable of exo1 keeps its type, the blocks of malloc included. *)
THEOREM TypeCorrect == Spec => []TypeOK
<1>1. IInv => TypeOK
  BY DEF IInv
<1> QED BY <1>1, Invariance, PTL

(* The loop, the final NUL and test 2's read stay inside their arrays
   (exo1.c:20-29). *)
THEOREM AccessesInBounds == Spec => []InBounds
<1>1. IInv => InBounds
  <2> SUFFICES ASSUME IInv PROVE InBounds
    OBVIOUS
  <2> USE WidthsSuffice DEF IInv, TypeOK
  <2>1. CASE pc = "copy"
    <3>1. /\ call # 4 /\ alloc = call /\ alloc \in live
          /\ DOMAIN block[alloc] = 0 .. length
          /\ string = Argument[call].string /\ length = Argument[call].length
      BY <2>1 DEF Copying, Arguments
    <3>2. i < length => i \in DOMAIN Text[string]
      BY <3>1, ArgumentFacts
    <3> QED BY <2>1, <3>1, <3>2 DEF InBounds
  <2>2. CASE pc = "return" /\ call = 3 /\ alloc # NULL
    <3>1. length = strlen(TestText) /\ DOMAIN block[alloc] = 0 .. length
      BY <2>2 DEF Returned, Arguments, Argument
    <3> QED BY <2>2, <3>1 DEF InBounds
  <2> QED BY <2>1, <2>2 DEF InBounds
<1> QED BY <1>1, Invariance, PTL

(* A non-NULL result holds the characters asked for and a NUL (exo1.c:25-32). *)
THEOREM ResultFaithful == Spec => []CopyFaithful
<1>1. IInv => CopyFaithful
  <2> SUFFICES ASSUME IInv, pc = "return", alloc # NULL PROVE CopyFaithful
    BY DEF CopyFaithful
  <2>1. /\ alloc = call
        /\ string = Argument[call].string /\ length = Argument[call].length
        /\ block[call] = [k \in 0 .. length |->
                            IF k < length THEN Text[string][k] ELSE NUL]
    BY DEF IInv, Returned, Arguments
  <2> QED BY <2>1 DEF CopyFaithful
<1> QED BY <1>1, Invariance, PTL

(* tests_exo1 prints FAILED only for a copy that malloc refused. *)
THEOREM TestsJudgeMemoryOnly == Spec => []OnlyMemoryFailsTests
<1>1. IInv => OnlyMemoryFailsTests
  BY DEF IInv
<1> QED BY <1>1, Invariance, PTL

(* Nothing but the copy of main outlives its use (exo1.c:41-48). *)
THEOREM NoLeakButMain == Spec => []OnlyMainCopyKept
<1>1. IInv => OnlyMainCopyKept
  BY DEF IInv, TypeOK, Returned, Owned, OnlyMainCopyKept
<1> QED BY <1>1, Invariance, PTL

(* A string that an earlier caller owns is never moved, changed or freed. *)
THEOREM OwnedStable == Spec => OwnedCopiesStable
<1>1. IInv /\ [Next]_vars => [\A c \in live : c # call => c \in live' /\ block'[c] = block[c]]_vars
  <2> SUFFICES ASSUME IInv, Next, NEW c \in live, c # call
               PROVE  c \in live' /\ block'[c] = block[c]
    BY DEF vars
  <2> USE DEF IInv, TypeOK
  <2>1. CASE Call \/ RejectNull \/ MallocFails \/ PrintMessage \/ Judge
    BY <2>1 DEF Call, RejectNull, MallocFails, PrintMessage, Judge
  <2>2. CASE Malloc
    BY <2>2 DEF Malloc, Obtained
  <2>3. CASE CopyChar \/ Terminate
    BY <2>3 DEF CopyChar, Filled, Terminate, Terminated, Copying
  <2>4. CASE Free
    <3>1. c \in Calls /\ c # alloc
      <4>1. alloc = NULL \/ alloc = call
        BY <2>4 DEF Free, Released, Returned
      <4> QED BY <4>1 DEF NULL, Calls
    <3> QED BY <2>4, <3>1 DEF Free, Released
  <2> QED BY <2>1, <2>2, <2>3, <2>4 DEF Next, allocate_string
<1> QED BY <1>1, Invariance, PTL DEF Spec, OwnedCopiesStable
-----------------------------------------------------------------------------
(* The steps left in the current call, and in the calls after it. *)
InCall == CASE pc = "call"   -> IntMax + 5
            [] pc = "enter"  -> IntMax + 4
            [] pc = "copy"   -> length - i + 3
            [] pc = "return" -> 2
            [] pc = "free"   -> 1
            [] pc = "done"   -> 0
Later(c) == (4 - c) * (IntMax + 6)

LEMMA LaterFacts ==
  ASSUME NEW c \in Calls
  PROVE  /\ Later(c) \in Nat
         /\ c # 4 => Later(c) = Later(c + 1) + IntMax + 6
<1> USE WidthsSuffice DEF Calls, Later
<1>1. CASE c = 1  BY <1>1
<1>2. CASE c = 2  BY <1>2
<1>3. CASE c = 3  BY <1>3
<1>4. CASE c = 4  BY <1>4
<1> QED BY <1>1, <1>2, <1>3, <1>4

(* Every step leaves fewer steps to take than there were, and never less than
   none: no run of exo1 is longer than StepsLeft at its start (exo1.c:25). *)
THEOREM StepsAreBounded == Spec => StepsCount
<1>1. IInv /\ [Next]_vars => [StepsLeft' \in 0 .. StepsLeft - 1]_vars
  <2> SUFFICES ASSUME IInv, Next PROVE StepsLeft' \in 0 .. StepsLeft - 1
    BY DEF vars
  <2>1. StepsLeft = Later(call) + InCall /\ StepsLeft' = Later(call') + InCall'
    BY DEF StepsLeft, Later, InCall
  <2>2. InCall \in Nat
    BY WidthsSuffice DEF IInv, TypeOK, Copying, InCall
  <2>3. CASE call' = call /\ InCall' \in 0 .. InCall - 1
    BY <2>1, <2>2, <2>3, LaterFacts DEF IInv, TypeOK
  <2>4. CASE call # 4 /\ call' = call + 1 /\ InCall \in 1 .. 2 /\ InCall' = IntMax + 5
    <3>1. call' \in Calls
      BY <2>4 DEF IInv, TypeOK, Calls
    <3>2. /\ Later(call') \in Nat
          /\ Later(call) = Later(call') + IntMax + 6
      BY <2>4, <3>1, LaterFacts DEF IInv, TypeOK
    <3> QED BY <2>1, <2>4, <3>2, WidthsSuffice
  <2> USE WidthsSuffice DEF IInv, TypeOK, InCall
  <2>5. CASE Call \/ RejectNull \/ MallocFails \/ Judge
    BY <2>3, <2>5 DEF Call, RejectNull, MallocFails, Judge
  <2>6. CASE Malloc
    BY <2>3, <2>6 DEF Malloc
  <2>7. CASE CopyChar \/ Terminate
    BY <2>3, <2>7 DEF CopyChar, Terminate, Copying
  <2>8. CASE PrintMessage
    BY <2>4, <2>8 DEF PrintMessage
  <2>9. CASE Free
    BY <2>3, <2>4, <2>9 DEF Free
  <2> QED BY <2>5, <2>6, <2>7, <2>8, <2>9 DEF Next, allocate_string
<1> QED BY <1>1, Invariance, PTL DEF Spec, StepsCount
-----------------------------------------------------------------------------
(* The block that malloc hands out is nobody's. *)
Fresh == pc \in {"call", "enter"} => \A c \in live : c < call

LEMMA FreshInvariance == Spec => [](IInv /\ Fresh)
<1>1. Init => Fresh
  BY DEF Init, Fresh
<1>2. IInv /\ Fresh /\ [Next]_vars => Fresh'
  <2> SUFFICES ASSUME IInv, Fresh, [Next]_vars PROVE Fresh'
    OBVIOUS
  <2> USE DEF IInv, TypeOK, Fresh
  <2>1. CASE Call \/ RejectNull \/ MallocFails \/ Malloc \/ CopyChar \/ Terminate \/ Judge
    BY <2>1 DEF Call, RejectNull, MallocFails, Malloc, Obtained, CopyChar, Filled, Terminate, Terminated, Judge
  <2>2. CASE PrintMessage
    <3>1. live \subseteq {1}
      BY <2>2 DEF PrintMessage, Returned, Owned, NULL, Calls
    <3> QED BY <2>2, <3>1 DEF PrintMessage
  <2>3. CASE Free
    <3>1. live' \subseteq {1}
      BY <2>3 DEF Free, Released, Owned
    <3>2. pc' = "call" => call' \in 2 .. 5
      BY <2>3 DEF Free, Released, Calls
    <3> QED BY <2>3, <3>1, <3>2 DEF Free, Released
  <2>4. CASE UNCHANGED vars
    BY <2>4 DEF vars
  <2> QED BY <2>1, <2>2, <2>3, <2>4 DEF Next, allocate_string
<1> QED BY <1>1, <1>2, Invariance, NextInv, PTL DEF Spec

(* The state of StringCopies that stands for a state of exo1. *)
asked == IF pc \in {"enter", "copy"} THEN <<Argument[call]>> ELSE <<>>
finished == live \ (IF pc = "copy" THEN {alloc} ELSE {})
owned == [b \in finished |-> block[b]]

(* A step that keeps the request and the finished blocks is a stutter. *)
LEMMA Stutter ==
  ASSUME asked' = asked, finished' = finished, \A b \in finished : block'[b] = block[b]
  PROVE  UNCHANGED Copies!vars
BY DEF asked, finished, Copies!vars

(* The copying loop implements the one-step contract of StringCopies. *)
THEOREM Refinement == Spec => ImplementsCopies
<1>1. Init => Copies!Init
  BY DEF Init, Copies!Init
<1>2. IInv /\ Fresh /\ [Next]_vars => [Copies!Next]_Copies!vars
  <2> SUFFICES ASSUME IInv, Fresh, [Next]_vars PROVE [Copies!Next]_Copies!vars
    OBVIOUS
  <2> USE DEF IInv, TypeOK
  <2>1. CASE Call
    <3>1. asked = <<>> /\ asked' = <<Argument[call]>> /\ finished' = finished /\ block' = block
      BY <2>1 DEF Call, asked, finished
    <3>2. owned' = owned
      BY <3>1 DEF owned
    <3>3. Copies!Ask
      BY <3>1, <3>2 DEF Copies!Ask, asked, owned, finished
    <3> QED BY <3>3 DEF Copies!Next
  <2>2. CASE RejectNull \/ MallocFails
    <3>1. asked # <<>> /\ asked' = <<>> /\ finished' = finished /\ block' = block
      BY <2>2 DEF RejectNull, MallocFails, asked, finished
    <3>2. Copies!AnswerNull
      BY <3>1 DEF Copies!AnswerNull, asked, finished
    <3> QED BY <3>2 DEF Copies!Next
  <2>3. CASE Malloc
    <3>1. call \notin live
      BY <2>3 DEF Malloc, Obtained, Fresh, Calls
    <3>2. asked' = asked /\ finished = live /\ finished' = live
      BY <2>3, <3>1 DEF Malloc, Obtained, asked, finished
    <3>3. \A b \in finished : block'[b] = block[b]
      BY <2>3, <3>1, <3>2 DEF Malloc, Obtained
    <3> QED BY <3>2, <3>3, Stutter
  <2>4. CASE CopyChar
    <3>1. asked' = asked /\ finished' = finished /\ alloc \notin finished
      BY <2>4 DEF CopyChar, Filled, asked, finished
    <3>2. \A b \in finished : block'[b] = block[b]
      BY <2>4, <3>1 DEF CopyChar, Filled, finished
    <3> QED BY <3>1, <3>2, Stutter
  <2>5. CASE Terminate
    <3>1. /\ call # 4 /\ alloc = call /\ call \in live /\ call \in Calls
          /\ string = Argument[call].string /\ length = Argument[call].length
      BY <2>5 DEF Terminate, Terminated, Copying, Arguments
    <3>2. asked = <<Argument[call]>> /\ asked' = <<>>
      BY <2>5 DEF Terminate, Terminated, asked
    <3>3. finished = live \ {call} /\ finished' = finished \cup {call}
      BY <2>5, <3>1 DEF Terminate, Terminated, finished
    <3>4. \A b \in finished : block'[b] = block[b]
      BY <2>5, <3>1, <3>3 DEF Terminate, Terminated
    <3>5. block'[call] = Copies!CopyOf(Argument[call])
      <4>1. Returned' /\ pc' = "return" /\ alloc' = call /\ call' = call
            /\ length' = length /\ string' = string
        BY <2>5, <3>1, NextInv DEF Terminate, Terminated
      <4>2. block'[call] = [k \in 0 .. length |->
                             IF k < length THEN Text[string][k] ELSE NUL]
        BY <3>1, <4>1 DEF Returned, NULL, Calls
      <4> QED BY <3>1, <4>2 DEF Copies!CopyOf
    <3>6. asked[1].string \in DOMAIN Text
      BY <3>1, <3>2, ArgumentFacts DEF Text
    <3>7. owned' = [c \in finished \cup {call} |->
                     IF c = call THEN Copies!CopyOf(asked[1]) ELSE owned[c]]
      BY <3>2, <3>3, <3>4, <3>5 DEF owned
    <3>8. Copies!AnswerCopy
      BY <3>1, <3>2, <3>3, <3>6, <3>7 DEF Copies!AnswerCopy, asked, owned, finished
    <3> QED BY <3>8 DEF Copies!Next
  <2>6. CASE PrintMessage \/ Judge
    <3>1. asked' = asked /\ finished' = finished /\ block' = block
      BY <2>6 DEF PrintMessage, Judge, asked, finished
    <3> QED BY <3>1, Stutter
  <2>7. CASE Free
    <3>1. asked = <<>> /\ asked' = <<>> /\ finished = live /\ finished' = live \ {alloc}
      BY <2>7 DEF Free, Released, asked, finished
    <3>2. \A b \in finished' : block'[b] = block[b]
      BY <2>7, <3>1 DEF Free, Released
    <3>3. CASE alloc \in live
      <4>1. owned' = [c \in finished \ {alloc} |-> owned[c]]
        BY <3>1, <3>2 DEF owned
      <4>2. Copies!Release
        BY <3>1, <3>3, <4>1 DEF Copies!Release, asked, owned, finished
      <4> QED BY <4>2 DEF Copies!Next
    <3>4. CASE alloc \notin live
      BY <3>1, <3>2, <3>4, Stutter
    <3> QED BY <3>3, <3>4
  <2>8. CASE UNCHANGED vars
    BY <2>8, Stutter DEF vars, asked, finished
  <2> QED
    BY <2>1, <2>2, <2>3, <2>4, <2>5, <2>6, <2>7, <2>8 DEF Next, allocate_string
<1> QED BY <1>1, <1>2, FreshInvariance, PTL DEF Spec, ImplementsCopies, Copies!Spec
=============================================================================
