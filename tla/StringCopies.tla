---------------------------- MODULE StringCopies ----------------------------
(***************************************************************************)
(* What allocate_string (c/exo1.c) promises its callers: a request is      *)
(* answered in one step, by NULL or by a block nobody owned that holds the *)
(* characters asked for and a NUL; the block is the caller's until freed.  *)
(***************************************************************************)
EXTENDS Integers, Sequences

CONSTANTS Text,    \* the string behind each valid pointer
          NUL,
          Request, \* the requests [string, length] that callers make
          Block    \* the blocks the heap can hand out

VARIABLES request, \* <<>>, or the one request being served
          copies   \* the string in each block a caller owns
vars == <<request, copies>>

Init == request = <<>> /\ copies = <<>>

CopyOf(r) == [k \in 0 .. r.length |-> IF k < r.length THEN Text[r.string][k] ELSE NUL]

Ask == /\ request = <<>>
       /\ \E r \in Request : request' = <<r>>
       /\ UNCHANGED copies

AnswerNull == request # <<>> /\ request' = <<>> /\ UNCHANGED copies

AnswerCopy == /\ request # <<>> /\ request' = <<>>
              /\ request[1].string \in DOMAIN Text
              /\ \E b \in Block \ DOMAIN copies :
                   copies' = [c \in DOMAIN copies \cup {b} |->
                                IF c = b THEN CopyOf(request[1]) ELSE copies[c]]

Release == /\ request = <<>>
           /\ \E b \in DOMAIN copies :
                copies' = [c \in DOMAIN copies \ {b} |-> copies[c]]
           /\ UNCHANGED request

Next == Ask \/ AnswerNull \/ AnswerCopy \/ Release

Spec == Init /\ [][Next]_vars
=============================================================================
