-------------------------------- MODULE Build --------------------------------
(***************************************************************************)
(* What c/Makefile promises those who run its executables while it works:  *)
(* a target cannot be started, or is one whole executable, linked from a   *)
(* text of its source that was there and builds, with archives no newer    *)
(* than those that are there; to change an executable is to remove it      *)
(* first.  Several makes at once may also mix two executables.  Neither    *)
(* make nor its recipes, objects and failures are seen here.               *)
(***************************************************************************)
EXTENDS Naturals

CONSTANTS Src,      \* the .c files
          Target,   \* the names in TARGET
          SourceOf, \* the .c file behind each target
          Overlap   \* whether several makes may run at the same time

VARIABLES built,   \* per .c file, when each of its texts that build was written
          archive, \* when the archives were last written
          exe      \* per target, {} or the executable that can be started
vars == <<built, archive, exe>>

Init == /\ built = [s \in Src |-> {1}]
        /\ archive = 1
        /\ exe = [t \in Target |-> {}]

\* A text that builds is saved; one that does not changes nothing here.
Write(s) == /\ \E new \in built'[s] : /\ \A old \in built[s] : old < new
                                      /\ built' = [built EXCEPT ![s] = built[s] \cup {new}]
            /\ UNCHANGED <<archive, exe>>

NewArchives == archive' > archive /\ UNCHANGED <<built, exe>>

Remove == /\ \E ts \in SUBSET Target : exe' = [t \in Target |-> IF t \in ts THEN {} ELSE exe[t]]
          /\ UNCHANGED <<built, archive>>

Install(t) == /\ exe[t] = {}
              /\ \E text \in built[SourceOf[t]], a \in 1 .. archive :
                   exe' = [exe EXCEPT ![t] = {[from |-> text, also |-> a]}]
              /\ UNCHANGED <<built, archive>>

Mix(t) == /\ Overlap /\ exe[t] = {}
          /\ exe' = [exe EXCEPT ![t] = {[from |-> 0, also |-> 0]}]
          /\ UNCHANGED <<built, archive>>

Next == \/ \E s \in Src : Write(s)
        \/ NewArchives
        \/ Remove
        \/ \E t \in Target : Install(t) \/ Mix(t)

Spec == Init /\ [][Next]_vars
=============================================================================
