-------------------------------- MODULE Rendu --------------------------------
(***************************************************************************)
(* rendu.sh, which refreshes the .rendu.sh of the repository from origin   *)
(* and runs it, while the student uses git in the same repository and the  *)
(* teachers publish newer versions.  Every laboratory is a branch; a       *)
(* .rendu.sh is known by the branch and version it was published as.       *)
(***************************************************************************)
EXTENDS Naturals

NoBranch == ""  \* what git prints where there is no branch

CONSTANTS Lab,        \* the branches
          FirstLab,   \* the one the repository starts on
          MaxVersion  \* bound on the versions of a .rendu.sh

ASSUME Bounds == FirstLab \in Lab /\ MaxVersion \in Nat /\ NoBranch \notin Lab

VARIABLES remote, tracking,   \* per branch, the version at the server and of origin/<branch>
          local, work, head,  \* committed per branch, in the working tree, current branch
          pc, where, LAB,     \* the script, its current directory, the branch it has read
          ran,                \* what the last ./.rendu.sh was
          known,              \* the .rendu.sh that origin/<branch> had at the call
          sound,              \* nothing has yet come in the way of the call
          crossed             \* the labs were crossed, in a way that LabsNotMixed names
served == <<remote, tracking>>
tree == <<local, work, head>>
script == <<pc, where, LAB, ran>>
vars == <<served, tree, script, known, sound, crossed>>

Copy(l, v) == [lab |-> l, version |-> v]
Absent == Copy(NoBranch, 0)   \* no .rendu.sh
Foreign == Copy(NoBranch, 1)  \* the .rendu.sh of some other directory

Init == /\ remote = [l \in Lab |-> 0] /\ tracking = remote
        /\ local = [l \in Lab |-> Absent] /\ work = Absent /\ head = FirstLab
        /\ pc = "idle" /\ where = "root" /\ LAB = NoBranch /\ ran = Absent
        /\ known = Absent /\ sound = FALSE /\ crossed = FALSE

\* The .rendu.sh of origin/<branch>.
Origin(l) == IF tracking[l] = 0 THEN Absent ELSE Copy(l, tracking[l])

Publish(l) == /\ remote[l] < MaxVersion
              /\ remote' = [remote EXCEPT ![l] = remote[l] + 1]
              /\ UNCHANGED <<tracking, tree, script, known, sound, crossed>>

Fetch == /\ tracking' = remote
         /\ UNCHANGED <<remote, tree, script, known, sound, crossed>>

Clean == work = local[head]
Underway == pc \in {"cd", "checkout"}

\* A call stays sound unless its branch changes before line 6 has asked for it,
\* or its script changes between lines 13 and 15.
Bears == sound' = (sound /\ (pc = "branch" => head' = head) /\ (pc = "execute" => work' = work))

\* git merge origin/<head>, of a script the branch does not have.
Merge == /\ Origin(head) # Absent
         /\ Clean \/ work = Origin(head)
         /\ local[head].lab = head => local[head].version < tracking[head]
         /\ work' = Origin(head)
         /\ local' = [local EXCEPT ![head] = work']
         /\ UNCHANGED <<served, head, script, known, crossed>> /\ Bears

Commit == /\ ~Clean /\ local' = [local EXCEPT ![head] = work]
          /\ UNCHANGED <<served, work, head, script, known, sound, crossed>>

\* git restore --staged --worktree .rendu.sh
Restore == /\ ~Clean /\ work' = local[head]
           /\ UNCHANGED <<served, local, head, script, known, crossed>> /\ Bears

\* git switch takes the .rendu.sh of the branch, or keeps an uncommitted one
\* when both branches have the same or when it is that of the new branch.
Switch(l) == /\ l # head /\ head' = l
             /\ \/ Clean /\ work' = local[l]
                \/ local[l] \in {local[head], work} /\ work' = work
             /\ Bears
             /\ crossed' = (crossed \/ Underway \/ work' # local[l])
             /\ UNCHANGED <<served, local, script, known>>

\* rendu.sh is called in the root of the repository, below it, or elsewhere.
Start == /\ pc = "idle" /\ pc' = "branch"
         /\ where' \in {"root", "below", "away"}
         /\ known' = Origin(head) /\ sound' = (where' # "away")
         /\ crossed' = (crossed \/ where' = "away")
         /\ UNCHANGED <<served, tree, LAB, ran>>

(* Mutants of Branches: the branch is asked for in another directory even when
   the call is made in the repository; the message on stderr is captured. *)
BranchesElsewhere == Lab \cup {NoBranch}
BranchesMessage == IF where = "away" THEN {"fatal: not a git repository"} ELSE {head}

\* What git branch --show-current prints in the current directory.
Branches == IF where = "away" THEN Lab \cup {NoBranch} ELSE {head}

ReadBranch == /\ pc = "branch" /\ pc' = "cd" /\ LAB' \in Branches
              /\ UNCHANGED <<served, tree, where, ran, known, sound, crossed>>

Cd == /\ pc = "cd" /\ pc' = "checkout" /\ where' = "root"
      /\ UNCHANGED <<served, tree, LAB, ran, known, sound, crossed>>

\* The unquoted $(dirname ...) of line 4 cuts a path at its blanks: cd fails, or
\* enters the directory that the first piece names.
CdFails == /\ pc = "cd" /\ pc' = "checkout" /\ where' \in {where, "away"}
           /\ sound' = (sound /\ where' = "root")
           /\ UNCHANGED <<served, tree, LAB, ran, known, crossed>>

(* Mutant of Source: the local branch is checked out, not origin/<branch>. *)
SourceLocal(l) == local[l]

\* What line 13 checks out.
Source(l) == Origin(l)

\* There is such a branch and a .rendu.sh in it, and the path is right.
Available == where = "root" /\ LAB \in Lab /\ Source(LAB) # Absent

Checkout == /\ pc = "checkout" /\ pc' = "execute" /\ Available
            /\ work' = Source(LAB)
            /\ UNCHANGED <<served, local, head, where, LAB, ran, known, sound, crossed>>

\* The message goes to /dev/null; elsewhere, git leaves this repository alone.
CheckoutFails == /\ pc = "checkout" /\ pc' = "execute" /\ ~Available
                 /\ UNCHANGED <<served, tree, where, LAB, ran, known, sound, crossed>>

\* Another git command, of the student or the IDE, holds the index.
IndexLocked == /\ pc = "checkout" /\ pc' = "execute" /\ where = "root" /\ sound' = FALSE
               /\ UNCHANGED <<served, tree, where, LAB, ran, known, crossed>>

\* What ./.rendu.sh can be in the current directory.
Found == [root |-> {work}, below |-> {Absent}, away |-> {Absent, Foreign}][where]

Launch == /\ pc = "execute" /\ pc' = "idle" /\ ran' \in Found \ {Absent}
          /\ LAB' = NoBranch
          /\ UNCHANGED <<served, tree, where, known, sound, crossed>>

\* No such file: the shell says so and the script ends.
NoLaunch == /\ pc = "execute" /\ pc' = "idle" /\ Absent \in Found /\ ran' = Absent
            /\ LAB' = NoBranch
            /\ UNCHANGED <<served, tree, where, known, sound, crossed>>

Script == ReadBranch \/ Cd \/ CdFails \/ Checkout \/ CheckoutFails \/ IndexLocked \/ Launch \/ NoLaunch
Student == Fetch \/ Merge \/ Commit \/ Restore \/ (\E l \in Lab : Switch(l)) \/ Start
Next == Script \/ Student \/ \E l \in Lab : Publish(l)

\* A started script goes on; nobody has to start it or to use git.
Spec == Init /\ [][Next]_vars /\ WF_vars(Script)
-----------------------------------------------------------------------------
Content == [lab : Lab, version : 1 .. MaxVersion] \cup {Absent}

TypeOK == /\ remote \in [Lab -> 0 .. MaxVersion] /\ tracking \in [Lab -> 0 .. MaxVersion]
          /\ local \in [Lab -> Content] /\ work \in Content /\ head \in Lab
          /\ pc \in {"idle", "branch", "cd", "checkout", "execute"}
          /\ where \in {"root", "below", "away"} /\ LAB \in Lab \cup {NoBranch}
          /\ ran \in Content \cup {Foreign} /\ known \in Content
          /\ sound \in BOOLEAN /\ crossed \in BOOLEAN

(* The script of one laboratory comes into the tree or a commit of another
   only by three ways: a call of rendu.sh outside the repository, whose branch
   is asked for out there; a switch of branch while a call stands between lines
   6 and 13; a switch of branch that takes an uncommitted .rendu.sh along, such
   as line 13 leaves.  Until one of them was gone, the labs stay apart, failed
   checkouts and any order of calls, merges and commits included
   (rendu.sh:6-13). *)
LabsNotMixed == ~crossed => /\ work = Absent \/ work.lab = head
                            /\ \A l \in Lab : local[l] = Absent \/ local[l].lab = l

(* A call made in the repository, when origin/<branch> had a .rendu.sh, has run
   that one or a newer one of that branch, whatever the labs were mixed to
   before it and even if the branch was switched after line 6.  Exempt are the
   calls during which the branch was switched before line 6 had read it, the
   index was locked at line 13, the .rendu.sh of the tree was changed between
   lines 13 and 15, or line 8 failed to enter the root (rendu.sh:6-15). *)
RunsWhatWasKnown ==
  pc = "idle" /\ sound /\ known # Absent => ran.lab = known.lab /\ ran.version >= known.version

(* An update never replaces a script by an older one of the same laboratory
   (comment at rendu.sh:10-12). *)
NoDowngrade ==
  [][pc = "checkout" /\ pc' = "execute" /\ work'.lab = work.lab => work'.version >= work.version]_vars

(* "This script tries to update the .rendu.sh script from git" (rendu.sh:10):
   what line 13 brings into the tree is a .rendu.sh of the tree's branch. *)
UpdatesOwnScript == [][pc = "checkout" /\ pc' = "execute" /\ work' # work => work'.lab = head]_vars
=============================================================================
