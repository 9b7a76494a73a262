----------------------------- MODULE RenduProofs -----------------------------
(***************************************************************************)
(* Proofs about rendu.sh for every set of branches and any number of       *)
(* versions, with any use of git by the student while it runs.             *)
(***************************************************************************)
EXTENDS Rendu, TLAPS

(* Nobody holds a newer script than origin/<branch>, nor it than the server. *)
Held(c) == c = Absent \/ c.version <= tracking[c.lab]
Published == /\ \A l \in Lab : tracking[l] <= remote[l]
             /\ \A l \in Lab : Held(local[l])
             /\ Held(work)

(* What an uncrossed run has asked for so far. *)
OwnBranch == ~crossed => /\ pc = "branch" => where # "away"
                         /\ Underway => LAB = head

(* What a sound call of a known .rendu.sh has come to. *)
Bound == sound /\ known # Absent =>
  /\ pc = "branch" => where # "away" /\ head = known.lab
  /\ Underway => LAB = known.lab
  /\ pc \in {"branch", "cd", "checkout"} => known.version <= tracking[known.lab]
  /\ pc \in {"checkout", "execute"} => where = "root"
  /\ pc = "execute" => work # Absent /\ work.lab = known.lab /\ work.version >= known.version

IInv == TypeOK /\ Published /\ OwnBranch /\ Bound /\ LabsNotMixed /\ RunsWhatWasKnown

(* A copy is absent, or the copy of a branch. *)
LEMMA CopyCases == /\ Absent \in Content /\ Absent.lab = NoBranch /\ Absent.version = 0
                   /\ \A c \in Content : c # Absent => c.lab \in Lab /\ c.version \in 1 .. MaxVersion
BY Bounds DEF Content, Absent, Copy

(* What origin/<branch> has, if anything, is of that branch and its version. *)
LEMMA OriginOf == ASSUME TypeOK, NEW l \in Lab
                  PROVE  /\ Origin(l) \in Content
                         /\ Origin(l) = Absent <=> tracking[l] = 0
                         /\ Origin(l) # Absent => Origin(l).lab = l /\ Origin(l).version = tracking[l]
<1>1. tracking[l] \in 0 .. MaxVersion
  BY DEF TypeOK
<1>2. CASE tracking[l] = 0
  BY <1>1, <1>2, CopyCases DEF Origin
<1>3. CASE tracking[l] # 0
  <2>1. tracking[l] \in 1 .. MaxVersion
    BY <1>1, <1>3, Bounds
  <2>2. Origin(l) = Copy(l, tracking[l])
    BY <1>3 DEF Origin
  <2>3. Copy(l, tracking[l]) \in Content /\ Copy(l, tracking[l]) # Absent
    BY <2>1, Bounds DEF Content, Copy, Absent
  <2> QED BY <1>3, <2>2, <2>3 DEF Copy
<1> QED BY <1>2, <1>3

LEMMA InitIInv == Init => IInv
<1> SUFFICES ASSUME Init PROVE IInv
  OBVIOUS
<1>1. TypeOK
  <2>1. 0 \in 0 .. MaxVersion
    BY Bounds
  <2> QED BY <2>1, Bounds, CopyCases DEF Init, TypeOK
<1>2. Published
  BY Bounds DEF Init, Published, Held
<1>3. OwnBranch /\ Bound /\ LabsNotMixed /\ RunsWhatWasKnown
  BY Bounds DEF Init, OwnBranch, Bound, Underway, LabsNotMixed, RunsWhatWasKnown
<1> QED BY <1>1, <1>2, <1>3 DEF IInv

LEMMA NextIInv == IInv /\ [Next]_vars => IInv'
<1> SUFFICES ASSUME IInv, [Next]_vars PROVE IInv'
  OBVIOUS
<1> USE Bounds, CopyCases, OriginOf
        DEF IInv, TypeOK, Published, Held, OwnBranch, Bound, Underway,
            LabsNotMixed, RunsWhatWasKnown, served, tree, script
<1>1. ASSUME NEW l \in Lab, Publish(l) PROVE IInv'
  BY <1>1 DEF Publish
<1>2. CASE Fetch
  BY <1>2 DEF Fetch
<1>3. CASE Merge
  <2>1. /\ Origin(head) \in Content /\ Origin(head) # Absent
        /\ Origin(head).lab = head /\ Origin(head).version = tracking[head]
    BY <1>3 DEF Merge
  <2>2. /\ work' = Origin(head) /\ local' = [local EXCEPT ![head] = Origin(head)]
        /\ UNCHANGED <<served, head, script, known, crossed>>
        /\ sound' = (sound /\ (pc = "branch" => head' = head) /\ (pc = "execute" => work' = work))
    BY <1>3 DEF Merge, Bears
  <2> HIDE OriginOf
  <2>3. TypeOK' /\ Published' /\ OwnBranch' /\ LabsNotMixed' /\ RunsWhatWasKnown'
    BY <2>1, <2>2
  <2>4. Bound'
    BY <2>1, <2>2
  <2> QED BY <2>3, <2>4
<1>4. CASE Commit
  BY <1>4 DEF Commit, Clean
<1>5. CASE Restore
  BY <1>5 DEF Restore, Clean, Bears
<1>6. ASSUME NEW l \in Lab, Switch(l) PROVE IInv'
  <2>1. /\ l # head /\ head' = l /\ UNCHANGED <<served, local, script, known>>
        /\ \/ work = local[head] /\ work' = local[l]
           \/ work' = work
        /\ sound' = (sound /\ (pc = "branch" => head' = head) /\ (pc = "execute" => work' = work))
        /\ crossed' = (crossed \/ Underway \/ work' # local[l])
    BY <1>6 DEF Switch, Clean, Bears
  <2> HIDE OriginOf
  <2>2. TypeOK' /\ Published'
    BY <2>1
  <2>3. OwnBranch' /\ LabsNotMixed'
    <3>1. SUFFICES ASSUME ~crossed' PROVE (OwnBranch /\ LabsNotMixed)'
      BY <2>1
    <3>2. ~crossed /\ ~Underway /\ work' = local[l]
      BY <2>1, <3>1
    <3> QED BY <2>1, <3>2
  <2>4. Bound' /\ RunsWhatWasKnown'
    BY <2>1
  <2> QED BY <2>2, <2>3, <2>4
<1>7. CASE Start
  <2>1. /\ pc' = "branch" /\ where' \in {"root", "below", "away"}
        /\ UNCHANGED <<served, tree, LAB, ran>>
    BY <1>7 DEF Start
  <2>2. known' = Origin(head) /\ (sound' = (where' # "away")) /\ (crossed' = (crossed \/ where' = "away"))
    BY <1>7 DEF Start
  <2>3. /\ Origin(head) \in Content
        /\ Origin(head) # Absent => Origin(head).lab = head /\ Origin(head).version = tracking[head]
    OBVIOUS
  <2> HIDE OriginOf
  <2>4. TypeOK' /\ Published'
    BY <2>1, <2>2, <2>3
  <2>5. OwnBranch' /\ LabsNotMixed'
    BY <2>1, <2>2
  <2>6. Bound' /\ RunsWhatWasKnown'
    <3>1. SUFFICES ASSUME sound', known' # Absent PROVE Bound'
      BY <2>1
    <3>2. where' # "away" /\ known'.lab = head /\ known'.version = tracking[head] /\ head \in Lab
      BY <2>2, <2>3, <3>1
    <3>3. tracking[head] \in Nat
      BY <3>2
    <3> QED BY <2>1, <3>2, <3>3
  <2> QED BY <2>4, <2>5, <2>6
<1>8. CASE ReadBranch
  BY <1>8 DEF ReadBranch, Branches
<1>9. CASE Cd
  BY <1>9 DEF Cd
<1>10. CASE CdFails
  <2>1. /\ pc = "cd" /\ pc' = "checkout" /\ where' \in {where, "away"}
        /\ UNCHANGED <<served, tree, LAB, ran, known, crossed>>
    BY <1>10 DEF CdFails
  <2>2. sound' = (sound /\ where' = "root")
    BY <1>10 DEF CdFails
  <2> HIDE OriginOf
  <2>3. TypeOK' /\ Published' /\ OwnBranch' /\ LabsNotMixed'
    BY <2>1, <2>2
  <2>4. Bound' /\ RunsWhatWasKnown'
    BY <2>1, <2>2
  <2> QED BY <2>3, <2>4
<1>11. CASE Checkout
  BY <1>11 DEF Checkout, Available, Source
<1>12. CASE CheckoutFails
  BY <1>12 DEF CheckoutFails, Available, Source
<1>13. CASE IndexLocked
  BY <1>13 DEF IndexLocked
<1>14. CASE Launch \/ NoLaunch
  BY <1>14 DEF Launch, NoLaunch, Found
<1>15. CASE UNCHANGED vars
  BY <1>15 DEF vars
<1> QED
  BY <1>1, <1>2, <1>3, <1>4, <1>5, <1>6, <1>7, <1>8, <1>9, <1>10, <1>11, <1>12, <1>13, <1>14, <1>15
  DEF Next, Script, Student

LEMMA Invariance == Spec => []IInv
BY InitIInv, NextIInv, PTL DEF Spec

(* Every variable of rendu.sh and of the repository keeps its type. *)
THEOREM TypeCorrect == Spec => []TypeOK
<1>1. IInv => TypeOK
  BY DEF IInv
<1> QED BY <1>1, Invariance, PTL

(* Only the three ways that LabsNotMixed names mix the scripts of two
   laboratories: a call from elsewhere, a switch of branch between lines 6 and
   13, a switch of branch that takes an uncommitted script along. *)
THEOREM LabsStayApart == Spec => []LabsNotMixed
<1>1. IInv => LabsNotMixed
  BY DEF IInv
<1> QED BY <1>1, Invariance, PTL

(* A call in the repository runs the script that origin/<branch> had then or a
   newer one of that branch, outside the exemptions of RunsWhatWasKnown: a
   switch before line 6, a locked index, a tree changed between lines 13 and
   15, a failed cd. *)
THEOREM KnownVersionRuns == Spec => []RunsWhatWasKnown
<1>1. IInv => RunsWhatWasKnown
  BY DEF IInv
<1> QED BY <1>1, Invariance, PTL

(* No run replaces a script by an older one of the same laboratory. *)
THEOREM UpdatesOnly == Spec => NoDowngrade
<1>1. IInv /\ [Next]_vars =>
        [pc = "checkout" /\ pc' = "execute" /\ work'.lab = work.lab => work'.version >= work.version]_vars
  <2> SUFFICES ASSUME IInv, Next, pc = "checkout", pc' = "execute", work'.lab = work.lab
               PROVE  work'.version >= work.version
    OBVIOUS
  <2>0. TypeOK /\ Held(work)
    BY DEF IInv, Published
  <2>1. CASE Checkout
    <3>1. /\ LAB \in Lab /\ work' = Origin(LAB) /\ work' # Absent
      BY <2>1 DEF Checkout, Available, Source
    <3>2. work'.lab = LAB /\ work'.version = tracking[LAB] /\ LAB # NoBranch
      BY <2>0, <3>1, OriginOf, Bounds
    <3>3. work # Absent
      BY <3>2, CopyCases
    <3>4. work.version <= tracking[LAB] /\ work.version \in Nat /\ tracking[LAB] \in Nat
      BY <2>0, <3>1, <3>2, <3>3, CopyCases, Bounds DEF Held, TypeOK
    <3> QED BY <3>2, <3>4
  <2>2. CASE work' = work
    <3>1. work.version \in Nat
      BY <2>0, CopyCases, Bounds DEF TypeOK, Absent, Copy
    <3> QED BY <2>2, <3>1
  <2> QED BY <2>1, <2>2 DEF Next, Script, Student, Publish, Fetch, Merge, Commit, Restore, Switch, Start,
                            ReadBranch, Cd, CdFails, CheckoutFails, IndexLocked, Launch, NoLaunch, tree, script
<1> QED BY <1>1, Invariance, PTL DEF Spec, NoDowngrade
=============================================================================
